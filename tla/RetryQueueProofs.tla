-------------------------- MODULE RetryQueueProofs --------------------------
(***************************************************************************)
(* Theorems about RetryQueue for every schedule and every bound.           *)
(***************************************************************************)
EXTENDS RetryQueue, ListsProofs, TLAPS

(* -------------------- types and conservation --------------------------- *)

Conserving == TypeOK /\ EntriesConserved

(* What parsing leaves of a sound value is a vector of durations.          *)
LEMMA BackoffsAreDurations ==
    ASSUME NEW fields \in Configs, ~Misconfigured(fields)
    PROVE  RetryBackoffs(fields) \in Seq(Nat)
<1>. DEFINE Fields == Nat \cup {Blank, Junk}  Sound == Nat \cup {Junk}
            kept == Only(fields, Sound)
<1>1. fields \in Seq(Fields)  BY QueueAssumption
<1>2. /\ kept \in Seq(Fields \cap Sound)
      /\ \A i \in 1 .. Len(kept) : \E j \in 1 .. Len(fields) : kept[i] = fields[j]
  <2>. HIDE DEF Fields, Sound
  <2>1. Sifted(kept, Fields, fields, Sound)  BY <1>1, OnlySifts
  <2>. HIDE DEF kept
  <2>. QED  BY <2>1 DEF Sifted
<1>. HIDE DEF kept
<1>3. \A i \in 1 .. Len(kept) : kept[i] \in Nat
  <2>. SUFFICES ASSUME NEW i \in 1 .. Len(kept)  PROVE kept[i] \in Nat  OBVIOUS
  <2>1. kept[i] \in Sound  BY <1>2
  <2>2. PICK j \in 1 .. Len(fields) : kept[i] = fields[j]  BY <1>2
  <2>3. fields[j] # Junk  BY <1>1 DEF Misconfigured
  <2>. QED  BY <2>1, <2>2, <2>3
<1>4. kept \in Seq(Nat)
  <2>1. Len(kept) \in Nat /\ kept = [i \in 1 .. Len(kept) |-> kept[i]]  BY <1>2
  <2>. QED  BY <1>3, <2>1
<1>. QED  BY <1>4 DEF RetryBackoffs, kept

LEMMA InitConserving == Init => Conserving
  BY QueueAssumption, BackoffsAreDurations
     DEF Init, Conserving, TypeOK, EntriesConserved, Ids, PCs

(* An entry that is put in gets a number of its own.                       *)
LEMMA ScheduleConserves ==
    ASSUME Conserving, NEW attempt, Schedule(attempt)
    PROVE  Conserving'
<1>. DEFINE new == [id |-> scheduled + 1, left |-> schedule[attempt]]
<1>1. /\ new.id = scheduled + 1 /\ new.id \in Ids /\ new.left \in Int
      /\ new \in [id : Ids, left : Int]
  BY QueueAssumption DEF Conserving, TypeOK, Schedule, Ids
<1>2. heap' = heap \cup {new}  BY DEF Schedule
<1>3. TypeOK'  BY <1>1, <1>2, QueueAssumption DEF Conserving, TypeOK, Schedule, Ids, PCs
<1>4. \A e \in heap : e.id # scheduled + 1
  BY DEF Conserving, TypeOK, EntriesConserved
<1>5. scheduled + 1 \notin taken
  BY DEF Conserving, TypeOK, EntriesConserved
<1>. HIDE DEF new
<1>6. EntriesConserved'
  <2>1. {e.id : e \in heap'} = {e.id : e \in heap} \cup {scheduled + 1}  BY <1>1, <1>2
  <2>2. 1 .. scheduled' = (1 .. scheduled) \cup {scheduled + 1}
    BY DEF Schedule, Conserving, TypeOK
  <2>3. taken' = taken  BY DEF Schedule
  <2>. QED  BY <1>1, <1>2, <1>4, <1>5, <2>1, <2>2, <2>3
            DEF Conserving, EntriesConserved
<1>. QED  BY <1>3, <1>6 DEF Conserving

LEMMA PeekConserves == Conserving /\ Peek => Conserving'
  BY QueueAssumption
     DEF Conserving, TypeOK, EntriesConserved, Peek, IsTop, AtLeastZero, PCs

LEMMA CheckConserves == ASSUME Conserving, Check PROVE Conserving'
<1>1. CASE \E top \in heap :
              /\ IsTop(top) /\ top.left <= 0
              /\ heap' = heap \ {top}
              /\ taken' = taken \cup {top.id}
              /\ pc' = "retrying"
  <2>1. PICK top \in heap : /\ heap' = heap \ {top}
                            /\ taken' = taken \cup {top.id}
                            /\ pc' = "retrying"
    BY <1>1
  <2>2. UNCHANGED <<schedule, scheduled, sleep>>  BY DEF Check
  <2>3. top.id \in Ids /\ \A e \in heap' : e.id # top.id
    BY <2>1 DEF Conserving, TypeOK, EntriesConserved
  <2>4. TypeOK'  BY <2>1, <2>2, <2>3 DEF Conserving, TypeOK, PCs
  <2>5. taken' \cup {e.id : e \in heap'} = taken \cup {e.id : e \in heap}  BY <2>1
  <2>6. EntriesConserved'
    BY <2>1, <2>2, <2>3, <2>5 DEF Conserving, EntriesConserved
  <2>. QED  BY <2>4, <2>6 DEF Conserving
<1>2. CASE pc' = "start" /\ UNCHANGED <<heap, taken>>
  BY <1>2 DEF Check, Conserving, TypeOK, EntriesConserved, PCs
<1>. QED  BY <1>1, <1>2 DEF Check

LEMMA LaterFacts ==
    ASSUME NEW e \in [id : Ids, left : Int]
    PROVE  /\ Later(e) \in [id : Ids, left : Int]
           /\ Later(e).id = e.id
           /\ Later(e).left = IF e.left > -MaxLag THEN e.left - 1 ELSE e.left
  BY QueueAssumption DEF Later

LEMMA TickConserves == ASSUME Conserving, Tick PROVE Conserving'
<1>1. heap \subseteq [id : Ids, left : Int]  BY DEF Conserving, TypeOK
<1>2. heap' = {Later(e) : e \in heap}  BY DEF Tick
<1>3. {e.id : e \in heap'} = {e.id : e \in heap}  BY <1>1, <1>2, LaterFacts
<1>4. heap' \subseteq [id : Ids, left : Int]  BY <1>1, <1>2, LaterFacts
<1>5. TypeOK'  BY <1>4 DEF Conserving, TypeOK, Tick, AtLeastZero
<1>6. ASSUME NEW d \in heap', NEW e \in heap', d.id = e.id  PROVE d = e
  <2>1. PICK d1 \in heap : d = Later(d1)  BY <1>2
  <2>2. PICK e1 \in heap : e = Later(e1)  BY <1>2
  <2>3. d1.id = e1.id  BY <1>1, <1>6, <2>1, <2>2, LaterFacts
  <2>. QED  BY <2>1, <2>2, <2>3 DEF Conserving, EntriesConserved
<1>7. \A e \in heap' : e.id \notin taken'
  BY <1>1, <1>2, LaterFacts DEF Conserving, EntriesConserved, Tick
<1>8. UNCHANGED <<taken, scheduled>>  BY DEF Tick
<1>. QED  BY <1>3, <1>5, <1>6, <1>7, <1>8 DEF Conserving, EntriesConserved

(* The steps that move only the program counter.                           *)
LEMMA MoveConserves ==
    ASSUME Conserving, pc' \in PCs,
           UNCHANGED <<schedule, heap, scheduled, taken, sleep>>
    PROVE  Conserving'
  BY DEF Conserving, TypeOK, EntriesConserved

LEMMA StepConserves ==
    ASSUME Conserving, [LoopNext \/ TaskNext]_queueVars
    PROVE  Conserving'
<1>1. CASE \E attempt \in Attempts : Schedule(attempt)  BY <1>1, ScheduleConserves
<1>2. CASE Peek  BY <1>2, PeekConserves
<1>3. CASE Check  BY <1>3, CheckConserves
<1>4. CASE Tick  BY <1>4, TickConserves
<1>5. CASE Wait \/ TimerFires \/ Resume \/ Interrupt
  BY <1>5, MoveConserves DEF Wait, TimerFires, Resume, Interrupt, PCs
<1>6. CASE UNCHANGED queueVars
  BY <1>6 DEF queueVars, Conserving, TypeOK, EntriesConserved
<1>. QED  BY <1>1, <1>2, <1>3, <1>4, <1>5, <1>6 DEF LoopNext, TaskNext, NextReady

(* Whoever schedules, and wherever the future is dropped, every entry that *)
(* was scheduled is in the heap once or was returned once                  *)
(* (retry.rs:70-110).                                                      *)
THEOREM LoopConserves == LoopSpec => [](TypeOK /\ EntriesConserved)
<1>1. Conserving /\ [LoopNext]_queueVars => Conserving'  BY StepConserves
<1>. QED  BY <1>1, InitConserving, PTL DEF LoopSpec, Conserving

(* The same when one task waits while others schedule.                     *)
THEOREM TasksConserve == TaskSpec => [](TypeOK /\ EntriesConserved)
<1>1. Conserving /\ [TaskNext]_queueVars => Conserving'  BY StepConserves
<1>. QED  BY <1>1, InitConserving, PTL DEF TaskSpec, Conserving

(* Whatever the configured schedule, the queue of the event loop holds     *)
(* values of their kinds: no sleep and no delay is negative, every number  *)
(* is of an entry that was scheduled (retry.rs:22-54).                     *)
THEOREM QueueTyped == LoopSpec => []TypeOK
<1>1. Conserving /\ [LoopNext]_queueVars => Conserving'  BY StepConserves
<1>2. Conserving => TypeOK  BY DEF Conserving
<1>. QED  BY <1>1, <1>2, InitConserving, PTL DEF LoopSpec

(* ---------------------------- the due queue ---------------------------- *)

LEMMA SchedulePuts == ASSUME Conserving, NEW attempt, Schedule(attempt)
                      PROVE  Due!Put
<1>. DEFINE new == [id |-> scheduled + 1, left |-> schedule[attempt]]
<1>1. new.id \notin taken /\ \A e \in heap : e.id # new.id
  BY DEF Conserving, TypeOK, EntriesConserved
<1>2. heap' = heap \cup {new} /\ UNCHANGED taken  BY DEF Schedule
<1>. HIDE DEF new
<1>3. new \in heap' \ heap  BY <1>1, <1>2
<1>. QED  BY <1>1, <1>2, <1>3 DEF Due!Put

LEMMA TickPasses == ASSUME Conserving, Tick PROVE Due!Pass
<1>1. heap \subseteq [id : Ids, left : Int]  BY DEF Conserving, TypeOK
<1>2. heap' = {Later(e) : e \in heap} /\ UNCHANGED taken  BY DEF Tick
<1>3. ASSUME NEW e \in heap
      PROVE  \E w \in heap' : w.id = e.id /\ w.left <= e.left
  <2>1. Later(e) \in heap'  BY <1>2
  <2>2. Later(e).id = e.id /\ Later(e).left <= e.left  BY <1>1, LaterFacts
  <2>. QED  BY <2>1, <2>2
<1>4. \A w \in heap' : \E e \in heap : w.id = e.id  BY <1>1, <1>2, LaterFacts
<1>. QED  BY <1>2, <1>3, <1>4 DEF Due!Pass

LEMMA StepImplements ==
    ASSUME Conserving, [LoopNext \/ TaskNext]_queueVars
    PROVE  [Due!Next]_<<heap, taken>>
<1>1. CASE \E attempt \in Attempts : Schedule(attempt)
  BY <1>1, SchedulePuts DEF Due!Next
<1>2. CASE Check
  <2>1. CASE UNCHANGED <<heap, taken>>  BY <2>1
  <2>2. CASE ~UNCHANGED <<heap, taken>>
    BY <1>2, <2>2 DEF Check, IsTop, Due!Take, Due!Next
  <2>. QED  BY <2>1, <2>2
<1>3. CASE Tick  BY <1>3, TickPasses DEF Due!Next
<1>4. CASE Peek \/ Wait \/ TimerFires \/ Resume \/ Interrupt \/ UNCHANGED queueVars
  BY <1>4 DEF Peek, Wait, TimerFires, Resume, Interrupt, queueVars
<1>. QED  BY <1>1, <1>2, <1>3, <1>4 DEF LoopNext, TaskNext, NextReady

LEMMA InitImplements == Init => Due!Init
  BY DEF Init, Due!Init

(* As the event loop uses it, the queue gives an entry once, when it is    *)
(* due and none is due before it (retry.rs:31-46, 87-110).                 *)
THEOREM LoopImplements == LoopSpec => ImplementsDueQueue
<1>1. Conserving /\ [LoopNext]_queueVars => [Due!Next]_<<heap, taken>>
  BY StepImplements
<1>2. LoopSpec => []Conserving  BY LoopConserves, PTL DEF Conserving
<1>. QED  BY <1>1, <1>2, InitImplements, PTL
          DEF LoopSpec, ImplementsDueQueue, Due!Spec

(* The same when one task waits while others schedule.                     *)
THEOREM TasksImplement == TaskSpec => ImplementsDueQueue
<1>1. Conserving /\ [TaskNext]_queueVars => [Due!Next]_<<heap, taken>>
  BY StepImplements
<1>2. TaskSpec => []Conserving  BY TasksConserve, PTL DEF Conserving
<1>. QED  BY <1>1, <1>2, InitImplements, PTL
          DEF TaskSpec, ImplementsDueQueue, Due!Spec

(* -------------------------- how long it sleeps ------------------------- *)

(* The strengthening: the sleep is already short enough between the look   *)
(* at the heap and the timer's start.                                      *)
ShortSleep ==
    pc \in {"peeked", "waiting"} => \A e \in heap : sleep <= AtLeastZero(e.left)

LEMMA StepShort ==
    ASSUME Conserving, ShortSleep, [LoopNext]_queueVars
    PROVE  ShortSleep'
<1>1. \A e \in heap : e.left \in Int  BY DEF Conserving, TypeOK
<1>2. CASE pc = "handling" /\ \E attempt \in Attempts : Schedule(attempt)
  BY <1>2 DEF Schedule, ShortSleep
<1>3. CASE Peek  BY <1>1, <1>3 DEF Peek, IsTop, ShortSleep, AtLeastZero
<1>4. CASE Tick
  <2>1. ASSUME NEW w \in heap', pc' \in {"peeked", "waiting"}
        PROVE  sleep' <= AtLeastZero(w.left)
    <3>1. PICK e \in heap : w = Later(e)  BY <1>4, <2>1 DEF Tick
    <3>2. sleep <= AtLeastZero(e.left)  BY <1>4, <2>1, <3>1 DEF Tick, ShortSleep
    <3>3. e \in [id : Ids, left : Int] /\ sleep \in Nat
      BY <3>1 DEF Conserving, TypeOK
    <3>4. w.left >= e.left - 1  BY <3>1, <3>3, LaterFacts
    <3>5. w.left \in Int /\ e.left \in Int  BY <3>1, <3>3, LaterFacts
    <3>. QED  BY <1>4, <3>2, <3>3, <3>4, <3>5 DEF Tick, AtLeastZero
  <2>. QED  BY <2>1 DEF ShortSleep
<1>5. CASE Check  BY <1>5 DEF Check, ShortSleep
<1>6. CASE Wait \/ TimerFires \/ Resume \/ Interrupt \/ UNCHANGED queueVars
  BY <1>6 DEF Wait, TimerFires, Resume, Interrupt, queueVars, ShortSleep
<1>. QED  BY <1>2, <1>3, <1>4, <1>5, <1>6 DEF LoopNext, NextReady

(* As the event loop uses it, a waiting next_ready never sleeps past the   *)
(* time an entry is due, whatever was scheduled since (retry.rs:87-103).   *)
THEOREM LoopNeverOversleeps == LoopSpec => []NoOversleep
<1>1. Init => ShortSleep  BY DEF Init, ShortSleep
<1>2. Conserving /\ ShortSleep /\ [LoopNext]_queueVars => ShortSleep'  BY StepShort
<1>3. LoopSpec => []Conserving  BY LoopConserves, PTL DEF Conserving
<1>4. ShortSleep => NoOversleep  BY DEF ShortSleep, NoOversleep
<1>. QED  BY <1>1, <1>2, <1>3, <1>4, PTL DEF LoopSpec
=============================================================================
