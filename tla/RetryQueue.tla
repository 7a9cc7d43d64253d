----------------------------- MODULE RetryQueue -----------------------------
(***************************************************************************)
(* The retry queue: a heap of entries ordered by due time, a schedule of   *)
(* delays, and next_ready, the future the event loop's select! waits on.   *)
(*                                                                         *)
(* Two ways to use it.  In LoopSpec, as in event_loop.rs, one task owns    *)
(* everything: select! drops the future, at whatever await it stands, each *)
(* time another branch is ready, and only the handler that runs then calls *)
(* schedule.  In TaskSpec, as in the test of retry.rs, one task waits in   *)
(* next_ready while another schedules.                                     *)
(*                                                                         *)
(* Time is what an entry has left until it is due and what the sleep has   *)
(* left; Tick lets a unit of time pass for both.                           *)
(***************************************************************************)
EXTENDS Integers, Sequences, Lists

CONSTANTS
    Configs,     \* values of RETRY_BACKOFF_MS: sequences of CSV fields
    Blank, Junk, \* a field that is empty once trimmed; one that is no number
    LongSleep,   \* the sleep on an empty heap (24 h)
    EntryLimit,  \* how many entries are scheduled (a bound)
    MaxLag       \* an overdue entry's lateness is counted up to here (a bound)

ASSUME QueueAssumption ==
    /\ Blank \notin Nat /\ Junk \notin Nat /\ Blank # Junk
    /\ Configs \subseteq Seq(Nat \cup {Blank, Junk})
    /\ LongSleep \in Nat /\ EntryLimit \in Nat /\ MaxLag \in Nat

VARIABLES
    schedule,  \* delays, the first attempt's first
    heap,      \* entries waiting
    scheduled, \* how many entries schedule has queued
    taken,     \* ids next_ready has returned
    pc,        \* where next_ready or its caller is
    sleep      \* what sleep_for, then the timer, has left

queueVars == <<schedule, heap, scheduled, taken, pc, sleep>>

(* A subtraction of instants that does not saturate.                       *)
NotSaturated(n) == n

(* saturating_duration_since                                               *)
AtLeastZero(n) == IF n > 0 THEN n ELSE 0

(* Config::retry_backoffs: blank fields are dropped, junk is an error.     *)
RetryBackoffs(fields) == Only(fields, Nat \cup {Junk})
Misconfigured(fields) == \E i \in DOMAIN fields : fields[i] = Junk

(* A misconfigured worker ends before it has a queue.                      *)
Init == /\ \E fields \in Configs :
              /\ ~Misconfigured(fields)
              /\ schedule = RetryBackoffs(fields)
        /\ heap = {} /\ scheduled = 0 /\ taken = {}
        /\ pc = "start" /\ sleep = 0

(* RetryQueue::schedule.  Beyond the schedule it returns None and changes  *)
(* nothing.  notify_waiters wakes a future that waits and is not kept for  *)
(* one that does not wait yet.                                             *)
Schedule(attempt) ==
    /\ attempt \in 1 .. Len(schedule)
    /\ scheduled < EntryLimit
    /\ scheduled' = scheduled + 1
    /\ heap' = heap \cup {[id |-> scheduled + 1, left |-> schedule[attempt]]}
    /\ pc' = IF pc = "waiting" THEN "woken" ELSE pc
    /\ UNCHANGED <<schedule, taken, sleep>>

(* An Ord that is not reversed, so that peek gives the entry due last.     *)
IsTopMaxHeap(e) == e \in heap /\ \A w \in heap : w.left <= e.left

(* What peek returns: an entry none is due before; of equal ones, any.     *)
IsTop(e) == e \in heap /\ \A w \in heap : e.left <= w.left

(* A first lock that takes the entry out and keeps it in the future.       *)
PeekTakingOut ==
    /\ pc = "start"
    /\ pc' = "peeked"
    /\ \/ heap = {} /\ sleep' = LongSleep /\ UNCHANGED heap
       \/ \E top \in heap : /\ IsTop(top) /\ sleep' = AtLeastZero(top.left)
                            /\ heap' = heap \ {top}
    /\ UNCHANGED <<schedule, scheduled, taken>>

(* next_ready, first lock: how long to sleep.                              *)
Peek == /\ pc = "start"
        /\ pc' = "peeked"
        /\ \/ heap = {} /\ sleep' = LongSleep
           \/ \E top \in heap : IsTop(top) /\ sleep' = AtLeastZero(top.left)
        /\ UNCHANGED <<schedule, heap, scheduled, taken>>

(* notified() registers with Notify, select! starts the timer.             *)
Wait == /\ pc = "peeked"
        /\ pc' = "waiting"
        /\ UNCHANGED <<schedule, heap, scheduled, taken, sleep>>

(* A timer branch that only turns the loop.                                *)
TimerOnlyTurns == /\ pc = "waiting" /\ sleep = 0
                  /\ pc' = "start"
                  /\ UNCHANGED <<schedule, heap, scheduled, taken, sleep>>

TimerFires == /\ pc = "waiting" /\ sleep = 0
              /\ pc' = "woken"
              /\ UNCHANGED <<schedule, heap, scheduled, taken, sleep>>

(* A second lock that takes whichever entry is due.                        *)
CheckAnyDue ==
    /\ pc = "woken"
    /\ \/ \E e \in heap : /\ e.left <= 0
                          /\ heap' = heap \ {e}
                          /\ taken' = taken \cup {e.id}
                          /\ pc' = "retrying"
       \/ /\ \A e \in heap : e.left > 0
          /\ pc' = "start"
          /\ UNCHANGED <<heap, taken>>
    /\ UNCHANGED <<schedule, scheduled, sleep>>

(* next_ready, second lock: the top is popped and returned if it is due,   *)
(* else the loop turns.                                                    *)
Check ==
    /\ pc = "woken"
    /\ \/ \E top \in heap : /\ IsTop(top) /\ top.left <= 0
                            /\ heap' = heap \ {top}
                            /\ taken' = taken \cup {top.id}
                            /\ pc' = "retrying"
       \/ /\ \A e \in heap : e.left > 0
          /\ pc' = "start"
          /\ UNCHANGED <<heap, taken>>
    /\ UNCHANGED <<schedule, scheduled, sleep>>

(* Another branch of select! is ready: the future is dropped at one of its *)
(* awaits, the first lock, the sleep or the second lock.                   *)
Interrupt == /\ pc \in {"start", "waiting", "woken"}
             /\ pc' = "handling"
             /\ UNCHANGED <<schedule, heap, scheduled, taken, sleep>>

(* The handler, or handle_retry, is done and select! calls next_ready.     *)
Resume == /\ pc \in {"handling", "retrying"}
          /\ pc' = "start"
          /\ UNCHANGED <<schedule, heap, scheduled, taken, sleep>>

(* Time passes at the awaits; there is none between Peek and Wait.         *)
Later(e) == [e EXCEPT !.left = IF e.left > -MaxLag THEN e.left - 1 ELSE e.left]

Tick == /\ pc # "peeked"
        /\ sleep > 0 \/ \E e \in heap : e.left > -MaxLag
        /\ heap' = {Later(e) : e \in heap}
        /\ sleep' = AtLeastZero(sleep - 1)
        /\ UNCHANGED <<schedule, scheduled, taken, pc>>

NextReady == Peek \/ Wait \/ TimerFires \/ Check

Attempts == 1 .. Len(schedule) + 1

LoopNext == \/ NextReady \/ Resume \/ Tick \/ Interrupt
            \/ pc = "handling" /\ \E attempt \in Attempts : Schedule(attempt)

TaskNext == \/ NextReady \/ Resume \/ Tick
            \/ \E attempt \in Attempts : Schedule(attempt)

(* Each of next_ready's steps takes microseconds and the other branches    *)
(* are ready now and then: the future gets through a step again and again  *)
(* even though it may be dropped at any one.                               *)
Fairness == /\ SF_queueVars(Peek) /\ SF_queueVars(Wait)
            /\ SF_queueVars(TimerFires) /\ SF_queueVars(Check)
            /\ WF_queueVars(Resume) /\ SF_queueVars(Tick)

LoopSpec     == Init /\ [][LoopNext]_queueVars
FairLoopSpec == LoopSpec /\ Fairness
TaskSpec     == Init /\ [][TaskNext]_queueVars

(* ------------------------------ properties ----------------------------- *)

PCs == {"start", "peeked", "waiting", "woken", "handling", "retrying"}
Ids == 1 .. EntryLimit

(* Every variable holds values of its kind (retry.rs:22-54).               *)
TypeOK == /\ schedule \in Seq(Nat)
          /\ heap \subseteq [id : Ids, left : Int]
          /\ scheduled \in 0 .. EntryLimit
          /\ taken \subseteq Ids
          /\ pc \in PCs
          /\ sleep \in Nat

(* No entry is lost and none comes twice, wherever select! drops the       *)
(* future and whoever else holds the queue: what was scheduled is either   *)
(* still in the heap, once, or was returned (retry.rs:89-110).             *)
EntriesConserved ==
    /\ taken \cup {e.id : e \in heap} = 1 .. scheduled
    /\ \A e \in heap : e.id \notin taken
    /\ \A d, e \in heap : d.id = e.id => d = e

(* A future that waits never sleeps past the time any entry is due, so an  *)
(* entry is not held up by a sleep chosen for another or for an empty heap *)
(* (retry.rs:87-103).                                                      *)
NoOversleep ==
    pc = "waiting" => \A e \in heap : sleep <= AtLeastZero(e.left)

(* An entry that is due is returned, even when other branches of select!   *)
(* drop the future again and again: the sleep starts anew each time but    *)
(* only for the time left (event_loop.rs:83, retry.rs:87-110).             *)
DueEntriesAreTaken ==
    \A id \in Ids : (\E e \in heap : e.id = id) ~> id \in taken

(* The queue implements the due queue.                                     *)
Due == INSTANCE DueQueue WITH waiting <- heap
ImplementsDueQueue == Due!Spec
=============================================================================
