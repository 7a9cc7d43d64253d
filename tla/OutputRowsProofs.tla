-------------------------- MODULE OutputRowsProofs --------------------------
(***************************************************************************)
(* Theorems about OutputRows for any number of runs, segments, batches,    *)
(* retries, failures and reruns.                                           *)
(***************************************************************************)
EXTENDS OutputRows, FiniteSetTheorems, TLAPS

(* ----------------------- the inductive invariant ----------------------- *)

AlivePCs == {"claim", "segments", "beats", "scenes", "mark"}

(* Runs are started in the order of their numbers.                         *)
FreeAreLater == \A r \in Runs : run[r].pc = "free" <=> r > count

StartedOnly == /\ \A row \in store : row.run <= count
               /\ marked <= count

(* What a run that stands where rec says has put into st.                  *)
Wrote(rec, r, st) ==
    /\ rec.pc = "claim" => rec.posted = 0
    /\ rec.pc = "segments" => \A i \in 1 .. rec.posted : Row(r, "segment", i) \in st
    /\ rec.pc \in {"beats", "scenes", "mark"} =>
          \A i \in 1 .. Segments : Row(r, "segment", i) \in st
    /\ rec.pc \in {"scenes", "mark"} => Row(r, "beat", 1) \in st
    /\ rec.pc = "mark" => Row(r, "scene", 1) \in st

WrittenSoFar == \A r \in Runs : ~run[r].cleared => Wrote(run[r], r, store)

DueMayRetry == \A r \in Runs : run[r].pc = "due" => run[r].attempt < Retries

(* Only rows of runs that count as cleared are to be deleted; if no run    *)
(* was alive then none is, and all there is is to be deleted unless a      *)
(* request failed.                                                         *)
ClearIsFair ==
    /\ clear.pc = "no" => clear = NoClear
    /\ \A row \in clear.todo : row.run <= count /\ run[row.run].cleared
    /\ clear.pc = "delete" /\ clear.alone =>
          /\ \A r \in Runs : run[r].pc \notin AlivePCs
          /\ clear.swept => store \subseteq clear.todo

(* A run that is alone is the last one; while it is not cleared and its    *)
(* clear was swept, every row is its own.                                  *)
AloneIsLast ==
    \A r \in Runs : run[r].alone =>
        /\ r = count
        /\ \A q \in Runs \ {r} : run[q].pc \notin AlivePCs
        /\ run[r].swept /\ ~run[r].cleared => \A row \in store : row.run = r

RowsInv == /\ TypeOK /\ FreeAreLater /\ StartedOnly /\ WrittenSoFar
           /\ MarkedRunIsWhole /\ DueMayRetry /\ ClearIsFair /\ AloneIsLast

RunRecord == [pc : RunPCs, posted : 0 .. Segments, attempt : 0 .. LastAttempt,
              watched : BOOLEAN, rerun : BOOLEAN, alone : BOOLEAN,
              swept : BOOLEAN, cleared : BOOLEAN]

(* ------------------------------- rows ---------------------------------- *)

LEMMA RowsOfRun ==
    ASSUME NEW r \in Runs
    PROVE  /\ RowsOf(r) \subseteq Rows
           /\ \A row \in RowsOf(r) : row.run = r
           /\ \A row \in Rows : row.run = r => row \in RowsOf(r)
<1>1. \A q \in Runs : \A row \in RowsOf(q) : row.run = q  BY DEF RowsOf, Row
<1>2. RowsOf(r) \subseteq Rows  BY DEF Rows
<1>3. \A row \in Rows : \E q \in Runs : row \in RowsOf(q)  BY DEF Rows
<1>. QED  BY <1>1, <1>2, <1>3

(* A run that has written its scenes as well has written everything.       *)
LEMMA WroteAll ==
    ASSUME NEW r \in Runs, NEW rec \in RunRecord, NEW st, rec.pc = "mark",
           Wrote(rec, r, st)
    PROVE  RowsOf(r) \subseteq st
  BY DEF Wrote, RowsOf

LEMMA NewRunType ==
    ASSUME NEW attempt \in 0 .. LastAttempt
    PROVE  /\ NewRun(attempt) \in RunRecord
           /\ NewRun(attempt).pc = "claim" /\ NewRun(attempt).posted = 0
           /\ ~NewRun(attempt).alone /\ ~NewRun(attempt).cleared
<1>1. 0 \in 0 .. Segments /\ 0 \in 0 .. LastAttempt  BY RowsAssumption DEF LastAttempt
<1>2. "claim" \in RunPCs /\ "free" \in RunPCs  BY DEF RunPCs
<1>3. Free \in RunRecord /\ Free.posted = 0 /\ ~Free.alone /\ ~Free.cleared
  BY <1>1, <1>2 DEF Free, RunRecord
<1>4. NewRun(attempt) \in RunRecord  BY <1>2, <1>3 DEF NewRun, RunRecord
<1>5. /\ NewRun(attempt).pc = "claim" /\ NewRun(attempt).posted = 0
      /\ ~NewRun(attempt).alone /\ ~NewRun(attempt).cleared
  BY <1>3 DEF NewRun, RunRecord
<1>. QED  BY <1>4, <1>5

LEMMA RunsAreTyped == TypeOK <=>
    /\ store \subseteq Rows
    /\ run \in [Runs -> RunRecord]
    /\ count \in Runs
    /\ active \in 0 .. RunLimit
    /\ clear \in [pc : {"no", "delete"}, todo : SUBSET Rows,
                  swept : BOOLEAN, alone : BOOLEAN]
    /\ marked \in 0 .. RunLimit
    /\ budget \in [Kinds -> Nat]
  BY DEF TypeOK, RunRecord

LEMMA RowsInit == Init => RowsInv
<1>. SUFFICES ASSUME Init PROVE RowsInv
  OBVIOUS
<1>1. 1 \in Runs /\ RunLimit \in Nat  BY RowsAssumption DEF Runs
<1>2. NewRun(1) \in RunRecord /\ NewRun(1).pc = "claim" /\ NewRun(1).posted = 0
      /\ ~NewRun(1).alone
  <2>1. 1 \in 0 .. LastAttempt  BY RowsAssumption DEF LastAttempt
  <2>. QED  BY <2>1, NewRunType
<1>3. Free \in RunRecord /\ Free.pc = "free" /\ ~Free.alone
  BY RowsAssumption DEF Free, RunRecord, RunPCs, LastAttempt
<1>4. run = [r \in Runs |-> IF r = 1 THEN NewRun(1) ELSE Free]  BY DEF Init
<1>5. run \in [Runs -> RunRecord]  BY <1>2, <1>3, <1>4
<1>6. TypeOK
  BY <1>1, <1>5, RunsAreTyped, RowsAssumption DEF Init, NoClear
<1>7. FreeAreLater  BY <1>1, <1>2, <1>3, <1>4 DEF Init, FreeAreLater, Runs
<1>8. StartedOnly /\ MarkedRunIsWhole  BY DEF Init, StartedOnly, MarkedRunIsWhole
<1>9. WrittenSoFar /\ DueMayRetry /\ AloneIsLast
  BY <1>2, <1>3, <1>4 DEF WrittenSoFar, Wrote, DueMayRetry, AloneIsLast
<1>10. ClearIsFair  BY DEF Init, ClearIsFair, NoClear
<1>. QED  BY <1>6, <1>7, <1>8, <1>9, <1>10 DEF RowsInv

(* ------------------------- a step of one run --------------------------- *)

(* A run that is alive goes on, or ends: it writes rows of its own and     *)
(* what is known of its past stays.                                        *)
LEMMA RunStep ==
    ASSUME RowsInv, NEW r \in Runs, run[r].pc \in AlivePCs,
           NEW new \in RunRecord, run' = [run EXCEPT ![r] = new],
           new.pc \notin {"free", "due"}, new.alone = run[r].alone,
           new.swept = run[r].swept, new.cleared = run[r].cleared,
           store \subseteq store', store' \subseteq store \cup RowsOf(r),
           marked' \in {marked, r}, budget' \in [Kinds -> Nat],
           UNCHANGED <<count, active, clear>>,
           ~new.cleared => Wrote(new, r, store'),
           marked' # marked => new.cleared \/ RowsOf(r) \subseteq store'
    PROVE  RowsInv'
<1>1. run \in [Runs -> RunRecord] /\ count \in Runs /\ RunLimit \in Nat
  BY RunsAreTyped, RowsAssumption DEF RowsInv
<1>2. /\ run'[r] = new
      /\ \A q \in Runs : q # r => run'[q] = run[q]
      /\ run' \in [Runs -> RunRecord]
  BY <1>1
<1>3. r <= count  BY <1>1 DEF RowsInv, FreeAreLater, AlivePCs, Runs
<1>4. TypeOK'
  <2>1. store' \subseteq Rows  BY RowsOfRun DEF RowsInv, TypeOK
  <2>2. marked' \in 0 .. RunLimit  BY <1>1 DEF RowsInv, TypeOK, Runs
  <2>. QED  BY <1>2, <2>1, <2>2 DEF RowsInv, TypeOK, RunRecord
<1>5. FreeAreLater'  BY <1>1, <1>2 DEF RowsInv, FreeAreLater, AlivePCs
<1>6. StartedOnly'  BY <1>3, RowsOfRun DEF RowsInv, StartedOnly
<1>7. WrittenSoFar'
  <2>. SUFFICES ASSUME NEW q \in Runs, q # r, ~run[q].cleared
                PROVE  Wrote(run[q], q, store')
    BY <1>2 DEF WrittenSoFar
  <2>1. Wrote(run[q], q, store)  BY DEF RowsInv, WrittenSoFar
  <2>. QED  BY <2>1 DEF Wrote
<1>8. MarkedRunIsWhole'
  BY <1>1, <1>2 DEF RowsInv, MarkedRunIsWhole, TypeOK, Runs
<1>9. DueMayRetry'  BY <1>2 DEF RowsInv, DueMayRetry
<1>10. ClearIsFair'
  <2>1. \A row \in Rows : row.run \in Runs  BY RowsOfRun DEF Rows
  <2>2. \A row \in clear.todo : row.run \in Runs
    BY <2>1 DEF RowsInv, TypeOK
  <2>. QED  BY <1>2, <2>2 DEF RowsInv, ClearIsFair
<1>11. AloneIsLast'
  <2>. SUFFICES ASSUME NEW p \in Runs, run[p].alone
                PROVE  /\ p = count
                       /\ \A q \in Runs \ {p} : run'[q].pc \notin AlivePCs
                       /\ run[p].swept /\ ~run[p].cleared =>
                              \A row \in store' : row.run = p
    BY <1>2 DEF AloneIsLast
  <2>1. p = r  BY DEF RowsInv, AloneIsLast
  <2>. QED  BY <1>2, <2>1, RowsOfRun DEF RowsInv, AloneIsLast
<1>. QED  BY <1>4, <1>5, <1>6, <1>7, <1>8, <1>9, <1>10, <1>11 DEF RowsInv

LEMMA SpendType ==
    ASSUME TypeOK, NEW kind \in Kinds, Spend(kind)
    PROVE  budget' \in [Kinds -> Nat]
<1>. DEFINE n == budget[kind] - 1
<1>1. n \in Nat  BY DEF TypeOK, Spend
<1>2. budget' = [budget EXCEPT ![kind] = n]  BY DEF Spend
<1>. HIDE DEF n
<1>. QED  BY <1>1, <1>2 DEF TypeOK

(* What At changes of a run's record.                                      *)
LEMMA AtRecord ==
    ASSUME TypeOK, NEW r \in Runs, NEW pc \in RunPCs, At(r, pc)
    PROVE  \E new \in RunRecord :
              /\ run' = [run EXCEPT ![r] = new]
              /\ new.pc = pc /\ new.posted = run[r].posted
              /\ new.attempt = run[r].attempt
              /\ new.alone = run[r].alone /\ new.swept = run[r].swept
              /\ new.cleared = run[r].cleared
<1>. DEFINE new == [run[r] EXCEPT !.pc = pc]
<1>1. run[r] \in RunRecord  BY RunsAreTyped
<1>2. /\ new \in RunRecord
      /\ new.pc = pc /\ new.posted = run[r].posted /\ new.attempt = run[r].attempt
      /\ new.alone = run[r].alone /\ new.swept = run[r].swept
      /\ new.cleared = run[r].cleared
  BY <1>1 DEF RunRecord
<1>3. run' = [run EXCEPT ![r] = new]  BY DEF At
<1>. HIDE DEF new
<1>. QED  BY <1>2, <1>3

(* A run that fails, having written or not, or ends, keeps the invariant.  *)
LEMMA RunEnds ==
    ASSUME RowsInv, NEW r \in Runs, run[r].pc \in AlivePCs,
           NEW pc \in {"failed", "done"}, At(r, pc),
           store \subseteq store', store' \subseteq store \cup RowsOf(r),
           marked' \in {marked, r}, budget' \in [Kinds -> Nat],
           UNCHANGED <<count, active, clear>>,
           marked' # marked => run[r].pc = "mark"
    PROVE  RowsInv'
<1>1. TypeOK /\ pc \in RunPCs  BY DEF RowsInv, RunPCs
<1>2. PICK new \in RunRecord :
         /\ run' = [run EXCEPT ![r] = new]
         /\ new.pc = pc /\ new.posted = run[r].posted
         /\ new.attempt = run[r].attempt
         /\ new.alone = run[r].alone /\ new.swept = run[r].swept
         /\ new.cleared = run[r].cleared
  BY <1>1, AtRecord
<1>3. Wrote(new, r, store')  BY <1>2 DEF Wrote
<1>4. marked' # marked => new.cleared \/ RowsOf(r) \subseteq store'
  <2>1. run[r] \in RunRecord  BY <1>1, RunsAreTyped
  <2>2. ~run[r].cleared => Wrote(run[r], r, store)  BY DEF RowsInv, WrittenSoFar
  <2>3. run[r].pc = "mark" /\ ~run[r].cleared => RowsOf(r) \subseteq store
    BY <2>1, <2>2, WroteAll
  <2>. QED  BY <1>2, <2>3
<1>. QED  BY <1>2, <1>3, <1>4, RunStep

(* A run that writes its next rows and goes on.                            *)
LEMMA RunGoesOn ==
    ASSUME RowsInv, NEW r \in Runs, run[r].pc \in AlivePCs,
           NEW new \in RunRecord, run' = [run EXCEPT ![r] = new],
           new.pc \in AlivePCs, new.alone = run[r].alone,
           new.swept = run[r].swept, new.cleared = run[r].cleared,
           store \subseteq store', store' \subseteq store \cup RowsOf(r),
           Wrote(run[r], r, store) => Wrote(new, r, store'),
           UNCHANGED <<count, active, clear, marked, budget>>
    PROVE  RowsInv'
<1>1. ~run[r].cleared => Wrote(run[r], r, store)  BY DEF RowsInv, WrittenSoFar
<1>2. budget' \in [Kinds -> Nat]  BY DEF RowsInv, TypeOK
<1>3. new.pc \notin {"free", "due"}  BY DEF AlivePCs
<1>. QED  BY <1>1, <1>2, <1>3, RunStep

LEMMA ClaimStep ==
    ASSUME RowsInv, NEW r \in Runs, Claim(r)
    PROVE  RowsInv'
<1>1. TypeOK  BY DEF RowsInv
<1>2. run[r].pc \in AlivePCs  BY DEF Claim, AlivePCs
<1>3. "fault" \in Kinds  BY DEF Kinds
<1>4. CASE At(r, "segments") /\ UNCHANGED budget
  <2>1. "segments" \in RunPCs  BY DEF RunPCs
  <2>2. PICK new \in RunRecord :
           /\ run' = [run EXCEPT ![r] = new]
           /\ new.pc = "segments" /\ new.posted = run[r].posted
           /\ new.attempt = run[r].attempt
           /\ new.alone = run[r].alone /\ new.swept = run[r].swept
           /\ new.cleared = run[r].cleared
    BY <1>1, <1>4, <2>1, AtRecord
  <2>3. Wrote(run[r], r, store) => Wrote(new, r, store)
    BY <2>2 DEF Claim, Wrote
  <2>. QED  BY <1>2, <1>4, <2>2, <2>3, RunGoesOn DEF Claim, AlivePCs
<1>5. CASE At(r, "done") /\ UNCHANGED budget
  <2>1. budget' \in [Kinds -> Nat]  BY <1>1, <1>5 DEF TypeOK
  <2>. QED  BY <1>2, <1>5, <2>1, RunEnds DEF Claim
<1>6. CASE At(r, "failed") /\ Spend("fault")
  <2>1. budget' \in [Kinds -> Nat]  BY <1>1, <1>3, <1>6, SpendType
  <2>. QED  BY <1>2, <1>6, <2>1, RunEnds DEF Claim
<1>. QED  BY <1>4, <1>5, <1>6 DEF Claim

(* A request that writes rows, whose success takes the run on.             *)
LEMMA PostStep ==
    ASSUME RowsInv, NEW r \in Runs, run[r].pc \in AlivePCs,
           NEW rows \in SUBSET RowsOf(r), NEW new \in RunRecord,
           Post(r, rows, [run EXCEPT ![r] = new]),
           new.pc \in AlivePCs, new.alone = run[r].alone,
           new.swept = run[r].swept, new.cleared = run[r].cleared,
           Wrote(run[r], r, store) => Wrote(new, r, store \cup rows)
    PROVE  RowsInv'
<1>1. CASE store' = store \cup rows /\ run' = [run EXCEPT ![r] = new] /\ UNCHANGED budget
  BY <1>1, RunGoesOn DEF Post
<1>2. CASE /\ store' \in {store, store \cup rows}
           /\ At(r, "failed") /\ Spend("fault")
  <2>1. budget' \in [Kinds -> Nat]  BY <1>2, SpendType DEF RowsInv, Kinds
  <2>. QED  BY <1>2, <2>1, RunEnds DEF Post
<1>. QED  BY <1>1, <1>2 DEF Post

LEMMA PostBatchStep ==
    ASSUME RowsInv, NEW r \in Runs, PostBatch(r)
    PROVE  RowsInv'
<1>. DEFINE done == run[r].posted
            end  == Smaller(done + BatchSize, Segments)
            rows == {Row(r, "segment", i) : i \in done + 1 .. end}
            new  == [run[r] EXCEPT !.posted = end,
                                   !.pc = IF end = Segments THEN "beats" ELSE @]
<1>1. run[r] \in RunRecord /\ run[r].pc = "segments"
  BY RunsAreTyped DEF RowsInv, PostBatch
<1>2. done \in 0 .. Segments /\ Segments \in Nat /\ BatchSize \in Nat \ {0}
  BY <1>1, RowsAssumption DEF RunRecord
<1>3. end \in 0 .. Segments /\ done <= end  BY <1>2 DEF Smaller
<1>4. Post(r, rows, [run EXCEPT ![r] = new])
  <2>1. [run EXCEPT ![r].posted = end,
                    ![r].pc = IF end = Segments THEN "beats" ELSE @]
          = [run EXCEPT ![r] = new]
    BY <1>1 DEF RowsInv, TypeOK
  <2>. QED  BY <2>1 DEF PostBatch
<1>. HIDE DEF end
<1>5. /\ new \in RunRecord /\ new.posted = end
      /\ new.pc = IF end = Segments THEN "beats" ELSE "segments"
      /\ new.alone = run[r].alone /\ new.swept = run[r].swept
      /\ new.cleared = run[r].cleared
  BY <1>1, <1>3 DEF RunRecord, RunPCs
<1>6. rows \in SUBSET RowsOf(r)  BY <1>2, <1>3 DEF RowsOf
<1>. HIDE DEF new
<1>7. Wrote(run[r], r, store) => Wrote(new, r, store \cup rows)
  <2>. SUFFICES ASSUME Wrote(run[r], r, store)
                PROVE  Wrote(new, r, store \cup rows)
    OBVIOUS
  <2>1. \A i \in 1 .. end : Row(r, "segment", i) \in store \cup rows
    <3>. TAKE i \in 1 .. end
    <3>1. CASE i <= done  BY <1>1, <1>2, <1>3, <3>1 DEF Wrote
    <3>2. CASE i > done  BY <1>2, <1>3, <3>2
    <3>. QED  BY <1>2, <1>3, <3>1, <3>2
  <2>2. new.pc \in {"beats", "segments"} /\ new.posted = end
        /\ (new.pc = "beats" => end = Segments)
    BY <1>5
  <2>. QED  BY <2>1, <2>2 DEF Wrote
<1>8. run[r].pc \in AlivePCs /\ new.pc \in AlivePCs  BY <1>1, <1>5 DEF AlivePCs
<1>. HIDE DEF rows
<1>. QED  BY <1>4, <1>5, <1>6, <1>7, <1>8, PostStep

LEMMA PostBeatsStep ==
    ASSUME RowsInv, NEW r \in Runs, PostBeats(r)
    PROVE  RowsInv'
<1>. DEFINE rows == {Row(r, "beat", 1)}
            new  == [run[r] EXCEPT !.pc = "scenes"]
<1>1. run[r] \in RunRecord /\ run[r].pc = "beats"
  BY RunsAreTyped DEF RowsInv, PostBeats
<1>2. Post(r, rows, [run EXCEPT ![r] = new])  BY DEF PostBeats
<1>3. /\ new \in RunRecord /\ new.pc = "scenes"
      /\ new.alone = run[r].alone /\ new.swept = run[r].swept
      /\ new.cleared = run[r].cleared
  BY <1>1 DEF RunRecord, RunPCs
<1>. HIDE DEF new
<1>4. Wrote(run[r], r, store) => Wrote(new, r, store \cup rows)
  BY <1>1, <1>3 DEF Wrote
<1>5. rows \in SUBSET RowsOf(r)  BY DEF RowsOf
<1>6. run[r].pc \in AlivePCs /\ new.pc \in AlivePCs  BY <1>1, <1>3 DEF AlivePCs
<1>. HIDE DEF rows
<1>. QED  BY <1>2, <1>3, <1>4, <1>5, <1>6, PostStep

LEMMA PostScenesStep ==
    ASSUME RowsInv, NEW r \in Runs, PostScenes(r)
    PROVE  RowsInv'
<1>. DEFINE rows == {Row(r, "scene", 1)}
            new  == [run[r] EXCEPT !.pc = "mark"]
<1>1. run[r] \in RunRecord /\ run[r].pc = "scenes"
  BY RunsAreTyped DEF RowsInv, PostScenes
<1>2. Post(r, rows, [run EXCEPT ![r] = new])  BY DEF PostScenes
<1>3. /\ new \in RunRecord /\ new.pc = "mark"
      /\ new.alone = run[r].alone /\ new.swept = run[r].swept
      /\ new.cleared = run[r].cleared
  BY <1>1 DEF RunRecord, RunPCs
<1>. HIDE DEF new
<1>4. Wrote(run[r], r, store) => Wrote(new, r, store \cup rows)
  BY <1>1, <1>3 DEF Wrote
<1>5. rows \in SUBSET RowsOf(r)  BY DEF RowsOf
<1>6. run[r].pc \in AlivePCs /\ new.pc \in AlivePCs  BY <1>1, <1>3 DEF AlivePCs
<1>. HIDE DEF rows
<1>. QED  BY <1>2, <1>3, <1>4, <1>5, <1>6, PostStep

LEMMA MarkStep ==
    ASSUME RowsInv, NEW r \in Runs, Mark(r)
    PROVE  RowsInv'
<1>1. run[r].pc = "mark" /\ run[r].pc \in AlivePCs  BY DEF Mark, AlivePCs
<1>2. budget' \in [Kinds -> Nat]
  BY SpendType DEF RowsInv, TypeOK, Mark, Kinds
<1>3. \E pc \in {"failed", "done"} : At(r, pc)  BY DEF Mark
<1>. QED  BY <1>1, <1>2, <1>3, RunEnds DEF Mark

(* --------------------------- the event loop ---------------------------- *)

(* A run that has ended moves on, and is not alive afterwards either.      *)
LEMMA CompleteStep ==
    ASSUME RowsInv, NEW r \in Runs, Complete(r)
    PROVE  RowsInv'
<1>. DEFINE pc == IF run[r].pc = "failed" /\ run[r].attempt < Retries
                  THEN "due" ELSE "over"
<1>1. /\ TypeOK /\ pc \in RunPCs /\ At(r, pc)
      /\ run \in [Runs -> RunRecord] /\ RunLimit \in Nat
  BY RunsAreTyped, RowsAssumption DEF RowsInv, Complete, RunPCs
<1>2. pc \notin AlivePCs \cup {"free"} /\ (pc = "due" => run[r].attempt < Retries)
  BY DEF AlivePCs
<1>. HIDE DEF pc
<1>3. PICK new \in RunRecord :
         /\ run' = [run EXCEPT ![r] = new]
         /\ new.pc = pc /\ new.posted = run[r].posted
         /\ new.attempt = run[r].attempt
         /\ new.alone = run[r].alone /\ new.swept = run[r].swept
         /\ new.cleared = run[r].cleared
  BY <1>1, AtRecord
<1>4. /\ run'[r] = new /\ \A q \in Runs : q # r => run'[q] = run[q]
      /\ run' \in [Runs -> RunRecord]
  BY <1>1, <1>3
<1>5. UNCHANGED <<store, count, clear, marked, budget>> /\ active' = 0
      /\ run[r].pc # "free" /\ clear = NoClear
  BY DEF Complete, RowsInv, ClearIsFair
<1>6. TypeOK'  BY <1>1, <1>4, <1>5, RunsAreTyped DEF TypeOK, RunRecord
<1>7. FreeAreLater'  BY <1>2, <1>3, <1>4, <1>5 DEF RowsInv, FreeAreLater
<1>8. StartedOnly'  BY <1>5 DEF RowsInv, StartedOnly
<1>9. WrittenSoFar'
  <2>1. Wrote(new, r, store)  BY <1>2, <1>3 DEF Wrote, AlivePCs
  <2>. QED  BY <1>4, <1>5, <2>1 DEF RowsInv, WrittenSoFar, Wrote
<1>10. MarkedRunIsWhole'
  BY <1>3, <1>4, <1>5 DEF RowsInv, MarkedRunIsWhole, TypeOK, Runs
<1>11. DueMayRetry'  BY <1>2, <1>3, <1>4 DEF RowsInv, DueMayRetry
<1>12. ClearIsFair'  BY <1>5 DEF ClearIsFair, NoClear
<1>13. AloneIsLast'
  BY <1>2, <1>3, <1>4, <1>5 DEF RowsInv, AloneIsLast
<1>. QED  BY <1>6, <1>7, <1>8, <1>9, <1>10, <1>11, <1>12, <1>13 DEF RowsInv

(* A run is started: every other one is no longer alone, and nothing else  *)
(* is new but that one whose retry was due is over.                        *)
LEMMA StartStep ==
    ASSUME RowsInv, NEW runs \in [Runs -> RunRecord], NEW new \in RunRecord,
           Start(runs, new), UNCHANGED <<store, marked, budget>>, clear' = NoClear,
           new.pc = "claim", new.posted = 0, ~new.cleared,
           new.alone => /\ \A q \in Runs : run[q].pc \notin AlivePCs
                        /\ new.swept => store = {},
           \A q \in Runs :
               /\ runs[q].cleared = run[q].cleared
               /\ runs[q].posted = run[q].posted
               /\ runs[q].attempt = run[q].attempt
               /\ \/ runs[q].pc = run[q].pc
                  \/ run[q].pc = "due" /\ runs[q].pc = "over"
    PROVE  RowsInv'
<1>. DEFINE n == count + 1
<1>1. /\ run \in [Runs -> RunRecord] /\ count \in Runs /\ RunLimit \in Nat
      /\ count < RunLimit /\ n \in Runs /\ n # count /\ n > count
  BY RunsAreTyped, RowsAssumption DEF RowsInv, Start, Runs
<1>2. count' = n /\ active' = n  BY DEF Start
<1>3. run' = [r \in Runs |-> IF r = n THEN new
                             ELSE [runs[r] EXCEPT !.alone = FALSE]]
  BY DEF Start
<1>. HIDE DEF n
<1>4. run'[n] = new  BY <1>1, <1>3
<1>5. ASSUME NEW q \in Runs, q # n
      PROVE  /\ run'[q] \in RunRecord /\ run'[q].alone = FALSE
             /\ run'[q].cleared = run[q].cleared
             /\ run'[q].posted = run[q].posted
             /\ run'[q].attempt = run[q].attempt
             /\ \/ run'[q].pc = run[q].pc
                \/ run[q].pc = "due" /\ run'[q].pc = "over"
  <2>1. run'[q] = [runs[q] EXCEPT !.alone = FALSE] /\ runs[q] \in RunRecord
    BY <1>3, <1>5
  <2>. QED  BY <2>1 DEF RunRecord
<1>6. run' \in [Runs -> RunRecord]
  <2>1. \A q \in Runs : run'[q] \in RunRecord  BY <1>4, <1>5
  <2>2. DOMAIN run' = Runs /\ run' = [r \in Runs |-> run'[r]]  BY <1>3
  <2>. QED  BY <2>1, <2>2
<1>7. n = count + 1  BY DEF n
<1>8. TypeOK'
  <2>1. clear' \in [pc : {"no", "delete"}, todo : SUBSET Rows,
                    swept : BOOLEAN, alone : BOOLEAN]
    BY DEF NoClear
  <2>2. n \in 0 .. RunLimit  BY <1>1 DEF Runs
  <2>. QED  BY <1>1, <1>2, <1>6, <2>1, <2>2, RunsAreTyped DEF RowsInv, TypeOK, RunRecord
<1>9. FreeAreLater'
  <2>. SUFFICES ASSUME NEW q \in Runs
                PROVE  run'[q].pc = "free" <=> q > n
    BY <1>2 DEF FreeAreLater
  <2>1. CASE q = n
    <3>1. run'[q].pc = "claim"  BY <1>4, <2>1
    <3>2. ~(q > n)  BY <1>1, <2>1 DEF Runs
    <3>. QED  BY <3>1, <3>2
  <2>2. CASE q # n
    <3>1. run[q].pc = "free" <=> q > count  BY DEF RowsInv, FreeAreLater
    <3>2. q > count <=> q > n  BY <1>1, <1>7, <2>2 DEF Runs
    <3>3. run'[q].pc = "free" <=> run[q].pc = "free"  BY <1>5, <2>2
    <3>. QED  BY <3>1, <3>2, <3>3
  <2>. QED  BY <2>1, <2>2
<1>10. StartedOnly'
  <2>1. \A row \in store : row.run \in Runs /\ row.run <= count
    BY RowsOfRun DEF RowsInv, TypeOK, StartedOnly, Rows
  <2>2. marked \in 0 .. RunLimit /\ marked <= count
    BY DEF RowsInv, TypeOK, StartedOnly
  <2>. QED  BY <1>1, <1>2, <1>7, <2>1, <2>2 DEF StartedOnly, Runs
<1>11. WrittenSoFar'
  <2>. SUFFICES ASSUME NEW q \in Runs, ~run'[q].cleared
                PROVE  Wrote(run'[q], q, store)
    BY DEF WrittenSoFar
  <2>1. CASE q = n  BY <1>4, <2>1 DEF Wrote
  <2>2. CASE q # n
    <3>1. Wrote(run[q], q, store)  BY <1>5, <2>2 DEF RowsInv, WrittenSoFar
    <3>. QED  BY <1>5, <2>2, <3>1 DEF Wrote
  <2>. QED  BY <2>1, <2>2
<1>12. MarkedRunIsWhole'
  <2>1. marked \in 0 .. RunLimit /\ marked <= count
    BY DEF RowsInv, TypeOK, StartedOnly
  <2>2. marked # 0 => marked \in Runs /\ marked # n
    BY <1>1, <1>7, <2>1 DEF Runs
  <2>3. marked # 0 => run'[marked].cleared = run[marked].cleared
    BY <1>5, <2>2
  <2>. QED  BY <2>3 DEF RowsInv, MarkedRunIsWhole
<1>13. DueMayRetry'
  <2>. SUFFICES ASSUME NEW q \in Runs, run'[q].pc = "due"
                PROVE  run'[q].attempt < Retries
    BY DEF DueMayRetry
  <2>1. q # n  BY <1>4
  <2>. QED  BY <1>5, <2>1 DEF RowsInv, DueMayRetry
<1>14. ClearIsFair'  BY DEF ClearIsFair, NoClear
<1>15. AloneIsLast'
  <2>. SUFFICES ASSUME NEW p \in Runs, run'[p].alone
                PROVE  /\ p = n
                       /\ \A q \in Runs \ {p} : run'[q].pc \notin AlivePCs
                       /\ run'[p].swept => store = {}
    BY <1>2 DEF AloneIsLast
  <2>1. p = n  BY <1>5
  <2>2. \A q \in Runs \ {p} : run'[q].pc \notin AlivePCs
    BY <1>4, <1>5, <2>1 DEF AlivePCs
  <2>. QED  BY <1>4, <2>1, <2>2
<1>. QED  BY <1>8, <1>9, <1>10, <1>11, <1>12, <1>13, <1>14, <1>15 DEF RowsInv

LEMMA RetryStep ==
    ASSUME RowsInv, NEW r \in Runs, Retry(r)
    PROVE  RowsInv'
<1>. DEFINE runs == [run EXCEPT ![r].pc = "over"]
            new  == NewRun(run[r].attempt + 1)
<1>1. run \in [Runs -> RunRecord] /\ run[r] \in RunRecord /\ run[r].pc = "due"
  BY RunsAreTyped DEF RowsInv, Retry
<1>2. run[r].attempt + 1 \in 0 .. LastAttempt
  BY <1>1, RowsAssumption DEF RowsInv, DueMayRetry, RunRecord, LastAttempt
<1>3. /\ new \in RunRecord /\ new.pc = "claim" /\ new.posted = 0
      /\ ~new.alone /\ ~new.cleared
  BY <1>2, NewRunType
<1>4. runs \in [Runs -> RunRecord]
      /\ \A q \in Runs :
            /\ runs[q].cleared = run[q].cleared /\ runs[q].posted = run[q].posted
            /\ runs[q].attempt = run[q].attempt
            /\ \/ runs[q].pc = run[q].pc
               \/ run[q].pc = "due" /\ runs[q].pc = "over"
  BY <1>1 DEF RunRecord, RunPCs
<1>5. Start(runs, new) /\ UNCHANGED <<store, clear, marked, budget>> /\ clear = NoClear
  BY DEF Retry, RowsInv, ClearIsFair
<1>. HIDE DEF runs, new
<1>. QED  BY <1>3, <1>4, <1>5, StartStep

LEMMA StartRerunStep ==
    ASSUME RowsInv, StartRerun
    PROVE  RowsInv'
<1>. DEFINE new == [NewRun(1) EXCEPT !.rerun = TRUE, !.alone = clear.alone,
                                     !.swept = clear.swept]
<1>1. run \in [Runs -> RunRecord] /\ clear.alone \in BOOLEAN /\ clear.swept \in BOOLEAN
  BY RunsAreTyped DEF RowsInv
<1>2. 1 \in 0 .. LastAttempt  BY RowsAssumption DEF LastAttempt
<1>3. /\ new \in RunRecord /\ new.pc = "claim" /\ new.posted = 0 /\ ~new.cleared
      /\ new.alone = clear.alone /\ new.swept = clear.swept
  <2>. DEFINE fresh == NewRun(1)
  <2>1. /\ fresh \in RunRecord /\ fresh.pc = "claim" /\ fresh.posted = 0
        /\ ~fresh.cleared
    BY <1>2, NewRunType
  <2>2. new = [fresh EXCEPT !.rerun = TRUE, !.alone = clear.alone,
                            !.swept = clear.swept]
    OBVIOUS
  <2>. HIDE DEF fresh, new
  <2>3. new \in RunRecord  BY <1>1, <2>1, <2>2 DEF RunRecord
  <2>4. new.pc = fresh.pc /\ new.posted = fresh.posted /\ new.cleared = fresh.cleared
        /\ new.alone = clear.alone /\ new.swept = clear.swept
    BY <1>1, <2>1, <2>2 DEF RunRecord
  <2>. QED  BY <2>1, <2>3, <2>4
<1>4. /\ Start(run, new) /\ clear.pc = "delete" /\ clear.todo = {}
      /\ UNCHANGED <<store, marked, budget>> /\ clear' = NoClear
  BY DEF StartRerun
<1>. HIDE DEF new
<1>5. new.alone => /\ \A q \in Runs : run[q].pc \notin AlivePCs
                   /\ new.swept => store = {}
  BY <1>3, <1>4 DEF RowsInv, ClearIsFair
<1>. QED  BY <1>1, <1>3, <1>4, <1>5, StartStep

(* The listing: every run started so far counts as cleared from now on.    *)
LEMMA ListStep ==
    ASSUME RowsInv, ListPriorOutputs
    PROVE  RowsInv'
<1>1. PICK missing \in SUBSET RowKinds, watched \in BOOLEAN :
          /\ budget["rerun"] > 0 /\ Cardinality(missing) <= budget["fault"]
          /\ budget' = [budget EXCEPT !["rerun"] = @ - 1,
                                      !["fault"] = @ - Cardinality(missing)]
          /\ clear' = [pc |-> "delete",
                       todo |-> {row \in Listed : row.kind \notin missing},
                       swept |-> missing = {},
                       alone |-> Alive = {}]
          /\ run' = [r \in Runs |->
                       IF run[r].pc = "free" THEN run[r]
                       ELSE [run[r] EXCEPT !.cleared = TRUE,
                                           !.watched = @ /\ (r = active => watched)]]
  BY DEF ListPriorOutputs
<1>2. /\ run \in [Runs -> RunRecord] /\ count \in Runs /\ RunLimit \in Nat
      /\ store \subseteq Rows
      /\ UNCHANGED <<store, count, marked>> /\ active' = 0
  BY RunsAreTyped, RowsAssumption DEF RowsInv, ListPriorOutputs
<1>3. ASSUME NEW q \in Runs
      PROVE  /\ run'[q] \in RunRecord /\ run'[q].pc = run[q].pc
             /\ run'[q].posted = run[q].posted /\ run'[q].attempt = run[q].attempt
             /\ run'[q].alone = run[q].alone
             /\ run[q].pc # "free" => run'[q].cleared
             /\ run[q].cleared => run'[q].cleared
  <2>1. run[q] \in RunRecord  BY <1>2
  <2>2. CASE run[q].pc = "free"
    <3>1. run'[q] = run[q]  BY <1>1, <2>2
    <3>. QED  BY <2>1, <2>2, <3>1
  <2>3. CASE run[q].pc # "free"
    <3>. DEFINE w == run[q].watched /\ (q = active => watched)
    <3>1. run'[q] = [run[q] EXCEPT !.cleared = TRUE, !.watched = w]
      BY <1>1, <2>3
    <3>2. w \in BOOLEAN  OBVIOUS
    <3>. HIDE DEF w
    <3>. QED  BY <2>1, <2>3, <3>1, <3>2 DEF RunRecord
  <2>. QED  BY <2>2, <2>3
<1>4. run' \in [Runs -> RunRecord]
  <2>1. DOMAIN run' = Runs /\ run' = [r \in Runs |-> run'[r]]  BY <1>1
  <2>. QED  BY <1>3, <2>1
<1>5. ASSUME NEW q \in Runs, q <= count PROVE run[q].pc # "free" /\ run'[q].cleared
  <2>1. ~(q > count)  BY <1>2, <1>5 DEF Runs
  <2>. QED  BY <1>3, <2>1 DEF RowsInv, FreeAreLater
<1>6. /\ clear'.pc = "delete" /\ clear'.todo \subseteq store
      /\ clear'.swept <=> missing = {}
      /\ clear'.alone <=> Alive = {}
      /\ missing = {} => clear'.todo = store
  BY <1>1 DEF Listed
<1>7. TypeOK'
  <2>1. budget' \in [Kinds -> Nat]
    <3>. DEFINE n == Cardinality(missing)
                a == budget["rerun"] - 1
                b == budget["fault"] - n
    <3>1. n \in Nat
      <4>1. IsFiniteSet(RowKinds)
        <5>1. RowKinds = (({} \cup {"segment"}) \cup {"beat"}) \cup {"scene"}
          BY DEF RowKinds
        <5>2. IsFiniteSet({})  BY FS_EmptySet
        <5>3. IsFiniteSet({} \cup {"segment"})  BY <5>2, FS_AddElement
        <5>4. IsFiniteSet(({} \cup {"segment"}) \cup {"beat"})
          BY <5>3, FS_AddElement
        <5>. QED  BY <5>1, <5>4, FS_AddElement
      <4>. QED  BY <4>1, FS_Subset, FS_CardinalityType
    <3>2. budget \in [Kinds -> Nat]  BY DEF RowsInv, TypeOK
    <3>3. "rerun" \in Kinds /\ "fault" \in Kinds  BY DEF Kinds
    <3>. HIDE DEF n
    <3>4. a \in Nat /\ b \in Nat
      <4>1. n <= budget["fault"] /\ budget["rerun"] > 0  BY <1>1 DEF n
      <4>2. budget["rerun"] \in Nat /\ budget["fault"] \in Nat  BY <3>2, <3>3
      <4>. QED  BY <3>1, <4>1, <4>2
    <3>5. budget' = [budget EXCEPT !["rerun"] = a, !["fault"] = b]  BY <1>1 DEF n
    <3>. HIDE DEF a, b
    <3>. QED  BY <3>2, <3>3, <3>4, <3>5
  <2>2. clear' \in [pc : {"no", "delete"}, todo : SUBSET Rows,
                    swept : BOOLEAN, alone : BOOLEAN]
    <3>. DEFINE todo  == {row \in Listed : row.kind \notin missing}
                swept == missing = {}
                alone == Alive = {}
    <3>1. /\ todo \in SUBSET Rows
          /\ swept \in BOOLEAN /\ alone \in BOOLEAN
      BY <1>2 DEF Listed
    <3>2. clear' = [pc |-> "delete", todo |-> todo, swept |-> swept, alone |-> alone]
      BY <1>1
    <3>. HIDE DEF todo, swept, alone
    <3>. QED  BY <3>1, <3>2
  <2>. QED  BY <1>2, <1>4, <2>1, <2>2, RunsAreTyped DEF RowsInv, TypeOK, RunRecord
<1>8. FreeAreLater'  BY <1>2, <1>3 DEF RowsInv, FreeAreLater
<1>9. StartedOnly'  BY <1>2 DEF RowsInv, StartedOnly
<1>10. WrittenSoFar'
  <2>. SUFFICES ASSUME NEW q \in Runs, ~run'[q].cleared
                PROVE  Wrote(run'[q], q, store)
    BY <1>2 DEF WrittenSoFar
  <2>1. run'[q].pc = "free"  BY <1>3
  <2>. QED  BY <2>1 DEF Wrote
<1>11. MarkedRunIsWhole'
  <2>1. marked # 0 => marked \in Runs /\ marked <= count
    BY <1>2 DEF RowsInv, TypeOK, StartedOnly, Runs
  <2>. QED  BY <1>2, <1>5, <2>1 DEF MarkedRunIsWhole
<1>12. DueMayRetry'  BY <1>3 DEF RowsInv, DueMayRetry
<1>13. ClearIsFair'
  <2>1. \A row \in clear'.todo : row.run <= count /\ run'[row.run].cleared
    <3>. TAKE row \in clear'.todo
    <3>1. row \in store /\ row.run \in Runs
      BY <1>2, <1>6, RowsOfRun DEF Rows
    <3>2. row.run <= count  BY <3>1 DEF RowsInv, StartedOnly
    <3>. QED  BY <1>5, <3>1, <3>2
  <2>2. clear'.alone => \A q \in Runs : run'[q].pc \notin AlivePCs
    BY <1>3, <1>6 DEF Alive, AlivePCs
  <2>. QED  BY <1>2, <1>6, <2>1, <2>2 DEF ClearIsFair
<1>14. AloneIsLast'
  <2>. SUFFICES ASSUME NEW p \in Runs, run'[p].alone
                PROVE  /\ p = count
                       /\ \A q \in Runs \ {p} : run'[q].pc \notin AlivePCs
                       /\ run'[p].cleared
    BY <1>2 DEF AloneIsLast
  <2>1. p = count /\ \A q \in Runs \ {p} : run[q].pc \notin AlivePCs
    BY <1>3 DEF RowsInv, AloneIsLast
  <2>2. p <= count  BY <1>2, <2>1 DEF Runs
  <2>. QED  BY <1>3, <1>5, <2>1, <2>2
<1>. QED  BY <1>7, <1>8, <1>9, <1>10, <1>11, <1>12, <1>13, <1>14 DEF RowsInv

(* A delete: the row it takes is of a run that counts as cleared.          *)
LEMMA DeleteStep ==
    ASSUME RowsInv, DeleteOne
    PROVE  RowsInv'
<1>1. PICK row \in clear.todo :
          \/ /\ store' = store \ {row}
             /\ clear' = [clear EXCEPT !.todo = @ \ {row}]
             /\ UNCHANGED budget
          \/ /\ store' \in {store, store \ {row}}
             /\ clear' = [clear EXCEPT !.todo = @ \ {row}, !.swept = FALSE]
             /\ Spend("fault")
  BY DEF DeleteOne
<1>2. UNCHANGED <<run, count, active, marked>> /\ clear.pc = "delete"
  BY DEF DeleteOne
<1>3. clear \in [pc : {"no", "delete"}, todo : SUBSET Rows,
                 swept : BOOLEAN, alone : BOOLEAN]
  BY RunsAreTyped DEF RowsInv
<1>4. /\ store' \subseteq store /\ \A other \in store : other = row \/ other \in store'
      /\ clear'.pc = "delete" /\ clear'.todo = clear.todo \ {row}
      /\ clear'.alone = clear.alone
      /\ clear'.swept => clear.swept /\ store' = store \ {row}
      /\ clear' \in [pc : {"no", "delete"}, todo : SUBSET Rows,
                     swept : BOOLEAN, alone : BOOLEAN]
  BY <1>1, <1>2, <1>3
<1>5. run[row.run].cleared  BY DEF RowsInv, ClearIsFair
<1>6. ASSUME NEW q \in Runs, ~run[q].cleared
      PROVE  \A other \in RowsOf(q) : other \in store => other \in store'
  BY <1>4, <1>5, <1>6, RowsOfRun
<1>7. budget' \in [Kinds -> Nat]
  <2>1. TypeOK /\ "fault" \in Kinds  BY DEF RowsInv, Kinds
  <2>2. CASE UNCHANGED budget  BY <2>1, <2>2 DEF TypeOK
  <2>3. CASE Spend("fault")  BY <2>1, <2>3, SpendType
  <2>. QED  BY <1>1, <2>2, <2>3
<1>8. TypeOK'
  BY <1>2, <1>4, <1>7, RunsAreTyped DEF RowsInv, TypeOK, RunRecord
<1>9. FreeAreLater' /\ DueMayRetry'
  BY <1>2 DEF RowsInv, FreeAreLater, DueMayRetry
<1>10. StartedOnly'  BY <1>2, <1>4 DEF RowsInv, StartedOnly
<1>11. WrittenSoFar'
  <2>. SUFFICES ASSUME NEW q \in Runs, ~run[q].cleared
                PROVE  Wrote(run[q], q, store')
    BY <1>2 DEF WrittenSoFar
  <2>1. Wrote(run[q], q, store) /\ run[q] \in RunRecord
    BY RunsAreTyped DEF RowsInv, WrittenSoFar
  <2>2. /\ \A i \in 1 .. Segments : Row(q, "segment", i) \in RowsOf(q)
        /\ Row(q, "beat", 1) \in RowsOf(q) /\ Row(q, "scene", 1) \in RowsOf(q)
    BY DEF RowsOf
  <2>3. 1 .. run[q].posted \subseteq 1 .. Segments
    BY <2>1, RowsAssumption DEF RunRecord
  <2>. QED  BY <1>6, <2>1, <2>2, <2>3 DEF Wrote
<1>12. MarkedRunIsWhole'
  <2>1. marked # 0 => marked \in Runs
    BY RowsAssumption DEF RowsInv, TypeOK, Runs
  <2>. QED  BY <1>2, <1>6, <2>1 DEF RowsInv, MarkedRunIsWhole
<1>13. ClearIsFair'
  <2>1. \A other \in clear'.todo : other.run <= count /\ run[other.run].cleared
    BY <1>4 DEF RowsInv, ClearIsFair
  <2>2. clear'.alone => /\ \A r \in Runs : run[r].pc \notin AlivePCs
                        /\ clear'.swept => store' \subseteq clear'.todo
    BY <1>2, <1>4 DEF RowsInv, ClearIsFair
  <2>. QED  BY <1>2, <1>4, <2>1, <2>2 DEF ClearIsFair
<1>14. AloneIsLast'  BY <1>2, <1>4 DEF RowsInv, AloneIsLast
<1>. QED  BY <1>8, <1>9, <1>10, <1>11, <1>12, <1>13, <1>14 DEF RowsInv

(* ------------------------------ theorems ------------------------------- *)

LEMMA RowsNext == RowsInv /\ [Next]_rowVars => RowsInv'
<1>. SUFFICES ASSUME RowsInv, [Next]_rowVars PROVE RowsInv'
  OBVIOUS
<1>1. CASE Next
  <2>1. ASSUME NEW r \in Runs,
               \/ Claim(r) \/ PostBatch(r) \/ PostBeats(r) \/ PostScenes(r)
               \/ Mark(r) \/ Complete(r) \/ Retry(r)
        PROVE  RowsInv'
    BY <2>1, ClaimStep, PostBatchStep, PostBeatsStep, PostScenesStep, MarkStep,
       CompleteStep, RetryStep
  <2>. QED  BY <1>1, <2>1, ListStep, DeleteStep, StartRerunStep DEF Next
<1>2. CASE UNCHANGED rowVars
  <2>1. UNCHANGED <<store, run, count, active, clear, marked, budget>>
    BY <1>2 DEF rowVars
  <2>2. TypeOK' /\ FreeAreLater' /\ StartedOnly' /\ DueMayRetry'
    BY <2>1 DEF RowsInv, TypeOK, FreeAreLater, StartedOnly, DueMayRetry
  <2>3. WrittenSoFar' /\ MarkedRunIsWhole'
    BY <2>1 DEF RowsInv, WrittenSoFar, Wrote, MarkedRunIsWhole
  <2>4. ClearIsFair' /\ AloneIsLast'
    BY <2>1 DEF RowsInv, ClearIsFair, AloneIsLast
  <2>. QED  BY <2>2, <2>3, <2>4 DEF RowsInv
<1>. QED  BY <1>1, <1>2

(* What RowsInv says holds of every reachable state.                       *)
THEOREM RowsInvariant == Spec => []RowsInv
  BY RowsInit, RowsNext, PTL DEF Spec

(* Every variable holds values of its kind, and no run is an attempt past  *)
(* the end of the retry schedule: a schedule of n entries lets n - 1       *)
(* retries be made (event_loop.rs:344, retry.rs:72-75).                    *)
THEOREM RowsTyped == Spec => []TypeOK
<1>1. RowsInv => TypeOK  BY DEF RowsInv
<1>. QED  BY <1>1, RowsInvariant, PTL

(* A transcribed session has every row of the run that marked it, whatever *)
(* failed, as long as no rerun has listed rows since that run started.     *)
THEOREM MarkedIsWhole == Spec => []MarkedRunIsWhole
<1>1. RowsInv => MarkedRunIsWhole  BY DEF RowsInv
<1>. QED  BY <1>1, RowsInvariant, PTL

(* A rerun that no other run overlaps or follows, and whose requests all   *)
(* succeed, leaves exactly its own rows.                                   *)
THEOREM UndisturbedIsClean == Spec => []UndisturbedRerunIsClean
<1>1. RowsInv => UndisturbedRerunIsClean
  <2>. SUFFICES ASSUME RowsInv, marked # 0, run[marked].rerun, run[marked].alone,
                       run[marked].swept, ~run[marked].cleared
                PROVE  store = RowsOf(marked)
    BY DEF UndisturbedRerunIsClean
  <2>1. marked \in Runs  BY RowsAssumption DEF RowsInv, TypeOK, Runs
  <2>2. RowsOf(marked) \subseteq store  BY DEF RowsInv, MarkedRunIsWhole
  <2>3. \A row \in store : row.run = marked  BY <2>1 DEF RowsInv, AloneIsLast
  <2>. QED  BY <2>1, <2>2, <2>3, RowsOfRun DEF RowsInv, TypeOK
<1>. QED  BY <1>1, RowsInvariant, PTL

(* No delete takes a row of a run that started after the listing.          *)
THEOREM DeletesAreOfEarlierRuns == Spec => DeletesOnlyEarlierRuns
<1>1. RowsInv /\ [Next]_rowVars =>
        [\A row \in store \ store' : run[row.run].cleared]_rowVars
  <2>. SUFFICES ASSUME RowsInv, Next, NEW row \in store, row \notin store'
                PROVE  run[row.run].cleared
    OBVIOUS
  <2>1. ASSUME NEW r \in Runs,
               \/ Claim(r) \/ PostBatch(r) \/ PostBeats(r) \/ PostScenes(r)
               \/ Mark(r) \/ Complete(r) \/ Retry(r)
        PROVE  FALSE
    BY <2>1 DEF Claim, PostBatch, PostBeats, PostScenes, Post, Mark, Complete, Retry
  <2>2. CASE ListPriorOutputs \/ StartRerun
    BY <2>2 DEF ListPriorOutputs, StartRerun
  <2>3. CASE DeleteOne
    BY <2>3 DEF DeleteOne, RowsInv, ClearIsFair
  <2>. QED  BY <2>1, <2>2, <2>3 DEF Next
<1>. QED  BY <1>1, RowsInvariant, PTL DEF Spec, DeletesOnlyEarlierRuns
=============================================================================
