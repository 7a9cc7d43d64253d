----------------------------- MODULE OutputRows -----------------------------
(***************************************************************************)
(* The transcript rows of one session in the data-api: one-shot runs write *)
(* them request by request, an admin rerun lists and deletes them one by   *)
(* one, and requests fail in between.                                      *)
(*                                                                         *)
(* A run that starts claims the session, posts its segments in batches,    *)
(* then its beats, then its scenes, and marks the session.  One that fails *)
(* is retried, and nothing is deleted before a retry.  A rerun deletes     *)
(* what it finds and starts a run; the run it aborts goes on unwatched     *)
(* (only the task that waits for it is aborted), and a retry that is due   *)
(* later stays due.  The ids of rows come from the pipeline, which is      *)
(* external; they are taken to be new in every run, so a row is named by   *)
(* its run.                                                                *)
(***************************************************************************)
EXTENDS Naturals, FiniteSets

CONSTANTS
    RunLimit,   \* how many runs are started (a bound)
    Segments,   \* segments per run
    BatchSize,  \* of post_segments_chunked (5)
    Retries,    \* length of the retry schedule
    Budget      \* how many requests fail, how many reruns are asked for

Kinds == {"fault", "rerun"}

ASSUME RowsAssumption ==
    /\ RunLimit \in Nat \ {0} /\ Segments \in Nat /\ Retries \in Nat
    /\ BatchSize \in Nat \ {0}
    /\ Budget \in [Kinds -> Nat]

VARIABLES
    store,   \* rows in the data-api
    run,     \* the runs started so far
    count,   \* how many they are
    active,  \* the session's entry of the active map: a run, or 0
    clear,   \* clear_prior_outputs, while the event loop is in it
    marked,  \* the run that marked the session last, 0 if none
    budget

rowVars == <<store, run, count, active, clear, marked, budget>>

Runs == 1 .. RunLimit

Row(r, kind, i) == [run |-> r, kind |-> kind, index |-> i]

RowKinds == {"segment", "beat", "scene"}

(* All a run writes; one row stands for its beats, one for its scenes.     *)
RowsOf(r) == {Row(r, "segment", i) : i \in 1 .. Segments}
                \cup {Row(r, "beat", 1), Row(r, "scene", 1)}

Rows == UNION {RowsOf(r) : r \in Runs}

(* "failed" and "done": ended, not yet joined by the event loop.  "due":   *)
(* its retry is in the queue.                                              *)
RunPCs == {"free", "claim", "segments", "beats", "scenes", "mark",
           "failed", "done", "due", "over"}

(* watched: the event loop will see it end.  The rest is history.  rerun:  *)
(* started by a rerun.  alone: no run that was alive at that rerun's       *)
(* listing, and none that started since.  swept: every request of that     *)
(* rerun's clear succeeded.  cleared: rows were listed since it started.   *)
Free == [pc |-> "free", posted |-> 0, attempt |-> 0, watched |-> TRUE,
         rerun |-> FALSE, alone |-> FALSE, swept |-> FALSE, cleared |-> FALSE]

NewRun(attempt) == [Free EXCEPT !.pc = "claim", !.attempt = attempt]

Alive == {r \in Runs : run[r].pc \in {"claim", "segments", "beats", "scenes", "mark"}}

NoClear == [pc |-> "no", todo |-> {}, swept |-> TRUE, alone |-> TRUE]

Spend(kind) == /\ budget[kind] > 0
               /\ budget' = [budget EXCEPT ![kind] = @ - 1]

Init == /\ store = {}
        /\ run = [r \in Runs |-> IF r = 1 THEN NewRun(1) ELSE Free]
        /\ count = 1
        /\ active = 1
        /\ clear = NoClear
        /\ marked = 0
        /\ budget = Budget

(* ------------------------------ the runs ------------------------------- *)

At(r, pc) == run' = [run EXCEPT ![r].pc = pc]

(* A request that writes rows: it succeeds, or it fails and may have been  *)
(* carried out all the same.                                               *)
Post(r, rows, next) ==
    /\ \/ store' = store \cup rows /\ run' = next /\ UNCHANGED budget
       \/ /\ store' \in {store, store \cup rows}
          /\ At(r, "failed")
          /\ Spend("fault")
    /\ UNCHANGED <<count, active, clear, marked>>

(* claim_session: accepted; refused, which ends the run without a retry;   *)
(* or failed, then or later before the first row is written.               *)
Claim(r) == /\ run[r].pc = "claim"
            /\ \/ At(r, "segments") /\ UNCHANGED budget
               \/ At(r, "done") /\ UNCHANGED budget
               \/ At(r, "failed") /\ Spend("fault")
            /\ UNCHANGED <<store, count, active, clear, marked>>

Smaller(m, n) == IF m < n THEN m ELSE n

(* Batches whose failure does not stop the run.                            *)
PostBatchCarryingOn(r) ==
    /\ run[r].pc = "segments"
    /\ LET end == Smaller(run[r].posted + BatchSize, Segments) IN
       /\ run' = [run EXCEPT ![r].posted = end,
                             ![r].pc = IF end = Segments THEN "beats" ELSE @]
       /\ \/ /\ store' = store \cup {Row(r, "segment", i) : i \in run[r].posted + 1 .. end}
             /\ UNCHANGED budget
          \/ Spend("fault") /\ UNCHANGED store
    /\ UNCHANGED <<count, active, clear, marked>>

(* post_segments_chunked: the batches one after the other, the first that  *)
(* fails ends the run.                                                     *)
PostBatch(r) ==
    /\ run[r].pc = "segments"
    /\ LET end == Smaller(run[r].posted + BatchSize, Segments) IN
       Post(r, {Row(r, "segment", i) : i \in run[r].posted + 1 .. end},
            [run EXCEPT ![r].posted = end,
                        ![r].pc = IF end = Segments THEN "beats" ELSE @])

PostBeats(r) ==
    /\ run[r].pc = "beats"
    /\ Post(r, {Row(r, "beat", 1)}, [run EXCEPT ![r].pc = "scenes"])

PostScenes(r) ==
    /\ run[r].pc = "scenes"
    /\ Post(r, {Row(r, "scene", 1)}, [run EXCEPT ![r].pc = "mark"])

(* mark_transcribed: done, refused, or failed with or without being done.  *)
Mark(r) == /\ run[r].pc = "mark"
           /\ \/ At(r, "done") /\ marked' \in {marked, r} /\ UNCHANGED budget
              \/ At(r, "failed") /\ marked' \in {marked, r} /\ Spend("fault")
           /\ UNCHANGED <<store, count, active, clear>>

(* --------------------------- the event loop ---------------------------- *)

(* A completion that looks up the schedule one entry too far.              *)
CompletePastEnd(r) ==
    /\ clear.pc = "no"
    /\ run[r].pc \in {"failed", "done"} /\ run[r].watched
    /\ active' = 0
    /\ At(r, IF run[r].pc = "failed" /\ run[r].attempt <= Retries THEN "due" ELSE "over")
    /\ UNCHANGED <<store, count, clear, marked, budget>>

(* on_runner_complete: the session leaves the active map, and a run that   *)
(* failed gets a retry as long as the schedule has an entry for the number *)
(* of the attempt to come, which is what schedule is asked about.          *)
Complete(r) ==
    /\ clear.pc = "no"
    /\ run[r].pc \in {"failed", "done"} /\ run[r].watched
    /\ active' = 0
    /\ At(r, IF run[r].pc = "failed" /\ run[r].attempt < Retries THEN "due" ELSE "over")
    /\ UNCHANGED <<store, count, clear, marked, budget>>

(* spawn_runner: a run more, in the active map in the place of any other.  *)
Start(runs, new) ==
    /\ count < RunLimit
    /\ count' = count + 1
    /\ active' = count + 1
    /\ run' = [r \in Runs |-> IF r = count + 1 THEN new
                              ELSE [runs[r] EXCEPT !.alone = FALSE]]

(* handle_retry.                                                           *)
Retry(r) ==
    /\ clear.pc = "no"
    /\ run[r].pc = "due"
    /\ Start([run EXCEPT ![r].pc = "over"], NewRun(run[r].attempt + 1))
    /\ UNCHANGED <<store, clear, marked, budget>>

(* A clear that forgets one kind of row.                                   *)
ListedWithoutScenes == {row \in store : row.kind # "scene"}

(* The rows the three listings of clear_prior_outputs give, all of them.   *)
Listed == store

(* An admin rerun: the active run is no longer watched (one that has just  *)
(* ended may be all the same), then the three listings run at one time;    *)
(* one that fails counts as empty.                                         *)
ListPriorOutputs ==
    /\ clear.pc = "no" /\ count < RunLimit
    /\ \E missing \in SUBSET RowKinds, watched \in BOOLEAN :
          /\ watched => active # 0 /\ run[active].pc \in {"failed", "done"}
          /\ budget["rerun"] > 0 /\ Cardinality(missing) <= budget["fault"]
          /\ budget' = [budget EXCEPT !["rerun"] = @ - 1,
                                      !["fault"] = @ - Cardinality(missing)]
          /\ clear' = [pc |-> "delete",
                       todo |-> {row \in Listed : row.kind \notin missing},
                       swept |-> missing = {},
                       alone |-> Alive = {}]
          /\ run' = [r \in Runs |->
                       IF run[r].pc = "free" THEN run[r]
                       ELSE [run[r] EXCEPT !.cleared = TRUE,
                                           !.watched = @ /\ (r = active => watched)]]
    /\ active' = 0
    /\ UNCHANGED <<store, count, marked>>

(* Segments before beats before scenes; a delete that fails, done or not,  *)
(* is ignored.                                                             *)
Rank(kind) == CASE kind = "segment" -> 1 [] kind = "beat" -> 2 [] kind = "scene" -> 3

DeleteOne ==
    /\ clear.pc = "delete"
    /\ \E row \in clear.todo :
          /\ \A other \in clear.todo : Rank(row.kind) <= Rank(other.kind)
          /\ \/ /\ store' = store \ {row}
                /\ clear' = [clear EXCEPT !.todo = @ \ {row}]
                /\ UNCHANGED budget
             \/ /\ store' \in {store, store \ {row}}
                /\ clear' = [clear EXCEPT !.todo = @ \ {row}, !.swept = FALSE]
                /\ Spend("fault")
    /\ UNCHANGED <<run, count, active, marked>>

(* A rerun whose run starts while rows are still being deleted, the ones   *)
(* that appear meanwhile too.                                              *)
StartRerunEarly ==
    /\ clear.pc = "delete"
    /\ Start(run, [NewRun(1) EXCEPT !.rerun = TRUE, !.alone = clear.alone,
                                    !.swept = clear.swept])
    /\ clear' = [clear EXCEPT !.todo = RowsOf(count + 1)]
    /\ UNCHANGED <<store, marked, budget>>

(* The run of the rerun starts when nothing is left to delete.             *)
StartRerun ==
    /\ clear.pc = "delete" /\ clear.todo = {}
    /\ Start(run, [NewRun(1) EXCEPT !.rerun = TRUE, !.alone = clear.alone,
                                    !.swept = clear.swept])
    /\ clear' = NoClear
    /\ UNCHANGED <<store, marked, budget>>

Next == \/ \E r \in Runs : \/ Claim(r) \/ PostBatch(r) \/ PostBeats(r)
                           \/ PostScenes(r) \/ Mark(r)
                           \/ Complete(r) \/ Retry(r)
        \/ ListPriorOutputs \/ DeleteOne \/ StartRerun

Spec == Init /\ [][Next]_rowVars

(* ------------------------------ properties ----------------------------- *)

(* The number of the last attempt: the schedule's length, since attempt    *)
(* n + 1 needs an entry n + 1; the first one needs none.                   *)
LastAttempt == IF Retries = 0 THEN 1 ELSE Retries

(* Every variable holds values of its kind; no run is an attempt past the  *)
(* end of the retry schedule (event_loop.rs:344, retry.rs:72-75).          *)
TypeOK ==
    /\ store \subseteq Rows
    /\ run \in [Runs -> [pc : RunPCs, posted : 0 .. Segments,
                         attempt : 0 .. LastAttempt, watched : BOOLEAN,
                         rerun : BOOLEAN, alone : BOOLEAN, swept : BOOLEAN,
                         cleared : BOOLEAN]]
    /\ count \in Runs
    /\ active \in 0 .. RunLimit
    /\ clear \in [pc : {"no", "delete"}, todo : SUBSET Rows,
                  swept : BOOLEAN, alone : BOOLEAN]
    /\ marked \in 0 .. RunLimit
    /\ budget \in [Kinds -> Nat]

(* A session that is transcribed has every row of the run that marked it,  *)
(* whatever failed before, as long as no rerun listed rows since that run  *)
(* started (session_runner.rs:306-308, 448-492).                           *)
MarkedRunIsWhole ==
    marked # 0 /\ ~run[marked].cleared => RowsOf(marked) \subseteq store

(* A rerun whose requests all succeed, and that no other run of the        *)
(* session overlaps or follows, leaves exactly the rows of its own run,    *)
(* however many failed runs left theirs before                             *)
(* (session_runner.rs:320-343, event_loop.rs:252-264).                     *)
UndisturbedRerunIsClean ==
    marked # 0 /\ run[marked].rerun /\ run[marked].alone /\ run[marked].swept
        /\ ~run[marked].cleared
        => store = RowsOf(marked)

(* Rows disappear only if a rerun listed them after their run started: no  *)
(* delete hits the run the rerun starts (event_loop.rs:252-264).           *)
DeletesOnlyEarlierRuns ==
    [][\A row \in store \ store' : run[row.run].cleared]_rowVars
=============================================================================
