---------------------------- MODULE SessionRunner ----------------------------
(***************************************************************************)
(* A session runner: the tokio task that transcribes one session.          *)
(*                                                                         *)
(* A streaming runner builds its pipeline, takes commands from its channel *)
(* until Finalize, then claims the session, drains the pipeline, writes    *)
(* the rows and marks the session.  A one-shot runner claims first, then   *)
(* collects every chunk, runs the pipeline, writes and marks.  Each await  *)
(* on the data-api is a step of its own.  How chunks reach the pipeline    *)
(* in order is the module StreamingIngest.                                 *)
(***************************************************************************)
EXTENDS WorkerState

RunnerUnchanged == UNCHANGED <<bus, active, retryq, loop>>

(* A runner reaches pc.  Its channel closes where RxOpenAt says, and a     *)
(* finished runner whose wrapper task was aborted leaves nothing behind.   *)
Reached(record, pc) ==
    IF pc \in Terminal /\ ~record.joined
    THEN FreeRunner
    ELSE [record EXCEPT !.pc = pc,
             !.mailbox = IF RxOpenAt(record.mode, pc) THEN record.mailbox ELSE <<>>]

Enter(r, pc) == runner' = [runner EXCEPT ![r] = Reached(runner[r], pc)]

(* run_streaming up to its loop: build_pipeline fails with a Config error  *)
(* (not retried) or a Pipeline error (retried).                            *)
BuildPipeline(r) ==
    /\ runner[r].pc = "starting"
    /\ \/ Enter(r, "recv") /\ UNCHANGED budget
       \/ Spend("fault") /\ \E e \in {"failed", "misconfigured"} : Enter(r, e)
    /\ UNCHANGED <<status, complete, gaveUp>>
    /\ RunnerUnchanged

(* One turn of run_streaming's loop.  A failed ingest is only logged, so   *)
(* an IngestChunk leaves the runner where it is either way.  recv returns  *)
(* None once the channel is empty and its last sender is gone.             *)
Recv(r) ==
    /\ runner[r].pc = "recv"
    /\ \/ /\ runner[r].mailbox # <<>>
          /\ LET cmd == Head(runner[r].mailbox) IN
             \/ /\ cmd = "ingest"
                /\ runner' = [runner EXCEPT ![r].mailbox = Tail(@)]
             \/ cmd = "finalize" /\ Enter(r, "claim")
             \/ cmd = "abort" /\ Enter(r, "ok")
       \/ /\ runner[r].mailbox = <<>> /\ ~HasSender(r)
          /\ Enter(r, "ok")
    /\ UNCHANGED <<status, complete, gaveUp, budget>>
    /\ RunnerUnchanged

(* claim_session: a 409 means a peer owns the session and ends the run     *)
(* quietly; any other error fails it.                                      *)
AfterClaim(mode, reply) ==
    CASE reply = "ok"       -> IF mode = "streaming" THEN "produce" ELSE "collect"
      [] reply = "conflict" -> "ok"
      [] reply = "notFound" -> "lost"
      [] reply = "error"    -> "failed"

Claim(r) ==
    LET s == runner[r].session IN
    /\ runner[r].pc = "claim"
    /\ \E reply \in Replies :
          /\ Patch(s, "transcribing", reply)
          /\ Enter(r, AfterClaim(runner[r].mode, reply))
          /\ gaveUp' = IF reply = "ok" THEN [gaveUp EXCEPT ![s] = "no"] ELSE gaveUp
    /\ UNCHANGED complete
    /\ RunnerUnchanged

(* collect_speaker_tracks and build_pipeline of the one-shot path.  With   *)
(* no track there is nothing to write and the session is marked at once.   *)
Collect(r) ==
    /\ runner[r].pc = "collect"
    /\ \/ Enter(r, "produce") /\ UNCHANGED <<complete, budget>>
       \/ /\ Enter(r, "mark")
          /\ complete' = [complete EXCEPT ![runner[r].session] = TRUE]
          /\ UNCHANGED budget
       \/ /\ Spend("fault")
          /\ \E e \in {"failed", "misconfigured"} : Enter(r, e)
          /\ UNCHANGED complete
    /\ UNCHANGED <<status, gaveUp>>
    /\ RunnerUnchanged

(* What a runner that ignored a failed write would do.                     *)
ProduceIgnoringWriteError(r) ==
    /\ runner[r].pc = "produce"
    /\ Enter(r, "mark")
    /\ \/ complete' = [complete EXCEPT ![runner[r].session] = TRUE] /\ UNCHANGED budget
       \/ Spend("fault") /\ UNCHANGED complete
    /\ UNCHANGED <<status, gaveUp>>
    /\ RunnerUnchanged

(* The pipeline (run_one_shot or finalize) and write_new_outputs.  The     *)
(* step stands for the last of the writes: a run that fails earlier has    *)
(* written some of its rows and does not complete the session.             *)
Produce(r) ==
    /\ runner[r].pc = "produce"
    /\ \/ /\ Enter(r, "mark")
          /\ complete' = [complete EXCEPT ![runner[r].session] = TRUE]
          /\ UNCHANGED budget
       \/ Spend("fault") /\ Enter(r, "failed") /\ UNCHANGED complete
    /\ UNCHANGED <<status, gaveUp>>
    /\ RunnerUnchanged

(* mark_transcribed: its 409 and 404 are errors of the run that is not     *)
(* retried.                                                                *)
AfterMark(reply) ==
    CASE reply = "ok" -> "ok"
      [] reply = "error" -> "failed"
      [] OTHER -> "lost"

Mark(r) ==
    /\ runner[r].pc = "mark"
    /\ \E reply \in Replies :
          /\ Patch(runner[r].session, "transcribed", reply)
          /\ Enter(r, AfterMark(reply))
    /\ UNCHANGED <<complete, gaveUp>>
    /\ RunnerUnchanged

(* A panic in the runner's task: the wrapper turns the JoinError into an   *)
(* Api error, which is retried.                                            *)
Panic(r) ==
    /\ runner[r].pc \notin Terminal \cup {"free"}
    /\ Spend("fault")
    /\ Enter(r, "failed")
    /\ UNCHANGED <<status, complete, gaveUp>>
    /\ RunnerUnchanged

RunnerStep(r) == \/ BuildPipeline(r) \/ Recv(r) \/ Claim(r) \/ Collect(r)
                 \/ Produce(r) \/ Mark(r) \/ Panic(r)
=============================================================================
