------------------------------- MODULE Worker -------------------------------
(***************************************************************************)
(* One worker process: its event loop (EventLoop), the runner tasks it     *)
(* spawns (SessionRunner), and the world around them: the collector that   *)
(* records sessions, the socket that carries events, the data-api that     *)
(* keeps their status.                                                     *)
(***************************************************************************)
EXTENDS EventLoop, SessionRunner

EnvUnchanged == UNCHANGED <<complete, active, runner, retryq, loop, gaveUp>>

(* The collector uploads a chunk of a session it records.                  *)
UploadChunk(s) ==
    /\ status[s] = "recording"
    /\ Spend("chunk")
    /\ Len(bus) < BusCap
    /\ bus' = Append(bus, <<"chunk", s>>)
    /\ UNCHANGED status
    /\ EnvUnchanged

(* The recording ends.                                                     *)
FinishRecording(s) ==
    /\ status[s] = "recording"
    /\ Len(bus) < BusCap
    /\ status' = [status EXCEPT ![s] = "uploaded"]
    /\ bus' = Append(bus, <<"uploaded", s>>)
    /\ UNCHANGED budget
    /\ EnvUnchanged

(* The socket is down, or the connection breaks, when the newest event is  *)
(* sent: the worker never sees it.                                         *)
LoseEvent ==
    /\ bus # <<>>
    /\ Spend("loss")
    /\ bus' = SubSeq(bus, 1, Len(bus) - 1)
    /\ UNCHANGED status
    /\ EnvUnchanged

(* An event of a recorded session arrives again, or arrives late.          *)
RepeatEvent(s) ==
    /\ status[s] \notin {"recording", "deleted"}
    /\ Spend("repeat")
    /\ Len(bus) < BusCap
    /\ \E kind \in {"chunk", "uploaded"} : bus' = Append(bus, <<kind, s>>)
    /\ UNCHANGED status
    /\ EnvUnchanged

(* The session is deleted in the data-api: every later PATCH answers 404.  *)
DeleteSession(s) ==
    /\ status[s] # "deleted"
    /\ Spend("delete")
    /\ status' = [status EXCEPT ![s] = "deleted"]
    /\ UNCHANGED bus
    /\ EnvUnchanged

EnvStep == \/ LoseEvent
           \/ \E s \in Sessions : \/ UploadChunk(s) \/ FinishRecording(s)
                                  \/ RepeatEvent(s) \/ DeleteSession(s)

(* The process starts.  Earlier processes may have left a session with any *)
(* status: the rows of a run they did not finish count as none, and what   *)
(* they failed has lost its place in the retry queue, as in Crash.         *)
Init ==
    /\ status \in [Sessions -> Status \ {"deleted"}]
    /\ complete = [s \in Sessions |-> status[s] = "transcribed"]
    /\ bus = <<>>
    /\ active = [s \in Sessions |-> NoSlot]
    /\ runner = [r \in Slots |-> FreeRunner]
    /\ retryq = [s \in Sessions |-> [k \in 1 .. Backoffs |-> 0]]
    /\ loop = LoopAt("startup_orphans")
    /\ gaveUp = [s \in Sessions |->
          IF status[s] = "transcribing_failed" THEN "restart" ELSE "no"]
    /\ budget = Budget

Next == \/ \E r \in Slots : RunnerStep(r)
        \/ LoopStep
        \/ EnvStep
        \/ Crash

Spec == Init /\ [][Next]_vars

(***************************************************************************)
(* Fairness.  tokio keeps running every task that can run, and every       *)
(* request ends, so each runner and each step of a handler is weakly fair. *)
(* select! polls its branches in random order each time round: a branch    *)
(* that is ready again and again is taken, which is strong fairness.       *)
(* Nothing is assumed of the environment, faults or admin commands.        *)
(***************************************************************************)
Fairness ==
    /\ \A r \in Slots : WF_vars(RunnerStep(r))
    /\ WF_vars(OwnStep)
    /\ SF_vars(WsBranch) /\ SF_vars(PollReconcile)
    /\ SF_vars(RetryBranch) /\ SF_vars(JoinBranch)

FairSpec == Spec /\ Fairness

(* ------------------------------ Safety --------------------------------- *)

(* Every variable holds values of its kind (structs of event_loop.rs,      *)
(* session_runner.rs and retry.rs).                                        *)
TypeOK ==
    /\ status \in [Sessions -> Status]
    /\ complete \in [Sessions -> BOOLEAN]
    /\ bus \in Seq(Events)
    /\ active \in [Sessions -> Slots \cup {NoSlot}]
    /\ runner \in [Slots -> RunnerRecord]
    /\ retryq \in [Sessions -> [1 .. Backoffs -> Nat]]
    /\ loop \in LoopRecord
    /\ gaveUp \in [Sessions -> Reasons]
    /\ budget \in [BudgetKinds -> Nat]

(* A handle in the map always leads to a runner of that session that the   *)
(* JoinSet still holds, whatever overwrites, reruns and late completions   *)
(* did to the entry: a command never goes to another session's runner, and *)
(* an entry never outlives the last completion that would remove it        *)
(* (event_loop.rs:254, 311, 324).                                          *)
HandlesAreJoined ==
    \A s \in Sessions : active[s] # NoSlot =>
        /\ runner[active[s]].session = s
        /\ runner[active[s]].pc # "free"
        /\ runner[active[s]].joined

NoRerunYet == budget["rerun"] = Budget["rerun"]

(* As long as no admin rerun was issued, a session is transcribed in the   *)
(* data-api only when the rows of a whole run are stored: no failed write, *)
(* lost reply, duplicate runner or restart marks a session early           *)
(* (session_runner.rs:254-255, 307-308).                                   *)
WrittenBeforeTranscribed ==
    NoRerunYet => \A s \in Sessions : status[s] = "transcribed" => complete[s]

InFlight(s) == \E r \in Slots :
    /\ runner[r].session = s /\ runner[r].joined
    /\ runner[r].pc \in {"claim", "collect", "produce", "mark", "failed", "misconfigured"}

RetryQueued(s) == \E k \in 1 .. Backoffs : retryq[s][k] > 0

(* A session that was claimed is never forgotten: while it is transcribing *)
(* or failed, a runner the loop waits for works on it, or a retry is       *)
(* queued, or startup is about to list it, or the worker gave up for a     *)
(* reason of its own (schedule exhausted, configuration error, a restart   *)
(* that lost the retry queue, a startup listing that failed).  This is     *)
(* what on_runner_complete, the retry queue and startup_reconcile must     *)
(* achieve together (event_loop.rs:114-140, 318-357).                      *)
NoOrphanedSession ==
    NoRerunYet => \A s \in Sessions :
        status[s] \in {"transcribing", "transcribing_failed"} =>
            \/ InFlight(s)
            \/ RetryQueued(s)
            \/ gaveUp[s] # "no"
            \/ loop.pc = "startup_orphans" /\ status[s] = "transcribing"

(* ------------------- The inductive invariant of WorkerProofs ----------- *)

(* Runners and blocked handlers work for a real session.                   *)
SessionsNamed ==
    /\ \A r \in Slots : runner[r].pc # "free" => runner[r].session \in Sessions
    /\ loop.pc \in {"sending", "clearing"} => loop.session \in Sessions

(* A runner that is being aborted has left the map.                        *)
AbortedIsUnmapped ==
    loop.pc = "sending" /\ loop.cmd = "abort" => \A s \in Sessions : active[s] # loop.to

RerunsCounted == budget["rerun"] <= Budget["rerun"]

(* Only a rerun aborts, clears rows or detaches a runner.                  *)
NoAbortYet == NoRerunYet =>
    /\ loop.pc # "clearing"
    /\ ~(loop.pc = "sending" /\ loop.cmd = "abort")
    /\ \A r \in Slots : runner[r].pc # "free" => runner[r].joined

(* A runner marks its session only after its rows are stored.              *)
RowsBeforeMark == NoRerunYet =>
    \A r \in Slots : runner[r].pc = "mark" => complete[runner[r].session]

(* A failed session waits for a runner that has yet to claim it or to      *)
(* report, or for a retry.                                                 *)
FailedIsCovered == NoRerunYet => \A s \in Sessions :
    status[s] = "transcribing_failed" =>
       \/ \E r \in Slots : /\ runner[r].session = s /\ runner[r].joined
                           /\ runner[r].pc \in {"claim", "failed", "misconfigured"}
       \/ RetryQueued(s)
       \/ gaveUp[s] # "no"

(* Every fact above, and the three safety properties, hold together and    *)
(* each step keeps them: no step leaves the handles, the aborts and the    *)
(* failure bookkeeping of event_loop.rs:236-357 half done.                 *)
IInv == /\ TypeOK /\ SessionsNamed /\ HandlesAreJoined /\ AbortedIsUnmapped
        /\ RerunsCounted /\ NoAbortYet /\ RowsBeforeMark
        /\ WrittenBeforeTranscribed /\ FailedIsCovered /\ NoOrphanedSession

(* ------------------------- Action properties --------------------------- *)

(* A run's outputs are whole when it marks its session transcribed: no     *)
(* rerun deletes rows under a runner that is about to mark                 *)
(* (event_loop.rs:253, "Abort any existing runner first so we don't race   *)
(* outputs").                                                              *)
MarkedWithRows ==
    [][\A s \in Sessions :
          status[s] # "transcribed" /\ status'[s] = "transcribed" => complete[s]]_vars

(* An entry pushed on the retry queue carries the number of the run that   *)
(* just failed (retry.rs:67-69), so the first failure waits the first      *)
(* backoff (retry.rs:3-5).                                                 *)
ScheduledForFailedRun ==
    [][\A s \in Sessions, k \in 1 .. Backoffs :
          retryq'[s][k] > retryq[s][k] =>
              \E r \in Slots : /\ runner[r].session = s
                               /\ runner[r].pc = "failed"
                               /\ runner[r].attempt = k]_vars

(* ------------------------------ Liveness ------------------------------- *)

(* A session that was uploaded does not stay uploaded: events, startup or  *)
(* the poll get it claimed, or it is deleted (README.md:57-59).            *)
UploadedIsPickedUp ==
    \A s \in Sessions : status[s] = "uploaded" ~> status[s] # "uploaded"

(* A claimed session comes to an end, or the worker gave up on it for one  *)
(* of the reasons of NoOrphanedSession.                                    *)
ClaimedIsResolved ==
    \A s \in Sessions :
        status[s] = "transcribing" ~> (status[s] # "transcribing" \/ gaveUp[s] # "no")

(* The loop never stays blocked on a full channel, although a one-shot     *)
(* runner never reads its own (event_loop.rs:185, 208, 255;                *)
(* session_runner.rs:93).                                                  *)
SendsReturn == loop.pc = "sending" ~> loop.pc # "sending"
=============================================================================
