------------------------------ MODULE EventLoop ------------------------------
(***************************************************************************)
(* The worker's event loop: startup reconciliation, then one select! over  *)
(* bus events, the poll timer, due retries, finished runners and admin     *)
(* commands.                                                               *)
(*                                                                         *)
(* Only the loop changes active, so a handler is one step except where it  *)
(* awaits something another actor can change meanwhile: a send on a        *)
(* runner's channel (loop.pc = "sending", blocked while the channel is     *)
(* full) and the clearing of old rows before an admin rerun ("clearing").  *)
(***************************************************************************)
EXTENDS WorkerState

Spawned(s, attempt, mode) ==
    [session |-> s, mode |-> mode, attempt |-> attempt,
     pc |-> IF mode = "streaming" THEN "starting" ELSE "claim",
     mailbox |-> <<>>, joined |-> TRUE]

(* Slots only names the tasks, so which free slot a new runner gets does   *)
(* not matter: it is the first the model finds.                            *)
NewSlot == CHOOSE r \in FreeSlots : TRUE

(* Slots is finite: a handler that may have to spawn starts only while     *)
(* there is room.  No such limit exists in the code.                       *)
HasRoom == FreeSlots # {}

(* spawn_runner: the new runner's handle overwrites the session's entry.   *)
Spawn(s, attempt, mode) ==
    /\ HasRoom
    /\ runner' = [runner EXCEPT ![NewSlot] = Spawned(s, attempt, mode)]
    /\ active' = [active EXCEPT ![s] = NewSlot]

(* One-shot runners, attempt 1, for each session of S.                     *)
Placements(S) == {slotOf \in [S -> FreeSlots] :
                     \A s, t \in S : slotOf[s] = slotOf[t] => s = t}

SpawnAll(S) ==
    /\ Placements(S) # {}
    /\ LET slotOf == CHOOSE f \in Placements(S) : TRUE IN
       /\ active' = [s \in Sessions |-> IF s \in S THEN slotOf[s] ELSE active[s]]
       /\ runner' = [r \in Slots |->
             IF \E s \in S : slotOf[s] = r
             THEN Spawned(CHOOSE s \in S : slotOf[s] = r, 1, "oneshot")
             ELSE runner[r]]

Listed(st) == {s \in Sessions : status[s] = st}

(* Startup without the listing of orphans.                                 *)
StartupOrphansUnlisted ==
    /\ loop.pc = "startup_orphans"
    /\ loop' = LoopAt("startup_uploaded")
    /\ UNCHANGED <<status, complete, bus, retryq, gaveUp, budget, active, runner>>

(* Startup: every session left transcribing by an earlier process is run   *)
(* again.  A failed listing is only logged: those sessions are not looked  *)
(* for again by this process.                                              *)
StartupOrphans ==
    /\ loop.pc = "startup_orphans"
    /\ loop' = LoopAt("startup_uploaded")
    /\ \/ SpawnAll(Listed("transcribing")) /\ UNCHANGED <<gaveUp, budget>>
       \/ /\ Spend("fault")
          /\ gaveUp' = [s \in Sessions |->
                IF status[s] = "transcribing" THEN "unlisted" ELSE gaveUp[s]]
          /\ UNCHANGED <<active, runner>>
    /\ UNCHANGED <<status, complete, bus, retryq>>

StartupUploaded ==
    /\ loop.pc = "startup_uploaded"
    /\ loop' = LoopAt("select")
    /\ \/ SpawnAll(Listed("uploaded")) /\ UNCHANGED budget
       \/ Spend("fault") /\ UNCHANGED <<active, runner>>
    /\ UNCHANGED <<status, complete, bus, retryq, gaveUp>>

(* The poll tick: uploaded sessions without a runner in the map.  A failed *)
(* listing changes nothing.                                                *)
PollReconcile ==
    LET missed == {s \in Listed("uploaded") : active[s] = NoSlot} IN
    /\ InSelect
    /\ missed # {}
    /\ SpawnAll(missed)
    /\ UNCHANGED <<status, complete, bus, retryq, loop, gaveUp, budget>>

(* SessionUploaded: tell the session's runner, or start one.               *)
OnSessionUploaded(s) ==
    /\ InSelect
    /\ bus # <<>> /\ Head(bus) = <<"uploaded", s>>
    /\ bus' = Tail(bus)
    /\ HasRoom
    /\ \/ /\ active[s] # NoSlot
          /\ loop' = Sending(active[s], "finalize", s)
          /\ UNCHANGED <<active, runner>>
       \/ /\ active[s] = NoSlot
          /\ Spawn(s, 1, "oneshot")
          /\ UNCHANGED loop
    /\ UNCHANGED <<status, complete, retryq, gaveUp, budget>>

(* ChunkUploaded: the session's runner, or a new streaming one, is sent    *)
(* the chunk.                                                              *)
OnChunkUploaded(s) ==
    /\ InSelect
    /\ bus # <<>> /\ Head(bus) = <<"chunk", s>>
    /\ bus' = Tail(bus)
    /\ \/ /\ active[s] # NoSlot
          /\ loop' = Sending(active[s], "ingest", s)
          /\ UNCHANGED <<active, runner>>
       \/ /\ active[s] = NoSlot
          /\ Spawn(s, 1, "streaming")
          /\ loop' = Sending(NewSlot, "ingest", s)
    /\ UNCHANGED <<status, complete, retryq, gaveUp, budget>>

(* What handle_retry would do had next_ready not looked at the queue.      *)
HandleRetryUnchecked(s, attempt) ==
    /\ InSelect
    /\ retryq' = [retryq EXCEPT ![s][attempt] = @ - 1]
    /\ Spawn(s, attempt, "oneshot")
    /\ UNCHANGED <<status, complete, bus, loop, gaveUp, budget>>

(* handle_retry: no look at the map, the entry's runner replaces whatever  *)
(* is there.                                                               *)
HandleRetry(s, attempt) ==
    /\ InSelect
    /\ retryq[s][attempt] > 0
    /\ retryq' = [retryq EXCEPT ![s][attempt] = @ - 1]
    /\ Spawn(s, attempt, "oneshot")
    /\ UNCHANGED <<status, complete, bus, loop, gaveUp, budget>>

(* AdminCmd::Rerun that looks its handle up and leaves it in the map.      *)
AdminRerunKeepingHandle(s) ==
    /\ InSelect
    /\ HasRoom
    /\ Spend("rerun")
    /\ loop' = IF active[s] # NoSlot THEN Sending(active[s], "abort", s)
                                     ELSE [LoopAt("clearing") EXCEPT !.session = s]
    /\ UNCHANGED <<status, complete, bus, runner, retryq, gaveUp, active>>

(* AdminCmd::Rerun: take the handle out of the map and send it an Abort,   *)
(* or go straight to clearing the session's rows.                          *)
AdminRerun(s) ==
    /\ InSelect
    /\ HasRoom
    /\ Spend("rerun")
    /\ active' = [active EXCEPT ![s] = NoSlot]
    /\ loop' = IF active[s] # NoSlot THEN Sending(active[s], "abort", s)
                                     ELSE [LoopAt("clearing") EXCEPT !.session = s]
    /\ UNCHANGED <<status, complete, bus, runner, retryq, gaveUp>>

(* h.abort.abort() cancels the wrapper that awaits the runner, never the   *)
(* runner: an unfinished runner runs on with nobody waiting for it.  A     *)
(* wrapper that already has its result keeps it.                           *)
Detached(record) ==
    IF record.pc \in Terminal THEN {record, FreeRunner}
                              ELSE {[record EXCEPT !.joined = FALSE]}

(* The send the loop is blocked on goes through, or fails because the      *)
(* receiver is gone.                                                       *)
Delivered(r) == IF RxOpen(r) THEN [runner[r] EXCEPT !.mailbox = Append(@, loop.cmd)]
                             ELSE runner[r]
SendReturns(r) == ~RxOpen(r) \/ Len(runner[r].mailbox) < MailboxCap

CompleteSend ==
    LET r == loop.to IN
    /\ loop.pc = "sending"
    /\ SendReturns(r)
    /\ \/ /\ loop.cmd = "ingest" \/ (loop.cmd = "finalize" /\ RxOpen(r))
          /\ runner' = [runner EXCEPT ![r] = Delivered(r)]
          /\ loop' = LoopAt("select")
          /\ UNCHANGED active
       \/ /\ loop.cmd = "finalize" /\ ~RxOpen(r)
          /\ Spawn(loop.session, 1, "oneshot")
          /\ loop' = LoopAt("select")
       \/ /\ loop.cmd = "abort"
          /\ \E record \in Detached(Delivered(r)) :
                runner' = [runner EXCEPT ![r] = record]
          /\ loop' = [LoopAt("clearing") EXCEPT !.session = loop.session]
          /\ UNCHANGED active
    /\ UNCHANGED <<status, complete, bus, retryq, gaveUp, budget>>

(* clear_prior_outputs swallows every error and always succeeds; then the  *)
(* rerun is spawned.                                                       *)
ClearAndSpawn ==
    /\ loop.pc = "clearing"
    /\ \/ complete' = [complete EXCEPT ![loop.session] = FALSE] /\ UNCHANGED budget
       \/ Spend("fault") /\ UNCHANGED complete
    /\ Spawn(loop.session, 1, "oneshot")
    /\ loop' = LoopAt("select")
    /\ UNCHANGED <<status, bus, retryq, gaveUp>>

(* RetryQueue::schedule, indexed from 1.                                   *)
Schedule(s, attempt) ==
    IF attempt <= Backoffs
    THEN /\ retryq' = [retryq EXCEPT ![s][attempt] = @ + 1]
         /\ UNCHANGED gaveUp
    ELSE /\ gaveUp' = [gaveUp EXCEPT ![s] = "exhausted"]
         /\ UNCHANGED retryq

(* What the handler would do had it returned on mark_failed's error.       *)
FailedRunEarlyReturn(s, attempt) ==
    \E reply \in Replies :
       /\ Patch(s, "transcribing_failed", reply)
       /\ IF reply = "ok" THEN Schedule(s, attempt + 1)
                          ELSE UNCHANGED <<retryq, gaveUp>>

(* mark_failed is best effort: the retry is scheduled whatever it answers, *)
(* under the number after the failed attempt's.                            *)
FailedRun(s, attempt) ==
    /\ \E reply \in Replies : Patch(s, "transcribing_failed", reply)
    /\ Schedule(s, attempt + 1)

(* What follows a runner's outcome.                                        *)
AfterOutcome(r) == LET s == runner[r].session IN
    CASE runner[r].pc \in {"ok", "lost"} ->
            UNCHANGED <<status, retryq, gaveUp, budget>>
      [] runner[r].pc = "misconfigured" ->
            /\ gaveUp' = [gaveUp EXCEPT ![s] = "misconfigured"]
            /\ UNCHANGED <<status, retryq, budget>>
      [] runner[r].pc = "failed" -> FailedRun(s, runner[r].attempt)

(* on_runner_complete without active.remove.                               *)
OnRunnerCompleteKeepingHandle(r) ==
    /\ InSelect
    /\ runner[r].pc \in Terminal
    /\ AfterOutcome(r)
    /\ runner' = [runner EXCEPT ![r] = FreeRunner]
    /\ UNCHANGED <<complete, bus, loop, active>>

(* on_runner_complete: the session's entry is removed, also when it is the *)
(* handle of a later runner of the same session.                           *)
OnRunnerComplete(r) ==
    /\ InSelect
    /\ runner[r].pc \in Terminal
    /\ AfterOutcome(r)
    /\ active' = [active EXCEPT ![runner[r].session] = NoSlot]
    /\ runner' = [runner EXCEPT ![r] = FreeRunner]
    /\ UNCHANGED <<complete, bus, loop>>

(* The process dies and starts again: runners, map, retry queue and the    *)
(* events on the channel are gone, the data-api's state stays.  A failed   *)
(* session's queue entry is lost with the rest.                            *)
Crash ==
    /\ Spend("crash")
    /\ runner' = [r \in Slots |-> FreeRunner]
    /\ active' = [s \in Sessions |-> NoSlot]
    /\ retryq' = [s \in Sessions |-> [k \in 1 .. Backoffs |-> 0]]
    /\ bus' = <<>>
    /\ loop' = LoopAt("startup_orphans")
    /\ gaveUp' = [s \in Sessions |->
          IF status[s] = "transcribing_failed" THEN "restart" ELSE "no"]
    /\ UNCHANGED <<status, complete>>

(* The branches of the select! and what the loop does outside of it.       *)
WsBranch    == \E s \in Sessions : OnSessionUploaded(s) \/ OnChunkUploaded(s)
RetryBranch == \E s \in Sessions, k \in 1 .. Backoffs : HandleRetry(s, k)
JoinBranch  == \E r \in Slots : OnRunnerComplete(r)
AdminBranch == \E s \in Sessions : AdminRerun(s)
OwnStep     == StartupOrphans \/ StartupUploaded \/ CompleteSend \/ ClearAndSpawn

LoopStep == WsBranch \/ PollReconcile \/ RetryBranch \/ JoinBranch \/ AdminBranch
            \/ OwnStep
=============================================================================
