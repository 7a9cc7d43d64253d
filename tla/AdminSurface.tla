---------------------------- MODULE AdminSurface ----------------------------
(***************************************************************************)
(* The admin HTTP handlers and their command channel to the event loop.    *)
(*                                                                         *)
(* A handler sends a command, which waits for room in the channel without  *)
(* a limit, and then waits for its answer with one.  The loop takes a      *)
(* command when its select picks that branch; a rerun first clears the     *)
(* session's outputs, many requests long.  What the loop does in its other *)
(* branches is only that it is busy.  Time limits end at any time.         *)
(***************************************************************************)
EXTENDS Naturals, Sequences

CONSTANTS
    Requests,   \* HTTP requests, in progress at one time
    Reruns,     \* those that are POST /admin/rerun; the others are status
    Capacity    \* of the command channel (32)

ASSUME AdminAssumption ==
    /\ Reruns \subseteq Requests
    /\ Capacity \in Nat \ {0}

VARIABLES
    req,      \* request -> where its handler is and what it has answered
    queue,    \* commands in the channel
    loop,     \* the event loop
    started   \* request -> how many runners, or snapshots, it has caused

adminVars == <<req, queue, loop, started>>

None == "none"

Init == /\ req = [r \in Requests |-> [pc |-> "idle", reply |-> None]]
        /\ queue = <<>>
        /\ loop = [pc |-> "select", cmd |-> None]
        /\ started = [r \in Requests |-> 0]

(* ----------------------------- the handlers ---------------------------- *)

(* The receiver is dropped when event_loop::run returns.  Then main        *)
(* returns as well, and the runtime drops the handlers where they stand,   *)
(* unless they have answered before.                                       *)
Open == loop.pc # "gone"

Finish(r, reply) == req' = [req EXCEPT ![r].pc = "over", ![r].reply = reply]

Call(r) == /\ req[r].pc = "idle"
           /\ req' = [req EXCEPT ![r].pc = "sending"]
           /\ UNCHANGED <<queue, loop, started>>

(* A channel without a limit.                                              *)
SendUnbounded(r) == /\ req[r].pc = "sending" /\ Open
                    /\ queue' = Append(queue, r)
                    /\ req' = [req EXCEPT ![r].pc = "waiting"]
                    /\ UNCHANGED <<loop, started>>

(* cmd_tx.send(..).await *)
Send(r) == /\ req[r].pc = "sending" /\ Open
           /\ Len(queue) < Capacity
           /\ queue' = Append(queue, r)
           /\ req' = [req EXCEPT ![r].pc = "waiting"]
           /\ UNCHANGED <<loop, started>>

(* 503, "event loop gone".                                                 *)
SendFails(r) == /\ req[r].pc = "sending" /\ ~Open
                /\ Finish(r, "unavailable")
                /\ UNCHANGED <<queue, loop, started>>

(* 503, "timeout": two or five seconds are over, or the command was        *)
(* dropped with the channel.  The command itself stays where it is.        *)
GivesUp(r) == /\ req[r].pc = "waiting"
              /\ Finish(r, "unavailable")
              /\ UNCHANGED <<queue, loop, started>>

(* ---------------------------- the event loop --------------------------- *)

(* Another branch is taken, and returns.                                   *)
OtherBranch == /\ loop.pc = "select"
               /\ loop' = [loop EXCEPT !.pc = "busy"]
               /\ UNCHANGED <<req, queue, started>>

BranchReturns == /\ loop.pc = "busy"
                 /\ loop' = [loop EXCEPT !.pc = "select"]
                 /\ UNCHANGED <<req, queue, started>>

(* The events' channel is closed: run returns, the commands are dropped,   *)
(* and the process ends.                                                   *)
LoopEnds == /\ loop.pc = "select"
            /\ loop' = [loop EXCEPT !.pc = "gone"]
            /\ queue' = <<>>
            /\ UNCHANGED <<req, started>>

Started(r) == started' = [started EXCEPT ![r] = @ + 1]

(* An answer whose sender waits for somebody to receive it.                *)
AckReceived(r) == req[r].pc = "waiting" /\ Finish(r, "ok")

(* The answer, which nobody receives after the time limit.                 *)
Ack(r) == IF req[r].pc = "waiting"
          THEN Finish(r, "ok") ELSE UNCHANGED req

(* A snapshot is made and sent.                                            *)
Snapshot(r) == Started(r) /\ Ack(r)

(* A loop that drops a command nobody waits for any more.                  *)
RecvUnlessGivenUp ==
    /\ loop.pc = "select" /\ queue # <<>>
    /\ queue' = Tail(queue)
    /\ LET r == Head(queue) IN
       \/ req[r].pc = "over" /\ UNCHANGED <<req, started, loop>>
       \/ r \notin Reruns /\ Snapshot(r) /\ UNCHANGED loop
       \/ /\ r \in Reruns /\ req[r].pc = "waiting"
          /\ loop' = [pc |-> "clear", cmd |-> r]
          /\ UNCHANGED <<req, started>>

(* recv_admin and handle_admin: a status is answered at once, a rerun goes *)
(* on to clear the session's outputs.                                      *)
Recv ==
    /\ loop.pc = "select" /\ queue # <<>>
    /\ queue' = Tail(queue)
    /\ LET r == Head(queue) IN
       \/ r \notin Reruns /\ Snapshot(r) /\ UNCHANGED loop
       \/ /\ r \in Reruns
          /\ loop' = [pc |-> "clear", cmd |-> r]
          /\ UNCHANGED <<req, started>>

(* A rerun that is acknowledged before its runner is started.              *)
RerunStepAckFirst ==
    /\ \/ loop.pc = "clear" /\ Ack(loop.cmd) /\ UNCHANGED started
          /\ loop' = [loop EXCEPT !.pc = "spawned"]
       \/ loop.pc = "spawned" /\ Started(loop.cmd) /\ UNCHANGED req
          /\ loop' = [pc |-> "select", cmd |-> None]
    /\ UNCHANGED queue

(* The outputs are cleared: spawn_runner, then the acknowledgement.  (The  *)
(* error branch before it is never taken: clear_prior_outputs returns Ok.) *)
RerunStep ==
    /\ \/ loop.pc = "clear" /\ Started(loop.cmd) /\ UNCHANGED req
          /\ loop' = [loop EXCEPT !.pc = "spawned"]
       \/ loop.pc = "spawned" /\ Ack(loop.cmd) /\ UNCHANGED started
          /\ loop' = [pc |-> "select", cmd |-> None]
    /\ UNCHANGED queue

Next == \/ \E r \in Requests : Call(r) \/ Send(r) \/ SendFails(r) \/ GivesUp(r)
        \/ OtherBranch \/ BranchReturns \/ LoopEnds \/ Recv \/ RerunStep

Spec == Init /\ [][Next]_adminVars

(* While the loop runs a handler goes on when it can, a time limit ends, a *)
(* branch returns, and select does not pass over a branch that is ready    *)
(* again and again.  Senders get room in the order of their calls, so one  *)
(* is not passed over for ever either.  Nothing is assumed of the handlers *)
(* once the loop has returned, nor that it ever does.                      *)
FairSpec == /\ Spec
            /\ \A r \in Requests : /\ SF_adminVars(Send(r))
                                   /\ WF_adminVars(Open /\ GivesUp(r))
            /\ WF_adminVars(BranchReturns)
            /\ WF_adminVars(RerunStep)
            /\ SF_adminVars(Recv)

(* ------------------------------ properties ----------------------------- *)

(* Every variable holds values of its kind; the channel has its limit.     *)
TypeOK ==
    /\ req \in [Requests -> [pc : {"idle", "sending", "waiting", "over"},
                             reply : {None, "ok", "unavailable"}]]
    /\ queue \in Seq(Requests) /\ Len(queue) <= Capacity
    /\ loop \in [pc : {"select", "busy", "clear", "spawned", "gone"}, cmd : Requests \cup {None}]
    /\ started \in [Requests -> Nat]

(* A request whose answer is not a 503 has been carried out by then, and   *)
(* none is carried out twice, whatever timed out meanwhile                 *)
(* (event_loop.rs:252-265).                                                *)
AnsweredMeansDone ==
    \A r \in Requests : /\ started[r] <= 1
                        /\ req[r].reply = "ok" => started[r] = 1

(* As long as the loop runs every request is answered, however full the    *)
(* channel is and however many of the commands before it have been given   *)
(* up by their callers (admin.rs:83-88, 97-107, event_loop.rs:241-266).    *)
RequestsAreAnswered ==
    \A r \in Requests : req[r].pc = "sending" ~> req[r].pc = "over" \/ loop.pc = "gone"

(* A command in the channel is carried out, although its caller may have   *)
(* been answered 503 long before, unless the loop ends (admin.rs:105-107). *)
CommandsAreDone ==
    \A r \in Requests : req[r].pc = "waiting" ~> started[r] = 1 \/ loop.pc = "gone"
=============================================================================
