----------------------------- MODULE WorkerState -----------------------------
(***************************************************************************)
(* The state the worker's event loop and its session runners share, and    *)
(* the part of the data-api they both talk to.                             *)
(*                                                                         *)
(* A session is an element of Sessions.  A runner task lives in a slot of  *)
(* Slots while the JoinSet (or, once detached, tokio itself) still holds   *)
(* it; the slot is "free" before it is spawned and after it is reaped.     *)
(*                                                                         *)
(* Every transcript row a whole run writes is abstracted to one bit per    *)
(* session, complete[s]: "all rows of one full pipeline run are stored".   *)
(***************************************************************************)
EXTENDS Naturals, Sequences, FiniteSets

CONSTANTS
    Sessions,     \* session ids
    NoSession,    \* the session of a free slot
    Slots,        \* runner tasks alive at one time (a bound)
    NoSlot,       \* active[s] when the HashMap has no entry for s
    Transitions,  \* the status changes the data-api accepts
    Backoffs,     \* length of the RETRY_BACKOFF_MS schedule
    MailboxCap,   \* capacity of a runner's command channel (64)
    BusCap,       \* capacity of the event channel from the socket (256)
    Budget        \* how often each kind of bounded event may happen

Status == {"recording", "uploaded", "transcribing", "transcribed",
           "transcribing_failed", "deleted"}

(* Bounds of the model, each spent by Spend: failed requests and tasks,    *)
(* crashes of the process, admin reruns, chunk events, events the socket   *)
(* loses, events it repeats or delivers late, sessions deleted.            *)
BudgetKinds == {"fault", "crash", "rerun", "chunk", "loss", "repeat", "delete"}

ASSUME ConstantsAssumption ==
    /\ NoSession \notin Sessions
    /\ NoSlot \notin Slots
    /\ Backoffs \in Nat
    /\ MailboxCap \in Nat \ {0}
    /\ BusCap \in Nat \ {0}
    /\ Budget \in [BudgetKinds -> Nat]

(* What the worker relies on: a claim of an uploaded, failed or already    *)
(* claimed session is accepted, a claimed session can end either way, and  *)
(* a session that no longer exists accepts nothing.                        *)
ASSUME TransitionsAssumption ==
    /\ Transitions \subseteq Status \X Status
    /\ {"uploaded", "transcribing", "transcribing_failed"} \X {"transcribing"}
         \subseteq Transitions
    /\ {"transcribing"} \X {"transcribed", "transcribing_failed"}
         \subseteq Transitions
    /\ \A t \in Transitions : t[1] # "deleted"

VARIABLES
    status,    \* data-api: the status of each session
    complete,  \* data-api: all rows of one full run of the session are stored
    bus,       \* events on the channel from the socket to the event loop
    active,    \* event loop: HashMap session -> handle of its runner
    runner,    \* the runner task in each slot
    retryq,    \* retry queue: entries per session and attempt number
    loop,      \* where the event loop is, and the send it is blocked on
    gaveUp,    \* history: why the worker stopped working for a session
    budget     \* what is left of each bound

vars == <<status, complete, bus, active, runner, retryq, loop, gaveUp, budget>>

Modes     == {"streaming", "oneshot"}
Commands  == {"ingest", "finalize", "abort"}
Terminal  == {"ok", "failed", "lost", "misconfigured"}
RunnerPCs == {"free", "starting", "recv", "claim", "collect", "produce", "mark"}
               \cup Terminal
LoopPCs   == {"startup_orphans", "startup_uploaded", "select", "sending",
              "clearing"}
Reasons   == {"no", "exhausted", "misconfigured", "unlisted", "restart"}
Events    == {"chunk", "uploaded"} \X Sessions

RunnerRecord == [session : Sessions \cup {NoSession}, mode : Modes,
                 attempt : Nat, pc : RunnerPCs, mailbox : Seq(Commands),
                 joined : BOOLEAN]

LoopRecord == [pc : LoopPCs, to : Slots \cup {NoSlot}, cmd : Commands,
               session : Sessions \cup {NoSession}]

FreeRunner == [session |-> NoSession, mode |-> "oneshot", attempt |-> 1,
               pc |-> "free", mailbox |-> <<>>, joined |-> FALSE]

FreeSlots == {r \in Slots : runner[r].pc = "free"}

LoopAt(pc)  == [pc |-> pc, to |-> NoSlot, cmd |-> "ingest", session |-> NoSession]
InSelect    == loop.pc = "select"
Sending(r, cmd, s) == [pc |-> "sending", to |-> r, cmd |-> cmd, session |-> s]

(* A receiver that is only dropped when the finished runner is reaped.     *)
RxOpenUntilReaped(mode, pc) ==
    IF mode = "streaming" THEN pc \in {"starting", "recv"} \cup Terminal
                          ELSE pc # "free"

(* The receiver of a streaming runner is dropped when the runner takes a   *)
(* Finalize or ends; a one-shot runner keeps its receiver, which it never  *)
(* reads, until it ends.                                                   *)
RxOpenAt(mode, pc) ==
    IF mode = "streaming" THEN pc \in {"starting", "recv"}
                          ELSE pc \notin Terminal \cup {"free"}
RxOpen(r) == RxOpenAt(runner[r].mode, runner[r].pc)

(* A sender of r's channel still exists: the map's, or the clone the event *)
(* loop is sending on.                                                     *)
HasSender(r) == \/ \E s \in Sessions : active[s] = r
                \/ loop.pc = "sending" /\ loop.to = r

(***************************************************************************)
(* The data-api's PATCH of a session's status, as patch_status reports it. *)
(* A request that fails may still have been applied: only the reply was    *)
(* lost.                                                                   *)
(***************************************************************************)
Spend(kind) == /\ budget[kind] > 0
               /\ budget' = [budget EXCEPT ![kind] = @ - 1]

Accepts(s, to) == <<status[s], to>> \in Transitions

Patch(s, to, reply) ==
    \/ /\ reply = "ok"
       /\ Accepts(s, to)
       /\ status' = [status EXCEPT ![s] = to]
       /\ UNCHANGED budget
    \/ /\ reply = "conflict"
       /\ status[s] # "deleted" /\ ~Accepts(s, to)
       /\ UNCHANGED <<status, budget>>
    \/ /\ reply = "notFound"
       /\ status[s] = "deleted"
       /\ UNCHANGED <<status, budget>>
    \/ /\ reply = "error"
       /\ Spend("fault")
       /\ \/ UNCHANGED status
          \/ Accepts(s, to) /\ status' = [status EXCEPT ![s] = to]

Replies == {"ok", "conflict", "notFound", "error"}
=============================================================================
