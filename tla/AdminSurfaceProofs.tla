------------------------- MODULE AdminSurfaceProofs -------------------------
(***************************************************************************)
(* Theorems about AdminSurface for any number of requests and any capacity *)
(* of the command channel.                                                 *)
(***************************************************************************)
EXTENDS AdminSurface, TLAPS

(* ----------------------- the inductive invariant ----------------------- *)

SentPCs == {"waiting", "over"}

(* A command in the channel is there once, was sent, and has caused        *)
(* nothing yet.                                                            *)
QueuedOnce == \A i, j \in 1 .. Len(queue) : queue[i] = queue[j] => i = j

QueuedIsNew == \A i \in 1 .. Len(queue) :
                  started[queue[i]] = 0 /\ req[queue[i]].pc \in SentPCs

UnsentIsNew == \A r \in Requests : req[r].pc \notin SentPCs => started[r] = 0

(* The rerun the loop works on is no longer in the channel; its runner is  *)
(* started when the loop says so.                                          *)
CommandInHand ==
    loop.pc \in {"clear", "spawned"} =>
        /\ loop.cmd \in Requests
        /\ req[loop.cmd].pc \in SentPCs
        /\ \A i \in 1 .. Len(queue) : queue[i] # loop.cmd
        /\ started[loop.cmd] = IF loop.pc = "clear" THEN 0 ELSE 1

AdminInv == /\ TypeOK /\ QueuedOnce /\ QueuedIsNew /\ UnsentIsNew
            /\ CommandInHand /\ AnsweredMeansDone

RequestRecord == [pc : {"idle", "sending", "waiting", "over"},
                  reply : {None, "ok", "unavailable"}]

LoopRecord == [pc : {"select", "busy", "clear", "spawned", "gone"},
               cmd : Requests \cup {None}]

LEMMA AdminTypes == TypeOK <=>
    /\ req \in [Requests -> RequestRecord]
    /\ queue \in Seq(Requests) /\ Len(queue) <= Capacity
    /\ loop \in LoopRecord
    /\ started \in [Requests -> Nat]
  BY DEF TypeOK, RequestRecord, LoopRecord

LEMMA AdminInit == Init => AdminInv
<1>. SUFFICES ASSUME Init PROVE AdminInv
  OBVIOUS
<1>1. TypeOK
  BY AdminAssumption, AdminTypes DEF Init, RequestRecord, LoopRecord
<1>2. QueuedOnce /\ QueuedIsNew  BY DEF Init, QueuedOnce, QueuedIsNew
<1>3. UnsentIsNew /\ CommandInHand
  <2>1. UnsentIsNew  BY DEF Init, UnsentIsNew
  <2>2. loop.pc = "select"  BY DEF Init
  <2>. QED  BY <2>1, <2>2 DEF CommandInHand
<1>4. AnsweredMeansDone
  <2>. SUFFICES ASSUME NEW r \in Requests
                PROVE  started[r] <= 1 /\ (req[r].reply = "ok" => started[r] = 1)
    BY DEF AnsweredMeansDone
  <2>1. started[r] = 0  BY DEF Init
  <2>2. req[r].reply = "none"  BY DEF Init, None
  <2>. QED  BY <2>1, <2>2
<1>. QED  BY <1>1, <1>2, <1>3, <1>4 DEF AdminInv

(* ------------------------------- the steps ----------------------------- *)

(* What Finish does to a request.                                          *)
LEMMA FinishFacts ==
    ASSUME TypeOK, NEW r \in Requests, NEW reply \in {"ok", "unavailable"},
           Finish(r, reply)
    PROVE  /\ req' \in [Requests -> RequestRecord]
           /\ req'[r].pc = "over" /\ req'[r].reply = reply
           /\ \A q \in Requests : q # r => req'[q] = req[q]
<1>. DEFINE new == [req[r] EXCEPT !.pc = "over", !.reply = reply]
<1>1. req \in [Requests -> RequestRecord] /\ req[r] \in RequestRecord  BY AdminTypes
<1>2. new \in RequestRecord /\ new.pc = "over" /\ new.reply = reply
  BY <1>1 DEF RequestRecord
<1>3. req' = [req EXCEPT ![r] = new]
  BY <1>1 DEF Finish
<1>. HIDE DEF new
<1>. QED  BY <1>1, <1>2, <1>3

(* A handler that goes on, or ends with 503, and no other change.          *)
LEMMA HandlerStep ==
    ASSUME AdminInv, NEW r \in Requests, UNCHANGED <<queue, loop, started>>,
           req' \in [Requests -> RequestRecord],
           \A q \in Requests : q # r => req'[q] = req[q],
           req[r].pc \in SentPCs => req'[r].pc \in SentPCs,
           req'[r].reply = "ok" => started[r] = 1
    PROVE  AdminInv'
<1>1. \A i \in 1 .. Len(queue) : queue[i] \in Requests  BY DEF AdminInv, TypeOK
<1>2. TypeOK'  BY AdminTypes DEF AdminInv, TypeOK, RequestRecord
<1>3. QueuedOnce' /\ QueuedIsNew'
  BY <1>1 DEF AdminInv, QueuedOnce, QueuedIsNew
<1>4. UnsentIsNew' /\ CommandInHand'
  BY DEF AdminInv, UnsentIsNew, CommandInHand
<1>5. AnsweredMeansDone'  BY DEF AdminInv, AnsweredMeansDone
<1>. QED  BY <1>2, <1>3, <1>4, <1>5 DEF AdminInv

LEMMA CallStep ==
    ASSUME AdminInv, NEW r \in Requests, Call(r)
    PROVE  AdminInv'
<1>. DEFINE new == [req[r] EXCEPT !.pc = "sending"]
<1>1. req \in [Requests -> RequestRecord] /\ req[r] \in RequestRecord
  BY AdminTypes DEF AdminInv
<1>2. new \in RequestRecord /\ new.reply = req[r].reply
  BY <1>1 DEF RequestRecord
<1>3. req' = [req EXCEPT ![r] = new]  BY DEF Call
<1>4. req[r].pc \notin SentPCs  BY DEF Call, SentPCs
<1>. HIDE DEF new
<1>5. req'[r].reply = "ok" => started[r] = 1
  BY <1>1, <1>2, <1>3 DEF AdminInv, AnsweredMeansDone
<1>. QED  BY <1>1, <1>2, <1>3, <1>4, <1>5, HandlerStep DEF Call

(* cmd_tx.send: the command joins the channel for the first time.          *)
LEMMA SendStep ==
    ASSUME AdminInv, NEW r \in Requests, Send(r)
    PROVE  AdminInv'
<1>. DEFINE new == [req[r] EXCEPT !.pc = "waiting"]
<1>1. /\ req \in [Requests -> RequestRecord] /\ req[r] \in RequestRecord
      /\ queue \in Seq(Requests) /\ Len(queue) \in Nat
  BY AdminTypes DEF AdminInv
<1>2. new \in RequestRecord /\ new.reply = req[r].reply /\ new.pc \in SentPCs
  BY <1>1 DEF RequestRecord, SentPCs
<1>3. req' = [req EXCEPT ![r] = new]  BY DEF Send
<1>4. /\ req[r].pc = "sending" /\ Len(queue) < Capacity
      /\ queue' = Append(queue, r) /\ UNCHANGED <<loop, started>>
  BY DEF Send
<1>. HIDE DEF new
<1>5. /\ req'[r] = new /\ req' \in [Requests -> RequestRecord]
      /\ \A q \in Requests : q # r => req'[q] = req[q]
  BY <1>1, <1>2, <1>3
<1>6. started[r] = 0 /\ req[r].pc \notin SentPCs
  BY <1>4 DEF AdminInv, UnsentIsNew, SentPCs
<1>7. /\ queue' \in Seq(Requests) /\ Len(queue') = Len(queue) + 1
      /\ queue'[Len(queue) + 1] = r
      /\ \A i \in 1 .. Len(queue) : queue'[i] = queue[i] /\ queue[i] \in Requests
  BY <1>1, <1>4
<1>8. \A i \in 1 .. Len(queue') :
         i = Len(queue) + 1 \/ i \in 1 .. Len(queue)
  BY <1>1, <1>7
<1>9. \A i \in 1 .. Len(queue) : queue[i] # r
  BY <1>6 DEF AdminInv, QueuedIsNew
<1>10. TypeOK'
  BY <1>1, <1>4, <1>5, <1>7, AdminAssumption, AdminTypes
     DEF AdminInv, TypeOK, RequestRecord
<1>11. QueuedOnce'  BY <1>7, <1>8, <1>9 DEF AdminInv, QueuedOnce
<1>12. QueuedIsNew'
  <2>. SUFFICES ASSUME NEW i \in 1 .. Len(queue')
                PROVE  started[queue'[i]] = 0 /\ req'[queue'[i]].pc \in SentPCs
    BY <1>4 DEF QueuedIsNew
  <2>1. CASE i = Len(queue) + 1  BY <1>2, <1>5, <1>6, <1>7, <2>1
  <2>2. CASE i \in 1 .. Len(queue)
    BY <1>5, <1>7, <1>9, <2>2 DEF AdminInv, QueuedIsNew
  <2>. QED  BY <1>8, <2>1, <2>2
<1>13. UnsentIsNew'  BY <1>2, <1>4, <1>5 DEF AdminInv, UnsentIsNew
<1>14. CommandInHand'
  <2>. SUFFICES ASSUME loop.pc \in {"clear", "spawned"}
                PROVE  /\ loop.cmd \in Requests
                       /\ req'[loop.cmd].pc \in SentPCs
                       /\ \A i \in 1 .. Len(queue') : queue'[i] # loop.cmd
                       /\ started[loop.cmd] = IF loop.pc = "clear" THEN 0 ELSE 1
    BY <1>4 DEF CommandInHand
  <2>1. /\ loop.cmd \in Requests /\ req[loop.cmd].pc \in SentPCs
        /\ \A i \in 1 .. Len(queue) : queue[i] # loop.cmd
        /\ started[loop.cmd] = IF loop.pc = "clear" THEN 0 ELSE 1
    BY DEF AdminInv, CommandInHand
  <2>2. loop.cmd # r  BY <1>6, <2>1
  <2>3. \A i \in 1 .. Len(queue') : queue'[i] # loop.cmd
    BY <1>7, <1>8, <2>1, <2>2
  <2>. QED  BY <1>5, <2>1, <2>2, <2>3
<1>15. AnsweredMeansDone'
  BY <1>2, <1>4, <1>5 DEF AdminInv, AnsweredMeansDone
<1>. QED  BY <1>10, <1>11, <1>12, <1>13, <1>14, <1>15 DEF AdminInv

LEMMA EndStep ==
    ASSUME AdminInv, NEW r \in Requests, SendFails(r) \/ GivesUp(r)
    PROVE  AdminInv'
<1>1. Finish(r, "unavailable") /\ UNCHANGED <<queue, loop, started>>
  BY DEF SendFails, GivesUp
<1>2. TypeOK  BY DEF AdminInv
<1>3. /\ req' \in [Requests -> RequestRecord]
      /\ req'[r].pc = "over" /\ req'[r].reply = "unavailable"
      /\ \A q \in Requests : q # r => req'[q] = req[q]
  BY <1>1, <1>2, FinishFacts
<1>4. req'[r].pc \in SentPCs  BY <1>3 DEF SentPCs
<1>. QED  BY <1>1, <1>3, <1>4, HandlerStep

(* The loop goes to another branch and back, or ends.                      *)
LEMMA BranchStep ==
    ASSUME AdminInv, OtherBranch \/ BranchReturns \/ LoopEnds
    PROVE  AdminInv'
<1>1. /\ UNCHANGED <<req, started>> /\ queue' \in {queue, <<>>}
      /\ \E pc \in {"busy", "select", "gone"} : loop' = [loop EXCEPT !.pc = pc]
  BY DEF OtherBranch, BranchReturns, LoopEnds
<1>2. loop' \in LoopRecord /\ loop'.pc \notin {"clear", "spawned"}
  BY <1>1, AdminTypes DEF AdminInv, LoopRecord
<1>3. TypeOK'
  <2>1. <<>> \in Seq(Requests) /\ Len(<<>>) = 0  OBVIOUS
  <2>2. /\ req \in [Requests -> RequestRecord] /\ started \in [Requests -> Nat]
        /\ queue \in Seq(Requests) /\ Len(queue) <= Capacity
    BY AdminTypes DEF AdminInv
  <2>3. queue' \in Seq(Requests) /\ Len(queue') <= Capacity
    <3>1. CASE queue' = queue  BY <2>2, <3>1
    <3>2. CASE queue' = <<>>  BY <2>1, <3>2, AdminAssumption
    <3>. QED  BY <1>1, <3>1, <3>2
  <2>4. req' \in [Requests -> RequestRecord] /\ started' \in [Requests -> Nat]
    BY <1>1, <2>2
  <2>. QED  BY <1>2, <2>3, <2>4, AdminTypes DEF TypeOK, RequestRecord, LoopRecord
<1>4. QueuedOnce' /\ QueuedIsNew'
  BY <1>1 DEF AdminInv, QueuedOnce, QueuedIsNew
<1>5. UnsentIsNew' /\ CommandInHand' /\ AnsweredMeansDone'
  BY <1>1, <1>2 DEF AdminInv, UnsentIsNew, CommandInHand, AnsweredMeansDone
<1>. QED  BY <1>3, <1>4, <1>5 DEF AdminInv

(* What counting a runner or a snapshot does.                              *)
LEMMA StartedFacts ==
    ASSUME TypeOK, NEW r \in Requests, started[r] = 0, Started(r)
    PROVE  /\ started' \in [Requests -> Nat] /\ started'[r] = 1
           /\ \A q \in Requests : q # r => started'[q] = started[q]
  BY DEF TypeOK, Started

(* The answer: one that is received reports what has been done.            *)
LEMMA AckFacts ==
    ASSUME TypeOK, NEW r \in Requests, Ack(r), req[r].pc \in SentPCs
    PROVE  /\ req' \in [Requests -> RequestRecord]
           /\ req'[r].pc \in SentPCs
           /\ \A q \in Requests : q # r => req'[q] = req[q]
<1>1. CASE req[r].pc = "waiting"
  <2>1. Finish(r, "ok")  BY <1>1 DEF Ack
  <2>. QED  BY <2>1, FinishFacts DEF SentPCs
<1>2. CASE req[r].pc # "waiting"
  <2>1. req' = req  BY <1>2 DEF Ack
  <2>. QED  BY <2>1, AdminTypes
<1>. QED  BY <1>1, <1>2

LEMMA RecvStep ==
    ASSUME AdminInv, Recv
    PROVE  AdminInv'
<1>. DEFINE r == Head(queue)
<1>1. /\ queue # <<>> /\ queue \in Seq(Requests) /\ queue' = Tail(queue)
      /\ TypeOK /\ loop.pc = "select"
  BY DEF Recv, AdminInv, TypeOK
<1>2. /\ Len(queue) \in Nat /\ Len(queue) > 0 /\ r = queue[1] /\ r \in Requests
      /\ 1 \in 1 .. Len(queue)
      /\ queue' \in Seq(Requests) /\ Len(queue') = Len(queue) - 1
  BY <1>1
<1>3. \A i \in 1 .. Len(queue') :
         /\ i + 1 \in 1 .. Len(queue) /\ queue'[i] = queue[i + 1]
         /\ queue'[i] \in Requests /\ i + 1 # 1
  BY <1>1, <1>2
<1>4. started[r] = 0 /\ req[r].pc \in SentPCs
  BY <1>2 DEF AdminInv, QueuedIsNew
<1>5. \/ r \notin Reruns /\ Started(r) /\ Ack(r) /\ UNCHANGED loop
      \/ loop' = [pc |-> "clear", cmd |-> r] /\ UNCHANGED <<req, started>>
  BY DEF Recv, Snapshot
<1>. HIDE DEF r
<1>6. QueuedOnce'
  <2>. SUFFICES ASSUME NEW i \in 1 .. Len(queue'), NEW j \in 1 .. Len(queue'),
                       queue'[i] = queue'[j]
                PROVE  i = j
    BY DEF QueuedOnce
  <2>1. i + 1 = j + 1  BY <1>3 DEF AdminInv, QueuedOnce
  <2>. QED  BY <1>2, <2>1
<1>7. \A i \in 1 .. Len(queue') : queue'[i] # r
  BY <1>2, <1>3 DEF AdminInv, QueuedOnce
<1>8. \A i \in 1 .. Len(queue') :
         started[queue'[i]] = 0 /\ req[queue'[i]].pc \in SentPCs
  BY <1>3 DEF AdminInv, QueuedIsNew
<1>9. Len(queue') <= Capacity
  <2>1. Len(queue) <= Capacity /\ Capacity \in Nat
    BY <1>1, AdminAssumption DEF TypeOK
  <2>. QED  BY <1>2, <2>1
<1>10. CASE r \notin Reruns /\ Started(r) /\ Ack(r) /\ UNCHANGED loop
  <2>1. /\ started' \in [Requests -> Nat] /\ started'[r] = 1
        /\ \A q \in Requests : q # r => started'[q] = started[q]
    BY <1>1, <1>2, <1>4, <1>10, StartedFacts
  <2>2. /\ req' \in [Requests -> RequestRecord] /\ req'[r].pc \in SentPCs
        /\ \A q \in Requests : q # r => req'[q] = req[q]
    BY <1>1, <1>2, <1>4, <1>10, AckFacts
  <2>3. TypeOK'
    BY <1>1, <1>2, <1>9, <1>10, <2>1, <2>2, AdminTypes DEF TypeOK, RequestRecord
  <2>4. QueuedIsNew'
    BY <1>3, <1>7, <1>8, <2>1, <2>2 DEF QueuedIsNew
  <2>5. UnsentIsNew'  BY <2>1, <2>2 DEF AdminInv, UnsentIsNew
  <2>6. CommandInHand'  BY <1>1, <1>10 DEF CommandInHand
  <2>7. AnsweredMeansDone'  BY <2>1, <2>2 DEF AdminInv, AnsweredMeansDone
  <2>. QED  BY <1>6, <2>3, <2>4, <2>5, <2>6, <2>7 DEF AdminInv
<1>11. CASE loop' = [pc |-> "clear", cmd |-> r] /\ UNCHANGED <<req, started>>
  <2>1. loop' \in LoopRecord /\ loop'.pc = "clear" /\ loop'.cmd = r
    BY <1>2, <1>11 DEF LoopRecord
  <2>2. TypeOK'
    BY <1>1, <1>2, <1>9, <1>11, <2>1, AdminTypes DEF TypeOK, LoopRecord
  <2>3. QueuedIsNew'  BY <1>8, <1>11 DEF QueuedIsNew
  <2>4. UnsentIsNew' /\ AnsweredMeansDone'
    BY <1>11 DEF AdminInv, UnsentIsNew, AnsweredMeansDone
  <2>5. CommandInHand'  BY <1>2, <1>4, <1>7, <1>11, <2>1 DEF CommandInHand
  <2>. QED  BY <1>6, <2>2, <2>3, <2>4, <2>5 DEF AdminInv
<1>. QED  BY <1>5, <1>10, <1>11

LEMMA RerunStepKeeps ==
    ASSUME AdminInv, RerunStep
    PROVE  AdminInv'
<1>. DEFINE r == loop.cmd
<1>1. /\ TypeOK /\ loop \in LoopRecord /\ UNCHANGED queue
      /\ loop.pc \in {"clear", "spawned"}
  BY AdminTypes DEF AdminInv, RerunStep
<1>2. /\ r \in Requests /\ req[r].pc \in SentPCs
      /\ \A i \in 1 .. Len(queue) : queue[i] # r
      /\ started[r] = IF loop.pc = "clear" THEN 0 ELSE 1
  BY <1>1 DEF AdminInv, CommandInHand
<1>3. \A i \in 1 .. Len(queue) : queue[i] \in Requests  BY <1>1 DEF TypeOK
<1>4. QueuedOnce'  BY <1>1 DEF AdminInv, QueuedOnce
<1>5. CASE /\ loop.pc = "clear" /\ Started(r) /\ UNCHANGED req
           /\ loop' = [loop EXCEPT !.pc = "spawned"]
  <2>1. /\ started' \in [Requests -> Nat] /\ started'[r] = 1
        /\ \A q \in Requests : q # r => started'[q] = started[q]
    BY <1>1, <1>2, <1>5, StartedFacts
  <2>2. loop' \in LoopRecord /\ loop'.pc = "spawned" /\ loop'.cmd = r
    BY <1>1, <1>5 DEF LoopRecord
  <2>. HIDE DEF r
  <2>3. TypeOK'  BY <1>1, <1>5, <2>1, <2>2, AdminTypes DEF TypeOK, LoopRecord
  <2>4. QueuedIsNew'
    BY <1>1, <1>2, <1>3, <1>5, <2>1 DEF AdminInv, QueuedIsNew
  <2>5. UnsentIsNew'  BY <1>2, <1>5, <2>1 DEF AdminInv, UnsentIsNew
  <2>6. CommandInHand'  BY <1>1, <1>2, <1>5, <2>1, <2>2 DEF CommandInHand
  <2>7. AnsweredMeansDone'  BY <1>5, <2>1 DEF AdminInv, AnsweredMeansDone
  <2>. QED  BY <1>4, <2>3, <2>4, <2>5, <2>6, <2>7 DEF AdminInv
<1>6. CASE /\ loop.pc = "spawned" /\ Ack(r) /\ UNCHANGED started
           /\ loop' = [pc |-> "select", cmd |-> None]
  <2>1. /\ req' \in [Requests -> RequestRecord] /\ req'[r].pc \in SentPCs
        /\ \A q \in Requests : q # r => req'[q] = req[q]
    BY <1>1, <1>2, <1>6, AckFacts
  <2>2. loop' \in LoopRecord /\ loop'.pc = "select"
    BY <1>6 DEF LoopRecord
  <2>3. started[r] = 1  BY <1>2, <1>6
  <2>. HIDE DEF r
  <2>4. TypeOK'
    BY <1>1, <1>6, <2>1, <2>2, AdminTypes DEF TypeOK, LoopRecord, RequestRecord
  <2>5. QueuedIsNew'
    BY <1>1, <1>2, <1>3, <1>6, <2>1 DEF AdminInv, QueuedIsNew
  <2>6. UnsentIsNew'  BY <1>6, <2>1 DEF AdminInv, UnsentIsNew
  <2>7. CommandInHand'  BY <2>2 DEF CommandInHand
  <2>8. AnsweredMeansDone'  BY <1>6, <2>1, <2>3 DEF AdminInv, AnsweredMeansDone
  <2>. QED  BY <1>4, <2>4, <2>5, <2>6, <2>7, <2>8 DEF AdminInv
<1>. QED  BY <1>5, <1>6 DEF RerunStep

LEMMA AdminNext == AdminInv /\ [Next]_adminVars => AdminInv'
<1>. SUFFICES ASSUME AdminInv, [Next]_adminVars PROVE AdminInv'
  OBVIOUS
<1>1. CASE UNCHANGED adminVars
  <2>1. UNCHANGED <<req, queue, loop, started>>  BY <1>1 DEF adminVars
  <2>2. TypeOK' /\ QueuedOnce' /\ QueuedIsNew'
    BY <2>1 DEF AdminInv, TypeOK, QueuedOnce, QueuedIsNew
  <2>3. UnsentIsNew' /\ CommandInHand' /\ AnsweredMeansDone'
    BY <2>1 DEF AdminInv, UnsentIsNew, CommandInHand, AnsweredMeansDone
  <2>. QED  BY <2>2, <2>3 DEF AdminInv
<1>. QED
  BY <1>1, CallStep, SendStep, EndStep, BranchStep, RecvStep, RerunStepKeeps DEF Next

(* ------------------------------ theorems ------------------------------- *)

LEMMA AdminInvariant == Spec => []AdminInv
  BY AdminInit, AdminNext, PTL DEF Spec

(* Every variable holds values of its kind, and the command channel keeps  *)
(* to its limit (event_loop.rs:60, admin.rs:83-107).                             *)
THEOREM AdminTyped == Spec => []TypeOK
<1>1. AdminInv => TypeOK  BY DEF AdminInv
<1>. QED  BY <1>1, AdminInvariant, PTL

(* A request that is not answered 503 has been carried out by then, and    *)
(* none is carried out twice, for any number of requests, whatever times   *)
(* out (event_loop.rs:252-265).                                            *)
THEOREM AnswersAreTrue == Spec => []AnsweredMeansDone
<1>1. AdminInv => AnsweredMeansDone  BY DEF AdminInv
<1>. QED  BY <1>1, AdminInvariant, PTL
=============================================================================
