---------------------------- MODULE WorkerProofs ----------------------------
(***************************************************************************)
(* Theorems about Worker for every choice of its constants.                *)
(***************************************************************************)
EXTENDS Worker, TLAPS

(* ------------------------ the building blocks -------------------------- *)

(* A spent budget is still one.                                            *)
LEMMA SpendType ==
    ASSUME TypeOK, NEW kind \in BudgetKinds, Spend(kind)
    PROVE  budget' \in [BudgetKinds -> Nat]
  BY DEF TypeOK, Spend

(* PATCH leaves status and budget well formed.                             *)
LEMMA PatchType ==
    ASSUME TypeOK, NEW s, NEW to \in Status, NEW reply,
           Patch(s, to, reply)
    PROVE  /\ status' \in [Sessions -> Status]
           /\ budget' \in [BudgetKinds -> Nat]
<1>1. "fault" \in BudgetKinds  BY DEF BudgetKinds
<1>2. CASE UNCHANGED budget  BY <1>2 DEF TypeOK, Patch, Spend
<1>3. CASE Spend("fault")  BY <1>1, <1>3, SpendType DEF TypeOK, Patch
<1>. QED  BY <1>2, <1>3 DEF Patch

LEMMA FreeRunnerType == FreeRunner \in RunnerRecord
  BY DEF FreeRunner, RunnerRecord, Modes, RunnerPCs

LEMMA SpawnedType ==
    ASSUME NEW s \in Sessions \cup {NoSession}, NEW k \in Nat, NEW mode \in Modes
    PROVE  Spawned(s, k, mode) \in RunnerRecord
  BY DEF Spawned, RunnerRecord, RunnerPCs

LEMMA LoopAtType ==
    ASSUME NEW pc \in LoopPCs
    PROVE  LoopAt(pc) \in LoopRecord
  BY DEF LoopAt, LoopRecord, Commands

(* A runner's step to another program counter keeps its record well        *)
(* formed.                                                                 *)
LEMMA EnterType ==
    ASSUME TypeOK, NEW r \in Slots, NEW pc \in RunnerPCs, Enter(r, pc)
    PROVE  runner' \in [Slots -> RunnerRecord]
<1>1. runner[r] \in RunnerRecord  BY DEF TypeOK
<1>2. Reached(runner[r], pc) \in RunnerRecord
  <2>. DEFINE box == IF RxOpenAt(runner[r].mode, pc) THEN runner[r].mailbox ELSE <<>>
  <2>1. runner[r].mailbox \in Seq(Commands)  BY <1>1 DEF RunnerRecord
  <2>2. box \in Seq(Commands)  BY <2>1
  <2>. HIDE DEF box
  <2>3. [runner[r] EXCEPT !.pc = pc, !.mailbox = box] \in RunnerRecord
    BY <1>1, <2>2 DEF RunnerRecord
  <2>. QED  BY <2>3, FreeRunnerType DEF Reached, box
<1>. QED  BY <1>2 DEF TypeOK, Enter

(* spawn_runner fills a free slot and points the session's entry at it.    *)
LEMMA SpawnType ==
    ASSUME TypeOK, NEW s \in Sessions \cup {NoSession}, NEW k \in Nat,
           NEW mode \in Modes,
           Spawn(s, k, mode)
    PROVE  /\ runner' \in [Slots -> RunnerRecord]
           /\ active' \in [Sessions -> Slots \cup {NoSlot}]
           /\ NewSlot \in FreeSlots /\ NewSlot \in Slots
<1>1. NewSlot \in FreeSlots  BY DEF Spawn, HasRoom, NewSlot
<1>2. NewSlot \in Slots  BY <1>1 DEF FreeSlots
<1>. QED  BY <1>1, <1>2, SpawnedType DEF Spawn, TypeOK

(* So does the spawning of a set of sessions, each in a slot of its own.   *)
LEMMA SpawnAllFacts ==
    ASSUME NEW S \in SUBSET Sessions, SpawnAll(S)
    PROVE  \E slotOf \in [S -> FreeSlots] :
              /\ \A s, t \in S : slotOf[s] = slotOf[t] => s = t
              /\ active' = [s \in Sessions |-> IF s \in S THEN slotOf[s] ELSE active[s]]
              /\ \A s \in S : runner'[slotOf[s]] = Spawned(s, 1, "oneshot")
              /\ \A r \in Slots : (\A s \in S : slotOf[s] # r) => runner'[r] = runner[r]
              /\ DOMAIN runner' = Slots
<1>. DEFINE slotOf == CHOOSE f \in Placements(S) : TRUE
<1>1. slotOf \in Placements(S)  BY DEF SpawnAll
<1>2. /\ slotOf \in [S -> FreeSlots]
      /\ \A s, t \in S : slotOf[s] = slotOf[t] => s = t
  BY <1>1 DEF Placements
<1>3. /\ active' = [s \in Sessions |-> IF s \in S THEN slotOf[s] ELSE active[s]]
      /\ runner' = [r \in Slots |->
             IF \E s \in S : slotOf[s] = r
             THEN Spawned(CHOOSE s \in S : slotOf[s] = r, 1, "oneshot")
             ELSE runner[r]]
  BY DEF SpawnAll
<1>. HIDE DEF slotOf
<1>4. ASSUME NEW s \in S  PROVE runner'[slotOf[s]] = Spawned(s, 1, "oneshot")
  <2>1. slotOf[s] \in Slots  BY <1>2 DEF FreeSlots
  <2>2. (CHOOSE t \in S : slotOf[t] = slotOf[s]) = s  BY <1>2
  <2>. QED  BY <1>3, <2>1, <2>2
<1>5. ASSUME NEW r \in Slots, \A s \in S : slotOf[s] # r  PROVE runner'[r] = runner[r]
  BY <1>3, <1>5
<1>6. DOMAIN runner' = Slots  BY <1>3
<1>. QED  BY <1>2, <1>3, <1>4, <1>5, <1>6

LEMMA SpawnAllType ==
    ASSUME TypeOK, NEW S \in SUBSET Sessions, SpawnAll(S)
    PROVE  /\ runner' \in [Slots -> RunnerRecord]
           /\ active' \in [Sessions -> Slots \cup {NoSlot}]
<1>1. PICK slotOf \in [S -> FreeSlots] :
              /\ active' = [s \in Sessions |-> IF s \in S THEN slotOf[s] ELSE active[s]]
              /\ \A s \in S : runner'[slotOf[s]] = Spawned(s, 1, "oneshot")
              /\ \A r \in Slots : (\A s \in S : slotOf[s] # r) => runner'[r] = runner[r]
  BY SpawnAllFacts
<1>2. FreeSlots \subseteq Slots  BY DEF FreeSlots
<1>3. \A r \in Slots : runner'[r] \in RunnerRecord
  <2>1. \A s \in S : Spawned(s, 1, "oneshot") \in RunnerRecord
    BY SpawnedType DEF Modes
  <2>. QED  BY <1>1, <2>1 DEF TypeOK
<1>4. runner' = [r \in Slots |-> runner'[r]]
  BY DEF SpawnAll
<1>. QED  BY <1>1, <1>2, <1>3, <1>4 DEF TypeOK

(* --------------------------- type correctness -------------------------- *)

LEMMA InitType == Init => TypeOK
<1>. SUFFICES ASSUME Init PROVE TypeOK  OBVIOUS
<1>1. status \in [Sessions -> Status]  BY DEF Init, Status
<1>2. runner \in [Slots -> RunnerRecord]  BY FreeRunnerType DEF Init
<1>3. loop \in LoopRecord  BY LoopAtType DEF Init, LoopPCs
<1>4. retryq \in [Sessions -> [1 .. Backoffs -> Nat]]  BY DEF Init
<1>5. budget \in [BudgetKinds -> Nat]  BY ConstantsAssumption DEF Init
<1>. QED  BY <1>1, <1>2, <1>3, <1>4, <1>5 DEF TypeOK, Init, Reasons

LEMMA RunnerStepType ==
    ASSUME TypeOK, NEW r \in Slots, RunnerStep(r)
    PROVE  TypeOK'
<1>. DEFINE s == runner[r].session
<1>0. /\ "fault" \in BudgetKinds
      /\ runner[r] \in RunnerRecord
      /\ \A pc \in {"recv", "claim", "collect", "produce", "mark"} \cup Terminal :
            pc \in RunnerPCs
      /\ {"failed", "misconfigured", "ok", "lost"} \subseteq RunnerPCs
  BY DEF BudgetKinds, RunnerPCs, Terminal, TypeOK
<1>1. CASE BuildPipeline(r)
  BY <1>0, <1>1, EnterType, SpendType DEF BuildPipeline, RunnerUnchanged, TypeOK
<1>2. CASE Recv(r)
  <2>1. runner' \in [Slots -> RunnerRecord]
    <3>1. CASE \E pc \in {"claim", "ok"} : Enter(r, pc)  BY <1>0, <3>1, EnterType
    <3>2. CASE /\ runner[r].mailbox # <<>>
               /\ runner' = [runner EXCEPT ![r].mailbox = Tail(@)]
      <4>1. Tail(runner[r].mailbox) \in Seq(Commands)
        BY <1>0, <3>2 DEF RunnerRecord
      <4>2. [runner[r] EXCEPT !.mailbox = Tail(runner[r].mailbox)] \in RunnerRecord
        BY <1>0, <4>1 DEF RunnerRecord
      <4>. QED  BY <3>2, <4>2 DEF TypeOK
    <3>. QED  BY <1>2, <3>1, <3>2 DEF Recv
  <2>. QED  BY <1>2, <2>1 DEF Recv, RunnerUnchanged, TypeOK
<1>3. CASE Claim(r)
  <2>1. PICK reply \in Replies : /\ Patch(s, "transcribing", reply)
                                 /\ Enter(r, AfterClaim(runner[r].mode, reply))
                                 /\ gaveUp' = IF reply = "ok" THEN [gaveUp EXCEPT ![s] = "no"]
                                                              ELSE gaveUp
    BY <1>3 DEF Claim
  <2>2. AfterClaim(runner[r].mode, reply) \in RunnerPCs
    BY <1>0 DEF AfterClaim, Replies
  <2>3. /\ status' \in [Sessions -> Status]
        /\ budget' \in [BudgetKinds -> Nat]
    BY <2>1, PatchType DEF Status
  <2>4. gaveUp' \in [Sessions -> Reasons]  BY <2>1 DEF TypeOK, Reasons
  <2>. QED  BY <1>3, <2>1, <2>2, <2>3, <2>4, EnterType
          DEF Claim, RunnerUnchanged, TypeOK
<1>4. CASE Collect(r)
  <2>1. complete' \in [Sessions -> BOOLEAN]  BY <1>4 DEF Collect, TypeOK
  <2>2. budget' \in [BudgetKinds -> Nat]  BY <1>0, <1>4, SpendType DEF Collect, TypeOK
  <2>3. \E pc \in {"produce", "mark", "failed", "misconfigured"} : Enter(r, pc)
    BY <1>4 DEF Collect
  <2>4. runner' \in [Slots -> RunnerRecord]  BY <1>0, <2>3, EnterType
  <2>. QED  BY <1>4, <2>1, <2>2, <2>4 DEF Collect, RunnerUnchanged, TypeOK
<1>5. CASE Produce(r)
  <2>1. complete' \in [Sessions -> BOOLEAN]  BY <1>5 DEF Produce, TypeOK
  <2>2. budget' \in [BudgetKinds -> Nat]  BY <1>0, <1>5, SpendType DEF Produce, TypeOK
  <2>3. \E pc \in {"mark", "failed"} : Enter(r, pc)  BY <1>5 DEF Produce
  <2>4. runner' \in [Slots -> RunnerRecord]  BY <1>0, <2>3, EnterType
  <2>. QED  BY <1>5, <2>1, <2>2, <2>4 DEF Produce, RunnerUnchanged, TypeOK
<1>6. CASE Mark(r)
  <2>1. PICK reply \in Replies : /\ Patch(s, "transcribed", reply)
                                 /\ Enter(r, AfterMark(reply))
    BY <1>6 DEF Mark
  <2>2. AfterMark(reply) \in RunnerPCs  BY <1>0 DEF AfterMark, Replies
  <2>3. /\ status' \in [Sessions -> Status]
        /\ budget' \in [BudgetKinds -> Nat]
    BY <2>1, PatchType DEF Status
  <2>. QED  BY <1>6, <2>1, <2>2, <2>3, EnterType DEF Mark, RunnerUnchanged, TypeOK
<1>7. CASE Panic(r)
  <2>1. budget' \in [BudgetKinds -> Nat]  BY <1>0, <1>7, SpendType DEF Panic
  <2>2. runner' \in [Slots -> RunnerRecord]  BY <1>0, <1>7, EnterType DEF Panic
  <2>. QED  BY <1>7, <2>1, <2>2 DEF Panic, RunnerUnchanged, TypeOK
<1>. QED  BY <1>1, <1>2, <1>3, <1>4, <1>5, <1>6, <1>7 DEF RunnerStep

LEMMA LoopStepType ==
    ASSUME TypeOK, LoopStep
    PROVE  TypeOK'
<1>0. /\ "fault" \in BudgetKinds /\ "rerun" \in BudgetKinds
      /\ \A pc \in LoopPCs : LoopAt(pc) \in LoopRecord
      /\ {"startup_uploaded", "select", "clearing"} \subseteq LoopPCs
      /\ {"streaming", "oneshot"} = Modes
      /\ \A st : Listed(st) \in SUBSET Sessions
      /\ 1 \in Nat
  BY LoopAtType DEF BudgetKinds, LoopPCs, Modes, Listed
<1>1. ASSUME NEW r \in Slots, NEW cmd \in Commands, NEW s \in Sessions \cup {NoSession}
      PROVE  Sending(r, cmd, s) \in LoopRecord
  BY DEF Sending, LoopRecord, LoopPCs
<1>2. ASSUME NEW s \in Sessions \cup {NoSession}
      PROVE  [LoopAt("clearing") EXCEPT !.session = s] \in LoopRecord
  BY DEF LoopAt, LoopRecord, LoopPCs, Commands
<1>3. CASE StartupOrphans
  <2>1. CASE SpawnAll(Listed("transcribing")) /\ UNCHANGED <<gaveUp, budget>>
    BY <1>0, <1>3, <2>1, SpawnAllType DEF StartupOrphans, TypeOK
  <2>2. CASE /\ Spend("fault")
             /\ gaveUp' = [s \in Sessions |->
                   IF status[s] = "transcribing" THEN "unlisted" ELSE gaveUp[s]]
             /\ UNCHANGED <<active, runner>>
    <3>1. gaveUp' \in [Sessions -> Reasons]  BY <2>2 DEF TypeOK, Reasons
    <3>. QED  BY <1>0, <1>3, <2>2, <3>1, SpendType DEF StartupOrphans, TypeOK
  <2>. QED  BY <1>3, <2>1, <2>2 DEF StartupOrphans
<1>4. CASE StartupUploaded
  BY <1>0, <1>4, SpawnAllType, SpendType DEF StartupUploaded, TypeOK
<1>5. CASE PollReconcile
  BY <1>0, <1>5, SpawnAllType DEF PollReconcile, TypeOK
<1>6. ASSUME NEW s \in Sessions, OnSessionUploaded(s)  PROVE TypeOK'
  <2>1. bus' \in Seq(Events)  BY <1>6 DEF OnSessionUploaded, TypeOK
  <2>2. CASE active[s] # NoSlot
    <3>1. active[s] \in Slots  BY <2>2 DEF TypeOK
    <3>2. loop' \in LoopRecord
      BY <1>1, <1>6, <2>2, <3>1 DEF OnSessionUploaded, Commands
    <3>. QED  BY <1>6, <2>1, <2>2, <3>2 DEF OnSessionUploaded, TypeOK
  <2>3. CASE active[s] = NoSlot
    BY <1>0, <1>6, <2>1, <2>3, SpawnType DEF OnSessionUploaded, TypeOK
  <2>. QED  BY <2>2, <2>3
<1>7. ASSUME NEW s \in Sessions, OnChunkUploaded(s)  PROVE TypeOK'
  <2>1. bus' \in Seq(Events)  BY <1>7 DEF OnChunkUploaded, TypeOK
  <2>2. CASE active[s] # NoSlot
    <3>1. active[s] \in Slots  BY <2>2 DEF TypeOK
    <3>2. loop' \in LoopRecord
      BY <1>1, <1>7, <2>2, <3>1 DEF OnChunkUploaded, Commands
    <3>. QED  BY <1>7, <2>1, <2>2, <3>2 DEF OnChunkUploaded, TypeOK
  <2>3. CASE active[s] = NoSlot
    <3>1. Spawn(s, 1, "streaming") /\ loop' = Sending(NewSlot, "ingest", s)
      BY <1>7, <2>3 DEF OnChunkUploaded
    <3>2. loop' \in LoopRecord
      BY <1>0, <1>1, <3>1, SpawnType DEF Commands
    <3>. QED  BY <1>0, <1>7, <2>1, <3>1, <3>2, SpawnType DEF OnChunkUploaded, TypeOK
  <2>. QED  BY <2>2, <2>3
<1>8. ASSUME NEW s \in Sessions, NEW k \in 1 .. Backoffs, HandleRetry(s, k)
      PROVE  TypeOK'
  <2>1. k \in Nat  BY ConstantsAssumption
  <2>2. retryq' \in [Sessions -> [1 .. Backoffs -> Nat]]
    <3>1. retryq[s][k] \in Nat /\ retryq[s][k] > 0  BY <1>8 DEF HandleRetry, TypeOK
    <3>2. retryq[s][k] - 1 \in Nat  BY <3>1
    <3>. QED  BY <1>8, <3>2 DEF HandleRetry, TypeOK
  <2>. QED  BY <1>0, <1>8, <2>1, <2>2, SpawnType DEF HandleRetry, TypeOK
<1>9. ASSUME NEW s \in Sessions, AdminRerun(s)  PROVE TypeOK'
  <2>1. active[s] # NoSlot => active[s] \in Slots  BY DEF TypeOK
  <2>2. loop' \in LoopRecord  BY <1>1, <1>2, <1>9, <2>1 DEF AdminRerun, Commands
  <2>3. budget' \in [BudgetKinds -> Nat]  BY <1>0, <1>9, SpendType DEF AdminRerun
  <2>. QED  BY <1>9, <2>2, <2>3 DEF AdminRerun, TypeOK
<1>10. CASE CompleteSend
  <2>. DEFINE r == loop.to
  <2>1. loop.cmd \in Commands /\ loop.session \in Sessions \cup {NoSession}
    BY DEF TypeOK, LoopRecord
  <2>2. ASSUME r \in Slots  PROVE Delivered(r) \in RunnerRecord
    <3>1. runner[r] \in RunnerRecord  BY <2>2 DEF TypeOK
    <3>2. Append(runner[r].mailbox, loop.cmd) \in Seq(Commands)
      BY <2>1, <3>1 DEF RunnerRecord
    <3>3. [runner[r] EXCEPT !.mailbox = Append(runner[r].mailbox, loop.cmd)]
            \in RunnerRecord
      BY <3>1, <3>2 DEF RunnerRecord
    <3>. QED  BY <3>1, <3>3 DEF Delivered
  <2>3. ASSUME NEW record, r \in Slots => record \in RunnerRecord
        PROVE  [runner EXCEPT ![r] = record] \in [Slots -> RunnerRecord]
    BY <2>3 DEF TypeOK
  <2>4. CASE /\ runner' = [runner EXCEPT ![r] = Delivered(r)]
             /\ loop' = LoopAt("select")
             /\ UNCHANGED active
    BY <1>0, <1>10, <2>2, <2>3, <2>4 DEF CompleteSend, TypeOK
  <2>5. CASE /\ Spawn(loop.session, 1, "oneshot")
             /\ loop' = LoopAt("select")
    BY <1>0, <1>10, <2>1, <2>5, SpawnType DEF CompleteSend, TypeOK
  <2>6. CASE /\ \E record \in Detached(Delivered(r)) :
                   runner' = [runner EXCEPT ![r] = record]
             /\ loop' = [LoopAt("clearing") EXCEPT !.session = loop.session]
             /\ UNCHANGED active
    <3>1. PICK record \in Detached(Delivered(r)) :
             runner' = [runner EXCEPT ![r] = record]
      BY <2>6
    <3>2. r \in Slots => record \in RunnerRecord
      BY <2>2, FreeRunnerType DEF Detached, RunnerRecord
    <3>3. runner' \in [Slots -> RunnerRecord]  BY <2>3, <3>1, <3>2
    <3>4. loop' \in LoopRecord  BY <1>2, <2>1, <2>6
    <3>. QED  BY <1>10, <2>6, <3>3, <3>4 DEF CompleteSend, TypeOK
  <2>. QED  BY <1>10, <2>4, <2>5, <2>6 DEF CompleteSend
<1>11. CASE ClearAndSpawn
  <2>1. loop.session \in Sessions \cup {NoSession}  BY DEF TypeOK, LoopRecord
  <2>2. complete' \in [Sessions -> BOOLEAN]  BY <1>11 DEF ClearAndSpawn, TypeOK
  <2>3. budget' \in [BudgetKinds -> Nat]
    BY <1>0, <1>11, SpendType DEF ClearAndSpawn, TypeOK
  <2>. QED  BY <1>0, <1>11, <2>1, <2>2, <2>3, SpawnType DEF ClearAndSpawn, TypeOK
<1>12. ASSUME NEW r \in Slots, OnRunnerComplete(r)  PROVE TypeOK'
  <2>. DEFINE s == runner[r].session
  <2>0. runner[r] \in RunnerRecord  BY DEF TypeOK
  <2>1. /\ status' \in [Sessions -> Status]
        /\ retryq' \in [Sessions -> [1 .. Backoffs -> Nat]]
        /\ gaveUp' \in [Sessions -> Reasons]
        /\ budget' \in [BudgetKinds -> Nat]
    <3>1. CASE UNCHANGED <<status, retryq, gaveUp, budget>>  BY <3>1 DEF TypeOK
    <3>2. CASE /\ gaveUp' = [gaveUp EXCEPT ![s] = "misconfigured"]
               /\ UNCHANGED <<status, retryq, budget>>
      BY <3>2 DEF TypeOK, Reasons
    <3>3. CASE FailedRun(s, runner[r].attempt)
      <4>1. /\ status' \in [Sessions -> Status]
            /\ budget' \in [BudgetKinds -> Nat]
        BY <3>3, PatchType DEF FailedRun, Status
      <4>2. CASE /\ retryq' = [retryq EXCEPT ![s][runner[r].attempt + 1] = @ + 1]
                 /\ UNCHANGED gaveUp
        <5>. DEFINE k == runner[r].attempt + 1
                    row == [retryq[s] EXCEPT ![k] = retryq[s][k] + 1]
        <5>1. ASSUME s \in Sessions  PROVE row \in [1 .. Backoffs -> Nat]
          <6>1. retryq[s] \in [1 .. Backoffs -> Nat]  BY <5>1 DEF TypeOK
          <6>2. CASE k \in 1 .. Backoffs
            <7>1. retryq[s][k] \in Nat  BY <6>1, <6>2
            <7>2. retryq[s][k] + 1 \in Nat  BY <7>1
            <7>. HIDE DEF k
            <7>. QED  BY <6>1, <7>2, Zenon
          <6>3. CASE k \notin 1 .. Backoffs
            <7>. HIDE DEF k
            <7>1. row = retryq[s]  BY <6>1, <6>3
            <7>. QED  BY <6>1, <7>1
          <6>. QED  BY <6>2, <6>3
        <5>2. retryq' = [retryq EXCEPT ![s] = row]  BY <4>2
        <5>. HIDE DEF row
        <5>3. retryq' \in [Sessions -> [1 .. Backoffs -> Nat]]
          BY <5>1, <5>2 DEF TypeOK
        <5>. QED  BY <4>1, <4>2, <5>3 DEF TypeOK
      <4>3. CASE /\ gaveUp' = [gaveUp EXCEPT ![s] = "exhausted"]
                 /\ UNCHANGED retryq
        BY <4>1, <4>3 DEF TypeOK, Reasons
      <4>. QED  BY <3>3, <4>2, <4>3 DEF FailedRun, Schedule
    <3>. QED  BY <1>12, <3>1, <3>2, <3>3 DEF OnRunnerComplete, AfterOutcome, Terminal
  <2>2. runner' \in [Slots -> RunnerRecord]
    BY <1>12, FreeRunnerType DEF OnRunnerComplete, TypeOK
  <2>3. active' \in [Sessions -> Slots \cup {NoSlot}]
    BY <1>12 DEF OnRunnerComplete, TypeOK
  <2>. QED  BY <1>12, <2>1, <2>2, <2>3 DEF OnRunnerComplete, TypeOK
<1>. QED
  BY <1>3, <1>4, <1>5, <1>6, <1>7, <1>8, <1>9, <1>10, <1>11, <1>12
  DEF LoopStep, WsBranch, RetryBranch, JoinBranch, AdminBranch, OwnStep

LEMMA EnvStepType ==
    ASSUME TypeOK, EnvStep
    PROVE  TypeOK'
<1>0. {"chunk", "loss", "repeat", "delete"} \subseteq BudgetKinds  BY DEF BudgetKinds
<1>1. ASSUME NEW s \in Sessions, UploadChunk(s)  PROVE TypeOK'
  <2>1. bus' \in Seq(Events)  BY <1>1 DEF UploadChunk, TypeOK, Events
  <2>. QED  BY <1>0, <1>1, <2>1, SpendType DEF UploadChunk, EnvUnchanged, TypeOK
<1>2. ASSUME NEW s \in Sessions, FinishRecording(s)  PROVE TypeOK'
  <2>1. bus' \in Seq(Events)  BY <1>2 DEF FinishRecording, TypeOK, Events
  <2>2. status' \in [Sessions -> Status]  BY <1>2 DEF FinishRecording, TypeOK, Status
  <2>. QED  BY <1>2, <2>1, <2>2 DEF FinishRecording, EnvUnchanged, TypeOK
<1>3. CASE LoseEvent
  <2>1. bus' \in Seq(Events)
    <3>1. bus \in Seq(Events) /\ bus # <<>>  BY <1>3 DEF LoseEvent, TypeOK
    <3>2. \A i \in 1 .. Len(bus) - 1 : bus[i] \in Events  BY <3>1
    <3>3. bus' = [i \in 1 .. Len(bus) - 1 |-> bus[i]]
      BY <1>3, <3>1 DEF LoseEvent
    <3>. QED  BY <3>1, <3>2, <3>3
  <2>. QED  BY <1>0, <1>3, <2>1, SpendType DEF LoseEvent, EnvUnchanged, TypeOK
<1>4. ASSUME NEW s \in Sessions, RepeatEvent(s)  PROVE TypeOK'
  <2>1. bus' \in Seq(Events)  BY <1>4 DEF RepeatEvent, TypeOK, Events
  <2>. QED  BY <1>0, <1>4, <2>1, SpendType DEF RepeatEvent, EnvUnchanged, TypeOK
<1>5. ASSUME NEW s \in Sessions, DeleteSession(s)  PROVE TypeOK'
  <2>1. status' \in [Sessions -> Status]  BY <1>5 DEF DeleteSession, TypeOK, Status
  <2>. QED  BY <1>0, <1>5, <2>1, SpendType DEF DeleteSession, EnvUnchanged, TypeOK
<1>. QED  BY <1>1, <1>2, <1>3, <1>4, <1>5 DEF EnvStep

LEMMA CrashType ==
    ASSUME TypeOK, Crash
    PROVE  TypeOK'
<1>1. "crash" \in BudgetKinds  BY DEF BudgetKinds
<1>2. loop' \in LoopRecord  BY LoopAtType DEF Crash, LoopPCs
<1>3. runner' \in [Slots -> RunnerRecord]  BY FreeRunnerType DEF Crash
<1>4. gaveUp' \in [Sessions -> Reasons]  BY DEF Crash, Reasons
<1>5. bus' \in Seq(Events)  BY DEF Crash
<1>6. retryq' \in [Sessions -> [1 .. Backoffs -> Nat]]  BY DEF Crash
<1>. QED  BY <1>1, <1>2, <1>3, <1>4, <1>5, <1>6, SpendType DEF Crash, TypeOK

LEMMA NextType ==
    ASSUME TypeOK, [Next]_vars
    PROVE  TypeOK'
<1>1. CASE UNCHANGED vars  BY <1>1 DEF vars, TypeOK
<1>. QED  BY <1>1, RunnerStepType, LoopStepType, EnvStepType, CrashType DEF Next

(* Whatever the constants, every variable keeps to its kind: no step       *)
(* stores a handle, a record, a queue entry or an event of another shape.  *)
THEOREM TypeCorrect == Spec => []TypeOK
  BY InitType, NextType, PTL DEF Spec

(* ------------------------ frames: who changes what --------------------- *)

(* A runner's step touches its own slot only.  It keeps its session and    *)
(* its wrapper, unless it ends detached and its slot is given back.        *)
LEMMA RunnerFrame ==
    ASSUME TypeOK, NEW r \in Slots, RunnerStep(r)
    PROVE  /\ UNCHANGED <<bus, active, retryq, loop>>
           /\ budget'["rerun"] = budget["rerun"]
           /\ runner[r].pc # "free"
           /\ \A q \in Slots \ {r} : runner'[q] = runner[q]
           /\ \/ ~runner[r].joined /\ runner'[r] = FreeRunner
              \/ /\ runner'[r].session = runner[r].session
                 /\ runner'[r].joined = runner[r].joined
                 /\ runner'[r].pc # "free"
<1>0. runner \in [Slots -> RunnerRecord] /\ runner[r] \in RunnerRecord  BY DEF TypeOK
<1>1. /\ UNCHANGED <<bus, active, retryq, loop>>
      /\ runner[r].pc # "free"
  BY DEF RunnerStep, BuildPipeline, Recv, Claim, Collect, Produce, Mark, Panic,
         RunnerUnchanged
<1>2. budget'["rerun"] = budget["rerun"]
  <2>1. ASSUME Spend("fault")  PROVE budget'["rerun"] = budget["rerun"]
    BY <2>1 DEF Spend, TypeOK, BudgetKinds
  <2>2. ASSUME NEW s, NEW to, NEW reply, Patch(s, to, reply)
        PROVE  budget'["rerun"] = budget["rerun"]
    BY <2>1, <2>2 DEF Patch
  <2>. QED
    BY <2>1, <2>2 DEF RunnerStep, BuildPipeline, Recv, Claim, Collect, Produce, Mark, Panic
<1>3. \/ \E pc \in RunnerPCs \ {"free"} : Enter(r, pc)
      \/ runner' = [runner EXCEPT ![r].mailbox = Tail(@)]
  <2>1. \A mode, reply : reply \in Replies =>
           AfterClaim(mode, reply) \in RunnerPCs \ {"free"}
    BY DEF AfterClaim, Replies, RunnerPCs, Terminal
  <2>2. \A reply \in Replies : AfterMark(reply) \in RunnerPCs \ {"free"}
    BY DEF AfterMark, Replies, RunnerPCs, Terminal
  <2>3. {"recv", "claim", "collect", "produce", "mark", "ok", "failed", "lost",
         "misconfigured"} \subseteq RunnerPCs \ {"free"}
    BY DEF RunnerPCs, Terminal
  <2>. QED
    BY <2>1, <2>2, <2>3
    DEF RunnerStep, BuildPipeline, Recv, Claim, Collect, Produce, Mark, Panic
<1>4. ASSUME NEW pc \in RunnerPCs \ {"free"}
      PROVE  \/ ~runner[r].joined /\ Reached(runner[r], pc) = FreeRunner
             \/ /\ Reached(runner[r], pc).session = runner[r].session
                /\ Reached(runner[r], pc).joined = runner[r].joined
                /\ Reached(runner[r], pc).pc = pc
  BY <1>0 DEF Reached, RunnerRecord
<1>5. CASE \E pc \in RunnerPCs \ {"free"} : Enter(r, pc)
  <2>1. PICK pc \in RunnerPCs \ {"free"} : Enter(r, pc)  BY <1>5
  <2>2. /\ runner'[r] = Reached(runner[r], pc)
        /\ \A q \in Slots \ {r} : runner'[q] = runner[q]
    BY <1>0, <2>1 DEF Enter
  <2>. QED  BY <1>1, <1>2, <1>4, <2>2
<1>6. CASE runner' = [runner EXCEPT ![r].mailbox = Tail(@)]
  <2>1. /\ runner'[r] = [runner[r] EXCEPT !.mailbox = Tail(runner[r].mailbox)]
        /\ \A q \in Slots \ {r} : runner'[q] = runner[q]
    BY <1>0, <1>6
  <2>2. /\ runner'[r].session = runner[r].session
        /\ runner'[r].joined = runner[r].joined
        /\ runner'[r].pc = runner[r].pc
    BY <1>0, <2>1 DEF RunnerRecord
  <2>. QED  BY <1>1, <1>2, <2>1, <2>2
<1>. QED  BY <1>3, <1>5, <1>6

(* A spawned runner takes a slot that was free.                            *)
LEMMA SpawnFrame ==
    ASSUME TypeOK, NEW s \in Sessions, NEW k \in Nat, NEW mode \in Modes,
           Spawn(s, k, mode)
    PROVE  /\ NewSlot \in Slots /\ runner[NewSlot].pc = "free"
           /\ runner'[NewSlot] = Spawned(s, k, mode)
           /\ \A q \in Slots \ {NewSlot} : runner'[q] = runner[q]
           /\ active'[s] = NewSlot
           /\ \A t \in Sessions \ {s} : active'[t] = active[t]
  BY SpawnType DEF Spawn, TypeOK, FreeSlots

(* ---------------------- handles lead to their runner ------------------- *)

HandleInv == SessionsNamed /\ HandlesAreJoined /\ AbortedIsUnmapped

LEMMA HandleInit == Init => HandleInv
  BY DEF Init, HandleInv, SessionsNamed, HandlesAreJoined, AbortedIsUnmapped,
         FreeRunner, LoopAt

LEMMA HandleRunnerStep ==
    ASSUME TypeOK, HandleInv, NEW r \in Slots, RunnerStep(r)
    PROVE  HandleInv'
<1>1. /\ UNCHANGED <<active, loop>>
      /\ runner[r].pc # "free"
      /\ \A q \in Slots \ {r} : runner'[q] = runner[q]
      /\ \/ ~runner[r].joined /\ runner'[r] = FreeRunner
         \/ /\ runner'[r].session = runner[r].session
            /\ runner'[r].joined = runner[r].joined
            /\ runner'[r].pc # "free"
  BY RunnerFrame
<1>2. SessionsNamed'
  BY <1>1 DEF HandleInv, SessionsNamed, FreeRunner
<1>3. HandlesAreJoined'
  <2>1. ASSUME NEW s \in Sessions, active[s] # NoSlot
        PROVE  /\ runner'[active[s]].session = s
               /\ runner'[active[s]].pc # "free"
               /\ runner'[active[s]].joined
    <3>1. active[s] \in Slots  BY <2>1 DEF TypeOK
    <3>2. /\ runner[active[s]].session = s
          /\ runner[active[s]].pc # "free"
          /\ runner[active[s]].joined
      BY <2>1 DEF HandleInv, HandlesAreJoined
    <3>3. CASE active[s] = r  BY <1>1, <3>2, <3>3
    <3>4. CASE active[s] # r  BY <1>1, <3>1, <3>2, <3>4
    <3>. QED  BY <3>3, <3>4
  <2>. QED  BY <1>1, <2>1 DEF HandlesAreJoined
<1>4. AbortedIsUnmapped'
  BY <1>1 DEF HandleInv, AbortedIsUnmapped
<1>. QED  BY <1>2, <1>3, <1>4 DEF HandleInv

(* Spawning keeps the handles right whatever the loop does next, as long   *)
(* as it does not go on aborting.                                          *)
LEMMA HandleSpawn ==
    ASSUME TypeOK, HandleInv, NEW s \in Sessions, NEW k \in Nat, NEW mode \in Modes,
           Spawn(s, k, mode),
           loop'.pc \in {"sending", "clearing"} => loop'.session \in Sessions,
           ~(loop'.pc = "sending" /\ loop'.cmd = "abort")
    PROVE  HandleInv'
<1>1. /\ NewSlot \in Slots /\ runner[NewSlot].pc = "free"
      /\ runner'[NewSlot] = Spawned(s, k, mode)
      /\ \A q \in Slots \ {NewSlot} : runner'[q] = runner[q]
      /\ active'[s] = NewSlot
      /\ \A t \in Sessions \ {s} : active'[t] = active[t]
  BY SpawnFrame
<1>2. /\ Spawned(s, k, mode).session = s
      /\ Spawned(s, k, mode).joined
      /\ Spawned(s, k, mode).pc # "free"
  BY DEF Spawned
<1>3. SessionsNamed'  BY <1>1, <1>2 DEF HandleInv, SessionsNamed
<1>4. HandlesAreJoined'
  <2>1. ASSUME NEW q \in Sessions, active'[q] # NoSlot
        PROVE  /\ runner'[active'[q]].session = q
               /\ runner'[active'[q]].pc # "free"
               /\ runner'[active'[q]].joined
    <3>1. CASE q = s  BY <1>1, <1>2, <3>1
    <3>2. CASE q # s
      <4>1. active'[q] = active[q] /\ active[q] \in Slots
        BY <1>1, <2>1, <3>2 DEF TypeOK
      <4>2. /\ runner[active[q]].session = q
            /\ runner[active[q]].pc # "free"
            /\ runner[active[q]].joined
        BY <2>1, <4>1 DEF HandleInv, HandlesAreJoined
      <4>3. runner'[active[q]] = runner[active[q]]  BY <1>1, <4>1, <4>2
      <4>. QED  BY <4>1, <4>2, <4>3
    <3>. QED  BY <3>1, <3>2
  <2>. QED  BY <2>1 DEF HandlesAreJoined
<1>. QED  BY <1>3, <1>4 DEF HandleInv, AbortedIsUnmapped

LEMMA HandleSpawnAll ==
    ASSUME TypeOK, HandleInv, NEW S \in SUBSET Sessions, SpawnAll(S),
           loop'.pc \notin {"sending", "clearing"}
    PROVE  HandleInv'
<1>1. PICK slotOf \in [S -> FreeSlots] :
          /\ active' = [s \in Sessions |-> IF s \in S THEN slotOf[s] ELSE active[s]]
          /\ \A s \in S : runner'[slotOf[s]] = Spawned(s, 1, "oneshot")
          /\ \A r \in Slots : (\A s \in S : slotOf[s] # r) => runner'[r] = runner[r]
  BY SpawnAllFacts
<1>2. \A s \in S : /\ slotOf[s] \in Slots
                   /\ runner[slotOf[s]].pc = "free"
  BY DEF FreeSlots
<1>3. \A s \in S : /\ runner'[slotOf[s]].session = s
                   /\ runner'[slotOf[s]].joined
                   /\ runner'[slotOf[s]].pc # "free"
  <2>1. \A s : /\ Spawned(s, 1, "oneshot").session = s
              /\ Spawned(s, 1, "oneshot").joined
              /\ Spawned(s, 1, "oneshot").pc # "free"
    BY DEF Spawned
  <2>. QED  BY <1>1, <2>1
<1>4. SessionsNamed'
  <2>1. ASSUME NEW r \in Slots, runner'[r].pc # "free"
        PROVE  runner'[r].session \in Sessions
    BY <1>1, <1>3, <2>1 DEF HandleInv, SessionsNamed
  <2>. QED  BY <2>1 DEF SessionsNamed
<1>5. HandlesAreJoined'
  <2>1. ASSUME NEW s \in Sessions, active'[s] # NoSlot
        PROVE  /\ runner'[active'[s]].session = s
               /\ runner'[active'[s]].pc # "free"
               /\ runner'[active'[s]].joined
    <3>1. CASE s \in S  BY <1>1, <1>3, <3>1
    <3>2. CASE s \notin S
      <4>1. active'[s] = active[s] /\ active[s] \in Slots
        BY <1>1, <2>1, <3>2 DEF TypeOK
      <4>2. /\ runner[active[s]].session = s
            /\ runner[active[s]].pc # "free"
            /\ runner[active[s]].joined
        BY <2>1, <4>1 DEF HandleInv, HandlesAreJoined
      <4>3. runner'[active[s]] = runner[active[s]]  BY <1>1, <1>2, <4>1, <4>2
      <4>. QED  BY <4>1, <4>2, <4>3
    <3>. QED  BY <3>1, <3>2
  <2>. QED  BY <2>1 DEF HandlesAreJoined
<1>. QED  BY <1>4, <1>5 DEF HandleInv, AbortedIsUnmapped

LEMMA HandleLoopStep ==
    ASSUME TypeOK, HandleInv, LoopStep
    PROVE  HandleInv'
<1>0. /\ \A pc : LoopAt(pc).pc = pc
      /\ \A s : /\ [LoopAt("clearing") EXCEPT !.session = s].pc = "clearing"
                /\ [LoopAt("clearing") EXCEPT !.session = s].session = s
      /\ \A r, cmd, s : /\ Sending(r, cmd, s).pc = "sending"
                        /\ Sending(r, cmd, s).to = r
                        /\ Sending(r, cmd, s).cmd = cmd
                        /\ Sending(r, cmd, s).session = s
      /\ \A st : Listed(st) \in SUBSET Sessions
      /\ {"streaming", "oneshot"} = Modes
      /\ 1 \in Nat
  BY DEF LoopAt, Sending, Listed, Modes
<1>1. ASSUME UNCHANGED <<active, runner>>, loop'.pc \notin {"sending", "clearing"}
      PROVE  HandleInv'
  BY <1>1 DEF HandleInv, SessionsNamed, HandlesAreJoined, AbortedIsUnmapped
<1>2. CASE StartupOrphans \/ StartupUploaded
  BY <1>0, <1>1, <1>2, HandleSpawnAll DEF StartupOrphans, StartupUploaded
<1>3. CASE PollReconcile
  BY <1>0, <1>3, HandleSpawnAll DEF PollReconcile, InSelect
<1>4. ASSUME NEW s \in Sessions, OnSessionUploaded(s)  PROVE HandleInv'
  <2>1. CASE active[s] # NoSlot
    <3>1. /\ loop' = Sending(active[s], "finalize", s)
          /\ UNCHANGED <<active, runner>>
      BY <1>4, <2>1 DEF OnSessionUploaded
    <3>. QED  BY <1>0, <3>1 DEF HandleInv, SessionsNamed, HandlesAreJoined, AbortedIsUnmapped
  <2>2. CASE active[s] = NoSlot
    BY <1>0, <1>4, <2>2, HandleSpawn DEF OnSessionUploaded, InSelect
  <2>. QED  BY <2>1, <2>2
<1>5. ASSUME NEW s \in Sessions, OnChunkUploaded(s)  PROVE HandleInv'
  <2>1. CASE active[s] # NoSlot
    <3>1. /\ loop' = Sending(active[s], "ingest", s)
          /\ UNCHANGED <<active, runner>>
      BY <1>5, <2>1 DEF OnChunkUploaded
    <3>. QED  BY <1>0, <3>1 DEF HandleInv, SessionsNamed, HandlesAreJoined, AbortedIsUnmapped
  <2>2. CASE active[s] = NoSlot
    <3>1. Spawn(s, 1, "streaming") /\ loop' = Sending(NewSlot, "ingest", s)
      BY <1>5, <2>2 DEF OnChunkUploaded
    <3>. QED  BY <1>0, <3>1, HandleSpawn
  <2>. QED  BY <2>1, <2>2
<1>6. ASSUME NEW s \in Sessions, NEW k \in 1 .. Backoffs, HandleRetry(s, k)
      PROVE  HandleInv'
  BY <1>0, <1>6, HandleSpawn, ConstantsAssumption DEF HandleRetry, InSelect
<1>7. ASSUME NEW s \in Sessions, AdminRerun(s)  PROVE HandleInv'
  <2>1. /\ active' = [active EXCEPT ![s] = NoSlot] /\ UNCHANGED runner
        /\ loop' = IF active[s] # NoSlot
                   THEN Sending(active[s], "abort", s)
                   ELSE [LoopAt("clearing") EXCEPT !.session = s]
    BY <1>7 DEF AdminRerun
  <2>2. SessionsNamed'  BY <1>0, <2>1 DEF HandleInv, SessionsNamed
  <2>3. HandlesAreJoined'  BY <2>1 DEF HandleInv, HandlesAreJoined, TypeOK
  <2>4. AbortedIsUnmapped'
    <3>1. ASSUME active[s] # NoSlot, NEW q \in Sessions  PROVE active'[q] # active[s]
      BY <2>1, <3>1 DEF HandleInv, HandlesAreJoined, TypeOK
    <3>. QED  BY <1>0, <2>1, <3>1 DEF AbortedIsUnmapped
  <2>. QED  BY <2>2, <2>3, <2>4 DEF HandleInv
<1>8. CASE CompleteSend
  <2>. DEFINE r == loop.to
  <2>0. /\ loop.session \in Sessions
        /\ loop.pc = "sending"
    BY <1>8 DEF CompleteSend, HandleInv, SessionsNamed
  <2>1. ASSUME r \in Slots
        PROVE  /\ Delivered(r).session = runner[r].session
               /\ Delivered(r).pc = runner[r].pc
               /\ Delivered(r).joined = runner[r].joined
    BY <2>1 DEF Delivered, TypeOK, RunnerRecord
  <2>2. CASE /\ runner' = [runner EXCEPT ![r] = Delivered(r)]
             /\ loop' = LoopAt("select")
             /\ UNCHANGED active
    <3>1. \A q \in Slots : /\ runner'[q].session = runner[q].session
                           /\ runner'[q].pc = runner[q].pc
                           /\ runner'[q].joined = runner[q].joined
      BY <2>1, <2>2 DEF TypeOK
    <3>. QED
      BY <1>0, <2>2, <3>1
      DEF HandleInv, SessionsNamed, HandlesAreJoined, AbortedIsUnmapped, TypeOK
  <2>3. CASE Spawn(loop.session, 1, "oneshot") /\ loop' = LoopAt("select")
    BY <1>0, <2>0, <2>3, HandleSpawn
  <2>4. CASE /\ loop.cmd = "abort"
             /\ \E record \in Detached(Delivered(r)) :
                   runner' = [runner EXCEPT ![r] = record]
             /\ loop' = [LoopAt("clearing") EXCEPT !.session = loop.session]
             /\ UNCHANGED active
    <3>1. PICK record \in Detached(Delivered(r)) :
              runner' = [runner EXCEPT ![r] = record]
      BY <2>4
    <3>2. \A q \in Slots \ {r} : runner'[q] = runner[q]  BY <3>1 DEF TypeOK
    <3>3. \A q \in Sessions : active[q] # r
      BY <2>0, <2>4 DEF HandleInv, AbortedIsUnmapped
    <3>4. r \in Slots /\ runner'[r].pc # "free" =>
             runner'[r].session = runner[r].session /\ runner[r].pc # "free"
      <4>1. ASSUME r \in Slots
            PROVE  \/ record = FreeRunner
                   \/ record.session = runner[r].session /\ record.pc = runner[r].pc
        <5>1. /\ Delivered(r).session = runner[r].session
              /\ Delivered(r).pc = runner[r].pc
          BY <2>1, <4>1
        <5>2. [Delivered(r) EXCEPT !.joined = FALSE].session = Delivered(r).session
              /\ [Delivered(r) EXCEPT !.joined = FALSE].pc = Delivered(r).pc
          BY <4>1 DEF Delivered, TypeOK, RunnerRecord
        <5>. QED  BY <3>1, <5>1, <5>2 DEF Detached
      <4>2. r \in Slots => runner'[r] = record  BY <3>1 DEF TypeOK
      <4>. QED  BY <4>1, <4>2 DEF FreeRunner
    <3>5. SessionsNamed'
      BY <1>0, <2>0, <2>4, <3>2, <3>4 DEF HandleInv, SessionsNamed
    <3>6. HandlesAreJoined'
      BY <2>4, <3>2, <3>3 DEF HandleInv, HandlesAreJoined, TypeOK
    <3>7. AbortedIsUnmapped'  BY <1>0, <2>4 DEF AbortedIsUnmapped
    <3>. QED  BY <3>5, <3>6, <3>7 DEF HandleInv
  <2>. QED  BY <1>8, <2>2, <2>3, <2>4 DEF CompleteSend
<1>9. CASE ClearAndSpawn
  <2>1. loop.session \in Sessions  BY <1>9 DEF ClearAndSpawn, HandleInv, SessionsNamed
  <2>. QED  BY <1>0, <1>9, <2>1, HandleSpawn DEF ClearAndSpawn
<1>10. ASSUME NEW r \in Slots, OnRunnerComplete(r)  PROVE HandleInv'
  <2>1. /\ active' = [active EXCEPT ![runner[r].session] = NoSlot]
        /\ runner' = [runner EXCEPT ![r] = FreeRunner]
        /\ UNCHANGED loop /\ loop.pc = "select"
    BY <1>10 DEF OnRunnerComplete, InSelect
  <2>2. \A q \in Slots \ {r} : runner'[q] = runner[q]  BY <2>1 DEF TypeOK
  <2>3. runner'[r] = FreeRunner  BY <2>1 DEF TypeOK
  <2>4. SessionsNamed'
    BY <2>1, <2>2, <2>3 DEF HandleInv, SessionsNamed, FreeRunner
  <2>5. HandlesAreJoined'
    <3>1. ASSUME NEW s \in Sessions, active'[s] # NoSlot
          PROVE  active'[s] = active[s] /\ s # runner[r].session /\ active[s] \in Slots
      BY <2>1, <3>1 DEF TypeOK
    <3>2. ASSUME NEW s \in Sessions, active'[s] # NoSlot
          PROVE  active[s] # r
      BY <3>1, <3>2 DEF HandleInv, HandlesAreJoined
    <3>. QED  BY <2>2, <3>1, <3>2 DEF HandleInv, HandlesAreJoined
  <2>6. AbortedIsUnmapped'  BY <2>1 DEF AbortedIsUnmapped
  <2>. QED  BY <2>4, <2>5, <2>6 DEF HandleInv
<1>. QED
  BY <1>2, <1>3, <1>4, <1>5, <1>6, <1>7, <1>8, <1>9, <1>10
  DEF LoopStep, WsBranch, RetryBranch, JoinBranch, AdminBranch, OwnStep

LEMMA HandleNext ==
    ASSUME TypeOK, HandleInv, [Next]_vars
    PROVE  HandleInv'
<1>1. CASE UNCHANGED vars
  BY <1>1 DEF vars, HandleInv, SessionsNamed, HandlesAreJoined, AbortedIsUnmapped
<1>2. CASE EnvStep
  <2>1. UNCHANGED <<active, runner, loop>>
    BY <1>2 DEF EnvStep, UploadChunk, FinishRecording, LoseEvent, RepeatEvent,
              DeleteSession, EnvUnchanged
  <2>. QED
    BY <2>1 DEF HandleInv, SessionsNamed, HandlesAreJoined, AbortedIsUnmapped
<1>3. CASE Crash
  BY <1>3 DEF Crash, HandleInv, SessionsNamed, HandlesAreJoined, AbortedIsUnmapped,
              FreeRunner, LoopAt
<1>. QED  BY <1>1, <1>2, <1>3, HandleRunnerStep, HandleLoopStep DEF Next

(* For any number of sessions and runners and any faults, reruns and       *)
(* restarts: a handle in the loop's map leads to a runner of its session   *)
(* that the JoinSet still holds (event_loop.rs:254, 311, 324).             *)
THEOREM HandlesJoined == Spec => []HandlesAreJoined
<1>1. Init => TypeOK /\ HandleInv  BY InitType, HandleInit
<1>2. TypeOK /\ HandleInv /\ [Next]_vars => (TypeOK /\ HandleInv)'
  BY NextType, HandleNext
<1>3. HandleInv => HandlesAreJoined  BY DEF HandleInv
<1>. QED  BY <1>1, <1>2, <1>3, PTL DEF Spec

(* ------------------ rows are stored before the mark -------------------- *)

(* Reruns are only ever used up.                                           *)
LEMMA RerunsShrink ==
    ASSUME TypeOK, [Next]_vars
    PROVE  /\ budget'["rerun"] \in Nat
           /\ budget'["rerun"] <= budget["rerun"]
           /\ AdminBranch => budget'["rerun"] < budget["rerun"]
<1>0. /\ budget \in [BudgetKinds -> Nat] /\ budget["rerun"] \in Nat
  BY DEF TypeOK, BudgetKinds
<1>1. budget' \in [BudgetKinds -> Nat] /\ budget'["rerun"] \in Nat
  BY NextType DEF TypeOK, BudgetKinds
<1>2. ASSUME NEW kind \in BudgetKinds, Spend(kind)
      PROVE  budget'["rerun"] <= budget["rerun"]
  BY <1>0, <1>2 DEF Spend
<1>3. {"fault", "crash", "rerun", "chunk", "loss", "repeat", "delete"} \subseteq BudgetKinds
  BY DEF BudgetKinds
<1>4. ASSUME NEW s, NEW to, NEW reply, Patch(s, to, reply)
      PROVE  budget'["rerun"] <= budget["rerun"]
  BY <1>0, <1>2, <1>3, <1>4 DEF Patch
<1>5. ASSUME UNCHANGED vars  PROVE budget'["rerun"] <= budget["rerun"]
  BY <1>0, <1>5 DEF vars
<1>6. ASSUME NEW r \in Slots, RunnerStep(r)  PROVE budget'["rerun"] <= budget["rerun"]
  BY <1>0, <1>6, RunnerFrame
<1>7. ASSUME AdminBranch  PROVE budget'["rerun"] < budget["rerun"]
  <2>1. Spend("rerun")  BY <1>7 DEF AdminBranch, AdminRerun
  <2>. QED  BY <1>0, <1>1, <2>1 DEF Spend, BudgetKinds
<1>8. ASSUME LoopStep  PROVE budget'["rerun"] <= budget["rerun"]
  <2>1. ASSUME NEW r \in Slots, OnRunnerComplete(r)
        PROVE  budget'["rerun"] <= budget["rerun"]
    <3>1. UNCHANGED budget \/ \E reply : Patch(runner[r].session, "transcribing_failed", reply)
      BY <2>1 DEF OnRunnerComplete, AfterOutcome, FailedRun, Terminal
    <3>. QED  BY <1>0, <1>4, <3>1
  <2>. QED
    BY <1>0, <1>1, <1>2, <1>3, <1>7, <1>8, <2>1
    DEF LoopStep, WsBranch, PollReconcile, RetryBranch, JoinBranch, OwnStep,
        OnSessionUploaded, OnChunkUploaded, HandleRetry, StartupOrphans,
        StartupUploaded, CompleteSend, ClearAndSpawn
<1>9. ASSUME EnvStep \/ Crash  PROVE budget'["rerun"] <= budget["rerun"]
  BY <1>0, <1>2, <1>3, <1>9
  DEF EnvStep, Crash, UploadChunk, FinishRecording, LoseEvent, RepeatEvent, DeleteSession
<1>. QED  BY <1>1, <1>5, <1>6, <1>7, <1>8, <1>9 DEF Next

LEMMA RerunsCountedNext ==
    ASSUME TypeOK, RerunsCounted, [Next]_vars
    PROVE  /\ RerunsCounted'
           /\ NoRerunYet' => NoRerunYet /\ ~AdminBranch
<1>1. /\ budget["rerun"] \in Nat /\ Budget["rerun"] \in Nat
  BY ConstantsAssumption DEF TypeOK, BudgetKinds
<1>. QED  BY <1>1, RerunsShrink DEF RerunsCounted, NoRerunYet

(* Without reruns the loop only lets runners be, spawns into free slots    *)
(* and reaps finished ones; it writes no row and marks no session          *)
(* transcribed.                                                            *)
LEMMA LoopFrame ==
    ASSUME TypeOK, HandleInv, NoRerunYet, NoAbortYet, LoopStep, ~AdminBranch
    PROVE  /\ complete' = complete
           /\ loop'.pc # "clearing" /\ ~(loop'.pc = "sending" /\ loop'.cmd = "abort")
           /\ \A s \in Sessions : status'[s] # status[s] =>
                 status'[s] = "transcribing_failed"
           /\ \A r \in Slots :
                 \/ /\ runner'[r].session = runner[r].session
                    /\ runner'[r].joined = runner[r].joined
                    /\ runner'[r].pc = runner[r].pc
                 \/ /\ runner[r].pc = "free"
                    /\ runner'[r].session \in Sessions
                    /\ runner'[r].joined
                    /\ runner'[r].pc \in {"starting", "claim"}
                 \/ OnRunnerComplete(r) /\ runner'[r] = FreeRunner
<1>0. /\ \A pc : LoopAt(pc).pc = pc
      /\ \A r, cmd, s : Sending(r, cmd, s).cmd = cmd /\ Sending(r, cmd, s).pc = "sending"
      /\ \A st : Listed(st) \in SUBSET Sessions
      /\ {"streaming", "oneshot"} = Modes
      /\ 1 \in Nat /\ 1 .. Backoffs \subseteq Nat
      /\ \A s, k, mode : /\ Spawned(s, k, mode).session = s
                         /\ Spawned(s, k, mode).joined
                         /\ Spawned(s, k, mode).pc \in {"starting", "claim"}
  BY ConstantsAssumption DEF LoopAt, Sending, Listed, Modes, Spawned
<1>. DEFINE Same(r) == /\ runner'[r].session = runner[r].session
                       /\ runner'[r].joined = runner[r].joined
                       /\ runner'[r].pc = runner[r].pc
            New(r) == /\ runner[r].pc = "free"
                      /\ runner'[r].session \in Sessions
                      /\ runner'[r].joined
                      /\ runner'[r].pc \in {"starting", "claim"}
<1>1. ASSUME NEW s \in Sessions, NEW k \in Nat, NEW mode \in Modes, Spawn(s, k, mode)
      PROVE  \A r \in Slots : Same(r) \/ New(r)
  <2>1. /\ NewSlot \in Slots /\ runner[NewSlot].pc = "free"
        /\ runner'[NewSlot] = Spawned(s, k, mode)
        /\ \A q \in Slots \ {NewSlot} : runner'[q] = runner[q]
    BY <1>1, SpawnFrame
  <2>2. New(NewSlot)  BY <1>0, <2>1
  <2>3. \A q \in Slots \ {NewSlot} : Same(q)  BY <2>1
  <2>. QED  BY <2>2, <2>3
<1>2. ASSUME NEW S \in SUBSET Sessions, SpawnAll(S)
      PROVE  \A r \in Slots : Same(r) \/ New(r)
  <2>1. PICK slotOf \in [S -> FreeSlots] :
              /\ \A s \in S : runner'[slotOf[s]] = Spawned(s, 1, "oneshot")
              /\ \A r \in Slots : (\A s \in S : slotOf[s] # r) => runner'[r] = runner[r]
    BY <1>2, SpawnAllFacts
  <2>2. ASSUME NEW r \in Slots, NEW s \in S, slotOf[s] = r  PROVE New(r)
    <3>1. runner[r].pc = "free"  BY <2>2 DEF FreeSlots
    <3>2. runner'[r] = Spawned(s, 1, "oneshot") /\ s \in Sessions  BY <2>1, <2>2
    <3>. QED  BY <1>0, <3>1, <3>2
  <2>. QED  BY <2>1, <2>2
<1>. HIDE DEF Same, New
<1>3. UNCHANGED runner => \A r \in Slots : Same(r)  BY DEF Same
<1>4. CASE StartupOrphans \/ StartupUploaded \/ PollReconcile
  <2>1. /\ UNCHANGED <<complete, status>>
        /\ loop'.pc \notin {"clearing", "sending"}
        /\ UNCHANGED runner \/ \E S \in SUBSET Sessions : SpawnAll(S)
    BY <1>0, <1>4 DEF StartupOrphans, StartupUploaded, PollReconcile, InSelect
  <2>2. \A r \in Slots : Same(r) \/ New(r)  BY <1>2, <1>3, <2>1
  <2>. QED  BY <2>1, <2>2 DEF Same, New
<1>5. CASE WsBranch \/ RetryBranch
  <2>1. /\ UNCHANGED <<complete, status>>
        /\ loop'.pc # "clearing" /\ ~(loop'.pc = "sending" /\ loop'.cmd = "abort")
    <3>1. ASSUME NEW s \in Sessions, OnSessionUploaded(s)
          PROVE  /\ UNCHANGED <<complete, status>>
                 /\ loop'.pc # "clearing" /\ ~(loop'.pc = "sending" /\ loop'.cmd = "abort")
      BY <1>0, <3>1 DEF OnSessionUploaded, InSelect
    <3>2. ASSUME NEW s \in Sessions, OnChunkUploaded(s)
          PROVE  /\ UNCHANGED <<complete, status>>
                 /\ loop'.pc # "clearing" /\ ~(loop'.pc = "sending" /\ loop'.cmd = "abort")
      BY <1>0, <3>2 DEF OnChunkUploaded
    <3>3. ASSUME NEW s \in Sessions, NEW k \in 1 .. Backoffs, HandleRetry(s, k)
          PROVE  /\ UNCHANGED <<complete, status>>
                 /\ loop'.pc # "clearing" /\ ~(loop'.pc = "sending" /\ loop'.cmd = "abort")
      BY <3>3 DEF HandleRetry, InSelect
    <3>. QED  BY <1>5, <3>1, <3>2, <3>3 DEF WsBranch, RetryBranch
  <2>2. \/ UNCHANGED runner
        \/ \E s \in Sessions, k \in Nat, mode \in Modes : Spawn(s, k, mode)
    BY <1>0, <1>5 DEF WsBranch, RetryBranch, OnSessionUploaded, OnChunkUploaded, HandleRetry
  <2>3. \A r \in Slots : Same(r) \/ New(r)  BY <1>1, <1>3, <2>2
  <2>. QED  BY <2>1, <2>3 DEF Same, New
<1>6. CASE CompleteSend
  <2>. DEFINE r == loop.to
  <2>1. loop.cmd # "abort" /\ loop.session \in Sessions
    BY <1>6 DEF CompleteSend, NoAbortYet, HandleInv, SessionsNamed
  <2>2. /\ UNCHANGED <<complete, status>>
        /\ loop' = LoopAt("select")
        /\ \/ runner' = [runner EXCEPT ![r] = Delivered(r)]
           \/ Spawn(loop.session, 1, "oneshot")
    BY <1>6, <2>1 DEF CompleteSend
  <2>3. ASSUME r \in Slots
        PROVE  /\ Delivered(r).session = runner[r].session
               /\ Delivered(r).pc = runner[r].pc
               /\ Delivered(r).joined = runner[r].joined
    BY <2>3 DEF Delivered, TypeOK, RunnerRecord
  <2>4. runner' = [runner EXCEPT ![r] = Delivered(r)] => \A q \in Slots : Same(q)
    BY <2>3 DEF TypeOK, Same
  <2>5. \A q \in Slots : Same(q) \/ New(q)  BY <1>0, <1>1, <2>1, <2>2, <2>4
  <2>. QED  BY <1>0, <2>2, <2>5 DEF Same, New
<1>7. CASE ClearAndSpawn  BY <1>7 DEF ClearAndSpawn, NoAbortYet
<1>8. ASSUME NEW r \in Slots, OnRunnerComplete(r)
      PROVE  /\ complete' = complete
             /\ loop'.pc # "clearing" /\ ~(loop'.pc = "sending" /\ loop'.cmd = "abort")
             /\ \A s \in Sessions : status'[s] # status[s] =>
                   status'[s] = "transcribing_failed"
             /\ \A q \in Slots : Same(q) \/ (OnRunnerComplete(q) /\ runner'[q] = FreeRunner)
  <2>1. /\ UNCHANGED <<complete, loop>> /\ loop.pc = "select"
        /\ runner' = [runner EXCEPT ![r] = FreeRunner]
        /\ AfterOutcome(r)
    BY <1>8 DEF OnRunnerComplete, InSelect
  <2>2. UNCHANGED status
        \/ \E reply : Patch(runner[r].session, "transcribing_failed", reply)
    BY <1>8, <2>1 DEF OnRunnerComplete, AfterOutcome, FailedRun, Terminal
  <2>3. \A s \in Sessions : status'[s] # status[s] => status'[s] = "transcribing_failed"
    BY <2>2 DEF Patch, TypeOK
  <2>4. runner'[r] = FreeRunner /\ \A q \in Slots \ {r} : runner'[q] = runner[q]
    BY <2>1 DEF TypeOK
  <2>. QED  BY <1>8, <2>1, <2>3, <2>4 DEF Same
<1>. QED
  BY <1>4, <1>5, <1>6, <1>7, <1>8 DEF LoopStep, JoinBranch, OwnStep, Same, New

RowsInv == RerunsCounted /\ NoAbortYet /\ RowsBeforeMark /\ WrittenBeforeTranscribed

LEMMA RowsInit == Init => RowsInv
<1>. SUFFICES ASSUME Init PROVE RowsInv  OBVIOUS
<1>1. Budget["rerun"] \in Nat  BY ConstantsAssumption DEF BudgetKinds
<1>2. RerunsCounted /\ NoAbortYet /\ RowsBeforeMark
  BY <1>1 DEF Init, RerunsCounted, NoAbortYet, RowsBeforeMark, FreeRunner, LoopAt
<1>3. WrittenBeforeTranscribed
  <2>1. complete = [s \in Sessions |-> status[s] = "transcribed"]  BY DEF Init
  <2>2. \A s \in Sessions : complete[s] = (status[s] = "transcribed")  BY <2>1, Zenon
  <2>. QED  BY <2>2, Zenon DEF WrittenBeforeTranscribed
<1>. QED  BY <1>2, <1>3 DEF RowsInv

(* What a runner's step does to rows and status, when nothing was          *)
(* detached.                                                               *)
LEMMA RunnerRows ==
    ASSUME TypeOK, HandleInv, NoRerunYet, NoAbortYet, RowsBeforeMark,
           NEW r \in Slots, RunnerStep(r)
    PROVE  /\ \A s \in Sessions : complete[s] => complete'[s]
           /\ runner'[r].pc = "mark" => complete'[runner[r].session]
           /\ \A s \in Sessions :
                 status'[s] = "transcribed" /\ status[s] # "transcribed" => complete[s]
<1>. DEFINE s == runner[r].session
<1>0. /\ runner[r].pc # "free" /\ runner[r].joined /\ s \in Sessions
      /\ runner \in [Slots -> RunnerRecord] /\ runner[r] \in RunnerRecord
      /\ complete \in [Sessions -> BOOLEAN]
      /\ status \in [Sessions -> Status]
  BY RunnerFrame DEF NoAbortYet, HandleInv, SessionsNamed, TypeOK
<1>1. ASSUME NEW pc \in RunnerPCs, Enter(r, pc)  PROVE runner'[r].pc = pc
  <2>1. Reached(runner[r], pc).pc = pc  BY <1>0 DEF Reached, RunnerRecord
  <2>. QED  BY <1>0, <1>1, <2>1 DEF Enter
<1>2. /\ {"recv", "claim", "collect", "produce", "mark", "ok", "failed", "lost",
          "misconfigured"} \subseteq RunnerPCs
  BY DEF RunnerPCs, Terminal
<1>3. CASE BuildPipeline(r) \/ Panic(r)
  BY <1>1, <1>2, <1>3 DEF BuildPipeline, Panic
<1>4. CASE Recv(r)
  <2>1. CASE \E pc \in {"claim", "ok"} : Enter(r, pc)  BY <1>1, <1>2, <1>4, <2>1 DEF Recv
  <2>2. CASE runner' = [runner EXCEPT ![r].mailbox = Tail(@)]
    <3>1. runner'[r].pc = runner[r].pc  BY <1>0, <2>2 DEF RunnerRecord
    <3>. QED  BY <1>4, <3>1 DEF Recv
  <2>. QED  BY <1>4, <2>1, <2>2 DEF Recv
<1>5. CASE Claim(r)
  <2>1. PICK reply \in Replies : /\ Patch(s, "transcribing", reply)
                                 /\ Enter(r, AfterClaim(runner[r].mode, reply))
    BY <1>5 DEF Claim
  <2>2. AfterClaim(runner[r].mode, reply) \in RunnerPCs \ {"mark"}
    BY <1>2 DEF AfterClaim, Replies
  <2>3. \A q \in Sessions : status'[q] # status[q] => status'[q] = "transcribing"
    BY <1>0, <2>1 DEF Patch
  <2>. QED  BY <1>1, <1>5, <2>1, <2>2, <2>3 DEF Claim
<1>6. CASE Collect(r)
  <2>1. UNCHANGED status  BY <1>6 DEF Collect
  <2>2. CASE complete' = [complete EXCEPT ![s] = TRUE]  BY <1>0, <2>1, <2>2
  <2>3. CASE UNCHANGED complete /\ \E pc \in {"produce", "failed", "misconfigured"} : Enter(r, pc)
    BY <1>1, <1>2, <2>1, <2>3
  <2>. QED  BY <1>6, <2>2, <2>3 DEF Collect
<1>7. CASE Produce(r)
  <2>1. UNCHANGED status  BY <1>7 DEF Produce
  <2>2. CASE complete' = [complete EXCEPT ![s] = TRUE]  BY <1>0, <2>1, <2>2
  <2>3. CASE UNCHANGED complete /\ Enter(r, "failed")  BY <1>1, <1>2, <2>1, <2>3
  <2>. QED  BY <1>7, <2>2, <2>3 DEF Produce
<1>8. CASE Mark(r)
  <2>1. PICK reply \in Replies : /\ Patch(s, "transcribed", reply)
                                 /\ Enter(r, AfterMark(reply))
    BY <1>8 DEF Mark
  <2>2. complete[s]  BY <1>8 DEF Mark, RowsBeforeMark
  <2>3. \A q \in Sessions : status'[q] # status[q] => q = s
    BY <1>0, <2>1 DEF Patch
  <2>4. UNCHANGED complete  BY <1>8 DEF Mark
  <2>. QED  BY <2>2, <2>3, <2>4
<1>. QED  BY <1>3, <1>4, <1>5, <1>6, <1>7, <1>8 DEF RunnerStep

LEMMA RowsNext ==
    ASSUME TypeOK, HandleInv, RowsInv, [Next]_vars
    PROVE  RowsInv'
<1>1. /\ RerunsCounted'
      /\ NoRerunYet' => NoRerunYet /\ ~AdminBranch
  BY RerunsCountedNext DEF RowsInv
<1>2. SUFFICES ASSUME NoRerunYet, ~AdminBranch
      PROVE  NoAbortYet' /\ RowsBeforeMark' /\ WrittenBeforeTranscribed'
  BY <1>1 DEF RowsInv, NoAbortYet, RowsBeforeMark, WrittenBeforeTranscribed
<1>3. CASE UNCHANGED vars
  BY <1>3 DEF vars, RowsInv, NoRerunYet, NoAbortYet, RowsBeforeMark, WrittenBeforeTranscribed
<1>4. ASSUME NEW r \in Slots, RunnerStep(r)
      PROVE  NoAbortYet' /\ RowsBeforeMark' /\ WrittenBeforeTranscribed'
  <2>1. /\ UNCHANGED loop
        /\ runner[r].pc # "free" /\ runner[r].joined
        /\ \A q \in Slots \ {r} : runner'[q] = runner[q]
        /\ runner'[r].session = runner[r].session
        /\ runner'[r].joined
    BY <1>2, <1>4, RunnerFrame DEF RowsInv, NoAbortYet
  <2>2. /\ \A s \in Sessions : complete[s] => complete'[s]
        /\ runner'[r].pc = "mark" => complete'[runner[r].session]
        /\ \A s \in Sessions :
              status'[s] = "transcribed" /\ status[s] # "transcribed" => complete[s]
    BY <1>2, <1>4, RunnerRows DEF RowsInv
  <2>3. NoAbortYet'  BY <1>2, <2>1 DEF RowsInv, NoAbortYet
  <2>4. RowsBeforeMark'
    <3>1. ASSUME NEW q \in Slots, runner'[q].pc = "mark"
          PROVE  complete'[runner'[q].session]
      <4>1. CASE q = r  BY <2>1, <2>2, <3>1, <4>1
      <4>2. CASE q # r
        <5>1. runner'[q] = runner[q] /\ runner[q].session \in Sessions
          BY <2>1, <3>1, <4>2 DEF HandleInv, SessionsNamed
        <5>. QED  BY <1>2, <2>2, <3>1, <5>1 DEF RowsInv, RowsBeforeMark
      <4>. QED  BY <4>1, <4>2
    <3>. QED  BY <3>1 DEF RowsBeforeMark
  <2>5. WrittenBeforeTranscribed'
    BY <1>2, <2>2 DEF RowsInv, WrittenBeforeTranscribed
  <2>. QED  BY <2>3, <2>4, <2>5
<1>5. CASE LoopStep
  <2>1. NoAbortYet'
    BY <1>2, <1>5, LoopFrame DEF RowsInv, NoAbortYet, FreeRunner
  <2>2. RowsBeforeMark'
    BY <1>2, <1>5, LoopFrame DEF RowsInv, RowsBeforeMark, FreeRunner
  <2>3. WrittenBeforeTranscribed'
    BY <1>2, <1>5, LoopFrame DEF RowsInv, WrittenBeforeTranscribed
  <2>. QED  BY <2>1, <2>2, <2>3
<1>6. CASE EnvStep
  <2>1. /\ UNCHANGED <<complete, runner, loop>>
        /\ \A s \in Sessions : status'[s] = "transcribed" => status[s] = "transcribed"
    BY <1>6 DEF EnvStep, UploadChunk, FinishRecording, LoseEvent, RepeatEvent,
                DeleteSession, EnvUnchanged, TypeOK
  <2>. QED
    BY <1>2, <2>1 DEF RowsInv, NoAbortYet, RowsBeforeMark, WrittenBeforeTranscribed
<1>7. CASE Crash
  BY <1>2, <1>7 DEF Crash, RowsInv, NoAbortYet, RowsBeforeMark,
        WrittenBeforeTranscribed, FreeRunner, LoopAt
<1>. QED  BY <1>3, <1>4, <1>5, <1>6, <1>7 DEF Next

(* Until a rerun is issued, no failed write, lost reply, duplicate runner  *)
(* or restart leaves a session transcribed without the rows of a whole run *)
(* (session_runner.rs:254-255, 307-308), for any number of them.           *)
THEOREM RowsBeforeTranscribed == Spec => []WrittenBeforeTranscribed
<1>1. Init => TypeOK /\ HandleInv /\ RowsInv  BY InitType, HandleInit, RowsInit
<1>2. TypeOK /\ HandleInv /\ RowsInv /\ [Next]_vars => (TypeOK /\ HandleInv /\ RowsInv)'
  BY NextType, HandleNext, RowsNext
<1>3. RowsInv => WrittenBeforeTranscribed  BY DEF RowsInv
<1>. QED  BY <1>1, <1>2, <1>3, PTL DEF Spec

(* ----------------- a claimed session is never forgotten ---------------- *)

(* The runners that answer for a claimed and for a failed session.         *)
ClaimedPCs == {"claim", "collect", "produce", "mark", "failed", "misconfigured"}
FailedPCs  == {"claim", "failed", "misconfigured"}

Watched(s, pcs) == \E r \in Slots :
    runner[r].session = s /\ runner[r].joined /\ runner[r].pc \in pcs

(* FailedIsCovered and NoOrphanedSession, apart by status.                 *)
CoverOf(s) ==
    /\ status[s] = "transcribing_failed" =>
          Watched(s, FailedPCs) \/ RetryQueued(s) \/ gaveUp[s] # "no"
    /\ status[s] = "transcribing" =>
          \/ Watched(s, ClaimedPCs) \/ RetryQueued(s) \/ gaveUp[s] # "no"
          \/ loop.pc = "startup_orphans"

CoverInv == NoRerunYet => \A s \in Sessions : CoverOf(s)

LEMMA CoverMeansCovered == CoverInv => FailedIsCovered /\ NoOrphanedSession
<1>1. \A s : Watched(s, FailedPCs) => Watched(s, ClaimedPCs)
  BY DEF Watched, FailedPCs, ClaimedPCs
<1>2. \A s : Watched(s, ClaimedPCs) => InFlight(s)
  BY DEF Watched, ClaimedPCs, InFlight
<1>3. CoverInv => FailedIsCovered
  BY DEF CoverInv, CoverOf, FailedIsCovered, Watched, FailedPCs
<1>4. CoverInv => NoOrphanedSession
  BY <1>1, <1>2 DEF CoverInv, CoverOf, NoOrphanedSession
<1>. QED  BY <1>3, <1>4

LEMMA CoverInit == Init => CoverInv
  BY DEF Init, CoverInv, CoverOf, LoopAt

(* What a runner's step means for its session: either the session is       *)
(* neither claimed nor failed afterwards, or this runner answers for it,   *)
(* or the step changed nothing others rely on.                             *)
LEMMA RunnerOutlook ==
    ASSUME TypeOK, HandleInv, NoRerunYet, NoAbortYet, NEW r \in Slots, RunnerStep(r)
    PROVE  LET s == runner[r].session IN
           /\ \A q \in Sessions \ {s} : status'[q] = status[q] /\ gaveUp'[q] = gaveUp[q]
           /\ \/ status'[s] \notin {"transcribing", "transcribing_failed"}
              \/ status'[s] = "transcribing" /\ runner'[r].pc \in ClaimedPCs
              \/ runner'[r].pc \in FailedPCs
              \/ /\ status'[s] = status[s] /\ gaveUp'[s] = gaveUp[s]
                 /\ runner[r].pc \notin FailedPCs
                 /\ status[s] = "transcribing" =>
                      (runner[r].pc \in ClaimedPCs => runner'[r].pc \in ClaimedPCs)
<1>. DEFINE s == runner[r].session
<1>0. /\ runner[r].pc # "free" /\ runner[r].joined /\ s \in Sessions
      /\ runner \in [Slots -> RunnerRecord] /\ runner[r] \in RunnerRecord
      /\ status \in [Sessions -> Status] /\ gaveUp \in [Sessions -> Reasons]
  BY RunnerFrame DEF NoAbortYet, HandleInv, SessionsNamed, TypeOK
<1>1. ASSUME NEW pc \in RunnerPCs, Enter(r, pc)  PROVE runner'[r].pc = pc
  <2>1. Reached(runner[r], pc).pc = pc  BY <1>0 DEF Reached, RunnerRecord
  <2>. QED  BY <1>0, <1>1, <2>1 DEF Enter
<1>2. {"recv", "claim", "collect", "produce", "mark", "ok", "failed", "lost",
       "misconfigured"} \subseteq RunnerPCs
  BY DEF RunnerPCs, Terminal
<1>3. CASE BuildPipeline(r) \/ Panic(r)
  BY <1>1, <1>2, <1>3 DEF BuildPipeline, Panic, FailedPCs, ClaimedPCs
<1>4. CASE Recv(r)
  BY <1>4 DEF Recv, FailedPCs, ClaimedPCs
<1>5. CASE Claim(r)
  <2>1. PICK reply \in Replies :
           /\ Patch(s, "transcribing", reply)
           /\ Enter(r, AfterClaim(runner[r].mode, reply))
           /\ gaveUp' = IF reply = "ok" THEN [gaveUp EXCEPT ![s] = "no"] ELSE gaveUp
    BY <1>5 DEF Claim
  <2>2. \A q \in Sessions \ {s} : status'[q] = status[q] /\ gaveUp'[q] = gaveUp[q]
    BY <1>0, <2>1 DEF Patch
  <2>3. CASE reply = "ok"
    <3>1. runner'[r].pc \in {"produce", "collect"}
      <4>1. AfterClaim(runner[r].mode, reply) \in {"produce", "collect"}
        BY <2>3 DEF AfterClaim
      <4>. QED  BY <1>1, <1>2, <2>1, <4>1
    <3>2. status'[s] = "transcribing"  BY <1>0, <2>1, <2>3 DEF Patch
    <3>. QED  BY <2>2, <3>1, <3>2 DEF ClaimedPCs
  <2>4. CASE reply = "error"
    <3>1. runner'[r].pc = "failed"
      <4>1. AfterClaim(runner[r].mode, reply) = "failed"  BY <2>4 DEF AfterClaim
      <4>. QED  BY <1>1, <1>2, <2>1, <4>1
    <3>. QED  BY <2>2, <3>1 DEF FailedPCs
  <2>5. CASE reply \in {"conflict", "notFound"}
    <3>1. UNCHANGED status /\ (status[s] = "deleted" \/ ~Accepts(s, "transcribing"))
      BY <2>1, <2>5 DEF Patch
    <3>2. status[s] \notin {"transcribing", "transcribing_failed"}
      BY <3>1, TransitionsAssumption DEF Accepts
    <3>. QED  BY <2>2, <3>1, <3>2
  <2>. QED  BY <2>3, <2>4, <2>5 DEF Replies
<1>6. CASE Collect(r)
  <2>1. UNCHANGED <<status, gaveUp>> /\ runner[r].pc = "collect"  BY <1>6 DEF Collect
  <2>2. \E pc \in {"produce", "mark", "failed", "misconfigured"} : Enter(r, pc)
    BY <1>6 DEF Collect
  <2>3. runner'[r].pc \in ClaimedPCs  BY <1>1, <1>2, <2>2 DEF ClaimedPCs
  <2>. QED  BY <2>1, <2>3 DEF FailedPCs
<1>7. CASE Produce(r)
  <2>1. UNCHANGED <<status, gaveUp>> /\ runner[r].pc = "produce"  BY <1>7 DEF Produce
  <2>2. \E pc \in {"mark", "failed"} : Enter(r, pc)  BY <1>7 DEF Produce
  <2>3. runner'[r].pc \in ClaimedPCs  BY <1>1, <1>2, <2>2 DEF ClaimedPCs
  <2>. QED  BY <2>1, <2>3 DEF FailedPCs
<1>8. CASE Mark(r)
  <2>1. PICK reply \in Replies : /\ Patch(s, "transcribed", reply)
                                 /\ Enter(r, AfterMark(reply))
    BY <1>8 DEF Mark
  <2>2. \A q \in Sessions \ {s} : status'[q] = status[q] /\ gaveUp'[q] = gaveUp[q]
    BY <1>0, <1>8, <2>1 DEF Patch, Mark
  <2>3. CASE reply = "ok"
    BY <1>0, <2>1, <2>2, <2>3 DEF Patch
  <2>4. CASE reply = "error"
    <3>1. AfterMark(reply) = "failed"  BY <2>4 DEF AfterMark
    <3>2. runner'[r].pc = "failed"  BY <1>1, <1>2, <2>1, <3>1
    <3>. QED  BY <2>2, <3>2 DEF FailedPCs
  <2>5. CASE reply \in {"conflict", "notFound"}
    <3>1. /\ UNCHANGED <<status, gaveUp>>
          /\ status[s] = "deleted" \/ ~Accepts(s, "transcribed")
      BY <1>8, <2>1, <2>5 DEF Patch, Mark
    <3>2. status[s] # "transcribing"
      BY <3>1, TransitionsAssumption DEF Accepts
    <3>3. runner[r].pc \notin FailedPCs  BY <1>8 DEF Mark, FailedPCs
    <3>. QED  BY <2>2, <3>1, <3>2, <3>3
  <2>. QED  BY <2>3, <2>4, <2>5 DEF Replies
<1>. QED  BY <1>3, <1>4, <1>5, <1>6, <1>7, <1>8 DEF RunnerStep

LEMMA CoverRunnerStep ==
    ASSUME TypeOK, HandleInv, RowsInv, NoRerunYet, NEW r \in Slots, RunnerStep(r),
           NEW s \in Sessions, CoverOf(s)
    PROVE  CoverOf(s)'
<1>1. /\ UNCHANGED <<retryq, loop>>
      /\ runner[r].pc # "free" /\ runner[r].joined
      /\ \A q \in Slots \ {r} : runner'[q] = runner[q]
      /\ runner'[r].session = runner[r].session
      /\ runner'[r].joined
  BY RunnerFrame DEF RowsInv, NoAbortYet
<1>2. RetryQueued(s)' = RetryQueued(s)  BY <1>1 DEF RetryQueued
<1>3. ASSUME NEW pcs, runner[r].session = s =>
                  (runner[r].pc \in pcs => runner'[r].pc \in pcs)
      PROVE  Watched(s, pcs) => Watched(s, pcs)'
  BY <1>1, <1>3 DEF Watched
<1>4. ASSUME NEW pcs, runner[r].session = s, runner'[r].pc \in pcs
      PROVE  Watched(s, pcs)'
  BY <1>1, <1>4 DEF Watched
<1>5. CASE runner[r].session # s
  <2>1. status'[s] = status[s] /\ gaveUp'[s] = gaveUp[s]
    BY <1>5, RunnerOutlook DEF RowsInv
  <2>. QED  BY <1>1, <1>2, <1>3, <1>5, <2>1 DEF CoverOf
<1>6. CASE runner[r].session = s
  <2>1. \/ status'[s] \notin {"transcribing", "transcribing_failed"}
        \/ status'[s] = "transcribing" /\ runner'[r].pc \in ClaimedPCs
        \/ runner'[r].pc \in FailedPCs
        \/ /\ status'[s] = status[s] /\ gaveUp'[s] = gaveUp[s]
           /\ runner[r].pc \notin FailedPCs
           /\ status[s] = "transcribing" =>
                (runner[r].pc \in ClaimedPCs => runner'[r].pc \in ClaimedPCs)
    BY <1>6, RunnerOutlook DEF RowsInv
  <2>2. CASE status'[s] \notin {"transcribing", "transcribing_failed"}
    BY <2>2 DEF CoverOf
  <2>3. CASE status'[s] = "transcribing" /\ runner'[r].pc \in ClaimedPCs
    BY <1>4, <1>6, <2>3 DEF CoverOf
  <2>4. CASE runner'[r].pc \in FailedPCs
    <3>1. runner'[r].pc \in ClaimedPCs  BY <2>4 DEF FailedPCs, ClaimedPCs
    <3>2. Watched(s, FailedPCs)' /\ Watched(s, ClaimedPCs)'  BY <1>4, <1>6, <2>4, <3>1
    <3>3. Watched(s, FailedPCs)' => CoverOf(s)' \/ status'[s] = "transcribing"
      BY DEF CoverOf
    <3>. QED  BY <3>2 DEF CoverOf
  <2>5. CASE /\ status'[s] = status[s] /\ gaveUp'[s] = gaveUp[s]
             /\ runner[r].pc \notin FailedPCs
             /\ status[s] = "transcribing" =>
                  (runner[r].pc \in ClaimedPCs => runner'[r].pc \in ClaimedPCs)
    <3>1. Watched(s, FailedPCs) => Watched(s, FailedPCs)'  BY <1>3, <2>5
    <3>2. status[s] = "transcribing" /\ Watched(s, ClaimedPCs) => Watched(s, ClaimedPCs)'
      BY <1>3, <2>5
    <3>. QED  BY <1>1, <1>2, <2>5, <3>1, <3>2 DEF CoverOf
  <2>. QED  BY <2>1, <2>2, <2>3, <2>4, <2>5
<1>. QED  BY <1>5, <1>6

(* A step of the loop loses a runner that answers for a session only when  *)
(* it reaps it.                                                            *)
LEMMA WatchedPersists ==
    ASSUME TypeOK, HandleInv, NoRerunYet, NoAbortYet, LoopStep,
           ~AdminBranch, ~JoinBranch,
           NEW s, NEW pcs \in {FailedPCs, ClaimedPCs}
    PROVE  Watched(s, pcs) => Watched(s, pcs)'
<1>1. SUFFICES ASSUME NEW r \in Slots, runner[r].session = s, runner[r].joined,
                      runner[r].pc \in pcs
               PROVE  /\ runner'[r].session = s
                      /\ runner'[r].joined
                      /\ runner'[r].pc \in pcs
  BY DEF Watched
<1>2. runner[r].pc # "free"  BY <1>1 DEF FailedPCs, ClaimedPCs
<1>3. /\ runner'[r].session = runner[r].session
      /\ runner'[r].joined = runner[r].joined
      /\ runner'[r].pc = runner[r].pc
  BY <1>2, LoopFrame DEF JoinBranch
<1>. QED  BY <1>1, <1>3

(* Reaping a runner keeps its session covered: a failed run is followed by *)
(* a retry, or the schedule is exhausted.                                  *)
LEMMA CoverCompletion ==
    ASSUME TypeOK, HandleInv, NEW r \in Slots, OnRunnerComplete(r),
           NEW s \in Sessions, CoverOf(s)
    PROVE  CoverOf(s)'
<1>. DEFINE t == runner[r].session
<1>0. /\ runner[r] \in RunnerRecord /\ runner[r].pc \in Terminal /\ t \in Sessions
      /\ loop.pc = "select" /\ loop' = loop
      /\ AfterOutcome(r)
      /\ status \in [Sessions -> Status] /\ gaveUp \in [Sessions -> Reasons]
      /\ retryq \in [Sessions -> [1 .. Backoffs -> Nat]]
  BY DEF OnRunnerComplete, InSelect, TypeOK, HandleInv, SessionsNamed, Terminal
<1>1. \A q \in Slots \ {r} : runner'[q] = runner[q]
  BY DEF OnRunnerComplete, TypeOK
<1>2. ASSUME NEW pcs, t # s \/ runner[r].pc \notin pcs
      PROVE  Watched(s, pcs) => Watched(s, pcs)'
  BY <1>1, <1>2 DEF Watched
<1>3. CASE runner[r].pc \in {"ok", "lost"}
  <2>1. UNCHANGED <<status, retryq, gaveUp>>  BY <1>0, <1>3 DEF AfterOutcome
  <2>2. runner[r].pc \notin FailedPCs /\ runner[r].pc \notin ClaimedPCs
    BY <1>3 DEF FailedPCs, ClaimedPCs
  <2>. QED  BY <1>0, <1>2, <2>1, <2>2 DEF CoverOf, RetryQueued
<1>4. CASE runner[r].pc = "misconfigured"
  <2>1. gaveUp' = [gaveUp EXCEPT ![t] = "misconfigured"] /\ UNCHANGED <<status, retryq>>
    BY <1>0, <1>4 DEF AfterOutcome
  <2>2. CASE t = s  BY <1>0, <2>1, <2>2 DEF CoverOf
  <2>3. CASE t # s
    <3>1. gaveUp'[s] = gaveUp[s]  BY <1>0, <2>1, <2>3
    <3>. QED  BY <1>0, <1>2, <2>1, <2>3, <3>1 DEF CoverOf, RetryQueued
  <2>. QED  BY <2>2, <2>3
<1>5. CASE runner[r].pc = "failed"
  <2>. DEFINE k == runner[r].attempt + 1
  <2>1. FailedRun(t, runner[r].attempt)  BY <1>0, <1>5 DEF AfterOutcome
  <2>2. CASE t = s
    <3>1. CASE k <= Backoffs
      <4>1. retryq' = [retryq EXCEPT ![s][k] = @ + 1]
        BY <2>1, <2>2, <3>1 DEF FailedRun, Schedule
      <4>2. k \in 1 .. Backoffs
        BY <1>0, <3>1, ConstantsAssumption DEF RunnerRecord
      <4>. HIDE DEF k
      <4>3. retryq'[s][k] = retryq[s][k] + 1  BY <1>0, <4>1, <4>2
      <4>4. retryq[s][k] \in Nat  BY <1>0, <4>2
      <4>5. retryq'[s][k] > 0  BY <4>3, <4>4
      <4>6. RetryQueued(s)'  BY <4>2, <4>5 DEF RetryQueued
      <4>. QED  BY <4>6 DEF CoverOf
    <3>2. CASE ~(k <= Backoffs)
      <4>1. gaveUp' = [gaveUp EXCEPT ![s] = "exhausted"]
        BY <2>1, <2>2, <3>2 DEF FailedRun, Schedule
      <4>. QED  BY <1>0, <4>1 DEF CoverOf
    <3>. QED  BY <3>1, <3>2
  <2>3. CASE t # s
    <3>1. status'[s] = status[s]
      BY <1>0, <2>1, <2>3 DEF FailedRun, Patch
    <3>2. retryq'[s] = retryq[s] /\ gaveUp'[s] = gaveUp[s]
      BY <1>0, <2>1, <2>3 DEF FailedRun, Schedule
    <3>. QED  BY <1>0, <1>2, <2>3, <3>1, <3>2 DEF CoverOf, RetryQueued
  <2>. QED  BY <2>2, <2>3
<1>. QED  BY <1>0, <1>3, <1>4, <1>5 DEF Terminal

LEMMA CoverLoopStep ==
    ASSUME TypeOK, HandleInv, RowsInv, NoRerunYet, LoopStep, ~AdminBranch,
           NEW s \in Sessions, CoverOf(s)
    PROVE  CoverOf(s)'
<1>1. CASE JoinBranch  BY <1>1, CoverCompletion DEF JoinBranch
<1>2. SUFFICES ASSUME ~JoinBranch  PROVE CoverOf(s)'  BY <1>1
<1>3. /\ Watched(s, FailedPCs) => Watched(s, FailedPCs)'
      /\ Watched(s, ClaimedPCs) => Watched(s, ClaimedPCs)'
  BY <1>2, WatchedPersists DEF RowsInv
<1>4. ASSUME NEW r \in Slots, NEW k, runner'[r] = Spawned(s, k, "oneshot")
      PROVE  Watched(s, FailedPCs)' /\ Watched(s, ClaimedPCs)'
  <2>1. /\ runner'[r].session = s
        /\ runner'[r].joined
        /\ runner'[r].pc = "claim"
    BY <1>4 DEF Spawned
  <2>. QED  BY <2>1 DEF Watched, FailedPCs, ClaimedPCs
<1>5. CASE StartupOrphans
  <2>1. UNCHANGED <<status, retryq>>  BY <1>5 DEF StartupOrphans
  <2>2. CASE SpawnAll(Listed("transcribing")) /\ UNCHANGED gaveUp
    <3>1. ASSUME status[s] = "transcribing"  PROVE Watched(s, ClaimedPCs)'
      <4>1. s \in Listed("transcribing") /\ Listed("transcribing") \in SUBSET Sessions
        BY <3>1 DEF Listed
      <4>2. PICK slotOf \in [Listed("transcribing") -> FreeSlots] :
                \A q \in Listed("transcribing") :
                    runner'[slotOf[q]] = Spawned(q, 1, "oneshot")
        BY <2>2, <4>1, SpawnAllFacts
      <4>3. slotOf[s] \in Slots /\ runner'[slotOf[s]] = Spawned(s, 1, "oneshot")
        BY <4>1, <4>2 DEF FreeSlots
      <4>. QED  BY <1>4, <4>3
    <3>. QED  BY <1>3, <2>1, <2>2, <3>1 DEF CoverOf, RetryQueued
  <2>3. CASE gaveUp' = [q \in Sessions |->
                IF status[q] = "transcribing" THEN "unlisted" ELSE gaveUp[q]]
    <3>1. gaveUp'[s] = IF status[s] = "transcribing" THEN "unlisted" ELSE gaveUp[s]
      BY <2>3
    <3>. QED  BY <1>3, <2>1, <3>1 DEF CoverOf, RetryQueued
  <2>. QED  BY <1>5, <2>2, <2>3 DEF StartupOrphans
<1>6. CASE StartupUploaded \/ PollReconcile \/ WsBranch \/ CompleteSend \/ ClearAndSpawn
  <2>1. /\ UNCHANGED <<status, retryq, gaveUp>>
        /\ loop.pc # "startup_orphans"
    BY <1>6 DEF StartupUploaded, PollReconcile, WsBranch, OnSessionUploaded,
               OnChunkUploaded, CompleteSend, ClearAndSpawn, InSelect
  <2>. QED  BY <1>3, <2>1 DEF CoverOf, RetryQueued
<1>7. ASSUME NEW q \in Sessions, NEW k \in 1 .. Backoffs, HandleRetry(q, k)
      PROVE  CoverOf(s)'
  <2>1. /\ UNCHANGED <<status, gaveUp>> /\ loop.pc # "startup_orphans"
        /\ retryq' = [retryq EXCEPT ![q][k] = @ - 1]
        /\ Spawn(q, k, "oneshot")
    BY <1>7 DEF HandleRetry, InSelect
  <2>2. CASE q = s
    <3>1. k \in Nat /\ "oneshot" \in Modes  BY ConstantsAssumption DEF Modes
    <3>2. NewSlot \in Slots /\ runner'[NewSlot] = Spawned(s, k, "oneshot")
      BY <2>1, <2>2, <3>1, SpawnFrame
    <3>. QED  BY <1>4, <3>2 DEF CoverOf
  <2>3. CASE q # s
    <3>1. retryq'[s] = retryq[s]  BY <2>1, <2>3 DEF TypeOK
    <3>. QED  BY <1>3, <2>1, <3>1 DEF CoverOf, RetryQueued
  <2>. QED  BY <2>2, <2>3
<1>. QED  BY <1>2, <1>5, <1>6, <1>7 DEF LoopStep, RetryBranch, OwnStep

LEMMA CoverNext ==
    ASSUME TypeOK, HandleInv, RowsInv, CoverInv, [Next]_vars
    PROVE  CoverInv'
<1>1. SUFFICES ASSUME NoRerunYet, ~AdminBranch, NEW s \in Sessions, CoverOf(s)
               PROVE  CoverOf(s)'
  BY RerunsCountedNext DEF RowsInv, CoverInv
<1>2. CASE UNCHANGED vars
  BY <1>1, <1>2 DEF vars, CoverOf, Watched, RetryQueued
<1>3. CASE EnvStep
  <2>1. /\ UNCHANGED <<runner, retryq, loop, gaveUp>>
        /\ status'[s] \in {status[s], "uploaded", "deleted"}
    BY <1>3 DEF EnvStep, UploadChunk, FinishRecording, LoseEvent, RepeatEvent,
                DeleteSession, EnvUnchanged, TypeOK
  <2>. QED  BY <1>1, <2>1 DEF CoverOf, Watched, RetryQueued
<1>4. CASE Crash
  <2>1. /\ status' = status
        /\ loop'.pc = "startup_orphans"
        /\ status[s] = "transcribing_failed" => gaveUp'[s] = "restart"
    BY <1>4 DEF Crash, LoopAt
  <2>. QED  BY <2>1 DEF CoverOf
<1>. QED  BY <1>1, <1>2, <1>3, <1>4, CoverRunnerStep, CoverLoopStep DEF Next

(* Until a rerun is issued no claimed session is forgotten, for any number *)
(* of sessions and runners and any schedule, whatever fails and however    *)
(* often the process restarts (event_loop.rs:114-140, 318-357).            *)
THEOREM NoSessionOrphaned == Spec => []NoOrphanedSession
<1>1. Init => TypeOK /\ HandleInv /\ RowsInv /\ CoverInv
  BY InitType, HandleInit, RowsInit, CoverInit
<1>2. TypeOK /\ HandleInv /\ RowsInv /\ CoverInv /\ [Next]_vars
         => (TypeOK /\ HandleInv /\ RowsInv /\ CoverInv)'
  BY NextType, HandleNext, RowsNext, CoverNext
<1>3. CoverInv => NoOrphanedSession  BY CoverMeansCovered
<1>. QED  BY <1>1, <1>2, <1>3, PTL DEF Spec

(* All the invariants together (event_loop.rs:236-357): the formula run    *)
(* "two" checks on a small instance holds on every one.                    *)
THEOREM InvariantHolds == Spec => []IInv
<1>1. Init => TypeOK /\ HandleInv /\ RowsInv /\ CoverInv
  BY InitType, HandleInit, RowsInit, CoverInit
<1>2. TypeOK /\ HandleInv /\ RowsInv /\ CoverInv /\ [Next]_vars
         => (TypeOK /\ HandleInv /\ RowsInv /\ CoverInv)'
  BY NextType, HandleNext, RowsNext, CoverNext
<1>3. TypeOK /\ HandleInv /\ RowsInv /\ CoverInv => IInv
  BY CoverMeansCovered DEF IInv, HandleInv, RowsInv
<1>. QED  BY <1>1, <1>2, <1>3, PTL DEF Spec
=============================================================================
