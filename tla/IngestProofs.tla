---------------------------- MODULE IngestProofs ----------------------------
(***************************************************************************)
(* Theorems about StreamingIngest for every choice of its constants.       *)
(***************************************************************************)
EXTENDS StreamingIngest, SequenceTheorems, FiniteSetTheorems, WellFoundedInduction,
        TLAPS

(* ------------------------ the building blocks -------------------------- *)

(* Every set of natural numbers that is not empty has a least element.     *)
LEMMA LeastNat ==
    ASSUME NEW T \in SUBSET Nat, T # {}
    PROVE  \E m \in T : \A k \in T : m <= k
<1>. DEFINE R == OpToRel(<, Nat)
<1>1. IsWellFoundedOn(R, Nat)  BY NatLessThanWellFounded
<1>2. \A x, y \in Nat : y < x => <<y, x>> \in R  BY Zenon DEF OpToRel
<1>. HIDE DEF R
<1>3. PICK m \in T : \A y \in T : <<y, m>> \notin R  BY <1>1, WFMin
<1>4. \A y \in T : ~(y < m)  BY <1>2, <1>3
<1>. QED  BY <1>4

(* FirstGap returns what its CHOOSE asks for, and never goes past the      *)
(* limit on numbers.                                                       *)
LEMMA FirstGapFacts ==
    ASSUME NEW buf \in SUBSET Numbers, NEW n \in 0 .. ChunkLimit
    PROVE  /\ FirstGap(n, buf) \in n .. ChunkLimit
           /\ FirstGap(n, buf) \notin buf
           /\ \A k \in n .. FirstGap(n, buf) - 1 : k \in buf
<1>. DEFINE T == {m \in n .. ChunkLimit : m \notin buf}
<1>0. ChunkLimit \in Nat  BY IngestAssumption
<1>1. ChunkLimit \in T  BY <1>0 DEF Numbers
<1>2. T \in SUBSET Nat  BY <1>0
<1>. HIDE DEF T
<1>3. PICK m \in T : \A k \in T : m <= k  BY <1>1, <1>2, LeastNat
<1>4. /\ m \in n .. ChunkLimit /\ m \notin buf
      /\ \A k \in n .. m - 1 : k \in buf
  <2>1. ASSUME NEW k \in n .. m - 1  PROVE k \in buf
    <3>1. k \notin T  BY <1>2, <1>3
    <3>2. k \in n .. ChunkLimit  BY <1>0, <1>3 DEF T
    <3>. QED  BY <3>1, <3>2 DEF T
  <2>. QED  BY <1>3, <2>1 DEF T
<1>. QED  BY <1>4 DEF FirstGap

LEMMA CommandsDiffer ==
    \A sp, seq : /\ Ingest(sp, seq) # Finalize
                 /\ Ingest(sp, seq).speaker = sp
                 /\ Ingest(sp, seq).seq = seq
  BY DEF Ingest, Finalize

(* One IngestChunk, case by case.                                          *)
LEMMA IngestCases ==
    ASSUME TypeOK, IngestOne
    PROVE  \E sp \in Speakers, seq \in Numbers :
              /\ pc = "recv" /\ channel # <<>> /\ Head(channel) = Ingest(sp, seq)
              /\ channel' = Tail(channel)
              /\ UNCHANGED <<recording, uploaded, pc>>
              /\ \/ seq \in processed[sp] /\ Skip /\ UNCHANGED budget
                 \/ seq \notin processed[sp] /\ Skip /\ Spend("fault")
                 \/ Buffer(sp, seq) /\ seq \notin processed[sp]
                 \/ Feed(sp, seq)
<1>1. /\ pc = "recv" /\ channel # <<>> /\ Head(channel) # Finalize
      /\ channel' = Tail(channel)
      /\ UNCHANGED <<recording, uploaded, pc>>
  BY DEF IngestOne
<1>2. Head(channel) \in IngestCommands  BY <1>1 DEF TypeOK
<1>3. PICK sp \in Speakers, seq \in Numbers : Head(channel) = Ingest(sp, seq)
  BY <1>2 DEF IngestCommands
<1>4. Head(channel).speaker = sp /\ Head(channel).seq = seq  BY <1>3, CommandsDiffer
<1>. QED  BY <1>1, <1>3, <1>4 DEF IngestOne

(* What a feed does to the bookkeeping of its speaker.                     *)
LEMMA FeedOrder ==
    ASSUME TypeOK, NEW sp \in Speakers, NEW seq \in Numbers, Feed(sp, seq)
    PROVE  /\ seq = next[sp]
           /\ \E end \in seq + 1 .. ChunkLimit :
                 /\ end \notin pending[sp]
                 /\ \A k \in seq + 1 .. end - 1 : k \in pending[sp]
                 /\ next' = [next EXCEPT ![sp] = end]
                 /\ pending' = [pending EXCEPT ![sp] = @ \ (seq .. end - 1)]
                 /\ processed' = [processed EXCEPT ![sp] = @ \cup (seq .. end - 1)]
                 /\ fed' = [fed EXCEPT ![sp] = @ \o Run(seq, end)]
<1>. DEFINE end == FirstGap(seq + 1, pending[sp])
<1>1. ChunkLimit \in Nat  BY IngestAssumption
<1>2. pending[sp] \in SUBSET Numbers /\ seq + 1 \in 0 .. ChunkLimit
  BY <1>1 DEF TypeOK, Numbers
<1>3. /\ end \in seq + 1 .. ChunkLimit
      /\ end \notin pending[sp]
      /\ \A k \in seq + 1 .. end - 1 : k \in pending[sp]
  BY <1>2, FirstGapFacts
<1>4. /\ seq = next[sp]
      /\ next' = [next EXCEPT ![sp] = end]
      /\ pending' = [pending EXCEPT ![sp] = @ \ (seq .. end - 1)]
      /\ processed' = [processed EXCEPT ![sp] = @ \cup (seq .. end - 1)]
      /\ fed' = [fed EXCEPT ![sp] = @ \o Run(seq, end)]
  BY DEF Feed
<1>. HIDE DEF end
<1>. QED  BY <1>3, <1>4

(* What a feed does to the outputs.                                        *)
LEMMA FeedOutput ==
    ASSUME TypeOK, NEW sp \in Speakers, NEW seq \in Numbers, Feed(sp, seq)
    PROVE  /\ heard' \subseteq Chunks /\ posted' \subseteq Chunks /\ store' \subseteq Chunks
           /\ posted \subseteq store => posted' \subseteq store'
           /\ UNCHANGED budget \/ Spend("fault")
<1>1. PICK end \in seq + 1 .. ChunkLimit : end = FirstGap(seq + 1, pending[sp])
  <2>1. ChunkLimit \in Nat  BY IngestAssumption
  <2>2. pending[sp] \in SUBSET Numbers /\ seq + 1 \in 0 .. ChunkLimit
    BY <2>1 DEF TypeOK, Numbers
  <2>. QED  BY <2>2, FirstGapFacts
<1>. DEFINE audible == {c \in {sp} \X (seq .. end - 1) : c \notin Silent}
<1>2. audible \subseteq Chunks
  <2>1. seq .. end - 1 \subseteq Numbers  BY <1>1, IngestAssumption DEF Numbers
  <2>. QED  BY <2>1 DEF Chunks
<1>3. /\ \E refused \in SUBSET audible : heard' = heard \cup (audible \ refused)
      /\ \E out \in SUBSET heard' : WriteAll(out) \/ WriteFails(out)
      /\ UNCHANGED budget \/ Spend("fault")
  <2>1. audible \ {} = audible  OBVIOUS
  <2>. HIDE DEF audible
  <2>2. \/ /\ heard' = heard \cup audible
           /\ \E out \in Emitted(heard') : WriteAll(out)
           /\ UNCHANGED budget
        \/ /\ Spend("fault")
           /\ \E refused \in SUBSET audible : heard' = heard \cup (audible \ refused)
           /\ \E out \in Emitted(heard') : WriteAll(out) \/ WriteFails(out)
    BY <1>1 DEF Feed, audible
  <2>. QED  BY <2>1, <2>2 DEF Emitted
<1>. HIDE DEF audible
<1>4. heard' \subseteq Chunks  BY <1>2, <1>3 DEF TypeOK
<1>5. PICK out \in SUBSET heard' : WriteAll(out) \/ WriteFails(out)  BY <1>3
<1>. QED  BY <1>3, <1>4, <1>5 DEF WriteAll, WriteFails, TypeOK
(* --------------------------- type correctness -------------------------- *)

(* A channel of commands stays one when a command leaves or joins it.      *)
LEMMA ChannelType ==
    ASSUME NEW C, NEW ch \in Seq(C)
    PROVE  /\ <<>> \in Seq(C)
           /\ \A c \in C : Append(ch, c) \in Seq(C)
           /\ ch # <<>> => /\ Tail(ch) \in Seq(C)
                          /\ SubSeq(ch, 1, Len(ch) - 1) \in Seq(C)
<1>1. <<>> \in Seq(C)  OBVIOUS
<1>2. \A c \in C : Append(ch, c) \in Seq(C)  OBVIOUS
<1>3. ASSUME ch # <<>>  PROVE Tail(ch) \in Seq(C)  BY <1>3
<1>4. ASSUME ch # <<>>  PROVE SubSeq(ch, 1, Len(ch) - 1) \in Seq(C)
  BY <1>4, \A i \in 1 .. Len(ch) - 1 : ch[i] \in C
<1>. QED  BY <1>1, <1>2, <1>3, <1>4

LEMMA SpendType ==
    ASSUME TypeOK, NEW k \in DisturbanceKinds, Spend(k)
    PROVE  budget' \in [DisturbanceKinds -> Nat]
<1>1. budget \in [DisturbanceKinds -> Nat] /\ budget[k] \in Nat /\ budget[k] - 1 \in Nat
  BY DEF TypeOK, Spend
<1>. QED  BY <1>1 DEF Spend

LEMMA KindsOfDisturbance ==
    /\ "fault" \in DisturbanceKinds /\ "loss" \in DisturbanceKinds
    /\ "repeat" \in DisturbanceKinds /\ "restart" \in DisturbanceKinds
  BY DEF DisturbanceKinds

(* What a feed appends.                                                    *)
LEMMA RunFacts ==
    ASSUME NEW from \in Nat, NEW to \in Nat, from <= to, to <= ChunkLimit
    PROVE  /\ Run(from, to) \in Seq(Numbers)
           /\ Len(Run(from, to)) = to - from
           /\ \A i \in 1 .. to - from : Run(from, to)[i] = from + i - 1
<1>1. ChunkLimit \in Nat  BY IngestAssumption
<1>2. \A i \in 1 .. to - from : from + i - 1 \in Numbers  BY <1>1 DEF Numbers
<1>3. Run(from, to) \in [1 .. to - from -> Numbers]  BY <1>2 DEF Run
<1>4. to - from \in Nat  OBVIOUS
<1>. QED  BY <1>3, <1>4 DEF Run

LEMMA FeedType ==
    ASSUME TypeOK, NEW sp \in Speakers, NEW seq \in Numbers, Feed(sp, seq)
    PROVE  /\ processed' \in [Speakers -> SUBSET Numbers]
           /\ pending' \in [Speakers -> SUBSET Numbers]
           /\ next' \in [Speakers -> 0 .. ChunkLimit]
           /\ fed' \in [Speakers -> Seq(Numbers)]
<1>1. PICK end \in seq + 1 .. ChunkLimit :
         /\ next' = [next EXCEPT ![sp] = end]
         /\ pending' = [pending EXCEPT ![sp] = @ \ (seq .. end - 1)]
         /\ processed' = [processed EXCEPT ![sp] = @ \cup (seq .. end - 1)]
         /\ fed' = [fed EXCEPT ![sp] = @ \o Run(seq, end)]
  BY FeedOrder
<1>2. ChunkLimit \in Nat /\ seq \in Nat /\ end \in Nat /\ end \in 0 .. ChunkLimit
  BY <1>1, IngestAssumption DEF Numbers
<1>3. seq .. end - 1 \subseteq Numbers  BY <1>2 DEF Numbers
<1>4. Run(seq, end) \in Seq(Numbers)
  BY <1>1, <1>2, RunFacts
<1>5. fed[sp] \in Seq(Numbers)  BY DEF TypeOK
<1>6. fed[sp] \o Run(seq, end) \in Seq(Numbers)  BY <1>4, <1>5
<1>7. processed' \in [Speakers -> SUBSET Numbers]  BY <1>1, <1>3 DEF TypeOK
<1>8. pending' \in [Speakers -> SUBSET Numbers]  BY <1>1 DEF TypeOK
<1>9. next' \in [Speakers -> 0 .. ChunkLimit]  BY <1>1, <1>2 DEF TypeOK
<1>10. fed' \in [Speakers -> Seq(Numbers)]  BY <1>1, <1>6 DEF TypeOK
<1>. QED  BY <1>7, <1>8, <1>9, <1>10

LEMMA TypeInit == Init => TypeOK
<1>. SUFFICES ASSUME Init  PROVE TypeOK  OBVIOUS
<1>1. ChunkLimit \in Nat /\ Budget \in [DisturbanceKinds -> Nat]  BY IngestAssumption
<1>2. next \in [Speakers -> 0 .. ChunkLimit]  BY <1>1 DEF Init
<1>3. fed \in [Speakers -> Seq(Numbers)]  BY DEF Init
<1>. QED  BY <1>1, <1>2, <1>3 DEF Init, TypeOK

LEMMA TypeNext == TypeOK /\ [Next]_ingestVars => TypeOK'
<1>. SUFFICES ASSUME TypeOK, [Next]_ingestVars  PROVE TypeOK'  OBVIOUS
<1>. DEFINE Commands == IngestCommands \cup {Finalize}
<1>t. channel \in Seq(Commands)  BY DEF TypeOK
<1>1. ASSUME NEW sp \in Speakers, NEW seq \in Numbers, Upload(sp, seq)  PROVE TypeOK'
  <2>1. Ingest(sp, seq) \in Commands  BY DEF IngestCommands
  <2>. HIDE DEF Commands
  <2>2. channel' \in Seq(Commands)  BY <1>1, <1>t, <2>1, ChannelType DEF Upload
  <2>3. uploaded' \in [Speakers -> SUBSET Numbers]  BY <1>1 DEF Upload, TypeOK
  <2>. QED  BY <1>1, <2>2, <2>3 DEF Upload, TypeOK, orderVars, outputVars, Commands
<1>2. ASSUME EndRecording  PROVE TypeOK'
  <2>1. Finalize \in Commands  OBVIOUS
  <2>. HIDE DEF Commands
  <2>2. channel' \in Seq(Commands)  BY <1>2, <1>t, <2>1, ChannelType DEF EndRecording
  <2>. QED  BY <1>2, <2>2 DEF EndRecording, TypeOK, orderVars, outputVars, Commands
<1>3. ASSUME LoseAnnouncement  PROVE TypeOK'
  <2>. HIDE DEF Commands
  <2>1. channel' \in Seq(Commands)  BY <1>3, <1>t, ChannelType DEF LoseAnnouncement
  <2>2. budget' \in [DisturbanceKinds -> Nat]
    BY <1>3, SpendType, KindsOfDisturbance DEF LoseAnnouncement
  <2>. QED  BY <1>3, <2>1, <2>2 DEF LoseAnnouncement, TypeOK, orderVars, outputVars, Commands
<1>4. ASSUME RepeatAnnouncement  PROVE TypeOK'
  <2>1. PICK sp \in Speakers : \E seq \in uploaded[sp] :
            channel' = Append(channel, Ingest(sp, seq))
    BY <1>4 DEF RepeatAnnouncement
  <2>2. PICK seq \in Numbers : channel' = Append(channel, Ingest(sp, seq))
    BY <2>1 DEF TypeOK
  <2>3. Ingest(sp, seq) \in Commands  BY DEF IngestCommands
  <2>. HIDE DEF Commands
  <2>4. channel' \in Seq(Commands)  BY <1>t, <2>2, <2>3, ChannelType
  <2>5. budget' \in [DisturbanceKinds -> Nat]
    BY <1>4, SpendType, KindsOfDisturbance DEF RepeatAnnouncement
  <2>. QED  BY <1>4, <2>4, <2>5 DEF RepeatAnnouncement, TypeOK, orderVars, outputVars, Commands
<1>5. ASSUME StartRunner  PROVE TypeOK'
  BY <1>5 DEF StartRunner, TypeOK, orderVars, outputVars
<1>6. ASSUME IngestOne  PROVE TypeOK'
  <2>1. PICK sp \in Speakers, seq \in Numbers :
          /\ channel # <<>> /\ channel' = Tail(channel)
          /\ UNCHANGED <<recording, uploaded, pc>>
          /\ \/ Skip /\ UNCHANGED budget
             \/ Skip /\ Spend("fault")
             \/ Buffer(sp, seq)
             \/ Feed(sp, seq)
    BY <1>6, IngestCases
  <2>. HIDE DEF Commands
  <2>2. channel' \in Seq(Commands)  BY <1>t, <2>1, ChannelType
  <2>3. CASE Skip /\ UNCHANGED budget
    BY <2>1, <2>2, <2>3 DEF Skip, TypeOK, orderVars, outputVars, Commands
  <2>4. CASE Skip /\ Spend("fault")
    <3>1. budget' \in [DisturbanceKinds -> Nat]  BY <2>4, SpendType, KindsOfDisturbance
    <3>. QED  BY <2>1, <2>2, <2>4, <3>1 DEF Skip, TypeOK, orderVars, outputVars, Commands
  <2>5. CASE Buffer(sp, seq)
    <3>1. pending' \in [Speakers -> SUBSET Numbers]  BY <2>5 DEF Buffer, TypeOK
    <3>. QED  BY <2>1, <2>2, <2>5, <3>1 DEF Buffer, TypeOK, outputVars, Commands
  <2>6. CASE Feed(sp, seq)
    <3>1. budget' \in [DisturbanceKinds -> Nat]
      BY <2>6, FeedOutput, SpendType, KindsOfDisturbance DEF TypeOK
    <3>2. heard' \subseteq Chunks /\ posted' \subseteq Chunks /\ store' \subseteq Chunks
      BY <2>6, FeedOutput
    <3>3. /\ processed' \in [Speakers -> SUBSET Numbers]
          /\ pending' \in [Speakers -> SUBSET Numbers]
          /\ next' \in [Speakers -> 0 .. ChunkLimit]
          /\ fed' \in [Speakers -> Seq(Numbers)]
      BY <2>6, FeedType
    <3>. QED  BY <2>1, <2>2, <3>1, <3>2, <3>3 DEF TypeOK, Commands
  <2>. QED  BY <2>1, <2>3, <2>4, <2>5, <2>6
<1>7. ASSUME TakeFinalize  PROVE TypeOK'
  BY <1>7, <1>t, ChannelType DEF TakeFinalize, TypeOK, orderVars, outputVars
<1>8. ASSUME WriteFinal  PROVE TypeOK'
  <2>1. budget' \in [DisturbanceKinds -> Nat]
    BY <1>8, SpendType, KindsOfDisturbance DEF WriteFinal, TypeOK
  <2>2. pc' \in {"done", "handed"} /\ (WriteAll(Finalized) \/ WriteFails(Finalized))
    BY <1>8 DEF WriteFinal
  <2>3. posted' \subseteq Chunks /\ store' \subseteq Chunks
    BY <2>2 DEF WriteAll, WriteFails, Finalized, TypeOK
  <2>. QED  BY <1>8, <2>1, <2>2, <2>3 DEF WriteFinal, TypeOK, orderVars
<1>9. ASSUME Restart  PROVE TypeOK'
  <2>1. budget' \in [DisturbanceKinds -> Nat]
    BY <1>9, SpendType, KindsOfDisturbance DEF Restart
  <2>2. next' \in [Speakers -> 0 .. ChunkLimit]
    BY <1>9, IngestAssumption DEF Restart, FreshRunner
  <2>3. fed' \in [Speakers -> Seq(Numbers)]  BY <1>9 DEF Restart, FreshRunner
  <2>4. /\ processed' \in [Speakers -> SUBSET Numbers]
        /\ pending' \in [Speakers -> SUBSET Numbers]
        /\ heard' \subseteq Chunks /\ posted' \subseteq Chunks
        /\ channel' \in Seq(Commands) /\ pc' \in {"idle", "handed"}
        /\ UNCHANGED <<recording, uploaded, store>>
    BY <1>9, <1>t, ChannelType DEF Restart, FreshRunner
  <2>. QED  BY <2>1, <2>2, <2>3, <2>4 DEF TypeOK
<1>10. ASSUME UNCHANGED ingestVars  PROVE TypeOK'
  BY <1>10 DEF ingestVars, TypeOK
<1>. QED
  BY <1>1, <1>2, <1>3, <1>4, <1>5, <1>6, <1>7, <1>8, <1>9, <1>10 DEF Next

(* Every variable of the streaming runner keeps to its kind, for any       *)
(* number of speakers, chunks and disturbances (session_runner.rs:96-125). *)
THEOREM IngestTypeCorrect == Spec => []TypeOK
  BY TypeInit, TypeNext, PTL DEF Spec

(* -------------------- bookkeeping and refinement ----------------------- *)

(* What was fed to the pipeline is 0, 1, ... up to next_expected.          *)
FedInOrder ==
    \A sp \in Speakers :
        /\ Len(fed[sp]) = next[sp]
        /\ \A i \in 1 .. next[sp] : fed[sp][i] = i - 1

(* The runner knows of uploaded chunks only.                               *)
OnlyUploaded ==
    /\ \A sp \in Speakers : processed[sp] \cup pending[sp] \subseteq uploaded[sp]
    /\ \A i \in 1 .. Len(channel) : \A sp \in Speakers, seq \in Numbers :
          channel[i] = Ingest(sp, seq) => seq \in uploaded[sp]

(* Finalize is announced, and taken, only when the recording has ended.    *)
EndedFirst ==
    /\ pc = "write" => ~recording
    /\ \A i \in 1 .. Len(channel) : channel[i] = Finalize => ~recording

OrderInv == TypeOK /\ BookkeepingAgrees /\ FedInOrder /\ OnlyUploaded /\ EndedFirst

LEMMA OrderInit == Init => OrderInv
<1>. SUFFICES ASSUME Init  PROVE OrderInv  OBVIOUS
<1>1. TypeOK  BY TypeInit
<1>2. BookkeepingAgrees  BY DEF Init, BookkeepingAgrees
<1>3. FedInOrder  BY DEF Init, FedInOrder
<1>4. OnlyUploaded /\ EndedFirst  BY DEF Init, OnlyUploaded, EndedFirst
<1>. QED  BY <1>1, <1>2, <1>3, <1>4 DEF OrderInv

(* The order of the feed survives a step that leaves it alone.             *)
LEMMA OrderUntouched ==
    ASSUME BookkeepingAgrees, FedInOrder, UNCHANGED orderVars
    PROVE  BookkeepingAgrees' /\ FedInOrder'
  BY DEF BookkeepingAgrees, FedInOrder, orderVars

LEMMA OrderBuffer ==
    ASSUME OrderInv, NEW sp \in Speakers, NEW seq \in Numbers,
           Buffer(sp, seq), seq \notin processed[sp]
    PROVE  BookkeepingAgrees' /\ FedInOrder'
<1>1. /\ seq # next[sp] /\ UNCHANGED <<processed, next, fed>>
      /\ pending' = [pending EXCEPT ![sp] = @ \cup {seq}]
  BY DEF Buffer
<1>2. /\ next[sp] \in Nat /\ seq \in Nat /\ processed[sp] = 0 .. next[sp] - 1
      /\ pending \in [Speakers -> SUBSET Numbers]
  BY IngestAssumption DEF OrderInv, TypeOK, BookkeepingAgrees, Numbers
<1>3. seq > next[sp]  BY <1>1, <1>2
<1>4. BookkeepingAgrees'
  <2>1. \A q \in Speakers : \A k \in pending'[q] : k > next[q]
    BY <1>1, <1>2, <1>3 DEF OrderInv, BookkeepingAgrees
  <2>. QED  BY <1>1, <2>1 DEF OrderInv, BookkeepingAgrees
<1>. QED  BY <1>1, <1>4 DEF OrderInv, FedInOrder

LEMMA OrderFeed ==
    ASSUME OrderInv, NEW sp \in Speakers, NEW seq \in Numbers, Feed(sp, seq)
    PROVE  BookkeepingAgrees' /\ FedInOrder'
<1>1. PICK end \in seq + 1 .. ChunkLimit :
         /\ seq = next[sp]
         /\ end \notin pending[sp]
         /\ \A k \in seq + 1 .. end - 1 : k \in pending[sp]
         /\ next' = [next EXCEPT ![sp] = end]
         /\ pending' = [pending EXCEPT ![sp] = @ \ (seq .. end - 1)]
         /\ processed' = [processed EXCEPT ![sp] = @ \cup (seq .. end - 1)]
         /\ fed' = [fed EXCEPT ![sp] = @ \o Run(seq, end)]
  BY FeedOrder DEF OrderInv
<1>2. /\ ChunkLimit \in Nat /\ seq \in Nat /\ end \in Nat /\ seq < end
      /\ processed \in [Speakers -> SUBSET Numbers]
      /\ pending \in [Speakers -> SUBSET Numbers]
      /\ next \in [Speakers -> 0 .. ChunkLimit]
      /\ fed \in [Speakers -> Seq(Numbers)]
      /\ Numbers \subseteq Nat
  BY <1>1, IngestAssumption DEF OrderInv, TypeOK, Numbers
<1>3. ASSUME NEW q \in Speakers, q # sp
      PROVE  /\ processed'[q] = 0 .. next'[q] - 1
             /\ \A k \in pending'[q] : k > next'[q]
             /\ Len(fed'[q]) = next'[q]
             /\ \A i \in 1 .. next'[q] : fed'[q][i] = i - 1
  <2>1. /\ processed'[q] = processed[q] /\ pending'[q] = pending[q]
        /\ next'[q] = next[q] /\ fed'[q] = fed[q]
    BY <1>1, <1>2, <1>3
  <2>. QED  BY <2>1 DEF OrderInv, BookkeepingAgrees, FedInOrder
<1>4. processed'[sp] = 0 .. next'[sp] - 1
  <2>1. processed'[sp] = (0 .. seq - 1) \cup (seq .. end - 1) /\ next'[sp] = end
    BY <1>1, <1>2 DEF OrderInv, BookkeepingAgrees
  <2>. QED  BY <1>2, <2>1
<1>5. ASSUME NEW k \in pending'[sp]  PROVE k > next'[sp]
  <2>1. /\ k \in pending[sp] /\ k \notin seq .. end - 1 /\ k # end
        /\ next'[sp] = end /\ k \in Nat
    BY <1>1, <1>2, <1>5
  <2>2. k > seq  BY <1>1, <2>1 DEF OrderInv, BookkeepingAgrees
  <2>. QED  BY <1>2, <2>1, <2>2
<1>6. /\ Len(fed'[sp]) = next'[sp]
      /\ \A i \in 1 .. next'[sp] : fed'[sp][i] = i - 1
  <2>. DEFINE old == fed[sp]
              new == Run(seq, end)
  <2>1. old \in Seq(Numbers) /\ Len(old) = seq /\ \A i \in 1 .. seq : old[i] = i - 1
    BY <1>1, <1>2 DEF OrderInv, FedInOrder
  <2>2. /\ new \in Seq(Numbers) /\ Len(new) = end - seq
        /\ \A i \in 1 .. end - seq : new[i] = seq + i - 1
    <3>1. seq \in Nat /\ end \in Nat /\ seq <= end /\ end <= ChunkLimit
      BY <1>1, <1>2
    <3>. QED  BY ONLY <3>1, RunFacts
  <2>3. fed'[sp] = old \o new /\ next'[sp] = end  BY <1>1, <1>2
  <2>. HIDE DEF old, new
  <2>4. Len(old \o new) = end  BY <1>2, <2>1, <2>2
  <2>5. ASSUME NEW i \in 1 .. end  PROVE (old \o new)[i] = i - 1
    <3>1. CASE i <= seq  BY <1>2, <2>1, <2>2, <3>1
    <3>2. CASE i > seq
      <4>1. (old \o new)[i] = new[i - seq]  BY <1>2, <2>1, <2>2, <3>2
      <4>. QED  BY <1>2, <2>2, <3>2, <4>1
    <3>3. i <= seq \/ i > seq  BY <1>2
    <3>. QED  BY <3>1, <3>2, <3>3
  <2>. QED  BY <2>3, <2>4, <2>5
<1>7. BookkeepingAgrees'  BY <1>3, <1>4, <1>5 DEF BookkeepingAgrees
<1>8. FedInOrder'  BY <1>3, <1>6 DEF FedInOrder
<1>. QED  BY <1>7, <1>8

(* A command of the shortened channel was in it before.                    *)
LEMMA ShorterChannel ==
    ASSUME NEW C, NEW ch \in Seq(C), ch # <<>>
    PROVE  /\ \A i \in 1 .. Len(Tail(ch)) : \E j \in 1 .. Len(ch) : Tail(ch)[i] = ch[j]
           /\ LET short == SubSeq(ch, 1, Len(ch) - 1)
              IN  \A i \in 1 .. Len(short) : \E j \in 1 .. Len(ch) : short[i] = ch[j]
<1>1. Len(ch) \in Nat /\ Len(ch) > 0  OBVIOUS
<1>2. ASSUME NEW i \in 1 .. Len(Tail(ch))
      PROVE  \E j \in 1 .. Len(ch) : Tail(ch)[i] = ch[j]
  <2>1. i + 1 \in 1 .. Len(ch) /\ Tail(ch)[i] = ch[i + 1]  BY <1>1
  <2>. QED  BY <2>1
<1>. DEFINE short == SubSeq(ch, 1, Len(ch) - 1)
<1>3. Len(short) = Len(ch) - 1 /\ \A i \in 1 .. Len(ch) - 1 : short[i] = ch[i]
  <2>. DEFINE n == Len(ch) - 1
  <2>1. n \in Nat /\ 1 \in Int /\ \A i \in 1 .. n : ch[i] \in C  BY <1>1
  <2>. HIDE DEF n
  <2>2. \A i \in 1 .. n - 1 + 1 : SubSeq(ch, 1, n)[i] = ch[1 + i - 1]
    BY <2>1, SubSeqProperties
  <2>3. Len(SubSeq(ch, 1, n)) = IF 1 <= n THEN n - 1 + 1 ELSE 0
    BY <2>1, SubSeqProperties
  <2>4. Len(SubSeq(ch, 1, n)) = n  BY <2>1, <2>3
  <2>5. ASSUME NEW i \in 1 .. n  PROVE SubSeq(ch, 1, n)[i] = ch[i]
    <3>1. i \in 1 .. n - 1 + 1 /\ 1 + i - 1 = i  BY <2>1
    <3>. QED  BY <2>2, <3>1
  <2>. QED  BY <2>4, <2>5 DEF n
<1>. HIDE DEF short
<1>4. ASSUME NEW i \in 1 .. Len(short)
      PROVE  \E j \in 1 .. Len(ch) : short[i] = ch[j]
  <2>1. i \in 1 .. Len(ch) /\ short[i] = ch[i]  BY <1>1, <1>3
  <2>. QED  BY <2>1
<1>. QED  BY <1>2, <1>4 DEF short

(* An appended command is the new one or was in the channel before.        *)
LEMMA LongerChannel ==
    ASSUME NEW C, NEW ch \in Seq(C), NEW c \in C
    PROVE  \A i \in 1 .. Len(Append(ch, c)) :
              Append(ch, c)[i] = c \/ \E j \in 1 .. Len(ch) : Append(ch, c)[i] = ch[j]
<1>1. Len(Append(ch, c)) = Len(ch) + 1 /\ Len(ch) \in Nat  OBVIOUS
<1>2. ASSUME NEW i \in 1 .. Len(ch) + 1
      PROVE  Append(ch, c)[i] = c \/ \E j \in 1 .. Len(ch) : Append(ch, c)[i] = ch[j]
  <2>1. CASE i = Len(ch) + 1  BY <1>1, <2>1
  <2>2. CASE i # Len(ch) + 1
    <3>1. i \in 1 .. Len(ch) /\ Append(ch, c)[i] = ch[i]  BY <1>1, <1>2, <2>2
    <3>. QED  BY <3>1
  <2>. QED  BY <2>1, <2>2
<1>. QED  BY <1>1, <1>2

(* A step whose commands are old ones, or announce an uploaded chunk, or,  *)
(* after the recording, finalize, keeps what is known of the channel.      *)
LEMMA ChannelKept ==
    ASSUME OnlyUploaded, EndedFirst,
           \A i \in 1 .. Len(channel') :
              \/ \E j \in 1 .. Len(channel) : channel'[i] = channel[j]
              \/ channel'[i] = Finalize /\ ~recording'
              \/ \E sp \in Speakers, seq \in Numbers :
                    channel'[i] = Ingest(sp, seq) /\ seq \in uploaded'[sp],
           \A sp \in Speakers : uploaded[sp] \subseteq uploaded'[sp],
           ~recording => ~recording'
    PROVE  /\ \A i \in 1 .. Len(channel') : \A sp \in Speakers, seq \in Numbers :
                 channel'[i] = Ingest(sp, seq) => seq \in uploaded'[sp]
           /\ \A i \in 1 .. Len(channel') : channel'[i] = Finalize => ~recording'
<1>1. ASSUME NEW i \in 1 .. Len(channel'), NEW sp \in Speakers, NEW seq \in Numbers,
             channel'[i] = Ingest(sp, seq)
      PROVE  seq \in uploaded'[sp]
  <2>1. CASE \E j \in 1 .. Len(channel) : channel'[i] = channel[j]
    BY <1>1, <2>1 DEF OnlyUploaded
  <2>2. CASE \E sp2 \in Speakers, seq2 \in Numbers :
                channel'[i] = Ingest(sp2, seq2) /\ seq2 \in uploaded'[sp2]
    <3>1. PICK sp2 \in Speakers, seq2 \in Numbers :
             Ingest(sp, seq) = Ingest(sp2, seq2) /\ seq2 \in uploaded'[sp2]
      BY <1>1, <2>2
    <3>2. sp = sp2 /\ seq = seq2  BY <3>1, CommandsDiffer
    <3>. QED  BY <3>1, <3>2
  <2>. QED  BY <1>1, <2>1, <2>2, CommandsDiffer
<1>2. ASSUME NEW i \in 1 .. Len(channel'), channel'[i] = Finalize
      PROVE  ~recording'
  BY <1>2, CommandsDiffer DEF EndedFirst
<1>. QED  BY <1>1, <1>2

LEMMA OrderNext == OrderInv /\ [Next]_ingestVars => OrderInv'
<1>. SUFFICES ASSUME OrderInv, [Next]_ingestVars  PROVE OrderInv'  OBVIOUS
<1>. DEFINE Commands == IngestCommands \cup {Finalize}
            Known == /\ \A sp \in Speakers :
                            processed'[sp] \cup pending'[sp] \subseteq uploaded'[sp]
                     /\ pc' = "write" => ~recording'
                     /\ \A i \in 1 .. Len(channel') :
                           \/ \E j \in 1 .. Len(channel) : channel'[i] = channel[j]
                           \/ channel'[i] = Finalize /\ ~recording'
                           \/ \E sp \in Speakers, seq \in Numbers :
                                 channel'[i] = Ingest(sp, seq) /\ seq \in uploaded'[sp]
                     /\ \A sp \in Speakers : uploaded[sp] \subseteq uploaded'[sp]
                     /\ ~recording => ~recording'
<1>t. TypeOK /\ channel \in Seq(Commands)  BY DEF OrderInv, TypeOK
<1>o. /\ BookkeepingAgrees /\ FedInOrder /\ OnlyUploaded /\ EndedFirst
      /\ TypeOK'
  BY <1>t, TypeNext DEF OrderInv
<1>k. Known => OnlyUploaded' /\ EndedFirst'
  <2>. SUFFICES ASSUME Known  PROVE OnlyUploaded' /\ EndedFirst'  OBVIOUS
  <2>1. /\ \A i \in 1 .. Len(channel') : \A sp \in Speakers, seq \in Numbers :
                 channel'[i] = Ingest(sp, seq) => seq \in uploaded'[sp]
        /\ \A i \in 1 .. Len(channel') : channel'[i] = Finalize => ~recording'
    BY <1>o, ChannelKept
  <2>. QED  BY <2>1 DEF OnlyUploaded, EndedFirst
<1>. SUFFICES BookkeepingAgrees' /\ FedInOrder' /\ Known
  BY <1>o, <1>k DEF OrderInv
<1>s. channel' = channel => \A i \in 1 .. Len(channel') :
                               \E j \in 1 .. Len(channel) : channel'[i] = channel[j]
  OBVIOUS
<1>1. ASSUME NEW sp \in Speakers, NEW seq \in Numbers, Upload(sp, seq)
      PROVE  BookkeepingAgrees' /\ FedInOrder' /\ Known
  <2>1. UNCHANGED orderVars /\ UNCHANGED <<recording, pc>>  BY <1>1 DEF Upload
  <2>2. Ingest(sp, seq) \in Commands  BY DEF IngestCommands
  <2>3. /\ seq \in uploaded'[sp]
        /\ \A q \in Speakers : uploaded[q] \subseteq uploaded'[q]
    BY <1>1, <1>t DEF Upload, TypeOK
  <2>. HIDE DEF Commands
  <2>4. \A i \in 1 .. Len(channel') :
           \/ channel'[i] = Ingest(sp, seq)
           \/ \E j \in 1 .. Len(channel) : channel'[i] = channel[j]
    BY <1>1, <1>t, <2>2, LongerChannel DEF Upload
  <2>5. \A q \in Speakers : processed'[q] \cup pending'[q] \subseteq uploaded'[q]
    BY <1>o, <2>1, <2>3 DEF orderVars, OnlyUploaded
  <2>6. Known  BY <1>o, <2>1, <2>3, <2>4, <2>5 DEF EndedFirst
  <2>. QED  BY <1>o, <2>1, <2>6, OrderUntouched
<1>2. ASSUME EndRecording  PROVE BookkeepingAgrees' /\ FedInOrder' /\ Known
  <2>1. UNCHANGED orderVars /\ UNCHANGED <<uploaded, pc>> /\ ~recording'
    BY <1>2 DEF EndRecording
  <2>2. Finalize \in Commands  OBVIOUS
  <2>. HIDE DEF Commands
  <2>3. \A i \in 1 .. Len(channel') :
           \/ channel'[i] = Finalize
           \/ \E j \in 1 .. Len(channel) : channel'[i] = channel[j]
    BY <1>2, <1>t, <2>2, LongerChannel DEF EndRecording
  <2>4. Known  BY <1>o, <2>1, <2>3 DEF orderVars, OnlyUploaded, EndedFirst
  <2>. QED  BY <1>o, <2>1, <2>4, OrderUntouched
<1>3. ASSUME LoseAnnouncement  PROVE BookkeepingAgrees' /\ FedInOrder' /\ Known
  <2>1. UNCHANGED orderVars /\ UNCHANGED <<recording, uploaded, pc>>
    BY <1>3 DEF LoseAnnouncement
  <2>2. \A i \in 1 .. Len(channel') : \E j \in 1 .. Len(channel) : channel'[i] = channel[j]
    BY <1>3, <1>t, ShorterChannel DEF LoseAnnouncement
  <2>3. Known  BY <1>o, <2>1, <2>2 DEF orderVars, OnlyUploaded, EndedFirst
  <2>. QED  BY <1>o, <2>1, <2>3, OrderUntouched
<1>4. ASSUME RepeatAnnouncement  PROVE BookkeepingAgrees' /\ FedInOrder' /\ Known
  <2>1. UNCHANGED orderVars /\ UNCHANGED <<recording, uploaded, pc>>
    BY <1>4 DEF RepeatAnnouncement
  <2>2. PICK sp \in Speakers : \E seq \in uploaded[sp] :
            channel' = Append(channel, Ingest(sp, seq))
    BY <1>4 DEF RepeatAnnouncement
  <2>3. PICK seq \in Numbers : /\ seq \in uploaded[sp]
                               /\ channel' = Append(channel, Ingest(sp, seq))
    BY <1>t, <2>2 DEF TypeOK
  <2>4. Ingest(sp, seq) \in Commands  BY DEF IngestCommands
  <2>. HIDE DEF Commands
  <2>5. \A i \in 1 .. Len(channel') :
           \/ channel'[i] = Ingest(sp, seq)
           \/ \E j \in 1 .. Len(channel) : channel'[i] = channel[j]
    BY <1>t, <2>3, <2>4, LongerChannel
  <2>6. Known  BY <1>o, <2>1, <2>3, <2>5 DEF orderVars, OnlyUploaded, EndedFirst
  <2>. QED  BY <1>o, <2>1, <2>6, OrderUntouched
<1>5. ASSUME StartRunner  PROVE BookkeepingAgrees' /\ FedInOrder' /\ Known
  <2>1. UNCHANGED orderVars /\ UNCHANGED <<recording, uploaded, channel>> /\ pc' # "write"
    BY <1>5 DEF StartRunner
  <2>2. Known  BY <1>o, <1>s, <2>1 DEF orderVars, OnlyUploaded
  <2>. QED  BY <1>o, <2>1, <2>2, OrderUntouched
<1>6. ASSUME IngestOne  PROVE BookkeepingAgrees' /\ FedInOrder' /\ Known
  <2>1. PICK sp \in Speakers, seq \in Numbers :
          /\ channel # <<>> /\ Head(channel) = Ingest(sp, seq)
          /\ channel' = Tail(channel)
          /\ pc = "recv" /\ UNCHANGED <<recording, uploaded, pc>>
          /\ \/ Skip
             \/ Buffer(sp, seq) /\ seq \notin processed[sp]
             \/ Feed(sp, seq)
    BY <1>6, <1>t, IngestCases
  <2>2. \A i \in 1 .. Len(channel') : \E j \in 1 .. Len(channel) : channel'[i] = channel[j]
    BY <1>t, <2>1, ShorterChannel
  <2>3. seq \in uploaded[sp]
    <3>1. 1 \in 1 .. Len(channel) /\ channel[1] = Ingest(sp, seq)  BY <1>t, <2>1
    <3>. QED  BY <1>o, <3>1 DEF OnlyUploaded
  <2>4. ASSUME /\ BookkeepingAgrees' /\ FedInOrder'
               /\ \A q \in Speakers : processed'[q] \cup pending'[q] \subseteq uploaded[q]
        PROVE  BookkeepingAgrees' /\ FedInOrder' /\ Known
    BY <2>1, <2>2, <2>4
  <2>5. CASE Skip
    <3>1. UNCHANGED orderVars  BY <2>5 DEF Skip
    <3>2. \A q \in Speakers : processed'[q] \cup pending'[q] \subseteq uploaded[q]
      BY <1>o, <3>1 DEF orderVars, OnlyUploaded
    <3>. QED  BY <1>o, <2>4, <3>1, <3>2, OrderUntouched
  <2>6. CASE Buffer(sp, seq) /\ seq \notin processed[sp]
    <3>1. \A q \in Speakers : processed'[q] \cup pending'[q] \subseteq uploaded[q]
      BY <1>o, <1>t, <2>3, <2>6 DEF Buffer, OnlyUploaded, TypeOK
    <3>. QED  BY <2>4, <2>6, <3>1, OrderBuffer
  <2>7. CASE Feed(sp, seq)
    <3>1. PICK end \in seq + 1 .. ChunkLimit :
             /\ \A k \in seq + 1 .. end - 1 : k \in pending[sp]
             /\ pending' = [pending EXCEPT ![sp] = @ \ (seq .. end - 1)]
             /\ processed' = [processed EXCEPT ![sp] = @ \cup (seq .. end - 1)]
      BY <1>t, <2>7, FeedOrder
    <3>2. seq .. end - 1 \subseteq uploaded[sp]
      <4>1. ChunkLimit \in Nat /\ seq \in Nat  BY IngestAssumption DEF Numbers
      <4>2. ASSUME NEW k \in seq .. end - 1  PROVE k \in uploaded[sp]
        <5>1. k = seq \/ k \in seq + 1 .. end - 1  BY <3>1, <4>1
        <5>. QED  BY <1>o, <2>3, <3>1, <5>1 DEF OnlyUploaded
      <4>. QED  BY <4>2
    <3>3. \A q \in Speakers : processed'[q] \cup pending'[q] \subseteq uploaded[q]
      BY <1>o, <1>t, <3>1, <3>2 DEF OnlyUploaded, TypeOK
    <3>. QED  BY <2>4, <2>7, <3>3, OrderFeed
  <2>. QED  BY <2>1, <2>5, <2>6, <2>7
<1>7. ASSUME TakeFinalize  PROVE BookkeepingAgrees' /\ FedInOrder' /\ Known
  <2>1. /\ UNCHANGED orderVars /\ UNCHANGED <<recording, uploaded>>
        /\ channel' = <<>> /\ channel # <<>> /\ Head(channel) = Finalize
    BY <1>7 DEF TakeFinalize
  <2>2. 1 \in 1 .. Len(channel) /\ channel[1] = Finalize  BY <1>t, <2>1
  <2>3. ~recording  BY <1>o, <2>2 DEF EndedFirst
  <2>4. Known  BY <1>o, <2>1, <2>3 DEF orderVars, OnlyUploaded
  <2>. QED  BY <1>o, <2>1, <2>4, OrderUntouched
<1>8. ASSUME WriteFinal  PROVE BookkeepingAgrees' /\ FedInOrder' /\ Known
  <2>1. UNCHANGED orderVars /\ UNCHANGED <<recording, uploaded, channel>> /\ pc' # "write"
    BY <1>8 DEF WriteFinal
  <2>2. Known  BY <1>o, <1>s, <2>1 DEF orderVars, OnlyUploaded
  <2>. QED  BY <1>o, <2>1, <2>2, OrderUntouched
<1>9. ASSUME Restart  PROVE BookkeepingAgrees' /\ FedInOrder' /\ Known
  <2>1. /\ UNCHANGED <<recording, uploaded>> /\ channel' = <<>> /\ pc' # "write"
        /\ \A sp \in Speakers : /\ processed'[sp] = {} /\ pending'[sp] = {}
                                /\ next'[sp] = 0 /\ fed'[sp] = <<>>
    BY <1>9 DEF Restart, FreshRunner
  <2>2. Known  BY <2>1
  <2>3. 0 .. 0 - 1 = {} /\ 1 .. 0 = {} /\ Len(<<>>) = 0  OBVIOUS
  <2>4. BookkeepingAgrees'  BY <2>1, <2>3 DEF BookkeepingAgrees
  <2>5. FedInOrder'  BY <2>1, <2>3 DEF FedInOrder
  <2>. QED  BY <2>2, <2>4, <2>5
<1>10. ASSUME UNCHANGED ingestVars  PROVE BookkeepingAgrees' /\ FedInOrder' /\ Known
  <2>1. UNCHANGED orderVars /\ UNCHANGED <<recording, uploaded, channel, pc>>
    BY <1>10 DEF ingestVars, orderVars
  <2>2. Known  BY <1>o, <1>s, <2>1 DEF orderVars, OnlyUploaded, EndedFirst
  <2>. QED  BY <1>o, <2>1, <2>2, OrderUntouched
<1>. HIDE DEF Known
<1>. QED
  BY <1>1, <1>2, <1>3, <1>4, <1>5, <1>6, <1>7, <1>8, <1>9, <1>10 DEF Next

(* The numbers below next_expected are exactly those decode has seen, and  *)
(* only numbers behind a gap wait in the buffer, for any number of         *)
(* speakers and chunks and in every order of arrival                       *)
(* (session_runner.rs:109-116, 170-203).                                   *)
THEOREM BookkeepingHolds == Spec => []BookkeepingAgrees
<1>1. OrderInv => BookkeepingAgrees  BY DEF OrderInv
<1>. QED  BY <1>1, OrderInit, OrderNext, PTL DEF Spec

(* -------------------------- implementation ----------------------------- *)

LEMMA DeliveryInit == Init => Delivery!Init
  BY DEF Init, Delivery!Init

(* Every step of the runner is a step of the in-order feed, or none.       *)
LEMMA DeliveryNext ==
    OrderInv /\ OrderInv' /\ [Next]_ingestVars => [Delivery!Next]_(Delivery!deliveryVars)
<1>. SUFFICES ASSUME OrderInv, OrderInv', [Next]_ingestVars
              PROVE  [Delivery!Next]_(Delivery!deliveryVars)
  OBVIOUS
<1>. USE DEF Delivery!deliveryVars
<1>. DEFINE Closed == pc \in {"write", "done", "handed"}
<1>1. ASSUME NEW sp \in Speakers, NEW seq \in Numbers, Upload(sp, seq)
      PROVE  Delivery!Upload
  BY <1>1 DEF Upload, OrderInv, TypeOK, orderVars, Delivery!Upload
<1>2. ASSUME EndRecording \/ LoseAnnouncement \/ RepeatAnnouncement
      PROVE  UNCHANGED <<uploaded, fed, Closed>>
  BY <1>2 DEF EndRecording, LoseAnnouncement, RepeatAnnouncement, orderVars
<1>3. ASSUME StartRunner  PROVE Delivery!Close \/ UNCHANGED <<uploaded, fed, Closed>>
  BY <1>3 DEF StartRunner, orderVars, Delivery!Close
<1>4. ASSUME IngestOne
      PROVE  (\E sp \in Speakers : Delivery!Deliver(sp)) \/ UNCHANGED <<uploaded, fed, Closed>>
  <2>1. PICK sp \in Speakers, seq \in Numbers :
          /\ pc = "recv" /\ UNCHANGED <<recording, uploaded, pc>>
          /\ Skip \/ Buffer(sp, seq) \/ Feed(sp, seq)
    BY <1>4, IngestCases DEF OrderInv
  <2>2. CASE Skip \/ Buffer(sp, seq)
    BY <2>1, <2>2 DEF Skip, Buffer, orderVars
  <2>3. CASE Feed(sp, seq)
    <3>1. PICK end \in seq + 1 .. ChunkLimit :
             /\ seq = next[sp] /\ next' = [next EXCEPT ![sp] = end]
             /\ fed' = [fed EXCEPT ![sp] = @ \o Run(seq, end)]
      BY <2>3, FeedOrder DEF OrderInv
    <3>2. seq \in Nat /\ end \in Nat /\ seq < end
      BY <3>1, IngestAssumption DEF Numbers
    <3>3. Len(fed[sp]) = seq /\ Len(fed'[sp]) = end /\ next'[sp] = end
      BY <3>1 DEF OrderInv, FedInOrder, TypeOK
    <3>4. fed'[sp] \in Seq(Numbers) /\ \A i \in 1 .. end : fed'[sp][i] = i - 1
      BY <3>3 DEF OrderInv, FedInOrder, TypeOK
    <3>5. fed'[sp] = Delivery!Counting(end)
      <4>1. DOMAIN fed'[sp] = 1 .. end /\ fed'[sp] = [i \in 1 .. end |-> fed'[sp][i]]
        BY <3>2, <3>3, <3>4
      <4>. QED  BY <3>4, <4>1 DEF Delivery!Counting
    <3>6. fed' = [fed EXCEPT ![sp] = Delivery!Counting(end)]
      BY <3>1, <3>5 DEF OrderInv, TypeOK
    <3>7. ASSUME NEW i \in 1 .. end  PROVE fed'[sp][i] \in uploaded[sp]
      <4>1. i - 1 \in 0 .. end - 1  BY <3>2
      <4>2. i - 1 \in processed'[sp]  BY <3>3, <4>1 DEF OrderInv, BookkeepingAgrees
      <4>3. i - 1 \in uploaded[sp]  BY <2>1, <4>2 DEF OrderInv, OnlyUploaded
      <4>. QED  BY <3>4, <4>3
    <3>8. ~Closed /\ UNCHANGED <<uploaded, Closed>>  BY <2>1
    <3>. HIDE DEF Closed
    <3>9. Delivery!Deliver(sp)
      BY <3>2, <3>3, <3>6, <3>7, <3>8 DEF Delivery!Deliver, Closed
    <3>. QED  BY <3>9
  <2>. QED  BY <2>1, <2>2, <2>3
<1>5. ASSUME TakeFinalize  PROVE Delivery!Close
  BY <1>5 DEF TakeFinalize, orderVars, Delivery!Close
<1>6. ASSUME WriteFinal  PROVE UNCHANGED <<uploaded, fed, Closed>>
  BY <1>6 DEF WriteFinal, orderVars
<1>7. ASSUME Restart  PROVE Delivery!Restart
  <2>1. fed' = [sp \in Speakers |-> <<>>] /\ UNCHANGED uploaded
    BY <1>7 DEF Restart, FreshRunner
  <2>2. Closed => Closed'
    BY <1>7 DEF Restart, OrderInv, EndedFirst, TypeOK
  <2>. QED  BY <2>1, <2>2 DEF Delivery!Restart
<1>8. ASSUME UNCHANGED ingestVars  PROVE UNCHANGED <<uploaded, fed, Closed>>
  BY <1>8 DEF ingestVars
<1>. QED
  BY <1>1, <1>2, <1>3, <1>4, <1>5, <1>6, <1>7, <1>8 DEF Next, Delivery!Next

(* The pipeline is fed what the in-order feed promises: each speaker's     *)
(* chunks from 0 on, none twice, none skipped, none that was not uploaded, *)
(* none after finalize, for any number of speakers and chunks, any order   *)
(* of announcement, loss, repetition, failure and restart                  *)
(* (session_runner.rs:136-214).                                            *)
THEOREM FeedIsInOrder == Spec => ImplementsDelivery
<1>1. Spec => []OrderInv  BY OrderInit, OrderNext, PTL DEF Spec
<1>. QED
  BY <1>1, DeliveryInit, DeliveryNext, PTL DEF Spec, ImplementsDelivery, Delivery!Spec

(* --------------------------- what is stored ---------------------------- *)

(* What is remembered as posted is stored, and a run that is done has all  *)
(* its segments stored.                                                    *)
StoredInv == TypeOK /\ posted \subseteq store /\ SegmentsAreStored

LEMMA StoredInit == Init => StoredInv
  BY TypeInit DEF Init, StoredInv, SegmentsAreStored

LEMMA StoredNext == StoredInv /\ [Next]_ingestVars => StoredInv'
<1>. SUFFICES ASSUME StoredInv, [Next]_ingestVars  PROVE StoredInv'  OBVIOUS
<1>t. TypeOK /\ TypeOK'  BY TypeNext DEF StoredInv
<1>1. ASSUME UNCHANGED outputVars, pc' # "done" \/ UNCHANGED pc  PROVE StoredInv'
  BY <1>t, <1>1 DEF StoredInv, SegmentsAreStored, outputVars
<1>2. ASSUME NEW sp \in Speakers, NEW seq \in Numbers, Upload(sp, seq)  PROVE StoredInv'
  BY <1>1, <1>2 DEF Upload
<1>3. ASSUME EndRecording \/ LoseAnnouncement \/ RepeatAnnouncement  PROVE StoredInv'
  BY <1>1, <1>3 DEF EndRecording, LoseAnnouncement, RepeatAnnouncement
<1>4. ASSUME StartRunner \/ TakeFinalize  PROVE StoredInv'
  BY <1>1, <1>4 DEF StartRunner, TakeFinalize
<1>5. ASSUME IngestOne  PROVE StoredInv'
  <2>1. PICK sp \in Speakers, seq \in Numbers :
          /\ pc = "recv" /\ UNCHANGED <<recording, uploaded, pc>>
          /\ Skip \/ Buffer(sp, seq) \/ Feed(sp, seq)
    BY <1>t, <1>5, IngestCases
  <2>2. CASE Skip \/ Buffer(sp, seq)  BY <1>1, <2>1, <2>2 DEF Skip, Buffer
  <2>3. CASE Feed(sp, seq)
    BY <1>t, <2>1, <2>3, FeedOutput DEF StoredInv, SegmentsAreStored
  <2>. QED  BY <2>1, <2>2, <2>3
<1>6. ASSUME WriteFinal  PROVE StoredInv'
  <2>1. /\ UNCHANGED heard
        /\ \/ WriteAll(heard) /\ pc' = "done"
           \/ WriteFails(heard) /\ pc' = "handed"
    BY <1>6 DEF WriteFinal, Finalized
  <2>2. CASE WriteAll(heard)
    BY <1>t, <2>1, <2>2 DEF WriteAll, StoredInv, SegmentsAreStored
  <2>3. CASE WriteFails(heard) /\ pc' = "handed"
    BY <1>t, <2>3 DEF WriteFails, StoredInv, SegmentsAreStored
  <2>. QED  BY <2>1, <2>2, <2>3
<1>7. ASSUME Restart  PROVE StoredInv'
  <2>1. posted' = {} /\ pc' # "done"  BY <1>7 DEF Restart, FreshRunner
  <2>. QED  BY <1>t, <2>1 DEF StoredInv, SegmentsAreStored
<1>8. ASSUME UNCHANGED ingestVars  PROVE StoredInv'
  BY <1>1, <1>8 DEF ingestVars, outputVars
<1>. QED  BY <1>2, <1>3, <1>4, <1>5, <1>6, <1>7, <1>8 DEF Next

(* A session is done only when every segment its pipeline produced is in   *)
(* the data-api, whatever posts failed, in whole or in part, on the way    *)
(* (session_runner.rs:118-120, 249-255, 444-466).                          *)
THEOREM SegmentsStored == Spec => []SegmentsAreStored
<1>1. StoredInv => SegmentsAreStored  BY DEF StoredInv
<1>. QED  BY <1>1, StoredInit, StoredNext, PTL DEF Spec

(* ------------------------ nothing is forgotten ------------------------- *)

Undisturbed == \A k \in DisturbanceKinds \ {"repeat"} : budget[k] = Budget[k]

BudgetBelow == \A k \in DisturbanceKinds : budget[k] <= Budget[k]

(* A recording that has ended has no gap.                                  *)
EndedWhole ==
    ~recording => \A sp \in Speakers : \A m \in uploaded[sp] :
                      \A k \in 0 .. m : k \in uploaded[sp]

Held(ch, c) == \E i \in 1 .. Len(ch) : ch[i] = c

(* Nothing is announced after finalize.                                    *)
FinalizeLast ==
    \A i \in 1 .. Len(channel) : channel[i] = Finalize => i = Len(channel)

(* Every uploaded chunk is on its way, buffered or seen.                   *)
Underway == \A sp \in Speakers : \A seq \in uploaded[sp] :
               \/ seq \in processed[sp] \cup pending[sp]
               \/ Held(channel, Ingest(sp, seq))

AllSeen == \A sp \in Speakers : processed[sp] = uploaded[sp]

WholeInv == /\ OrderInv /\ BudgetBelow /\ EndedWhole /\ FinalizeLast
            /\ pc = "done" => ~recording
            /\ Undisturbed => /\ pc \in {"idle", "recv"} => Underway
                              /\ pc \in {"write", "done"} => AllSeen

(* What an append, and what taking the head, leaves in the channel.        *)
LEMMA HeldAfterAppend ==
    ASSUME NEW C, NEW ch \in Seq(C), NEW c \in C
    PROVE  /\ Held(Append(ch, c), c)
           /\ \A d : Held(ch, d) => Held(Append(ch, c), d)
           /\ \A i \in 1 .. Len(Append(ch, c)) :
                 \/ i = Len(Append(ch, c))
                 \/ i \in 1 .. Len(ch) /\ Append(ch, c)[i] = ch[i]
<1>1. Len(Append(ch, c)) = Len(ch) + 1 /\ Len(ch) \in Nat  OBVIOUS
<1>2. Append(ch, c)[Len(ch) + 1] = c  OBVIOUS
<1>3. \A i \in 1 .. Len(ch) : Append(ch, c)[i] = ch[i]  OBVIOUS
<1>4. Len(ch) + 1 \in 1 .. Len(ch) + 1 /\ 1 .. Len(ch) \subseteq 1 .. Len(ch) + 1
  BY <1>1
<1>5. Held(Append(ch, c), c)  BY <1>1, <1>2, <1>4 DEF Held
<1>6. \A d : Held(ch, d) => Held(Append(ch, c), d)  BY <1>1, <1>3, <1>4 DEF Held
<1>7. \A i \in 1 .. Len(ch) + 1 : i = Len(ch) + 1 \/ i \in 1 .. Len(ch)  BY <1>1
<1>8. \A i \in 1 .. Len(Append(ch, c)) :
         \/ i = Len(Append(ch, c))
         \/ i \in 1 .. Len(ch) /\ Append(ch, c)[i] = ch[i]
  BY <1>1, <1>3, <1>7
<1>. QED  BY <1>5, <1>6, <1>8

LEMMA HeldAfterTail ==
    ASSUME NEW C, NEW ch \in Seq(C), ch # <<>>
    PROVE  /\ \A d : Held(ch, d) => d = Head(ch) \/ Held(Tail(ch), d)
           /\ Len(Tail(ch)) = Len(ch) - 1
           /\ \A i \in 1 .. Len(Tail(ch)) : i + 1 \in 1 .. Len(ch) /\ Tail(ch)[i] = ch[i + 1]
<1>1. /\ Len(ch) \in Nat /\ Len(ch) > 0 /\ Head(ch) = ch[1]
      /\ Len(Tail(ch)) = Len(ch) - 1
  OBVIOUS
<1>2. \A i \in 1 .. Len(ch) - 1 : i + 1 \in 1 .. Len(ch) /\ Tail(ch)[i] = ch[i + 1]
  BY <1>1
<1>3. ASSUME NEW d, Held(ch, d), d # Head(ch)
      PROVE  Held(Tail(ch), d)
  <2>1. PICK i \in 1 .. Len(ch) : ch[i] = d  BY <1>3 DEF Held
  <2>2. i # 1  BY <1>1, <1>3, <2>1
  <2>3. i - 1 \in 1 .. Len(ch) - 1 /\ i - 1 + 1 = i  BY <1>1, <2>2
  <2>4. Tail(ch)[i - 1] = d  BY <1>2, <2>1, <2>3
  <2>. QED  BY <1>1, <2>3, <2>4 DEF Held
<1>. QED  BY <1>1, <1>2, <1>3

(* A disturbance is never taken back.                                      *)
LEMMA SpentIsDisturbed ==
    ASSUME TypeOK, BudgetBelow, NEW k \in DisturbanceKinds, Spend(k)
    PROVE  /\ BudgetBelow'
           /\ k # "repeat" => ~Undisturbed'
           /\ Undisturbed' => Undisturbed
<1>1. /\ budget \in [DisturbanceKinds -> Nat] /\ Budget \in [DisturbanceKinds -> Nat]
      /\ budget[k] > 0 /\ budget' = [budget EXCEPT ![k] = @ - 1]
  BY IngestAssumption DEF TypeOK, Spend
<1>2. /\ budget'[k] = budget[k] - 1
      /\ \A j \in DisturbanceKinds : j # k => budget'[j] = budget[j]
  BY <1>1
<1>3. budget[k] \in Nat /\ Budget[k] \in Nat /\ budget[k] <= Budget[k]
  BY <1>1 DEF BudgetBelow
<1>4. budget'[k] < Budget[k]  BY <1>2, <1>3
<1>5. budget'[k] # Budget[k] /\ budget'[k] <= Budget[k]
  BY <1>2, <1>3, <1>4
<1>6. BudgetBelow'  BY <1>2, <1>5 DEF BudgetBelow
<1>7. k # "repeat" => ~Undisturbed'  BY <1>5 DEF Undisturbed
<1>8. Undisturbed' => Undisturbed  BY <1>2, <1>7 DEF Undisturbed
<1>. QED  BY <1>6, <1>7, <1>8

LEMMA BudgetKept ==
    ASSUME BudgetBelow, UNCHANGED budget
    PROVE  BudgetBelow' /\ (Undisturbed' <=> Undisturbed)
  BY DEF BudgetBelow, Undisturbed

(* What the buffer holds when the recording has ended and nothing is under *)
(* way any more: nothing.                                                  *)
LEMMA EndedIsSeen ==
    ASSUME OrderInv, EndedWhole, ~recording,
           \A sp \in Speakers : uploaded[sp] \subseteq processed[sp] \cup pending[sp]
    PROVE  AllSeen
<1>. SUFFICES ASSUME NEW sp \in Speakers  PROVE processed[sp] = uploaded[sp]
  BY DEF AllSeen
<1>1. /\ next[sp] \in Nat /\ uploaded[sp] \subseteq Nat /\ pending[sp] \subseteq uploaded[sp]
      /\ processed[sp] = 0 .. next[sp] - 1 /\ processed[sp] \subseteq uploaded[sp]
      /\ \A m \in pending[sp] : m > next[sp]
  BY IngestAssumption DEF OrderInv, TypeOK, BookkeepingAgrees, OnlyUploaded, Numbers
<1>2. ASSUME NEW m \in pending[sp]  PROVE FALSE
  <2>1. m \in uploaded[sp] /\ m \in Nat /\ m > next[sp]  BY <1>1, <1>2
  <2>2. next[sp] \in 0 .. m  BY <1>1, <2>1
  <2>3. next[sp] \in uploaded[sp]  BY <2>1, <2>2 DEF EndedWhole
  <2>4. next[sp] \notin processed[sp] /\ next[sp] \notin pending[sp]  BY <1>1
  <2>. QED  BY <2>3, <2>4
<1>. QED  BY <1>1, <1>2

LEMMA WholeInit == Init => WholeInv
<1>. SUFFICES ASSUME Init  PROVE WholeInv  OBVIOUS
<1>1. OrderInv  BY OrderInit
<1>2. BudgetBelow
  BY IngestAssumption DEF Init, BudgetBelow
<1>3. EndedWhole /\ FinalizeLast /\ Underway  BY DEF Init, EndedWhole, FinalizeLast, Underway
<1>4. pc = "idle"  BY DEF Init
<1>. QED  BY <1>1, <1>2, <1>3, <1>4 DEF WholeInv

(* A command joins the channel while the recording goes on: all that was   *)
(* under way stays so.                                                     *)
LEMMA WholeAppend ==
    ASSUME WholeInv, OrderInv', recording, NEW c \in IngestCommands \cup {Finalize},
           channel' = Append(channel, c), UNCHANGED orderVars, UNCHANGED pc,
           BudgetBelow', Undisturbed' => Undisturbed, EndedWhole',
           \A sp \in Speakers : \A seq \in uploaded'[sp] :
               seq \in uploaded[sp] \/ c = Ingest(sp, seq)
    PROVE  WholeInv'
<1>1. channel \in Seq(IngestCommands \cup {Finalize})  BY DEF WholeInv, OrderInv, TypeOK
<1>2. /\ Held(channel', c) /\ \A d : Held(channel, d) => Held(channel', d)
      /\ \A i \in 1 .. Len(channel') :
             \/ i = Len(channel')
             \/ i \in 1 .. Len(channel) /\ channel'[i] = channel[i]
  BY <1>1, HeldAfterAppend
<1>3. FinalizeLast'
  <2>1. \A i \in 1 .. Len(channel) : channel[i] # Finalize
    BY DEF WholeInv, OrderInv, EndedFirst
  <2>. QED  BY <1>2, <2>1 DEF FinalizeLast
<1>4. Underway => Underway'  BY <1>2 DEF Underway, orderVars
<1>5. pc \notin {"write", "done"}  BY DEF WholeInv, OrderInv, EndedFirst
<1>. QED  BY <1>3, <1>4, <1>5 DEF WholeInv

(* A step after which the run counts as disturbed, or has been handed on.  *)
LEMMA WholeDisturbed ==
    ASSUME OrderInv', BudgetBelow', EndedWhole', FinalizeLast',
           pc' = "done" => ~recording',
           ~Undisturbed' \/ pc' = "handed"
    PROVE  WholeInv'
  BY DEF WholeInv

LEMMA WholeUpload ==
    ASSUME WholeInv, OrderInv', NEW sp \in Speakers, NEW seq \in Numbers, Upload(sp, seq)
    PROVE  WholeInv'
<1>. DEFINE c == Ingest(sp, seq)
<1>1. /\ recording /\ recording' /\ channel' = Append(channel, c)
      /\ UNCHANGED orderVars /\ UNCHANGED <<pc, budget>>
      /\ uploaded' = [uploaded EXCEPT ![sp] = @ \cup {seq}]
  BY DEF Upload
<1>2. c \in IngestCommands \cup {Finalize}  BY DEF IngestCommands
<1>3. uploaded \in [Speakers -> SUBSET Numbers]  BY DEF WholeInv, OrderInv, TypeOK
<1>4. \A q \in Speakers : \A k \in uploaded'[q] :
         k \in uploaded[q] \/ c = Ingest(q, k)
  <2>. TAKE q \in Speakers
  <2>. TAKE k \in uploaded'[q]
  <2>1. CASE q = sp
    <3>1. uploaded'[q] = uploaded[q] \cup {seq}  BY <1>1, <1>3, <2>1
    <3>. QED  BY <2>1, <3>1
  <2>2. CASE q # sp  BY <1>1, <1>3, <2>2
  <2>. QED  BY <2>1, <2>2
<1>. HIDE DEF c
<1>5. EndedWhole'  BY <1>1 DEF EndedWhole
<1>6. BudgetBelow' /\ (Undisturbed' => Undisturbed)
  BY <1>1, BudgetKept DEF WholeInv
<1>. QED  BY <1>1, <1>2, <1>4, <1>5, <1>6, WholeAppend

LEMMA WholeEnd ==
    ASSUME WholeInv, OrderInv', EndRecording
    PROVE  WholeInv'
<1>1. /\ recording /\ ~recording' /\ channel' = Append(channel, Finalize)
      /\ UNCHANGED orderVars /\ UNCHANGED <<uploaded, pc, budget>>
      /\ \A sp \in Speakers : uploaded[sp] = 0 .. Cardinality(uploaded[sp]) - 1
  BY DEF EndRecording
<1>2. EndedWhole'
  <2>. SUFFICES ASSUME NEW sp \in Speakers, NEW m \in uploaded[sp], NEW k \in 0 .. m
                PROVE  k \in uploaded[sp]
    BY <1>1 DEF EndedWhole
  <2>. DEFINE n == Cardinality(uploaded[sp])
  <2>1. uploaded[sp] = 0 .. n - 1  BY <1>1
  <2>2. n \in Nat
    <3>1. IsFiniteSet(0 .. ChunkLimit - 1)  BY IngestAssumption, FS_Interval
    <3>2. uploaded[sp] \subseteq 0 .. ChunkLimit - 1
      BY DEF WholeInv, OrderInv, TypeOK, Numbers
    <3>. QED  BY <3>1, <3>2, FS_Subset, FS_CardinalityType
  <2>. HIDE DEF n
  <2>3. m \in 0 .. n - 1  BY <2>1
  <2>4. k \in 0 .. n - 1  BY <2>2, <2>3
  <2>. QED  BY <2>1, <2>4
<1>3. BudgetBelow' /\ (Undisturbed' => Undisturbed)
  BY <1>1, BudgetKept DEF WholeInv
<1>. QED  BY <1>1, <1>2, <1>3, WholeAppend

LEMMA WholeRepeat ==
    ASSUME WholeInv, OrderInv', RepeatAnnouncement
    PROVE  WholeInv'
<1>1. /\ recording /\ Spend("repeat") /\ UNCHANGED orderVars
      /\ UNCHANGED <<recording, uploaded, pc>>
  BY DEF RepeatAnnouncement
<1>t. TypeOK  BY DEF WholeInv, OrderInv
<1>2. PICK sp \in Speakers : \E seq \in uploaded[sp] :
          channel' = Append(channel, Ingest(sp, seq))
  BY DEF RepeatAnnouncement
<1>3. PICK seq \in Numbers : channel' = Append(channel, Ingest(sp, seq))
  BY <1>t, <1>2 DEF TypeOK
<1>. DEFINE c == Ingest(sp, seq)
<1>4. c \in IngestCommands \cup {Finalize} /\ channel' = Append(channel, c)
  BY <1>3 DEF IngestCommands
<1>. HIDE DEF c
<1>5. EndedWhole'  BY <1>1 DEF EndedWhole
<1>6. BudgetBelow' /\ (Undisturbed' => Undisturbed)
  BY <1>1, <1>t, KindsOfDisturbance, SpentIsDisturbed DEF WholeInv
<1>. QED  BY <1>1, <1>4, <1>5, <1>6, WholeAppend

LEMMA WholeLose ==
    ASSUME WholeInv, OrderInv', LoseAnnouncement
    PROVE  WholeInv'
<1>1. /\ channel # <<>> /\ channel[Len(channel)] # Finalize
      /\ Spend("loss") /\ channel' = SubSeq(channel, 1, Len(channel) - 1)
      /\ UNCHANGED <<recording, uploaded, pc>>
  BY DEF LoseAnnouncement
<1>t. TypeOK /\ channel \in Seq(IngestCommands \cup {Finalize})
  BY DEF WholeInv, OrderInv, TypeOK
<1>2. BudgetBelow' /\ ~Undisturbed'
  BY <1>1, <1>t, KindsOfDisturbance, SpentIsDisturbed DEF WholeInv
<1>3. FinalizeLast'
  <2>1. \A j \in 1 .. Len(channel) : channel[j] # Finalize
    BY <1>1 DEF WholeInv, FinalizeLast
  <2>2. \A i \in 1 .. Len(channel') : \E j \in 1 .. Len(channel) : channel'[i] = channel[j]
    BY <1>1, <1>t, ShorterChannel
  <2>. QED  BY <2>1, <2>2 DEF FinalizeLast
<1>4. EndedWhole' /\ (pc' = "done" => ~recording')
  BY <1>1 DEF WholeInv, EndedWhole
<1>. QED  BY <1>2, <1>3, <1>4, WholeDisturbed

LEMMA WholeStart ==
    ASSUME WholeInv, OrderInv', StartRunner
    PROVE  WholeInv'
<1>1. /\ UNCHANGED <<recording, uploaded, channel, budget>> /\ UNCHANGED orderVars
      /\ pc = "idle" /\ pc' \in {"handed", "recv"}
  BY DEF StartRunner
<1>2. BudgetBelow' /\ (Undisturbed' <=> Undisturbed)
  BY <1>1, BudgetKept DEF WholeInv
<1>3. EndedWhole' /\ FinalizeLast'  BY <1>1 DEF WholeInv, EndedWhole, FinalizeLast
<1>4. Undisturbed => Underway'  BY <1>1 DEF WholeInv, Underway, orderVars
<1>. QED  BY <1>1, <1>2, <1>3, <1>4 DEF WholeInv

LEMMA WholeIngest ==
    ASSUME WholeInv, OrderInv', IngestOne
    PROVE  WholeInv'
<1>t. /\ OrderInv /\ TypeOK /\ channel \in Seq(IngestCommands \cup {Finalize})
      /\ processed \in [Speakers -> SUBSET Numbers]
      /\ pending \in [Speakers -> SUBSET Numbers]
  BY DEF WholeInv, OrderInv, TypeOK
<1>1. PICK sp \in Speakers, seq \in Numbers :
          /\ pc = "recv" /\ channel # <<>> /\ Head(channel) = Ingest(sp, seq)
          /\ channel' = Tail(channel)
          /\ UNCHANGED <<recording, uploaded, pc>>
          /\ \/ seq \in processed[sp] /\ Skip /\ UNCHANGED budget
             \/ seq \notin processed[sp] /\ Skip /\ Spend("fault")
             \/ Buffer(sp, seq) /\ seq \notin processed[sp]
             \/ Feed(sp, seq)
  BY <1>t, IngestCases
<1>2. /\ \A d : Held(channel, d) => d = Ingest(sp, seq) \/ Held(channel', d)
      /\ Len(channel') = Len(channel) - 1
      /\ \A i \in 1 .. Len(channel') :
            i + 1 \in 1 .. Len(channel) /\ channel'[i] = channel[i + 1]
  BY <1>t, <1>1, HeldAfterTail
<1>3. FinalizeLast'
  <2>. SUFFICES ASSUME NEW i \in 1 .. Len(channel'), channel'[i] = Finalize
                PROVE  i = Len(channel')
    BY DEF FinalizeLast
  <2>1. i + 1 = Len(channel)  BY <1>2 DEF WholeInv, FinalizeLast
  <2>. QED  BY <1>t, <1>2, <2>1
<1>4. EndedWhole' /\ pc' # "done"  BY <1>1 DEF WholeInv, EndedWhole
<1>5. \/ UNCHANGED budget
      \/ Spend("fault")
  <2>1. CASE Feed(sp, seq)  BY <1>t, <2>1, FeedOutput
  <2>. QED  BY <1>1, <2>1 DEF Buffer
<1>6. BudgetBelow' /\ (Undisturbed' => Undisturbed)
  <2>1. BudgetBelow  BY DEF WholeInv
  <2>. QED  BY <1>5, <1>t, <2>1, BudgetKept, KindsOfDisturbance, SpentIsDisturbed
<1>7. CASE seq \notin processed[sp] /\ Skip /\ Spend("fault")
  <2>1. ~Undisturbed'
    BY <1>7, <1>t, KindsOfDisturbance, SpentIsDisturbed DEF WholeInv
  <2>. QED  BY <1>3, <1>4, <1>6, <2>1, WholeDisturbed
<1>8. CASE ~(seq \notin processed[sp] /\ Skip /\ Spend("fault"))
  <2>1. /\ seq \in processed'[sp] \cup pending'[sp]
        /\ \A q \in Speakers : processed[q] \cup pending[q] \subseteq processed'[q] \cup pending'[q]
    <3>1. CASE seq \in processed[sp] /\ Skip
      BY <3>1 DEF Skip, orderVars
    <3>2. CASE Buffer(sp, seq)
      <4>1. /\ UNCHANGED processed /\ pending' = [pending EXCEPT ![sp] = @ \cup {seq}]
        BY <3>2 DEF Buffer
      <4>. QED  BY <1>t, <4>1
    <3>3. CASE Feed(sp, seq)
      <4>1. PICK end \in seq + 1 .. ChunkLimit :
               /\ pending' = [pending EXCEPT ![sp] = @ \ (seq .. end - 1)]
               /\ processed' = [processed EXCEPT ![sp] = @ \cup (seq .. end - 1)]
        <5>1. TypeOK  BY <1>t
        <5>. QED  BY <3>3, <5>1, FeedOrder
      <4>2. seq \in seq .. end - 1
        BY <4>1, IngestAssumption DEF Numbers
      <4>. QED  BY <1>t, <4>1, <4>2
    <3>. QED  BY <1>1, <1>8, <3>1, <3>2, <3>3
  <2>2. Underway => Underway'
    <3>. SUFFICES ASSUME Underway, NEW q \in Speakers, NEW k \in uploaded[q]
                  PROVE  \/ k \in processed'[q] \cup pending'[q]
                         \/ Held(channel', Ingest(q, k))
      BY <1>1 DEF Underway
    <3>1. CASE k \in processed[q] \cup pending[q]  BY <2>1, <3>1
    <3>2. CASE Held(channel, Ingest(q, k))
      <4>1. CASE Ingest(q, k) = Ingest(sp, seq)
        <5>1. q = sp /\ k = seq  BY <4>1, CommandsDiffer
        <5>. QED  BY <2>1, <5>1
      <4>. QED  BY <1>2, <3>2, <4>1
    <3>. QED  BY <3>1, <3>2 DEF Underway
  <2>3. Undisturbed' => Underway'  BY <1>1, <1>6, <2>2 DEF WholeInv
  <2>. QED  BY <1>1, <1>3, <1>4, <1>6, <2>3 DEF WholeInv
<1>. QED  BY <1>7, <1>8

LEMMA WholeTakeFinalize ==
    ASSUME WholeInv, OrderInv', TakeFinalize
    PROVE  WholeInv'
<1>1. /\ pc = "recv" /\ channel # <<>> /\ Head(channel) = Finalize /\ channel' = <<>>
      /\ pc' \in {"write", "handed"} /\ UNCHANGED <<recording, uploaded, budget>>
      /\ UNCHANGED orderVars
  BY DEF TakeFinalize
<1>t. /\ OrderInv /\ channel \in Seq(IngestCommands \cup {Finalize})
      /\ EndedWhole /\ FinalizeLast
  BY DEF WholeInv, OrderInv, TypeOK
<1>2. /\ 1 \in 1 .. Len(channel) /\ channel[1] = Finalize
      /\ Len(channel) \in Nat
  BY <1>t, <1>1
<1>3. ~recording  BY <1>t, <1>2 DEF OrderInv, EndedFirst
<1>4. Len(channel) = 1  BY <1>t, <1>2 DEF FinalizeLast
<1>5. ASSUME Underway  PROVE AllSeen'
  <2>1. ASSUME NEW sp \in Speakers, NEW seq
        PROVE  ~Held(channel, Ingest(sp, seq))
    BY <1>2, <1>4, CommandsDiffer DEF Held
  <2>2. \A sp \in Speakers : uploaded[sp] \subseteq processed[sp] \cup pending[sp]
    BY <1>5, <2>1 DEF Underway
  <2>3. AllSeen  BY <1>t, <1>3, <2>2, EndedIsSeen
  <2>. QED  BY <1>1, <2>3 DEF AllSeen, orderVars
<1>6. BudgetBelow' /\ (Undisturbed' <=> Undisturbed)
  BY <1>1, BudgetKept DEF WholeInv
<1>7. EndedWhole' /\ FinalizeLast'  BY <1>t, <1>1 DEF EndedWhole, FinalizeLast
<1>8. Undisturbed => AllSeen'  BY <1>1, <1>5 DEF WholeInv
<1>. QED  BY <1>1, <1>6, <1>7, <1>8 DEF WholeInv

LEMMA WholeWrite ==
    ASSUME WholeInv, OrderInv', WriteFinal
    PROVE  WholeInv'
<1>1. /\ pc = "write" /\ UNCHANGED <<recording, uploaded, channel>>
      /\ UNCHANGED orderVars
      /\ \/ pc' = "done" /\ UNCHANGED budget
         \/ pc' = "handed" /\ Spend("fault")
  BY DEF WriteFinal
<1>2. ~recording /\ TypeOK /\ BudgetBelow  BY <1>1 DEF WholeInv, OrderInv, EndedFirst
<1>3. BudgetBelow' /\ (Undisturbed' => Undisturbed)
  BY <1>1, <1>2, BudgetKept, KindsOfDisturbance, SpentIsDisturbed
<1>4. EndedWhole' /\ FinalizeLast'  BY <1>1 DEF WholeInv, EndedWhole, FinalizeLast
<1>5. AllSeen => AllSeen'  BY <1>1 DEF AllSeen, orderVars
<1>. QED  BY <1>1, <1>2, <1>3, <1>4, <1>5 DEF WholeInv

LEMMA WholeRestart ==
    ASSUME WholeInv, OrderInv', Restart
    PROVE  WholeInv'
<1>1. /\ Spend("restart") /\ channel' = <<>> /\ pc' \in {"idle", "handed"}
      /\ UNCHANGED <<recording, uploaded>>
  BY DEF Restart
<1>2. BudgetBelow' /\ ~Undisturbed'
  BY <1>1, KindsOfDisturbance, SpentIsDisturbed DEF WholeInv, OrderInv
<1>3. EndedWhole' /\ FinalizeLast'  BY <1>1 DEF WholeInv, EndedWhole, FinalizeLast
<1>. QED  BY <1>1, <1>2, <1>3, WholeDisturbed

LEMMA WholeNext == WholeInv /\ [Next]_ingestVars => WholeInv'
<1>. SUFFICES ASSUME WholeInv, [Next]_ingestVars  PROVE WholeInv'  OBVIOUS
<1>1. OrderInv'  BY OrderNext DEF WholeInv
<1>2. ASSUME UNCHANGED ingestVars  PROVE WholeInv'
  <2>1. UNCHANGED <<recording, uploaded, channel, pc, processed, pending, next, budget>>
    BY <1>2 DEF ingestVars
  <2>2. BudgetBelow' /\ (Undisturbed' <=> Undisturbed)
    BY <2>1, BudgetKept DEF WholeInv
  <2>3. EndedWhole' /\ FinalizeLast'  BY <2>1 DEF WholeInv, EndedWhole, FinalizeLast
  <2>4. (Underway => Underway') /\ (AllSeen => AllSeen')
    BY <2>1 DEF Underway, AllSeen
  <2>. QED  BY <1>1, <2>1, <2>2, <2>3, <2>4 DEF WholeInv
<1>. QED
  BY <1>1, <1>2, WholeUpload, WholeEnd, WholeRepeat, WholeLose, WholeStart, WholeIngest,
     WholeTakeFinalize, WholeWrite, WholeRestart DEF Next

(* A run that nothing disturbed has seen every uploaded chunk when it is   *)
(* done, in whatever order they arrived and however often they were        *)
(* announced (session_runner.rs:170-203, README.md:50-59).                 *)
THEOREM UndisturbedRunIsWhole == Spec => []WholeIfUndisturbed
<1>1. WholeInv => WholeIfUndisturbed
  BY DEF WholeInv, WholeIfUndisturbed, Undisturbed, AllSeen
<1>. QED  BY <1>1, WholeInit, WholeNext, PTL DEF Spec
=============================================================================
