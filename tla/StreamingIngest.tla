--------------------------- MODULE StreamingIngest ---------------------------
(***************************************************************************)
(* One session on the streaming path, chunk by chunk: the collector stores *)
(* chunks and announces them, the announcements reach the session's runner *)
(* through one FIFO channel (socket, event loop and mailbox together), and *)
(* run_streaming downloads each chunk, puts it in order, feeds it to the   *)
(* pipeline and posts what the pipeline emits, until Finalize.             *)
(*                                                                         *)
(* Audio is abstract: the pipeline makes one segment of each chunk it      *)
(* accepts, named by the chunk.  Claim and status are in Worker; here a    *)
(* run that does not reach its mark is "handed" to a one-shot run.         *)
(***************************************************************************)
EXTENDS Naturals, Sequences, FiniteSets

CONSTANTS
    Speakers,    \* pseudo ids of the session
    ChunkLimit,  \* at most this many chunks per speaker (a bound)
    ChannelCap,  \* announcements under way at one time
    Silent,      \* chunks that decode to no sample
    Budget       \* bounds of the disturbances

DisturbanceKinds == {"fault", "loss", "repeat", "restart"}

Numbers == 0 .. ChunkLimit - 1
Chunks  == Speakers \X Numbers

ASSUME IngestAssumption ==
    /\ ChunkLimit \in Nat \ {0}
    /\ ChannelCap \in Nat \ {0}
    /\ Silent \subseteq Chunks
    /\ Budget \in [DisturbanceKinds -> Nat]

VARIABLES
    recording,  \* the collector still records
    uploaded,   \* chunk numbers stored in the data-api, per speaker
    channel,    \* commands on their way to the runner
    pc,         \* the runner: idle before its first command
    processed,  \* numbers seen by decode, per speaker
    pending,    \* numbers buffered out of order, per speaker
    next,       \* next_expected, per speaker
    fed,        \* numbers decoded and handed on, in order, per speaker
    heard,      \* chunks the pipeline accepted
    posted,     \* posted_segment_ids
    store,      \* segments in the data-api
    budget

collectorVars == <<recording, uploaded>>
orderVars     == <<processed, pending, next, fed>>
outputVars    == <<heard, posted, store>>
ingestVars    == <<recording, uploaded, channel, pc, processed, pending, next,
                   fed, heard, posted, store, budget>>

Finalize == [kind |-> "finalize"]
Ingest(sp, seq) == [kind |-> "ingest", speaker |-> sp, seq |-> seq]
IngestCommands == {Ingest(sp, seq) : sp \in Speakers, seq \in Numbers}

Spend(kind) == /\ budget[kind] > 0
               /\ budget' = [budget EXCEPT ![kind] = @ - 1]

FreshRunner == /\ processed' = [sp \in Speakers |-> {}]
               /\ pending' = [sp \in Speakers |-> {}]
               /\ next' = [sp \in Speakers |-> 0]
               /\ fed' = [sp \in Speakers |-> <<>>]
               /\ heard' = {}
               /\ posted' = {}

Init == /\ recording = TRUE
        /\ uploaded = [sp \in Speakers |-> {}]
        /\ channel = <<>>
        /\ pc = "idle"
        /\ processed = [sp \in Speakers |-> {}]
        /\ pending = [sp \in Speakers |-> {}]
        /\ next = [sp \in Speakers |-> 0]
        /\ fed = [sp \in Speakers |-> <<>>]
        /\ heard = {} /\ posted = {} /\ store = {}
        /\ budget = Budget

(* ------------------------- collector and socket ------------------------ *)

(* A chunk is stored and announced; chunks of a speaker may be stored in   *)
(* any order.                                                              *)
Upload(sp, seq) ==
    /\ recording
    /\ seq \notin uploaded[sp]
    /\ Len(channel) < ChannelCap
    /\ uploaded' = [uploaded EXCEPT ![sp] = @ \cup {seq}]
    /\ channel' = Append(channel, Ingest(sp, seq))
    /\ UNCHANGED <<recording, pc, budget>> /\ UNCHANGED orderVars /\ UNCHANGED outputVars

(* The recording ends with no number missing.                              *)
EndRecording ==
    /\ recording
    /\ \A sp \in Speakers : uploaded[sp] = 0 .. Cardinality(uploaded[sp]) - 1
    /\ Len(channel) < ChannelCap
    /\ recording' = FALSE
    /\ channel' = Append(channel, Finalize)
    /\ UNCHANGED <<uploaded, pc, budget>> /\ UNCHANGED orderVars /\ UNCHANGED outputVars

(* The newest announcement of a chunk is lost, or announced once more.     *)
LoseAnnouncement ==
    /\ channel # <<>> /\ channel[Len(channel)] # Finalize
    /\ Spend("loss")
    /\ channel' = SubSeq(channel, 1, Len(channel) - 1)
    /\ UNCHANGED <<recording, uploaded, pc>> /\ UNCHANGED orderVars /\ UNCHANGED outputVars

RepeatAnnouncement ==
    /\ recording
    /\ Spend("repeat")
    /\ Len(channel) < ChannelCap
    /\ \E sp \in Speakers : \E seq \in uploaded[sp] :
          channel' = Append(channel, Ingest(sp, seq))
    /\ UNCHANGED <<recording, uploaded, pc>> /\ UNCHANGED orderVars /\ UNCHANGED outputVars

(* ------------------------------- runner -------------------------------- *)

(* The event loop meets the session's first event: a chunk starts a        *)
(* streaming runner, the upload's end a one-shot one.                      *)
StartRunner ==
    /\ pc = "idle" /\ channel # <<>>
    /\ pc' = IF Head(channel) = Finalize THEN "handed" ELSE "recv"
    /\ UNCHANGED <<recording, uploaded, channel, budget>>
    /\ UNCHANGED orderVars /\ UNCHANGED outputVars

(* External: what emit and finalize of the pipeline return.  emit may      *)
(* return any segment that is ready, finalize returns them all, also those *)
(* emitted before.                                                         *)
Emitted(accepted) == SUBSET accepted
Finalized         == heard

(* What write_new_outputs would do had it noted the ids before the POST.   *)
WriteFailsNoted(out) ==
    /\ \E written \in SUBSET (out \ posted) : store' = store \cup written
    /\ posted' = posted \cup out

(* write_new_outputs: posts what was not posted before.  When a request    *)
(* fails some of the rows are stored, all of them if it was the reply that *)
(* was lost, and none is remembered as posted.                             *)
WriteAll(out) == /\ store' = store \cup (out \ posted)
                 /\ posted' = posted \cup out

WriteFails(out) ==
    /\ \E written \in SUBSET (out \ posted) : store' = store \cup written
    /\ UNCHANGED posted

(* Draining that stops after the chunk in hand; that takes all the buffer  *)
(* holds, gaps or not; that steps once too far.                            *)
FirstGapNoDrain(n, buf) == n

FirstGapDrainAll(n, buf) ==
    CHOOSE m \in n .. ChunkLimit :
        /\ \A k \in buf : k < m
        /\ m = n \/ m - 1 \in buf

FirstGapOneTooFar(n, buf) ==
    CHOOSE m \in n + 1 .. ChunkLimit + 1 :
        m - 1 \notin buf /\ \A k \in n .. m - 2 : k \in buf

(* The first number from n on that is not in buf.                          *)
FirstGap(n, buf) ==
    CHOOSE m \in n .. ChunkLimit :
        m \notin buf /\ \A k \in n .. m - 1 : k \in buf

Run(from, to) == [i \in 1 .. to - from |-> from + i - 1]

Skip == UNCHANGED orderVars /\ UNCHANGED outputVars

(* Buffering that already counts the chunk as seen.                        *)
BufferMarksSeen(sp, seq) ==
    /\ seq # next[sp]
    /\ pending' = [pending EXCEPT ![sp] = @ \cup {seq}]
    /\ processed' = [processed EXCEPT ![sp] = @ \cup {seq}]
    /\ UNCHANGED <<next, fed, budget>> /\ UNCHANGED outputVars

(* ingest_one after a download that succeeded and is not the expected one. *)
Buffer(sp, seq) ==
    /\ seq # next[sp]
    /\ pending' = [pending EXCEPT ![sp] = @ \cup {seq}]
    /\ UNCHANGED <<processed, next, fed, budget>> /\ UNCHANGED outputVars

(* ingest_one with the expected chunk: it and the buffered ones behind it  *)
(* are decoded; silent ones are only noted; then what is ready is posted.  *)
(* In a feed that goes wrong the pipeline refuses some chunks, which is    *)
(* logged, or the posting fails, or both.                                  *)
Feed(sp, seq) ==
    LET end   == FirstGap(seq + 1, pending[sp])
        batch == seq .. end - 1
        audible == {c \in {sp} \X batch : c \notin Silent}
    IN
    /\ seq = next[sp]
    /\ next' = [next EXCEPT ![sp] = end]
    /\ pending' = [pending EXCEPT ![sp] = @ \ batch]
    /\ processed' = [processed EXCEPT ![sp] = @ \cup batch]
    /\ fed' = [fed EXCEPT ![sp] = @ \o Run(seq, end)]
    /\ \/ /\ heard' = heard \cup audible
          /\ \E out \in Emitted(heard') : WriteAll(out)
          /\ UNCHANGED budget
       \/ /\ Spend("fault")
          /\ \E refused \in SUBSET audible : heard' = heard \cup (audible \ refused)
          /\ \E out \in Emitted(heard') : WriteAll(out) \/ WriteFails(out)

(* One IngestChunk: a number already seen is skipped, a download that      *)
(* fails is only logged.                                                   *)
IngestOne ==
    /\ pc = "recv" /\ channel # <<>> /\ Head(channel) # Finalize
    /\ channel' = Tail(channel)
    /\ LET sp == Head(channel).speaker
           seq == Head(channel).seq
       IN \/ seq \in processed[sp] /\ Skip /\ UNCHANGED budget
          \/ seq \notin processed[sp] /\ Spend("fault") /\ Skip
          \/ seq \notin processed[sp] /\ (Buffer(sp, seq) \/ Feed(sp, seq))
    /\ UNCHANGED <<recording, uploaded, pc>>

(* Finalize: the receiver is dropped and the session claimed.              *)
TakeFinalize ==
    /\ pc = "recv" /\ channel # <<>> /\ Head(channel) = Finalize
    /\ channel' = <<>>
    /\ pc' \in {"write", "handed"}
    /\ UNCHANGED <<recording, uploaded, budget>>
    /\ UNCHANGED orderVars /\ UNCHANGED outputVars

(* finalize_streaming behind its claim: write what finalize returns, then  *)
(* mark the session; a failed write hands it to a retry.                   *)
WriteFinal ==
    /\ pc = "write"
    /\ \/ WriteAll(Finalized) /\ pc' = "done" /\ UNCHANGED budget
       \/ WriteFails(Finalized) /\ pc' = "handed" /\ Spend("fault")
    /\ UNCHANGED <<recording, uploaded, channel, heard>> /\ UNCHANGED orderVars

(* The worker restarts: commands under way and the runner's bookkeeping    *)
(* are gone.  While the session records, its next chunk starts a streaming *)
(* runner; afterwards startup runs it one-shot.                            *)
Restart ==
    /\ pc \notin {"done", "handed"}
    /\ Spend("restart")
    /\ channel' = <<>>
    /\ pc' = IF recording THEN "idle" ELSE "handed"
    /\ FreshRunner
    /\ UNCHANGED <<recording, uploaded, store>>

Next == \/ \E sp \in Speakers, seq \in Numbers : Upload(sp, seq)
        \/ EndRecording \/ LoseAnnouncement \/ RepeatAnnouncement
        \/ StartRunner \/ IngestOne \/ TakeFinalize \/ WriteFinal \/ Restart

Spec == Init /\ [][Next]_ingestVars

(* ------------------------------ properties ----------------------------- *)

(* Every variable holds values of its kind (run_streaming's locals).       *)
TypeOK ==
    /\ recording \in BOOLEAN
    /\ uploaded \in [Speakers -> SUBSET Numbers]
    /\ channel \in Seq(IngestCommands \cup {Finalize})
    /\ pc \in {"idle", "recv", "write", "done", "handed"}
    /\ processed \in [Speakers -> SUBSET Numbers]
    /\ pending \in [Speakers -> SUBSET Numbers]
    /\ next \in [Speakers -> 0 .. ChunkLimit]
    /\ fed \in [Speakers -> Seq(Numbers)]
    /\ heard \subseteq Chunks /\ posted \subseteq Chunks /\ store \subseteq Chunks
    /\ budget \in [DisturbanceKinds -> Nat]

(* What run_streaming's three maps say of each speaker agrees: the numbers *)
(* below next_expected are exactly those seen, and the buffer holds only   *)
(* numbers behind a gap, so that no chunk that could be fed waits and no   *)
(* chunk can be fed twice (session_runner.rs:109-116, 170-203).            *)
BookkeepingAgrees ==
    \A sp \in Speakers :
        /\ processed[sp] = 0 .. next[sp] - 1
        /\ \A seq \in pending[sp] : seq > next[sp]

(* A run nothing disturbed feeds everything: when it is done every chunk   *)
(* that was uploaded has been seen, whatever the order of arrival          *)
(* (README.md:50-59).                                                      *)
WholeIfUndisturbed ==
    pc = "done" /\ (\A k \in DisturbanceKinds \ {"repeat"} : budget[k] = Budget[k])
        => \A sp \in Speakers : processed[sp] = uploaded[sp]

(* A post that failed in mid-stream costs nothing: when the run is done    *)
(* every segment the pipeline produced is stored                           *)
(* (session_runner.rs:118-120, 249-255, 444-466).                          *)
SegmentsAreStored == pc = "done" => heard \subseteq store

(* The runner implements the in-order feed.                                *)
Delivery == INSTANCE InOrderDelivery WITH
                log <- fed, closed <- pc \in {"write", "done", "handed"}
ImplementsDelivery == Delivery!Spec

(* Each chunk_uploaded event's chunk is fed once it is downloaded: none is *)
(* left in the buffer of a session that is done (README.md:50-56).         *)
DownloadedChunksAreFed ==
    pc = "done" => \A sp \in Speakers : pending[sp] = {}
=============================================================================
