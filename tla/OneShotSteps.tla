---------------------------- MODULE OneShotSteps ----------------------------
(***************************************************************************)
(* Three things a one-shot run does between its claim and its writes:      *)
(* gather the speakers' audio, decode it, ask whisper about a region.      *)
(*                                                                         *)
(* None of the three keeps anything for the next: a track is decoded as it *)
(* is, and the pipeline, which is external, makes regions of any length of *)
(* the samples.  So each is given whatever it can be given and steps       *)
(* alone, while the variables of the others are Idle.                      *)
(***************************************************************************)
EXTENDS Integers, Sequences

CONSTANTS
    Speakers, MaxSeq, MaxFaults,                      \* OneShotCollection
    ByteValues, Levels, Frames, MaxChunk,             \* PcmDecode
    WordValues, Lengths, Logprobs, Unknown, Default, Retries,  \* WhisperCall
    Idle

VARIABLES
    step,      \* what the run is at
    consent, stored, begun, collectPC, todo, listed, next, raw, tracks, skipped,
    frames, chunks, ingested, streamed,
    audio, wav, callPC, failures, reply, result

Collect == INSTANCE OneShotCollection WITH pc <- collectPC, chunks <- listed
Decode  == INSTANCE PcmDecode
Call    == INSTANCE WhisperCall WITH pc <- callPC

ASSUME StepsAssumption ==
    Collect!CollectionConstants /\ Decode!DecodeConstants /\ Call!CallConstants

collectVars == <<consent, stored, begun, collectPC, todo, listed, next, raw,
                 tracks, skipped>>
decodeVars  == <<frames, chunks, ingested, streamed>>
callVars    == <<audio, wav, callPC, failures, reply, result>>
stepVars    == <<step, collectVars, decodeVars, callVars>>

CollectIdle ==
    /\ consent = Idle /\ stored = Idle /\ begun = Idle /\ collectPC = Idle
    /\ todo = Idle /\ listed = Idle /\ next = Idle /\ raw = Idle
    /\ tracks = Idle /\ skipped = Idle
DecodeIdle == frames = Idle /\ chunks = Idle /\ ingested = Idle /\ streamed = Idle
CallIdle ==
    /\ audio = Idle /\ wav = Idle /\ callPC = Idle /\ failures = Idle
    /\ reply = Idle /\ result = Idle

Init == \/ step = "collect" /\ Collect!Init /\ DecodeIdle /\ CallIdle
        \/ step = "decode" /\ Decode!Init /\ CollectIdle /\ CallIdle
        \/ step = "call" /\ Call!Init /\ CollectIdle /\ DecodeIdle

Next == /\ UNCHANGED step
        /\ \/ step = "collect" /\ Collect!Next /\ UNCHANGED <<decodeVars, callVars>>
           \/ step = "decode" /\ Decode!Next /\ UNCHANGED <<collectVars, callVars>>
           \/ step = "call" /\ Call!Next /\ UNCHANGED <<collectVars, decodeVars>>

Spec == Init /\ [][Next]_stepVars

(* ------------------------------ properties ----------------------------- *)

(* The variables of the step under way hold values of their kinds: the     *)
(* sizes and samples fit their widths, nothing is decoded that was not     *)
(* captured (session_runner.rs:394-440, decode.rs:21-30, whisper.rs:186-213). *)
TypeOK == /\ step = "collect" => Collect!TypeOK
          /\ step = "decode" => Decode!TypeOK
          /\ step = "call" => Call!TypeOK

(* Tracks hold exactly what was downloaded of the speakers who consent, in *)
(* the order of capture (session_runner.rs:398-440).                       *)
TracksAreComplete == step = "collect" => Collect!TracksAreComplete

(* The branch without tracks is taken only if nobody who consents has a    *)
(* chunk stored, whatever requests fail (session_runner.rs:290-294).       *)
NoTracksMeansNoAudio == step = "collect" => Collect!NoTracksMeansNoAudio

(* Without a failed download or a gap, every chunk of a track lies at its  *)
(* capture instant (session_runner.rs:427-434).                            *)
WholeTracksAreOnClock == step = "collect" => Collect!WholeTracksAreOnClock

(* Joined chunks decode to the mean of each whole frame, wherever they are *)
(* cut (decode.rs:21-30).                                                  *)
JoinedIsTheMean == step = "decode" => Decode!JoinedIsTheMean

(* Chunks cut between frames give the same samples decoded one by one      *)
(* (session_runner.rs:199, 426).                                           *)
AlignedPathsAgree == step = "decode" => Decode!AlignedPathsAgree

(* The header finds the samples and the end of the file on every call, as  *)
(* long as the sizes fit their words (whisper.rs:186-213).                 *)
HeaderDescribesFile == step = "call" => Call!HeaderDescribesFile

(* The confidence lies among those the reply gives (whisper.rs:150-153).   *)
ConfidenceIsOfTheReply == step = "call" => Call!ConfidenceIsOfTheReply

(* A refusal that would be repeated is not sent again (whisper.rs:134-142). *)
RefusalsAreFinal == step = "call" => Call!RefusalsAreFinal
=============================================================================
