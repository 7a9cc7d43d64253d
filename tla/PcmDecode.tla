----------------------------- MODULE PcmDecode ------------------------------
(***************************************************************************)
(* The way from captured stereo frames to the mono samples the pipeline    *)
(* gets, on both paths: a one-shot run joins the chunks of a speaker and   *)
(* decodes them once, a streaming run decodes every chunk alone.  The      *)
(* collector cuts its buffer into chunks anywhere.                         *)
(*                                                                         *)
(* A channel is two bytes and a frame four: left low, left high, right     *)
(* low, right high.                                                        *)
(***************************************************************************)
EXTENDS Integers, Sequences, SequencesExt

CONSTANTS
    ByteValues, \* how many values a byte has (256)
    Levels,     \* values a channel takes
    Frames,     \* how many frames are captured
    MaxChunk    \* bytes of the longest chunk

Top == (ByteValues * ByteValues) \div 2 \* 2^15 in the code
Samples == -Top .. Top - 1              \* i16

(* What the constants are; OneShotSteps assumes it.                        *)
DecodeConstants ==
    /\ ByteValues \in Nat \ {0} /\ ByteValues % 2 = 0
    /\ Frames \in Nat /\ MaxChunk \in Nat
    /\ Levels \subseteq Samples

VARIABLES
    frames,     \* what was captured
    chunks,     \* how it was cut so far
    ingested,   \* how many chunks the streaming path has decoded
    streamed    \* the samples that gave

pcmVars == <<frames, chunks, ingested, streamed>>

(* to_le_bytes, and from_le_bytes with its sign.                           *)
Bytes(v) == LET u == v % (2 * Top) IN <<u % ByteValues, u \div ByteValues>>
Signed(u) == IF u < Top THEN u ELSE u - 2 * Top
FromBytes(lo, hi) == Signed(lo + hi * ByteValues)

Captured == FlattenSeq([i \in DOMAIN frames |-> Bytes(frames[i].l) \o Bytes(frames[i].r)])

Uploaded == Len(FlattenSeq(chunks))

(* i32 division rounds toward zero.                                        *)
Half(n) == IF n >= 0 THEN n \div 2 ELSE -((-n) \div 2)

(* The sum as an i16.                                                      *)
DownmixNarrow(l, r) == Half(Signed((l + r) % (2 * Top)))

(* The sum as an i32, half of it as an i16.                                *)
Downmix(l, r) == Half(l + r)

(* decode_stereo_to_mono_i16: the bytes after the last whole frame are     *)
(* dropped.                                                                *)
Decode(raw) ==
    [i \in 1 .. Len(raw) \div 4 |->
        Downmix(FromBytes(raw[4 * i - 3], raw[4 * i - 2]),
                FromBytes(raw[4 * i - 1], raw[4 * i]))]

(* collect_speaker_tracks: all chunks joined, decoded at once.             *)
Joined == Decode(FlattenSeq(chunks))

Init == /\ frames \in [1 .. Frames -> [l : Levels, r : Levels]]
        /\ chunks = <<>> /\ ingested = 0 /\ streamed = <<>>

Upload(n) ==
    /\ Uploaded + n <= 4 * Frames
    /\ chunks' = Append(chunks, SubSeq(Captured, Uploaded + 1, Uploaded + n))
    /\ UNCHANGED <<frames, ingested, streamed>>

(* A streaming runner that takes the newest chunk there is.                *)
IngestNewest ==
    /\ ingested < Len(chunks)
    /\ streamed' = streamed \o Decode(chunks[Len(chunks)])
    /\ ingested' = Len(chunks)
    /\ UNCHANGED <<frames, chunks>>

(* A streaming runner that keeps the bytes of earlier chunks, to complete  *)
(* a frame, and decodes them again.                                        *)
IngestKeepingBytes ==
    /\ ingested < Len(chunks)
    /\ streamed' = streamed \o Decode(FlattenSeq(SubSeq(chunks, 1, ingested + 1)))
    /\ ingested' = ingested + 1
    /\ UNCHANGED <<frames, chunks>>

(* ingest_one: one chunk, decoded alone.                                   *)
Ingest ==
    /\ ingested < Len(chunks)
    /\ streamed' = streamed \o Decode(chunks[ingested + 1])
    /\ ingested' = ingested + 1
    /\ UNCHANGED <<frames, chunks>>

Next == (\E n \in 1 .. MaxChunk : Upload(n)) \/ Ingest

Spec == Init /\ [][Next]_pcmVars

(* ------------------------------ properties ----------------------------- *)

(* Every sample is an i16; no path decodes more than was captured.         *)
TypeOK ==
    /\ streamed \in Seq(Samples) /\ Joined \in Seq(Samples)
    /\ Len(streamed) <= Len(Joined) /\ Len(Joined) <= Frames
    /\ ingested \in 0 .. Len(chunks)

(* The joined bytes decode to the mean of each whole frame, rounded toward *)
(* zero, wherever the cuts lie and however near the channels are to        *)
(* saturation (decode.rs:21-30).                                           *)
JoinedIsTheMean ==
    \A i \in DOMAIN Joined :
        LET sum == frames[i].l + frames[i].r IN
        /\ 2 * Joined[i] - sum \in {-1, 0, 1}
        /\ sum >= 0 => 2 * Joined[i] <= sum
        /\ sum <= 0 => 2 * Joined[i] >= sum

Aligned == \A i \in DOMAIN chunks : Len(chunks[i]) % 4 = 0

(* As long as every cut lies between two frames, the two paths agree on    *)
(* all that has been ingested (session_runner.rs:199, 426).                *)
AlignedPathsAgree ==
    Aligned => streamed = Decode(FlattenSeq(SubSeq(chunks, 1, ingested)))
=============================================================================
