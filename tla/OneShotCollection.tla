------------------------- MODULE OneShotCollection --------------------------
(***************************************************************************)
(* How a one-shot run gathers a session's audio: the speakers who consent, *)
(* the chunks of each in the order of their numbers, whatever order they   *)
(* are listed in, one download after the other.  A listing that fails ends *)
(* the run, a download that fails skips its chunk.                         *)
(*                                                                         *)
(* A chunk is its number and lasts one unit of time, so a track is the     *)
(* sequence of its chunks' numbers and the instant it is said to start at. *)
(***************************************************************************)
EXTENDS Naturals, Sequences, SequencesExt, FiniteSets, Lists

CONSTANTS
    Speakers,   \* the session's participants
    MaxSeq,     \* chunk numbers are 0 .. MaxSeq
    MaxFaults   \* how many requests fail (a bound)

(* What the constants are; OneShotSteps assumes it.                        *)
CollectionConstants ==
    IsFiniteSet(Speakers) /\ MaxSeq \in Nat /\ MaxFaults \in Nat

(* "none": the field is missing.  "unnamed": "full", but without the       *)
(* pseudo id under which chunks are listed.                                *)
Scopes == {"full", "limited", "none", "unnamed"}

VARIABLES
    consent,   \* speaker -> scope (data-api)
    stored,    \* speaker -> numbers of the chunks there are (data-api)
    begun,     \* speaker -> instant of chunk 0; 0: instants are not recorded
    pc,
    todo,      \* speakers still to collect
    chunks,    \* the present speaker's chunks, in the order of their download
    next,      \* the one to download
    raw,       \* what was downloaded of them
    tracks,    \* the tracks so far
    skipped    \* history: speaker -> chunks whose download failed

collectVars == <<consent, stored, begun, pc, todo, chunks, next, raw, tracks, skipped>>
dataApi == <<consent, stored, begun>>

Seqs == 0 .. MaxSeq

Interval(S) == \A q \in S : \A p \in Seqs : p <= q /\ (\E o \in S : o <= p) => p \in S

(* An instant is recorded with every chunk of a speaker or with none.      *)
Instant(s, q) == IF begun[s] = 0 THEN 0 ELSE begun[s] + q

Faults == MapThenSumSet(LAMBDA s : Cardinality(skipped[s]), Speakers)

Init == /\ consent \in [Speakers -> Scopes]
        /\ stored \in [Speakers -> SUBSET Seqs]
        /\ begun \in [Speakers -> {0, 5}]
        /\ pc = "participants"
        /\ todo = <<>> /\ chunks = <<>> /\ next = 1 /\ raw = <<>> /\ tracks = <<>>
        /\ skipped = [s \in Speakers |-> {}]

(* Only those who have a pseudo id and whose scope is "full".              *)
Consented(listing) == Only(listing, {s \in Speakers : consent[s] = "full"})

(* list_participants: any order, or it fails.                              *)
ListParticipants ==
    /\ pc = "participants"
    /\ \/ /\ \E listing \in SetToSeqs(Speakers) : todo' = Consented(listing)
          /\ pc' = "speaker"
       \/ pc' = "failed" /\ UNCHANGED todo
    /\ UNCHANGED <<dataApi, chunks, next, raw, tracks, skipped>>

(* The chunks as they were listed.                                         *)
Unsorted(listing) == listing

(* chunks.sort_by_key(|c| c.seq)                                           *)
InOrder(listing) == Ascending(Range(listing))

(* list_chunks of the next speaker: any order, none, or it fails.          *)
ListChunks ==
    /\ pc = "speaker" /\ todo # <<>>
    /\ \/ /\ stored[Head(todo)] # {}
          /\ \E listing \in SetToSeqs(stored[Head(todo)]) : chunks' = InOrder(listing)
          /\ pc' = "download" /\ next' = 1 /\ raw' = <<>>
          /\ UNCHANGED todo
       \/ /\ stored[Head(todo)] = {}
          /\ todo' = Tail(todo)
          /\ UNCHANGED <<pc, chunks, next, raw>>
       \/ pc' = "failed" /\ UNCHANGED <<todo, chunks, next, raw>>
    /\ UNCHANGED <<dataApi, tracks, skipped>>

(* download_chunk: a failure is logged and the chunk skipped.              *)
Download ==
    /\ pc = "download" /\ next <= Len(chunks)
    /\ LET s == Head(todo) q == chunks[next] IN
       \/ raw' = Append(raw, q) /\ UNCHANGED skipped
       \/ /\ Faults < MaxFaults
          /\ skipped' = [skipped EXCEPT ![s] = @ \cup {q}]
          /\ UNCHANGED raw
    /\ next' = next + 1
    /\ UNCHANGED <<dataApi, pc, todo, chunks, tracks>>

(* A track that is said to start at the last chunk.                        *)
StartsAtLast(s) == Instant(s, chunks[Len(chunks)])

(* The instant of the first chunk listed, downloaded or not.               *)
StartsAt(s) == Instant(s, chunks[1])

(* The track is pushed, also when nothing of it could be downloaded.       *)
PushTrack ==
    /\ pc = "download" /\ next > Len(chunks)
    /\ tracks' = Append(tracks, [speaker |-> Head(todo), at |-> StartsAt(Head(todo)),
                                 pcm |-> raw])
    /\ todo' = Tail(todo)
    /\ pc' = "speaker"
    /\ UNCHANGED <<dataApi, chunks, next, raw, skipped>>

(* Without a track that has audio.                                         *)
NothingDownloaded == \A i \in DOMAIN tracks : tracks[i].pcm = <<>>

NoTracks == tracks = <<>>

(* Without a track the run marks the session, else it goes on, also with   *)
(* tracks of which nothing could be downloaded.                            *)
Collected ==
    /\ pc = "speaker" /\ todo = <<>>
    /\ pc' = IF NoTracks THEN "empty" ELSE "tracks"
    /\ UNCHANGED <<dataApi, todo, chunks, next, raw, tracks, skipped>>

Next == ListParticipants \/ ListChunks \/ Download \/ PushTrack \/ Collected

Spec == Init /\ [][Next]_collectVars

(* ------------------------------ properties ----------------------------- *)

HeardOf(s) == {i \in DOMAIN tracks : tracks[i].speaker = s}

(* Every variable holds values of its kind.                                *)
TypeOK ==
    /\ pc \in {"participants", "speaker", "download", "failed", "empty", "tracks"}
    /\ consent \in [Speakers -> Scopes] /\ stored \in [Speakers -> SUBSET Seqs]
    /\ todo \in Seq(Speakers) /\ chunks \in Seq(Seqs) /\ raw \in Seq(Seqs)
    /\ next \in 1 .. Len(chunks) + 1
    /\ \A i \in DOMAIN tracks : tracks[i].pcm \in Seq(Seqs)
    /\ skipped \in [Speakers -> SUBSET Seqs]

(* When the run goes on, each consenting speaker with audio has one track, *)
(* of exactly the chunks whose download did not fail, in the order of      *)
(* capture whatever order the data-api listed them in, and nobody else has *)
(* any (session_runner.rs:398-440).                                        *)
TracksAreComplete ==
    pc = "tracks" =>
        \A s \in Speakers :
            IF consent[s] = "full" /\ stored[s] # {}
            THEN \E i \in DOMAIN tracks :
                    /\ HeardOf(s) = {i}
                    /\ tracks[i].pcm = Ascending(stored[s] \ skipped[s])
            ELSE HeardOf(s) = {}

(* The branch without tracks, which marks the session at once, is taken    *)
(* only if nobody who consents has a chunk stored: a listing that fails    *)
(* does not lead there, nor do downloads, which leave their track empty    *)
(* (session_runner.rs:290-294).                                            *)
NoTracksMeansNoAudio ==
    pc = "empty" => \A s \in Speakers : consent[s] = "full" => stored[s] = {}

OnClock(t) == \A i \in DOMAIN t.pcm : t.at + i - 1 = Instant(t.speaker, t.pcm[i])

(* Without a failed download, and without a gap in what is stored, every   *)
(* chunk of a track lies at its capture instant (session_runner.rs:430).   *)
WholeTracksAreOnClock ==
    \A i \in DOMAIN tracks :
        LET s == tracks[i].speaker IN
        begun[s] # 0 /\ skipped[s] = {} /\ Interval(stored[s]) => OnClock(tracks[i])
=============================================================================
