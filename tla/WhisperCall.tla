---------------------------- MODULE WhisperCall -----------------------------
(***************************************************************************)
(* HttpWhisperClient::transcribe for one region of speech: the WAV file it *)
(* sends, the class it gives each way to fail, the confidence it reads     *)
(* from a reply.  The pipeline that calls it is external: it calls again   *)
(* after a transient failure, a bounded number of times, as the head of    *)
(* whisper.rs says.                                                        *)
(*                                                                         *)
(* Log probabilities are integers here; a mean is a pair, sum and count.   *)
(***************************************************************************)
EXTENDS Integers, Sequences, Functions, Lists

CONSTANTS
    WordValues, \* how many values the sizes in a WAV header have (2^32)
    Lengths,    \* of the region, in samples
    Logprobs,   \* values a reply gives
    Unknown,    \* a log probability a reply does not give
    Default,    \* the confidence without any (-0.2)
    Retries     \* calls the pipeline makes again (3)

(* What the constants are; OneShotSteps assumes it.                        *)
CallConstants ==
    /\ WordValues \in Nat \ {0} /\ Lengths \subseteq Nat /\ Retries \in Nat
    /\ Logprobs \subseteq Int /\ Unknown \notin Logprobs /\ Default \in Int

SendErrors == {"timeout", "connect", "request", "redirect", "body"}
Statuses == {200, 400, 404, 408, 413, 429, 500, 503}

VARIABLES
    audio,     \* samples in the region
    wav,       \* the file of this call
    pc,
    failures,  \* what went wrong in the calls so far
    reply,     \* the JSON of a reply
    result     \* the confidence handed to the pipeline

whisperVars == <<audio, wav, pc, failures, reply, result>>

NoWav == [riff |-> 0, data |-> 0, length |-> 0]
NoReply == [avg |-> Unknown, segments |-> <<>>]
NoResult == [sum |-> 0, count |-> 0]

Init == /\ audio \in Lengths
        /\ wav = NoWav /\ pc = "call" /\ failures = <<>>
        /\ reply = NoReply /\ result = NoResult

(* u32 arithmetic of a release build.                                      *)
Word(n) == n % WordValues

(* The size of the whole file in the header, 8 too many.                   *)
EncodeWholeSize(samples) ==
    LET data == Word(samples * 2) IN
    [riff |-> Word(44 + data), data |-> data, length |-> 44 + samples * 2]

(* encode_wav_pcm16: both sizes of the header, and the file's length.      *)
Encode(samples) ==
    LET data == Word(samples * 2) IN
    [riff |-> Word(36 + data), data |-> data, length |-> 44 + samples * 2]

(* status is 0 if there was no reply with one.                             *)
Fails(what, status, class) ==
    /\ failures' = Append(failures, [what |-> what, status |-> status])
    /\ pc' = class
    /\ UNCHANGED <<audio, reply, result>>

(* An empty region is refused before anything is sent.                     *)
Begin == /\ pc = "call"
         /\ \/ audio = 0 /\ Fails("empty audio", 0, "fatal") /\ UNCHANGED wav
            \/ /\ audio > 0
               /\ wav' = Encode(audio)
               /\ pc' = "sent"
               /\ UNCHANGED <<audio, failures, reply, result>>

(* classify                                                                *)
SendFails ==
    /\ pc = "sent"
    /\ \E e \in SendErrors :
          Fails(e, 0, IF e \in {"timeout", "connect", "request"} THEN "transient" ELSE "fatal")
    /\ UNCHANGED wav

(* Every 4xx is worth another call.                                        *)
TransientIfClientError(code) == code >= 400

TransientStatus(code) == code >= 500 \/ code = 408 \/ code = 429

StatusFails ==
    /\ pc = "sent"
    /\ \E code \in Statuses \ {200} :
          Fails("status", code, IF TransientStatus(code) THEN "transient" ELSE "fatal")
    /\ UNCHANGED wav

(* serde cannot read the reply.                                            *)
ReplyUnreadable == pc = "sent" /\ Fails("json", 0, "transient") /\ UNCHANGED wav

(* The mean over all segments, a missing value counting as zero.           *)
AverageOverAll(segments) ==
    [sum |-> Total(Only(segments, Logprobs)), count |-> Len(segments)]

(* average_segment_logprob                                                 *)
AverageSegments(segments) ==
    LET known == Only(segments, Logprobs) IN
    [sum |-> Total(known), count |-> Len(known)]

(* avg_logprob, or the mean of those of the segments, or the default.      *)
Confidence(r) ==
    LET mean == AverageSegments(r.segments) IN
    IF r.avg # Unknown THEN [sum |-> r.avg, count |-> 1]
    ELSE IF mean.count > 0 THEN mean
    ELSE [sum |-> Default, count |-> 1]

ReplyRead ==
    /\ pc = "sent"
    /\ \E avg \in Logprobs \cup {Unknown}, n \in 0 .. 3 :
          \E segments \in [1 .. n -> Logprobs \cup {Unknown}] :
             reply' = [avg |-> avg, segments |-> segments]
    /\ result' = Confidence(reply')
    /\ pc' = "ok"
    /\ UNCHANGED <<audio, wav, failures>>

(* The pipeline calls again; the file is encoded anew.                     *)
Retry == /\ pc = "transient" /\ Len(failures) <= Retries
         /\ pc' = "call"
         /\ UNCHANGED <<audio, wav, failures, reply, result>>

Next == Begin \/ SendFails \/ StatusFails \/ ReplyUnreadable \/ ReplyRead \/ Retry

Spec == Init /\ [][Next]_whisperVars

(* ------------------------------ properties ----------------------------- *)

(* Every variable holds values of its kind.                                *)
TypeOK ==
    /\ audio \in Lengths
    /\ wav \in [riff : 0 .. WordValues - 1, data : 0 .. WordValues - 1, length : Nat]
    /\ pc \in {"call", "sent", "ok", "transient", "fatal"}
    /\ Len(failures) <= Retries + 1
    /\ result \in [sum : Int, count : Nat]

(* A reader of the header finds the samples and the end of the file, on    *)
(* every call, as long as the sizes fit their words (whisper.rs:186-213).  *)
HeaderDescribesFile ==
    pc = "sent" /\ wav.length - 8 < WordValues =>
        /\ wav.data = 2 * audio
        /\ wav.length = 44 + wav.data
        /\ wav.riff = wav.length - 8

(* The confidence is one the reply gives, or between the least and the     *)
(* greatest, and the default only if it gives none (whisper.rs:150-153).   *)
ConfidenceIsOfTheReply ==
    pc = "ok" =>
        LET given == IF reply.avg # Unknown THEN {reply.avg}
                     ELSE Range(reply.segments) \ {Unknown}
            values == IF given = {} THEN {Default} ELSE given
        IN  /\ \E least, most \in values : /\ least * result.count <= result.sum
                                           /\ result.sum <= most * result.count
            /\ result.count > 0

(* After a refusal that would be repeated the region is not sent again     *)
(* (whisper.rs:134-142).                                                   *)
RefusalsAreFinal ==
    \A i \in 1 .. Len(failures) - 1 : failures[i].status \notin {400, 404, 413}
=============================================================================
