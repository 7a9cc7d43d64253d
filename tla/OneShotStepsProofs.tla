------------------------- MODULE OneShotStepsProofs -------------------------
(***************************************************************************)
(* Theorems about the steps of a one-shot run: for any speakers, chunks    *)
(* and order of their listing, any cuts of what was captured, any region   *)
(* and reply and any number of calls.                                      *)
(***************************************************************************)
EXTENDS OneShotSteps, ListsProofs, TLAPS

Refusals == {400, 404, 413}

Reasons == {"empty audio", "status", "json"} \cup Call!SendErrors

Failure == [what : Reasons, status : Nat]

(* All failures but a fatal last one are worth another call.               *)
RefusedLast ==
    step = "call" =>
        /\ failures \in Seq(Failure)
        /\ \A i \in 1 .. Len(failures) :
              failures[i].status \notin Refusals \/ (callPC = "fatal" /\ i = Len(failures))

(* A failure is noted; only the last can be a refusal, and it is then      *)
(* fatal.                                                                  *)
LEMMA FailsKeeps ==
    ASSUME RefusedLast, step = "call", callPC # "fatal", step' = step,
           NEW what \in Reasons, NEW status \in Nat, NEW class,
           Call!Fails(what, status, class),
           class = "fatal" \/ status \notin Refusals
    PROVE  RefusedLast'
<1>. DEFINE new == [what |-> what, status |-> status]
<1>1. failures \in Seq(Failure) /\ Len(failures) \in Nat
      /\ \A i \in 1 .. Len(failures) : failures[i].status \notin Refusals
  BY DEF RefusedLast
<1>2. new \in Failure /\ new.status = status  BY DEF Failure
<1>3. failures' = Append(failures, new) /\ callPC' = class
  BY DEF Call!Fails
<1>. HIDE DEF new
<1>4. /\ failures' \in Seq(Failure) /\ Len(failures') = Len(failures) + 1
      /\ failures'[Len(failures) + 1] = new
      /\ \A i \in 1 .. Len(failures) : failures'[i] = failures[i]
  BY <1>1, <1>2, <1>3
<1>5. \A i \in 1 .. Len(failures') :
         i = Len(failures') \/ i \in 1 .. Len(failures)
  BY <1>1, <1>4
<1>. QED  BY <1>1, <1>2, <1>3, <1>4, <1>5 DEF RefusedLast

LEMMA CallKeeps ==
    ASSUME RefusedLast, step = "call", step' = step, Call!Next
    PROVE  RefusedLast'
<1>1. ASSUME NEW what \in Reasons, NEW status \in Nat, NEW class,
             callPC # "fatal", Call!Fails(what, status, class),
             class = "fatal" \/ status \notin Refusals
      PROVE  RefusedLast'
  BY <1>1, FailsKeeps
<1>2. ASSUME UNCHANGED failures, callPC # "fatal"  PROVE RefusedLast'
  BY <1>2 DEF RefusedLast
<1>3. 0 \in Nat /\ 0 \notin Refusals  BY DEF Refusals
<1>4. CASE Call!Begin
  <2>1. callPC # "fatal"  BY <1>4 DEF Call!Begin
  <2>2. CASE Call!Fails("empty audio", 0, "fatal")
    <3>1. "empty audio" \in Reasons  BY DEF Reasons
    <3>. QED  BY <1>1, <1>3, <2>1, <2>2, <3>1, Zenon
  <2>3. CASE UNCHANGED failures  BY <1>2, <2>1, <2>3
  <2>. QED  BY <1>4, <2>2, <2>3 DEF Call!Begin
<1>5. CASE Call!SendFails
  <2>1. callPC # "fatal"  BY <1>5 DEF Call!SendFails
  <2>2. PICK e \in Call!SendErrors :
           Call!Fails(e, 0, IF e \in {"timeout", "connect", "request"}
                            THEN "transient" ELSE "fatal")
    BY <1>5 DEF Call!SendFails
  <2>3. e \in Reasons  BY DEF Reasons
  <2>. QED  BY <1>1, <1>3, <2>1, <2>2, <2>3, Zenon
<1>6. CASE Call!StatusFails
  <2>1. callPC # "fatal" /\ "status" \in Reasons
    BY <1>6 DEF Call!StatusFails, Reasons
  <2>2. PICK code \in Call!Statuses \ {200} :
           Call!Fails("status", code,
                      IF Call!TransientStatus(code) THEN "transient" ELSE "fatal")
    BY <1>6 DEF Call!StatusFails
  <2>3. code \in Nat /\ (Call!TransientStatus(code) => code \notin Refusals)
    BY DEF Call!Statuses, Call!TransientStatus, Refusals
  <2>4. CASE Call!TransientStatus(code)
    <3>1. Call!Fails("status", code, "transient")  BY <2>2, <2>4
    <3>. QED  BY <1>1, <2>1, <2>3, <2>4, <3>1, Zenon
  <2>5. CASE ~Call!TransientStatus(code)
    <3>1. Call!Fails("status", code, "fatal")  BY <2>2, <2>5
    <3>. QED  BY <1>1, <2>1, <2>3, <3>1, Zenon
  <2>. QED  BY <2>4, <2>5
<1>7. CASE Call!ReplyUnreadable
  <2>1. callPC # "fatal" /\ Call!Fails("json", 0, "transient")
    BY <1>7 DEF Call!ReplyUnreadable
  <2>2. "json" \in Reasons  BY DEF Reasons
  <2>. QED  BY <1>1, <1>3, <2>1, <2>2, Zenon
<1>8. CASE Call!ReplyRead \/ Call!Retry
  <2>1. UNCHANGED failures /\ callPC # "fatal"
    BY <1>8 DEF Call!ReplyRead, Call!Retry
  <2>. QED  BY <1>2, <2>1
<1>. QED  BY <1>4, <1>5, <1>6, <1>7, <1>8 DEF Call!Next

(* A region that whisper refused for good is not sent again, whatever went *)
(* wrong before (whisper.rs:134-142).                                      *)
THEOREM RefusedIsOver == Spec => []RefusalsAreFinal
<1>1. Init => RefusedLast
  BY DEF Init, RefusedLast, Call!Init
<1>2. RefusedLast /\ [Next]_stepVars => RefusedLast'
  <2>. SUFFICES ASSUME RefusedLast, [Next]_stepVars  PROVE RefusedLast'
    OBVIOUS
  <2>1. CASE Next /\ step = "call"
    BY <2>1, CallKeeps DEF Next
  <2>2. CASE Next /\ step # "call"
    BY <2>2 DEF Next, RefusedLast
  <2>3. CASE UNCHANGED stepVars
    BY <2>3 DEF stepVars, callVars, RefusedLast
  <2>. QED  BY <2>1, <2>2, <2>3
<1>3. RefusedLast => RefusalsAreFinal
  <2>. SUFFICES ASSUME RefusedLast, step = "call",
                       NEW i \in 1 .. Len(failures) - 1
                PROVE  failures[i].status \notin Refusals
    BY DEF RefusalsAreFinal, Call!RefusalsAreFinal, Refusals
  <2>1. failures \in Seq(Failure) /\ Len(failures) \in Nat  BY DEF RefusedLast
  <2>2. i \in 1 .. Len(failures) /\ i # Len(failures)  BY <2>1
  <2>. QED  BY <2>2 DEF RefusedLast
<1>. QED  BY <1>1, <1>2, <1>3, PTL DEF Spec

(* --------------------------- the whisper call -------------------------- *)

(* The lists of the call are those the lemmas are about.                   *)
LEMMA CallOnly == \A list, S : Call!Only(list, S) = Only(list, S)
  BY DEF Call!Only, Only

LEMMA CallTotal == \A list : Call!Total(list) = Total(list)
  BY DEF Call!Total, Total

(* While a call is under way it can still fail; what was sent is the file  *)
(* of the region; the confidence is that of the reply.                     *)
CallHolds ==
    step = "call" =>
        /\ RefusedLast /\ Call!TypeOK
        /\ callPC \in {"call", "sent"} => Len(failures) <= Retries
        /\ callPC = "sent" => wav = Call!Encode(audio)
        /\ callPC = "ok" => Call!ConfidenceIsOfTheReply

(* A number that fits its word is the word.                                *)
LEMMA WordFits ==
    ASSUME StepsAssumption, NEW n \in Nat
    PROVE  /\ Call!Word(n) \in 0 .. WordValues - 1
           /\ n < WordValues => Call!Word(n) = n
  BY DEF StepsAssumption, Call!CallConstants, Call!Word

LEMMA EncodeTyped ==
    ASSUME StepsAssumption, NEW samples \in Nat
    PROVE  /\ Call!Encode(samples) \in [riff : 0 .. WordValues - 1,
                                        data : 0 .. WordValues - 1, length : Nat]
           /\ Call!Encode(samples).length = 44 + samples * 2
           /\ Call!Encode(samples).data = Call!Word(samples * 2)
           /\ Call!Encode(samples).riff = Call!Word(36 + Call!Word(samples * 2))
<1>. DEFINE data == Call!Word(samples * 2)  riff == Call!Word(36 + data)
<1>1. samples * 2 \in Nat /\ 44 + samples * 2 \in Nat  OBVIOUS
<1>2. data \in 0 .. WordValues - 1  BY <1>1, WordFits
<1>3. riff \in 0 .. WordValues - 1
  <2>1. 36 + data \in Nat  BY <1>2
  <2>. HIDE DEF data
  <2>. QED  BY <2>1, WordFits
<1>4. Call!Encode(samples) = [riff |-> riff, data |-> data, length |-> 44 + samples * 2]
  BY DEF Call!Encode
<1>. HIDE DEF data, riff
<1>5. Call!Encode(samples) \in [riff : 0 .. WordValues - 1,
                                data : 0 .. WordValues - 1, length : Nat]
  BY <1>1, <1>2, <1>3, <1>4
<1>. QED  BY <1>4, <1>5 DEF data, riff

(* The mean over the segments that give a value lies between the least and *)
(* the greatest of them.                                                   *)
LEMMA AverageIsBetween ==
    ASSUME StepsAssumption, NEW n \in Nat,
           NEW segments \in [1 .. n -> Logprobs \cup {Unknown}]
    PROVE  LET mean == Call!AverageSegments(segments)
               given == Call!Range(segments) \ {Unknown}
           IN  /\ mean.sum \in Int /\ mean.count \in Nat
               /\ mean.count = 0 => given = {}
               /\ mean.count > 0 =>
                     \E least, most \in given : /\ least * mean.count <= mean.sum
                                                /\ mean.sum <= most * mean.count
<1>. DEFINE mean == Call!AverageSegments(segments)
            given == Call!Range(segments) \ {Unknown}
            All == Logprobs \cup {Unknown}
            known == Only(segments, Logprobs)
<1>0. Logprobs \subseteq Int /\ Unknown \notin Logprobs
  BY DEF StepsAssumption, Call!CallConstants
<1>1. segments \in Seq(All) /\ Len(segments) = n  OBVIOUS
<1>2. Sifted(known, All, segments, Logprobs)
  <2>. HIDE DEF All
  <2>. QED  BY <1>1, OnlySifts
<1>3. mean.sum = Total(known) /\ mean.count = Len(known)
  BY CallOnly, CallTotal DEF Call!AverageSegments
<1>. HIDE DEF mean, known
<1>4. known \in Seq(Logprobs) /\ known \in Seq(Int) /\ Len(known) \in Nat
  <2>1. known \in Seq(All \cap Logprobs)  BY <1>2 DEF Sifted
  <2>2. All \cap Logprobs \subseteq Logprobs /\ All \cap Logprobs \subseteq Int  BY <1>0
  <2>. HIDE DEF All
  <2>. QED  BY <2>1, <2>2, SeqMonotonic
<1>5. given = {known[i] : i \in 1 .. Len(known)}
  <2>1. given = {segments[j] : j \in 1 .. n} \ {Unknown}
    BY DEF Call!Range
  <2>. HIDE DEF given
  <2>2. ASSUME NEW e \in given  PROVE \E i \in 1 .. Len(known) : known[i] = e
    <3>1. PICK j \in 1 .. Len(segments) : segments[j] = e  BY <1>1, <2>1
    <3>2. segments[j] \in Logprobs  BY <1>1, <2>1, <3>1
    <3>. QED  BY <1>2, <3>1, <3>2 DEF Sifted
  <2>3. ASSUME NEW i \in 1 .. Len(known)  PROVE known[i] \in given
    <3>1. PICK j \in 1 .. Len(segments) : known[i] = segments[j]  BY <1>2 DEF Sifted
    <3>2. known[i] \in Logprobs  BY <1>4
    <3>. QED  BY <1>0, <1>1, <2>1, <3>1, <3>2
  <2>. QED  BY <2>2, <2>3
<1>. HIDE DEF given
<1>6. mean.sum \in Int
  <2>1. CASE Len(known) = 0
    <3>1. PICK g : g[0] = 0 /\ Total(known) = g[Len(known)]  BY <1>4, TotalUnfolds
    <3>. QED  BY <1>3, <2>1, <3>1
  <2>2. CASE Len(known) > 0  BY <1>3, <1>4, <2>2, TotalBetween
  <2>. QED  BY <1>4, <2>1, <2>2
<1>7. mean.count = 0 => given = {}  BY <1>3, <1>5
<1>8. ASSUME mean.count > 0
      PROVE  \E least, most \in given : /\ least * mean.count <= mean.sum
                                        /\ mean.sum <= most * mean.count
  <2>1. PICK i, j \in 1 .. Len(known) : /\ known[i] * Len(known) <= Total(known)
                                        /\ Total(known) <= known[j] * Len(known)
    BY <1>3, <1>4, <1>8, TotalBetween
  <2>2. known[i] \in given /\ known[j] \in given  BY <1>5
  <2>. QED  BY <1>3, <2>1, <2>2
<1>9. mean.count \in Nat  BY <1>3, <1>4
<1>. QED  BY <1>6, <1>7, <1>8, <1>9 DEF mean, given

LEMMA ReplyGivesConfidence ==
    ASSUME StepsAssumption, Call!ReplyRead
    PROVE  result' \in [sum : Int, count : Nat] /\ Call!ConfidenceIsOfTheReply'
<1>. DEFINE All == Logprobs \cup {Unknown}
<1>1. PICK avg \in All, n \in 0 .. 3 :
         \E segments \in [1 .. n -> All] : reply' = [avg |-> avg, segments |-> segments]
  BY DEF Call!ReplyRead
<1>2. PICK segments \in [1 .. n -> All] : reply' = [avg |-> avg, segments |-> segments]
  BY <1>1
<1>. DEFINE mean == Call!AverageSegments(segments)
            heard == Call!Range(segments) \ {Unknown}
<1>3. /\ mean.sum \in Int /\ mean.count \in Nat
      /\ mean.count = 0 => heard = {}
      /\ mean.count > 0 => \E least, most \in heard : /\ least * mean.count <= mean.sum
                                                      /\ mean.sum <= most * mean.count
  <2>1. n \in Nat  OBVIOUS
  <2>. QED  BY <1>2, <2>1, AverageIsBetween
<1>4. mean = [sum |-> mean.sum, count |-> mean.count]  BY DEF Call!AverageSegments
<1>5. Logprobs \subseteq Int /\ Unknown \notin Logprobs /\ Default \in Int
  BY DEF StepsAssumption, Call!CallConstants
<1>6. reply'.avg = avg /\ reply'.segments = segments  BY <1>2
<1>7. result' = Call!Confidence(reply')  BY DEF Call!ReplyRead
<1>8. result' = IF avg # Unknown THEN [sum |-> avg, count |-> 1]
                ELSE IF mean.count > 0 THEN mean
                ELSE [sum |-> Default, count |-> 1]
  BY <1>6, <1>7 DEF Call!Confidence
<1>. HIDE DEF mean, heard
<1>. DEFINE given == IF avg # Unknown THEN {avg} ELSE heard
            values == IF given = {} THEN {Default} ELSE given
            Between(low, high) == /\ low * result'.count <= result'.sum
                                  /\ result'.sum <= high * result'.count
<1>9. /\ result' \in [sum : Int, count : Nat] /\ result'.count > 0
      /\ \E least, most \in values : Between(least, most)
  <2>1. CASE avg # Unknown
    <3>1. avg \in Int /\ result'.sum = avg /\ result'.count = 1
          /\ result' = [sum |-> avg, count |-> 1]
      BY <1>1, <1>5, <1>8, <2>1
    <3>2. avg \in values  BY <2>1
    <3>3. Between(avg, avg)  BY <3>1
    <3>. HIDE DEF values, Between
    <3>4. result' \in [sum : Int, count : Nat] /\ result'.count > 0  BY <3>1
    <3>. QED  BY <3>2, <3>3, <3>4
  <2>2. CASE avg = Unknown /\ mean.count > 0
    <3>1. result' = mean  BY <1>8, <2>2
    <3>2. PICK least, most \in heard : least * mean.count <= mean.sum
                                       /\ mean.sum <= most * mean.count
      BY <1>3, <2>2
    <3>3. least \in values /\ most \in values  BY <2>2, <3>2
    <3>. HIDE DEF values
    <3>4. result' \in [sum : Int, count : Nat]  BY <1>3, <1>4, <3>1
    <3>. QED  BY <1>3, <2>2, <3>1, <3>2, <3>3, <3>4
  <2>3. CASE avg = Unknown /\ ~(mean.count > 0)
    <3>1. heard = {}  BY <1>3, <2>3
    <3>2. result' = [sum |-> Default, count |-> 1]  BY <1>8, <2>3
    <3>3. result'.sum = Default /\ result'.count = 1  BY <3>2
    <3>4. Default \in values  BY <2>3, <3>1
    <3>. QED  BY <1>5, <3>2, <3>3, <3>4
  <2>. QED  BY <2>1, <2>2, <2>3
<1>10. values = LET gave == IF reply'.avg # Unknown THEN {reply'.avg}
                            ELSE Call!Range(reply'.segments) \ {Unknown}
                IN  IF gave = {} THEN {Default} ELSE gave
  BY <1>6 DEF heard
<1>. HIDE DEF values
<1>. QED  BY <1>9, <1>10 DEF Call!ConfidenceIsOfTheReply

LEMMA CallHoldsAtFirst == StepsAssumption /\ Init => CallHolds
<1>. SUFFICES ASSUME StepsAssumption, Init, step = "call"  PROVE CallHolds
  BY DEF CallHolds
<1>1. Call!Init  BY DEF Init
<1>2. Retries \in Nat /\ WordValues \in Nat \ {0} /\ 0 \in 0 .. WordValues - 1
  BY DEF StepsAssumption, Call!CallConstants
<1>3. RefusedLast  BY <1>1 DEF RefusedLast, Call!Init
<1>4. failures = <<>> /\ Len(failures) = 0  BY <1>1 DEF Call!Init
<1>5. wav \in [riff : 0 .. WordValues - 1, data : 0 .. WordValues - 1, length : Nat]
  BY <1>1, <1>2 DEF Call!Init, Call!NoWav
<1>6. result \in [sum : Int, count : Nat]  BY <1>1 DEF Call!Init, Call!NoResult
<1>7. audio \in Lengths /\ callPC = "call"  BY <1>1 DEF Call!Init
<1>. QED  BY <1>2, <1>3, <1>4, <1>5, <1>6, <1>7 DEF CallHolds, Call!TypeOK

(* A call that fails leaves all but the failures as they are.              *)
LEMMA FailsHolds ==
    ASSUME StepsAssumption, CallHolds, step = "call", step' = step, RefusedLast',
           callPC \in {"call", "sent"}, NEW what, NEW status,
           NEW class \in {"transient", "fatal"}, Call!Fails(what, status, class),
           UNCHANGED wav
    PROVE  CallHolds'
<1>1. /\ Call!TypeOK /\ Len(failures) <= Retries /\ RefusedLast  BY DEF CallHolds
<1>2. failures \in Seq(Failure)  BY <1>1 DEF RefusedLast
<1>3. failures' = Append(failures, [what |-> what, status |-> status])
      /\ callPC' = class /\ UNCHANGED <<audio, reply, result>>
  BY DEF Call!Fails
<1>4. Len(failures') = Len(failures) + 1 /\ Len(failures) \in Nat  BY <1>2, <1>3
<1>5. Retries \in Nat  BY DEF StepsAssumption, Call!CallConstants
<1>6. Call!TypeOK'  BY <1>1, <1>3, <1>4, <1>5 DEF Call!TypeOK
<1>. QED  BY <1>3, <1>6 DEF CallHolds

LEMMA CallHoldsOn ==
    ASSUME StepsAssumption, CallHolds, step = "call", step' = step, Call!Next
    PROVE  CallHolds'
<1>1. Call!TypeOK /\ RefusedLast /\ (callPC \in {"call", "sent"} => Len(failures) <= Retries)
  BY DEF CallHolds
<1>2. RefusedLast'  BY <1>1, CallKeeps
<1>3. Lengths \subseteq Nat /\ Retries \in Nat
  BY DEF StepsAssumption, Call!CallConstants
<1>4. ASSUME NEW what, NEW status, NEW class \in {"transient", "fatal"},
             callPC \in {"call", "sent"},
             Call!Fails(what, status, class), UNCHANGED wav
      PROVE  CallHolds'
  BY <1>2, <1>4, FailsHolds
<1>5. CASE Call!Begin
  <2>1. callPC \in {"call", "sent"}  BY <1>5 DEF Call!Begin
  <2>2. CASE Call!Fails("empty audio", 0, "fatal") /\ UNCHANGED wav
    <3>1. "fatal" \in {"transient", "fatal"}  OBVIOUS
    <3>. QED  BY <1>4, <2>1, <2>2, <3>1, Zenon
  <2>3. CASE /\ audio > 0 /\ wav' = Call!Encode(audio) /\ callPC' = "sent"
             /\ UNCHANGED <<audio, failures, reply, result>>
    <3>1. audio \in Nat /\ audio' = audio  BY <1>1, <1>3, <2>3 DEF Call!TypeOK
    <3>2. wav' \in [riff : 0 .. WordValues - 1, data : 0 .. WordValues - 1, length : Nat]
      BY <2>3, <3>1, EncodeTyped
    <3>3. Call!TypeOK'  BY <1>1, <2>3, <3>2 DEF Call!TypeOK
    <3>4. wav' = Call!Encode(audio)'  BY <2>3 DEF Call!Encode, Call!Word
    <3>. QED  BY <1>1, <1>2, <2>1, <2>3, <3>3, <3>4 DEF CallHolds
  <2>. QED  BY <1>5, <2>2, <2>3 DEF Call!Begin
<1>6. CASE Call!SendFails
  <2>1. callPC \in {"call", "sent"} /\ UNCHANGED wav  BY <1>6 DEF Call!SendFails
  <2>2. PICK e : Call!Fails(e, 0, IF e \in {"timeout", "connect", "request"}
                                  THEN "transient" ELSE "fatal")
    BY <1>6 DEF Call!SendFails
  <2>3. (IF e \in {"timeout", "connect", "request"} THEN "transient" ELSE "fatal")
           \in {"transient", "fatal"}
    OBVIOUS
  <2>. QED  BY <1>4, <2>1, <2>2, <2>3
<1>7. CASE Call!StatusFails
  <2>1. callPC \in {"call", "sent"} /\ UNCHANGED wav  BY <1>7 DEF Call!StatusFails
  <2>2. PICK code : Call!Fails("status", code, IF Call!TransientStatus(code)
                                               THEN "transient" ELSE "fatal")
    BY <1>7 DEF Call!StatusFails
  <2>3. (IF Call!TransientStatus(code) THEN "transient" ELSE "fatal")
           \in {"transient", "fatal"}
    OBVIOUS
  <2>. QED  BY <1>4, <2>1, <2>2, <2>3
<1>8. CASE Call!ReplyUnreadable
  <2>1. callPC \in {"call", "sent"} /\ UNCHANGED wav /\ Call!Fails("json", 0, "transient")
    BY <1>8 DEF Call!ReplyUnreadable
  <2>2. "transient" \in {"transient", "fatal"}  OBVIOUS
  <2>. QED  BY <1>4, <2>1, <2>2, Zenon
<1>9. CASE Call!ReplyRead
  <2>1. result' \in [sum : Int, count : Nat] /\ Call!ConfidenceIsOfTheReply'
    BY <1>9, ReplyGivesConfidence
  <2>2. callPC' = "ok" /\ UNCHANGED <<audio, wav, failures>>  BY <1>9 DEF Call!ReplyRead
  <2>3. Call!TypeOK'  BY <1>1, <2>1, <2>2 DEF Call!TypeOK
  <2>. QED  BY <1>2, <2>1, <2>2, <2>3 DEF CallHolds
<1>10. CASE Call!Retry
  <2>1. /\ callPC' = "call" /\ Len(failures) <= Retries
        /\ UNCHANGED <<audio, wav, failures, reply, result>>
    BY <1>10 DEF Call!Retry
  <2>2. Call!TypeOK'  BY <1>1, <2>1 DEF Call!TypeOK
  <2>. QED  BY <1>2, <2>1, <2>2 DEF CallHolds
<1>. QED  BY <1>5, <1>6, <1>7, <1>8, <1>9, <1>10 DEF Call!Next

LEMMA CallHoldsAlways == Spec => []CallHolds
<1>1. Init => CallHolds  BY StepsAssumption, CallHoldsAtFirst
<1>2. CallHolds /\ [Next]_stepVars => CallHolds'
  <2>. SUFFICES ASSUME CallHolds, [Next]_stepVars  PROVE CallHolds'
    OBVIOUS
  <2>1. CASE Next /\ step = "call"  BY <2>1, StepsAssumption, CallHoldsOn DEF Next
  <2>2. CASE Next /\ step # "call"  BY <2>2 DEF Next, CallHolds
  <2>3. CASE UNCHANGED stepVars
    <3>1. UNCHANGED step /\ UNCHANGED callVars  BY <2>3 DEF stepVars
    <3>. QED
      BY <3>1 DEF callVars, CallHolds, RefusedLast, Call!TypeOK, Call!Encode, Call!Word,
                  Call!ConfidenceIsOfTheReply
  <2>. QED  BY <2>1, <2>2, <2>3
<1>. QED  BY <1>1, <1>2, PTL DEF Spec

(* Whatever a region's length and however often it is sent, the header of  *)
(* its file is right as long as the sizes fit (whisper.rs:186-213).        *)
THEOREM HeaderIsTrue == Spec => []HeaderDescribesFile
<1>1. CallHolds => HeaderDescribesFile
  <2>. SUFFICES ASSUME CallHolds, step = "call", callPC = "sent",
                       wav.length - 8 < WordValues
                PROVE  /\ wav.data = 2 * audio
                       /\ wav.length = 44 + wav.data
                       /\ wav.riff = wav.length - 8
    BY DEF HeaderDescribesFile, Call!HeaderDescribesFile
  <2>1. audio \in Nat
    BY StepsAssumption DEF CallHolds, Call!TypeOK, StepsAssumption, Call!CallConstants
  <2>2. /\ wav.length = 44 + audio * 2 /\ wav.data = Call!Word(audio * 2)
        /\ wav.riff = Call!Word(36 + Call!Word(audio * 2))
    BY <2>1, StepsAssumption, EncodeTyped DEF CallHolds
  <2>3. audio * 2 \in Nat /\ 36 + audio * 2 \in Nat /\ WordValues \in Nat
    BY <2>1, StepsAssumption DEF StepsAssumption, Call!CallConstants
  <2>4. 36 + audio * 2 < WordValues /\ audio * 2 < WordValues  BY <2>2, <2>3
  <2>5. Call!Word(audio * 2) = audio * 2  BY <2>3, <2>4, StepsAssumption, WordFits
  <2>6. Call!Word(36 + audio * 2) = 36 + audio * 2
    BY <2>3, <2>4, StepsAssumption, WordFits
  <2>. QED  BY <2>1, <2>2, <2>5, <2>6
<1>. QED  BY <1>1, CallHoldsAlways, PTL

(* Whatever segments a reply has, with or without values, the confidence   *)
(* is one it gives or lies between two of them (whisper.rs:150-153).       *)
THEOREM ConfidenceIsGiven == Spec => []ConfidenceIsOfTheReply
<1>1. CallHolds => ConfidenceIsOfTheReply
  BY DEF CallHolds, ConfidenceIsOfTheReply, Call!ConfidenceIsOfTheReply
<1>. QED  BY <1>1, CallHoldsAlways, PTL

(* ------------------------------- decoding ------------------------------ *)

LEMMA DecodeFlatten == \A parts : Decode!FlattenSeq(parts) = FlattenSeq(parts)
  BY DEF Decode!FlattenSeq, FlattenSeq

Byte == 0 .. ByteValues - 1

(* As many samples as pairs of bytes.                                      *)
LEMMA TwoBytes ==
    ASSUME StepsAssumption
    PROVE  /\ ByteValues \in Nat \ {0}
           /\ Decode!Top \in Nat \ {0}
           /\ 2 * Decode!Top = ByteValues * ByteValues
<1>1. ByteValues \in Nat \ {0} /\ ByteValues % 2 = 0
  BY DEF StepsAssumption, Decode!DecodeConstants
<1>. DEFINE k == ByteValues \div 2
<1>2. ByteValues = 2 * k /\ k \in Nat \ {0}  BY <1>1
<1>. HIDE DEF k
<1>3. ByteValues * ByteValues = 4 * (k * k)  BY <1>2
<1>4. k * k \in Nat \ {0}  BY <1>2
<1>5. (4 * (k * k)) \div 2 = 2 * (k * k)  BY <1>4
<1>6. Decode!Top = 2 * (k * k)  BY <1>3, <1>5 DEF Decode!Top
<1>. QED  BY <1>1, <1>3, <1>4, <1>6

(* Two bytes are a sample, and a sample's bytes are that sample again.     *)
LEMMA BytesAreSample ==
    ASSUME StepsAssumption, NEW lo \in Byte, NEW hi \in Byte
    PROVE  Decode!FromBytes(lo, hi) \in Decode!Samples
<1>. DEFINE B == ByteValues  u == lo + hi * ByteValues
<1>1. B \in Nat \ {0} /\ Decode!Top \in Nat \ {0} /\ 2 * Decode!Top = B * B  BY TwoBytes
<1>2. lo \in 0 .. B - 1 /\ hi \in 0 .. B - 1  BY DEF Byte
<1>3. u = lo + hi * B  OBVIOUS
<1>. HIDE DEF B, u
<1>4. hi * B <= (B - 1) * B /\ hi * B \in Nat  BY <1>1, <1>2
<1>5. (B - 1) * B = B * B - B /\ B * B \in Nat  BY <1>1
<1>6. u \in 0 .. 2 * Decode!Top - 1  BY <1>1, <1>2, <1>3, <1>4, <1>5
<1>7. Decode!Signed(u) \in Decode!Samples
  BY <1>1, <1>6 DEF Decode!Signed, Decode!Samples
<1>. QED  BY <1>7 DEF Decode!FromBytes, u

LEMMA SampleIsBytes ==
    ASSUME StepsAssumption, NEW v \in Decode!Samples
    PROVE  /\ Decode!Bytes(v) \in Seq(Byte) /\ Len(Decode!Bytes(v)) = 2
           /\ Decode!FromBytes(Decode!Bytes(v)[1], Decode!Bytes(v)[2]) = v
<1>. DEFINE B == ByteValues  M == 2 * Decode!Top  u == v % M  lo == u % B  hi == u \div B
<1>1. B \in Nat \ {0} /\ Decode!Top \in Nat \ {0} /\ 2 * Decode!Top = B * B  BY TwoBytes
<1>2. v \in -Decode!Top .. Decode!Top - 1  BY DEF Decode!Samples
<1>3. u \in 0 .. M - 1 /\ (v >= 0 => u = v) /\ (v < 0 => u = v + M)
  BY <1>1, <1>2
<1>4. Decode!Bytes(v) = <<lo, hi>>  BY DEF Decode!Bytes
<1>5. Decode!Signed(u) = v
  <2>. HIDE DEF u
  <2>. QED  BY <1>1, <1>2, <1>3 DEF Decode!Signed
<1>6. M = B * B  BY <1>1
<1>. HIDE DEF M, u, B
<1>7. u \in Nat /\ u < B * B  BY <1>1, <1>3, <1>6
<1>8. lo \in 0 .. B - 1 /\ hi \in Nat /\ lo + hi * B = u
  BY <1>1, <1>7
<1>. HIDE DEF lo, hi
<1>9. hi <= B - 1
  <2>. SUFFICES ASSUME hi >= B  PROVE FALSE  BY <1>1, <1>8
  <2>1. hi * B >= B * B  BY <1>1, <1>8
  <2>2. hi * B \in Nat /\ B * B \in Nat  BY <1>1, <1>8
  <2>. QED  BY <1>7, <1>8, <2>1, <2>2
<1>10. lo \in Byte /\ hi \in Byte  BY <1>1, <1>8, <1>9 DEF Byte, B
<1>11. Decode!FromBytes(lo, hi) = v
  <2>1. lo + hi * ByteValues = u  BY <1>8 DEF B
  <2>. QED  BY <1>5, <2>1 DEF Decode!FromBytes
<1>. QED  BY <1>4, <1>10, <1>11

(* Half of a sum of two samples is a sample, and the nearer to zero of the *)
(* two that could be it.                                                   *)
LEMMA HalfIsMean ==
    ASSUME StepsAssumption, NEW l \in Decode!Samples, NEW r \in Decode!Samples
    PROVE  /\ Decode!Downmix(l, r) \in Decode!Samples
           /\ 2 * Decode!Downmix(l, r) - (l + r) \in {-1, 0, 1}
           /\ l + r >= 0 => 2 * Decode!Downmix(l, r) <= l + r
           /\ l + r <= 0 => 2 * Decode!Downmix(l, r) >= l + r
<1>1. Decode!Top \in Nat \ {0}  BY TwoBytes
<1>2. l \in Int /\ r \in Int  BY <1>1 DEF Decode!Samples
<1>3. CASE l + r >= 0
  BY <1>1, <1>2, <1>3 DEF Decode!Samples, Decode!Downmix, Decode!Half
<1>4. CASE l + r < 0
  <2>. DEFINE n == -(l + r)
  <2>1. n \in Nat /\ l + r = -n /\ n > 0 /\ ~(l + r >= 0) /\ n <= 2 * Decode!Top
    BY <1>1, <1>2, <1>4 DEF Decode!Samples
  <2>2. Decode!Downmix(l, r) = -(n \div 2)
    BY <2>1 DEF Decode!Downmix, Decode!Half
  <2>. HIDE DEF n
  <2>3. n \div 2 \in Nat /\ n - 2 * (n \div 2) \in {0, 1}  BY <2>1
  <2>4. -(n \div 2) \in Decode!Samples  BY <1>1, <2>1, <2>3 DEF Decode!Samples
  <2>. QED  BY <1>2, <2>1, <2>2, <2>3, <2>4
<1>. QED  BY <1>2, <1>3, <1>4

(* The sample of four bytes.                                               *)
SampleOf(a, b, c, d) ==
    Decode!Downmix(Decode!FromBytes(a, b), Decode!FromBytes(c, d))

LEMMA DecodeTyped ==
    ASSUME StepsAssumption, NEW bytes \in Seq(Byte)
    PROVE  /\ Decode!Decode(bytes) \in Seq(Decode!Samples)
           /\ Len(Decode!Decode(bytes)) = Len(bytes) \div 4
           /\ 4 * Len(Decode!Decode(bytes)) <= Len(bytes)
           /\ \A i \in 1 .. Len(bytes) \div 4 :
                 Decode!Decode(bytes)[i] =
                    SampleOf(bytes[4 * i - 3], bytes[4 * i - 2], bytes[4 * i - 1], bytes[4 * i])
<1>. DEFINE n == Len(bytes) \div 4
            e == [i \in 1 .. n |-> SampleOf(bytes[4 * i - 3], bytes[4 * i - 2],
                                            bytes[4 * i - 1], bytes[4 * i])]
<1>1. Len(bytes) \in Nat /\ n \in Nat /\ 4 * n <= Len(bytes)  OBVIOUS
<1>2. Decode!Decode(bytes) = e  BY DEF Decode!Decode, SampleOf
<1>3. ASSUME NEW i \in 1 .. n  PROVE e[i] \in Decode!Samples
  <2>1. /\ 4 * i - 3 \in 1 .. Len(bytes) /\ 4 * i - 2 \in 1 .. Len(bytes)
        /\ 4 * i - 1 \in 1 .. Len(bytes) /\ 4 * i \in 1 .. Len(bytes)
    BY <1>1
  <2>2. /\ bytes[4 * i - 3] \in Byte /\ bytes[4 * i - 2] \in Byte
        /\ bytes[4 * i - 1] \in Byte /\ bytes[4 * i] \in Byte
    BY <2>1
  <2>3. /\ Decode!FromBytes(bytes[4 * i - 3], bytes[4 * i - 2]) \in Decode!Samples
        /\ Decode!FromBytes(bytes[4 * i - 1], bytes[4 * i]) \in Decode!Samples
    BY <2>2, BytesAreSample
  <2>4. SampleOf(bytes[4 * i - 3], bytes[4 * i - 2], bytes[4 * i - 1], bytes[4 * i])
           \in Decode!Samples
    BY <2>3, HalfIsMean DEF SampleOf
  <2>. QED  BY <2>4
<1>4. \A i \in 1 .. n : e[i] = SampleOf(bytes[4 * i - 3], bytes[4 * i - 2],
                                        bytes[4 * i - 1], bytes[4 * i])
  OBVIOUS
<1>5. e \in Seq(Decode!Samples) /\ Len(e) = n
  <2>1. e = [i \in 1 .. n |-> e[i]]  OBVIOUS
  <2>. HIDE DEF e, n
  <2>2. e \in [1 .. n -> Decode!Samples]  BY <1>3, <2>1
  <2>. QED  BY <1>1, <2>2
<1>. HIDE DEF e
<1>. QED  BY <1>1, <1>2, <1>4, <1>5

(* What is joined at a frame's end is decoded as if it were not.           *)
LEMMA DecodeJoined ==
    ASSUME StepsAssumption, NEW a \in Seq(Byte), NEW b \in Seq(Byte), Len(a) % 4 = 0
    PROVE  Decode!Decode(a \o b) = Decode!Decode(a) \o Decode!Decode(b)
<1>. DEFINE c == a \o b  k == Len(a) \div 4  m == Len(b) \div 4
            da == Decode!Decode(a)  db == Decode!Decode(b)  dc == Decode!Decode(c)
<1>1. /\ c \in Seq(Byte) /\ Len(c) = Len(a) + Len(b)
      /\ \A i \in 1 .. Len(a) + Len(b) : c[i] = IF i <= Len(a) THEN a[i] ELSE b[i - Len(a)]
  BY ConcatProperties
<1>2. Len(a) = 4 * k /\ k \in Nat /\ m \in Nat /\ Len(b) \in Nat /\ 4 * m <= Len(b)
      /\ Len(c) \div 4 = k + m
  <2>1. Len(a) \in Nat /\ Len(b) \in Nat  OBVIOUS
  <2>2. \A x, y \in Nat : x % 4 = 0 =>
           /\ x = 4 * (x \div 4) /\ x \div 4 \in Nat
           /\ y \div 4 \in Nat /\ 4 * (y \div 4) <= y
           /\ (x + y) \div 4 = x \div 4 + y \div 4
    OBVIOUS
  <2>. QED  BY <1>1, <2>1, <2>2
<1>3. /\ da \in Seq(Decode!Samples) /\ Len(da) = k
      /\ \A i \in 1 .. k : da[i] = SampleOf(a[4 * i - 3], a[4 * i - 2], a[4 * i - 1], a[4 * i])
  BY DecodeTyped
<1>4. /\ db \in Seq(Decode!Samples) /\ Len(db) = m
      /\ \A i \in 1 .. m : db[i] = SampleOf(b[4 * i - 3], b[4 * i - 2], b[4 * i - 1], b[4 * i])
  BY DecodeTyped
<1>5. /\ dc \in Seq(Decode!Samples) /\ Len(dc) = k + m
      /\ \A i \in 1 .. k + m :
            dc[i] = SampleOf(c[4 * i - 3], c[4 * i - 2], c[4 * i - 1], c[4 * i])
  <2>. HIDE DEF c
  <2>1. /\ dc \in Seq(Decode!Samples) /\ Len(dc) = Len(c) \div 4
        /\ \A i \in 1 .. Len(c) \div 4 :
              dc[i] = SampleOf(c[4 * i - 3], c[4 * i - 2], c[4 * i - 1], c[4 * i])
    BY <1>1, DecodeTyped
  <2>. HIDE DEF dc
  <2>. QED  BY <1>2, <2>1
<1>. HIDE DEF c, k, m, da, db, dc
<1>6. /\ da \o db \in Seq(Decode!Samples) /\ Len(da \o db) = k + m
      /\ \A i \in 1 .. k + m : (da \o db)[i] = IF i <= k THEN da[i] ELSE db[i - k]
  BY <1>3, <1>4, ConcatProperties
<1>7. ASSUME NEW i \in 1 .. k + m  PROVE dc[i] = (da \o db)[i]
  <2>1. CASE i <= k
    <3>1. /\ 4 * i - 3 \in 1 .. Len(a) /\ 4 * i - 2 \in 1 .. Len(a)
          /\ 4 * i - 1 \in 1 .. Len(a) /\ 4 * i \in 1 .. Len(a)
      BY <1>2, <2>1
    <3>2. \A j \in 1 .. Len(a) : c[j] = a[j]
      <4>1. Len(a) \in Nat /\ Len(b) \in Nat  BY <1>2
      <4>2. \A j \in 1 .. Len(a) : j \in 1 .. Len(a) + Len(b) /\ j <= Len(a)  BY <4>1
      <4>. QED  BY <1>1, <4>2
    <3>3. /\ c[4 * i - 3] = a[4 * i - 3] /\ c[4 * i - 2] = a[4 * i - 2]
          /\ c[4 * i - 1] = a[4 * i - 1] /\ c[4 * i] = a[4 * i]
      BY <3>1, <3>2
    <3>4. dc[i] = SampleOf(a[4 * i - 3], a[4 * i - 2], a[4 * i - 1], a[4 * i])
      BY <1>5, <3>3
    <3>5. i \in 1 .. k  BY <1>2, <2>1
    <3>. QED  BY <1>3, <1>6, <2>1, <3>4, <3>5
  <2>2. CASE ~(i <= k)
    <3>. DEFINE h == i - k
    <3>1. h \in 1 .. m /\ i = h + k  BY <1>2, <2>2
    <3>. HIDE DEF h
    <3>2. \A j \in 1 .. Len(b) : c[j + Len(a)] = b[j]
      <4>. SUFFICES ASSUME NEW j \in 1 .. Len(b)  PROVE c[j + Len(a)] = b[j]  OBVIOUS
      <4>1. /\ j + Len(a) \in 1 .. Len(a) + Len(b) /\ ~(j + Len(a) <= Len(a))
            /\ (j + Len(a)) - Len(a) = j
        BY <1>2
      <4>. QED  BY <1>1, <4>1
    <3>3. /\ 4 * h - 3 \in 1 .. Len(b) /\ 4 * h - 2 \in 1 .. Len(b)
          /\ 4 * h - 1 \in 1 .. Len(b) /\ 4 * h \in 1 .. Len(b)
      BY <1>2, <3>1
    <3>4. /\ 4 * i - 3 = (4 * h - 3) + Len(a) /\ 4 * i - 2 = (4 * h - 2) + Len(a)
          /\ 4 * i - 1 = (4 * h - 1) + Len(a) /\ 4 * i = (4 * h) + Len(a)
      BY <1>2, <3>1
    <3>5. /\ c[4 * i - 3] = b[4 * h - 3] /\ c[4 * i - 2] = b[4 * h - 2]
          /\ c[4 * i - 1] = b[4 * h - 1] /\ c[4 * i] = b[4 * h]
      <4>1. c[(4 * h - 3) + Len(a)] = b[4 * h - 3]  BY <3>2, <3>3
      <4>2. c[(4 * h - 2) + Len(a)] = b[4 * h - 2]  BY <3>2, <3>3
      <4>3. c[(4 * h - 1) + Len(a)] = b[4 * h - 1]  BY <3>2, <3>3
      <4>4. c[4 * h + Len(a)] = b[4 * h]  BY <3>2, <3>3
      <4>. QED  BY <3>4, <4>1, <4>2, <4>3, <4>4
    <3>6. dc[i] = SampleOf(b[4 * h - 3], b[4 * h - 2], b[4 * h - 1], b[4 * h])
      BY <1>5, <3>5
    <3>7. (da \o db)[i] = db[h]
      <4>1. i - k = h  BY <1>2, <3>1
      <4>. QED  BY <1>6, <2>2, <4>1
    <3>. QED  BY <1>4, <3>1, <3>6, <3>7
  <2>. QED  BY <2>1, <2>2
<1>8. dc = da \o db  BY <1>2, <1>5, <1>6, <1>7, SeqEqual
<1>. QED  BY <1>8 DEF c, da, db, dc

(* Four bytes of what was captured decode to the mean of their frame.      *)
LEMMA CapturedIs ==
    ASSUME StepsAssumption, frames \in [1 .. Frames -> [l : Levels, r : Levels]]
    PROVE  /\ Decode!Captured \in Seq(Byte)
           /\ Len(Decode!Captured) = 4 * Frames
           /\ \A i \in 1 .. Frames :
                 SampleOf(Decode!Captured[4 * i - 3], Decode!Captured[4 * i - 2],
                          Decode!Captured[4 * i - 1], Decode!Captured[4 * i])
                    = Decode!Downmix(frames[i].l, frames[i].r)
<1>. DEFINE parts == [i \in DOMAIN frames |->
                        Decode!Bytes(frames[i].l) \o Decode!Bytes(frames[i].r)]
            all == FlattenSeq(parts)
<1>1. Frames \in Nat /\ Levels \subseteq Decode!Samples
  BY DEF StepsAssumption, Decode!DecodeConstants
<1>2. Decode!Captured = all  BY DecodeFlatten DEF Decode!Captured
<1>3. ASSUME NEW i \in 1 .. Frames
      PROVE  /\ frames[i].l \in Decode!Samples /\ frames[i].r \in Decode!Samples
             /\ parts[i] \in Seq(Byte) /\ Len(parts[i]) = 4
             /\ Decode!FromBytes(parts[i][1], parts[i][2]) = frames[i].l
             /\ Decode!FromBytes(parts[i][3], parts[i][4]) = frames[i].r
  <2>. DEFINE x == Decode!Bytes(frames[i].l)  y == Decode!Bytes(frames[i].r)
  <2>1. frames[i].l \in Decode!Samples /\ frames[i].r \in Decode!Samples
    <3>1. frames[i] \in [l : Levels, r : Levels]  OBVIOUS
    <3>2. frames[i].l \in Levels /\ frames[i].r \in Levels  BY <3>1
    <3>. QED  BY <1>1, <3>2
  <2>2. /\ x \in Seq(Byte) /\ Len(x) = 2 /\ Decode!FromBytes(x[1], x[2]) = frames[i].l
        /\ y \in Seq(Byte) /\ Len(y) = 2 /\ Decode!FromBytes(y[1], y[2]) = frames[i].r
    BY <2>1, SampleIsBytes
  <2>3. parts[i] = x \o y  OBVIOUS
  <2>. HIDE DEF x, y, parts
  <2>4. /\ x \o y \in Seq(Byte) /\ Len(x \o y) = 4
        /\ (x \o y)[1] = x[1] /\ (x \o y)[2] = x[2]
        /\ (x \o y)[3] = y[1] /\ (x \o y)[4] = y[2]
    <3>1. /\ x \o y \in Seq(Byte) /\ Len(x \o y) = 2 + 2
          /\ \A j \in 1 .. 2 + 2 : (x \o y)[j] = IF j <= 2 THEN x[j] ELSE y[j - 2]
      <4>1. /\ x \o y \in Seq(Byte) /\ Len(x \o y) = Len(x) + Len(y)
            /\ \A j \in 1 .. Len(x) + Len(y) :
                  (x \o y)[j] = IF j <= Len(x) THEN x[j] ELSE y[j - Len(x)]
        BY <2>2, ConcatProperties
      <4>. QED  BY <2>2, <4>1
    <3>. QED  BY <3>1
  <2>. QED  BY <2>1, <2>2, <2>3, <2>4
<1>4. parts \in Seq(Seq(Byte)) /\ Len(parts) = Frames
  <2>1. parts = [i \in 1 .. Frames |-> parts[i]]  OBVIOUS
  <2>. HIDE DEF parts
  <2>2. parts \in [1 .. Frames -> Seq(Byte)]  BY <1>3, <2>1
  <2>. QED  BY <1>1, <2>2
<1>. HIDE DEF parts
<1>5. /\ all \in Seq(Byte) /\ Len(all) = 4 * Frames
      /\ \A n \in 1 .. Frames : \A j \in 1 .. 4 : all[4 * (n - 1) + j] = parts[n][j]
  <2>1. \A n \in 1 .. Len(parts) : Len(parts[n]) = 4  BY <1>3, <1>4
  <2>2. /\ all \in Seq(Byte) /\ Len(all) = 4 * Len(parts)
        /\ \A n \in 1 .. Len(parts) : \A j \in 1 .. 4 :
              all[4 * (n - 1) + j] = parts[n][j]
    BY <1>4, <2>1, FlattenFours
  <2>. HIDE DEF all
  <2>. QED  BY <1>4, <2>2
<1>. HIDE DEF all
<1>6. ASSUME NEW i \in 1 .. Frames
      PROVE  SampleOf(all[4 * i - 3], all[4 * i - 2], all[4 * i - 1], all[4 * i])
                = Decode!Downmix(frames[i].l, frames[i].r)
  <2>1. /\ 4 * i - 3 = 4 * (i - 1) + 1 /\ 4 * i - 2 = 4 * (i - 1) + 2
        /\ 4 * i - 1 = 4 * (i - 1) + 3 /\ 4 * i = 4 * (i - 1) + 4
    BY <1>1
  <2>2. /\ all[4 * i - 3] = parts[i][1] /\ all[4 * i - 2] = parts[i][2]
        /\ all[4 * i - 1] = parts[i][3] /\ all[4 * i] = parts[i][4]
    <3>1. \A j \in 1 .. 4 : all[4 * (i - 1) + j] = parts[i][j]  BY <1>5
    <3>2. /\ all[4 * (i - 1) + 1] = parts[i][1] /\ all[4 * (i - 1) + 2] = parts[i][2]
          /\ all[4 * (i - 1) + 3] = parts[i][3] /\ all[4 * (i - 1) + 4] = parts[i][4]
      BY <3>1
    <3>. QED  BY <2>1, <3>2
  <2>. QED  BY <1>3, <2>2 DEF SampleOf
<1>. QED  BY <1>2, <1>5, <1>6

(* What the streaming path was given so far.                               *)
Taken == FlattenSeq(SubSeq(chunks, 1, ingested))

(* The chunks are a prefix of what was captured; the streaming path made   *)
(* no more samples of the chunks it took than they have frames, and at     *)
(* frames' ends just those samples.                                        *)
DecodeHolds ==
    step = "decode" =>
        /\ frames \in [1 .. Frames -> [l : Levels, r : Levels]]
        /\ chunks \in Seq(Seq(Byte))
        /\ Len(FlattenSeq(chunks)) <= 4 * Frames
        /\ FlattenSeq(chunks) = SubSeq(Decode!Captured, 1, Len(FlattenSeq(chunks)))
        /\ ingested \in 0 .. Len(chunks)
        /\ streamed \in Seq(Decode!Samples)
        /\ 4 * Len(streamed) <= Len(Taken)
        /\ Decode!Aligned => Len(Taken) % 4 = 0 /\ streamed = Decode!Decode(Taken)

LEMMA UploadHolds ==
    ASSUME StepsAssumption, DecodeHolds, step = "decode", step' = step,
           NEW n \in 1 .. MaxChunk, Decode!Upload(n)
    PROVE  DecodeHolds'
<1>. DEFINE all == FlattenSeq(chunks)  U == Len(all)  cap == Decode!Captured
            s == SubSeq(cap, U + 1, U + n)
<1>1. /\ frames \in [1 .. Frames -> [l : Levels, r : Levels]]
      /\ chunks \in Seq(Seq(Byte)) /\ U <= 4 * Frames
      /\ all = SubSeq(cap, 1, U)
      /\ ingested \in 0 .. Len(chunks) /\ streamed \in Seq(Decode!Samples)
      /\ 4 * Len(streamed) <= Len(Taken)
      /\ Decode!Aligned => Len(Taken) % 4 = 0 /\ streamed = Decode!Decode(Taken)
  BY DEF DecodeHolds
<1>2. /\ U + n <= 4 * Frames /\ chunks' = Append(chunks, s)
      /\ UNCHANGED <<frames, ingested, streamed>>
  BY DecodeFlatten DEF Decode!Upload, Decode!Uploaded
<1>3. cap \in Seq(Byte) /\ Len(cap) = 4 * Frames  BY <1>1, CapturedIs
<1>4. cap' = cap  BY <1>2 DEF Decode!Captured
<1>5. Frames \in Nat /\ MaxChunk \in Nat /\ n \in Nat /\ n > 0
  BY DEF StepsAssumption, Decode!DecodeConstants
<1>. HIDE DEF cap
<1>6. all \in Seq(Byte) /\ U \in Nat
  <2>1. Len(chunks) \in 0 .. Len(chunks)  BY <1>1
  <2>2. all \in Seq(Byte)  BY <1>1, <2>1, FlattenLonger
  <2>. HIDE DEF all
  <2>. QED  BY <2>2
<1>. HIDE DEF all, U
<1>7. s \in Seq(Byte)
  <2>1. \A i \in U + 1 .. U + n : cap[i] \in Byte  BY <1>2, <1>3, <1>5, <1>6
  <2>. QED  BY <1>5, <1>6, <2>1, SubSeqProperties
<1>8. SubSeq(cap, 1, U) \o s = SubSeq(cap, 1, U + n)
  <2>1. /\ 1 \in 1 .. Len(cap) + 1 /\ U \in 1 - 1 .. Len(cap) /\ U + n \in U .. Len(cap)
    BY <1>2, <1>3, <1>5, <1>6
  <2>. QED  BY <1>3, <2>1, ConcatAdjacentSubSeq
<1>9. Len(SubSeq(cap, 1, U + n)) = U + n
  <2>1. \A i \in 1 .. U + n : cap[i] \in Byte  BY <1>2, <1>3, <1>5, <1>6
  <2>2. Len(SubSeq(cap, 1, U + n)) = IF 1 <= U + n THEN U + n - 1 + 1 ELSE 0
    BY <1>5, <1>6, <2>1, SubSeqProperties
  <2>. QED  BY <1>5, <1>6, <2>2
<1>. HIDE DEF s
<1>10. FlattenSeq(chunks') = SubSeq(cap, 1, U + n)
  BY <1>1, <1>2, <1>7, <1>8, FlattenAppend DEF all
<1>11. /\ chunks' \in Seq(Seq(Byte)) /\ Len(chunks') = Len(chunks) + 1
       /\ \A i \in 1 .. Len(chunks) : chunks'[i] = chunks[i]
  BY <1>1, <1>2, <1>7, AppendProperties
<1>12. SubSeq(chunks', 1, ingested) = SubSeq(chunks, 1, ingested)
  <2>. DEFINE V == Seq(Byte)  N == Len(chunks)
  <2>1. chunks \in Seq(V) /\ s \in V /\ N \in Nat /\ ingested \in 0 .. N  BY <1>1, <1>7
  <2>2. chunks' \in Seq(V) /\ Len(chunks') = N + 1 /\ \A i \in 1 .. N : chunks'[i] = chunks[i]
    BY <1>11
  <2>. HIDE DEF V, N
  <2>3. \A i \in 1 .. ingested : chunks[i] \in V /\ chunks'[i] \in V /\ chunks'[i] = chunks[i]
    BY <2>1, <2>2 DEF N
  <2>4. ingested \in Int /\ 1 \in Int  BY <2>1
  <2>5. /\ SubSeq(chunks, 1, ingested) \in Seq(V)
        /\ Len(SubSeq(chunks, 1, ingested)) = IF 1 <= ingested THEN ingested - 1 + 1 ELSE 0
        /\ \A i \in 1 .. ingested - 1 + 1 : SubSeq(chunks, 1, ingested)[i] = chunks[1 + i - 1]
    BY <2>3, <2>4, SubSeqProperties
  <2>6. /\ SubSeq(chunks', 1, ingested) \in Seq(V)
        /\ Len(SubSeq(chunks', 1, ingested)) = IF 1 <= ingested THEN ingested - 1 + 1 ELSE 0
        /\ \A i \in 1 .. ingested - 1 + 1 :
              SubSeq(chunks', 1, ingested)[i] = chunks'[1 + i - 1]
    BY <2>3, <2>4, SubSeqProperties
  <2>. DEFINE p == SubSeq(chunks, 1, ingested)  q == SubSeq(chunks', 1, ingested)
  <2>7. ASSUME NEW i \in 1 .. ingested  PROVE p[i] = q[i]
    <3>1. i \in 1 .. ingested - 1 + 1 /\ 1 + i - 1 = i  BY <2>4
    <3>. QED  BY <2>3, <2>5, <2>6, <3>1
  <2>8. p \in Seq(V) /\ q \in Seq(V) /\ Len(p) = Len(q) /\ Len(p) = ingested
    BY <2>1, <2>5, <2>6
  <2>. HIDE DEF p, q
  <2>9. p = q  BY <2>7, <2>8, SeqEqual
  <2>. QED  BY <2>9 DEF p, q
<1>13. Taken' = Taken  BY <1>2, <1>12 DEF Taken
<1>14. Decode!Aligned' => Decode!Aligned
  <2>. SUFFICES ASSUME Decode!Aligned', NEW i \in DOMAIN chunks
                PROVE  Len(chunks[i]) % 4 = 0
    BY DEF Decode!Aligned
  <2>0. i \in 1 .. Len(chunks)  BY <1>1
  <2>1. i \in DOMAIN chunks'  BY <1>1, <1>11, <2>0
  <2>2. Len(chunks'[i]) % 4 = 0  BY <2>1 DEF Decode!Aligned
  <2>. QED  BY <1>11, <2>0, <2>2
<1>15. ingested' \in 0 .. Len(chunks')  BY <1>1, <1>2, <1>11
<1>. QED  BY <1>1, <1>2, <1>4, <1>9, <1>10, <1>11, <1>13, <1>14, <1>15 DEF DecodeHolds, cap

LEMMA IngestHolds ==
    ASSUME StepsAssumption, DecodeHolds, step = "decode", step' = step, Decode!Ingest
    PROVE  DecodeHolds'
<1>. DEFINE s == chunks[ingested + 1]  ds == Decode!Decode(s)  took == Taken \o s
<1>1. /\ frames \in [1 .. Frames -> [l : Levels, r : Levels]]
      /\ chunks \in Seq(Seq(Byte))
      /\ Len(FlattenSeq(chunks)) <= 4 * Frames
      /\ FlattenSeq(chunks) = SubSeq(Decode!Captured, 1, Len(FlattenSeq(chunks)))
      /\ ingested \in 0 .. Len(chunks) /\ streamed \in Seq(Decode!Samples)
      /\ 4 * Len(streamed) <= Len(Taken)
      /\ Decode!Aligned => Len(Taken) % 4 = 0 /\ streamed = Decode!Decode(Taken)
  BY DEF DecodeHolds
<1>2. /\ ingested < Len(chunks) /\ streamed' = streamed \o ds
      /\ ingested' = ingested + 1 /\ UNCHANGED <<frames, chunks>>
  BY DEF Decode!Ingest
<1>3. Len(chunks) \in Nat /\ ingested \in 0 .. Len(chunks) - 1
      /\ ingested + 1 \in 1 .. Len(chunks)
  BY <1>1, <1>2
<1>4. Taken \in Seq(Byte) /\ s \in Seq(Byte) /\ Taken' = took
  <2>1. /\ FlattenSeq(SubSeq(chunks, 1, ingested)) \in Seq(Byte)
        /\ chunks[ingested + 1] \in Seq(Byte)
        /\ FlattenSeq(SubSeq(chunks, 1, ingested + 1)) =
              FlattenSeq(SubSeq(chunks, 1, ingested)) \o chunks[ingested + 1]
    BY <1>1, <1>3, FlattenNext
  <2>2. Taken' = FlattenSeq(SubSeq(chunks, 1, ingested + 1))  BY <1>2 DEF Taken
  <2>. QED  BY <2>1, <2>2 DEF Taken
<1>5. s = chunks[ingested + 1]  OBVIOUS
<1>. HIDE DEF s
<1>6. ds \in Seq(Decode!Samples) /\ 4 * Len(ds) <= Len(s)  BY <1>4, DecodeTyped
<1>7. /\ took \in Seq(Byte) /\ Len(took) = Len(Taken) + Len(s)
      /\ Len(Taken) \in Nat /\ Len(s) \in Nat
  BY <1>4
<1>8. Decode!Aligned => Len(s) % 4 = 0
  <2>1. ingested + 1 \in DOMAIN chunks  BY <1>1, <1>3
  <2>. QED  BY <1>5, <2>1 DEF Decode!Aligned
<1>9. ASSUME Decode!Aligned
      PROVE  Len(took) % 4 = 0 /\ streamed \o ds = Decode!Decode(took)
  <2>1. Len(Taken) % 4 = 0 /\ streamed = Decode!Decode(Taken) /\ Len(s) % 4 = 0
    BY <1>1, <1>8, <1>9
  <2>2. Decode!Decode(took) = Decode!Decode(Taken) \o ds  BY <1>4, <2>1, DecodeJoined
  <2>3. Len(took) % 4 = 0
    <3>. HIDE DEF took
    <3>. QED  BY <1>7, <2>1
  <2>. QED  BY <2>1, <2>2, <2>3
<1>. HIDE DEF ds, took
<1>10. /\ streamed' \in Seq(Decode!Samples)
       /\ Len(streamed') = Len(streamed) + Len(ds)
       /\ Len(streamed) \in Nat /\ Len(ds) \in Nat
  BY <1>1, <1>2, <1>6
<1>11. 4 * Len(streamed') <= Len(Taken')
  <2>1. 4 * Len(streamed') = 4 * Len(streamed) + 4 * Len(ds)  BY <1>10
  <2>2. 4 * Len(streamed) <= Len(Taken) /\ 4 * Len(ds) <= Len(s)  BY <1>1, <1>6
  <2>3. Len(Taken') = Len(Taken) + Len(s)  BY <1>4, <1>7
  <2>. QED  BY <1>7, <1>10, <2>1, <2>2, <2>3
<1>12. Decode!Aligned' => Decode!Aligned  BY <1>2 DEF Decode!Aligned
<1>13. Decode!Aligned' => Len(Taken') % 4 = 0 /\ streamed' = Decode!Decode(Taken')
  BY <1>2, <1>4, <1>9, <1>12
<1>14. Decode!Captured' = Decode!Captured /\ ingested' \in 0 .. Len(chunks')
  BY <1>2, <1>3 DEF Decode!Captured
<1>. QED  BY <1>1, <1>2, <1>10, <1>11, <1>13, <1>14 DEF DecodeHolds

LEMMA DecodeHoldsAtFirst == StepsAssumption /\ Init => DecodeHolds
<1>. SUFFICES ASSUME StepsAssumption, Init, step = "decode"  PROVE DecodeHolds
  BY DEF DecodeHolds
<1>1. /\ frames \in [1 .. Frames -> [l : Levels, r : Levels]]
      /\ chunks = <<>> /\ ingested = 0 /\ streamed = <<>>
  BY DEF Init, Decode!Init
<1>2. chunks \in Seq(Seq(Byte)) /\ Len(chunks) = 0 /\ streamed \in Seq(Decode!Samples)
      /\ Len(streamed) = 0
  BY <1>1
<1>3. FlattenSeq(chunks) = <<>>  BY <1>1 DEF FlattenSeq
<1>4. SubSeq(chunks, 1, ingested) = <<>>  BY <1>1
<1>5. Taken = <<>>  BY <1>1, <1>3, <1>4 DEF Taken
<1>6. Len(FlattenSeq(chunks)) = 0 /\ Len(Taken) = 0  BY <1>3, <1>5
<1>7. SubSeq(Decode!Captured, 1, 0) = <<>>
  <2>1. 1 \in Int /\ 0 \in Int /\ 0 < 1  OBVIOUS
  <2>. QED  BY <2>1, SubSeqEmpty
<1>8. Decode!Decode(Taken) = <<>>
  <2>1. Taken \in Seq(Byte)  BY <1>5
  <2>2. Decode!Decode(Taken) \in Seq(Decode!Samples) /\ Len(Decode!Decode(Taken)) = 0
    <3>1. /\ Decode!Decode(Taken) \in Seq(Decode!Samples)
          /\ Len(Decode!Decode(Taken)) = Len(Taken) \div 4
      BY <2>1, DecodeTyped
    <3>2. 0 \div 4 = 0  OBVIOUS
    <3>. QED  BY <1>6, <3>1, <3>2
  <2>. QED  BY <2>2, EmptySeq
<1>9. Frames \in Nat  BY DEF StepsAssumption, Decode!DecodeConstants
<1>10. Len(FlattenSeq(chunks)) <= 4 * Frames  BY <1>6, <1>9
<1>11. FlattenSeq(chunks) = SubSeq(Decode!Captured, 1, Len(FlattenSeq(chunks)))
  BY <1>3, <1>6, <1>7
<1>12. 4 * Len(streamed) <= Len(Taken) /\ Len(Taken) % 4 = 0  BY <1>2, <1>6
<1>. QED  BY <1>1, <1>2, <1>8, <1>10, <1>11, <1>12 DEF DecodeHolds

LEMMA DecodeHoldsAlways == Spec => []DecodeHolds
<1>1. Init => DecodeHolds  BY StepsAssumption, DecodeHoldsAtFirst
<1>2. DecodeHolds /\ [Next]_stepVars => DecodeHolds'
  <2>. SUFFICES ASSUME DecodeHolds, [Next]_stepVars  PROVE DecodeHolds'
    OBVIOUS
  <2>1. CASE Next /\ step = "decode"
    <3>1. step' = step /\ Decode!Next  BY <2>1 DEF Next
    <3>2. CASE \E n \in 1 .. MaxChunk : Decode!Upload(n)
      BY <2>1, <3>1, <3>2, StepsAssumption, UploadHolds
    <3>3. CASE Decode!Ingest
      BY <2>1, <3>1, <3>3, StepsAssumption, IngestHolds
    <3>. QED  BY <3>1, <3>2, <3>3 DEF Decode!Next
  <2>2. CASE Next /\ step # "decode"  BY <2>2 DEF Next, DecodeHolds
  <2>3. CASE UNCHANGED stepVars
    <3>1. UNCHANGED step /\ UNCHANGED decodeVars  BY <2>3 DEF stepVars
    <3>. QED
      BY <3>1 DEF decodeVars, DecodeHolds, Taken, Decode!Aligned, Decode!Captured
  <2>. QED  BY <2>1, <2>2, <2>3
<1>. QED  BY <1>1, <1>2, PTL DEF Spec

(* The joined samples are as many as whole frames arrived, each made of    *)
(* its own frame.                                                          *)
LEMMA JoinedIs ==
    ASSUME StepsAssumption, DecodeHolds, step = "decode"
    PROVE  /\ Decode!Joined \in Seq(Decode!Samples)
           /\ Len(Decode!Joined) = Len(FlattenSeq(chunks)) \div 4
           /\ Len(Decode!Joined) <= Frames
           /\ \A i \in 1 .. Len(Decode!Joined) :
                 /\ i \in 1 .. Frames
                 /\ Decode!Joined[i] = Decode!Downmix(frames[i].l, frames[i].r)
<1>. DEFINE all == FlattenSeq(chunks)  cap == Decode!Captured  U == Len(all)
<1>1. /\ frames \in [1 .. Frames -> [l : Levels, r : Levels]]
      /\ chunks \in Seq(Seq(Byte)) /\ U <= 4 * Frames /\ all = SubSeq(cap, 1, U)
  BY DEF DecodeHolds
<1>2. Frames \in Nat  BY DEF StepsAssumption, Decode!DecodeConstants
<1>3. /\ cap \in Seq(Byte) /\ Len(cap) = 4 * Frames
      /\ \A i \in 1 .. Frames :
            SampleOf(cap[4 * i - 3], cap[4 * i - 2], cap[4 * i - 1], cap[4 * i])
               = Decode!Downmix(frames[i].l, frames[i].r)
  BY <1>1, CapturedIs
<1>4. Decode!Joined = Decode!Decode(all)  BY DecodeFlatten DEF Decode!Joined
<1>. HIDE DEF cap
<1>5. all \in Seq(Byte) /\ U \in Nat
  <2>1. Len(chunks) \in 0 .. Len(chunks)  BY <1>1
  <2>2. all \in Seq(Byte)  BY <1>1, <2>1, FlattenLonger
  <2>. HIDE DEF all
  <2>. QED  BY <2>2
<1>. HIDE DEF all, U
<1>6. \A i \in 1 .. U : all[i] = cap[i]
  <2>1. \A i \in 1 .. U : cap[i] \in Byte  BY <1>1, <1>2, <1>3, <1>5
  <2>2. \A i \in 1 .. U - 1 + 1 : SubSeq(cap, 1, U)[i] = cap[1 + i - 1]
    BY <1>5, <2>1, SubSeqProperties
  <2>. QED  BY <1>1, <1>5, <2>2
<1>7. /\ Decode!Decode(all) \in Seq(Decode!Samples)
      /\ Len(Decode!Decode(all)) = U \div 4
      /\ \A i \in 1 .. U \div 4 :
            Decode!Decode(all)[i] =
               SampleOf(all[4 * i - 3], all[4 * i - 2], all[4 * i - 1], all[4 * i])
  BY <1>5, DecodeTyped DEF U
<1>8. U \div 4 <= Frames /\ U \div 4 \in Nat /\ 4 * (U \div 4) <= U  BY <1>1, <1>2, <1>5
<1>9. ASSUME NEW i \in 1 .. U \div 4
      PROVE  /\ i \in 1 .. Frames
             /\ Decode!Joined[i] = Decode!Downmix(frames[i].l, frames[i].r)
  <2>1. i \in 1 .. Frames  BY <1>2, <1>8
  <2>2. /\ 4 * i - 3 \in 1 .. U /\ 4 * i - 2 \in 1 .. U
        /\ 4 * i - 1 \in 1 .. U /\ 4 * i \in 1 .. U
    BY <1>5, <1>8
  <2>3. /\ all[4 * i - 3] = cap[4 * i - 3] /\ all[4 * i - 2] = cap[4 * i - 2]
        /\ all[4 * i - 1] = cap[4 * i - 1] /\ all[4 * i] = cap[4 * i]
    BY <1>6, <2>2
  <2>. QED  BY <1>3, <1>4, <1>7, <2>1, <2>3
<1>. QED  BY <1>4, <1>7, <1>8, <1>9 DEF U, all

(* Wherever the collector cuts and however near to saturation the channels *)
(* are, the joined bytes decode to the mean of each whole frame            *)
(* (decode.rs:21-30).                                                      *)
THEOREM FramesAreMeans == Spec => []JoinedIsTheMean
<1>1. DecodeHolds => JoinedIsTheMean
  <2>. SUFFICES ASSUME DecodeHolds, step = "decode", NEW i \in DOMAIN Decode!Joined
                PROVE  LET sum == frames[i].l + frames[i].r IN
                       /\ 2 * Decode!Joined[i] - sum \in {-1, 0, 1}
                       /\ sum >= 0 => 2 * Decode!Joined[i] <= sum
                       /\ sum <= 0 => 2 * Decode!Joined[i] >= sum
    BY DEF JoinedIsTheMean, Decode!JoinedIsTheMean
  <2>1. /\ Decode!Joined \in Seq(Decode!Samples)
        /\ \A j \in 1 .. Len(Decode!Joined) :
              /\ j \in 1 .. Frames
              /\ Decode!Joined[j] = Decode!Downmix(frames[j].l, frames[j].r)
    BY StepsAssumption, JoinedIs
  <2>2. i \in 1 .. Frames /\ Decode!Joined[i] = Decode!Downmix(frames[i].l, frames[i].r)
    BY <2>1
  <2>3. frames[i].l \in Decode!Samples /\ frames[i].r \in Decode!Samples
    <3>1. frames[i] \in [l : Levels, r : Levels]  BY <2>2 DEF DecodeHolds
    <3>2. frames[i].l \in Levels /\ frames[i].r \in Levels  BY <3>1
    <3>3. Levels \subseteq Decode!Samples
      BY StepsAssumption DEF StepsAssumption, Decode!DecodeConstants
    <3>. QED  BY <3>2, <3>3
  <2>. QED  BY <2>2, <2>3, StepsAssumption, HalfIsMean
<1>. QED  BY <1>1, DecodeHoldsAlways, PTL

(* As long as every cut lies between two frames, decoding chunk by chunk   *)
(* gives what decoding at once gives (session_runner.rs:199, 426).         *)
THEOREM PathsAgree == Spec => []AlignedPathsAgree
<1>1. DecodeHolds => AlignedPathsAgree
  BY DecodeFlatten
     DEF DecodeHolds, AlignedPathsAgree, Decode!AlignedPathsAgree, Taken
<1>. QED  BY <1>1, DecodeHoldsAlways, PTL

(* The types of the decoding step.                                         *)
LEMMA DecodeTypes == StepsAssumption /\ DecodeHolds /\ step = "decode" => Decode!TypeOK
<1>. SUFFICES ASSUME StepsAssumption, DecodeHolds, step = "decode"  PROVE Decode!TypeOK
  OBVIOUS
<1>1. /\ Decode!Joined \in Seq(Decode!Samples)
      /\ Len(Decode!Joined) = Len(FlattenSeq(chunks)) \div 4
      /\ Len(Decode!Joined) <= Frames
  BY JoinedIs
<1>2. /\ chunks \in Seq(Seq(Byte)) /\ ingested \in 0 .. Len(chunks)
      /\ streamed \in Seq(Decode!Samples) /\ 4 * Len(streamed) <= Len(Taken)
  BY DEF DecodeHolds
<1>3. /\ FlattenSeq(chunks) \in Seq(Byte) /\ Taken \in Seq(Byte)
      /\ Len(Taken) <= Len(FlattenSeq(chunks))
  BY <1>2, FlattenLonger DEF Taken
<1>4. Len(streamed) <= Len(Decode!Joined)
  <2>1. Len(streamed) \in Nat /\ Len(Taken) \in Nat /\ Len(FlattenSeq(chunks)) \in Nat
    BY <1>2, <1>3
  <2>. QED  BY <1>1, <1>2, <1>3, <2>1
<1>. QED  BY <1>1, <1>2, <1>4 DEF Decode!TypeOK

(* ------------------------------ collecting ----------------------------- *)

LEMMA CollectOnly == \A list, S : Collect!Only(list, S) = Only(list, S)
  BY DEF Collect!Only, Only

LEMMA CollectCardinality == \A S : Collect!Cardinality(S) = Cardinality(S)
  BY DEF Collect!Cardinality, Cardinality

LEMMA CollectFinite == \A S : Collect!IsFiniteSet(S) <=> IsFiniteSet(S)
  BY DEF Collect!IsFiniteSet, IsFiniteSet

LEMMA CollectAscending == \A S : Collect!Ascending(S) = Ascending(S)
  BY CollectCardinality
     DEF Collect!Ascending, Collect!Increasing, Ascending, Increasing

LEMMA CollectRange == \A list : Collect!Range(list) = {list[i] : i \in DOMAIN list}
  BY DEF Collect!Range

(* The track of a consenting speaker: what was downloaded of the stored    *)
(* chunks, in order, at the instant of the first stored.                   *)
TrackIs(t) ==
    /\ t.speaker \in Speakers /\ consent[t.speaker] = "full" /\ stored[t.speaker] # {}
    /\ t.at = Collect!Instant(t.speaker, Ascending(stored[t.speaker])[1])
    /\ Sorted(t.pcm, stored[t.speaker] \ skipped[t.speaker])

Track == [speaker : Speakers, at : Nat, pcm : Seq(Collect!Seqs)]

(* What was asked for of the present speaker.                              *)
Asked == {listed[i] : i \in 1 .. next - 1}

(* Every consenting speaker with audio is still to come or has a track.    *)
NobodyForgotten ==
    \A s \in Speakers :
        consent[s] = "full" /\ stored[s] # {} =>
            \/ \E j \in 1 .. Len(todo) : todo[j] = s
            \/ \E i \in 1 .. Len(tracks) : tracks[i].speaker = s

TodoHolds ==
    /\ Distinct(todo)
    /\ \A j \in 1 .. Len(todo) :
          /\ consent[todo[j]] = "full"
          /\ \A i \in 1 .. Len(tracks) : tracks[i].speaker # todo[j]
          /\ skipped[todo[j]] = {} \/ (j = 1 /\ collectPC = "download")

TracksHold ==
    /\ tracks \in Seq(Track)
    /\ \A i \in 1 .. Len(tracks) : TrackIs(tracks[i])
    /\ \A i, j \in 1 .. Len(tracks) : tracks[i].speaker = tracks[j].speaker => i = j

DownloadHolds ==
    collectPC = "download" =>
        /\ todo # <<>> /\ stored[Head(todo)] # {}
        /\ Sorted(listed, stored[Head(todo)])
        /\ skipped[Head(todo)] \subseteq Asked
        /\ Sorted(raw, Asked \ skipped[Head(todo)])

CollectHolds ==
    step = "collect" =>
        /\ Collect!TypeOK /\ begun \in [Speakers -> {0, 5}]
        /\ TodoHolds /\ TracksHold /\ DownloadHolds
        /\ collectPC = "participants" =>
              todo = <<>> /\ tracks = <<>> /\ \A s \in Speakers : skipped[s] = {}
        /\ collectPC \in {"speaker", "download", "empty", "tracks"} => NobodyForgotten
        /\ collectPC \in {"empty", "tracks"} => todo = <<>>
        /\ collectPC = "empty" => tracks = <<>>

(* A listing has every element of the set, none twice.                     *)
LEMMA ListingIs ==
    ASSUME NEW S, IsFiniteSet(S), NEW listing \in Collect!SetToSeqs(S)
    PROVE  /\ listing \in Seq(S) /\ Distinct(listing)
           /\ \A e \in S : \E i \in 1 .. Len(listing) : listing[i] = e
<1>. DEFINE n == Cardinality(S)
<1>1. /\ listing \in [1 .. n -> S]
      /\ \A i, j \in 1 .. n : i # j => listing[i] # listing[j]
  BY CollectCardinality DEF Collect!SetToSeqs
<1>2. \A e \in S : \E i \in 1 .. n : listing[i] = e  BY <1>1, Pigeonhole
<1>3. n \in Nat  BY FS_CardinalityType
<1>. HIDE DEF n
<1>4. listing \in Seq(S) /\ Len(listing) = n  BY <1>1, <1>3
<1>. QED  BY <1>1, <1>2, <1>4 DEF Distinct

LEMMA StoredIs ==
    ASSUME StepsAssumption, Collect!TypeOK, NEW s \in Speakers
    PROVE  /\ MaxSeq \in Nat /\ Collect!Seqs = 0 .. MaxSeq
           /\ stored[s] \in SUBSET (0 .. MaxSeq) /\ stored[s] \in SUBSET Nat
           /\ IsFiniteSet(stored[s])
           /\ Sorted(Ascending(stored[s]), stored[s])
<1>1. MaxSeq \in Nat /\ Collect!Seqs = 0 .. MaxSeq
  BY DEF StepsAssumption, Collect!CollectionConstants, Collect!Seqs
<1>2. stored[s] \in SUBSET (0 .. MaxSeq)  BY <1>1 DEF Collect!TypeOK
<1>3. stored[s] \in SUBSET Nat  BY <1>1, <1>2
<1>4. IsFiniteSet(0 .. MaxSeq)
  <2>1. 0 \in Int /\ MaxSeq \in Int  BY <1>1
  <2>. QED  BY <2>1, FS_Interval
<1>5. IsFiniteSet(stored[s])  BY <1>2, <1>4, FS_Subset
<1>6. Sorted(Ascending(stored[s]), stored[s])  BY <1>1, <1>2, AscendingSorted
<1>. QED  BY <1>1, <1>2, <1>3, <1>5, <1>6

LEMMA CollectHoldsAtFirst == StepsAssumption /\ Init => CollectHolds
<1>. SUFFICES ASSUME StepsAssumption, Init, step = "collect"  PROVE CollectHolds
  BY DEF CollectHolds
<1>1. Collect!Init  BY DEF Init
<1>2. Collect!TypeOK
  <2>1. /\ todo \in Seq(Speakers) /\ listed \in Seq(Collect!Seqs) /\ raw \in Seq(Collect!Seqs)
        /\ next \in 1 .. Len(listed) + 1 /\ DOMAIN tracks = {}
    BY <1>1 DEF Collect!Init
  <2>. QED  BY <1>1, <2>1 DEF Collect!Init, Collect!TypeOK
<1>3. todo = <<>> /\ tracks = <<>> /\ collectPC = "participants"  BY <1>1 DEF Collect!Init
<1>4. TodoHolds /\ TracksHold /\ DownloadHolds
  BY <1>3 DEF TodoHolds, TracksHold, DownloadHolds, Distinct
<1>5. \A s \in Speakers : skipped[s] = {}  BY <1>1 DEF Collect!Init
<1>6. begun \in [Speakers -> {0, 5}]  BY <1>1 DEF Collect!Init
<1>. QED  BY <1>2, <1>3, <1>4, <1>5, <1>6 DEF CollectHolds

LEMMA ParticipantsHold ==
    ASSUME StepsAssumption, CollectHolds, step = "collect", step' = step,
           Collect!ListParticipants
    PROVE  CollectHolds'
<1>1. /\ Collect!TypeOK /\ begun \in [Speakers -> {0, 5}]
      /\ todo = <<>> /\ tracks = <<>> /\ \A s \in Speakers : skipped[s] = {}
  BY DEF CollectHolds, Collect!ListParticipants
<1>2. UNCHANGED <<consent, stored, begun, listed, next, raw, tracks, skipped>>
  BY DEF Collect!ListParticipants, Collect!dataApi
<1>. DEFINE Full == {s \in Speakers : consent[s] = "full"}
<1>3. CASE collectPC' = "speaker"
           /\ \E listing \in Collect!SetToSeqs(Speakers) : todo' = Collect!Consented(listing)
  <2>1. PICK listing \in Collect!SetToSeqs(Speakers) : todo' = Collect!Consented(listing)
    BY <1>3
  <2>2. todo' = Only(listing, Full)  BY <2>1, CollectOnly DEF Collect!Consented
  <2>3. IsFiniteSet(Speakers)
    BY CollectFinite DEF StepsAssumption, Collect!CollectionConstants
  <2>4. /\ listing \in Seq(Speakers) /\ Distinct(listing)
        /\ \A e \in Speakers : \E i \in 1 .. Len(listing) : listing[i] = e
    BY <2>3, ListingIs
  <2>5. Sifted(todo', Speakers, listing, Full)  BY <2>2, <2>4, OnlySifts
  <2>6. todo' \in Seq(Speakers \cap Full) /\ Distinct(todo')  BY <2>4, <2>5 DEF Sifted
  <2>7. \A j \in 1 .. Len(todo') : todo'[j] \in Speakers \cap Full  BY <2>6
  <2>8. \A s \in Full : \E j \in 1 .. Len(todo') : todo'[j] = s
    BY <2>4, <2>5 DEF Sifted
  <2>9. todo' \in Seq(Speakers)
    <3>1. Speakers \cap Full \subseteq Speakers  OBVIOUS
    <3>. HIDE DEF Full
    <3>. QED  BY <2>6, <3>1, SeqMonotonic
  <2>10. Collect!TypeOK'  BY <1>1, <1>2, <1>3, <2>9 DEF Collect!TypeOK
  <2>11. TodoHolds'  BY <1>1, <1>2, <2>6, <2>7 DEF TodoHolds, Distinct
  <2>12. TracksHold'  BY <1>1, <1>2 DEF TracksHold
  <2>13. DownloadHolds'  BY <1>3 DEF DownloadHolds
  <2>14. NobodyForgotten'  BY <1>2, <2>8 DEF NobodyForgotten
  <2>. QED  BY <1>1, <1>2, <1>3, <2>10, <2>11, <2>12, <2>13, <2>14 DEF CollectHolds
<1>4. CASE collectPC' = "failed" /\ UNCHANGED todo
  <2>1. Collect!TypeOK'  BY <1>1, <1>2, <1>4 DEF Collect!TypeOK
  <2>2. TodoHolds' /\ TracksHold' /\ DownloadHolds'
    BY <1>1, <1>2, <1>4 DEF TodoHolds, TracksHold, DownloadHolds, Distinct
  <2>. QED  BY <1>1, <1>2, <1>4, <2>1, <2>2 DEF CollectHolds
<1>. QED  BY <1>3, <1>4 DEF Collect!ListParticipants

(* What holds of the speakers still to come holds of all but the first.    *)
LEMMA TailIs ==
    ASSUME NEW S, NEW list \in Seq(S), list # <<>>
    PROVE  /\ Head(list) = list[1] /\ Head(list) \in S
           /\ Len(list) \in Nat /\ Len(list) > 0
           /\ Tail(list) \in Seq(S) /\ Len(Tail(list)) = Len(list) - 1
           /\ \A j \in 1 .. Len(list) - 1 :
                 Tail(list)[j] = list[j + 1] /\ j + 1 \in 1 .. Len(list)
           /\ \A j \in 1 .. Len(list) : j = 1 \/ j - 1 \in 1 .. Len(list) - 1
  BY HeadTailProperties

(* The first speaker is done: the others are as they were.                 *)
LEMMA TodoTail ==
    ASSUME TodoHolds, todo \in Seq(Speakers), todo # <<>>, todo' = Tail(todo),
           UNCHANGED <<consent, skipped>>,
           UNCHANGED tracks
              \/ \E t : /\ tracks' = Append(tracks, t) /\ t.speaker = Head(todo)
                        /\ t \in Track /\ tracks \in Seq(Track)
    PROVE  TodoHolds'
<1>1. /\ Head(todo) = todo[1] /\ Len(todo) \in Nat /\ Len(todo) > 0
      /\ Len(Tail(todo)) = Len(todo) - 1
      /\ \A j \in 1 .. Len(todo) - 1 :
            Tail(todo)[j] = todo[j + 1] /\ j + 1 \in 1 .. Len(todo)
  BY TailIs
<1>2. Distinct(todo')
  <2>. SUFFICES ASSUME NEW i \in 1 .. Len(todo'), NEW j \in 1 .. Len(todo'),
                       todo'[i] = todo'[j]
                PROVE  i = j
    BY DEF Distinct
  <2>1. i + 1 \in 1 .. Len(todo) /\ j + 1 \in 1 .. Len(todo) /\ todo[i + 1] = todo[j + 1]
    BY <1>1
  <2>2. i + 1 = j + 1  BY <2>1 DEF TodoHolds, Distinct
  <2>. QED  BY <1>1, <2>2
<1>3. ASSUME NEW j \in 1 .. Len(todo')
      PROVE  /\ consent'[todo'[j]] = "full"
             /\ \A i \in 1 .. Len(tracks') : tracks'[i].speaker # todo'[j]
             /\ skipped'[todo'[j]] = {}
  <2>1. todo'[j] = todo[j + 1] /\ j + 1 \in 1 .. Len(todo) /\ j + 1 # 1 /\ 1 \in 1 .. Len(todo)
    BY <1>1
  <2>2. /\ consent[todo[j + 1]] = "full" /\ skipped[todo[j + 1]] = {}
        /\ \A i \in 1 .. Len(tracks) : tracks[i].speaker # todo[j + 1]
    BY <2>1 DEF TodoHolds
  <2>3. todo[j + 1] # Head(todo)  BY <1>1, <2>1 DEF TodoHolds, Distinct
  <2>4. \A i \in 1 .. Len(tracks') : tracks'[i].speaker # todo'[j]
    <3>1. CASE UNCHANGED tracks  BY <2>1, <2>2, <3>1
    <3>2. CASE \E t : /\ tracks' = Append(tracks, t) /\ t.speaker = Head(todo)
                      /\ t \in Track /\ tracks \in Seq(Track)
      <4>1. PICK t \in Track : tracks' = Append(tracks, t) /\ t.speaker = Head(todo)
                               /\ tracks \in Seq(Track)
        BY <3>2
      <4>2. /\ Len(tracks') = Len(tracks) + 1 /\ Len(tracks) \in Nat
            /\ tracks'[Len(tracks) + 1] = t
            /\ \A i \in 1 .. Len(tracks) : tracks'[i] = tracks[i]
        BY <4>1, AppendProperties
      <4>3. \A i \in 1 .. Len(tracks') : i = Len(tracks) + 1 \/ i \in 1 .. Len(tracks)
        BY <4>2
      <4>. QED  BY <2>1, <2>2, <2>3, <4>1, <4>2, <4>3
    <3>. QED  BY <3>1, <3>2
  <2>. QED  BY <2>1, <2>2, <2>4
<1>. QED  BY <1>2, <1>3 DEF TodoHolds

LEMMA ListChunksHolds ==
    ASSUME StepsAssumption, CollectHolds, step = "collect", step' = step, Collect!ListChunks
    PROVE  CollectHolds'
<1>. DEFINE s == Head(todo)
<1>1. /\ Collect!TypeOK /\ begun \in [Speakers -> {0, 5}]
      /\ TodoHolds /\ TracksHold /\ NobodyForgotten
      /\ collectPC = "speaker" /\ todo # <<>>
  BY DEF CollectHolds, Collect!ListChunks
<1>2. UNCHANGED <<consent, stored, begun, tracks, skipped>>
  BY DEF Collect!ListChunks, Collect!dataApi
<1>3. /\ s = todo[1] /\ s \in Speakers /\ Len(todo) \in Nat /\ Len(todo) > 0
      /\ Tail(todo) \in Seq(Speakers) /\ Len(Tail(todo)) = Len(todo) - 1
      /\ \A j \in 1 .. Len(todo) - 1 : Tail(todo)[j] = todo[j + 1] /\ j + 1 \in 1 .. Len(todo)
      /\ \A j \in 1 .. Len(todo) : j = 1 \/ j - 1 \in 1 .. Len(todo) - 1
  BY <1>1, TailIs DEF Collect!TypeOK
<1>. HIDE DEF s
<1>4. /\ MaxSeq \in Nat /\ Collect!Seqs = 0 .. MaxSeq
      /\ stored[s] \in SUBSET (0 .. MaxSeq) /\ IsFiniteSet(stored[s])
      /\ Sorted(Ascending(stored[s]), stored[s])
  BY <1>1, <1>3, StoredIs
<1>5. TracksHold'  BY <1>1, <1>2 DEF TracksHold, TrackIs, Collect!Instant
<1>6. CASE /\ stored[s] # {}
           /\ \E listing \in Collect!SetToSeqs(stored[s]) : listed' = Collect!InOrder(listing)
           /\ collectPC' = "download" /\ next' = 1 /\ raw' = <<>>
           /\ UNCHANGED todo
  <2>1. PICK listing \in Collect!SetToSeqs(stored[s]) : listed' = Collect!InOrder(listing)
    BY <1>6
  <2>2. /\ listing \in Seq(stored[s])
        /\ \A e \in stored[s] : \E i \in 1 .. Len(listing) : listing[i] = e
    BY <1>4, ListingIs
  <2>3. Collect!Range(listing) = stored[s]
    <3>1. DOMAIN listing = 1 .. Len(listing) /\ \A i \in 1 .. Len(listing) : listing[i] \in stored[s]
      BY <2>2
    <3>. QED  BY <2>2, <3>1, CollectRange
  <2>4. listed' = Ascending(stored[s])
    BY <2>1, <2>3, CollectAscending DEF Collect!InOrder
  <2>5. Sorted(listed', stored[s])  BY <1>4, <2>4
  <2>6. listed' \in Seq(Collect!Seqs) /\ Len(listed') \in Nat
    <3>1. listed' \in Seq(stored[s])  BY <2>5 DEF Sorted
    <3>. QED  BY <1>4, <3>1, SeqMonotonic
  <2>7. next' = 1 /\ next' \in 1 .. Len(listed') + 1  BY <1>6, <2>6
  <2>8. raw' = <<>> /\ raw' \in Seq(Collect!Seqs)  BY <1>6
  <2>9. Collect!TypeOK'  BY <1>1, <1>2, <1>6, <2>6, <2>7, <2>8 DEF Collect!TypeOK
  <2>10. skipped[s] = {}
    <3>1. 1 \in 1 .. Len(todo)  BY <1>3
    <3>. QED  BY <1>1, <1>3, <3>1 DEF TodoHolds
  <2>11. Asked' = {}  BY <2>7 DEF Asked
  <2>12. Sorted(<<>>, {})  BY DEF Sorted
  <2>13. DownloadHolds'
    BY <1>1, <1>2, <1>6, <2>5, <2>8, <2>10, <2>11, <2>12 DEF DownloadHolds, s
  <2>14. TodoHolds'  BY <1>1, <1>2, <1>6 DEF TodoHolds, Distinct
  <2>15. NobodyForgotten'  BY <1>1, <1>2, <1>6 DEF NobodyForgotten
  <2>. QED  BY <1>1, <1>2, <1>5, <1>6, <2>9, <2>13, <2>14, <2>15 DEF CollectHolds
<1>7. CASE /\ stored[s] = {} /\ todo' = Tail(todo)
           /\ UNCHANGED <<collectPC, listed, next, raw>>
  <2>1. Collect!TypeOK'  BY <1>1, <1>2, <1>3, <1>7 DEF Collect!TypeOK
  <2>2. TodoHolds'  BY <1>1, <1>2, <1>7, TodoTail DEF Collect!TypeOK
  <2>3. DownloadHolds'  BY <1>1, <1>7 DEF DownloadHolds
  <2>4. NobodyForgotten'
    <3>. SUFFICES ASSUME NEW u \in Speakers, consent[u] = "full", stored[u] # {}
                  PROVE  \/ \E j \in 1 .. Len(todo') : todo'[j] = u
                         \/ \E i \in 1 .. Len(tracks) : tracks[i].speaker = u
      BY <1>2 DEF NobodyForgotten
    <3>1. CASE \E i \in 1 .. Len(tracks) : tracks[i].speaker = u  BY <3>1
    <3>2. CASE \E j \in 1 .. Len(todo) : todo[j] = u
      <4>1. PICK j \in 1 .. Len(todo) : todo[j] = u  BY <3>2
      <4>2. j # 1  BY <1>3, <1>7, <4>1
      <4>3. j - 1 \in 1 .. Len(todo) - 1 /\ (j - 1) + 1 = j  BY <1>3, <4>2
      <4>4. todo'[j - 1] = u /\ j - 1 \in 1 .. Len(todo')  BY <1>3, <1>7, <4>1, <4>3
      <4>. QED  BY <4>4
    <3>. QED  BY <1>1, <3>1, <3>2 DEF NobodyForgotten
  <2>. QED  BY <1>1, <1>2, <1>5, <1>7, <2>1, <2>2, <2>3, <2>4 DEF CollectHolds
<1>8. CASE collectPC' = "failed" /\ UNCHANGED <<todo, listed, next, raw>>
  <2>1. Collect!TypeOK'  BY <1>1, <1>2, <1>8 DEF Collect!TypeOK
  <2>2. TodoHolds'  BY <1>1, <1>2, <1>8 DEF TodoHolds, Distinct
  <2>3. DownloadHolds'  BY <1>8 DEF DownloadHolds
  <2>. QED  BY <1>1, <1>2, <1>5, <1>8, <2>1, <2>2, <2>3 DEF CollectHolds
<1>. QED  BY <1>6, <1>7, <1>8 DEF Collect!ListChunks, s

LEMMA DownloadHoldsOn ==
    ASSUME StepsAssumption, CollectHolds, step = "collect", step' = step, Collect!Download
    PROVE  CollectHolds'
<1>. DEFINE s == Head(todo)  e == listed[next]
<1>1. /\ Collect!TypeOK /\ begun \in [Speakers -> {0, 5}]
      /\ TodoHolds /\ TracksHold /\ NobodyForgotten
      /\ collectPC = "download" /\ next <= Len(listed)
      /\ todo # <<>> /\ stored[s] # {} /\ Sorted(listed, stored[s])
      /\ skipped[s] \subseteq Asked /\ Sorted(raw, Asked \ skipped[s])
  BY DEF CollectHolds, DownloadHolds, Collect!Download
<1>2. /\ UNCHANGED <<consent, stored, begun, collectPC, todo, listed, tracks>>
      /\ next' = next + 1
  BY DEF Collect!Download, Collect!dataApi
<1>3. s = todo[1] /\ s \in Speakers /\ Len(todo) \in Nat /\ Len(todo) > 0
  BY <1>1, TailIs DEF Collect!TypeOK
<1>4. \/ raw' = Append(raw, e) /\ UNCHANGED skipped
      \/ skipped' = [skipped EXCEPT ![s] = @ \cup {e}] /\ UNCHANGED raw
  BY DEF Collect!Download
<1>5. /\ MaxSeq \in Nat /\ Collect!Seqs = 0 .. MaxSeq
      /\ stored[s] \in SUBSET (0 .. MaxSeq) /\ stored[s] \in SUBSET Nat
  BY <1>1, <1>3, StoredIs
<1>6. /\ Len(listed) \in Nat /\ next \in 1 .. Len(listed)
      /\ \A i \in 1 .. Len(listed) : listed[i] \in stored[s]
  <2>1. listed \in Seq(stored[s])  BY <1>1 DEF Sorted
  <2>2. Len(listed) \in Nat /\ next \in 1 .. Len(listed) + 1  BY <2>1, <1>1 DEF Collect!TypeOK
  <2>. QED  BY <1>1, <2>1, <2>2
<1>7. /\ e \in Nat /\ e \in Collect!Seqs
      /\ Asked \in SUBSET Nat /\ \A o \in Asked : o < e
      /\ Asked' = Asked \cup {e}
  <2>1. e \in stored[s]  BY <1>6
  <2>2. \A i \in 1 .. next - 1 : i \in 1 .. Len(listed) /\ i < next  BY <1>6
  <2>3. \A i \in 1 .. next - 1 : listed[i] < e /\ listed[i] \in Nat
    BY <1>1, <1>5, <1>6, <2>2 DEF Sorted
  <2>4. \A i : i \in 1 .. (next + 1) - 1 <=> i \in 1 .. next - 1 \/ i = next  BY <1>6
  <2>5. Asked' = {listed[i] : i \in 1 .. (next + 1) - 1}  BY <1>2 DEF Asked
  <2>6. Asked' = Asked \cup {e}
    <3>1. ASSUME NEW x \in Asked'  PROVE x \in Asked \cup {e}
      <4>1. PICK i \in 1 .. (next + 1) - 1 : x = listed[i]  BY <2>5
      <4>. QED  BY <2>4, <4>1 DEF Asked
    <3>2. ASSUME NEW x \in Asked \cup {e}  PROVE x \in Asked'
      <4>1. PICK i : x = listed[i] /\ (i \in 1 .. next - 1 \/ i = next)  BY DEF Asked
      <4>. QED  BY <2>4, <2>5, <4>1
    <3>. HIDE DEF e
    <3>. QED  BY <3>1, <3>2
  <2>7. Asked \in SUBSET Nat /\ \A o \in Asked : o < e  BY <2>3 DEF Asked
  <2>. QED  BY <1>5, <2>1, <2>6, <2>7
<1>8. next' \in 1 .. Len(listed') + 1  BY <1>2, <1>6
<1>. HIDE DEF e
<1>9. e \notin Asked /\ e \notin skipped[s]  BY <1>1, <1>7
<1>10. NobodyForgotten'  BY <1>1, <1>2 DEF NobodyForgotten
<1>11. CASE raw' = Append(raw, e) /\ UNCHANGED skipped
  <2>1. Asked \ skipped[s] \in SUBSET Nat /\ \A o \in Asked \ skipped[s] : o < e
    BY <1>7
  <2>2. Sorted(raw', (Asked \ skipped[s]) \cup {e})
    <3>. DEFINE A == Asked \ skipped[s]
    <3>1. A \in SUBSET Nat /\ Sorted(raw, A) /\ \A o \in A : o < e  BY <1>1, <2>1
    <3>. HIDE DEF A
    <3>2. Sorted(Append(raw, e), A \cup {e})  BY <1>7, <3>1, SortedAppend
    <3>. QED  BY <1>11, <3>2 DEF A
  <2>3. (Asked \ skipped[s]) \cup {e} = (Asked \cup {e}) \ skipped[s]  BY <1>9
  <2>4. raw' \in Seq(Collect!Seqs)  BY <1>1, <1>7, <1>11 DEF Collect!TypeOK
  <2>5. Collect!TypeOK'  BY <1>1, <1>2, <1>8, <1>11, <2>4 DEF Collect!TypeOK
  <2>6. DownloadHolds'
    <3>1. Asked' \ skipped[s] = (Asked \ skipped[s]) \cup {e}  BY <1>7, <2>3
    <3>2. Sorted(raw', Asked' \ skipped[s])  BY <2>2, <3>1
    <3>3. skipped[s] \subseteq Asked'  BY <1>1, <1>7
    <3>. QED  BY <1>1, <1>2, <1>11, <3>2, <3>3 DEF DownloadHolds
  <2>7. TodoHolds' /\ TracksHold'
    BY <1>1, <1>2, <1>11 DEF TodoHolds, TracksHold, TrackIs, Distinct, Collect!Instant
  <2>. QED  BY <1>1, <1>2, <1>10, <2>5, <2>6, <2>7 DEF CollectHolds
<1>12. CASE skipped' = [skipped EXCEPT ![s] = @ \cup {e}] /\ UNCHANGED raw
  <2>1. skipped \in [Speakers -> SUBSET Collect!Seqs]  BY <1>1 DEF Collect!TypeOK
  <2>2. /\ skipped' \in [Speakers -> SUBSET Collect!Seqs]
        /\ skipped'[s] = skipped[s] \cup {e}
        /\ \A u \in Speakers : u # s => skipped'[u] = skipped[u]
    BY <1>3, <1>7, <1>12, <2>1
  <2>3. Collect!TypeOK'  BY <1>1, <1>2, <1>8, <1>12, <2>2 DEF Collect!TypeOK
  <2>4. Asked' \ skipped'[s] = Asked \ skipped[s]  BY <1>7, <1>9, <2>2
  <2>5. skipped'[s] \subseteq Asked'  BY <1>1, <1>7, <2>2
  <2>6. DownloadHolds'  BY <1>1, <1>2, <1>12, <2>4, <2>5 DEF DownloadHolds
  <2>7. TodoHolds'
    <3>. SUFFICES ASSUME NEW j \in 1 .. Len(todo)
                  PROVE  skipped'[todo[j]] = {} \/ (j = 1 /\ collectPC = "download")
      BY <1>1, <1>2 DEF TodoHolds, Distinct
    <3>1. CASE j = 1  BY <1>1, <3>1
    <3>2. CASE j # 1
      <4>1. 1 \in 1 .. Len(todo) /\ todo[j] \in Speakers  BY <1>1, <1>3 DEF Collect!TypeOK
      <4>2. todo[j] # s  BY <1>1, <1>3, <3>2, <4>1 DEF TodoHolds, Distinct
      <4>. QED  BY <1>1, <2>2, <3>2, <4>1, <4>2 DEF TodoHolds
    <3>. QED  BY <3>1, <3>2
  <2>8. TracksHold'
    <3>1. ASSUME NEW i \in 1 .. Len(tracks)  PROVE TrackIs(tracks[i])'
      <4>1. TrackIs(tracks[i])  BY <1>1 DEF TracksHold
      <4>2. 1 \in 1 .. Len(todo)  BY <1>3
      <4>3. tracks[i].speaker # s  BY <1>1, <1>3, <4>2 DEF TodoHolds
      <4>4. tracks[i].speaker \in Speakers  BY <4>1 DEF TrackIs
      <4>5. skipped'[tracks[i].speaker] = skipped[tracks[i].speaker]  BY <2>2, <4>3, <4>4
      <4>. QED  BY <1>2, <4>1, <4>5 DEF TrackIs, Collect!Instant
    <3>. QED  BY <1>1, <1>2, <3>1 DEF TracksHold
  <2>. QED  BY <1>1, <1>2, <1>10, <2>3, <2>6, <2>7, <2>8 DEF CollectHolds
<1>. QED  BY <1>4, <1>11, <1>12

LEMMA PushHolds ==
    ASSUME StepsAssumption, CollectHolds, step = "collect", step' = step, Collect!PushTrack
    PROVE  CollectHolds'
<1>0. PICK s, t : s = Head(todo) /\ t = [speaker |-> Head(todo),
                                         at |-> Collect!StartsAt(Head(todo)), pcm |-> raw]
  OBVIOUS
<1>1. /\ Collect!TypeOK /\ begun \in [Speakers -> {0, 5}]
      /\ TodoHolds /\ TracksHold /\ NobodyForgotten
      /\ collectPC = "download" /\ next > Len(listed)
      /\ todo # <<>> /\ stored[s] # {} /\ Sorted(listed, stored[s])
      /\ Sorted(raw, Asked \ skipped[s])
  BY <1>0 DEF CollectHolds, DownloadHolds, Collect!PushTrack
<1>2. /\ UNCHANGED <<consent, stored, begun, listed, next, raw, skipped>>
      /\ tracks' = Append(tracks, t) /\ todo' = Tail(todo) /\ collectPC' = "speaker"
  BY <1>0 DEF Collect!PushTrack, Collect!dataApi
<1>3. /\ s = todo[1] /\ s \in Speakers /\ Len(todo) \in Nat /\ Len(todo) > 0
      /\ Tail(todo) \in Seq(Speakers) /\ Len(Tail(todo)) = Len(todo) - 1
      /\ \A j \in 1 .. Len(todo) - 1 : Tail(todo)[j] = todo[j + 1] /\ j + 1 \in 1 .. Len(todo)
      /\ \A j \in 1 .. Len(todo) : j = 1 \/ j - 1 \in 1 .. Len(todo) - 1
  BY <1>0, <1>1, TailIs DEF Collect!TypeOK
<1>4. /\ MaxSeq \in Nat /\ Collect!Seqs = 0 .. MaxSeq
      /\ stored[s] \in SUBSET (0 .. MaxSeq) /\ stored[s] \in SUBSET Nat
      /\ Sorted(Ascending(stored[s]), stored[s])
  BY <1>1, <1>3, StoredIs
<1>5. listed \in Seq(stored[s]) /\ Len(listed) \in Nat /\ next = Len(listed) + 1
  <2>1. listed \in Seq(stored[s])  BY <1>1 DEF Sorted
  <2>2. Len(listed) \in Nat /\ next \in 1 .. Len(listed) + 1  BY <2>1, <1>1 DEF Collect!TypeOK
  <2>. QED  BY <1>1, <2>1, <2>2
<1>6. Asked = stored[s]
  <2>1. next - 1 = Len(listed)  BY <1>5
  <2>2. \A e \in stored[s] : \E i \in 1 .. Len(listed) : listed[i] = e  BY <1>1 DEF Sorted
  <2>3. \A i \in 1 .. Len(listed) : listed[i] \in stored[s]  BY <1>5
  <2>. QED  BY <2>1, <2>2, <2>3 DEF Asked
<1>7. listed = Ascending(stored[s])  BY <1>1, <1>4, SortedUnique
<1>8. Len(listed) > 0
  <2>1. PICK e : e \in stored[s]  BY <1>1
  <2>2. PICK i \in 1 .. Len(listed) : listed[i] = e  BY <1>1, <2>1 DEF Sorted
  <2>. QED  BY <1>5, <2>2
<1>9. Collect!StartsAt(s) \in Nat
  <2>1. listed[1] \in Nat  BY <1>4, <1>5, <1>8
  <2>2. begun[s] \in {0, 5}  BY <1>1, <1>3
  <2>. QED  BY <2>1, <2>2 DEF Collect!StartsAt, Collect!Instant
<1>10. t \in Track /\ t.speaker = s /\ t.pcm = raw /\ t.at = Collect!StartsAt(s)
  BY <1>0, <1>1, <1>3, <1>9 DEF Track, Collect!TypeOK
<1>11. consent[s] = "full" /\ \A i \in 1 .. Len(tracks) : tracks[i].speaker # s
  <2>1. 1 \in 1 .. Len(todo)  BY <1>3
  <2>. QED  BY <1>1, <1>3, <2>1 DEF TodoHolds
<1>12. TrackIs(t)'
  <2>1. t.at = Collect!Instant(s, Ascending(stored[s])[1])
    BY <1>7, <1>10 DEF Collect!StartsAt
  <2>2. Sorted(t.pcm, stored[s] \ skipped[s])  BY <1>1, <1>6, <1>10
  <2>. QED  BY <1>1, <1>2, <1>3, <1>10, <1>11, <2>1, <2>2 DEF TrackIs, Collect!Instant
<1>13. /\ tracks \in Seq(Track) /\ tracks' \in Seq(Track)
       /\ Len(tracks') = Len(tracks) + 1 /\ Len(tracks) \in Nat
       /\ tracks'[Len(tracks) + 1] = t
       /\ \A i \in 1 .. Len(tracks) : tracks'[i] = tracks[i]
       /\ \A i \in 1 .. Len(tracks') : i = Len(tracks) + 1 \/ i \in 1 .. Len(tracks)
  <2>1. tracks \in Seq(Track)  BY <1>1 DEF TracksHold
  <2>2. /\ tracks' \in Seq(Track) /\ Len(tracks') = Len(tracks) + 1
        /\ tracks'[Len(tracks) + 1] = t
        /\ \A i \in 1 .. Len(tracks) : tracks'[i] = tracks[i]
    BY <1>2, <1>10, <2>1, AppendProperties
  <2>3. Len(tracks) \in Nat  BY <2>1
  <2>. QED  BY <2>1, <2>2, <2>3
<1>14. TracksHold'
  <2>1. ASSUME NEW i \in 1 .. Len(tracks')  PROVE TrackIs(tracks[i])'
    <3>1. CASE i = Len(tracks) + 1
      <4>1. tracks'[i] = t  BY <1>13, <3>1
      <4>. QED  BY <1>12, <4>1 DEF TrackIs, Collect!Instant
    <3>2. CASE i \in 1 .. Len(tracks)
      <4>1. tracks'[i] = tracks[i] /\ TrackIs(tracks[i])  BY <1>1, <1>13, <3>2 DEF TracksHold
      <4>. QED  BY <1>2, <4>1 DEF TrackIs, Collect!Instant
    <3>. QED  BY <1>13, <3>1, <3>2
  <2>2. ASSUME NEW i \in 1 .. Len(tracks'), NEW j \in 1 .. Len(tracks'),
               tracks'[i].speaker = tracks'[j].speaker
        PROVE  i = j
    <3>1. CASE i \in 1 .. Len(tracks) /\ j \in 1 .. Len(tracks)
      BY <1>1, <1>13, <2>2, <3>1 DEF TracksHold
    <3>2. CASE i = Len(tracks) + 1 /\ j \in 1 .. Len(tracks)
      BY <1>10, <1>11, <1>13, <2>2, <3>2
    <3>3. CASE i \in 1 .. Len(tracks) /\ j = Len(tracks) + 1
      BY <1>10, <1>11, <1>13, <2>2, <3>3
    <3>. QED  BY <1>13, <3>1, <3>2, <3>3
  <2>. QED  BY <1>13, <2>1, <2>2 DEF TracksHold
<1>15. Collect!TypeOK'
  <2>1. todo' \in Seq(Speakers)  BY <1>2, <1>3
  <2>2. \A i \in DOMAIN tracks' : tracks'[i].pcm \in Seq(Collect!Seqs)
    <3>1. \A i \in DOMAIN tracks' : tracks'[i] \in Track  BY <1>13
    <3>. QED  BY <3>1 DEF Track
  <2>. QED  BY <1>1, <1>2, <2>1, <2>2 DEF Collect!TypeOK
<1>16. TodoHolds'
  BY <1>0, <1>1, <1>2, <1>10, <1>13, TodoTail DEF Collect!TypeOK
<1>17. NobodyForgotten'
  <2>. SUFFICES ASSUME NEW u \in Speakers, consent[u] = "full", stored[u] # {}
                PROVE  \/ \E j \in 1 .. Len(todo') : todo'[j] = u
                       \/ \E i \in 1 .. Len(tracks') : tracks'[i].speaker = u
    BY <1>2 DEF NobodyForgotten
  <2>1. CASE \E i \in 1 .. Len(tracks) : tracks[i].speaker = u
    <3>1. PICK i \in 1 .. Len(tracks) : tracks[i].speaker = u  BY <2>1
    <3>2. i \in 1 .. Len(tracks') /\ tracks'[i].speaker = u  BY <1>13, <3>1
    <3>. QED  BY <3>2
  <2>2. CASE \E j \in 1 .. Len(todo) : todo[j] = u
    <3>1. PICK j \in 1 .. Len(todo) : todo[j] = u  BY <2>2
    <3>2. CASE j = 1
      <4>1. Len(tracks) + 1 \in 1 .. Len(tracks')  BY <1>13
      <4>2. tracks'[Len(tracks) + 1].speaker = u  BY <1>3, <1>10, <1>13, <3>1, <3>2
      <4>. QED  BY <4>1, <4>2
    <3>3. CASE j # 1
      <4>1. j - 1 \in 1 .. Len(todo) - 1 /\ (j - 1) + 1 = j  BY <1>3, <3>3
      <4>2. todo'[j - 1] = u /\ j - 1 \in 1 .. Len(todo')  BY <1>2, <1>3, <3>1, <4>1
      <4>. QED  BY <4>2
    <3>. QED  BY <3>2, <3>3
  <2>. QED  BY <1>1, <2>1, <2>2 DEF NobodyForgotten
<1>18. DownloadHolds'  BY <1>2 DEF DownloadHolds
<1>. QED  BY <1>1, <1>2, <1>14, <1>15, <1>16, <1>17, <1>18 DEF CollectHolds

LEMMA CollectedHolds ==
    ASSUME StepsAssumption, CollectHolds, step = "collect", step' = step, Collect!Collected
    PROVE  CollectHolds'
<1>1. /\ Collect!TypeOK /\ begun \in [Speakers -> {0, 5}]
      /\ TodoHolds /\ TracksHold /\ NobodyForgotten
      /\ collectPC = "speaker" /\ todo = <<>>
  BY DEF CollectHolds, Collect!Collected
<1>2. /\ UNCHANGED <<consent, stored, begun, todo, listed, next, raw, tracks, skipped>>
      /\ collectPC' = IF Collect!NoTracks THEN "empty" ELSE "tracks"
  BY DEF Collect!Collected, Collect!dataApi
<1>3. /\ collectPC' \in {"empty", "tracks"}
      /\ collectPC' = "empty" => tracks = <<>>
  BY <1>2 DEF Collect!NoTracks
<1>4. Collect!TypeOK'  BY <1>1, <1>2, <1>3 DEF Collect!TypeOK
<1>5. TodoHolds'  BY <1>1, <1>2 DEF TodoHolds, Distinct
<1>6. TracksHold'  BY <1>1, <1>2 DEF TracksHold, TrackIs, Collect!Instant
<1>7. DownloadHolds'  BY <1>3 DEF DownloadHolds
<1>8. NobodyForgotten'  BY <1>1, <1>2 DEF NobodyForgotten
<1>. QED  BY <1>1, <1>2, <1>3, <1>4, <1>5, <1>6, <1>7, <1>8 DEF CollectHolds

LEMMA CollectHoldsAlways == Spec => []CollectHolds
<1>1. Init => CollectHolds  BY StepsAssumption, CollectHoldsAtFirst
<1>2. CollectHolds /\ [Next]_stepVars => CollectHolds'
  <2>. SUFFICES ASSUME CollectHolds, [Next]_stepVars  PROVE CollectHolds'
    OBVIOUS
  <2>1. CASE Next /\ step = "collect"
    <3>1. step' = step /\ Collect!Next  BY <2>1 DEF Next
    <3>2. CASE Collect!ListParticipants
      BY <2>1, <3>1, <3>2, StepsAssumption, ParticipantsHold
    <3>3. CASE Collect!ListChunks  BY <2>1, <3>1, <3>3, StepsAssumption, ListChunksHolds
    <3>4. CASE Collect!Download  BY <2>1, <3>1, <3>4, StepsAssumption, DownloadHoldsOn
    <3>5. CASE Collect!PushTrack  BY <2>1, <3>1, <3>5, StepsAssumption, PushHolds
    <3>6. CASE Collect!Collected  BY <2>1, <3>1, <3>6, StepsAssumption, CollectedHolds
    <3>. QED  BY <3>1, <3>2, <3>3, <3>4, <3>5, <3>6 DEF Collect!Next
  <2>2. CASE Next /\ step # "collect"  BY <2>2 DEF Next, CollectHolds
  <2>3. CASE UNCHANGED stepVars
    <3>1. UNCHANGED step /\ UNCHANGED collectVars  BY <2>3 DEF stepVars
    <3>2. Collect!TypeOK' = Collect!TypeOK  BY <3>1 DEF collectVars, Collect!TypeOK
    <3>3. TodoHolds' = TodoHolds  BY <3>1 DEF collectVars, TodoHolds, Distinct
    <3>4. TracksHold' = TracksHold
      BY <3>1 DEF collectVars, TracksHold, TrackIs, Collect!Instant
    <3>5. DownloadHolds' = DownloadHolds  BY <3>1 DEF collectVars, DownloadHolds, Asked
    <3>6. NobodyForgotten' = NobodyForgotten  BY <3>1 DEF collectVars, NobodyForgotten
    <3>. QED  BY <3>1, <3>2, <3>3, <3>4, <3>5, <3>6 DEF collectVars, CollectHolds
  <2>. QED  BY <2>1, <2>2, <2>3
<1>. QED  BY <1>1, <1>2, PTL DEF Spec
(* When the run goes on, the tracks are those of the consenting speakers   *)
(* with audio, one each, of all that could be downloaded in the order of   *)
(* capture, whatever order the data-api lists it in                        *)
(* (session_runner.rs:398-440).                                            *)
THEOREM TracksAreWhole == Spec => []TracksAreComplete
<1>1. CollectHolds => TracksAreComplete
  <2>. SUFFICES ASSUME CollectHolds, step = "collect", collectPC = "tracks",
                       NEW s \in Speakers
                PROVE  IF consent[s] = "full" /\ stored[s] # {}
                       THEN \E i \in DOMAIN tracks :
                               /\ Collect!HeardOf(s) = {i}
                               /\ tracks[i].pcm = Collect!Ascending(stored[s] \ skipped[s])
                       ELSE Collect!HeardOf(s) = {}
    BY DEF TracksAreComplete, Collect!TracksAreComplete
  <2>1. Collect!TypeOK /\ TracksHold /\ NobodyForgotten /\ todo = <<>>
    BY DEF CollectHolds
  <2>2. /\ tracks \in Seq(Track) /\ DOMAIN tracks = 1 .. Len(tracks)
        /\ \A i \in 1 .. Len(tracks) : TrackIs(tracks[i])
    BY <2>1 DEF TracksHold
  <2>3. ASSUME consent[s] = "full" /\ stored[s] # {}
        PROVE  \E i \in DOMAIN tracks :
                  /\ Collect!HeardOf(s) = {i}
                  /\ tracks[i].pcm = Collect!Ascending(stored[s] \ skipped[s])
    <3>1. PICK i \in 1 .. Len(tracks) : tracks[i].speaker = s
      BY <2>1, <2>3 DEF NobodyForgotten
    <3>2. Collect!HeardOf(s) = {i}
      BY <2>1, <2>2, <3>1 DEF TracksHold, Collect!HeardOf
    <3>. DEFINE left == stored[s] \ skipped[s]
    <3>3. /\ MaxSeq \in Nat /\ stored[s] \in SUBSET (0 .. MaxSeq)
          /\ stored[s] \in SUBSET Nat
      BY <2>1, StepsAssumption, StoredIs
    <3>4. Sorted(tracks[i].pcm, left)  BY <2>2, <3>1 DEF TrackIs
    <3>5. left \in SUBSET (0 .. MaxSeq) /\ left \in SUBSET Nat  BY <3>3
    <3>. HIDE DEF left
    <3>6. Sorted(Ascending(left), left)  BY <3>3, <3>5, AscendingSorted
    <3>7. tracks[i].pcm = Ascending(left)  BY <3>4, <3>5, <3>6, SortedUnique
    <3>8. tracks[i].pcm = Collect!Ascending(stored[s] \ skipped[s])
      BY <3>7, CollectAscending DEF left
    <3>. QED  BY <2>2, <3>2, <3>8
  <2>4. ASSUME ~(consent[s] = "full" /\ stored[s] # {})  PROVE Collect!HeardOf(s) = {}
    BY <2>2, <2>4 DEF TrackIs, Collect!HeardOf
  <2>. QED  BY <2>3, <2>4
<1>. QED  BY <1>1, CollectHoldsAlways, PTL

(* However many requests fail, the branch without tracks is taken only if  *)
(* no consenting speaker has a chunk stored (session_runner.rs:290-294).   *)
(* That a session whose downloads all fail is marked without rows as well  *)
(* is not excluded: it has tracks, and goes on with them.                  *)
THEOREM NoTracksIsSilent == Spec => []NoTracksMeansNoAudio
<1>1. CollectHolds => NoTracksMeansNoAudio
  <2>. SUFFICES ASSUME CollectHolds, step = "collect", collectPC = "empty",
                       NEW s \in Speakers, consent[s] = "full", stored[s] # {}
                PROVE  FALSE
    BY DEF NoTracksMeansNoAudio, Collect!NoTracksMeansNoAudio
  <2>1. NobodyForgotten /\ todo = <<>> /\ tracks = <<>>  BY DEF CollectHolds
  <2>. QED  BY <2>1 DEF NobodyForgotten
<1>. QED  BY <1>1, CollectHoldsAlways, PTL

(* Without a failed download or a gap every chunk of a track lies at its   *)
(* capture instant (session_runner.rs:427-434).                            *)
THEOREM TracksAreOnClock == Spec => []WholeTracksAreOnClock
<1>1. CollectHolds => WholeTracksAreOnClock
  <2>. SUFFICES ASSUME CollectHolds, step = "collect", NEW i \in DOMAIN tracks,
                       begun[tracks[i].speaker] # 0, skipped[tracks[i].speaker] = {},
                       Collect!Interval(stored[tracks[i].speaker])
                PROVE  Collect!OnClock(tracks[i])
    BY DEF WholeTracksAreOnClock, Collect!WholeTracksAreOnClock
  <2>0. PICK t, s : t = tracks[i] /\ s = tracks[i].speaker  OBVIOUS
  <2>1. /\ Collect!TypeOK /\ begun \in [Speakers -> {0, 5}]
        /\ tracks \in Seq(Track) /\ \A j \in 1 .. Len(tracks) : TrackIs(tracks[j])
    BY DEF CollectHolds, TracksHold
  <2>2. TrackIs(t) /\ t.speaker = s /\ s \in Speakers
    <3>1. i \in 1 .. Len(tracks)  BY <2>1
    <3>2. TrackIs(t) /\ t.speaker = s  BY <2>0, <2>1, <3>1
    <3>. QED  BY <3>2 DEF TrackIs
  <2>3. /\ MaxSeq \in Nat /\ Collect!Seqs = 0 .. MaxSeq
        /\ stored[s] \in SUBSET (0 .. MaxSeq) /\ stored[s] \in SUBSET Nat
        /\ Sorted(Ascending(stored[s]), stored[s])
    BY <2>1, <2>2, StepsAssumption, StoredIs
  <2>4. Sorted(t.pcm, stored[s])
    <3>1. stored[s] \ skipped[s] = stored[s]  BY <2>0
    <3>. QED  BY <2>2, <3>1 DEF TrackIs
  <2>5. t.pcm = Ascending(stored[s])  BY <2>3, <2>4, SortedUnique
  <2>6. \A j \in 1 .. Len(t.pcm) : t.pcm[j] = t.pcm[1] + j - 1
    <3>1. Unbroken(stored[s], MaxSeq)  BY <2>0, <2>3 DEF Collect!Interval, Unbroken
    <3>2. PICK S, list : S = stored[s] /\ list = t.pcm  OBVIOUS
    <3>3. S \in SUBSET (0 .. MaxSeq) /\ Sorted(list, S) /\ MaxSeq \in Nat
          /\ Unbroken(S, MaxSeq)
      BY <2>3, <2>4, <3>1, <3>2
    <3>4. \A j \in 1 .. Len(list) : list[j] = list[1] + j - 1  BY <3>3, Consecutive
    <3>. QED  BY <3>2, <3>4
  <2>7. begun[s] \in Nat /\ begun[s] # 0  BY <2>0, <2>1, <2>2
  <2>8. t.at = begun[s] + t.pcm[1]
    BY <2>2, <2>5, <2>7 DEF TrackIs, Collect!Instant
  <2>9. t.pcm \in Seq(stored[s])  BY <2>4 DEF Sorted
  <2>10. ASSUME NEW j \in DOMAIN t.pcm  PROVE t.at + j - 1 = Collect!Instant(s, t.pcm[j])
    <3>1. j \in 1 .. Len(t.pcm) /\ j \in Nat /\ 1 \in 1 .. Len(t.pcm)  BY <2>9
    <3>2. t.pcm[1] \in Nat  BY <2>3, <2>9, <3>1
    <3>3. t.pcm[j] = t.pcm[1] + j - 1  BY <2>6, <3>1
    <3>4. Collect!Instant(s, t.pcm[j]) = begun[s] + t.pcm[j]  BY <2>7 DEF Collect!Instant
    <3>. QED  BY <2>7, <2>8, <3>1, <3>2, <3>3, <3>4
  <2>. QED  BY <2>0, <2>2, <2>10 DEF Collect!OnClock
<1>. QED  BY <1>1, CollectHoldsAlways, PTL

(* Every step's variables hold values of their kinds: samples fit an i16,  *)
(* sizes their words, and no path decodes more than was captured.          *)
THEOREM StepsTyped == Spec => []TypeOK
<1>1. CollectHolds /\ DecodeHolds /\ CallHolds => TypeOK
  BY StepsAssumption, DecodeTypes DEF TypeOK, CollectHolds, CallHolds
<1>. QED  BY <1>1, CollectHoldsAlways, DecodeHoldsAlways, CallHoldsAlways, PTL
=============================================================================
