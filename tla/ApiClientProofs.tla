--------------------------- MODULE ApiClientProofs ---------------------------
(***************************************************************************)
(* Theorems about ApiClient for any number of callers and tokens.          *)
(***************************************************************************)
EXTENDS ApiClient, TLAPS

(* ----------------------- the inductive invariant ----------------------- *)

(* A token that is not stored yet has not been seen by anyone else.        *)
FreshIsUnseen ==
    \A c \in Callers : call[c].pc = "store" =>
        /\ call[c].token \in Tokens \ {stored}
        /\ \A d \in Callers : /\ call[c].token # call[d].refused
                              /\ d # c => call[c].token # call[d].token

(* Once a call has stored a token after its 401, the refused one is        *)
(* neither stored nor under way for it.                                    *)
RefusedIsGone ==
    \A c \in Downloads \cup {Heartbeat} :
        /\ call[c].pc \in {"send", "sent", "backoff"} => stored # call[c].refused
        /\ call[c].pc = "sent" => call[c].token # call[c].refused

RetriesCounted ==
    \A c \in Downloads : /\ call[c].retries <= MaxRetries
                         /\ call[c].pc = "backoff" => call[c].retries >= 1

ClientInv == TypeOK /\ FreshIsUnseen /\ RefusedIsGone /\ RetriesCounted

LEMMA CallerKinds ==
    /\ Downloads \subseteq Callers /\ Heartbeat \in Callers /\ Socket \in Callers
    /\ Socket \notin Downloads \cup {Heartbeat} /\ Heartbeat \notin Downloads
  BY ClientAssumption DEF Callers

LEMMA AtType ==
    ASSUME NEW pc \in PCs
    PROVE  /\ At(pc) \in Call /\ At(pc).pc = pc /\ At(pc).token = NoToken
           /\ At(pc).refused = NoToken /\ At(pc).retries = 0
  BY DEF At, Call

LEMMA ClientInit == Init => ClientInv
<1>. SUFFICES ASSUME Init PROVE ClientInv
  OBVIOUS
<1>1. \A c \in Callers : call[c] \in {At("send"), At("idle")}  BY DEF Init
<1>2. At("send") \in Call /\ At("idle") \in Call  BY AtType DEF PCs
<1>3. \A c \in Callers : /\ call[c].pc \in {"send", "idle"}
                         /\ call[c].refused = NoToken /\ call[c].retries = 0
  BY <1>1, AtType DEF PCs
<1>4. TypeOK  BY <1>2, ClientAssumption DEF Init, TypeOK
<1>5. stored # NoToken  BY ClientAssumption DEF Init
<1>. QED  BY <1>3, <1>4, <1>5, CallerKinds, ClientAssumption
          DEF ClientInv, FreshIsUnseen, RefusedIsGone, RetriesCounted

(* ------------------------- one caller's record ------------------------- *)

(* A step that changes only c's record, to one that holds no fresh token,  *)
(* and stores nothing.                                                     *)
LEMMA RecordStep ==
    ASSUME ClientInv, NEW c \in Callers, NEW new \in Call,
           call' = [call EXCEPT ![c] = new],
           valid' \subseteq Tokens, budget' \in [Kinds -> Nat],
           UNCHANGED stored,
           new.pc # "store",
           new.token \in {NoToken, stored, call[c].token},
           call[c].pc # "store",
           new.refused \in {NoToken, call[c].token, call[c].refused},
           c \in Downloads \cup {Heartbeat} =>
               /\ new.pc \in {"send", "sent", "backoff"} => stored # new.refused
               /\ new.pc = "sent" => new.token # new.refused,
           c \in Downloads =>
               /\ new.retries <= MaxRetries
               /\ new.pc = "backoff" => new.retries >= 1
    PROVE  ClientInv'
<1>1. call \in [Callers -> Call]  BY DEF ClientInv, TypeOK
<1>2. /\ call'[c] = new
      /\ \A d \in Callers : d # c => call'[d] = call[d]
  BY <1>1
<1>3. TypeOK'  BY <1>1 DEF ClientInv, TypeOK
<1>4. FreshIsUnseen'
  BY <1>2, ClientAssumption DEF ClientInv, FreshIsUnseen
<1>5. RefusedIsGone'  BY <1>2, CallerKinds DEF ClientInv, RefusedIsGone
<1>6. RetriesCounted'  BY <1>2, CallerKinds DEF ClientInv, RetriesCounted
<1>. QED  BY <1>3, <1>4, <1>5, <1>6 DEF ClientInv

LEMMA OverFacts ==
    ASSUME TypeOK, NEW c \in Callers, NEW failed \in BOOLEAN
    PROVE  /\ Over(c, failed) \in Call
           /\ Over(c, failed).pc \in {"idle", "backoff", "up"}
           /\ Over(c, failed).token = NoToken
           /\ Over(c, failed).refused \in {NoToken, call[c].refused}
           /\ c # Socket => Over(c, failed) = At("idle")
<1>1. call[c] \in Call  BY DEF TypeOK
<1>2. /\ At("idle") \in Call /\ At("idle").pc = "idle"
      /\ At("idle").token = NoToken /\ At("idle").refused = NoToken
      /\ At("up") \in Call /\ At("up").pc = "up"
      /\ At("up").token = NoToken /\ At("up").refused = NoToken
  BY AtType DEF PCs
<1>. DEFINE down == [call[c] EXCEPT !.pc = "backoff", !.token = NoToken]
<1>3. /\ down \in Call /\ down.pc = "backoff" /\ down.token = NoToken
      /\ down.refused = call[c].refused
  BY <1>1 DEF Call, PCs
<1>. HIDE DEF down
<1>4. Over(c, failed) \in {At("idle"), At("up"), down}  BY DEF Over, down
<1>. QED  BY <1>2, <1>3, <1>4 DEF Over

(* A call that is over keeps the invariant, whatever ended it.             *)
LEMMA OverStep ==
    ASSUME ClientInv, NEW c \in Callers, NEW failed \in BOOLEAN,
           call' = [call EXCEPT ![c] = Over(c, failed)],
           valid' \subseteq Tokens, budget' \in [Kinds -> Nat],
           UNCHANGED stored, call[c].pc # "store"
    PROVE  ClientInv'
<1>. DEFINE new == Over(c, failed)
<1>1. TypeOK  BY DEF ClientInv
<1>2. /\ new \in Call /\ new.pc \in {"idle", "backoff", "up"}
      /\ new.token = NoToken /\ new.refused \in {NoToken, call[c].refused}
      /\ c # Socket => new = At("idle")
  BY <1>1, OverFacts
<1>3. At("idle").pc = "idle" /\ At("idle").retries = 0  BY AtType DEF PCs
<1>4. c \in Downloads \cup {Heartbeat} => new.pc = "idle" /\ new.retries = 0
  BY <1>2, <1>3, CallerKinds
<1>5. call' = [call EXCEPT ![c] = new]  OBVIOUS
<1>. HIDE DEF new
<1>6. c \in Downloads \cup {Heartbeat} =>
          /\ new.pc \in {"send", "sent", "backoff"} => stored # new.refused
          /\ new.pc = "sent" => new.token # new.refused
  BY <1>4
<1>7. c \in Downloads => /\ new.retries <= MaxRetries
                         /\ new.pc = "backoff" => new.retries >= 1
  BY <1>4, ClientAssumption
<1>. QED  BY <1>2, <1>5, <1>6, <1>7, RecordStep

LEMMA BeginStep ==
    ASSUME ClientInv, NEW c \in Callers, Begin(c)
    PROVE  ClientInv'
<1>. DEFINE new == At("send")
<1>1. /\ new \in Call /\ new.pc = "send" /\ new.token = NoToken
      /\ new.refused = NoToken /\ new.retries = 0
  BY AtType DEF PCs
<1>2. /\ call' = [call EXCEPT ![c] = new] /\ UNCHANGED stored
      /\ call[c].pc = "idle" /\ valid' = valid /\ budget' = budget
  BY DEF Begin
<1>3. valid' \subseteq Tokens /\ budget' \in [Kinds -> Nat] /\ stored # NoToken
  BY <1>2, ClientAssumption DEF ClientInv, TypeOK
<1>4. 0 <= MaxRetries  BY ClientAssumption
<1>. HIDE DEF new
<1>. QED  BY <1>1, <1>2, <1>3, <1>4, RecordStep

(* The steps that rewrite a few fields of c's record.                      *)
LEMMA SendStep ==
    ASSUME ClientInv, NEW c \in Callers, Send(c)
    PROVE  ClientInv'
<1>. DEFINE new == [call[c] EXCEPT !.pc = "sent", !.token = stored]
<1>1. call[c] \in Call /\ call \in [Callers -> Call] /\ stored \in Tokens
  BY DEF ClientInv, TypeOK
<1>2. /\ call' = [call EXCEPT ![c] = new] /\ UNCHANGED stored
      /\ call[c].pc = "send" /\ valid' = valid /\ budget' = budget
  BY <1>1 DEF Send
<1>3. /\ new \in Call /\ new.pc = "sent" /\ new.token = stored
      /\ new.refused = call[c].refused /\ new.retries = call[c].retries
  BY <1>1 DEF Call, PCs
<1>. HIDE DEF new
<1>4. valid' \subseteq Tokens /\ budget' \in [Kinds -> Nat]
  BY <1>2 DEF ClientInv, TypeOK
<1>5. c \in Downloads \cup {Heartbeat} => stored # new.refused
  BY <1>2, <1>3 DEF ClientInv, RefusedIsGone
<1>6. c \in Downloads => new.retries <= MaxRetries
  BY <1>3 DEF ClientInv, RetriesCounted
<1>. QED  BY <1>2, <1>3, <1>4, <1>5, <1>6, RecordStep

LEMMA WakeStep ==
    ASSUME ClientInv, NEW c \in Callers, Wake(c)
    PROVE  ClientInv'
<1>. DEFINE new == [call[c] EXCEPT !.pc = "send"]
<1>1. call[c] \in Call /\ call \in [Callers -> Call]  BY DEF ClientInv, TypeOK
<1>2. /\ call' = [call EXCEPT ![c] = new] /\ UNCHANGED stored
      /\ call[c].pc = "backoff" /\ valid' = valid /\ budget' = budget
  BY <1>1 DEF Wake
<1>3. /\ new \in Call /\ new.pc = "send" /\ new.token = call[c].token
      /\ new.refused = call[c].refused /\ new.retries = call[c].retries
  BY <1>1 DEF Call, PCs
<1>. HIDE DEF new
<1>4. valid' \subseteq Tokens /\ budget' \in [Kinds -> Nat]
  BY <1>2 DEF ClientInv, TypeOK
<1>5. c \in Downloads \cup {Heartbeat} => stored # new.refused
  BY <1>2, <1>3 DEF ClientInv, RefusedIsGone
<1>6. c \in Downloads => new.retries <= MaxRetries
  BY <1>3 DEF ClientInv, RetriesCounted
<1>. QED  BY <1>2, <1>3, <1>4, <1>5, <1>6, RecordStep

LEMMA ServerErrorStep ==
    ASSUME ClientInv, NEW c \in Callers, ServerError(c)
    PROVE  ClientInv'
<1>. DEFINE n == call[c].retries + 1
            new == [call[c] EXCEPT !.pc = "backoff", !.token = NoToken, !.retries = n]
<1>1. call[c] \in Call /\ call \in [Callers -> Call]  BY DEF ClientInv, TypeOK
<1>2. /\ UNCHANGED stored /\ call[c].pc = "sent" /\ c \in Downloads
      /\ valid' = valid /\ budget' = budget
  BY DEF ServerError
<1>3. valid' \subseteq Tokens /\ budget' \in [Kinds -> Nat]
  BY <1>2 DEF ClientInv, TypeOK
<1>4. CASE call[c].retries < MaxRetries
  <2>1. /\ new \in Call /\ new.pc = "backoff" /\ new.token = NoToken
        /\ new.refused = call[c].refused /\ new.retries = call[c].retries + 1
    <3>1. n \in Nat  BY <1>1 DEF Call
    <3>. HIDE DEF n
    <3>2. /\ new \in Call /\ new.pc = "backoff" /\ new.token = NoToken
          /\ new.refused = call[c].refused /\ new.retries = n
      BY <1>1, <3>1 DEF Call, PCs
    <3>. QED  BY <3>2 DEF n
  <2>2. call' = [call EXCEPT ![c] = new]  BY <1>4 DEF ServerError
  <2>. HIDE DEF new
  <2>3. stored # new.refused  BY <1>2, <2>1 DEF ClientInv, RefusedIsGone
  <2>4. new.retries <= MaxRetries /\ new.retries >= 1
    <3>1. call[c].retries \in Nat  BY <1>1 DEF Call
    <3>. QED  BY <1>4, <2>1, <3>1, ClientAssumption
  <2>. QED  BY <1>2, <1>3, <2>1, <2>2, <2>3, <2>4, RecordStep
<1>5. CASE ~(call[c].retries < MaxRetries)
  <2>1. call' = [call EXCEPT ![c] = Over(c, TRUE)]  BY <1>5 DEF ServerError
  <2>. QED  BY <1>2, <1>3, <2>1, OverStep
<1>. QED  BY <1>4, <1>5

LEMMA UnauthorizedStep ==
    ASSUME ClientInv, NEW c \in Callers, Unauthorized(c)
    PROVE  ClientInv'
<1>. DEFINE noted == [call[c] EXCEPT !.refused = call[c].token, !.token = NoToken]
            again == [noted EXCEPT !.pc = "auth", !.reauths = @ + 1]
            sleep == [noted EXCEPT !.pc = "backoff"]
<1>1. call[c] \in Call /\ call \in [Callers -> Call]  BY DEF ClientInv, TypeOK
<1>2. /\ UNCHANGED stored /\ call[c].pc = "sent"
      /\ valid' = valid /\ budget' = budget
  BY DEF Unauthorized
<1>3. valid' \subseteq Tokens /\ budget' \in [Kinds -> Nat]
  BY <1>2 DEF ClientInv, TypeOK
<1>4. call' = [call EXCEPT ![c] = CASE Authenticates(c) -> again
                                    [] c = Socket -> sleep
                                    [] OTHER -> Over(c, TRUE)]
  BY DEF Unauthorized
<1>5. /\ again \in Call /\ again.pc = "auth" /\ again.token = NoToken
      /\ again.refused = call[c].token /\ again.retries = call[c].retries
      /\ sleep \in Call /\ sleep.pc = "backoff" /\ sleep.token = NoToken
      /\ sleep.refused = call[c].token
  <2>1. /\ noted \in Call /\ noted.token = NoToken
        /\ noted.refused = call[c].token /\ noted.retries = call[c].retries
    BY <1>1 DEF Call
  <2>. DEFINE n == noted.reauths + 1
  <2>2. n \in Nat
    <3>. HIDE DEF noted
    <3>. QED  BY <2>1 DEF Call
  <2>3. again = [noted EXCEPT !.pc = "auth", !.reauths = n]  OBVIOUS
  <2>. HIDE DEF noted, again, sleep, n
  <2>4. /\ again \in Call /\ again.pc = "auth" /\ again.token = NoToken
        /\ again.refused = call[c].token /\ again.retries = call[c].retries
    BY <2>1, <2>2, <2>3 DEF Call, PCs
  <2>5. /\ sleep \in Call /\ sleep.pc = "backoff" /\ sleep.token = NoToken
        /\ sleep.refused = call[c].token
    BY <2>1 DEF sleep, Call, PCs
  <2>. QED  BY <2>4, <2>5
<1>6. ~(Authenticates(c) /\ c = Socket)  BY CallerKinds, ClientAssumption DEF Authenticates
<1>. HIDE DEF noted, again, sleep
<1>7. CASE Authenticates(c)
  <2>1. call' = [call EXCEPT ![c] = again]  BY <1>4, <1>6, <1>7
  <2>2. c \in Downloads => again.retries <= MaxRetries
    BY <1>5 DEF ClientInv, RetriesCounted
  <2>. QED  BY <1>2, <1>3, <1>5, <2>1, <2>2, RecordStep
<1>8. CASE ~Authenticates(c) /\ c = Socket
  <2>1. call' = [call EXCEPT ![c] = sleep]  BY <1>4, <1>8
  <2>. QED  BY <1>2, <1>3, <1>5, <1>8, <2>1, CallerKinds, RecordStep
<1>9. CASE ~Authenticates(c) /\ c # Socket
  <2>1. call' = [call EXCEPT ![c] = Over(c, TRUE)]  BY <1>4, <1>9
  <2>. QED  BY <1>2, <1>3, <2>1, OverStep
<1>. QED  BY <1>7, <1>8, <1>9

LEMMA AcceptedStep ==
    ASSUME ClientInv, NEW c \in Callers, Accepted(c)
    PROVE  ClientInv'
<1>1. valid' \subseteq Tokens /\ budget' \in [Kinds -> Nat]
  BY DEF Accepted, ClientInv, TypeOK
<1>. QED  BY <1>1, OverStep DEF Accepted

LEMMA FailsStep ==
    ASSUME ClientInv, NEW c \in Callers, Fails(c)
    PROVE  ClientInv'
<1>1. "fault" \in Kinds  BY DEF Kinds
<1>2. budget' \in [Kinds -> Nat] /\ valid' \subseteq Tokens
  BY <1>1 DEF Fails, Spend, ClientInv, TypeOK
<1>. QED  BY <1>2, OverStep DEF Fails

(* A new token is one nobody holds.                                        *)
LEMMA AuthenticateStep ==
    ASSUME ClientInv, NEW c \in Callers, Authenticate(c)
    PROVE  ClientInv'
<1>0. call[c] \in Call /\ call \in [Callers -> Call]  BY DEF ClientInv, TypeOK
<1>1. "revoke" \in Kinds  BY DEF Kinds
<1>2. PICK t \in Tokens \ Held :
         /\ call' = [call EXCEPT ![c].pc = "store", ![c].token = t]
         /\ \/ valid' = (valid \cap Held) \cup {t} /\ UNCHANGED budget
            \/ valid' = {t} /\ Spend("revoke")
  BY DEF Authenticate
<1>. DEFINE new == [call[c] EXCEPT !.pc = "store", !.token = t]
<1>3. /\ new \in Call /\ new.pc = "store" /\ new.token = t
      /\ new.refused = call[c].refused /\ new.retries = call[c].retries
  BY <1>0 DEF Call, PCs
<1>4. call' = [call EXCEPT ![c] = new] /\ UNCHANGED stored
  BY <1>0, <1>2 DEF Authenticate
<1>. HIDE DEF new
<1>5. call'[c] = new /\ \A d \in Callers : d # c => call'[d] = call[d]
  BY <1>0, <1>4
<1>6. /\ t \in Tokens /\ t # stored
      /\ \A d \in Callers : t # call[d].token /\ t # call[d].refused
  BY <1>2 DEF Held
<1>7. TypeOK'
  <2>1. valid' \subseteq Tokens /\ budget' \in [Kinds -> Nat]
    BY <1>1, <1>2 DEF Spend, ClientInv, TypeOK
  <2>. QED  BY <1>0, <1>3, <1>4, <2>1 DEF ClientInv, TypeOK
<1>8. FreshIsUnseen'
  BY <1>3, <1>4, <1>5, <1>6 DEF ClientInv, FreshIsUnseen
<1>9. RefusedIsGone'
  BY <1>3, <1>4, <1>5, CallerKinds DEF ClientInv, RefusedIsGone
<1>10. RetriesCounted'
  BY <1>3, <1>5, CallerKinds DEF ClientInv, RetriesCounted
<1>. QED  BY <1>7, <1>8, <1>9, <1>10 DEF ClientInv

LEMMA StoreStep ==
    ASSUME ClientInv, NEW c \in Callers, Store(c)
    PROVE  ClientInv'
<1>0. call[c] \in Call /\ call \in [Callers -> Call]  BY DEF ClientInv, TypeOK
<1>. DEFINE new == [call[c] EXCEPT !.pc = "send", !.token = NoToken]
<1>1. /\ new \in Call /\ new.pc = "send" /\ new.token = NoToken
      /\ new.refused = call[c].refused /\ new.retries = call[c].retries
  BY <1>0 DEF Call, PCs
<1>2. /\ call' = [call EXCEPT ![c] = new] /\ call[c].pc = "store"
      /\ stored' = call[c].token /\ valid' = valid /\ budget' = budget
  BY <1>0 DEF Store
<1>. HIDE DEF new
<1>3. call'[c] = new /\ \A d \in Callers : d # c => call'[d] = call[d]
  BY <1>0, <1>2
<1>4. /\ stored' \in Tokens
      /\ \A d \in Callers : /\ stored' # call[d].refused
                            /\ d # c => stored' # call[d].token
  BY <1>2 DEF ClientInv, FreshIsUnseen
<1>5. TypeOK'  BY <1>0, <1>1, <1>2, <1>4 DEF ClientInv, TypeOK
<1>6. FreshIsUnseen'
  BY <1>1, <1>2, <1>3, <1>4, ClientAssumption DEF ClientInv, FreshIsUnseen
<1>7. RefusedIsGone'
  BY <1>1, <1>3, <1>4, CallerKinds DEF ClientInv, RefusedIsGone
<1>8. RetriesCounted'
  BY <1>1, <1>3, CallerKinds DEF ClientInv, RetriesCounted
<1>. QED  BY <1>5, <1>6, <1>7, <1>8 DEF ClientInv

LEMMA RevokeStep == ClientInv /\ Revoke => ClientInv'
<1>1. "revoke" \in Kinds  BY DEF Kinds
<1>. QED  BY <1>1 DEF Revoke, Spend, ClientInv, TypeOK, FreshIsUnseen,
                    RefusedIsGone, RetriesCounted

LEMMA ClientStep ==
    ASSUME ClientInv, [Next]_clientVars
    PROVE  ClientInv'
<1>1. ASSUME NEW c \in Callers, Begin(c) \/ Proceed(c) \/ Fails(c)
      PROVE  ClientInv'
  BY <1>1, BeginStep, SendStep, AcceptedStep, UnauthorizedStep, ServerErrorStep,
     WakeStep, AuthenticateStep, StoreStep, FailsStep DEF Proceed
<1>2. CASE Revoke  BY <1>2, RevokeStep
<1>3. CASE UNCHANGED clientVars
  BY <1>3 DEF clientVars, ClientInv, TypeOK, FreshIsUnseen, RefusedIsGone,
              RetriesCounted
<1>. QED  BY <1>1, <1>2, <1>3 DEF Next

LEMMA ClientInvariant == Spec => []ClientInv
  BY ClientInit, ClientStep, PTL DEF Spec

(* ------------------------------ theorems ------------------------------- *)

(* The client's variables stay well formed (api_client.rs:102-108).        *)
THEOREM ClientTypes == Spec => []TypeOK
  BY ClientInvariant, PTL DEF ClientInv

(* However many tasks share the token and in whatever order they store     *)
(* theirs, a call that authenticates after a 401 does not send the refused *)
(* token again (api_client.rs:162-168, 206-215, 347-352).                  *)
THEOREM RefusedTokensAreReplaced == Spec => []RefusedTokenIsReplaced
<1>1. ClientInv => RefusedTokenIsReplaced
  BY DEF ClientInv, RefusedIsGone, RefusedTokenIsReplaced, ReplacedFor
<1>. QED  BY <1>1, ClientInvariant, PTL

(* A download never indexes the array of backoffs past its end             *)
(* (api_client.rs:329-331, 355-360).                                       *)
THEOREM BackoffsAreListed == Spec => []BackoffIsListed
<1>1. ClientInv => BackoffIsListed
  <2>. SUFFICES ASSUME ClientInv, NEW c \in Downloads, call[c].pc = "backoff"
                PROVE  call[c].retries \in 1 .. Listed
    BY DEF BackoffIsListed
  <2>1. call[c].retries \in Nat  BY CallerKinds DEF ClientInv, TypeOK, Call
  <2>2. call[c].retries >= 1 /\ call[c].retries <= MaxRetries
    BY DEF ClientInv, RetriesCounted
  <2>. QED  BY <2>1, <2>2, ClientAssumption
<1>. QED  BY <1>1, ClientInvariant, PTL
=============================================================================
