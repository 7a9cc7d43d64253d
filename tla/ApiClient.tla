------------------------------ MODULE ApiClient ------------------------------
(***************************************************************************)
(* The data-api client's session token and the tasks that share it.        *)
(*                                                                         *)
(* Every request takes a copy of the stored token, and the data-api may    *)
(* have forgotten that token by the time the request arrives.  What then   *)
(* happens depends on the caller: a chunk download authenticates anew and  *)
(* tries again, as often as it takes; the heartbeat does so once; a plain  *)
(* request fails; the socket's task waits and connects again.  A new token *)
(* is stored in a step of its own, so that two tasks that authenticate at  *)
(* one time may store theirs in either order.                              *)
(***************************************************************************)
EXTENDS Naturals

CONSTANTS
    Downloads,    \* tasks in download_chunk
    Requests,     \* tasks in any other request
    Heartbeat,    \* the heartbeat task
    Socket,       \* the WebSocket task
    Tokens,       \* names of tokens, used again once nobody holds them
    NoToken,
    MaxRetries,   \* MAX_5XX_RETRIES
    Listed,       \* length of the array backoffs
    Budget        \* bounds of what goes wrong

Callers == Downloads \cup Requests \cup {Heartbeat, Socket}

(* The data-api forgets tokens; a request or an authentication fails.  The *)
(* 5xx answers to a download are not counted.                              *)
Kinds == {"revoke", "fault"}

ASSUME ClientAssumption ==
    /\ Heartbeat # Socket
    /\ {Heartbeat, Socket} \cap (Downloads \cup Requests) = {}
    /\ Downloads \cap Requests = {}
    /\ Tokens \subseteq Nat /\ NoToken \notin Tokens
    /\ MaxRetries \in Nat /\ Listed \in Nat /\ MaxRetries <= Listed
    /\ Budget \in [Kinds -> Nat]

VARIABLES
    stored,  \* the client's session_token
    valid,   \* tokens the data-api accepts
    call,    \* where each caller is
    budget

clientVars == <<stored, valid, call, budget>>

(* token: the header of the request under way, or the token that is to be  *)
(* stored.  refused: the last token this call got a 401 for.  reauths and  *)
(* retries count the 401s and the 5xx answers that were tried again.       *)
PCs == {"idle", "send", "sent", "auth", "store", "backoff", "up"}
Call == [pc : PCs, token : Tokens \cup {NoToken}, refused : Tokens \cup {NoToken},
         reauths : Nat, retries : Nat]

At(pc) == [pc |-> pc, token |-> NoToken, refused |-> NoToken, reauths |-> 0, retries |-> 0]

Spend(kind) == /\ budget[kind] > 0
               /\ budget' = [budget EXCEPT ![kind] = @ - 1]

(* authenticate: the process starts with a token, then its tasks start.    *)
Init == /\ stored \in Tokens /\ \A t \in Tokens : stored <= t
        /\ valid = {stored}
        /\ call = [c \in Callers |-> At(IF c = Socket THEN "send" ELSE "idle")]
        /\ budget = Budget

(* A download or another request begins, the heartbeat's timer ticks.      *)
Begin(c) == /\ call[c].pc = "idle"
            /\ call' = [call EXCEPT ![c] = At("send")]
            /\ UNCHANGED <<stored, valid, budget>>

(* A header, or a socket's URL, that is built once and kept.               *)
SendTokenOnce(c) ==
    /\ call[c].pc = "send"
    /\ call' = [call EXCEPT ![c].pc = "sent",
            ![c].token = IF call[c].refused # NoToken THEN call[c].refused ELSE stored]
    /\ UNCHANGED <<stored, valid, budget>>

(* auth_header or ws_url reads the stored token, the request goes out.     *)
Send(c) == /\ call[c].pc = "send"
           /\ call' = [call EXCEPT ![c].pc = "sent", ![c].token = stored]
           /\ UNCHANGED <<stored, valid, budget>>

(* What a call is once it has returned: the socket's task sleeps and then  *)
(* connects again, the others wait for their next call.                    *)
Over(c, failed) ==
    IF c # Socket THEN At("idle")
    ELSE IF failed THEN [call[c] EXCEPT !.pc = "backoff", !.token = NoToken] ELSE At("up")

(* 2xx, or the upgrade of the socket.                                      *)
Accepted(c) ==
    /\ call[c].pc = "sent" /\ call[c].token \in valid
    /\ call' = [call EXCEPT ![c] = Over(c, FALSE)]
    /\ UNCHANGED <<stored, valid, budget>>

(* A heartbeat that only reports its 401.                                  *)
AuthenticatesDownloadsOnly(c) == c \in Downloads

(* Who answers a 401 by authenticating.                                    *)
Authenticates(c) == \/ c \in Downloads
                    \/ c = Heartbeat /\ call[c].reauths = 0

(* 401.                                                                    *)
Unauthorized(c) ==
    /\ call[c].pc = "sent" /\ call[c].token \notin valid
    /\ LET noted == [call[c] EXCEPT !.refused = call[c].token, !.token = NoToken] IN
       call' = [call EXCEPT ![c] =
                  CASE Authenticates(c) -> [noted EXCEPT !.pc = "auth", !.reauths = @ + 1]
                    [] c = Socket       -> [noted EXCEPT !.pc = "backoff"]
                    [] OTHER            -> Over(c, TRUE)]
    /\ UNCHANGED <<stored, valid, budget>>

(* A download that does not count its tries; one that tries once too often. *)
ServerErrorUncounted(c) ==
    /\ c \in Downloads /\ call[c].pc = "sent"
    /\ call' = [call EXCEPT ![c].pc = "backoff", ![c].token = NoToken]
    /\ UNCHANGED <<stored, valid, budget>>

ServerErrorOneMore(c) ==
    /\ c \in Downloads /\ call[c].pc = "sent"
    /\ call' = [call EXCEPT ![c] =
                  IF call[c].retries <= MaxRetries
                  THEN [call[c] EXCEPT !.pc = "backoff", !.token = NoToken, !.retries = @ + 1]
                  ELSE Over(c, TRUE)]
    /\ UNCHANGED <<stored, valid, budget>>

(* 5xx to a download.                                                      *)
ServerError(c) ==
    /\ c \in Downloads /\ call[c].pc = "sent"
    /\ call' = [call EXCEPT ![c] =
                  IF call[c].retries < MaxRetries
                  THEN [call[c] EXCEPT !.pc = "backoff", !.token = NoToken, !.retries = @ + 1]
                  ELSE Over(c, TRUE)]
    /\ UNCHANGED <<stored, valid, budget>>

(* Any other error, of the request or of the authentication; the socket's  *)
(* connection breaks.                                                      *)
Fails(c) ==
    /\ call[c].pc \in {"sent", "auth", "up"}
    /\ Spend("fault")
    /\ call' = [call EXCEPT ![c] = Over(c, TRUE)]
    /\ UNCHANGED <<stored, valid>>

(* The sleep before a download's next try or the socket's next connection. *)
Wake(c) == /\ call[c].pc = "backoff"
           /\ call' = [call EXCEPT ![c].pc = "send"]
           /\ UNCHANGED <<stored, valid, budget>>

(* do_auth: the data-api issues a token.  It may forget the others.        *)
Held == {stored} \cup {call[c].token : c \in Callers} \cup {call[c].refused : c \in Callers}

Authenticate(c) ==
    /\ call[c].pc = "auth"
    /\ \E t \in Tokens \ Held :
          /\ \A other \in Tokens \ Held : t <= other
          /\ call' = [call EXCEPT ![c].pc = "store", ![c].token = t]
          /\ \/ valid' = (valid \cap Held) \cup {t} /\ UNCHANGED budget
             \/ valid' = {t} /\ Spend("revoke")
    /\ UNCHANGED stored

(* A token that was moved out before it is stored.                         *)
StoreMovedOut(c) == /\ call[c].pc = "store"
                    /\ stored' = NoToken
                    /\ call' = [call EXCEPT ![c].pc = "send", ![c].token = NoToken]
                    /\ UNCHANGED <<valid, budget>>

(* re_authenticate writes the token behind the lock and the call goes on.  *)
Store(c) == /\ call[c].pc = "store"
            /\ stored' = call[c].token
            /\ call' = [call EXCEPT ![c].pc = "send", ![c].token = NoToken]
            /\ UNCHANGED <<valid, budget>>

(* The data-api forgets a token: its TTL, its reaper, a restart.           *)
Revoke == /\ Spend("revoke")
          /\ \E t \in valid : valid' = valid \ {t}
          /\ UNCHANGED <<stored, call>>

Proceed(c) == \/ Send(c) \/ Accepted(c) \/ Unauthorized(c) \/ ServerError(c)
              \/ Wake(c) \/ Authenticate(c) \/ Store(c)

Next == \/ \E c \in Callers : Begin(c) \/ Proceed(c) \/ Fails(c)
        \/ Revoke

Spec == Init /\ [][Next]_clientVars

(* A task that can go on does, and the heartbeat's timer ticks.  When a    *)
(* download or another request begins is nobody's promise.                 *)
FairSpec == /\ Spec
            /\ \A c \in Callers : WF_clientVars(Proceed(c))
            /\ WF_clientVars(Begin(Heartbeat))

(* ------------------------------ properties ----------------------------- *)

(* Every variable holds values of its kind (api_client.rs:109-115).        *)
TypeOK == /\ stored \in Tokens
          /\ valid \subseteq Tokens
          /\ call \in [Callers -> Call]
          /\ budget \in [Kinds -> Nat]

ReplacedFor(c) == call[c].pc = "sent" => call[c].token # call[c].refused

(* A call that authenticates after a 401 does not send the refused token   *)
(* once more, whichever task stores which token in the meantime            *)
(* (api_client.rs:167-175, 206-225, 351-354).                              *)
RefusedTokenIsReplaced == \A c \in Downloads \cup {Heartbeat} : ReplacedFor(c)

(* Every sleep of a download is one of the listed backoffs: the array is   *)
(* never indexed past its end, which would panic the runner                *)
(* (api_client.rs:331-332, 355-360).                                       *)
BackoffIsListed ==
    \A c \in Downloads : call[c].pc = "backoff" => call[c].retries \in 1 .. Listed

(* Each download returns once the data-api stops forgetting tokens, even   *)
(* when every answer is a 5xx (api_client.rs:325-364).                     *)
DownloadsReturn == \A c \in Downloads : call[c].pc # "idle" ~> call[c].pc = "idle"

(* A stored token the data-api has forgotten is replaced, also when no     *)
(* download runs and also when it was stored late, over a newer one        *)
(* (api_client.rs:206-214).                                                *)
StoredTokenIsHealed == stored \notin valid ~> stored \in valid

(* The socket comes back: its task does not stay with a token that was     *)
(* good when it first connected (ws.rs:75-90).                             *)
SocketReturns == call[Socket].pc # "up" ~> call[Socket].pc = "up"
=============================================================================
