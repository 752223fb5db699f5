----------------------------- MODULE Management -----------------------------
(***************************************************************************)
(* kinde.ManagementClient: calls of the management API.  Each call takes a *)
(* token from the M2M cache, sends a request with it and maps the status   *)
(* it is answered with.  The API is external: a request arrives some time  *)
(* before the HTTP client's timeout, is answered with 401 if the token has *)
(* died or was revoked, and with any other status if not.  From getting    *)
(* the token to sending the request no time passes.                        *)
(***************************************************************************)
EXTENDS M2MToken

(* The token request and the API request together last less than the       *)
(* buffer.                                                                 *)
ASSUME ManagementConstants == \A l \in Lifetimes : l > 0 => 2 * Timeout <= BufferOf(l)

VARIABLES
    call,      \* call[c]: where the call of do is
    carried,   \* carried[c]: the token its request carries
    since,     \* since[c]: when the request was sent
    revoked,   \* the server has revoked the tokens that were to die at these times
    refused    \* history: of the calls told that they are unauthenticated, whether
               \* they were sent with a token, which the server had revoked, and
               \* whether the client had one to use then

callVars == <<call, carried, since, refused>>
allVars == <<vars, callVars, revoked>>

ManagementInit ==
    /\ Init
    /\ call = [c \in Callers |-> "idle"]
    /\ carried = [c \in Callers |-> None]
    /\ since = [c \in Callers |-> 0]
    /\ revoked = {}
    /\ refused = {}

-----------------------------------------------------------------------------
Statuses == {200, 400, 401, 403, 404, 409, 500}

(* Mutant: the two kinds of "not allowed" are taken for each other. *)
MapHTTPErrorSwapped(status) ==
    CASE status = 401 -> "unauthorized"
      [] status = 403 -> "unauthenticated"
      [] OTHER -> "unexpected"

MapHTTPError(status) ==
    CASE status = 400 -> "invalid argument"
      [] status = 401 -> "unauthenticated"
      [] status = 403 -> "unauthorized"
      [] status = 404 -> "not found"
      [] status = 409 -> "already exists"
      [] OTHER -> "unexpected"

(* do returns. *)
Return(c) ==
    /\ call' = [call EXCEPT ![c] = "idle"]
    /\ carried' = [carried EXCEPT ![c] = None]
    /\ since' = [since EXCEPT ![c] = 0]

(* The request is sent with the token that Token returned. *)
SendWith(c, t) ==
    /\ call' = [call EXCEPT ![c] = "sent"]
    /\ carried' = [carried EXCEPT ![c] = t]
    /\ since' = [since EXCEPT ![c] = now]
    /\ UNCHANGED refused

(* do: the call begins with Token, which has one in the cache or not. *)
Do(c) ==
    /\ call[c] = "idle"
    /\ Token(c)
    /\ IF Cached THEN SendWith(c, token)
       ELSE call' = [call EXCEPT ![c] = "token"] /\ UNCHANGED <<carried, since, refused>>
    /\ UNCHANGED revoked

LockForToken(c) == Lock(c) /\ UNCHANGED <<callVars, revoked>>

(* A call is told that it is unauthenticated. *)
Refuse(isSent, isRevoked, isCached) ==
    refused' = refused \cup {[sent |-> isSent, revoked |-> isRevoked, cached |-> isCached]}

(* Token goes on, and when it returns so does the call, or its request is  *)
(* sent.  The error that do wraps may be that of the token endpoint.       *)
TokenStep(c) ==
    /\ call[c] = "token"
    /\ \/ DoubleCheck(c) /\ Cached /\ SendWith(c, token)
       \/ DoubleCheck(c) /\ ~Cached /\ UNCHANGED callVars
       \/ (\E l \in Lifetimes : Issue(c, l)) /\ UNCHANGED callVars
       \/ Fails(c) /\ Return(c) /\ UNCHANGED refused
       \/ Rejected(c) /\ Return(c) /\ Refuse(FALSE, FALSE, Cached)
       \/ Store(c) /\ SendWith(c, token')
    /\ UNCHANGED revoked

Dead(t) == now >= t.dies \/ t.dies \in revoked

(* The API answers, and the status decides which error do returns. *)
Answered(c) ==
    /\ call[c] = "sent"
    /\ \E status \in Statuses :
          /\ status = 401 <=> Dead(carried[c])
          /\ IF status >= 400 /\ MapHTTPError(status) = "unauthenticated"
             THEN Refuse(TRUE, carried[c].dies \in revoked, since[c] < carried[c].expiresAt)
             ELSE UNCHANGED refused
    /\ Return(c)
    /\ UNCHANGED <<vars, revoked>>

(* httpClient.Do fails: the transport, the context, the timeout; or the    *)
(* body of the answer cannot be decoded.                                   *)
NotAnswered(c) ==
    /\ call[c] = "sent"
    /\ Return(c)
    /\ UNCHANGED <<vars, revoked, refused>>

(* External: the server revokes the token that is in the cache. *)
Revoke ==
    /\ token # None
    /\ revoked = {}
    /\ revoked' = {token.dies}
    /\ UNCHANGED <<vars, callVars>>

(* The clock; the HTTP client's timeout ends this request too. *)
TickInTime ==
    /\ Tick
    /\ \A c \in Callers : call[c] = "sent" => now - since[c] < Timeout
    /\ UNCHANGED <<callVars, revoked>>

ManagementNext ==
    \/ TickInTime \/ Revoke
    \/ \E c \in Callers :
          Do(c) \/ LockForToken(c) \/ TokenStep(c) \/ Answered(c) \/ NotAnswered(c)

ManagementSpec == ManagementInit /\ [][ManagementNext]_allVars

ManagementFairness ==
    \A c \in Callers :
        /\ SF_allVars(LockForToken(c))
        /\ WF_allVars(TokenStep(c))
        /\ WF_allVars(Answered(c) \/ NotAnswered(c))

ManagementFairSpec == ManagementSpec /\ ManagementFairness

-----------------------------------------------------------------------------
(* A call is told that it is unauthenticated only in two cases.  One is    *)
(* that the API has refused a token because it was revoked, never because  *)
(* it has died on the way from the cache to the API; and a revoked token,  *)
(* which stays in the cache after the 401, is sent no more once the client *)
(* would have renewed it.  The other is that the token endpoint has not    *)
(* answered with 200 (m2m.go:116): that is wrapped all the same, though no *)
(* token was refused, and only while the cache had none to give.           *)
RefusedOnlyIfRevoked ==
    refused \subseteq {[sent |-> TRUE, revoked |-> TRUE, cached |-> TRUE],
                      [sent |-> FALSE, revoked |-> FALSE, cached |-> FALSE]}

(* A call returns, whatever becomes of the token requests it waits for.    *)
CallsReturn == \A c \in Callers : (call[c] # "idle") ~> (call[c] = "idle")
=============================================================================
