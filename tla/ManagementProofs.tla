--------------------------- MODULE ManagementProofs ---------------------------
(***************************************************************************)
(* The token cache and the calls of the management API, for any callers,   *)
(* any lifetimes the server answers with, any buffer and any timeouts that *)
(* the assumptions allow, and any time.                                    *)
(***************************************************************************)
EXTENDS Management, TLAPS

(* A positive lifetime is at least two buffers, each over the timeout. *)
LEMMA BufferFacts ==
    ASSUME NEW l \in Lifetimes, l > 0
    PROVE  /\ l \in Int /\ BufferOf(l) \in Int
           /\ Timeout < BufferOf(l) /\ 2 * BufferOf(l) <= l
  BY TokenConstants DEF BufferOf

-----------------------------------------------------------------------------
(* The write lock is held by the caller that is between Lock and the end   *)
(* of its token request, and by no other.                                  *)
LockInv ==
    \A c \in Callers : pc[c] \in {"locked", "request", "issued"} <=> writer = c

(* A request lasts no longer than the timeout, and for as long as it does  *)
(* there is nothing in the cache.                                          *)
RequestInv ==
    \A c \in Requesting : sentAt[c] <= now /\ now - sentAt[c] <= Timeout /\ ~Cached

(* A token was issued after it was requested.                              *)
AnswerInv ==
    \A c \in Callers :
        pc[c] = "issued" =>
            /\ answer[c] # None
            /\ answer[c].lifetime \in Lifetimes
            /\ sentAt[c] + answer[c].lifetime <= answer[c].dies

(* The client takes a token for dead before the server does. *)
TokenInv == token # None => token.expiresAt <= token.dies

CacheInv == TypeOK /\ LockInv /\ RequestInv /\ AnswerInv /\ TokenInv /\ ~dead

(* An empty cache is in a state of the inductive invariant. *)
LEMMA InitCacheInv == Init => CacheInv
  <1> SUFFICES ASSUME Init PROVE CacheInv
    OBVIOUS
  <1>1. TypeOK
    BY DEF Init, TypeOK
  <1>2. Requesting = {} /\ LockInv
    BY TokenConstants DEF Init, LockInv, Requesting
  <1>3. QED
    BY <1>1, <1>2 DEF Init, CacheInv, RequestInv, AnswerInv, TokenInv

(* Every step keeps the types. *)
LEMMA TypeStep == ASSUME TypeOK, AnswerInv, [Next]_vars PROVE TypeOK'
  <1> USE TokenConstants DEF TypeOK, Goto, Give, Requesting, Tokens
  <1>1. CASE Tick
    BY <1>1 DEF Tick
  <1>2. ASSUME NEW c \in Callers, Token(c) PROVE TypeOK'
    BY <1>2 DEF Token
  <1>3. ASSUME NEW c \in Callers, Lock(c) PROVE TypeOK'
    BY <1>3 DEF Lock
  <1>4. ASSUME NEW c \in Callers, DoubleCheck(c) PROVE TypeOK'
    <2>1. now' = now /\ token' = token /\ answer' = answer
      BY <1>4 DEF DoubleCheck
    <2>2. dead' \in BOOLEAN
      BY <1>4 DEF DoubleCheck
    <2>3. /\ pc' \in [Callers -> {"idle", "miss", "locked", "request", "issued"}]
          /\ sentAt' \in [Callers -> Nat] /\ writer' \in Callers \cup {None}
      BY <1>4 DEF DoubleCheck
    <2>4. QED
      BY <2>1, <2>2, <2>3
  <1>5. ASSUME NEW c \in Callers, NEW l \in Lifetimes, Issue(c, l) PROVE TypeOK'
    BY <1>5 DEF Issue
  <1>6. ASSUME NEW c \in Callers, Fails(c) \/ Rejected(c) PROVE TypeOK'
    BY <1>6 DEF Fails, Rejected, ReturnError
  <1>7. ASSUME NEW c \in Callers, Store(c) PROVE TypeOK'
    BY <1>7, BufferFacts DEF Store, ExpiresAt, AnswerInv
  <1>8. CASE UNCHANGED vars
    BY <1>8 DEF vars
  <1>9. QED
    BY <1>1, <1>2, <1>3, <1>4, <1>5, <1>6, <1>7, <1>8 DEF Next, Step

(* Every step keeps the inductive invariant. *)
LEMMA StepCacheInv == ASSUME CacheInv, [Next]_vars PROVE CacheInv'
  <1>0. TypeOK /\ TypeOK'
    BY TypeStep DEF CacheInv
  <1> USE <1>0, TokenConstants
      DEF CacheInv, TypeOK, LockInv, RequestInv, AnswerInv, TokenInv,
          Goto, Give, Requesting, Tokens, Cached
  <1>1. CASE Tick
    BY <1>1 DEF Tick
  <1>2. ASSUME NEW c \in Callers, Token(c) PROVE CacheInv'
    BY <1>2 DEF Token
  <1>3. ASSUME NEW c \in Callers, Lock(c) PROVE CacheInv'
    BY <1>3 DEF Lock
  <1>4. ASSUME NEW c \in Callers, DoubleCheck(c) PROVE CacheInv'
    BY <1>4 DEF DoubleCheck
  <1>5. ASSUME NEW c \in Callers, NEW l \in Lifetimes, Issue(c, l) PROVE CacheInv'
    BY <1>5 DEF Issue
  <1>6. ASSUME NEW c \in Callers, Fails(c) \/ Rejected(c) PROVE CacheInv'
    BY <1>6 DEF Fails, Rejected, ReturnError
  <1>7. ASSUME NEW c \in Callers, Store(c) PROVE CacheInv'
    BY <1>7, BufferFacts DEF Store, ExpiresAt
  <1>8. CASE UNCHANGED vars
    BY <1>8 DEF vars
  <1>9. QED
    BY <1>1, <1>2, <1>3, <1>4, <1>5, <1>6, <1>7, <1>8 DEF Next, Step

(* What the invariant says of the tokens that are returned and requested.  *)
LEMMA CacheInvImplies == CacheInv => ReturnedIsLive /\ NoRedundantRequest
  BY DEF CacheInv, RequestInv, LockInv, Requesting, ReturnedIsLive, NoRedundantRequest

(* The inductive invariant of the cache holds of every behaviour of it. *)
THEOREM CacheInductive == Spec => []CacheInv
  BY InitCacheInv, StepCacheInv, PTL DEF Spec

(* Token returns no token that its server rejects by then. *)
THEOREM TokensAreLive == Spec => []ReturnedIsLive
  BY CacheInductive, CacheInvImplies, PTL

(* Only one caller requests a token, and only when the cache has none. *)
THEOREM RequestsAreNeeded == Spec => []NoRedundantRequest
  BY CacheInductive, CacheInvImplies, PTL

-----------------------------------------------------------------------------
(* A token lives on for the duration of a call when the client has stopped *)
(* using it.                                                               *)
LivesOn(t) == t.expiresAt + Timeout <= t.dies

MarginInv == token # None => LivesOn(token)

(* A request was sent with a token the client would use at the time, and   *)
(* lasts no longer than the timeout.                                       *)
SentInv ==
    \A c \in Callers :
        call[c] = "sent" =>
            /\ carried[c] \in Tokens /\ LivesOn(carried[c])
            /\ since[c] < carried[c].expiresAt
            /\ since[c] <= now /\ now - since[c] <= Timeout

CallTypes ==
    /\ call \in [Callers -> {"idle", "token", "sent"}]
    /\ carried \in [Callers -> Tokens \cup {None}]
    /\ since \in [Callers -> Nat]

ManagementInv == CacheInv /\ CallTypes /\ MarginInv /\ SentInv /\ RefusedOnlyIfRevoked

(* So are calls that have not begun. *)
LEMMA InitManagementInv == ManagementInit => ManagementInv
  BY InitCacheInv
     DEF ManagementInit, Init, ManagementInv, CallTypes, MarginInv, SentInv,
         RefusedOnlyIfRevoked

(* The steps of the management client are steps of the cache, or leave it  *)
(* alone.                                                                  *)
LEMMA StepsOfTheCache == [ManagementNext]_allVars => [Next]_vars
  BY DEF ManagementNext, allVars, Next, Step, TickInTime, Revoke, Do, LockForToken,
         TokenStep, Answered, NotAnswered

(* What Token stores lives on. *)
LEMMA StoredLivesOn ==
    ASSUME CacheInv, NEW c \in Callers, Store(c)
    PROVE  token' \in Tokens /\ LivesOn(token') /\ now < token'.expiresAt
  BY BufferFacts, ManagementConstants, TokenConstants
     DEF CacheInv, TypeOK, AnswerInv, RequestInv, Requesting, Store, ExpiresAt, LivesOn,
         Tokens

(* Only Store changes the token. *)
LEMMA StepMargin ==
    ASSUME CacheInv, MarginInv, [Next]_vars
    PROVE  MarginInv'
  <1>1. ASSUME NEW c \in Callers, Store(c) PROVE MarginInv'
    BY <1>1, StoredLivesOn DEF MarginInv
  <1>2. CASE UNCHANGED token
    BY <1>2 DEF MarginInv, LivesOn
  <1>3. QED
    BY <1>1, <1>2
       DEF Next, Step, Tick, Token, Lock, DoubleCheck, Issue, Fails, Rejected, ReturnError,
           vars

(* Every step keeps the inductive invariant of the calls. *)
LEMMA StepManagementInv ==
    ASSUME ManagementInv, [ManagementNext]_allVars
    PROVE  ManagementInv'
  <1>1. CacheInv /\ CacheInv' /\ MarginInv /\ MarginInv'
    BY StepsOfTheCache, StepCacheInv, StepMargin DEF ManagementInv
  <1>2. TypeOK /\ TypeOK'
    BY <1>1 DEF CacheInv
  <1> DEFINE CallInv == CallTypes /\ SentInv /\ RefusedOnlyIfRevoked
  <1> USE <1>2, TokenConstants
      DEF ManagementInv, CallTypes, SentInv, RefusedOnlyIfRevoked, TypeOK, LivesOn,
          Tokens
  <1>3. ASSUME TickInTime PROVE CallInv'
    BY <1>3 DEF TickInTime, Tick, callVars
  <1>4. ASSUME Revoke PROVE CallInv'
    BY <1>4 DEF Revoke, vars, callVars
  <1>5. ASSUME NEW c \in Callers, Do(c) PROVE CallInv'
    BY <1>5 DEF Do, Token, SendWith, Cached, MarginInv
  <1>6. ASSUME NEW c \in Callers, LockForToken(c) PROVE CallInv'
    BY <1>6 DEF LockForToken, Lock, callVars
  <1>7. ASSUME NEW c \in Callers, TokenStep(c) PROVE CallInv'
    <2>1. CASE DoubleCheck(c) /\ Cached /\ SendWith(c, token)
      BY <1>1, <2>1 DEF DoubleCheck, SendWith, Cached, MarginInv
    <2>2. CASE UNCHANGED <<now, callVars>>
      BY <2>2 DEF callVars
    <2>3. CASE (Fails(c) \/ Rejected(c)) /\ Return(c)
      <3>1. refused' \subseteq refused \cup {[sent |-> FALSE, revoked |-> FALSE, cached |-> Cached]}
        BY <1>7, <2>3 DEF TokenStep, Refuse, callVars, DoubleCheck, Issue, Store, SendWith
      <3>2. now' = now
        BY <2>3 DEF Fails, Rejected, ReturnError
      <3>3. ~Cached
        BY <1>1, <2>3 DEF CacheInv, RequestInv, Requesting, Fails, Rejected
      <3>4. QED
        BY <2>3, <3>1, <3>2, <3>3 DEF Return
    <2>4. CASE Store(c) /\ SendWith(c, token')
      <3>1. token' \in Tokens /\ LivesOn(token') /\ now < token'.expiresAt
        BY <1>1, <2>4, StoredLivesOn
      <3>2. now' = now
        BY <2>4 DEF Store
      <3>3. QED
        BY <2>4, <3>1, <3>2 DEF SendWith
    <2>5. QED
      BY <1>7, <2>1, <2>2, <2>3, <2>4 DEF TokenStep, DoubleCheck, Issue
  <1>8. ASSUME NEW c \in Callers, Answered(c) PROVE CallInv'
    <2>1. now < carried[c].dies
      BY <1>8 DEF Answered
    <2>2. PICK status \in Statuses :
              /\ status = 401 <=> Dead(carried[c])
              /\ refused' = IF status >= 400 /\ MapHTTPError(status) = "unauthenticated"
                            THEN refused \cup {[sent |-> TRUE,
                                                revoked |-> carried[c].dies \in revoked,
                                                cached |-> since[c] < carried[c].expiresAt]}
                            ELSE refused
      BY <1>8 DEF Answered, Refuse
    <2>3. MapHTTPError(status) = "unauthenticated" => carried[c].dies \in revoked
      <3>1. MapHTTPError(status) = "unauthenticated" => status = 401
        BY <2>2 DEF MapHTTPError, Statuses
      <3>2. carried[c] \in Tokens
        BY <1>8 DEF Answered
      <3>3. QED
        BY <2>1, <2>2, <3>1, <3>2 DEF Dead
    <2>4. RefusedOnlyIfRevoked'
      <3>1. since[c] < carried[c].expiresAt
        BY <1>8 DEF Answered
      <3>2. refused' \subseteq refused \cup {[sent |-> TRUE, revoked |-> TRUE, cached |-> TRUE]}
        BY <2>2, <2>3, <3>1
      <3>3. QED
        BY <3>2
    <2>5. (CallTypes /\ SentInv)'
      BY <1>8 DEF Answered, Return, vars
    <2>6. QED
      BY <2>4, <2>5
  <1>9. ASSUME NEW c \in Callers, NotAnswered(c) PROVE CallInv'
    BY <1>9 DEF NotAnswered, Return, vars
  <1>10. ASSUME UNCHANGED allVars PROVE CallInv'
    BY <1>10 DEF allVars, vars, callVars
  <1>11. CallInv'
    BY <1>3, <1>4, <1>5, <1>6, <1>7, <1>8, <1>9, <1>10 DEF ManagementNext
  <1>12. QED
    BY <1>1, <1>11

(* The inductive invariant of the calls holds of every behaviour. *)
THEOREM ManagementInductive == ManagementSpec => []ManagementInv
  BY InitManagementInv, StepManagementInv, PTL DEF ManagementSpec

(* A call is told that it is unauthenticated only if the server has        *)
(* revoked the token it carried: none dies on the way to the API; or if    *)
(* the token endpoint refused it one, while the cache had none to give.    *)
THEOREM RefusalsAreRevocations == ManagementSpec => []RefusedOnlyIfRevoked
  BY ManagementInductive, PTL DEF ManagementInv

(* Used by the management client, the cache is still the cache: what holds *)
(* of its tokens and its requests holds here.                              *)
THEOREM ImplementsCache == ManagementSpec => Spec
  <1>1. ManagementInit => Init
    BY DEF ManagementInit
  <1>2. QED
    BY <1>1, StepsOfTheCache, PTL DEF ManagementSpec, Spec

-----------------------------------------------------------------------------
(* What the return of every call rests on, beside the fairness of the lock *)
(* and the timeouts.                                                       *)

(* A call of do is in Token for as long as Token is under way. *)
TokenLink == \A c \in Callers : call[c] = "token" <=> pc[c] # "idle"

(* The lock is held by a call that goes on, for no longer than a request   *)
(* may last.                                                               *)
LockIsShort ==
    writer # None =>
        /\ writer \in Callers /\ call[writer] = "token"
        /\ \/ pc[writer] = "locked"
           \/ pc[writer] \in {"request", "issued"} /\ now - sentAt[writer] <= Timeout

(* The steps a call has before it. *)
TokenRank(c) ==
    IF pc[c] = "miss" THEN 4 ELSE IF pc[c] = "locked" THEN 3
    ELSE IF pc[c] = "request" THEN 2 ELSE IF pc[c] = "issued" THEN 1 ELSE 0

Rank(c) ==
    IF call[c] = "idle" THEN 0 ELSE IF call[c] = "sent" THEN 1 ELSE 1 + TokenRank(c)

CallStep(c) == LockForToken(c) \/ TokenStep(c) \/ Answered(c) \/ NotAnswered(c)

(* A call that has begun comes closer to its end with each of its steps,   *)
(* and is not taken back by those of the others.                           *)
StepsDescend ==
    [][\A c \in Callers : call[c] # "idle" =>
          /\ Rank(c)' <= Rank(c)
          /\ CallStep(c) => Rank(c)' < Rank(c)]_allVars

(* Token and do go together. *)
LEMMA StepTokenLink ==
    ASSUME ManagementInv, TokenLink, [ManagementNext]_allVars
    PROVE  TokenLink'
  <1> USE DEF ManagementInv, CacheInv, TypeOK, CallTypes, TokenLink, Goto
  <1>1. ASSUME NEW c \in Callers, Do(c) PROVE TokenLink'
    BY <1>1 DEF Do, Token, SendWith
  <1>2. ASSUME NEW c \in Callers, LockForToken(c) PROVE TokenLink'
    BY <1>2 DEF LockForToken, Lock, callVars
  <1>3. ASSUME NEW c \in Callers, TokenStep(c) PROVE TokenLink'
    <2>1. CASE DoubleCheck(c) /\ Cached /\ SendWith(c, token)
      BY <2>1 DEF DoubleCheck, SendWith
    <2>2. CASE DoubleCheck(c) /\ ~Cached /\ UNCHANGED callVars
      BY <2>2 DEF DoubleCheck, callVars
    <2>3. CASE (\E l \in Lifetimes : Issue(c, l)) /\ UNCHANGED callVars
      BY <2>3 DEF Issue, callVars
    <2>4. CASE (Fails(c) \/ Rejected(c)) /\ Return(c)
      BY <2>4 DEF Fails, Rejected, ReturnError, Return
    <2>5. CASE Store(c) /\ SendWith(c, token')
      <3>1. /\ pc' = [pc EXCEPT ![c] = "idle"]
            /\ call' = [call EXCEPT ![c] = "sent"]
        BY <2>5 DEF Store, SendWith
      <3>2. QED
        BY <3>1
    <2>6. QED
      BY <1>3, <2>1, <2>2, <2>3, <2>4, <2>5 DEF TokenStep
  <1>4. ASSUME NEW c \in Callers, Answered(c) \/ NotAnswered(c) PROVE TokenLink'
    <2>1. call[c] = "sent" /\ pc' = pc /\ call' = [call EXCEPT ![c] = "idle"]
      BY <1>4, Zenon DEF Answered, NotAnswered, Return, vars
    <2>2. QED
      BY <2>1
  <1>5. CASE UNCHANGED <<pc, call>>
    BY <1>5
  <1>6. QED
    BY <1>1, <1>2, <1>3, <1>4, <1>5
       DEF ManagementNext, TickInTime, Tick, Revoke, callVars, allVars, vars

(* The link always holds. *)
LEMMA TokenLinked == ManagementSpec => []TokenLink
  <1>1. ManagementInit => TokenLink
    BY DEF ManagementInit, Init, TokenLink
  <1>2. QED
    BY <1>1, ManagementInductive, StepTokenLink, PTL DEF ManagementSpec

(* Whoever waits for the lock waits for a call that goes on, and the token *)
(* request of that call is within the client's timeout.                    *)
THEOREM LockIsGivenBack == ManagementSpec => []LockIsShort
  <1>1. ManagementInv /\ TokenLink => LockIsShort
    BY TokenConstants
       DEF ManagementInv, CacheInv, TypeOK, LockInv, RequestInv, Requesting, TokenLink,
           LockIsShort
  <1>2. QED
    BY <1>1, ManagementInductive, TokenLinked, PTL

(* A step of one call. *)
LEMMA OwnStepDescends ==
    ASSUME ManagementInv, TokenLink, NEW d \in Callers, CallStep(d)
    PROVE  /\ Rank(d)' < Rank(d)
           /\ \A c \in Callers \ {d} : pc'[c] = pc[c] /\ call'[c] = call[c]
  <1> USE DEF ManagementInv, CacheInv, TypeOK, CallTypes, TokenLink, Rank, TokenRank, Goto
  <1>1. CASE LockForToken(d)
    BY <1>1 DEF LockForToken, Lock, callVars
  <1>2. CASE TokenStep(d)
    <2>1. CASE DoubleCheck(d) /\ Cached /\ SendWith(d, token)
      BY <2>1 DEF DoubleCheck, SendWith
    <2>2. CASE DoubleCheck(d) /\ ~Cached /\ UNCHANGED callVars
      BY <1>2, <2>2 DEF TokenStep, DoubleCheck, callVars
    <2>3. CASE (\E l \in Lifetimes : Issue(d, l)) /\ UNCHANGED callVars
      BY <1>2, <2>3 DEF TokenStep, Issue, callVars
    <2>4. CASE (Fails(d) \/ Rejected(d)) /\ Return(d)
      BY <1>2, <2>4 DEF TokenStep, Fails, Rejected, Requesting, ReturnError, Return
    <2>5. CASE Store(d) /\ SendWith(d, token')
      <3>1. /\ pc[d] = "issued" /\ pc' = [pc EXCEPT ![d] = "idle"]
            /\ call' = [call EXCEPT ![d] = "sent"]
        BY <2>5 DEF Store, SendWith
      <3>2. QED
        BY <3>1
    <2>6. QED
      BY <1>2, <2>1, <2>2, <2>3, <2>4, <2>5 DEF TokenStep
  <1>3. CASE Answered(d) \/ NotAnswered(d)
    <2>1. call[d] = "sent" /\ pc' = pc /\ call' = [call EXCEPT ![d] = "idle"]
      BY <1>3, Zenon DEF Answered, NotAnswered, Return, vars
    <2>2. QED
      BY <2>1
  <1>4. QED
    BY <1>1, <1>2, <1>3 DEF CallStep

(* A call takes six steps at most. *)
THEOREM StepsAreFinite == ManagementSpec => StepsDescend
  <1>1. ASSUME ManagementInv, TokenLink, [ManagementNext]_allVars,
               NEW c \in Callers, call[c] # "idle"
        PROVE  Rank(c)' <= Rank(c) /\ (CallStep(c) => Rank(c)' < Rank(c))
    <2>1. Rank(c) \in Nat /\ Rank(c)' \in Nat
      BY DEF Rank, TokenRank
    <2>2. CASE CallStep(c)
      BY <1>1, <2>1, <2>2, OwnStepDescends
    <2>3. CASE ~CallStep(c)
      <3>1. ASSUME pc'[c] = pc[c], call'[c] = call[c] PROVE Rank(c)' = Rank(c)
        BY <3>1 DEF Rank, TokenRank
      <3>2. ASSUME NEW d \in Callers, CallStep(d) PROVE Rank(c)' = Rank(c)
        BY <1>1, <2>3, <3>1, <3>2, OwnStepDescends
      <3>3. ASSUME NEW d \in Callers, Do(d) PROVE Rank(c)' = Rank(c)
        <4>1. d # c
          BY <1>1, <3>3 DEF Do
        <4>2. pc'[c] = pc[c] /\ call'[c] = call[c]
          BY <1>1, <3>3, <4>1
             DEF Do, Token, SendWith, Goto, ManagementInv, CacheInv, TypeOK, CallTypes
        <4>3. QED
          BY <3>1, <4>2
      <3>4. ASSUME UNCHANGED <<pc, call>> PROVE Rank(c)' = Rank(c)
        BY <3>1, <3>4
      <3>5. QED
        BY <1>1, <2>1, <2>3, <3>2, <3>3, <3>4
           DEF ManagementNext, CallStep, TickInTime, Tick, Revoke, callVars, allVars, vars
    <2>4. QED
      BY <2>2, <2>3
  <1>2. ManagementInv /\ TokenLink /\ [ManagementNext]_allVars =>
           [\A c \in Callers : call[c] # "idle" =>
              /\ Rank(c)' <= Rank(c)
              /\ CallStep(c) => Rank(c)' < Rank(c)]_allVars
    BY <1>1
  <1>3. QED
    BY <1>2, ManagementInductive, TokenLinked, PTL DEF ManagementSpec, StepsDescend
=============================================================================
