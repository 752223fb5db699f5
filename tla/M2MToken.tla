------------------------------ MODULE M2MToken ------------------------------
(***************************************************************************)
(* kinde.M2MClient: the cached machine-to-machine token.  Callers of Token *)
(* share one cache behind an RWMutex: a first look under the read lock, a  *)
(* second one under the write lock, and a token request made while the     *)
(* write lock is held.                                                     *)
(*                                                                         *)
(* Time is the variable now.  The authorization server is external: it     *)
(* issues a token some time between the request and its answer, and the    *)
(* token's lifetime runs from there, while the client counts it from the   *)
(* moment it has read the answer.                                          *)
(***************************************************************************)
EXTENDS Integers

CONSTANTS Callers,
          Lifetimes,      \* the values of expires_in the server answers with
          ExpiryBuffer,   \* expiryBuffer, 30 seconds
          Timeout,        \* the HTTP client's timeout, 10 seconds by default
          MaxTime,        \* bound: where the clock stops
          None

(* buffer := min(expiryBuffer, lifetime/2) *)
BufferOf(lifetime) ==
    IF ExpiryBuffer < lifetime \div 2 THEN ExpiryBuffer ELSE lifetime \div 2

(* A request cannot last as long as the buffer: lifetimes over twice the   *)
(* client's timeout, which itself is below ExpiryBuffer.                   *)
ASSUME TokenConstants ==
    /\ Lifetimes \subseteq Int
    /\ ExpiryBuffer \in Nat /\ Timeout \in Nat /\ MaxTime \in Nat
    /\ \A l \in Lifetimes : l > 0 => Timeout < BufferOf(l)
    /\ None \notin Callers /\ None \notin [expiresAt : Int, dies : Int]
    /\ None \notin [lifetime : Int, dies : Int]

VARIABLES
    now,
    token,    \* m.token, with the time the server really lets it die
    writer,   \* m.mu: the caller that holds the write lock
    pc,       \* pc[c]: where the call of Token is
    sentAt,   \* sentAt[c]: when its token request was sent
    answer,   \* answer[c]: what the server issued for it
    dead      \* history: some caller was given a token its server rejects

vars == <<now, token, writer, pc, sentAt, answer, dead>>

Tokens == [expiresAt : Int, dies : Int]

Init ==
    /\ now = 0
    /\ token = None
    /\ writer = None
    /\ pc = [c \in Callers |-> "idle"]
    /\ sentAt = [c \in Callers |-> 0]
    /\ answer = [c \in Callers |-> None]
    /\ dead = FALSE

-----------------------------------------------------------------------------
Requesting == {c \in Callers : pc[c] \in {"request", "issued"}}

(* m.token != nil && time.Now().Before(m.token.expiresAt) *)
Cached == token # None /\ now < token.expiresAt

(* A token is returned now. *)
Give(t) == dead' = (dead \/ now >= t.dies)

Goto(c, where) == pc' = [pc EXCEPT ![c] = where]

(* Token: the first look, under the read lock. *)
Token(c) ==
    /\ pc[c] = "idle"
    /\ writer = None
    /\ \/ Cached /\ Give(token) /\ UNCHANGED pc
       \/ ~Cached /\ Goto(c, "miss") /\ UNCHANGED dead
    /\ UNCHANGED <<now, token, writer, sentAt, answer>>

Lock(c) ==
    /\ pc[c] = "miss"
    /\ writer = None
    /\ writer' = c
    /\ Goto(c, "locked")
    /\ UNCHANGED <<now, token, sentAt, answer, dead>>

(* Mutant: no second look under the write lock. *)
NoDoubleCheck(c) ==
    /\ pc[c] = "locked"
    /\ Goto(c, "request")
    /\ sentAt' = [sentAt EXCEPT ![c] = now]
    /\ UNCHANGED <<now, token, writer, answer, dead>>

(* The second look, under the write lock: another caller may have renewed  *)
(* the token.  If not, the request is sent.                                *)
DoubleCheck(c) ==
    /\ pc[c] = "locked"
    /\ \/ /\ Cached
          /\ Give(token)
          /\ Goto(c, "idle")
          /\ writer' = None
          /\ UNCHANGED sentAt
       \/ /\ ~Cached
          /\ Goto(c, "request")
          /\ sentAt' = [sentAt EXCEPT ![c] = now]
          /\ UNCHANGED <<writer, dead>>
    /\ UNCHANGED <<now, token, answer>>

(* External: the server issues a token. *)
Issue(c, lifetime) ==
    /\ pc[c] = "request"
    /\ answer' = [answer EXCEPT ![c] = [lifetime |-> lifetime, dies |-> now + lifetime]]
    /\ Goto(c, "issued")
    /\ UNCHANGED <<now, token, writer, sentAt, dead>>

(* Mutant: a failed request returns without unlocking. *)
FailsLocked(c) ==
    /\ c \in Requesting
    /\ answer' = [answer EXCEPT ![c] = None]
    /\ Goto(c, "idle")
    /\ UNCHANGED <<now, token, writer, sentAt, dead>>

(* tokenRequest returns an error: the cache is left as it was and the      *)
(* write lock released.                                                    *)
ReturnError(c) ==
    /\ answer' = [answer EXCEPT ![c] = None]
    /\ Goto(c, "idle")
    /\ writer' = None
    /\ UNCHANGED <<now, token, sentAt, dead>>

(* The transport fails, the caller's context ends, or the answer cannot be *)
(* decoded, has no token, or an expires_in that is not positive.           *)
Fails(c) == c \in Requesting /\ ReturnError(c)

(* The server issues none and answers with a status other than 200: this   *)
(* error is ErrUnauthenticated, whatever the status.                       *)
Rejected(c) == pc[c] = "request" /\ ReturnError(c)

(* Mutant: the buffer is not taken off the lifetime. *)
UnbufferedExpiry(lifetime) == now + lifetime

(* expiresAt: time.Now().Add(lifetime - buffer) *)
ExpiresAt(lifetime) == now + lifetime - BufferOf(lifetime)

(* The answer is read: the token is cached and returned. *)
Store(c) ==
    /\ pc[c] = "issued"
    /\ answer[c].lifetime > 0
    /\ token' = [expiresAt |-> ExpiresAt(answer[c].lifetime), dies |-> answer[c].dies]
    /\ Give(answer[c])
    /\ answer' = [answer EXCEPT ![c] = None]
    /\ Goto(c, "idle")
    /\ writer' = None
    /\ UNCHANGED <<now, sentAt>>

(* The clock.  The HTTP client's timeout ends a request in time. *)
Tick ==
    /\ now < MaxTime
    /\ \A c \in Requesting : now - sentAt[c] < Timeout
    /\ now' = now + 1
    /\ UNCHANGED <<token, writer, pc, sentAt, answer, dead>>

Step(c) ==
    \/ DoubleCheck(c)
    \/ (\E l \in Lifetimes : Issue(c, l))
    \/ Fails(c) \/ Rejected(c) \/ Store(c)

Next == Tick \/ \E c \in Callers : Token(c) \/ Lock(c) \/ Step(c)

Spec == Init /\ [][Next]_vars

(* sync.RWMutex starves no writer; the client's timeout ends a request. *)
Fairness == \A c \in Callers : SF_vars(Lock(c)) /\ WF_vars(Step(c))

FairSpec == Spec /\ Fairness

-----------------------------------------------------------------------------
TypeOK ==
    /\ now \in Nat
    /\ token \in Tokens \cup {None}
    /\ writer \in Callers \cup {None}
    /\ pc \in [Callers -> {"idle", "miss", "locked", "request", "issued"}]
    /\ sentAt \in [Callers -> Nat]
    /\ answer \in [Callers -> [lifetime : Int, dies : Int] \cup {None}]
    /\ dead \in BOOLEAN

(* "Token returns a valid access token": the server still accepts it when  *)
(* it is returned, although the client counts its lifetime from a later    *)
(* moment than the server does.  The buffer covers the request's duration. *)
ReturnedIsLive == ~dead

(* A token is requested only while the cache has none to give: the callers *)
(* that queued for the write lock behind a request use what it brought.    *)
NoRedundantRequest ==
    \A c \in Requesting : writer = c /\ ~Cached
=============================================================================
