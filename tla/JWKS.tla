-------------------------------- MODULE JWKS --------------------------------
(***************************************************************************)
(* jwtkit.JWKSProvider: the verification keys of an identity provider,     *)
(* fetched over HTTP and cached for a refresh interval.  Every             *)
(* verification goes through the write lock to see whether the interval is *)
(* over, fetches with the lock held if it is, and then looks its key up    *)
(* under the read lock.                                                    *)
(*                                                                         *)
(* Time is known by one bit, stale: the refresh interval has passed since  *)
(* the last fetch.  A key is known by its kid.  The answers of the JWKS    *)
(* endpoint, external, are documents: sets of keys, a set of keys of which *)
(* a member has the wrong type, a document without "keys" ("{}") or the    *)
(* JSON value null.                                                        *)
(***************************************************************************)
EXTENDS Naturals

CONSTANTS Calls,        \* the calls of ParseVerify, ParseVerifyClaims, Verify
          Kids,         \* key identifiers
          Kid,          \* Kid[c]: the kid in the header of the token given to c
          Usable,       \* the kids of RSA keys that can be decoded
          Documents,    \* what the endpoint answers with
          MaxFetches,   \* bound: the interval ends at most so many times
          NoOne         \* the write lock is free

ASSUME JWKSConstants ==
    /\ Kid \in [Calls -> Kids]
    /\ Usable \subseteq Kids
    /\ Documents \subseteq [form : {"keys", "mistyped", "no keys", "null"},
                            kids : SUBSET Kids]
    /\ MaxFetches \in Nat
    /\ NoOne \notin Calls

VARIABLES
    keyStore,   \* p.keyStore.Keys, as kids; empty too when p.keyStore is nil
    keyCache,   \* p.keyCache: the kids it maps to a key
    stale,      \* time.Since(p.lastFetch) >= p.refreshInt
    writer,     \* p.mu: the call that holds the write lock
    pc,         \* pc[c]: where the call is
    fetches,    \* history: the fetches that succeeded
    answer,     \* history: the kids in the last document received
    since,      \* history: since[c]: the oldest fetch c may use
    used        \* history: used[c]: the fetch c took its key from

vars == <<keyStore, keyCache, stale, writer, pc, fetches, answer, since, used>>

KidsOf(doc) == IF doc.form = "keys" THEN doc.kids ELSE {}

(* json.Decoder.Decode into the key store of the last fetch: a document    *)
(* without keys leaves those that are there.  A document with keys         *)
(* replaces them, every key having all of its members.                     *)
Decoded(doc) == IF doc.form = "no keys" THEN keyStore ELSE doc.kids

Mistyped == {doc \in Documents : doc.form = "mistyped"}

(* NewJWKSProvider has returned a provider: its first refresh succeeded. *)
Init ==
    /\ \E doc \in Documents :
          /\ doc.form \in {"keys", "no keys"}
          /\ keyStore = KidsOf(doc)
          /\ keyCache = KidsOf(doc) \cap Usable
          /\ answer = KidsOf(doc)
    /\ stale = FALSE
    /\ writer = NoOne
    /\ pc = [c \in Calls |-> "idle"]
    /\ fetches = 1
    /\ since = [c \in Calls |-> 0]
    /\ used = [c \in Calls |-> 0]

Goto(c, where) == pc' = [pc EXCEPT ![c] = where]

-----------------------------------------------------------------------------
(* The token has been parsed and has a kid. *)
ParseVerify(c) ==
    /\ pc[c] = "idle"
    /\ Goto(c, "refresh")
    /\ since' = [since EXCEPT ![c] = IF stale THEN fetches + 1 ELSE fetches]
    /\ UNCHANGED <<keyStore, keyCache, stale, writer, fetches, answer, used>>

(* Mutant: the fetch is made under the read lock. *)
RefreshShared(c) ==
    /\ pc[c] = "refresh"
    /\ IF stale
       THEN Goto(c, "fetch") /\ writer' = c
       ELSE Goto(c, "lookup") /\ UNCHANGED writer
    /\ UNCHANGED <<keyStore, keyCache, stale, fetches, answer, since, used>>

(* refresh: the write lock, and back if the keys are fresh. *)
Refresh(c) ==
    /\ pc[c] = "refresh"
    /\ writer = NoOne
    /\ IF stale
       THEN Goto(c, "fetch") /\ writer' = c
       ELSE Goto(c, "lookup") /\ UNCHANGED writer
    /\ UNCHANGED <<keyStore, keyCache, stale, fetches, answer, since, used>>

(* Mutant: the keys at hand will do when the endpoint does not answer. *)
FetchFailsOpen(c) ==
    /\ pc[c] = "fetch"
    /\ writer' = NoOne
    /\ Goto(c, "lookup")
    /\ UNCHANGED <<keyStore, keyCache, stale, fetches, answer, since, used>>

(* fetchJWKS fails: transport, timeout, status or decoding, which changes  *)
(* the key store before it reports a member of the wrong type.  What is    *)
(* cached stays, but this verification does not get to use it.             *)
FetchFails(c) ==
    /\ pc[c] = "fetch"
    /\ keyStore' \in {keyStore} \cup {doc.kids : doc \in Mistyped}
    /\ writer' = NoOne
    /\ Goto(c, "error")
    /\ UNCHANGED <<keyCache, stale, fetches, answer, since, used>>

(* Mutant: the key cache is added to, not reset. *)
FetchMerges(c, doc) ==
    /\ pc[c] = "fetch"
    /\ doc.form \in {"keys", "no keys"}
    /\ keyStore' = Decoded(doc)
    /\ keyCache' = keyCache \cup (Decoded(doc) \cap Usable)
    /\ answer' = KidsOf(doc)
    /\ stale' = FALSE
    /\ fetches' = fetches + 1
    /\ writer' = NoOne
    /\ Goto(c, "lookup")
    /\ UNCHANGED <<since, used>>

(* fetchJWKS succeeds: the key cache is made anew of the key store. *)
Fetch(c, doc) ==
    /\ pc[c] = "fetch"
    /\ doc.form \in {"keys", "no keys"}
    /\ keyStore' = Decoded(doc)
    /\ keyCache' = Decoded(doc) \cap Usable
    /\ answer' = KidsOf(doc)
    /\ stale' = FALSE
    /\ fetches' = fetches + 1
    /\ writer' = NoOne
    /\ Goto(c, "lookup")
    /\ UNCHANGED <<since, used>>

(* Mutant: the unlock is not deferred. *)
FetchNullKeepsLock(c) ==
    /\ pc[c] = "fetch"
    /\ \E doc \in Documents : doc.form = "null"
    /\ keyStore' = {}
    /\ keyCache' = {}
    /\ answer' = {}
    /\ Goto(c, "panic")
    /\ UNCHANGED <<stale, writer, fetches, since, used>>

(* null makes the key store nil, which panics where it is ranged over: the *)
(* cache is reset by then, and the deferred unlock runs.                   *)
FetchNull(c) ==
    /\ pc[c] = "fetch"
    /\ \E doc \in Documents : doc.form = "null"
    /\ keyStore' = {}
    /\ keyCache' = {}
    /\ answer' = {}
    /\ writer' = NoOne
    /\ Goto(c, "panic")
    /\ UNCHANGED <<stale, fetches, since, used>>

(* getVerifier: the key is looked up under the read lock. *)
Lookup(c) ==
    /\ pc[c] = "lookup"
    /\ writer = NoOne
    /\ IF Kid[c] \in keyCache
       THEN Goto(c, "verifier") /\ used' = [used EXCEPT ![c] = fetches]
       ELSE Goto(c, "error") /\ UNCHANGED used
    /\ UNCHANGED <<keyStore, keyCache, stale, writer, fetches, answer, since>>

(* The refresh interval is over. *)
Expire ==
    /\ ~stale
    /\ fetches <= MaxFetches
    /\ stale' = TRUE
    /\ UNCHANGED <<keyStore, keyCache, writer, pc, fetches, answer, since, used>>

Answered(c) ==
    \/ FetchFails(c)
    \/ FetchNull(c)
    \/ \E doc \in Documents : Fetch(c, doc)

Next ==
    \/ Expire
    \/ \E c \in Calls : ParseVerify(c) \/ Refresh(c) \/ Answered(c) \/ Lookup(c)

Spec == Init /\ [][Next]_vars

(* The HTTP client's timeout ends a fetch; sync.RWMutex starves no one. *)
Fairness ==
    \A c \in Calls :
        SF_vars(Refresh(c)) /\ WF_vars(Answered(c)) /\ SF_vars(Lookup(c))

FairSpec == Spec /\ Fairness

-----------------------------------------------------------------------------
Ends == {"verifier", "error", "panic"}

TypeOK ==
    /\ keyStore \subseteq Kids
    /\ keyCache \subseteq Usable
    /\ stale \in BOOLEAN
    /\ writer \in Calls \cup {NoOne}
    /\ pc \in [Calls -> {"idle", "refresh", "fetch", "lookup"} \cup Ends]
    /\ fetches \in Nat
    /\ answer \subseteq Kids
    /\ since \in [Calls -> Nat]
    /\ used \in [Calls -> Nat]

(* "Reset the key cache to avoid potential stale data": the keys tokens    *)
(* are verified with are those of the last document received.              *)
CacheIsLastAnswer == keyCache = answer \cap Usable

(* A call that begins when the refresh interval is over is never verified  *)
(* with keys of before: not when its own fetch fails, and not when another *)
(* call fetches or fails to fetch between its refresh and its look-up.     *)
NoExpiredKeys ==
    \A c \in Calls : pc[c] = "verifier" => used[c] >= since[c]

(* The calls that queue for the lock behind a fetch do not fetch again. *)
FetchOnlyWhenStale ==
    \A c \in Calls : pc[c] = "fetch" => stale /\ writer = c

(* A call returns, or panics, whatever the endpoint does and whatever      *)
(* became of the calls before it: none leaves the lock held.               *)
CallsEnd == \A c \in Calls : (pc[c] # "idle") ~> (pc[c] \in Ends)
=============================================================================
