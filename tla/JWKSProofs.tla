------------------------------ MODULE JWKSProofs ------------------------------
(***************************************************************************)
(* The safety of the key cache, for any verifications, any keys and any    *)
(* documents the endpoint answers with.                                    *)
(***************************************************************************)
EXTENDS JWKS, TLAPS

(* The write lock is held by the call that fetches, while the keys are     *)
(* stale, and by no other.                                                 *)
LockInv ==
    \A c \in Calls :
        /\ pc[c] = "fetch" <=> writer = c
        /\ pc[c] = "fetch" => stale

(* The oldest fetch that a call may use is made when it looks its key up:  *)
(* before that it is at most the next one, if the keys are stale.          *)
SinceInv ==
    \A c \in Calls :
        /\ pc[c] \in {"refresh", "fetch"} =>
              since[c] <= fetches + (IF stale THEN 1 ELSE 0)
        /\ pc[c] = "lookup" => since[c] <= fetches
        /\ pc[c] = "verifier" => since[c] <= used[c]

IInv == TypeOK /\ LockInv /\ SinceInv

(* The initial state satisfies the inductive invariant. *)
LEMMA InitIInv == Init => IInv
  <1> SUFFICES ASSUME Init PROVE IInv
    OBVIOUS
  <1>1. TypeOK
    BY JWKSConstants DEF Init, TypeOK, KidsOf, Ends
  <1>2. LockInv /\ SinceInv
    BY JWKSConstants DEF Init, LockInv, SinceInv
  <1>3. QED
    BY <1>1, <1>2 DEF IInv

(* Every step keeps the types. *)
LEMMA TypeStep == ASSUME TypeOK, [Next]_vars PROVE TypeOK'
  <1> USE DEF TypeOK, Goto, Ends
  <1>1. CASE Expire
    BY <1>1 DEF Expire
  <1>2. ASSUME NEW c \in Calls, ParseVerify(c) PROVE TypeOK'
    BY <1>2 DEF ParseVerify
  <1>3. ASSUME NEW c \in Calls, Refresh(c) PROVE TypeOK'
    BY <1>3 DEF Refresh
  <1>4. ASSUME NEW c \in Calls, FetchFails(c) PROVE TypeOK'
    <2>1. keyStore' \subseteq Kids
      <3>1. \A doc \in Documents : doc.kids \subseteq Kids
        BY JWKSConstants
      <3>2. keyStore' = keyStore \/ \E doc \in Documents : keyStore' = doc.kids
        BY <1>4 DEF FetchFails, Mistyped
      <3>3. QED
        BY <3>1, <3>2
    <2>2. QED
      BY <1>4, <2>1 DEF FetchFails
  <1>5. ASSUME NEW c \in Calls, FetchNull(c) PROVE TypeOK'
    BY <1>5 DEF FetchNull
  <1>6. ASSUME NEW c \in Calls, NEW doc \in Documents, Fetch(c, doc) PROVE TypeOK'
    <2>1. doc.kids \subseteq Kids
      BY JWKSConstants
    <2>2. (keyStore \subseteq Kids /\ keyCache \subseteq Usable /\ answer \subseteq Kids)'
      BY <1>6, <2>1 DEF Fetch, Decoded, KidsOf
    <2>3. stale' \in BOOLEAN /\ writer' \in Calls \cup {NoOne}
      BY <1>6, Zenon DEF Fetch
    <2>4. fetches' \in Nat
      <3>1. fetches' = fetches + 1
        BY <1>6, Zenon DEF Fetch
      <3>2. QED
        BY <3>1
    <2>5. (since \in [Calls -> Nat] /\ used \in [Calls -> Nat])'
      BY <1>6 DEF Fetch
    <2>6. pc' \in [Calls -> {"idle", "refresh", "fetch", "lookup"} \cup Ends]
      BY <1>6 DEF Fetch
    <2>7. QED
      BY <2>2, <2>3, <2>5, <2>6, <2>4
  <1>7. ASSUME NEW c \in Calls, Lookup(c) PROVE TypeOK'
    BY <1>7 DEF Lookup
  <1>8. CASE UNCHANGED vars
    BY <1>8 DEF vars
  <1>9. QED
    BY <1>1, <1>2, <1>3, <1>4, <1>5, <1>6, <1>7, <1>8 DEF Next, Answered

(* Every step keeps the inductive invariant. *)
LEMMA StepIInv == ASSUME IInv, [Next]_vars PROVE IInv'
  <1>0. TypeOK /\ TypeOK'
    BY TypeStep DEF IInv
  <1>a. NoOne \notin Calls
    BY JWKSConstants
  <1> DEFINE Rest == LockInv /\ SinceInv
  <1> USE <1>0, <1>a DEF IInv, TypeOK, LockInv, SinceInv, Goto
  <1>1. ASSUME Expire PROVE Rest'
    BY <1>1 DEF Expire
  <1>2. ASSUME NEW c \in Calls, ParseVerify(c) PROVE Rest'
    BY <1>2 DEF ParseVerify
  <1>3. ASSUME NEW c \in Calls, Refresh(c) PROVE Rest'
    BY <1>3 DEF Refresh
  <1>4. ASSUME NEW c \in Calls, FetchFails(c) PROVE Rest'
    BY <1>4 DEF FetchFails
  <1>5. ASSUME NEW c \in Calls, FetchNull(c) PROVE Rest'
    BY <1>5 DEF FetchNull
  <1>6. ASSUME NEW c \in Calls, NEW doc \in Documents, Fetch(c, doc) PROVE Rest'
    <2>1. /\ pc[c] = "fetch" /\ Goto(c, "lookup")
          /\ writer' = NoOne /\ stale' = FALSE
          /\ fetches' = fetches + 1 /\ since' = since /\ used' = used
      BY <1>6, Zenon DEF Fetch
    <2>2. LockInv'
      BY <2>1
    <2>3. SinceInv'
      BY <2>1
    <2>4. QED
      BY <2>2, <2>3
  <1>7. ASSUME NEW c \in Calls, Lookup(c) PROVE Rest'
    BY <1>7 DEF Lookup
  <1>8. ASSUME UNCHANGED vars PROVE Rest'
    BY <1>8 DEF vars
  <1>9. QED
    BY <1>1, <1>2, <1>3, <1>4, <1>5, <1>6, <1>7, <1>8 DEF Next, Answered

(* The inductive invariant holds of every behaviour. *)
THEOREM Inductive == Spec => []IInv
  BY InitIInv, StepIInv, PTL DEF Spec

(* A verification that begins when the keys have expired uses none of the  *)
(* keys from before, whoever fetches and whichever fetches fail.           *)
THEOREM ExpiredKeysAreNotUsed == Spec => []NoExpiredKeys
  <1>1. IInv => NoExpiredKeys
    BY DEF IInv, TypeOK, SinceInv, NoExpiredKeys
  <1>2. QED
    BY Inductive, <1>1, PTL

(* Only the holder of the write lock fetches, and only stale keys. *)
THEOREM FetchesAreNeeded == Spec => []FetchOnlyWhenStale
  <1>1. IInv => FetchOnlyWhenStale
    BY DEF IInv, LockInv, FetchOnlyWhenStale
  <1>2. QED
    BY Inductive, <1>1, PTL

-----------------------------------------------------------------------------
(* What the end of every call rests on, beside the fairness of the lock    *)
(* and the timeout of a fetch.                                             *)

(* The lock is only ever waited for while a fetch lasts. *)
LockMeansFetch == writer # NoOne => writer \in Calls /\ pc[writer] = "fetch"

(* The steps a call has before it. *)
Rank(c) ==
    IF pc[c] = "idle" THEN 4 ELSE IF pc[c] = "refresh" THEN 3
    ELSE IF pc[c] = "fetch" THEN 2 ELSE IF pc[c] = "lookup" THEN 1 ELSE 0

CallStep(c) == ParseVerify(c) \/ Refresh(c) \/ Answered(c) \/ Lookup(c)

(* A fetch, however it ends, gives the lock back; a step of a call brings  *)
(* it closer to its end, and those of the others do not take it back.      *)
StepsDescend ==
    [][\A c \in Calls :
          /\ pc[c] = "fetch" /\ pc'[c] # "fetch" => writer' = NoOne
          /\ Rank(c)' <= Rank(c)
          /\ CallStep(c) => Rank(c)' < Rank(c)]_vars

(* A call that waits for the lock waits for a fetch. *)
THEOREM WaitsAreForFetches == Spec => []LockMeansFetch
  <1>1. IInv => LockMeansFetch
    BY DEF IInv, TypeOK, LockInv, LockMeansFetch
  <1>2. QED
    BY Inductive, <1>1, PTL

(* A step of one call. *)
LEMMA OwnStepDescends ==
    ASSUME TypeOK, NEW d \in Calls, CallStep(d)
    PROVE  /\ Rank(d)' < Rank(d)
           /\ \A c \in Calls \ {d} : pc'[c] = pc[c]
           /\ pc[d] = "fetch" => writer' = NoOne
  <1> USE DEF TypeOK, Rank, Goto
  <1>1. CASE ParseVerify(d)
    BY <1>1 DEF ParseVerify
  <1>2. CASE Refresh(d)
    BY <1>2 DEF Refresh
  <1>3. CASE Answered(d)
    <2>1. /\ pc[d] = "fetch" /\ writer' = NoOne
          /\ \E where \in {"lookup", "error", "panic"} : Goto(d, where)
      BY <1>3, Zenon DEF Answered, FetchFails, FetchNull, Fetch
    <2>2. QED
      BY <2>1
  <1>4. CASE Lookup(d)
    BY <1>4 DEF Lookup
  <1>5. QED
    BY <1>1, <1>2, <1>3, <1>4 DEF CallStep

(* A call takes four steps at most, and gives back the lock it took. *)
THEOREM StepsAreFinite == Spec => StepsDescend
  <1>1. ASSUME TypeOK, [Next]_vars, NEW c \in Calls
        PROVE  /\ pc[c] = "fetch" /\ pc'[c] # "fetch" => writer' = NoOne
               /\ Rank(c)' <= Rank(c)
               /\ CallStep(c) => Rank(c)' < Rank(c)
    <2>1. CASE CallStep(c)
      <3>1. Rank(c)' \in Nat /\ Rank(c) \in Nat
        BY DEF Rank
      <3>2. QED
        BY <1>1, <2>1, <3>1, OwnStepDescends
    <2>2. ASSUME pc'[c] = pc[c], ~CallStep(c)
          PROVE  /\ pc[c] = "fetch" /\ pc'[c] # "fetch" => writer' = NoOne
                 /\ Rank(c)' <= Rank(c)
                 /\ CallStep(c) => Rank(c)' < Rank(c)
      BY <2>2 DEF Rank
    <2>3. CASE ~CallStep(c)
      <3>1. ASSUME NEW d \in Calls, CallStep(d) PROVE pc'[c] = pc[c]
        BY <1>1, <2>3, <3>1, OwnStepDescends
      <3>2. CASE Expire \/ UNCHANGED vars
        BY <2>2, <2>3, <3>2 DEF Expire, vars
      <3>3. QED
        BY <1>1, <2>2, <2>3, <3>1, <3>2 DEF Next, CallStep
    <2>4. QED
      BY <2>1, <2>3
  <1>2. TypeOK /\ [Next]_vars =>
           [\A c \in Calls :
              /\ pc[c] = "fetch" /\ pc'[c] # "fetch" => writer' = NoOne
              /\ Rank(c)' <= Rank(c)
              /\ CallStep(c) => Rank(c)' < Rank(c)]_vars
    BY <1>1
  <1>3. Spec => []TypeOK
    BY Inductive, PTL DEF IInv
  <1>4. QED
    BY <1>2, <1>3, PTL DEF Spec, StepsDescend
=============================================================================
