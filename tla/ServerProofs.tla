---------------------------- MODULE ServerProofs ----------------------------
(***************************************************************************)
(* Server's safety properties, for any sets of names, listeners, Serve     *)
(* calls and RegisterListener calls, and those of the program in which its *)
(* listeners are the kit's own.                                            *)
(***************************************************************************)
EXTENDS ServeKit, TLAPS

(* The map is the one the goroutines were started from, as long as Serve   *)
(* holds the read lock; nothing is started before it has the lock.         *)
MapInv ==
    \A s \in Serves :
        /\ pc[s] \in {"idle", "blocked"} =>
              \A n \in Names : call[s][n] = "none" /\ served[s][n] = NoListener
        /\ pc[s] \in Inside =>
              \A n \in Names :
                 served[s][n] = IF call[s][n] = "none" THEN NoListener ELSE listeners[n]
        /\ pc[s] = "waiting" =>
              \A n \in Names : call[s][n] = "none" => listeners[n] = NoListener

(* The group's error is that of a listener that failed, and there is one   *)
(* as soon as some listener failed.                                        *)
ErrInv ==
    \A s \in Serves :
        /\ groupErr[s] # NoName => call[s][groupErr[s]] = "failed"
        /\ groupErr[s] = NoName => \A n \in Names : call[s][n] # "failed"

(* The result is set on return, from the group's error. *)
ResultInv ==
    \A s \in Serves :
        /\ result[s] # "none" => pc[s] = "returned"
        /\ result[s] = "nil" => groupErr[s] = NoName
        /\ result[s] = "error" => groupErr[s] # NoName

IInv == TypeOK /\ MapInv /\ NoOrphans /\ ErrInv /\ ResultInv

(* The initial state satisfies the inductive invariant. *)
LEMMA InitIInv == Init => IInv
  BY ServerConstants
     DEF Init, IInv, TypeOK, Maps, MapInv, NoOrphans, ErrInv, ResultInv, Inside

(* Every step keeps the types. *)
LEMMA TypeStep == ASSUME TypeOK, [Next]_vars PROVE TypeOK'
  <1> USE DEF TypeOK, Maps
  <1>1. ASSUME NEW r \in Registrars, Lock(r) PROVE TypeOK'
    BY <1>1 DEF Lock
  <1>2. ASSUME NEW r \in Registrars, NEW n \in Names, NEW l \in Listeners,
               RegisterListener(r, n, l)
        PROVE  TypeOK'
    BY <1>2 DEF RegisterListener
  <1>3. ASSUME NEW s \in Serves, Serve(s) PROVE TypeOK'
    BY <1>3 DEF Serve
  <1>4. ASSUME NEW s \in Serves, AllStarted(s) PROVE TypeOK'
    BY <1>4 DEF AllStarted
  <1>5. ASSUME NEW s \in Serves, Wait(s) PROVE TypeOK'
    BY <1>5 DEF Wait
  <1>6. ASSUME NEW s \in Serves, Cancel(s) PROVE TypeOK'
    BY <1>6 DEF Cancel
  <1>7. ASSUME NEW s \in Serves, NEW n \in Names, StartListener(s, n) PROVE TypeOK'
    BY <1>7 DEF StartListener
  <1>8. ASSUME NEW s \in Serves, NEW n \in Names, ListenerReturns(s, n) PROVE TypeOK'
    BY <1>8 DEF ListenerReturns
  <1>9. ASSUME NEW s \in Serves, NEW n \in Names, ListenerFails(s, n) PROVE TypeOK'
    BY <1>9 DEF ListenerFails
  <1>10. CASE UNCHANGED vars
    BY <1>10 DEF vars
  <1>11. QED
    BY <1>1, <1>2, <1>3, <1>4, <1>5, <1>6, <1>7, <1>8, <1>9, <1>10 DEF Next, Register

(* Every step keeps the rest of the inductive invariant. *)
LEMMA StepIInv == ASSUME IInv, [Next]_vars PROVE IInv'
  <1>0. TypeOK /\ TypeOK'
    BY TypeStep DEF IInv
  <1> USE <1>0, ServerConstants
      DEF IInv, TypeOK, Maps, MapInv, NoOrphans, ErrInv, ResultInv, Inside
  <1>1. ASSUME NEW r \in Registrars, Lock(r) PROVE IInv'
    BY <1>1 DEF Lock
  <1>2. ASSUME NEW r \in Registrars, NEW n \in Names, NEW l \in Listeners,
               RegisterListener(r, n, l)
        PROVE  IInv'
    <2>1. \A s \in Serves : pc[s] \notin Inside
      BY <1>2 DEF RegisterListener, Readers
    <2>2. MapInv'
      BY <1>2, <2>1 DEF RegisterListener
    <2>3. (NoOrphans /\ ErrInv /\ ResultInv)'
      BY <1>2, <2>1 DEF RegisterListener
    <2>4. QED
      BY <2>2, <2>3
  <1>3. ASSUME NEW s \in Serves, Serve(s) PROVE IInv'
    BY <1>3 DEF Serve
  <1>4. ASSUME NEW s \in Serves, AllStarted(s) PROVE IInv'
    BY <1>4 DEF AllStarted, Registered
  <1>5. ASSUME NEW s \in Serves, Wait(s) PROVE IInv'
    BY <1>5 DEF Wait
  <1>6. ASSUME NEW s \in Serves, Cancel(s) PROVE IInv'
    BY <1>6 DEF Cancel
  <1>7. ASSUME NEW s \in Serves, NEW n \in Names, StartListener(s, n) PROVE IInv'
    BY <1>7 DEF StartListener, Registered
  <1>8. ASSUME NEW s \in Serves, NEW n \in Names, ListenerReturns(s, n) PROVE IInv'
    BY <1>8 DEF ListenerReturns
  <1>9. ASSUME NEW s \in Serves, NEW n \in Names, ListenerFails(s, n) PROVE IInv'
    BY <1>9 DEF ListenerFails
  <1>10. CASE UNCHANGED vars
    BY <1>10 DEF vars
  <1>11. QED
    BY <1>1, <1>2, <1>3, <1>4, <1>5, <1>6, <1>7, <1>8, <1>9, <1>10 DEF Next, Register

(* The inductive invariant gives the properties TLC checks. *)
LEMMA IInvImplies == IInv => ServesTheMap /\ NoOrphans /\ ResultFaithful
  <1> SUFFICES ASSUME IInv PROVE ServesTheMap /\ ResultFaithful
    BY DEF IInv
  <1>1. ServesTheMap
    <2> SUFFICES ASSUME NEW s \in Serves, pc[s] = "waiting" PROVE served[s] = listeners
      BY DEF ServesTheMap
    <2>1. \A n \in Names : served[s][n] = listeners[n]
      BY DEF IInv, MapInv, Inside
    <2>2. QED
      BY <2>1 DEF IInv, TypeOK, Maps
  <1>2. ResultFaithful
    BY DEF IInv, TypeOK, ErrInv, ResultInv, ResultFaithful
  <1>3. QED
    BY <1>1, <1>2

(* The inductive invariant holds of every behaviour. *)
THEOREM Inductive == Spec => []IInv
  BY InitIInv, StepIInv, PTL DEF Spec

(* Every variable of the server keeps its type. *)
THEOREM TypeCorrect == Spec => []TypeOK
  BY Inductive, PTL DEF IInv

(* A Serve that waits runs exactly the registered listeners: no call of    *)
(* RegisterListener changes the map under it.                              *)
THEOREM MapIsServed == Spec => []ServesTheMap
  BY Inductive, IInvImplies, PTL

(* Serve leaves no listener running behind it. *)
THEOREM NoneLeftRunning == Spec => []NoOrphans
  BY Inductive, IInvImplies, PTL

(* Serve returns nil exactly when no listener failed. *)
THEOREM ResultIsFaithful == Spec => []ResultFaithful
  BY Inductive, IInvImplies, PTL

-----------------------------------------------------------------------------
(* The lock.  A Serve waits for its read lock behind a registration, and   *)
(* that one for the Serves that are inside.                                *)

(* The pending writer is the one registration that has asked for the lock. *)
LockInv ==
    /\ \A r \in Registrars : reg[r] = "locking" <=> pending = r
    /\ \A s \in Serves : pc[s] = "blocked" => pending # NoOne

(* A Serve without its lock is kept from it by a registration that can be  *)
(* made, or by another Serve that is inside: there is no circle, and no    *)
(* third thing to wait for.                                                *)
BlockedBehindServes ==
    \A s \in Serves : pc[s] = "blocked" =>
        \E r \in Registrars :
            /\ reg[r] = "locking" /\ pending = r
            /\ Readers = {} \/ \E t \in Serves \ {s} : pc[t] \in Inside

(* Nobody overtakes a registration: while it waits the Serves inside only  *)
(* get fewer, however many are called.                                     *)
WriterIsNext ==
    [][pending # NoOne =>
          \/ pending' = pending /\ Readers' \subseteq Readers
          \/ pending' = NoOne /\ Readers = {}]_vars

(* The lock is kept as it should be. *)
LEMMA StepLockInv == ASSUME IInv, LockInv, [Next]_vars PROVE LockInv'
  <1>0. TypeOK /\ TypeOK'
    BY TypeStep DEF IInv
  <1> USE <1>0, ServerConstants DEF TypeOK, LockInv
  <1>1. ASSUME NEW r \in Registrars, Lock(r) PROVE LockInv'
    BY <1>1 DEF Lock
  <1>2. ASSUME NEW r \in Registrars, NEW n \in Names, NEW l \in Listeners,
               RegisterListener(r, n, l)
        PROVE  LockInv'
    BY <1>2 DEF RegisterListener
  <1>3. ASSUME NEW s \in Serves, Serve(s) PROVE LockInv'
    BY <1>3 DEF Serve
  <1>4. ASSUME NEW s \in Serves, AllStarted(s) \/ Wait(s) PROVE LockInv'
    BY <1>4 DEF AllStarted, Wait
  <1>5. CASE UNCHANGED <<pending, reg, pc>>
    BY <1>5
  <1>6. QED
    BY <1>1, <1>2, <1>3, <1>4, <1>5
       DEF Next, Register, Cancel, StartListener, ListenerReturns, ListenerFails, vars

(* A Serve waits for nothing but a registration and the Serves before it. *)
THEOREM NoCircularWait == Spec => []BlockedBehindServes
  <1>1. Init => LockInv
    BY ServerConstants DEF Init, LockInv
  <1>2. IInv /\ LockInv => BlockedBehindServes
    BY ServerConstants DEF IInv, TypeOK, LockInv, BlockedBehindServes, Readers, Inside
  <1>3. QED
    BY <1>1, <1>2, Inductive, StepLockInv, PTL DEF Spec

(* A registration that waits for the lock is the next to have it. *)
THEOREM WriterIsNotOvertaken == Spec => WriterIsNext
  <1>1. ASSUME TypeOK, [Next]_vars, pending # NoOne
        PROVE  \/ pending' = pending /\ Readers' \subseteq Readers
               \/ pending' = NoOne /\ Readers = {}
    <2> USE <1>1 DEF TypeOK, Readers, Inside
    <2>1. ASSUME NEW r \in Registrars, Lock(r) PROVE FALSE
      BY <2>1 DEF Lock
    <2>2. ASSUME NEW r \in Registrars, NEW n \in Names, NEW l \in Listeners,
                 RegisterListener(r, n, l)
          PROVE  pending' = NoOne /\ Readers = {}
      BY <2>2 DEF RegisterListener
    <2>3. ASSUME NEW s \in Serves, Serve(s) \/ AllStarted(s) \/ Wait(s)
          PROVE  pending' = pending /\ Readers' \subseteq Readers
      BY <2>3 DEF Serve, AllStarted, Wait
    <2>4. CASE UNCHANGED <<pending, pc>>
      BY <2>4
    <2>5. QED
      BY <2>1, <2>2, <2>3, <2>4
         DEF Next, Register, Cancel, StartListener, ListenerReturns, ListenerFails, vars
  <1>2. TypeOK /\ [Next]_vars =>
           [pending # NoOne =>
               \/ pending' = pending /\ Readers' \subseteq Readers
               \/ pending' = NoOne /\ Readers = {}]_vars
    BY <1>1
  <1>3. QED
    BY TypeCorrect, <1>2, PTL DEF Spec, WriterIsNext

-----------------------------------------------------------------------------
(* The running program.  What is proved of the listeners holds of the ones *)
(* in a Server, whose contexts are the group's.                            *)

LP == INSTANCE ListenerProofs WITH
        Calls <- Goroutines, Of <- [c \in Goroutines |-> Of[c[2]]],
        ctxDone <- ListenerCtx, groupErr <- callErr, result <- callResult

LEMMA ListenerConstantsHold == LP!ListenerConstants
  BY ServeKitConstants DEF LP!ListenerConstants, Goroutines

(* A goroutine of Server.Serve is as far as the call it makes: it has      *)
(* begun nothing before it is started, and has what the call returned      *)
(* when it has ended.                                                      *)
Link(s, n) ==
    /\ call[s][n] = "none" =>
          /\ serve[<<s, n>>] = "none" /\ shutdown[<<s, n>>] = "none"
          /\ stopper[<<s, n>>] = "none" /\ callResult[<<s, n>>] = "none"
          /\ ~cut[<<s, n>>]
    /\ call[s][n] = "ok" => callResult[<<s, n>>] = "nil"
    /\ call[s][n] = "failed" => callResult[<<s, n>>] \notin {"none", "nil"}

LinkInv == \A s \in Serves, n \in Names : Link(s, n)

(* Every step of the program is one of the Server or leaves it alone. *)
LEMMA ServerSimulated == [KitNext]_kitVars => [Next]_vars
  <1>1. ASSUME ServerStep PROVE Next
    BY <1>1, ServeKitConstants DEF ServerStep, Next, Register
  <1>2. ASSUME NEW s \in Serves, NEW n \in Names, GoroutineEnds(s, n) PROVE Next
    BY <1>2 DEF GoroutineEnds, Next
  <1>3. QED
    BY <1>1, <1>2 DEF KitNext, ClientStep, CallServe, ListenerStep, kitVars

(* A Server whose listeners are the kit's own makes only the steps of      *)
(* Server, in the same states.                                             *)
THEOREM KitImplementsServer == KitSpec => Spec
  <1>1. KitInit => Init
    BY DEF KitInit
  <1>2. QED
    BY <1>1, ServerSimulated, PTL DEF KitSpec, Spec

(* A step of a listener is one of the listeners that are proved about. *)
LEMMA SameCallServe ==
  ASSUME NEW c \in Goroutines, L!CallServe(c) PROVE LP!CallServe(c)
  BY DEF L!CallServe, L!Serve, L!ServeInvalid, L!IsHTTP, L!Goto, L!objVars,
         LP!CallServe, LP!Serve, LP!ServeInvalid, LP!IsHTTP, LP!Goto,
         LP!objVars

LEMMA SameCallStep ==
  ASSUME NEW c \in Goroutines, L!CallStep(c) PROVE LP!CallStep(c)
  <1> USE DEF L!IsHTTP, L!IsGRPC, L!ServeCtxDone, L!Fail, L!Accepting, L!Goto, L!BothDone,
              L!objVars, L!callVars, LP!IsHTTP, LP!IsGRPC, LP!ServeCtxDone,
              LP!Fail, LP!Accepting, LP!Goto, LP!BothDone, LP!objVars,
              LP!callVars
  <1>1. ASSUME L!ServeClosed(c) PROVE LP!ServeClosed(c)
    BY <1>1 DEF L!ServeClosed, LP!ServeClosed
  <1>2. ASSUME L!Listen(c) PROVE LP!Listen(c)
    BY <1>2 DEF L!Listen, LP!Listen
  <1>3. ASSUME L!ListenFails(c) PROVE LP!ListenFails(c)
    BY <1>3 DEF L!ListenFails, LP!ListenFails
  <1>4. ASSUME L!Track(c) PROVE LP!Track(c)
    BY <1>4 DEF L!Track, LP!Track
  <1>5. ASSUME L!AcceptFails(c) PROVE LP!AcceptFails(c)
    BY <1>5 DEF L!AcceptFails, LP!AcceptFails
  <1>6. ASSUME L!AcceptClosed(c) PROVE LP!AcceptClosed(c)
    BY <1>6 DEF L!AcceptClosed, LP!AcceptClosed
  <1>7. ASSUME L!ServeExits(c) PROVE LP!ServeExits(c)
    BY <1>7 DEF L!ServeExits, LP!ServeExits
  <1>8. ASSUME L!BeginShutdown(c) PROVE LP!BeginShutdown(c)
    BY <1>8 DEF L!BeginShutdown, LP!BeginShutdown
  <1>9. ASSUME L!ShutdownEnds(c) PROVE LP!ShutdownEnds(c)
    BY <1>9 DEF L!ShutdownEnds, LP!ShutdownEnds
  <1>10. ASSUME L!Deadline(c) PROVE LP!Deadline(c)
    BY <1>10 DEF L!Deadline, LP!Deadline
  <1>11. ASSUME L!ForcedStop(c) PROVE LP!ForcedStop(c)
    BY <1>11 DEF L!ForcedStop, LP!ForcedStop
  <1>12. ASSUME L!GracefulStop(c) PROVE LP!GracefulStop(c)
    BY <1>12 DEF L!GracefulStop, LP!GracefulStop
  <1>13. ASSUME L!GracefulStopEnds(c) PROVE LP!GracefulStopEnds(c)
    BY <1>13 DEF L!GracefulStopEnds, LP!GracefulStopEnds
  <1>14. ASSUME L!Return(c) PROVE LP!Return(c)
    BY <1>14 DEF L!Return, LP!Return
  <1>15. QED
    BY <1>1, <1>2, <1>3, <1>4, <1>5, <1>6, <1>7, <1>8, <1>9, <1>10, <1>11, <1>12,
       <1>13, <1>14
       DEF L!CallStep, L!ServeStep, L!ShutdownStep, L!StopperStep, LP!CallStep,
           LP!ServeStep, LP!ShutdownStep, LP!StopperStep

LEMMA SameClientStep ==
  ASSUME NEW l \in Listeners, L!ClientStep(l) PROVE LP!ClientStep(l)
  BY DEF L!ClientStep, L!Request, L!Finish, L!Accepting, L!callVars, LP!ClientStep,
         LP!Request, LP!Finish, LP!Accepting, LP!callVars

(* The group's context is done for all goroutines of a Serve at once, which *)
(* the listeners see as a cancellation of it.                              *)
LEMMA ContextStep ==
  ASSUME TypeOK, [Next]_vars, UNCHANGED listenerVars
  PROVE  [LP!Next]_LP!vars
  <1>1. ASSUME UNCHANGED <<cancelled, groupErr>> PROVE UNCHANGED LP!vars
    BY <1>1 DEF LP!vars, listenerVars, ListenerCtx, ListenerCtxDone
  <1>2. ASSUME NEW s \in Serves,
               ListenerCtx' = [c \in Goroutines |-> ListenerCtx[c] \/ c \in {s} \X Names]
        PROVE  [LP!Next]_LP!vars
    <2> DEFINE given == {s} \X Names
    <2>1. given \in SUBSET Goroutines
      BY DEF Goroutines
    <2>2. CASE \E c \in given : ~ListenerCtx[c]
      <3>1. LP!Cancel(given)
        BY <1>2, <2>2 DEF LP!Cancel, LP!objVars, listenerVars
      <3>2. QED
        BY <2>1, <3>1 DEF LP!Next
    <2>3. CASE \A c \in given : ListenerCtx[c]
      <3>1. ListenerCtx \in [Goroutines -> BOOLEAN]
        BY DEF ListenerCtx, ListenerCtxDone, TypeOK, Goroutines
      <3>2. ListenerCtx' = ListenerCtx
        BY <1>2, <2>3, <3>1
      <3>3. QED
        BY <3>2 DEF LP!vars, listenerVars
    <2>4. QED
      BY <2>2, <2>3
  <1>3. ASSUME NEW s \in Serves, Cancel(s) PROVE [LP!Next]_LP!vars
    <2>1. \A c \in Goroutines : ListenerCtxDone(c[1])' <=>
             ListenerCtxDone(c[1]) \/ c \in {s} \X Names
      BY <1>3 DEF Cancel, ListenerCtxDone, TypeOK, Goroutines
    <2>2. QED
      BY <1>2, <2>1 DEF ListenerCtx, ListenerCtxDone
  <1>4. ASSUME NEW s \in Serves, NEW n \in Names, ListenerFails(s, n)
        PROVE  [LP!Next]_LP!vars
    <2>1. \A c \in Goroutines : ListenerCtxDone(c[1])' <=>
             ListenerCtxDone(c[1]) \/ c \in {s} \X Names
      BY <1>4, ServerConstants DEF ListenerFails, ListenerCtxDone, TypeOK, Goroutines
    <2>2. QED
      BY <1>2, <2>1 DEF ListenerCtx, ListenerCtxDone
  <1>5. QED
    BY <1>1, <1>3, <1>4
       DEF Next, vars, Lock, Register, RegisterListener, Serve, AllStarted, Wait,
           StartListener, ListenerReturns

(* The listeners of a Server are listeners. *)
THEOREM KitRunsListeners == KitSpec => LP!Spec
  <1>1. KitInit => LP!Init
    BY DEF KitInit, Init, L!Init, LP!Init, ListenerCtx, ListenerCtxDone, Goroutines
  <1>2. ASSUME TypeOK, [KitNext]_kitVars PROVE [LP!Next]_LP!vars
    <2>1. ASSUME NEW s \in Serves, NEW n \in Names, CallServe(s, n) PROVE LP!Next
      BY <2>1, SameCallServe DEF CallServe, LP!Next, Goroutines
    <2>2. ASSUME NEW c \in Goroutines, ListenerStep(c) PROVE LP!Next
      BY <2>2, SameCallStep DEF ListenerStep, LP!Next
    <2>3. ASSUME ClientStep PROVE LP!Next
      BY <2>3, SameClientStep DEF ClientStep, LP!Next
    <2>4. ASSUME UNCHANGED listenerVars PROVE [LP!Next]_LP!vars
      BY <1>2, <2>4, ServerSimulated, ContextStep
    <2>5. QED
      BY <1>2, <2>1, <2>2, <2>3, <2>4
         DEF KitNext, ServerStep, GoroutineEnds, kitVars
  <1>3. QED
    BY <1>1, <1>2, KitImplementsServer, TypeCorrect, PTL DEF KitSpec, LP!Spec

(* A step of one call leaves the variables of the others alone, is taken   *)
(* only by a call that has begun, and keeps what it has returned.          *)
LEMMA CallStepLocal ==
  ASSUME LP!TypeOK, NEW c \in Goroutines, LP!CallStep(c)
  PROVE  /\ \A d \in Goroutines \ {c} :
              /\ serve'[d] = serve[d] /\ shutdown'[d] = shutdown[d]
              /\ stopper'[d] = stopper[d] /\ callResult'[d] = callResult[d]
              /\ cut'[d] = cut[d]
         /\ ~(serve[c] = "none" /\ shutdown[c] = "none" /\ stopper[c] = "none")
         /\ callResult[c] # "none" => callResult'[c] = callResult[c]
  <1> DEFINE Goal ==
         /\ \A d \in Goroutines \ {c} :
              /\ serve'[d] = serve[d] /\ shutdown'[d] = shutdown[d]
              /\ stopper'[d] = stopper[d] /\ callResult'[d] = callResult[d]
              /\ cut'[d] = cut[d]
         /\ ~(serve[c] = "none" /\ shutdown[c] = "none" /\ stopper[c] = "none")
         /\ callResult[c] # "none" => callResult'[c] = callResult[c]
  <1> USE DEF LP!TypeOK, LP!Goto, LP!objVars, LP!BothDone
  <1>1. ASSUME LP!ServeClosed(c) PROVE Goal
    BY <1>1 DEF LP!ServeClosed
  <1>2. ASSUME LP!Listen(c) PROVE Goal
    BY <1>2 DEF LP!Listen
  <1>3. ASSUME LP!ListenFails(c) PROVE Goal
    BY <1>3 DEF LP!ListenFails
  <1>4. ASSUME LP!Track(c) PROVE Goal
    BY <1>4 DEF LP!Track
  <1>5. ASSUME LP!AcceptFails(c) PROVE Goal
    BY <1>5 DEF LP!AcceptFails
  <1>6. ASSUME LP!AcceptClosed(c) PROVE Goal
    BY <1>6 DEF LP!AcceptClosed
  <1>7. ASSUME LP!ServeExits(c) PROVE Goal
    BY <1>7 DEF LP!ServeExits
  <1>8. ASSUME LP!BeginShutdown(c) PROVE Goal
    BY <1>8 DEF LP!BeginShutdown
  <1>9. ASSUME LP!ShutdownEnds(c) PROVE Goal
    BY <1>9 DEF LP!ShutdownEnds
  <1>10. ASSUME LP!Deadline(c) PROVE Goal
    BY <1>10 DEF LP!Deadline
  <1>11. ASSUME LP!ForcedStop(c) PROVE Goal
    BY <1>11 DEF LP!ForcedStop
  <1>12. ASSUME LP!GracefulStop(c) PROVE Goal
    BY <1>12 DEF LP!GracefulStop
  <1>13. ASSUME LP!GracefulStopEnds(c) PROVE Goal
    BY <1>13 DEF LP!GracefulStopEnds
  <1>14. ASSUME LP!Return(c) PROVE Goal
    BY <1>14 DEF LP!Return
  <1>15. QED
    BY <1>1, <1>2, <1>3, <1>4, <1>5, <1>6, <1>7, <1>8, <1>9, <1>10, <1>11, <1>12,
       <1>13, <1>14
       DEF LP!CallStep, LP!ServeStep, LP!ShutdownStep, LP!StopperStep

(* The link is kept. *)
LEMMA LinkStep == ASSUME TypeOK, LP!TypeOK, LinkInv, [KitNext]_kitVars PROVE LinkInv'
  <1>1. ASSUME ServerStep PROVE LinkInv'
    <2> USE DEF LinkInv, TypeOK, listenerVars
    <2>1. UNCHANGED listenerVars
      BY <1>1 DEF ServerStep
    <2>2. ASSUME NEW s \in Serves, NEW n \in Names, StartListener(s, n),
                 NEW t \in Serves, NEW m \in Names
          PROVE  Link(t, m)'
      <3>1. call'[t][m] = "running" \/ call'[t][m] = call[t][m]
        BY <2>2 DEF StartListener
      <3>2. Link(t, m)
        OBVIOUS
      <3>3. QED
        BY <2>1, <3>1, <3>2 DEF Link
    <2>3. ASSUME UNCHANGED call PROVE LinkInv'
      BY <2>1, <2>3 DEF Link
    <2>4. QED
      BY <1>1, <2>2, <2>3
         DEF ServerStep, Lock, RegisterListener, Serve, AllStarted, Wait, Cancel
  <1>2. ASSUME NEW s \in Serves, NEW n \in Names, CallServe(s, n) PROVE LinkInv'
    <2>1. LP!CallServe(<<s, n>>) /\ call[s][n] = "running" /\ UNCHANGED call
      BY <1>2, SameCallServe DEF CallServe, Goroutines, vars
    <2>2. \A d \in Goroutines \ {<<s, n>>} :
             /\ serve'[d] = serve[d] /\ shutdown'[d] = shutdown[d]
             /\ stopper'[d] = stopper[d] /\ callResult'[d] = callResult[d]
             /\ cut'[d] = cut[d]
      BY <2>1 DEF LP!CallServe, LP!Serve, LP!ServeInvalid, LP!Goto, LP!objVars, LP!TypeOK
    <2>3. ASSUME NEW t \in Serves, NEW m \in Names, <<t, m>> # <<s, n>> PROVE Link(t, m)'
      <3>1. Link(t, m) /\ <<t, m>> \in Goroutines
        BY DEF LinkInv, Goroutines
      <3>2. QED
        BY <2>1, <2>2, <2>3, <3>1 DEF Link
    <2>4. Link(s, n)'
      BY <2>1 DEF Link
    <2>5. QED
      BY <2>3, <2>4 DEF LinkInv
  <1>3. ASSUME NEW c \in Goroutines, ListenerStep(c) PROVE LinkInv'
    <2>1. LP!CallStep(c) /\ UNCHANGED call
      BY <1>3, SameCallStep DEF ListenerStep, vars
    <2>2. ASSUME NEW t \in Serves, NEW m \in Names PROVE Link(t, m)'
      <3>1. Link(t, m) /\ <<t, m>> \in Goroutines
        BY DEF LinkInv, Goroutines
      <3>2. CASE c = <<t, m>>
        BY <2>1, <3>1, <3>2, CallStepLocal DEF Link
      <3>3. CASE c # <<t, m>>
        BY <2>1, <3>1, <3>3, CallStepLocal DEF Link
      <3>4. QED
        BY <3>2, <3>3
    <2>3. QED
      BY <2>2 DEF LinkInv
  <1>4. ASSUME ClientStep PROVE LinkInv'
    <2>1. UNCHANGED <<call, serve, shutdown, stopper, callResult, cut>>
      BY <1>4, SameClientStep
         DEF ClientStep, vars, LP!ClientStep, LP!Request, LP!Finish, LP!callVars
    <2>2. QED
      BY <2>1 DEF LinkInv, Link
  <1>5. ASSUME NEW s \in Serves, NEW n \in Names, GoroutineEnds(s, n) PROVE LinkInv'
    <2>1. UNCHANGED <<serve, shutdown, stopper, callResult, cut>>
      BY <1>5 DEF GoroutineEnds, listenerVars
    <2>2. \/ callResult[<<s, n>>] = "nil" /\ call' = [call EXCEPT ![s][n] = "ok"]
          \/ /\ callResult[<<s, n>>] \notin {"none", "nil"}
             /\ call' = [call EXCEPT ![s][n] = "failed"]
      BY <1>5 DEF GoroutineEnds, ListenerReturns, ListenerFails
    <2>3. ASSUME NEW t \in Serves, NEW m \in Names, <<t, m>> # <<s, n>> PROVE Link(t, m)'
      <3>1. call'[t][m] = call[t][m]
        BY <2>2, <2>3 DEF TypeOK
      <3>2. Link(t, m)
        BY DEF LinkInv
      <3>3. QED
        BY <2>1, <3>1, <3>2 DEF Link
    <2>4. Link(s, n)'
      <3>1. \/ callResult[<<s, n>>] = "nil" /\ call'[s][n] = "ok"
            \/ callResult[<<s, n>>] \notin {"none", "nil"} /\ call'[s][n] = "failed"
        BY <2>2 DEF TypeOK
      <3>2. QED
        BY <2>1, <3>1 DEF Link
    <2>5. QED
      BY <2>3, <2>4 DEF LinkInv
  <1>6. ASSUME UNCHANGED kitVars PROVE LinkInv'
    BY <1>6 DEF kitVars, vars, listenerVars, LinkInv, Link
  <1>7. QED
    BY <1>1, <1>2, <1>3, <1>4, <1>5, <1>6 DEF KitNext

(* The link always holds. *)
LEMMA Linked == KitSpec => []LinkInv
  <1>1. KitInit => LinkInv
    <2>1. ASSUME KitInit, NEW s \in Serves, NEW n \in Names PROVE Link(s, n)
      <3>1. <<s, n>> \in Goroutines
        BY DEF Goroutines
      <3>2. QED
        BY <2>1, <3>1 DEF KitInit, Init, L!Init, Link
    <2>2. QED
      BY <2>1 DEF LinkInv
  <1>2. KitSpec => []TypeOK
    BY KitImplementsServer, TypeCorrect, PTL
  <1>3. KitSpec => []LP!TypeOK
    BY KitRunsListeners, LP!TypeCorrect, ListenerConstantsHold, PTL
  <1>4. QED
    BY <1>1, <1>2, <1>3, LinkStep, PTL DEF KitSpec

(* When Server.Serve returns, its listeners have stopped and are drained. *)
THEOREM ProgramMayExit == KitSpec => []ReturnedIsQuiet
  <1>1. ASSUME TypeOK, LP!TypeOK, LinkInv, NoOrphans, LP!ReturnMeansQuiet
        PROVE  ReturnedIsQuiet
    <2>1. SUFFICES ASSUME NEW s \in Serves, pc[s] = "returned", NEW n \in Names,
                          call[s][n] # "none", callResult[<<s, n>>] # "address"
                   PROVE  closing[Of[n]] /\ busy[Of[n]] = 0
      BY DEF ReturnedIsQuiet
    <2>2. <<s, n>> \in Goroutines
      BY DEF Goroutines
    <2>3. call[s][n] \in {"ok", "failed"}
      BY <1>1, <2>1 DEF NoOrphans, TypeOK
    <2>4. callResult[<<s, n>>] \in {"nil", "serve", "forced"}
      BY <1>1, <2>1, <2>2, <2>3 DEF LinkInv, Link, LP!TypeOK
    <2>5. QED
      BY <1>1, <2>2, <2>4 DEF LP!ReturnMeansQuiet
  <1>2. KitSpec => [](TypeOK /\ NoOrphans)
    BY KitImplementsServer, TypeCorrect, NoneLeftRunning, PTL
  <1>3. KitSpec => [](LP!TypeOK /\ LP!ReturnMeansQuiet)
    BY KitRunsListeners, LP!TypeCorrect, LP!QuietOnReturn, ListenerConstantsHold, PTL
  <1>4. QED
    BY <1>1, <1>2, <1>3, Linked, PTL

(* Server.Serve returns nil only if no request was cut off. *)
THEOREM NilIsGraceful == KitSpec => []NilMeansNothingCut
  <1>1. ASSUME TypeOK, LinkInv, IInv, LP!CutIsReported PROVE NilMeansNothingCut
    <2>1. SUFFICES ASSUME NEW s \in Serves, result[s] = "nil", NEW n \in Names
                   PROVE  ~cut[<<s, n>>]
      BY DEF NilMeansNothingCut
    <2>2. <<s, n>> \in Goroutines
      BY DEF Goroutines
    <2>3. call[s][n] \in {"none", "ok"}
      BY <1>1, <2>1 DEF IInv, TypeOK, ResultInv, ErrInv, NoOrphans
    <2>4. QED
      BY <1>1, <2>2, <2>3 DEF LinkInv, Link, LP!CutIsReported
  <1>2. KitSpec => [](TypeOK /\ IInv)
    BY KitImplementsServer, TypeCorrect, Inductive, PTL
  <1>3. KitSpec => []LP!CutIsReported
    BY KitRunsListeners, LP!CutsAreReported, ListenerConstantsHold, PTL
  <1>4. QED
    BY <1>1, <1>2, <1>3, Linked, PTL

(* What Server asks of its listeners, that they return when they are told  *)
(* to, the kit's can do: while the group of a Serve is told to stop and is *)
(* not done, a goroutine of it has a step to take, or waits for one that   *)
(* a call on the same listener has.                                        *)
ProgramGoesOn ==
    \A s \in Serves :
        pc[s] = "waiting" /\ ListenerCtxDone(s) =>
            \A n \in Names : call[s][n] = "running" =>
                \/ serve[<<s, n>>] = "none" /\ callResult[<<s, n>>] = "none"
                \/ callResult[<<s, n>>] # "none"
                \/ \E d \in Goroutines : Of[d[2]] = Of[n] /\ LP!Ready(d)

(* No goroutine of a Server that stops is ever stuck. *)
THEOREM ProgramIsNotStuck == KitSpec => []ProgramGoesOn
  <1>1. LP!NeverStuck => ProgramGoesOn
    <2> SUFFICES ASSUME LP!NeverStuck, NEW s \in Serves, ListenerCtxDone(s), NEW n \in Names,
                        serve[<<s, n>>] # "none", callResult[<<s, n>>] = "none"
                 PROVE  \E d \in Goroutines : Of[d[2]] = Of[n] /\ LP!Ready(d)
      BY DEF ProgramGoesOn
    <2>1. <<s, n>> \in Goroutines /\ ListenerCtx[<<s, n>>]
      BY DEF Goroutines, ListenerCtx
    <2>2. PICK d \in Goroutines : Of[d[2]] = Of[n] /\ LP!Ready(d)
      BY <2>1 DEF LP!NeverStuck, LP!ServeCtxDone, LP!Returned
    <2>3. QED
      BY <2>2
  <1>2. KitSpec => []LP!NeverStuck
    BY KitRunsListeners, LP!NobodyIsStuck, ListenerConstantsHold, PTL
  <1>3. QED
    BY <1>1, <1>2, PTL
=============================================================================
