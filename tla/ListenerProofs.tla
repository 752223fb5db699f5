--------------------------- MODULE ListenerProofs ---------------------------
(***************************************************************************)
(* The safety of the kit's listeners, for any listeners, any calls of      *)
(* Serve on them (concurrent or one after the other) and any number of     *)
(* busy connections.                                                       *)
(***************************************************************************)
EXTENDS Listener, TLAPS

(* No new request is taken and none is being served. *)
Quiet(l) == closing[l] /\ busy[l] = 0

(* How far the goroutines of a call have brought the server: once          *)
(* handleShutdown has ended, in either way, the server is quiet.           *)
QuietInv ==
    \A c \in Calls :
        /\ shutdown[c] = "drain" /\ IsHTTP(c) => closing[Of[c]]
        /\ shutdown[c] = "force" => closing[Of[c]]
        /\ stopper[c] \in {"stopping", "done"} => closing[Of[c]]
        /\ stopper[c] = "done" => Quiet(Of[c])
        /\ shutdown[c] = "done" => Quiet(Of[c])

(* handleShutdown runs only for a reason, and a cut leaves an error in the *)
(* group.                                                                  *)
CauseInv ==
    \A c \in Calls :
        /\ shutdown[c] \in {"drain", "force", "done"} => ServeCtxDone(c)
        /\ cut[c] => groupErr[c] # "nil"

(* Serve returns what the group kept, when both goroutines have ended. *)
ReturnInv ==
    \A c \in Calls :
        result[c] \in {"nil", "serve", "forced"} => BothDone(c) /\ result[c] = groupErr[c]

IInv == TypeOK /\ QuietInv /\ CauseInv /\ ReturnInv

(* The initial state satisfies the inductive invariant. *)
LEMMA InitIInv == Init => IInv
  BY ListenerConstants
     DEF Init, IInv, TypeOK, QuietInv, CauseInv, ReturnInv

(* Every step keeps the types. *)
LEMMA TypeStep == ASSUME TypeOK, [Next]_vars PROVE TypeOK'
  <1> USE ListenerConstants DEF TypeOK, objVars
  <1>1. ASSUME NEW c \in Calls, ServeInvalid(c) PROVE TypeOK'
    BY <1>1 DEF ServeInvalid
  <1>2. ASSUME NEW c \in Calls, Serve(c) PROVE TypeOK'
    BY <1>2 DEF Serve, Goto
  <1>3. ASSUME NEW given \in SUBSET Calls, Cancel(given) PROVE TypeOK'
    BY <1>3 DEF Cancel
  <1>4. ASSUME NEW c \in Calls, ServeClosed(c) PROVE TypeOK'
    BY <1>4 DEF ServeClosed, Goto
  <1>5. ASSUME NEW c \in Calls, Listen(c) PROVE TypeOK'
    BY <1>5 DEF Listen, Goto
  <1>6. ASSUME NEW c \in Calls, ListenFails(c) PROVE TypeOK'
    BY <1>6 DEF ListenFails, Goto, Fail
  <1>7. ASSUME NEW c \in Calls, Track(c) PROVE TypeOK'
    BY <1>7 DEF Track, Goto
  <1>8. ASSUME NEW c \in Calls, AcceptFails(c) PROVE TypeOK'
    BY <1>8 DEF AcceptFails, Goto, Fail
  <1>9. ASSUME NEW c \in Calls, AcceptClosed(c) PROVE TypeOK'
    BY <1>9 DEF AcceptClosed, Goto
  <1>10. ASSUME NEW c \in Calls, ServeExits(c) PROVE TypeOK'
    BY <1>10 DEF ServeExits, Goto
  <1>11. ASSUME NEW c \in Calls, BeginShutdown(c) PROVE TypeOK'
    BY <1>11 DEF BeginShutdown, Goto
  <1>12. ASSUME NEW c \in Calls, GracefulStop(c) PROVE TypeOK'
    BY <1>12 DEF GracefulStop, Goto
  <1>13. ASSUME NEW c \in Calls, GracefulStopEnds(c) PROVE TypeOK'
    BY <1>13 DEF GracefulStopEnds, Goto
  <1>14. ASSUME NEW c \in Calls, ShutdownEnds(c) PROVE TypeOK'
    BY <1>14 DEF ShutdownEnds, Goto
  <1>15. ASSUME NEW c \in Calls, Deadline(c) PROVE TypeOK'
    BY <1>15 DEF Deadline, Goto
  <1>16. ASSUME NEW c \in Calls, ForcedStop(c) PROVE TypeOK'
    BY <1>16 DEF ForcedStop, Goto, Fail
  <1>17. ASSUME NEW c \in Calls, Return(c) PROVE TypeOK'
    BY <1>17 DEF Return, BothDone
  <1>18. ASSUME NEW l \in Listeners, Request(l) PROVE TypeOK'
    BY <1>18 DEF Request, callVars
  <1>19. ASSUME NEW l \in Listeners, Finish(l) PROVE TypeOK'
    BY <1>19 DEF Finish, callVars
  <1>20. CASE UNCHANGED vars
    BY <1>20 DEF vars
  <1>21. QED
    BY <1>1, <1>2, <1>3, <1>4, <1>5, <1>6, <1>7, <1>8, <1>9, <1>10,
       <1>11, <1>12, <1>13, <1>14, <1>15, <1>16, <1>17, <1>18, <1>19, <1>20
       DEF Next, CallServe, CallStep, ServeStep, ShutdownStep, StopperStep, ClientStep

(* Every step keeps the inductive invariant. *)
LEMMA StepIInv == ASSUME IInv, [Next]_vars PROVE IInv'
  <1>0. TypeOK /\ TypeOK'
    BY TypeStep DEF IInv
  <1> USE <1>0, ListenerConstants
      DEF IInv, TypeOK, QuietInv, CauseInv, ReturnInv, Quiet, BothDone,
          IsHTTP, IsGRPC, ServeCtxDone, objVars
  <1>1. ASSUME NEW c \in Calls, ServeInvalid(c) PROVE IInv'
    BY <1>1 DEF ServeInvalid
  <1>2. ASSUME NEW c \in Calls, Serve(c) PROVE IInv'
    BY <1>2 DEF Serve, Goto
  <1>3. ASSUME NEW given \in SUBSET Calls, Cancel(given) PROVE IInv'
    BY <1>3 DEF Cancel
  <1>4. ASSUME NEW c \in Calls, ServeClosed(c) PROVE IInv'
    BY <1>4 DEF ServeClosed, Goto
  <1>5. ASSUME NEW c \in Calls, Listen(c) PROVE IInv'
    BY <1>5 DEF Listen, Goto
  <1>6. ASSUME NEW c \in Calls, ListenFails(c) PROVE IInv'
    BY <1>6 DEF ListenFails, Goto, Fail
  <1>7. ASSUME NEW c \in Calls, Track(c) PROVE IInv'
    BY <1>7 DEF Track, Goto
  <1>8. ASSUME NEW c \in Calls, AcceptFails(c) PROVE IInv'
    BY <1>8 DEF AcceptFails, Goto, Fail
  <1>9. ASSUME NEW c \in Calls, AcceptClosed(c) PROVE IInv'
    BY <1>9 DEF AcceptClosed, Goto
  <1>10. ASSUME NEW c \in Calls, ServeExits(c) PROVE IInv'
    BY <1>10 DEF ServeExits, Goto
  <1>11. ASSUME NEW c \in Calls, BeginShutdown(c) PROVE IInv'
    <2>1. \A l \in Listeners : closing[l] => closing'[l]
      BY <1>11 DEF BeginShutdown, Goto
    <2>2. IsHTTP(c) => closing'[Of[c]]
      BY <1>11 DEF BeginShutdown, Goto
    <2>3. QuietInv'
      <3> SUFFICES ASSUME NEW d \in Calls
                   PROVE  /\ shutdown'[d] = "drain" /\ IsHTTP(d) => closing'[Of[d]]
                          /\ shutdown'[d] = "force" => closing'[Of[d]]
                          /\ stopper'[d] \in {"stopping", "done"} => closing'[Of[d]]
                          /\ stopper'[d] = "done" => closing'[Of[d]] /\ busy'[Of[d]] = 0
                          /\ shutdown'[d] = "done" => closing'[Of[d]] /\ busy'[Of[d]] = 0
        OBVIOUS
      <3>1. CASE d = c
        BY <1>11, <2>1, <2>2, <3>1 DEF BeginShutdown, Goto
      <3>2. CASE d # c
        BY <1>11, <2>1, <3>2 DEF BeginShutdown, Goto
      <3>3. QED
        BY <3>1, <3>2
    <2>4. (CauseInv /\ ReturnInv)'
      BY <1>11 DEF BeginShutdown, Goto
    <2>5. QED
      BY <2>3, <2>4
  <1>12. ASSUME NEW c \in Calls, GracefulStop(c) PROVE IInv'
    BY <1>12 DEF GracefulStop, Goto
  <1>13. ASSUME NEW c \in Calls, GracefulStopEnds(c) PROVE IInv'
    BY <1>13 DEF GracefulStopEnds, Goto
  <1>14. ASSUME NEW c \in Calls, ShutdownEnds(c) PROVE IInv'
    BY <1>14 DEF ShutdownEnds, Goto
  <1>15. ASSUME NEW c \in Calls, Deadline(c) PROVE IInv'
    BY <1>15 DEF Deadline, Goto
  <1>16. ASSUME NEW c \in Calls, ForcedStop(c) PROVE IInv'
    BY <1>16 DEF ForcedStop, Goto, Fail
  <1>17. ASSUME NEW c \in Calls, Return(c) PROVE IInv'
    BY <1>17 DEF Return, BothDone
  <1>18. ASSUME NEW l \in Listeners, Request(l) PROVE IInv'
    BY <1>18 DEF Request, callVars
  <1>19. ASSUME NEW l \in Listeners, Finish(l) PROVE IInv'
    BY <1>19 DEF Finish, callVars
  <1>20. CASE UNCHANGED vars
    BY <1>20 DEF vars
  <1>21. QED
    BY <1>1, <1>2, <1>3, <1>4, <1>5, <1>6, <1>7, <1>8, <1>9, <1>10,
       <1>11, <1>12, <1>13, <1>14, <1>15, <1>16, <1>17, <1>18, <1>19, <1>20
       DEF Next, CallServe, CallStep, ServeStep, ShutdownStep, StopperStep, ClientStep

(* The inductive invariant gives the properties TLC checks. *)
LEMMA IInvImplies == IInv => NilOnlyAfterCancel /\ ReturnMeansQuiet /\ CutIsReported
  BY DEF IInv, TypeOK, QuietInv, CauseInv, ReturnInv, Quiet, BothDone, ServeCtxDone,
         NilOnlyAfterCancel, ReturnMeansQuiet, CutIsReported

(* The inductive invariant holds of every behaviour. *)
THEOREM Inductive == Spec => []IInv
  BY InitIInv, StepIInv, PTL DEF Spec

(* Every variable of the listeners keeps its type. *)
THEOREM TypeCorrect == Spec => []TypeOK
  BY Inductive, PTL DEF IInv

(* Serve reports a clean shutdown only after its context was cancelled. *)
THEOREM NilAfterCancel == Spec => []NilOnlyAfterCancel
  BY Inductive, IInvImplies, PTL

(* Serve returns only when its server takes and serves no request. *)
THEOREM QuietOnReturn == Spec => []ReturnMeansQuiet
  BY Inductive, IInvImplies, PTL

(* A forced stop that cut requests off is never returned as nil. *)
THEOREM CutsAreReported == Spec => []CutIsReported
  BY Inductive, IInvImplies, PTL

-----------------------------------------------------------------------------
(* What the liveness of a call rests on.  That a call returns needs the    *)
(* fairness of its goroutines, which is beyond these proofs; that nothing  *)
(* but fairness is needed is not: each goroutine is ready exactly when its *)
(* step can be taken, stays so until it takes it, takes finitely many, and *)
(* a stopped call that has not returned is never without one to take.      *)

ServeReady(c) ==
    \/ serve[c] \in {"start", "bound"}
    \/ serve[c] = "accept" /\ closing[Of[c]]
    \/ serve[c] = "exit" /\ stopped[Of[c]]

ShutdownReady(c) ==
    \/ shutdown[c] = "wait" /\ ServeCtxDone(c)
    \/ shutdown[c] = "drain"
    \/ shutdown[c] = "force" /\ (IsGRPC(c) => ~Accepting(Of[c]))

StopperReady(c) ==
    \/ stopper[c] = "spawned"
    \/ stopper[c] = "stopping" /\ ~Accepting(Of[c]) /\ busy[Of[c]] = 0

ReturnReady(c) == ~Returned(c) /\ BothDone(c)

Ready(c) == ServeReady(c) \/ ShutdownReady(c) \/ StopperReady(c) \/ ReturnReady(c)

(* Whoever waits for a stop of the server waits for one that has begun.    *)
StopInv ==
    \A c \in Calls :
        /\ IsGRPC(c) /\ (stopper[c] = "done" \/ shutdown[c] = "done") => stopped[Of[c]]
        /\ serve[c] = "exit" => IsGRPC(c) /\ closing[Of[c]]
        /\ serve[c] = "none" <=> shutdown[c] = "none"

(* A server is closed by the shutdown of some call, and stops serving for  *)
(* that, or for an error that the group has.                               *)
ClosedInv ==
    /\ \A l \in Listeners :
          closing[l] => \E d \in Calls : Of[d] = l /\ shutdown[d] \notin {"none", "wait"}
    /\ \A c \in Calls :
          /\ stopper[c] # "none" => shutdown[c] \notin {"none", "wait"}
          /\ serve[c] = "done" => closing[Of[c]] \/ groupErr[c] # "nil"

LInv == IInv /\ StopInv /\ ClosedInv

(* A call whose context is done, or whose server failed, has a step to     *)
(* take, or waits for one that a call on the same listener has to take.    *)
NeverStuck ==
    \A c \in Calls :
        serve[c] # "none" /\ ServeCtxDone(c) /\ ~Returned(c) =>
            \E d \in Calls : Of[d] = Of[c] /\ Ready(d)

(* The end of a server is not missed: its call knows of it, or another     *)
(* call on the same listener has caused it.                                *)
EndIsNoticed ==
    \A c \in Calls : serve[c] = "done" => ServeCtxDone(c) \/ ShutByAnother(c)

(* Nobody takes a step away from a goroutine that is ready for it. *)
StaysReady ==
    [][\A c \in Calls :
          /\ ServeReady(c) => ServeReady(c)' \/ ServeStep(c)
          /\ ShutdownReady(c) => ShutdownReady(c)' \/ ShutdownStep(c)
          /\ StopperReady(c) => StopperReady(c)' \/ StopperStep(c)
          /\ ReturnReady(c) => ReturnReady(c)' \/ Return(c)]_vars

(* The steps that a call still has before it, at most. *)
ServeRank == [none |-> 5, start |-> 4, bound |-> 3, accept |-> 2, exit |-> 1, done |-> 0]
ShutdownRank == [none |-> 4, wait |-> 3, drain |-> 2, force |-> 1, done |-> 0]
StopperRank == [none |-> 3, spawned |-> 2, stopping |-> 1, done |-> 0]

Rank(c) ==
    ServeRank[serve[c]] + ShutdownRank[shutdown[c]] + StopperRank[stopper[c]]
        + (IF Returned(c) THEN 0 ELSE 1)

(* A step of a call brings it closer to its end, and no other step takes   *)
(* it further away.                                                        *)
StepsDescend ==
    [][\A c \in Calls :
          /\ Rank(c)' <= Rank(c)
          /\ CallServe(c) \/ CallStep(c) => Rank(c)' < Rank(c)]_vars

(* The states a call starts from. *)
LEMMA InitLInv == Init => LInv
  BY InitIInv, ListenerConstants DEF Init, LInv, StopInv, ClosedInv

(* Every step keeps what is known of the stops. *)
LEMMA StepLInv == ASSUME LInv, [Next]_vars PROVE LInv'
  <1>0. TypeOK /\ IInv /\ IInv' /\ QuietInv
    BY StepIInv DEF LInv, IInv
  <1> DEFINE Rest == StopInv /\ ClosedInv
  <1> USE <1>0, ListenerConstants
      DEF LInv, TypeOK, QuietInv, StopInv, ClosedInv, IsHTTP, IsGRPC, ServeCtxDone, objVars
  <1>1. ASSUME NEW c \in Calls, ServeInvalid(c) PROVE Rest'
    BY <1>1 DEF ServeInvalid
  <1>2. ASSUME NEW c \in Calls, Serve(c) PROVE Rest'
    BY <1>2 DEF Serve, Goto
  <1>3. ASSUME NEW given \in SUBSET Calls, Cancel(given) PROVE Rest'
    BY <1>3 DEF Cancel
  <1>4. ASSUME NEW c \in Calls, ServeClosed(c) PROVE Rest'
    BY <1>4 DEF ServeClosed, Goto
  <1>5. ASSUME NEW c \in Calls, Listen(c) PROVE Rest'
    BY <1>5 DEF Listen, Goto
  <1>6. ASSUME NEW c \in Calls, ListenFails(c) PROVE Rest'
    BY <1>6 DEF ListenFails, Goto, Fail
  <1>7. ASSUME NEW c \in Calls, Track(c) PROVE Rest'
    BY <1>7 DEF Track, Goto
  <1>8. ASSUME NEW c \in Calls, AcceptFails(c) PROVE Rest'
    BY <1>8 DEF AcceptFails, Goto, Fail
  <1>9. ASSUME NEW c \in Calls, AcceptClosed(c) PROVE Rest'
    BY <1>9 DEF AcceptClosed, Goto
  <1>10. ASSUME NEW c \in Calls, ServeExits(c) PROVE Rest'
    BY <1>10 DEF ServeExits, Goto
  <1>11. ASSUME NEW c \in Calls, BeginShutdown(c) PROVE Rest'
    BY <1>11 DEF BeginShutdown, Goto
  <1>12. ASSUME NEW c \in Calls, GracefulStop(c) PROVE Rest'
    BY <1>12 DEF GracefulStop, Goto
  <1>13. ASSUME NEW c \in Calls, GracefulStopEnds(c) PROVE Rest'
    BY <1>13 DEF GracefulStopEnds, Goto
  <1>14. ASSUME NEW c \in Calls, ShutdownEnds(c) PROVE Rest'
    BY <1>14 DEF ShutdownEnds, Goto
  <1>15. ASSUME NEW c \in Calls, Deadline(c) PROVE Rest'
    BY <1>15 DEF Deadline, Goto
  <1>16. ASSUME NEW c \in Calls, ForcedStop(c) PROVE Rest'
    BY <1>16 DEF ForcedStop, Goto, Fail
  <1>17. ASSUME NEW c \in Calls, Return(c) PROVE Rest'
    BY <1>17 DEF Return, BothDone
  <1>18. ASSUME NEW l \in Listeners, ClientStep(l) PROVE Rest'
    BY <1>18 DEF ClientStep, Request, Finish, callVars
  <1>19. CASE UNCHANGED vars
    BY <1>19 DEF vars
  <1>20. QED
    BY <1>1, <1>2, <1>3, <1>4, <1>5, <1>6, <1>7, <1>8, <1>9, <1>10,
       <1>11, <1>12, <1>13, <1>14, <1>15, <1>16, <1>17, <1>18, <1>19
       DEF Next, CallServe, CallStep, ServeStep, ShutdownStep, StopperStep

THEOREM StopsInductive == Spec => []LInv
  BY InitLInv, StepLInv, PTL DEF Spec

(* A stopped call is never without a step to take, its own or that of a    *)
(* call whose accept loop the stop of their server waits for.              *)
THEOREM NobodyIsStuck == Spec => []NeverStuck
  <1>1. LInv => NeverStuck
    <2> SUFFICES ASSUME LInv, NEW c \in Calls,
                        serve[c] # "none", ServeCtxDone(c), ~Returned(c)
                 PROVE  \E d \in Calls : Of[d] = Of[c] /\ Ready(d)
      BY DEF NeverStuck
    <2> USE DEF LInv, IInv, TypeOK, StopInv, QuietInv, Quiet, Ready
    <2>1. CASE shutdown[c] \in {"wait", "drain"}
      BY <2>1 DEF ShutdownReady
    <2>2. CASE shutdown[c] = "force"
      <3>1. CASE Accepting(Of[c])
        <4>1. PICK d \in Calls : Of[d] = Of[c] /\ serve[d] = "accept"
          BY <3>1 DEF Accepting
        <4>2. ServeReady(d)
          BY <2>2, <4>1 DEF ServeReady
        <4>3. QED
          BY <4>1, <4>2
      <3>2. CASE ~Accepting(Of[c])
        BY <2>2, <3>2 DEF ShutdownReady
      <3>3. QED
        BY <3>1, <3>2
    <2>3. CASE shutdown[c] = "done"
      <3>1. closing[Of[c]] /\ (IsGRPC(c) => stopped[Of[c]])
        BY <2>3
      <3>2. CASE serve[c] = "done"
        BY <2>3, <3>2 DEF ReturnReady, BothDone
      <3>3. CASE serve[c] \in {"start", "bound", "accept", "exit"}
        BY <3>1, <3>3 DEF ServeReady
      <3>4. QED
        BY <3>2, <3>3
    <2>4. QED
      BY <2>1, <2>2, <2>3
  <1>2. QED
    BY StopsInductive, <1>1, PTL

(* A server does not stop serving unnoticed. *)
THEOREM EndsAreNoticed == Spec => []EndIsNoticed
  <1>1. LInv => EndIsNoticed
    <2> SUFFICES ASSUME LInv, NEW c \in Calls, serve[c] = "done", ~ServeCtxDone(c)
                 PROVE  ShutByAnother(c)
      BY DEF EndIsNoticed
    <2>1. closing[Of[c]] /\ Of[c] \in Listeners
      BY ListenerConstants DEF LInv, ClosedInv, ServeCtxDone
    <2>2. PICK d \in Calls : Of[d] = Of[c] /\ shutdown[d] \notin {"none", "wait"}
      BY <2>1 DEF LInv, ClosedInv
    <2>3. d # c
      BY <2>2 DEF LInv, IInv, TypeOK, CauseInv
    <2>4. QED
      BY <2>2, <2>3 DEF ShutByAnother
  <1>2. QED
    BY StopsInductive, <1>1, PTL

(* What is done to a server, or known to a call, stays; a server that is   *)
(* closed takes no Serve and no request any more.                          *)
LEMMA NothingIsUndone ==
    ASSUME LInv, [Next]_vars
    PROVE  /\ \A l \in Listeners :
                 /\ closing[l] => closing'[l]
                 /\ stopped[l] => stopped'[l]
                 /\ closing[l] /\ ~Accepting(l) => ~Accepting(l)'
                 /\ closing[l] /\ busy[l] = 0 => busy'[l] = 0
           /\ \A c \in Calls : ServeCtxDone(c) => ServeCtxDone(c)'
  <1> DEFINE Kept ==
          /\ \A l \in Listeners :
                /\ closing[l] => closing'[l]
                /\ stopped[l] => stopped'[l]
                /\ closing[l] /\ ~Accepting(l) => ~Accepting(l)'
                /\ closing[l] /\ busy[l] = 0 => busy'[l] = 0
          /\ \A c \in Calls : ServeCtxDone(c) => ServeCtxDone(c)'
  <1>0. TypeOK
    BY DEF LInv, IInv
  <1> USE <1>0, ListenerConstants DEF TypeOK, Accepting, ServeCtxDone, objVars, Goto, Fail
  <1>1. ASSUME NEW c \in Calls, CallServe(c) PROVE Kept
    BY <1>1 DEF CallServe, Serve, ServeInvalid
  <1>2. ASSUME NEW given \in SUBSET Calls, Cancel(given) PROVE Kept
    BY <1>2 DEF Cancel
  <1>3. ASSUME NEW c \in Calls, ServeClosed(c) \/ AcceptClosed(c) \/ ServeExits(c) PROVE Kept
    BY <1>3 DEF ServeClosed, AcceptClosed, ServeExits
  <1>4. ASSUME NEW c \in Calls, Listen(c) \/ Track(c) PROVE Kept
    BY <1>4 DEF Listen, Track
  <1>5. ASSUME NEW c \in Calls, ListenFails(c) \/ AcceptFails(c) PROVE Kept
    BY <1>5 DEF ListenFails, AcceptFails
  <1>6. ASSUME NEW c \in Calls, BeginShutdown(c) PROVE Kept
    BY <1>6 DEF BeginShutdown
  <1>7. ASSUME NEW c \in Calls, StopperStep(c) PROVE Kept
    BY <1>7 DEF StopperStep, GracefulStop, GracefulStopEnds
  <1>8. ASSUME NEW c \in Calls, ShutdownEnds(c) \/ Deadline(c) PROVE Kept
    BY <1>8 DEF ShutdownEnds, Deadline
  <1>9. ASSUME NEW c \in Calls, ForcedStop(c) PROVE Kept
    BY <1>9 DEF ForcedStop
  <1>10. ASSUME NEW c \in Calls, Return(c) PROVE Kept
    BY <1>10 DEF Return
  <1>11. ASSUME NEW l \in Listeners, ClientStep(l) PROVE Kept
    BY <1>11 DEF ClientStep, Request, Finish, callVars
  <1>12. CASE UNCHANGED vars
    BY <1>12 DEF vars
  <1>13. QED
    BY <1>1, <1>2, <1>3, <1>4, <1>5, <1>6, <1>7, <1>8, <1>9, <1>10, <1>11, <1>12
       DEF Next, CallStep, ServeStep, ShutdownStep

(* Each goroutine is moved by its own steps only. *)
LEMMA OwnSteps ==
    ASSUME LInv, [Next]_vars, NEW c \in Calls
    PROVE  /\ serve'[c] = serve[c] \/ CallServe(c) \/ ServeStep(c) \/ AcceptFails(c)
           /\ shutdown'[c] = shutdown[c] \/ CallServe(c) \/ ShutdownStep(c)
           /\ stopper'[c] = stopper[c] \/ BeginShutdown(c) \/ StopperStep(c)
           /\ result'[c] = result[c] \/ CallServe(c) \/ Return(c)
  <1> DEFINE Own ==
          /\ serve'[c] = serve[c] \/ CallServe(c) \/ ServeStep(c) \/ AcceptFails(c)
          /\ shutdown'[c] = shutdown[c] \/ CallServe(c) \/ ShutdownStep(c)
          /\ stopper'[c] = stopper[c] \/ BeginShutdown(c) \/ StopperStep(c)
          /\ result'[c] = result[c] \/ CallServe(c) \/ Return(c)
  <1>0. TypeOK
    BY DEF LInv, IInv
  <1> USE <1>0 DEF TypeOK, objVars, Goto
  <1>1. ASSUME NEW d \in Calls, CallServe(d) PROVE Own
    <2>1. CASE d = c
      <3>1. stopper' = stopper
        BY <1>1 DEF CallServe, Serve, ServeInvalid
      <3>2. QED
        BY <1>1, <2>1, <3>1
    <2>2. CASE d # c
      BY <1>1, <2>2 DEF CallServe, Serve, ServeInvalid
    <2>3. QED
      BY <2>1, <2>2
  <1>2. ASSUME NEW d \in Calls, ServeStep(d) \/ AcceptFails(d) PROVE Own
    <2>1. /\ UNCHANGED <<shutdown, stopper, result>>
          /\ d # c => serve'[c] = serve[c]
      BY <1>2 DEF ServeStep, AcceptFails, ServeClosed, Listen, ListenFails, Track,
                  AcceptClosed, ServeExits
    <2>2. QED
      BY <1>2, <2>1
  <1>3. ASSUME NEW d \in Calls, ShutdownStep(d) PROVE Own
    <2>1. /\ UNCHANGED <<serve, result>>
          /\ d # c => shutdown'[c] = shutdown[c] /\ stopper'[c] = stopper[c]
          /\ stopper' = stopper \/ BeginShutdown(d)
      BY <1>3 DEF ShutdownStep, BeginShutdown, ShutdownEnds, Deadline, ForcedStop
    <2>2. QED
      BY <1>3, <2>1
  <1>4. ASSUME NEW d \in Calls, StopperStep(d) PROVE Own
    <2>1. /\ UNCHANGED <<serve, shutdown, result>>
          /\ d # c => stopper'[c] = stopper[c]
      BY <1>4 DEF StopperStep, GracefulStop, GracefulStopEnds
    <2>2. QED
      BY <1>4, <2>1
  <1>5. ASSUME NEW d \in Calls, Return(d) PROVE Own
    <2>1. /\ UNCHANGED <<serve, shutdown, stopper>>
          /\ d # c => result'[c] = result[c]
      BY <1>5 DEF Return
    <2>2. QED
      BY <1>5, <2>1
  <1>6. CASE (\E given \in SUBSET Calls : Cancel(given)) \/ UNCHANGED vars
    BY <1>6 DEF Cancel, vars
  <1>7. ASSUME NEW l \in Listeners, ClientStep(l) PROVE Own
    BY <1>7 DEF ClientStep, Request, Finish, callVars
  <1>8. QED
    BY <1>1, <1>2, <1>3, <1>4, <1>5, <1>6, <1>7 DEF Next, CallStep

(* A goroutine that is ready stays so until it takes its step. *)
THEOREM ReadinessStays == Spec => StaysReady
  <1>1. ASSUME LInv, [Next]_vars, NEW c \in Calls
        PROVE  /\ ServeReady(c) => ServeReady(c)' \/ ServeStep(c)
               /\ ShutdownReady(c) => ShutdownReady(c)' \/ ShutdownStep(c)
               /\ StopperReady(c) => StopperReady(c)' \/ StopperStep(c)
               /\ ReturnReady(c) => ReturnReady(c)' \/ Return(c)
    <2>1. Of[c] \in Listeners
      BY <1>1, ListenerConstants
    <2>2. /\ shutdown[c] = "force" => closing[Of[c]]
          /\ stopper[c] \in {"stopping", "done"} => closing[Of[c]]
          /\ serve[c] = "none" <=> shutdown[c] = "none"
          /\ stopper[c] # "none" => shutdown[c] \notin {"none", "wait"}
      BY <1>1 DEF LInv, IInv, QuietInv, StopInv, ClosedInv
    <2>3. CallServe(c) => serve[c] = "none" /\ ~Returned(c)
      BY DEF CallServe, Serve, ServeInvalid, Returned
    <2>4. ServeReady(c) => ServeReady(c)' \/ ServeStep(c)
      <3> SUFFICES ASSUME ServeReady(c), ~ServeStep(c) PROVE ServeReady(c)'
        OBVIOUS
      <3>1. ~AcceptFails(c) /\ serve[c] # "none"
        BY DEF ServeReady, AcceptFails
      <3>2. serve'[c] = serve[c]
        BY <1>1, <2>3, <3>1, OwnSteps
      <3>3. QED
        BY <1>1, <2>1, <3>2, NothingIsUndone DEF ServeReady
    <2>5. ShutdownReady(c) => ShutdownReady(c)' \/ ShutdownStep(c)
      <3> SUFFICES ASSUME ShutdownReady(c), ~ShutdownStep(c) PROVE ShutdownReady(c)'
        OBVIOUS
      <3>1. shutdown[c] # "none"
        BY DEF ShutdownReady
      <3>2. shutdown'[c] = shutdown[c]
        BY <1>1, <2>2, <2>3, <3>1, OwnSteps
      <3>3. QED
        BY <1>1, <2>1, <2>2, <3>2, NothingIsUndone DEF ShutdownReady, IsGRPC
    <2>6. StopperReady(c) => StopperReady(c)' \/ StopperStep(c)
      <3> SUFFICES ASSUME StopperReady(c), ~StopperStep(c) PROVE StopperReady(c)'
        OBVIOUS
      <3>1. stopper[c] # "none" /\ ~BeginShutdown(c)
        BY <2>2 DEF StopperReady, BeginShutdown
      <3>2. stopper'[c] = stopper[c]
        BY <1>1, <3>1, OwnSteps
      <3>3. QED
        BY <1>1, <2>1, <2>2, <3>2, NothingIsUndone DEF StopperReady
    <2>7. ReturnReady(c) => ReturnReady(c)' \/ Return(c)
      <3> SUFFICES ASSUME ReturnReady(c), ~Return(c) PROVE ReturnReady(c)'
        OBVIOUS
      <3>1. serve[c] = "done" /\ shutdown[c] = "done" /\ ~Returned(c)
        BY DEF ReturnReady, BothDone
      <3>2. ~CallServe(c) /\ ~ServeStep(c) /\ ~AcceptFails(c) /\ ~ShutdownStep(c)
        BY <2>3, <3>1
           DEF ServeStep, ServeClosed, Listen, ListenFails, Track, AcceptClosed, ServeExits,
               AcceptFails, ShutdownStep, BeginShutdown, ShutdownEnds, Deadline, ForcedStop
      <3>3. serve'[c] = serve[c] /\ shutdown'[c] = shutdown[c] /\ result'[c] = result[c]
        BY <1>1, <3>2, OwnSteps
      <3>4. QED
        BY <3>1, <3>3 DEF ReturnReady, BothDone, Returned
    <2>8. QED
      BY <2>4, <2>5, <2>6, <2>7
  <1>2. LInv /\ [Next]_vars =>
           [\A c \in Calls :
              /\ ServeReady(c) => ServeReady(c)' \/ ServeStep(c)
              /\ ShutdownReady(c) => ShutdownReady(c)' \/ ShutdownStep(c)
              /\ StopperReady(c) => StopperReady(c)' \/ StopperStep(c)
              /\ ReturnReady(c) => ReturnReady(c)' \/ Return(c)]_vars
    BY <1>1
  <1>3. QED
    BY StopsInductive, <1>2, PTL DEF Spec, StaysReady

(* A step of a call lowers its rank, and leaves those of the others. *)
LEMMA OwnStepsDescend ==
    ASSUME LInv, NEW d \in Calls, CallServe(d) \/ CallStep(d)
    PROVE  Rank(d)' < Rank(d) /\ \A c \in Calls \ {d} : Rank(c)' = Rank(c)
  <1> DEFINE Descends == Rank(d)' < Rank(d) /\ \A c \in Calls \ {d} : Rank(c)' = Rank(c)
  <1>0. TypeOK
    BY DEF LInv, IInv
  <1>1. serve[d] = "none" <=> shutdown[d] = "none"
    BY DEF LInv, StopInv
  <1>2. stopper[d] # "none" => shutdown[d] \notin {"none", "wait"}
    BY DEF LInv, ClosedInv
  <1> USE <1>0, <1>1, <1>2
      DEF TypeOK, Rank, ServeRank, ShutdownRank, StopperRank, Returned, Goto
  <1>3. ASSUME ServeInvalid(d) PROVE Descends
    BY <1>3 DEF ServeInvalid
  <1>4. ASSUME Serve(d) PROVE Descends
    BY <1>4 DEF Serve
  <1>5. ASSUME ServeClosed(d) PROVE Descends
    BY <1>5 DEF ServeClosed
  <1>6. ASSUME Listen(d) PROVE Descends
    BY <1>6 DEF Listen
  <1>7. ASSUME ListenFails(d) PROVE Descends
    BY <1>7 DEF ListenFails
  <1>8. ASSUME Track(d) PROVE Descends
    BY <1>8 DEF Track
  <1>9. ASSUME AcceptFails(d) PROVE Descends
    BY <1>9 DEF AcceptFails
  <1>10. ASSUME AcceptClosed(d) PROVE Descends
    BY <1>10 DEF AcceptClosed
  <1>11. ASSUME ServeExits(d) PROVE Descends
    BY <1>11 DEF ServeExits
  <1>12. ASSUME BeginShutdown(d) PROVE Descends
    BY <1>12 DEF BeginShutdown
  <1>13. ASSUME GracefulStop(d) PROVE Descends
    BY <1>13 DEF GracefulStop
  <1>14. ASSUME GracefulStopEnds(d) PROVE Descends
    BY <1>14 DEF GracefulStopEnds
  <1>15. ASSUME ShutdownEnds(d) PROVE Descends
    BY <1>15 DEF ShutdownEnds
  <1>16. ASSUME Deadline(d) PROVE Descends
    BY <1>16 DEF Deadline
  <1>17. ASSUME ForcedStop(d) PROVE Descends
    BY <1>17 DEF ForcedStop
  <1>18. ASSUME Return(d) PROVE Descends
    BY <1>18 DEF Return
  <1>19. QED
    BY <1>3, <1>4, <1>5, <1>6, <1>7, <1>8, <1>9, <1>10, <1>11, <1>12, <1>13, <1>14,
       <1>15, <1>16, <1>17, <1>18
       DEF CallServe, CallStep, ServeStep, ShutdownStep, StopperStep

(* The rank is a number, so that no call goes on for ever. *)
LEMMA RankIsANumber == LInv => \A c \in Calls : Rank(c) \in 0 .. 13
  BY DEF LInv, IInv, TypeOK, Rank, ServeRank, ShutdownRank, StopperRank

(* A call takes finitely many steps, whatever the others do. *)
THEOREM StepsAreFinite == Spec => StepsDescend
  <1>1. ASSUME LInv, LInv', [Next]_vars, NEW c \in Calls
        PROVE  /\ Rank(c)' <= Rank(c)
               /\ CallServe(c) \/ CallStep(c) => Rank(c)' < Rank(c)
    <2>1. Rank(c) \in 0 .. 13 /\ Rank(c)' \in 0 .. 13
      <3>1. Rank(c)' \in 0 .. 13
        BY <1>1 DEF LInv, IInv, TypeOK, Rank, ServeRank, ShutdownRank, StopperRank
      <3>2. QED
        BY <1>1, <3>1, RankIsANumber
    <2>2. CallServe(c) \/ CallStep(c) => Rank(c)' < Rank(c)
      BY <1>1, OwnStepsDescend
    <2>3. Rank(c)' = Rank(c) \/ CallServe(c) \/ CallStep(c)
      <3>1. ASSUME NEW d \in Calls, d # c, CallServe(d) \/ CallStep(d)
            PROVE  Rank(c)' = Rank(c)
        BY <1>1, <3>1, OwnStepsDescend
      <3>2. ASSUME UNCHANGED <<serve, shutdown, stopper, result>> PROVE Rank(c)' = Rank(c)
        BY <3>2 DEF Rank, Returned
      <3>3. ASSUME NEW given \in SUBSET Calls, Cancel(given) PROVE Rank(c)' = Rank(c)
        BY <3>2, <3>3 DEF Cancel
      <3>4. ASSUME NEW l \in Listeners, ClientStep(l) PROVE Rank(c)' = Rank(c)
        BY <3>2, <3>4 DEF ClientStep, Request, Finish, callVars
      <3>5. ASSUME UNCHANGED vars PROVE Rank(c)' = Rank(c)
        BY <3>2, <3>5 DEF vars
      <3>6. QED
        BY <1>1, <3>1, <3>3, <3>4, <3>5 DEF Next
    <2>4. QED
      BY <2>1, <2>2, <2>3
  <1>2. LInv /\ LInv' /\ [Next]_vars =>
           [\A c \in Calls :
              /\ Rank(c)' <= Rank(c)
              /\ CallServe(c) \/ CallStep(c) => Rank(c)' < Rank(c)]_vars
    BY <1>1
  <1>3. QED
    BY StopsInductive, <1>2, PTL DEF Spec, StepsDescend
=============================================================================
