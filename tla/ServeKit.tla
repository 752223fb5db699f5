------------------------------ MODULE ServeKit ------------------------------
(***************************************************************************)
(* The running program: a Server whose listeners are the kit's own.  Each  *)
(* goroutine that Server.Serve starts calls Serve of one listener; the     *)
(* context it passes is the errgroup's, so that a failure of one listener  *)
(* is the shutdown signal of the others.                                   *)
(*                                                                         *)
(* Server promises what it does for any listener that stops once its       *)
(* context is done.  Here that assumption is discharged: the composition   *)
(* implements Server's specification, fairness included.                   *)
(***************************************************************************)
EXTENDS Server, Naturals

CONSTANTS Of,        \* Of[n]: the listener that is registered as n
          Kind, HasAddr, MaxBusy

ASSUME ServeKitConstants ==
    /\ Of \in [Names -> Listeners]
    /\ Kind \in [Listeners -> {"http", "grpc"}]
    /\ HasAddr \in [Listeners -> BOOLEAN]
    /\ MaxBusy \in Nat

VARIABLES closing, stopped, busy, serve, shutdown, stopper, callErr, callResult, cut

listenerVars == <<closing, stopped, busy, serve, shutdown, stopper, callErr, callResult, cut>>
kitVars == <<vars, listenerVars>>

(* One goroutine for each name in each call of Server.Serve. *)
Goroutines == Serves \X Names

(* Mutant: the listeners get the context given to Serve, not the group's. *)
CallerCtx == [c \in Goroutines |-> cancelled[c[1]]]

(* The context every listener is given. *)
ListenerCtx == [c \in Goroutines |-> ListenerCtxDone(c[1])]

L == INSTANCE Listener WITH
        Calls <- Goroutines, Of <- [c \in Goroutines |-> Of[c[2]]],
        ctxDone <- ListenerCtx, groupErr <- callErr, result <- callResult

KitInit == Init /\ L!Init

-----------------------------------------------------------------------------
(* Server's own steps; each call of RegisterListener is about one name. *)
ServerStep ==
    /\ \/ \E r \in Registrars :
             Lock(r) \/ \E n \in Names : RegisterListener(r, n, Of[n])
       \/ \E s \in Serves :
             \/ Serve(s) \/ AllStarted(s) \/ Wait(s) \/ Cancel(s)
             \/ \E n \in Names : StartListener(s, n)
    /\ UNCHANGED listenerVars

(* The goroutine calls listener.Serve(listenerCtx). *)
CallServe(s, n) ==
    /\ call[s][n] = "running"
    /\ UNCHANGED vars
    /\ L!CallServe(<<s, n>>)

(* A step inside a listener. *)
ListenerStep(c) == UNCHANGED vars /\ L!CallStep(c)

ClientStep == UNCHANGED vars /\ \E l \in Listeners : L!ClientStep(l)

(* listener.Serve has returned: the goroutine ends with what it returned. *)
GoroutineEnds(s, n) ==
    /\ \/ callResult[<<s, n>>] = "nil" /\ ListenerReturns(s, n)
       \/ callResult[<<s, n>>] \notin {"none", "nil"} /\ ListenerFails(s, n)
    /\ UNCHANGED listenerVars

KitNext ==
    \/ ServerStep
    \/ ClientStep
    \/ \E s \in Serves, n \in Names : CallServe(s, n) \/ GoroutineEnds(s, n)
    \/ \E c \in Goroutines : ListenerStep(c)

KitSpec == KitInit /\ [][KitNext]_kitVars

(* As in Server and Listener; nothing is assumed of how a listener ends. *)
KitFairness ==
    /\ \A r \in Registrars :
          WF_kitVars((\E n \in Names : RegisterListener(r, n, Of[n])) /\ UNCHANGED listenerVars)
    /\ \A s \in Serves :
          /\ WF_kitVars(AllStarted(s) /\ UNCHANGED listenerVars)
          /\ WF_kitVars((\E n \in Names : StartListener(s, n)) /\ UNCHANGED listenerVars)
          /\ WF_kitVars(Wait(s) /\ UNCHANGED listenerVars)
          /\ \A n \in Names : WF_kitVars(CallServe(s, n)) /\ WF_kitVars(GoroutineEnds(s, n))
    /\ \A c \in Goroutines :
          /\ WF_kitVars(UNCHANGED vars /\ L!ServeStep(c))
          /\ WF_kitVars(UNCHANGED vars /\ L!ShutdownStep(c))
          /\ WF_kitVars(UNCHANGED vars /\ L!StopperStep(c))
          /\ WF_kitVars(UNCHANGED vars /\ L!Return(c))

FairKitSpec == KitSpec /\ KitFairness

-----------------------------------------------------------------------------
(* The kit's listeners meet Server's assumption: with HTTP and gRPC        *)
(* listeners whose requests may never end, Server behaves as specified,    *)
(* and each of its goroutines ends once the group's context is done.       *)
ImplementsServer == FairSpec

(* When Server.Serve returns, every listener it started has stopped        *)
(* taking requests and has none left, whichever of them ended the others   *)
(* and how: the program may exit.  Only a listener that refused to start   *)
(* is exempt.                                                              *)
ReturnedIsQuiet ==
    \A s \in Serves : pc[s] = "returned" =>
        \A n \in Names :
            \/ call[s][n] = "none" \/ callResult[<<s, n>>] = "address"
            \/ closing[Of[n]] /\ busy[Of[n]] = 0

(* Server.Serve returns nil only if none of its listeners had to close a   *)
(* connection under its request, even if that happened while the others    *)
(* were shutting down too.                                                 *)
NilMeansNothingCut ==
    \A s \in Serves : result[s] = "nil" => \A n \in Names : ~cut[<<s, n>>]
=============================================================================
