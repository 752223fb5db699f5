------------------------------ MODULE Listener ------------------------------
(***************************************************************************)
(* The kit's listeners, httpkit.ListenerHTTP and grpckit.ListenerGRPC.     *)
(*                                                                         *)
(* A call of Serve runs two goroutines in an errgroup: one serves, the     *)
(* other waits for the group's context and then shuts the server down,     *)
(* gracefully within shutdownTimeout and by force after it.  The calls may *)
(* share a listener object: nothing in the code stops a second Serve, at   *)
(* the same time or later.                                                 *)
(*                                                                         *)
(* net/http's and grpc-go's servers are external: they are modelled from   *)
(* the calls the listeners make on them.                                   *)
(***************************************************************************)
EXTENDS Naturals

CONSTANTS Listeners,   \* the listener objects
          Calls,       \* the calls of Serve
          Of,          \* Of[c]: the listener that c calls
          Kind,        \* Kind[l]: "http" or "grpc"
          HasAddr,     \* HasAddr[l]: l.server.Addr is not empty
          MaxBusy      \* bound: connections with a request on them, per listener

ASSUME ListenerConstants ==
    /\ Of \in [Calls -> Listeners]
    /\ Kind \in [Listeners -> {"http", "grpc"}]
    /\ HasAddr \in [Listeners -> BOOLEAN]
    /\ MaxBusy \in Nat

VARIABLES
    \* The server object of each listener.
    closing,    \* closing[l]: inShutdown (http), quit (grpc): no new connection
    stopped,    \* stopped[l]: grpc's done event: a stop of the server has ended
    busy,       \* busy[l]: the connections that carry a request
    \* Each call of Serve.
    ctxDone,    \* ctxDone[c]: the context given to c is done
    serve,      \* serve[c]: the goroutine that serves
    shutdown,   \* shutdown[c]: the goroutine that runs handleShutdown
    stopper,    \* stopper[c]: grpc: the goroutine that runs GracefulStop
    groupErr,   \* groupErr[c]: the errgroup's first error
    result,     \* result[c]: what Serve returned
    cut         \* cut[c]: history: c's forced stop closed busy connections

objVars == <<closing, stopped, busy>>
callVars == <<ctxDone, serve, shutdown, stopper, groupErr, result, cut>>
vars == <<closing, stopped, busy, ctxDone, serve, shutdown, stopper, groupErr, result, cut>>

Init ==
    /\ closing = [l \in Listeners |-> FALSE]
    /\ stopped = [l \in Listeners |-> FALSE]
    /\ busy = [l \in Listeners |-> 0]
    /\ ctxDone = [c \in Calls |-> FALSE]
    /\ serve = [c \in Calls |-> "none"]
    /\ shutdown = [c \in Calls |-> "none"]
    /\ stopper = [c \in Calls |-> "none"]
    /\ groupErr = [c \in Calls |-> "nil"]
    /\ result = [c \in Calls |-> "none"]
    /\ cut = [c \in Calls |-> FALSE]

-----------------------------------------------------------------------------
IsHTTP(c) == Kind[Of[c]] = "http"
IsGRPC(c) == Kind[Of[c]] = "grpc"

(* serveCtx: the errgroup's context. *)
ServeCtxDone(c) == ctxDone[c] \/ groupErr[c] # "nil"

(* A goroutine of the group returned the error e: errOnce keeps the first. *)
Fail(c, e) == groupErr' = [groupErr EXCEPT ![c] = IF @ = "nil" THEN e ELSE @]

Accepting(l) == \E c \in Calls : Of[c] = l /\ serve[c] = "accept"

Goto(f, x, where) == [f EXCEPT ![x] = where]

-----------------------------------------------------------------------------
(* ListenerHTTP.Serve refuses an empty address before it starts anything;  *)
(* a gRPC listener was bound when it was made.                             *)
ServeInvalid(c) ==
    /\ serve[c] = "none"
    /\ result[c] = "none"
    /\ IsHTTP(c)
    /\ ~HasAddr[Of[c]]
    /\ result' = [result EXCEPT ![c] = "address"]
    /\ UNCHANGED <<objVars, ctxDone, serve, shutdown, stopper, groupErr, cut>>

(* Serve: the errgroup and its two goroutines. *)
Serve(c) ==
    /\ serve[c] = "none"
    /\ result[c] = "none"
    /\ IsHTTP(c) => HasAddr[Of[c]]
    /\ serve' = Goto(serve, c, "start")
    /\ shutdown' = Goto(shutdown, c, "wait")
    /\ UNCHANGED <<objVars, ctxDone, stopper, groupErr, result, cut>>

(* A context is cancelled, which the calls of a set have been given. *)
Cancel(given) ==
    /\ \E c \in given : ~ctxDone[c]
    /\ ctxDone' = [c \in Calls |-> ctxDone[c] \/ c \in given]
    /\ UNCHANGED <<objVars, serve, shutdown, stopper, groupErr, result, cut>>

-----------------------------------------------------------------------------
(* The goroutine that serves.                                              *)

(* The server was shut down before it was served: http.ErrServerClosed or  *)
(* grpc.ErrServerStopped, which the goroutine takes for success.           *)
ServeClosed(c) ==
    /\ serve[c] = "start" \/ serve[c] = "bound"
    /\ closing[Of[c]]
    /\ serve' = Goto(serve, c, "done")
    /\ UNCHANGED <<objVars, ctxDone, shutdown, stopper, groupErr, result, cut>>

(* http: net.Listen succeeds; grpc: the listener is tracked and accepts. *)
Listen(c) ==
    /\ serve[c] = "start"
    /\ ~closing[Of[c]]
    /\ serve' = Goto(serve, c, IF IsHTTP(c) THEN "bound" ELSE "accept")
    /\ UNCHANGED <<objVars, ctxDone, shutdown, stopper, groupErr, result, cut>>

(* http: net.Listen fails, for one because another call holds the port. *)
ListenFails(c) ==
    /\ serve[c] = "start"
    /\ IsHTTP(c)
    /\ ~closing[Of[c]]
    /\ serve' = Goto(serve, c, "done")
    /\ Fail(c, "serve")
    /\ UNCHANGED <<objVars, ctxDone, shutdown, stopper, result, cut>>

(* http: the server tracks the bound listener and accepts from it. *)
Track(c) ==
    /\ serve[c] = "bound"
    /\ ~closing[Of[c]]
    /\ serve' = Goto(serve, c, "accept")
    /\ UNCHANGED <<objVars, ctxDone, shutdown, stopper, groupErr, result, cut>>

(* Accept fails for good while nobody shuts the server down. *)
AcceptFails(c) ==
    /\ serve[c] = "accept"
    /\ ~closing[Of[c]]
    /\ serve' = Goto(serve, c, "done")
    /\ Fail(c, "serve")
    /\ UNCHANGED <<objVars, ctxDone, shutdown, stopper, result, cut>>

(* Accept fails because the server is shut down.  http returns             *)
(* ErrServerClosed; grpc waits for the stop to end before it returns.      *)
AcceptClosed(c) ==
    /\ serve[c] = "accept"
    /\ closing[Of[c]]
    /\ serve' = Goto(serve, c, IF IsHTTP(c) THEN "done" ELSE "exit")
    /\ UNCHANGED <<objVars, ctxDone, shutdown, stopper, groupErr, result, cut>>

(* grpc: the stop has ended, Serve returns nil. *)
ServeExits(c) ==
    /\ serve[c] = "exit"
    /\ stopped[Of[c]]
    /\ serve' = Goto(serve, c, "done")
    /\ UNCHANGED <<objVars, ctxDone, shutdown, stopper, groupErr, result, cut>>

(* A client's request is accepted; a connection is done with its requests. *)
Request(l) ==
    /\ Accepting(l)
    /\ ~closing[l]
    /\ busy[l] < MaxBusy
    /\ busy' = [busy EXCEPT ![l] = @ + 1]
    /\ UNCHANGED <<closing, stopped, callVars>>

Finish(l) ==
    /\ busy[l] > 0
    /\ busy' = [busy EXCEPT ![l] = @ - 1]
    /\ UNCHANGED <<closing, stopped, callVars>>

-----------------------------------------------------------------------------
(* The goroutine that runs handleShutdown.                                 *)

(* Mutant: it waits for the caller's context instead of the group's. *)
BeginShutdownOnCtx(c) ==
    /\ shutdown[c] = "wait"
    /\ ctxDone[c]
    /\ shutdown' = Goto(shutdown, c, "drain")
    /\ closing' = IF IsHTTP(c) THEN Goto(closing, Of[c], TRUE) ELSE closing
    /\ stopper' = IF IsGRPC(c) THEN Goto(stopper, c, "spawned") ELSE stopper
    /\ UNCHANGED <<stopped, busy, ctxDone, serve, groupErr, result, cut>>

(* <-ctx.Done().  http calls Shutdown, which closes the listeners; grpc    *)
(* starts a goroutine for GracefulStop and does not wait for it to run.    *)
BeginShutdown(c) ==
    /\ shutdown[c] = "wait"
    /\ ServeCtxDone(c)
    /\ shutdown' = Goto(shutdown, c, "drain")
    /\ closing' = IF IsHTTP(c) THEN Goto(closing, Of[c], TRUE) ELSE closing
    /\ stopper' = IF IsGRPC(c) THEN Goto(stopper, c, "spawned") ELSE stopper
    /\ UNCHANGED <<stopped, busy, ctxDone, serve, groupErr, result, cut>>

(* grpc: GracefulStop closes the listeners, then ends when every Serve has *)
(* left its accept loop and no connection is busy.                         *)
GracefulStop(c) ==
    /\ stopper[c] = "spawned"
    /\ stopper' = Goto(stopper, c, "stopping")
    /\ closing' = Goto(closing, Of[c], TRUE)
    /\ UNCHANGED <<stopped, busy, ctxDone, serve, shutdown, groupErr, result, cut>>

GracefulStopEnds(c) ==
    /\ stopper[c] = "stopping"
    /\ ~Accepting(Of[c])
    /\ busy[Of[c]] = 0
    /\ stopper' = Goto(stopper, c, "done")
    /\ stopped' = Goto(stopped, Of[c], TRUE)
    /\ UNCHANGED <<closing, busy, ctxDone, serve, shutdown, groupErr, result, cut>>

(* The graceful shutdown ended in time: http's Shutdown found every        *)
(* connection idle, grpc's stopper closed the done channel.                *)
ShutdownEnds(c) ==
    /\ shutdown[c] = "drain"
    /\ IF IsHTTP(c) THEN busy[Of[c]] = 0 ELSE stopper[c] = "done"
    /\ shutdown' = Goto(shutdown, c, "done")
    /\ UNCHANGED <<objVars, ctxDone, serve, stopper, groupErr, result, cut>>

(* shutdownTimeout has passed.  It may pass when the shutdown has just     *)
(* ended too: the select, like Shutdown's own, then takes either.  grpc    *)
(* goes on into Stop, which closes the listeners.                          *)
Deadline(c) ==
    /\ shutdown[c] = "drain"
    /\ shutdown' = Goto(shutdown, c, "force")
    /\ closing' = Goto(closing, Of[c], TRUE)
    /\ UNCHANGED <<stopped, busy, ctxDone, serve, stopper, groupErr, result, cut>>

(* Mutant: the forced stop is left out, the error is still returned. *)
NoForcedStop(c) ==
    /\ shutdown[c] = "force"
    /\ shutdown' = Goto(shutdown, c, "done")
    /\ Fail(c, "forced")
    /\ UNCHANGED <<objVars, ctxDone, serve, stopper, result, cut>>

(* Mutant: the forced stop is logged and not returned. *)
ForcedStopUnreported(c) ==
    /\ shutdown[c] = "force"
    /\ IsGRPC(c) => ~Accepting(Of[c])
    /\ shutdown' = Goto(shutdown, c, "done")
    /\ busy' = [busy EXCEPT ![Of[c]] = 0]
    /\ stopped' = IF IsGRPC(c) THEN Goto(stopped, Of[c], TRUE) ELSE stopped
    /\ cut' = [cut EXCEPT ![c] = busy[Of[c]] > 0]
    /\ UNCHANGED <<closing, ctxDone, serve, stopper, groupErr, result>>

(* Close (http) or Stop (grpc): the busy connections are closed under      *)
(* their handlers, and ErrGracefullyShutdown is returned.  Stop first      *)
(* waits for every Serve to leave its accept loop.                         *)
ForcedStop(c) ==
    /\ shutdown[c] = "force"
    /\ IsGRPC(c) => ~Accepting(Of[c])
    /\ shutdown' = Goto(shutdown, c, "done")
    /\ busy' = [busy EXCEPT ![Of[c]] = 0]
    /\ stopped' = IF IsGRPC(c) THEN Goto(stopped, Of[c], TRUE) ELSE stopped
    /\ cut' = [cut EXCEPT ![c] = busy[Of[c]] > 0]
    /\ Fail(c, "forced")
    /\ UNCHANGED <<closing, ctxDone, serve, stopper, result>>

-----------------------------------------------------------------------------
BothDone(c) == serve[c] = "done" /\ shutdown[c] = "done"

(* Mutant: Serve returns the outcome of the shutdown only. *)
ReturnShutdownErr(c) ==
    /\ result[c] = "none"
    /\ BothDone(c)
    /\ result' = [result EXCEPT ![c] = IF groupErr[c] = "forced" THEN "forced" ELSE "nil"]
    /\ UNCHANGED <<objVars, ctxDone, serve, shutdown, stopper, groupErr, cut>>

(* g.Wait: both goroutines have ended; Serve returns the first error. *)
Return(c) ==
    /\ result[c] = "none"
    /\ BothDone(c)
    /\ result' = [result EXCEPT ![c] = groupErr[c]]
    /\ UNCHANGED <<objVars, ctxDone, serve, shutdown, stopper, groupErr, cut>>

-----------------------------------------------------------------------------
(* What each goroutine does once it is scheduled. *)
ServeStep(c) ==
    \/ ServeClosed(c) \/ Listen(c) \/ ListenFails(c) \/ Track(c)
    \/ AcceptClosed(c) \/ ServeExits(c)

ShutdownStep(c) == BeginShutdown(c) \/ ShutdownEnds(c) \/ Deadline(c) \/ ForcedStop(c)

StopperStep(c) == GracefulStop(c) \/ GracefulStopEnds(c)

CallServe(c) == Serve(c) \/ ServeInvalid(c)

CallStep(c) ==
    \/ AcceptFails(c)
    \/ ServeStep(c) \/ ShutdownStep(c) \/ StopperStep(c) \/ Return(c)

ClientStep(l) == Request(l) \/ Finish(l)

Next ==
    \/ \E c \in Calls : CallServe(c) \/ CallStep(c)
    \/ \E given \in SUBSET Calls : Cancel(given)
    \/ \E l \in Listeners : ClientStep(l)

Spec == Init /\ [][Next]_vars

(* Every goroutine that can take a step takes one, and the shutdown timer  *)
(* fires.  No request need ever finish, no context need ever be cancelled, *)
(* and an accept loop need never fail.                                     *)
Fairness ==
    \A c \in Calls :
        /\ WF_vars(ServeStep(c))
        /\ WF_vars(ShutdownStep(c))
        /\ WF_vars(StopperStep(c))
        /\ WF_vars(Return(c))

FairSpec == Spec /\ Fairness

-----------------------------------------------------------------------------
TypeOK ==
    /\ closing \in [Listeners -> BOOLEAN]
    /\ stopped \in [Listeners -> BOOLEAN]
    /\ busy \in [Listeners -> 0..MaxBusy]
    /\ ctxDone \in [Calls -> BOOLEAN]
    /\ serve \in [Calls -> {"none", "start", "bound", "accept", "exit", "done"}]
    /\ shutdown \in [Calls -> {"none", "wait", "drain", "force", "done"}]
    /\ stopper \in [Calls -> {"none", "spawned", "stopping", "done"}]
    /\ groupErr \in [Calls -> {"nil", "serve", "forced"}]
    /\ result \in [Calls -> {"none", "nil", "address", "serve", "forced"}]
    /\ cut \in [Calls -> BOOLEAN]

Returned(c) == result[c] # "none"

(* Serve returns nil only once the context it was given is done: a server  *)
(* that stops by itself is never reported as a clean shutdown, whoever     *)
(* else shut it down.                                                      *)
NilOnlyAfterCancel == \A c \in Calls : result[c] = "nil" => ctxDone[c]

(* When Serve has returned after serving, with or without an error, the    *)
(* server takes no request any more and no connection carries one: what    *)
(* was not drained in time was closed.                                     *)
ReturnMeansQuiet ==
    \A c \in Calls :
        result[c] \in {"nil", "serve", "forced"} => closing[Of[c]] /\ busy[Of[c]] = 0

(* A call that closed connections under their requests returns an error:   *)
(* nil means that the shutdown was graceful.                               *)
CutIsReported == \A c \in Calls : cut[c] => result[c] # "nil"

(* A Serve whose context is done, or whose server failed, returns, even    *)
(* when requests never finish and wherever the cancellation finds it.      *)
ShutdownTerminates ==
    \A c \in Calls : (serve[c] # "none" /\ ServeCtxDone(c)) ~> Returned(c)

(* Another call on c's listener object has shut it down. *)
ShutByAnother(c) ==
    \E d \in Calls \ {c} : Of[d] = Of[c] /\ shutdown[d] \notin {"none", "wait"}

(* The Listener interface: Serve says so when its server stops serving; it *)
(* does not go on without one.  It is so for as long as no other call has  *)
(* shut the same listener down, which this call takes for its own success  *)
(* and goes on waiting for its context.                                    *)
ServeEndsWithServer ==
    \A c \in Calls : (serve[c] = "done") ~> (Returned(c) \/ ShutByAnother(c))
=============================================================================
