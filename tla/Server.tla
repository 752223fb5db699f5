------------------------------- MODULE Server -------------------------------
(***************************************************************************)
(* servekit.Server: a map of named listeners behind an RWMutex, and Serve, *)
(* which holds the read lock while it starts one goroutine per listener in *)
(* an errgroup and waits for all of them.                                  *)
(*                                                                         *)
(* A listener is known here only by the Listener interface: its Serve may  *)
(* return nil or an error at any time.  What the kit's own listeners       *)
(* promise on top of that is module Listener.                              *)
(***************************************************************************)

CONSTANTS Names,       \* the names listeners are registered under
          Listeners,   \* the listener objects
          Serves,      \* the calls of Server.Serve
          Registrars,  \* the calls of Server.RegisterListener
          NoListener,  \* a name with no map entry
          NoName,      \* no error: the errgroup's nil err
          NoOne        \* no pending writer

ASSUME ServerConstants ==
    /\ NoListener \notin Listeners
    /\ NoName \notin Names
    /\ NoOne \notin Registrars

VARIABLES
    listeners,   \* s.listeners: the map
    pending,     \* RWMutex: the writer that holds w and waits for the readers
    reg,         \* reg[r]: where the RegisterListener call r is
    pc,          \* pc[s]: where the Serve call s is
    served,      \* served[s][n]: the listener s started under the name n
    call,        \* call[s][n]: how far that listener's Serve is
    cancelled,   \* cancelled[s]: the ctx given to s is done
    groupErr,    \* groupErr[s]: g.err, as the name of the listener that failed
    result       \* result[s]: what s returned

vars == <<listeners, pending, reg, pc, served, call, cancelled, groupErr, result>>

Maps == [Names -> Listeners \cup {NoListener}]

Init ==
    /\ listeners = [n \in Names |-> NoListener]
    /\ pending = NoOne
    /\ reg = [r \in Registrars |-> "idle"]
    /\ pc = [s \in Serves |-> "idle"]
    /\ served = [s \in Serves |-> [n \in Names |-> NoListener]]
    /\ call = [s \in Serves |-> [n \in Names |-> "none"]]
    /\ cancelled = [s \in Serves |-> FALSE]
    /\ groupErr = [s \in Serves |-> NoName]
    /\ result = [s \in Serves |-> "none"]

-----------------------------------------------------------------------------
(* sync.RWMutex: a reader enters unless a writer is pending; a pending     *)
(* writer waits for the readers that are inside.                           *)

Inside == {"starting", "waiting"}

Readers == {s \in Serves : pc[s] \in Inside}

Registered == {n \in Names : listeners[n] # NoListener}

(* s.mu.Lock takes the writers' mutex and announces itself. *)
Lock(r) ==
    /\ reg[r] = "idle"
    /\ pending = NoOne
    /\ pending' = r
    /\ reg' = [reg EXCEPT ![r] = "locking"]
    /\ UNCHANGED <<listeners, pc, served, call, cancelled, groupErr, result>>

(* Mutant: the write lock does not wait for the readers. *)
RegisterListenerNoLock(r, n, l) ==
    /\ reg[r] = "locking"
    /\ pending = r
    /\ listeners' = [listeners EXCEPT ![n] = l]
    /\ pending' = NoOne
    /\ reg' = [reg EXCEPT ![r] = "done"]
    /\ pc' = [s \in Serves |-> IF pc[s] = "blocked" THEN "starting" ELSE pc[s]]
    /\ UNCHANGED <<served, call, cancelled, groupErr, result>>

(* The writer gets in, writes the map entry and unlocks, which lets in     *)
(* every reader that queued behind it.                                     *)
RegisterListener(r, n, l) ==
    /\ reg[r] = "locking"
    /\ pending = r
    /\ Readers = {}
    /\ listeners' = [listeners EXCEPT ![n] = l]
    /\ pending' = NoOne
    /\ reg' = [reg EXCEPT ![r] = "done"]
    /\ pc' = [s \in Serves |-> IF pc[s] = "blocked" THEN "starting" ELSE pc[s]]
    /\ UNCHANGED <<served, call, cancelled, groupErr, result>>

-----------------------------------------------------------------------------
(* Mutant: a plain errgroup.Group, whose first error cancels nothing. *)
OnlyParentDone(s) == cancelled[s]

(* The derived context of the errgroup: done when the caller's context is, *)
(* or when some listener of the group has failed.                          *)
ListenerCtxDone(s) == cancelled[s] \/ groupErr[s] # NoName

(* Serve: errgroup.WithContext, then s.mu.RLock. *)
Serve(s) ==
    /\ pc[s] = "idle"
    /\ pc' = [pc EXCEPT ![s] = IF pending = NoOne THEN "starting" ELSE "blocked"]
    /\ UNCHANGED <<listeners, pending, reg, served, call, cancelled, groupErr, result>>

(* One iteration of the range over s.listeners: g.Go starts a goroutine.   *)
(* The group's context may already be done; the goroutine starts anyway.   *)
StartListener(s, n) ==
    /\ pc[s] = "starting"
    /\ n \in Registered
    /\ call[s][n] = "none"
    /\ served' = [served EXCEPT ![s][n] = listeners[n]]
    /\ call' = [call EXCEPT ![s][n] = "running"]
    /\ UNCHANGED <<listeners, pending, reg, pc, cancelled, groupErr, result>>

(* The range is over: Serve goes on to g.Wait. *)
AllStarted(s) ==
    /\ pc[s] = "starting"
    /\ \A n \in Registered : call[s][n] # "none"
    /\ pc' = [pc EXCEPT ![s] = "waiting"]
    /\ UNCHANGED <<listeners, pending, reg, served, call, cancelled, groupErr, result>>

(* listener.Serve returned nil: the goroutine ends, nobody is told. *)
ListenerReturns(s, n) ==
    /\ call[s][n] = "running"
    /\ call' = [call EXCEPT ![s][n] = "ok"]
    /\ UNCHANGED <<listeners, pending, reg, pc, served, cancelled, groupErr, result>>

(* Mutant: an error raised once the shutdown began is taken for part of it. *)
ListenerFailsUnlessCancelled(s, n) ==
    /\ call[s][n] = "running"
    /\ call' = [call EXCEPT ![s][n] = "failed"]
    /\ groupErr' = [groupErr EXCEPT ![s] = IF @ = NoName /\ ~cancelled[s] THEN n ELSE @]
    /\ UNCHANGED <<listeners, pending, reg, pc, served, cancelled, result>>

(* listener.Serve returned an error: the first one is kept (errOnce), and  *)
(* keeping it cancels the group's context.                                 *)
ListenerFails(s, n) ==
    /\ call[s][n] = "running"
    /\ call' = [call EXCEPT ![s][n] = "failed"]
    /\ groupErr' = [groupErr EXCEPT ![s] = IF @ = NoName THEN n ELSE @]
    /\ UNCHANGED <<listeners, pending, reg, pc, served, cancelled, result>>

(* Mutant: Serve returns as soon as the group's context is done. *)
WaitForContext(s) ==
    /\ pc[s] = "waiting"
    /\ ListenerCtxDone(s) \/ \A n \in Names : call[s][n] # "running"
    /\ pc' = [pc EXCEPT ![s] = "returned"]
    /\ result' = [result EXCEPT ![s] = IF groupErr[s] = NoName THEN "nil" ELSE "error"]
    /\ UNCHANGED <<listeners, pending, reg, served, call, cancelled, groupErr>>

(* g.Wait has seen every goroutine end; Serve returns what it kept and the *)
(* deferred RUnlock leaves the lock.                                       *)
Wait(s) ==
    /\ pc[s] = "waiting"
    /\ \A n \in Names : call[s][n] # "running"
    /\ pc' = [pc EXCEPT ![s] = "returned"]
    /\ result' = [result EXCEPT ![s] = IF groupErr[s] = NoName THEN "nil" ELSE "error"]
    /\ UNCHANGED <<listeners, pending, reg, served, call, cancelled, groupErr>>

(* The caller cancels its context: a signal, a deadline. *)
Cancel(s) ==
    /\ ~cancelled[s]
    /\ cancelled' = [cancelled EXCEPT ![s] = TRUE]
    /\ UNCHANGED <<listeners, pending, reg, pc, served, call, groupErr, result>>

-----------------------------------------------------------------------------
Register(r) == \E n \in Names, l \in Listeners : RegisterListener(r, n, l)

Next ==
    \/ \E r \in Registrars : Lock(r) \/ Register(r)
    \/ \E s \in Serves :
          \/ Serve(s) \/ AllStarted(s) \/ Wait(s) \/ Cancel(s)
          \/ \E n \in Names :
                StartListener(s, n) \/ ListenerReturns(s, n) \/ ListenerFails(s, n)

Spec == Init /\ [][Next]_vars

(* What the Listener interface asks of an implementation: once the context *)
(* it was given is done, Serve returns.                                    *)
ListenerStops(s, n) ==
    /\ ListenerCtxDone(s)
    /\ ListenerReturns(s, n) \/ ListenerFails(s, n)

(* A goroutine that can run is scheduled, and the writer that holds w gets *)
(* the lock once the readers have left.  Nothing forces a caller to cancel *)
(* its context, nor a listener to return while its context is not done.    *)
Fairness ==
    /\ \A r \in Registrars : WF_vars(Register(r))
    /\ \A s \in Serves :
          /\ WF_vars(\E n \in Names : StartListener(s, n))
          /\ WF_vars(AllStarted(s))
          /\ WF_vars(Wait(s))
          /\ \A n \in Names : WF_vars(ListenerStops(s, n))

FairSpec == Spec /\ Fairness

-----------------------------------------------------------------------------
TypeOK ==
    /\ listeners \in Maps
    /\ pending \in Registrars \cup {NoOne}
    /\ reg \in [Registrars -> {"idle", "locking", "done"}]
    /\ pc \in [Serves -> {"idle", "blocked", "starting", "waiting", "returned"}]
    /\ served \in [Serves -> Maps]
    /\ call \in [Serves -> [Names -> {"none", "running", "ok", "failed"}]]
    /\ cancelled \in [Serves -> BOOLEAN]
    /\ groupErr \in [Serves -> Names \cup {NoName}]
    /\ result \in [Serves -> {"none", "nil", "error"}]

(* A Serve that waits for its group runs exactly the listeners that are    *)
(* registered, under their names: RegisterListener never changes the map   *)
(* under a Serve in progress, because Serve keeps the read lock to the end.*)
ServesTheMap ==
    \A s \in Serves : pc[s] = "waiting" => served[s] = listeners

(* Serve returns only when no listener it started is still inside its own  *)
(* Serve, whatever made it return (server.go, g.Wait).                     *)
NoOrphans ==
    \A s \in Serves : pc[s] = "returned" => \A n \in Names : call[s][n] # "running"

(* Serve returns nil exactly when every listener it started returned nil,  *)
(* and an error it returns is that of a listener that really failed: one   *)
(* raised during the shutdown is not lost.  A Serve that was cancelled and *)
(* whose listeners stopped well therefore returns nil, as                  *)
(* server_test.go:58 expects.  Serve's comment says otherwise: "If the     *)
(* context is canceled, it returns the context error" (server.go:56); the  *)
(* code returns nothing but what g.Wait returns.                           *)
ResultFaithful ==
    \A s \in Serves :
        /\ result[s] = "nil" => \A n \in Names : call[s][n] # "failed"
        /\ result[s] = "error" => \E n \in Names : groupErr[s] = n /\ call[s][n] = "failed"

(* A Serve that has its lock returns once its context is cancelled or one  *)
(* of its listeners has failed: the group's context reaches every listener *)
(* it started, and the ones it starts after that.  A cancelled Serve that  *)
(* has no lock yet, because a registration waits before it, is kept from   *)
(* returning by nothing but another Serve that goes on ("Serve blocks      *)
(* until all listeners stop or the context is canceled", README.md:43,     *)
(* does not make this exception).                                          *)
StopEndsServe ==
    \A s \in Serves :
        /\ (pc[s] \in Inside /\ (cancelled[s] \/ groupErr[s] # NoName)) ~> (pc[s] = "returned")
        /\ (pc[s] = "blocked" /\ cancelled[s]) ~>
              (pc[s] = "returned" \/ \E t \in Serves \ {s} : pc[t] \in Inside)
=============================================================================
