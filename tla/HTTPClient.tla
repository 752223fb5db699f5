----------------------------- MODULE HTTPClient -----------------------------
(***************************************************************************)
(* httpkit's client: roundtripper.RoundTrip, which repeats an attempt that *)
(* failed, sleeps between attempts, and sends each attempt through a       *)
(* circuit breaker that all the requests of the client share.              *)
(*                                                                         *)
(* An attempt is known by its outcome: what the server answered or how the *)
(* transport failed.  The circuit breaker (cep21/circuit, external) may    *)
(* open at any failure, as its opener is the caller's to choose, and       *)
(* refuses attempts over MaxConcurrent.                                    *)
(***************************************************************************)
EXTENDS Naturals, FiniteSets

CONSTANTS Requests,       \* the requests: calls of RoundTrip
          Clients,        \* the clients to look at, by the fields of their
                          \* roundTripper, see Trippers
          MaxConcurrent   \* attempts the circuit lets through at once

Trippers == [maxAttempts : Nat, backoff : BOOLEAN, breaker : BOOLEAN]

ASSUME ClientConstants ==
    /\ Clients \subseteq Trippers
    /\ MaxConcurrent \in Nat \ {0}

(* NewClient: the roundTripper it makes of the options.  WithRetries sets  *)
(* config.attempts and, when it is given one, a backoff; the attempts are  *)
(* not handed on.                                                          *)
NewTripper(config) ==
    [maxAttempts |-> 0, backoff |-> config.backoff, breaker |-> config.breaker]

VARIABLES
    tripper,   \* the client's roundTripper
    ctxDone,   \* ctxDone[r]: the request's context is done
    pc,        \* pc[r]: where its RoundTrip is
    i,         \* i[r]: the loop's counter
    res,       \* res[r]: the outcome the variable res holds, "nil" for none
    open,      \* open[r]: response bodies received and not closed
    sent,      \* sent[r]: history: attempts that were sent
    ret,       \* ret[r]: what RoundTrip returned
    circuit    \* the breaker, "closed" or "open"

reqVars == <<ctxDone, pc, i, res, open, sent, ret>>
vars == <<tripper, ctxDone, pc, i, res, open, sent, ret, circuit>>

-----------------------------------------------------------------------------
(* Outcomes of an attempt.  "After" carries a Retry-After header; "fatal"  *)
(* stands for too many redirects, a bad scheme, an unknown authority and a *)
(* rejected redirect.                                                      *)
Responses == {"ok", "429", "429After", "503", "503After", "501", "5xx"}
Outcomes == Responses \cup {"transport", "fatal"}

RetryableResponses == {"429", "429After", "503", "503After", "5xx"}
Retryable == RetryableResponses \cup {"transport"}

(* The sleep takes its time from the backoff, or from the header. *)
NeedsBackoff == Retryable \ {"429After", "503After"}

(* What the function given to circuitBreaker.Run returns an error for. *)
CircuitFailures == {"503", "503After", "501", "5xx", "transport", "fatal"}

InFlight == {r \in Requests : pc[r] = "inflight"}

Refused ==
    /\ tripper.breaker
    /\ circuit = "open" \/ Cardinality(InFlight) >= MaxConcurrent

Return(r, what) ==
    /\ pc' = [pc EXCEPT ![r] = "returned"]
    /\ ret' = [ret EXCEPT ![r] = what]

Init ==
    /\ tripper \in Clients
    /\ ctxDone = [r \in Requests |-> FALSE]
    /\ pc = [r \in Requests |-> "idle"]
    /\ i = [r \in Requests |-> 0]
    /\ res = [r \in Requests |-> "nil"]
    /\ open = [r \in Requests |-> 0]
    /\ sent = [r \in Requests |-> 0]
    /\ ret = [r \in Requests |-> "none"]
    /\ circuit = "closed"

-----------------------------------------------------------------------------
(* The request's body is read into memory, for it may be sent again. *)
Start(r) ==
    /\ pc[r] = "idle"
    /\ \/ pc' = [pc EXCEPT ![r] = "loop"] /\ UNCHANGED ret
       \/ Return(r, "error")
    /\ UNCHANGED <<tripper, ctxDone, i, res, open, sent, circuit>>

Cancel(r) ==
    /\ ~ctxDone[r]
    /\ pc[r] # "returned"
    /\ ctxDone' = [ctxDone EXCEPT ![r] = TRUE]
    /\ UNCHANGED <<tripper, pc, i, res, open, sent, ret, circuit>>

(* Either check of the context at the top of the loop, before or after the *)
(* last response is closed.                                                *)
CtxErr(r) ==
    /\ pc[r] \in {"loop", "attempt"}
    /\ ctxDone[r]
    /\ Return(r, "ctx")
    /\ UNCHANGED <<tripper, ctxDone, i, res, open, sent, circuit>>

(* Mutant: the response of the last attempt is not closed. *)
KeepLast(r) ==
    /\ pc[r] = "loop"
    /\ ~ctxDone[r]
    /\ pc' = [pc EXCEPT ![r] = "attempt"]
    /\ UNCHANGED <<tripper, ctxDone, i, res, open, sent, ret, circuit>>

(* The response of the last attempt is closed before the next one; closing *)
(* it may fail.                                                            *)
CloseLast(r) ==
    /\ pc[r] = "loop"
    /\ ~ctxDone[r]
    /\ open' = [open EXCEPT ![r] = IF res[r] = "nil" THEN @ ELSE @ - 1]
    /\ \/ pc' = [pc EXCEPT ![r] = "attempt"] /\ UNCHANGED ret
       \/ res[r] # "nil" /\ Return(r, "error")
    /\ UNCHANGED <<tripper, ctxDone, i, res, sent, circuit>>

(* doRequest when the breaker lets no attempt through: RoundTrip gives up  *)
(* with the circuit's error.                                               *)
CircuitErr(r) ==
    /\ pc[r] = "attempt"
    /\ ~ctxDone[r]
    /\ Refused
    /\ res' = [res EXCEPT ![r] = "nil"]
    /\ Return(r, "circuit")
    /\ UNCHANGED <<tripper, ctxDone, i, open, sent, circuit>>

(* doRequest: the attempt goes out. *)
Send(r) ==
    /\ pc[r] = "attempt"
    /\ ~ctxDone[r]
    /\ ~Refused
    /\ sent' = [sent EXCEPT ![r] = @ + 1]
    /\ pc' = [pc EXCEPT ![r] = "inflight"]
    /\ UNCHANGED <<tripper, ctxDone, i, res, open, ret, circuit>>

(* The breaker sees the outcome of an attempt: it may open at a failure,   *)
(* unless the caller's own context ended the attempt.                      *)
Account(r, o) ==
    circuit' \in IF tripper.breaker /\ o \in CircuitFailures /\ ~ctxDone[r]
                 THEN {circuit, "open"} ELSE {circuit}

(* Where RoundTrip goes with the outcome o: out with an error, out of the  *)
(* loop with the response, or into the sleep.  A nil backoff panics.       *)
Decide(r, o) ==
    \/ o = "fatal" /\ Return(r, "error")
    \/ o \notin Retryable \cup {"fatal"} /\ Return(r, "response")
    \/ o \in NeedsBackoff /\ ~tripper.backoff /\ Return(r, "panic")
    \/ /\ o \in Retryable
       /\ o \in NeedsBackoff => tripper.backoff
       /\ pc' = [pc EXCEPT ![r] = "sleep"]
       /\ UNCHANGED ret

AttemptEnds(r, o) ==
    /\ pc[r] = "inflight"
    /\ res' = [res EXCEPT ![r] = IF o \in Responses THEN o ELSE "nil"]
    /\ open' = [open EXCEPT ![r] = IF o \in Responses THEN @ + 1 ELSE @]
    /\ Account(r, o)
    /\ Decide(r, o)
    /\ UNCHANGED <<tripper, ctxDone, i, sent>>

(* Mutant: a plain time.Sleep. *)
Uncancellable(r) == pc[r] = "no sleep is cancelled" /\ UNCHANGED vars

(* sleepWithContext returns the context's error. *)
SleepCancelled(r) ==
    /\ pc[r] = "sleep"
    /\ ctxDone[r]
    /\ Return(r, "ctx")
    /\ UNCHANGED <<tripper, ctxDone, i, res, open, sent, circuit>>

(* Mutant: the loop's bound is i < attempts. *)
StopsEarly(r) == i[r] + 1 >= tripper.maxAttempts

(* for i := 0; i <= attempts; i++: the attempt i was the last one. *)
LastAttempt(r) == i[r] >= tripper.maxAttempts

(* The time has passed, perhaps together with the context.  After the last *)
(* attempt the loop is left with whatever res holds.                       *)
SleepEnds(r) ==
    /\ pc[r] = "sleep"
    /\ \/ /\ ~LastAttempt(r)
          /\ i' = [i EXCEPT ![r] = @ + 1]
          /\ pc' = [pc EXCEPT ![r] = "loop"]
          /\ UNCHANGED ret
       \/ /\ LastAttempt(r)
          /\ Return(r, IF res[r] = "nil" THEN "nilnil" ELSE "response")
          /\ UNCHANGED i
    /\ UNCHANGED <<tripper, ctxDone, res, open, sent, circuit>>

(* External: after its sleep window the breaker lets attempts through.  *)
CircuitRecovers ==
    /\ circuit = "open"
    /\ circuit' = "closed"
    /\ UNCHANGED <<tripper, reqVars>>

LoopStep(r) == CtxErr(r) \/ CloseLast(r) \/ CircuitErr(r) \/ Send(r)

SomeAnswer(r) == \E o \in Outcomes : AttemptEnds(r, o)

Next ==
    \/ CircuitRecovers
    \/ \E r \in Requests :
          \/ Start(r) \/ Cancel(r) \/ LoopStep(r) \/ SomeAnswer(r)
          \/ SleepCancelled(r) \/ SleepEnds(r)

Spec == Init /\ [][Next]_vars

(* A running goroutine goes on.  A server need never answer (no timeout is *)
(* set by default) and a Retry-After may be arbitrarily long, but both the *)
(* transport and the sleep give up once the context is done.               *)
Fairness ==
    \A r \in Requests :
        /\ WF_vars(LoopStep(r))
        /\ WF_vars(ctxDone[r] /\ SomeAnswer(r))
        /\ WF_vars(SleepCancelled(r))

FairSpec == Spec /\ Fairness

-----------------------------------------------------------------------------
Results == {"none", "response", "error", "ctx", "circuit", "nilnil", "panic"}

TypeOK ==
    /\ ctxDone \in [Requests -> BOOLEAN]
    /\ pc \in [Requests -> {"idle", "loop", "attempt", "inflight", "sleep", "returned"}]
    /\ i \in [Requests -> 0..tripper.maxAttempts]
    /\ res \in [Requests -> Responses \cup {"nil"}]
    /\ open \in [Requests -> Nat]
    /\ sent \in [Requests -> Nat]
    /\ ret \in [Requests -> Results]
    /\ circuit \in {"closed", "open"}
    /\ tripper \in Trippers

(* However many attempts a request takes, it never holds more than one     *)
(* open response body, the one it returns if it returns a response.  Of    *)
(* the ways to give up, an error, an open circuit and a last attempt that  *)
(* got no answer leave none behind; the context's end and the nil backoff  *)
(* that panics leave the body open of the retryable answer before them, if *)
(* there was one, and nobody closes it (http_client.go:361, 429, 458).     *)
OneOpenBody ==
    \A r \in Requests :
        /\ open[r] <= 1
        /\ ret[r] = "response" => open[r] = 1 /\ res[r] # "nil"
        /\ ret[r] \in {"error", "circuit", "nilnil"} => open[r] = 0
        /\ ret[r] = "panic" => open[r] = (IF res[r] = "nil" THEN 0 ELSE 1)
        /\ ret[r] = "ctx" /\ open[r] = 1 => res[r] \in RetryableResponses

(* RoundTrip gives up on a retryable answer only when it has made all its  *)
(* attempts: maxAttempts + 1 of them were sent, no matter what the other   *)
(* requests of the client did meanwhile.                                   *)
AllAttemptsMade ==
    \A r \in Requests :
        /\ ret[r] = "response" /\ res[r] \in Retryable => sent[r] = tripper.maxAttempts + 1
        /\ sent[r] <= tripper.maxAttempts + 1

(* A RoundTrip whose context is cancelled returns, wherever it is: at the  *)
(* top of the loop, with an attempt in flight or asleep between attempts.  *)
CancelEnds ==
    \A r \in Requests : (pc[r] # "idle" /\ ctxDone[r]) ~> (pc[r] = "returned")
=============================================================================
