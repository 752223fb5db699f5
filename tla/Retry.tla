------------------------------- MODULE Retry -------------------------------
(***************************************************************************)
(* retry.Do and its backoffs.  Do calls a function until it succeeds,      *)
(* fails with an error not marked as retryable, the context ends or the    *)
(* attempts are used up; after every retryable failure it waits for as     *)
(* long as the backoff says.  Durations are whole milliseconds, which is   *)
(* what the constructors of the backoffs cut them to.                      *)
(***************************************************************************)
EXTENDS Integers, Sequences

CONSTANTS MaxAttempts,   \* the values WithMaxAttempts is given
          Backoffs,      \* the values WithBackoff is given: [kind, factor, min, max, jitter]
          None

Kinds == {"static", "constant", "linear", "exponential"}

RetryConstants ==
    /\ MaxAttempts \subseteq Nat
    /\ None \notin {"nil", "fatal", "limit", "ctx", "panic"}
    /\ \A b \in Backoffs :
          /\ b.kind \in Kinds
          /\ b.factor \in Nat
          /\ b.min \in Nat /\ b.max \in Nat /\ b.jitter \in Nat

VARIABLES
    options,     \* Do's Options: [maxRetries, backoff]
    pc,
    i,           \* the loop's counter
    timer,       \* what the running timer was set to
    cancelled,   \* the context is done
    calls,       \* history: the outcome of each call of fn
    waits,       \* history: the waits that a timer ended
    result       \* what Do has returned

vars == <<options, pc, i, timer, cancelled, calls, waits, result>>
history == <<calls, waits>>

Init ==
    /\ options \in [maxRetries : MaxAttempts, backoff : Backoffs]
    /\ pc = "loop"
    /\ i = 0
    /\ timer = 0
    /\ cancelled \in BOOLEAN
    /\ calls = <<>> /\ waits = <<>>
    /\ result = None

-----------------------------------------------------------------------------
AtMost(a, b) == IF a < b THEN a ELSE b

(* math.Pow, of a factor and a number of retries that are whole. *)
Power(factor, n) ==
    LET power[k \in 0 .. n] == IF k = 0 THEN 1 ELSE factor * power[k - 1]
    IN  power[n]

(* Mutant: the exponential backoff is not capped. *)
UncappedInterval(b, retry) ==
    CASE b.kind = "static" -> b.min
      [] b.kind = "constant" -> AtMost(b.min, b.max)
      [] b.kind = "linear" -> AtMost(b.min * retry, b.max)
      [] b.kind = "exponential" -> b.min * Power(b.factor, retry)

(* The interval before the jitter. *)
Interval(b, retry) ==
    CASE b.kind = "static" -> b.min
      [] b.kind = "constant" -> AtMost(b.min, b.max)
      [] b.kind = "linear" -> AtMost(b.min * retry, b.max)
      [] b.kind = "exponential" -> AtMost(b.min * Power(b.factor, retry), b.max)

(* What Next may return; nothing if rand.Int64N panics on a jitter of zero *)
(* milliseconds, which comes from any jitter below one.                    *)
NextWaits(b, retry) ==
    IF b.kind = "static" THEN {b.min}
    ELSE IF retry = 0 THEN {0}
    ELSE IF b.kind = "exponential" /\ b.min >= b.max THEN {b.max}
    ELSE {Interval(b, retry) + jitter : jitter \in 0 .. b.jitter - 1}

Return(value) == pc' = "returned" /\ result' = value

(* Mutant: the limit counts the retries, not the attempts. *)
LoopEndsEarly ==
    /\ pc = "loop"
    /\ i + 1 >= options.maxRetries
    /\ Return("limit")
    /\ UNCHANGED <<options, i, timer, cancelled, history>>

LoopEnds ==
    /\ pc = "loop"
    /\ i >= options.maxRetries
    /\ Return("limit")
    /\ UNCHANGED <<options, i, timer, cancelled, history>>

(* The context is looked at before every attempt. *)
LoopCancelled ==
    /\ pc = "loop"
    /\ i < options.maxRetries
    /\ cancelled
    /\ Return("ctx")
    /\ UNCHANGED <<options, i, timer, cancelled, history>>

(* Mutant: the loop goes on up to the limit and including it. *)
CallOnceMore ==
    /\ pc = "loop"
    /\ i <= options.maxRetries
    /\ ~cancelled
    /\ pc' = "fn"
    /\ UNCHANGED <<options, i, timer, cancelled, history, result>>

Call ==
    /\ pc = "loop"
    /\ i < options.maxRetries
    /\ ~cancelled
    /\ pc' = "fn"
    /\ UNCHANGED <<options, i, timer, cancelled, history, result>>

Ended(outcome) == calls' = Append(calls, outcome)

Succeeds ==
    /\ pc = "fn"
    /\ Ended("ok")
    /\ Return("nil")
    /\ UNCHANGED <<options, i, timer, cancelled, waits>>

(* Any error that neither is nor wraps a RetryableError is returned. *)
FailsForGood ==
    /\ pc = "fn"
    /\ Ended("fatal")
    /\ Return("fatal")
    /\ UNCHANGED <<options, i, timer, cancelled, waits>>

(* The backoff's Next is given the number of the attempt, from zero. *)
FailsRetryably ==
    /\ pc = "fn"
    /\ Ended("retryable")
    /\ \E wait \in NextWaits(options.backoff, i) :
          timer' = wait /\ pc' = "wait"
    /\ UNCHANGED <<options, i, cancelled, waits, result>>

Panics ==
    /\ pc = "fn"
    /\ NextWaits(options.backoff, i) = {}
    /\ Ended("retryable")
    /\ Return("panic")
    /\ UNCHANGED <<options, i, timer, cancelled, waits>>

(* select: the timer, or the context; if both are ready, either. *)
TimerFires ==
    /\ pc = "wait"
    /\ waits' = Append(waits, timer)
    /\ i' = i + 1
    /\ pc' = "loop"
    /\ UNCHANGED <<options, timer, cancelled, calls, result>>

WaitCancelled ==
    /\ pc = "wait" /\ cancelled
    /\ Return("ctx")
    /\ UNCHANGED <<options, i, timer, cancelled, history>>

(* External: the caller's context ends. *)
Cancel ==
    /\ ~cancelled /\ pc # "returned"
    /\ cancelled' = TRUE
    /\ UNCHANGED <<options, pc, i, timer, history, result>>

FnReturns == Succeeds \/ FailsForGood \/ FailsRetryably \/ Panics

Next ==
    \/ LoopEnds \/ LoopCancelled \/ Call
    \/ FnReturns
    \/ TimerFires \/ WaitCancelled
    \/ Cancel

Spec == Init /\ [][Next]_vars

(* The loop runs, and fn, which has the context, returns when it is done.  *)
(* Of a timer nothing is assumed: a wait may be longer than anybody minds. *)
Fairness ==
    /\ WF_vars(LoopEnds \/ LoopCancelled \/ Call)
    /\ WF_vars(cancelled /\ FnReturns)
    /\ WF_vars(WaitCancelled)

FairSpec == Spec /\ Fairness

-----------------------------------------------------------------------------
TypeOK ==
    /\ options \in [maxRetries : MaxAttempts, backoff : Backoffs]
    /\ pc \in {"loop", "fn", "wait", "returned"}
    /\ i \in 0 .. options.maxRetries
    /\ timer \in Nat
    /\ cancelled \in BOOLEAN
    /\ calls \in Seq({"ok", "fatal", "retryable"})
    /\ waits \in Seq(Nat)
    /\ result \in {None, "nil", "fatal", "limit", "ctx", "panic"}

Last(s) == s[Len(s)]

(* What Do returns is what became of the calls: nil only for a last call   *)
(* that succeeded, an error that is not retryable from a last call that    *)
(* returned it, and the limit only after every attempt was made and failed *)
(* retryably.  No call follows one that settled the matter.                *)
ResultIsTheCalls ==
    /\ \A k \in 1 .. Len(calls) - 1 : calls[k] = "retryable"
    /\ result = "nil" => calls # <<>> /\ Last(calls) = "ok"
    /\ result = "fatal" => calls # <<>> /\ Last(calls) = "fatal"
    /\ result = "limit" =>
          /\ Len(calls) = options.maxRetries
          /\ calls # <<>> => Last(calls) = "retryable"

(* Two calls are apart by the wait of the backoff: from the second retry   *)
(* on at least the minimum (or the maximum, if that is less), and never    *)
(* the maximum and all of the jitter, however many attempts there are.     *)
(* An exponential backoff may be given a factor of zero, with which it     *)
(* waits for no more than the jitter (retry.go:86).                        *)
WaitsAreBounded ==
    LET b == options.backoff
    IN  \A k \in 2 .. Len(waits) :
           b.kind # "static" =>
              /\ \/ b.kind = "exponential" /\ b.factor = 0
                 \/ waits[k] >= AtMost(b.min, b.max)
              /\ waits[k] < b.max + b.jitter \/ waits[k] = b.max

(* fn is called no more often than the options allow, however often it     *)
(* fails and whatever ends Do; and no two calls are without the wait that  *)
(* the backoff gave in between, sat out in full (retry.go:211).            *)
AttemptsAreBounded ==
    /\ Len(calls) <= options.maxRetries
    /\ Len(calls) \in {Len(waits), Len(waits) + 1}

(* When the context ends Do returns, however long the wait it is in. *)
CancelEndsDo == cancelled ~> (pc = "returned")
=============================================================================
