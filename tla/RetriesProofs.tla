----------------------------- MODULE RetriesProofs -----------------------------
(***************************************************************************)
(* The two loops that retry.  RoundTrip, for any requests, any clients and *)
(* any number of attempts; and retry.Do, for any backoffs and any number   *)
(* of attempts.                                                            *)
(***************************************************************************)
EXTENDS Retries, WellFoundedInduction, TLAPS

-----------------------------------------------------------------------------
(* RoundTrip.                                                              *)

(* A response that RoundTrip holds is the one in res; between closing it   *)
(* and receiving the next one there is none.                               *)
BodyInv ==
    \A r \in Requests :
        /\ pc[r] \in {"idle", "attempt", "inflight"} => open[r] = 0
        /\ pc[r] = "idle" => res[r] = "nil"
        /\ pc[r] \in {"loop", "sleep"} => open[r] = (IF res[r] = "nil" THEN 0 ELSE 1)
        /\ open[r] <= 1
        /\ ret[r] = "response" => open[r] = 1 /\ res[r] # "nil"
        /\ pc[r] \in {"loop", "sleep"} => res[r] \in RetryableResponses \cup {"nil"}
        /\ ret[r] \in {"error", "circuit", "nilnil"} => open[r] = 0
        /\ ret[r] = "panic" => open[r] = (IF res[r] = "nil" THEN 0 ELSE 1)
        /\ ret[r] = "ctx" /\ open[r] = 1 => res[r] \in RetryableResponses

(* The loop's counter counts the attempts that were sent before this turn. *)
CountInv ==
    \A r \in Requests :
        /\ pc[r] = "returned" <=> ret[r] # "none"
        /\ pc[r] \in {"idle", "loop", "attempt"} => sent[r] = i[r]
        /\ pc[r] \in {"inflight", "sleep"} => sent[r] = i[r] + 1
        /\ sent[r] <= tripper.maxAttempts + 1
        /\ ret[r] = "response" /\ res[r] \in Retryable => sent[r] = tripper.maxAttempts + 1

RoundTripInv == TypeOK /\ BodyInv /\ CountInv

(* RoundTrip starts in a state of the inductive invariant. *)
LEMMA InitRoundTrip == Init => RoundTripInv
  BY ClientConstants
     DEF Init, RoundTripInv, TypeOK, BodyInv, CountInv, Trippers, Results

(* Every step keeps the types. *)
LEMMA RoundTripTypes == ASSUME RoundTripInv, [Next]_vars PROVE TypeOK'
  <1> USE DEF RoundTripInv, TypeOK, Trippers, Results, Return
  <1>1. ASSUME CircuitRecovers PROVE TypeOK'
    BY <1>1 DEF CircuitRecovers, reqVars
  <1>2. ASSUME NEW r \in Requests, Start(r) PROVE TypeOK'
    BY <1>2 DEF Start
  <1>3. ASSUME NEW r \in Requests, Cancel(r) PROVE TypeOK'
    BY <1>3 DEF Cancel
  <1>4. ASSUME NEW r \in Requests, CtxErr(r) PROVE TypeOK'
    BY <1>4 DEF CtxErr
  <1>5. ASSUME NEW r \in Requests, CloseLast(r) PROVE TypeOK'
    BY <1>5 DEF CloseLast, BodyInv
  <1>6. ASSUME NEW r \in Requests, CircuitErr(r) PROVE TypeOK'
    BY <1>6 DEF CircuitErr
  <1>7. ASSUME NEW r \in Requests, Send(r) PROVE TypeOK'
    BY <1>7 DEF Send
  <1>8. ASSUME NEW r \in Requests, NEW o \in Outcomes, AttemptEnds(r, o) PROVE TypeOK'
    BY <1>8 DEF AttemptEnds, Account, Decide
  <1>9. ASSUME NEW r \in Requests, SleepCancelled(r) PROVE TypeOK'
    BY <1>9 DEF SleepCancelled
  <1>10. ASSUME NEW r \in Requests, SleepEnds(r) PROVE TypeOK'
    BY <1>10 DEF SleepEnds, LastAttempt
  <1>11. CASE UNCHANGED vars
    BY <1>11 DEF vars
  <1>12. QED
    BY <1>1, <1>2, <1>3, <1>4, <1>5, <1>6, <1>7, <1>8, <1>9, <1>10, <1>11
       DEF Next, LoopStep, SomeAnswer

(* Every step keeps the inductive invariant. *)
LEMMA StepRoundTrip == ASSUME RoundTripInv, [Next]_vars PROVE RoundTripInv'
  <1>0. TypeOK /\ TypeOK'
    BY RoundTripTypes DEF RoundTripInv
  <1> DEFINE Rest == BodyInv /\ CountInv
  <1> USE <1>0 DEF RoundTripInv, TypeOK, Trippers, BodyInv, CountInv, Return
  <1>1. ASSUME CircuitRecovers PROVE Rest'
    BY <1>1 DEF CircuitRecovers, reqVars
  <1>2. ASSUME NEW r \in Requests, Start(r) PROVE Rest'
    BY <1>2 DEF Start
  <1>3. ASSUME NEW r \in Requests, Cancel(r) PROVE Rest'
    BY <1>3 DEF Cancel
  <1>4. ASSUME NEW r \in Requests, CtxErr(r) PROVE Rest'
    BY <1>4 DEF CtxErr
  <1>5. ASSUME NEW r \in Requests, CloseLast(r) PROVE Rest'
    BY <1>5 DEF CloseLast
  <1>6. ASSUME NEW r \in Requests, CircuitErr(r) PROVE Rest'
    BY <1>6 DEF CircuitErr
  <1>7. ASSUME NEW r \in Requests, Send(r) PROVE Rest'
    BY <1>7 DEF Send
  <1>8. ASSUME NEW r \in Requests, NEW o \in Outcomes, AttemptEnds(r, o) PROVE Rest'
    BY <1>8 DEF AttemptEnds, Decide, Outcomes, Responses, Retryable, RetryableResponses
  <1>9. ASSUME NEW r \in Requests, SleepCancelled(r) PROVE Rest'
    BY <1>9 DEF SleepCancelled
  <1>10. ASSUME NEW r \in Requests, SleepEnds(r) PROVE Rest'
    BY <1>10 DEF SleepEnds, LastAttempt
  <1>11. ASSUME UNCHANGED vars PROVE Rest'
    BY <1>11 DEF vars
  <1>12. QED
    BY <1>1, <1>2, <1>3, <1>4, <1>5, <1>6, <1>7, <1>8, <1>9, <1>10, <1>11
       DEF Next, LoopStep, SomeAnswer

(* The inductive invariant holds of every behaviour. *)
THEOREM RoundTripInductive == Spec => []RoundTripInv
  BY InitRoundTrip, StepRoundTrip, PTL DEF Spec

(* A request holds at most one open response body: that of the response it *)
(* returns, or, when its context ended it or a nil backoff made it panic,  *)
(* that of a retryable answer that is then left open; there is none in     *)
(* every other case.                                                       *)
THEOREM BodiesAreClosed == Spec => []OneOpenBody
  <1>1. RoundTripInv => OneOpenBody
    BY DEF RoundTripInv, BodyInv, OneOpenBody
  <1>2. QED
    BY RoundTripInductive, <1>1, PTL

(* RoundTrip returns a retryable answer only from its last attempt. *)
THEOREM AttemptsAreMade == Spec => []AllAttemptsMade
  <1>1. RoundTripInv => AllAttemptsMade
    BY DEF RoundTripInv, CountInv, AllAttemptsMade
  <1>2. QED
    BY RoundTripInductive, <1>1, PTL

-----------------------------------------------------------------------------
(* retry.Do.                                                               *)

(* The attempts made so far, all of which failed retryably unless Do has   *)
(* returned.                                                               *)
CallsInv ==
    /\ at \in {"loop", "fn"} => Len(calls) = n
    /\ at \in {"fn", "wait"} => n < options.maxRetries
    /\ at = "wait" => Len(calls) = n + 1
    /\ at # "returned" => \A k \in 1 .. Len(calls) : calls[k] = "retryable"
    /\ at # "returned" <=> result = None

(* Every wait is one that the backoff gave for the attempt before it. *)
WaitsInv ==
    /\ at \in {"loop", "fn", "wait"} => Len(waits) = n
    /\ at = "wait" => timer \in Do!NextWaits(options.backoff, n)
    /\ \A k \in 1 .. Len(waits) : waits[k] \in Do!NextWaits(options.backoff, k - 1)

DoInv == Do!TypeOK /\ CallsInv /\ WaitsInv /\ Do!ResultIsTheCalls

(* Do starts in a state of the inductive invariant. *)
LEMMA InitDo == ASSUME Do!RetryConstants PROVE Do!Init => DoInv
  <1> SUFFICES ASSUME Do!Init PROVE DoInv
    OBVIOUS
  <1>1. Do!TypeOK
    <2>1. options \in [maxRetries : MaxAttempts, backoff : Backoffs]
      BY DEF Do!Init
    <2>2. n \in 0 .. options.maxRetries
      <3>1. MaxAttempts \subseteq Nat
        BY DEF Do!RetryConstants
      <3>2. options.maxRetries \in MaxAttempts
        BY <2>1
      <3>3. options.maxRetries \in Nat
        BY <3>1, <3>2
      <3>4. QED
        BY <3>3 DEF Do!Init
    <2>3. calls \in Seq({"ok", "fatal", "retryable"}) /\ waits \in Seq(Nat)
      BY DEF Do!Init
    <2>4. QED
      BY <2>1, <2>2, <2>3 DEF Do!Init, Do!TypeOK
  <1>2. CallsInv /\ WaitsInv /\ Do!ResultIsTheCalls
    BY DEF Do!RetryConstants, Do!Init, CallsInv, WaitsInv, Do!ResultIsTheCalls
  <1>3. QED
    BY <1>1, <1>2 DEF DoInv

(* The powers are defined by recursion over the exponent; these lemmas say *)
(* that such a definition has the value it asks for.                       *)

Less == {p \in Nat \X Nat : p[1] < p[2]}

(* A set that has 0, and a number with the one before it, has all up to top. *)
LEMMA UpTo ==
    ASSUME NEW top \in Nat, NEW T, 0 \in T, \A k \in 1 .. top : k - 1 \in T => k \in T
    PROVE  0 .. top \subseteq T
  <1> SUFFICES ASSUME NEW j \in 0 .. top, j \notin T PROVE FALSE
    OBVIOUS
  <1> DEFINE Out == {k \in 0 .. top : k \notin T}
  <1>1. Out # {} /\ Out \subseteq Nat
    OBVIOUS
  <1>2. IsWellFoundedOn(Less, Nat)
    BY NatLessThanWellFounded DEF OpToRel, Less
  <1>3. PICK m \in Out : \A k \in Out : <<k, m>> \notin Less
    <2> HIDE DEF Out
    <2> QED
      BY <1>1, <1>2, WFMin
  <1>4. m \in 1 .. top /\ m - 1 \in 0 .. top /\ <<m - 1, m>> \in Less
    BY DEF Less
  <1>5. QED
    BY <1>3, <1>4

(* The states of a loop of top steps, from the first to the last. *)
Loop(f, S, base, top, step) ==
    /\ f \in [0 .. top -> S]
    /\ f[0] = base
    /\ \A k \in 1 .. top : f[k] = step[k][f[k - 1]]

(* A loop whose steps lead from S into S has them. *)
LEMMA LoopExists ==
    ASSUME NEW S, NEW base \in S, NEW top \in Nat, NEW step \in [1 .. top -> [S -> S]]
    PROVE  \E f : Loop(f, S, base, top, step)
  <1> DEFINE Reached == {m \in 0 .. top : \E f : Loop(f, S, base, m, step)}
  <1>1. 0 \in Reached
    <2> DEFINE f == [k \in 0 .. 0 |-> base]
    <2>1. Loop(f, S, base, 0, step)
      BY DEF Loop
    <2> HIDE DEF f
    <2>2. QED
      BY <2>1
  <1>2. ASSUME NEW m \in 1 .. top, m - 1 \in Reached PROVE m \in Reached
    <2>1. PICK f : Loop(f, S, base, m - 1, step)
      BY <1>2
    <2> DEFINE g == [k \in 0 .. m |-> IF k = m THEN step[m][f[m - 1]] ELSE f[k]]
    <2>2. Loop(g, S, base, m, step)
      BY <2>1 DEF Loop
    <2> HIDE DEF g
    <2>3. QED
      BY <2>2
  <1>3. top \in Reached
    <2> HIDE DEF Reached
    <2>1. 0 .. top \subseteq Reached
      BY <1>1, <1>2, UpTo
    <2>2. QED
      BY <2>1
  <1>4. QED
    BY <1>3

(* A power of a number is a number, and is positive if the number is. *)
LEMMA PowerTypes ==
    ASSUME NEW factor \in Nat, NEW m \in Nat
    PROVE  Do!Power(factor, m) \in Nat /\ (factor # 0 => Do!Power(factor, m) # 0)
  <1> DEFINE S == {x \in Nat : factor # 0 => x # 0}
             step == [k \in 1 .. m |-> [x \in S |-> factor * x]]
             Body(t) == [k \in 0 .. m |-> IF k = 0 THEN 1 ELSE factor * t[k - 1]]
             power == CHOOSE t : t = Body(t)
  <1>1. \A x \in S : factor * x \in S
    OBVIOUS
  <1>2. /\ step \in [1 .. m -> [S -> S]]
        /\ \A k \in 1 .. m, x \in S : step[k][x] = factor * x
    <2> HIDE DEF S
    <2> QED
      BY <1>1
  <1>3. 1 \in S
    OBVIOUS
  <1> HIDE DEF S, step
  <1>4. PICK f : Loop(f, S, 1, m, step)
    BY <1>2, <1>3, LoopExists, Zenon
  <1>5. \A k \in 1 .. m : f[k - 1] \in S /\ f[k] = factor * f[k - 1]
    <2>1. \A k \in 1 .. m : f[k - 1] \in S
      BY <1>4 DEF Loop
    <2>2. QED
      BY <1>2, <1>4, <2>1 DEF Loop
  <1>6. f = Body(f)
    BY <1>4, <1>5 DEF Loop
  <1>7. power = Body(power)
    BY <1>6, Zenon
  <1> HIDE DEF power
  <1>8. power[0] = 1 /\ \A k \in 1 .. m : power[k] = factor * power[k - 1]
    BY <1>7
  <1> DEFINE T == {k \in 0 .. m : power[k] \in S}
  <1>9. 0 \in T
    BY <1>3, <1>8
  <1>10. ASSUME NEW k \in 1 .. m, k - 1 \in T PROVE k \in T
    BY <1>1, <1>8, <1>10
  <1>11. 0 .. m \subseteq T
    <2> HIDE DEF T
    <2> QED
      BY <1>9, <1>10, UpTo
  <1>12. power[m] \in S
    BY <1>11
  <1>13. Do!Power(factor, m) = power[m]
    BY DEF Do!Power, power
  <1>14. QED
    BY <1>12, <1>13 DEF S

(* The numbers a backoff is made of, and the interval it makes of them. *)
LEMMA BackoffTypes ==
    ASSUME Do!RetryConstants, NEW b \in Backoffs
    PROVE  /\ b.kind \in Do!Kinds
           /\ b.factor \in Nat /\ b.min \in Nat /\ b.max \in Nat /\ b.jitter \in Nat
  BY DEF Do!RetryConstants

(* Every interval is capped by the maximum, and not below the minimum that *)
(* the maximum allows, unless it grows by a factor of zero.                *)
LEMMA IntervalBounds ==
    ASSUME Do!RetryConstants, NEW b \in Backoffs, b.kind # "static",
           NEW k \in Nat \ {0}
    PROVE  /\ Do!Interval(b, k) \in Nat
           /\ \/ b.kind = "exponential" /\ b.factor = 0
              \/ Do!Interval(b, k) >= Do!AtMost(b.min, b.max)
           /\ Do!Interval(b, k) <= b.max
  <1> USE BackoffTypes DEF Do!Interval, Do!AtMost, Do!Kinds
  <1>1. CASE b.kind = "constant"
    BY <1>1
  <1>2. CASE b.kind = "linear"
    <2>1. b.min * k \in Nat /\ b.min * k >= b.min
      OBVIOUS
    <2>2. QED
      BY <1>2, <2>1
  <1>3. CASE b.kind = "exponential"
    <2> DEFINE p == Do!Power(b.factor, k)
    <2>1. p \in Nat /\ (b.factor # 0 => p # 0)
      BY PowerTypes
    <2> HIDE DEF p
    <2>2. b.min * p \in Nat /\ (p # 0 => b.min * p >= b.min)
      BY <2>1
    <2>3. Do!Interval(b, k) = Do!AtMost(b.min * p, b.max)
      BY <1>3 DEF p
    <2>4. QED
      BY <1>3, <2>1, <2>2, <2>3
  <1>4. QED
    BY <1>1, <1>2, <1>3

(* The intervals with their jitter are numbers of milliseconds. *)
LEMMA NextWaitsTypes ==
    ASSUME Do!RetryConstants, NEW b \in Backoffs, NEW k \in Nat
    PROVE  Do!NextWaits(b, k) \subseteq Nat
  <1>1. CASE b.kind = "static" \/ k = 0
    BY <1>1, BackoffTypes DEF Do!NextWaits
  <1>2. CASE b.kind # "static" /\ k # 0
    <2>1. Do!Interval(b, k) \in Nat
      BY <1>2, IntervalBounds
    <2>2. QED
      BY <1>2, <2>1, BackoffTypes DEF Do!NextWaits
  <1>3. QED
    BY <1>1, <1>2

(* The counter and its limit are numbers. *)
LEMMA CounterTypes ==
    ASSUME Do!RetryConstants, Do!TypeOK
    PROVE  options.maxRetries \in Nat /\ n \in Nat /\ n <= options.maxRetries
  <1>1. MaxAttempts \subseteq Nat
    BY DEF Do!RetryConstants
  <1>2. options.maxRetries \in MaxAttempts /\ n \in 0 .. options.maxRetries
    BY DEF Do!TypeOK
  <1>3. options.maxRetries \in Nat
    BY <1>1, <1>2
  <1>4. QED
    BY <1>2, <1>3

(* Every step keeps the types. *)
LEMMA DoTypes ==
    ASSUME Do!RetryConstants, DoInv, [Do!Next]_(Do!vars)
    PROVE  Do!TypeOK'
  <1> USE DEF DoInv, Do!TypeOK, Do!Return, Do!Ended, Do!history
  <1>1. ASSUME Do!LoopEnds PROVE Do!TypeOK'
    BY <1>1 DEF Do!LoopEnds
  <1>2. ASSUME Do!LoopCancelled PROVE Do!TypeOK'
    BY <1>2 DEF Do!LoopCancelled
  <1>3. ASSUME Do!Call PROVE Do!TypeOK'
    BY <1>3 DEF Do!Call
  <1>4. ASSUME Do!Succeeds PROVE Do!TypeOK'
    BY <1>4 DEF Do!Succeeds
  <1>5. ASSUME Do!FailsForGood PROVE Do!TypeOK'
    BY <1>5 DEF Do!FailsForGood
  <1>6. ASSUME Do!FailsRetryably PROVE Do!TypeOK'
    BY <1>6, NextWaitsTypes DEF Do!FailsRetryably
  <1>7. ASSUME Do!Panics PROVE Do!TypeOK'
    BY <1>7 DEF Do!Panics
  <1>8. ASSUME Do!TimerFires PROVE Do!TypeOK'
    <2>1. n \in Nat /\ options.maxRetries \in Nat /\ n < options.maxRetries
      BY <1>8, CounterTypes DEF Do!TimerFires, CallsInv
    <2>2. n' \in 0 .. options'.maxRetries
      BY <1>8, <2>1 DEF Do!TimerFires
    <2>3. waits' \in Seq(Nat)
      BY <1>8 DEF Do!TimerFires
    <2>4. QED
      BY <1>8, <2>2, <2>3 DEF Do!TimerFires
  <1>9. ASSUME Do!WaitCancelled PROVE Do!TypeOK'
    BY <1>9 DEF Do!WaitCancelled
  <1>10. ASSUME Do!Cancel PROVE Do!TypeOK'
    BY <1>10 DEF Do!Cancel
  <1>11. ASSUME UNCHANGED Do!vars PROVE Do!TypeOK'
    BY <1>11 DEF Do!vars
  <1>12. QED
    BY <1>1, <1>2, <1>3, <1>4, <1>5, <1>6, <1>7, <1>8, <1>9, <1>10, <1>11
       DEF Do!Next, Do!FnReturns

(* A call that settles the matter is the last. *)
LEMMA LastCall ==
    ASSUME Do!RetryConstants, DoInv, at = "fn", at' = "returned",
           NEW outcome \in {"ok", "fatal"}, calls' = Append(calls, outcome),
           result' = IF outcome = "ok" THEN "nil" ELSE "fatal",
           UNCHANGED <<options, waits>>
    PROVE  CallsInv' /\ WaitsInv' /\ Do!ResultIsTheCalls'
  <1> DEFINE S == {"ok", "fatal", "retryable"}
             m == Len(calls)
  <1>1. calls \in Seq(S) /\ outcome \in S /\ \A k \in 1 .. m : calls[k] = "retryable"
    BY DEF DoInv, Do!TypeOK, CallsInv
  <1> HIDE DEF S
  <1>2. /\ calls' \in Seq(S) /\ m \in Nat /\ Len(calls') = m + 1 /\ calls'[m + 1] = outcome
        /\ \A k \in 1 .. m : calls'[k] = calls[k]
    BY <1>1
  <1>3. \A k \in 1 .. Len(calls') - 1 : calls'[k] = "retryable"
    BY <1>1, <1>2
  <1>4. calls' # <<>> /\ Do!Last(calls') = outcome
    BY <1>2 DEF Do!Last
  <1>5. result' \notin {None, "limit"}
    BY DEF Do!RetryConstants
  <1>6. Do!ResultIsTheCalls'
    BY <1>3, <1>4, <1>5 DEF Do!ResultIsTheCalls, Do!Last
  <1>7. CallsInv'
    BY <1>5 DEF CallsInv
  <1>8. WaitsInv'
    BY DEF DoInv, WaitsInv
  <1>9. QED
    BY <1>6, <1>7, <1>8

(* Every step keeps the inductive invariant. *)
LEMMA StepDo ==
    ASSUME Do!RetryConstants, DoInv, [Do!Next]_(Do!vars)
    PROVE  DoInv'
  <1>0. Do!TypeOK /\ Do!TypeOK'
    BY DoTypes DEF DoInv
  <1> DEFINE Rest == CallsInv /\ WaitsInv /\ Do!ResultIsTheCalls
  <1> USE <1>0
      DEF DoInv, Do!RetryConstants, Do!TypeOK, CallsInv, WaitsInv, Do!ResultIsTheCalls,
          Do!Last, Do!Return, Do!Ended, Do!history
  <1>1. ASSUME Do!LoopEnds PROVE Rest'
    <2>1. /\ calls \in Seq({"ok", "fatal", "retryable"}) /\ calls' = calls
          /\ waits' = waits /\ n' = n /\ options' = options /\ at' = "returned"
          /\ result' = "limit" /\ "limit" # None
      BY <1>1 DEF Do!LoopEnds
    <2>2. options.maxRetries \in Nat /\ n \in Nat /\ n = options.maxRetries
      <3>1. n >= options.maxRetries
        BY <1>1 DEF Do!LoopEnds
      <3>2. options.maxRetries \in Nat /\ n \in Nat /\ n <= options.maxRetries
        BY CounterTypes
      <3>3. QED
        BY ONLY <3>1, <3>2
    <2>3. Len(calls) = n /\ \A k \in 1 .. Len(calls) : calls[k] = "retryable"
      BY <1>1 DEF Do!LoopEnds
    <2>4. calls # <<>> => Do!Last(calls) = "retryable"
      BY <2>1, <2>3
    <2>5. CallsInv'
      BY <2>1
    <2>6. WaitsInv'
      BY <2>1
    <2>7. Do!ResultIsTheCalls'
      <3>1. \A k \in 1 .. Len(calls) - 1 : calls[k] = "retryable"
        BY <2>1, <2>3
      <3>2. QED
        BY ONLY <2>1, <2>2, <2>3, <2>4, <3>1 DEF Do!ResultIsTheCalls, Do!Last
    <2>8. QED
      BY <2>5, <2>6, <2>7
  <1>2. ASSUME Do!LoopCancelled PROVE Rest'
    BY <1>2 DEF Do!LoopCancelled
  <1>3. ASSUME Do!Call PROVE Rest'
    BY <1>3 DEF Do!Call
  <1>4. ASSUME Do!Succeeds PROVE Rest'
    <2>1. /\ calls' = Append(calls, "ok") /\ result' = "nil"
          /\ at = "fn" /\ at' = "returned" /\ UNCHANGED <<options, waits>>
      BY <1>4 DEF Do!Succeeds
    <2>2. QED
      BY <2>1, LastCall
  <1>5. ASSUME Do!FailsForGood PROVE Rest'
    <2>1. /\ calls' = Append(calls, "fatal") /\ result' = "fatal"
          /\ at = "fn" /\ at' = "returned" /\ UNCHANGED <<options, waits>>
      BY <1>5 DEF Do!FailsForGood
    <2>2. QED
      BY <2>1, LastCall
  <1>6. ASSUME Do!FailsRetryably PROVE Rest'
    BY <1>6 DEF Do!FailsRetryably
  <1>7. ASSUME Do!Panics PROVE Rest'
    BY <1>7 DEF Do!Panics
  <1>8. ASSUME Do!TimerFires PROVE Rest'
    BY <1>8 DEF Do!TimerFires
  <1>9. ASSUME Do!WaitCancelled PROVE Rest'
    BY <1>9 DEF Do!WaitCancelled
  <1>10. ASSUME Do!Cancel PROVE Rest'
    BY <1>10 DEF Do!Cancel
  <1>11. ASSUME UNCHANGED Do!vars PROVE Rest'
    BY <1>11 DEF Do!vars
  <1>12. QED
    BY <1>1, <1>2, <1>3, <1>4, <1>5, <1>6, <1>7, <1>8, <1>9, <1>10, <1>11
       DEF Do!Next, Do!FnReturns

(* A wait from the second retry on is within the backoff's bounds. *)
LEMMA WaitBounds ==
    ASSUME Do!RetryConstants, NEW b \in Backoffs, b.kind # "static",
           NEW k \in Nat \ {0}, NEW wait \in Do!NextWaits(b, k)
    PROVE  /\ (b.kind = "exponential" /\ b.factor = 0) \/ wait >= Do!AtMost(b.min, b.max)
           /\ wait < b.max + b.jitter \/ wait = b.max
  <1>1. /\ Do!Interval(b, k) \in Nat
        /\ \/ b.kind = "exponential" /\ b.factor = 0
           \/ Do!Interval(b, k) >= Do!AtMost(b.min, b.max)
        /\ Do!Interval(b, k) <= b.max
    BY IntervalBounds
  <1>2. CASE b.kind = "exponential" /\ b.min >= b.max
    BY <1>2, BackoffTypes DEF Do!NextWaits, Do!AtMost
  <1>3. CASE \E jitter \in 0 .. b.jitter - 1 : wait = Do!Interval(b, k) + jitter
    BY <1>1, <1>3, BackoffTypes DEF Do!AtMost
  <1>4. QED
    BY <1>2, <1>3 DEF Do!NextWaits

(* The inductive invariant holds of every behaviour. *)
THEOREM DoInductive ==
    ASSUME Do!RetryConstants
    PROVE  Do!Spec => []DoInv
  BY InitDo, StepDo, PTL DEF Do!Spec

(* What Do returns is what became of its calls. *)
THEOREM DoResult ==
    ASSUME Do!RetryConstants
    PROVE  Do!Spec => []ResultIsTheCalls
  BY DoInductive, PTL DEF DoInv, ResultIsTheCalls

(* The waits between the calls are within the backoff's bounds, for any    *)
(* backoff that can be made; a factor of zero has no lower one.            *)
THEOREM DoWaits ==
    ASSUME Do!RetryConstants
    PROVE  Do!Spec => []WaitsAreBounded
  <1>1. DoInv => WaitsAreBounded
    <2> SUFFICES ASSUME DoInv, NEW k \in 2 .. Len(waits), options.backoff.kind # "static"
                 PROVE  /\ \/ options.backoff.kind = "exponential" /\ options.backoff.factor = 0
                           \/ waits[k] >= Do!AtMost(options.backoff.min, options.backoff.max)
                        /\ \/ waits[k] < options.backoff.max + options.backoff.jitter
                           \/ waits[k] = options.backoff.max
      BY DEF WaitsAreBounded, Do!WaitsAreBounded
    <2>1. options.backoff \in Backoffs /\ Len(waits) \in Nat
      BY DEF DoInv, Do!TypeOK
    <2>2. waits[k] \in Do!NextWaits(options.backoff, k - 1)
      BY <2>1 DEF DoInv, WaitsInv
    <2>3. QED
      BY <2>1, <2>2, WaitBounds
  <1>2. QED
    BY DoInductive, <1>1, PTL

(* Every step keeps to the limit, and to one wait after each call. *)
LEMMA AttemptsStep ==
    ASSUME Do!RetryConstants, DoInv, AttemptsAreBounded, [Do!Next]_(Do!vars)
    PROVE  AttemptsAreBounded'
  <1>1. /\ n \in Nat /\ options.maxRetries \in Nat
        /\ Len(calls) \in Nat /\ Len(waits) \in Nat
    BY CounterTypes DEF DoInv, Do!TypeOK
  <1>2. CASE UNCHANGED <<options, calls, waits>>
    BY <1>2 DEF AttemptsAreBounded, Do!AttemptsAreBounded
  <1>3. ASSUME NEW outcome \in {"ok", "fatal", "retryable"},
               at = "fn", calls' = Append(calls, outcome), UNCHANGED <<options, waits>>
        PROVE  AttemptsAreBounded'
    <2>1. Len(calls') = Len(calls) + 1
      BY <1>3 DEF DoInv, Do!TypeOK
    <2>2. Len(calls) = n /\ n < options.maxRetries /\ Len(waits) = n
      BY <1>3 DEF DoInv, CallsInv, WaitsInv
    <2>3. QED
      BY <1>1, <1>3, <2>1, <2>2 DEF AttemptsAreBounded, Do!AttemptsAreBounded
  <1>4. ASSUME Do!TimerFires PROVE AttemptsAreBounded'
    <2>1. /\ Len(waits') = Len(waits) + 1 /\ calls' = calls /\ options' = options
          /\ at = "wait"
      BY <1>4 DEF Do!TimerFires, DoInv, Do!TypeOK
    <2>2. Len(calls) = n + 1 /\ Len(waits) = n
      BY <2>1 DEF DoInv, CallsInv, WaitsInv
    <2>3. QED
      BY <1>1, <2>1, <2>2 DEF AttemptsAreBounded, Do!AttemptsAreBounded
  <1>5. Do!FnReturns =>
            \E outcome \in {"ok", "fatal", "retryable"} :
                at = "fn" /\ calls' = Append(calls, outcome) /\ UNCHANGED <<options, waits>>
    BY DEF Do!FnReturns, Do!Succeeds, Do!FailsForGood, Do!FailsRetryably, Do!Panics, Do!Ended
  <1>6. Do!LoopEnds \/ Do!LoopCancelled \/ Do!Call \/ Do!WaitCancelled \/ Do!Cancel
        \/ UNCHANGED Do!vars => UNCHANGED <<options, calls, waits>>
    BY DEF Do!LoopEnds, Do!LoopCancelled, Do!Call, Do!WaitCancelled, Do!Cancel, Do!history,
           Do!vars
  <1>7. QED
    BY <1>2, <1>3, <1>4, <1>5, <1>6 DEF Do!Next

(* retry.Do calls its function no more often than the options say, however *)
(* often it fails, and waits once between any two calls.                   *)
THEOREM DoAttempts ==
    ASSUME Do!RetryConstants
    PROVE  Do!Spec => []AttemptsAreBounded
  <1>1. Do!Init => AttemptsAreBounded
    <2> SUFFICES ASSUME Do!Init PROVE AttemptsAreBounded
      OBVIOUS
    <2>1. calls = <<>> /\ waits = <<>>
      BY DEF Do!Init
    <2>2. options.maxRetries \in Nat
      <3>1. options \in [maxRetries : MaxAttempts, backoff : Backoffs]
        BY DEF Do!Init
      <3>2. MaxAttempts \subseteq Nat
        BY DEF Do!RetryConstants
      <3>3. QED
        BY <3>1, <3>2
    <2>3. QED
      BY <2>1, <2>2 DEF AttemptsAreBounded, Do!AttemptsAreBounded
  <1>2. QED
    BY <1>1, DoInductive, AttemptsStep, PTL DEF Do!Spec
-----------------------------------------------------------------------------
(* What the end of a cancelled loop rests on, beside the fairness of its   *)
(* steps.                                                                  *)

(* The steps a RoundTrip, and a Do, whose context is done has before it. *)
StepsLeft(r) ==
    [idle |-> 4, inflight |-> 3, sleep |-> 2, loop |-> 1, attempt |-> 1, returned |-> 0][pc[r]]

DoStepsLeft == [fn |-> 3, wait |-> 2, loop |-> 1, returned |-> 0][at]

(* A RoundTrip whose context is done sends nothing more, and whatever it   *)
(* does next brings it closer to its return: it does not go round again.   *)
CancelledRoundTripEnds ==
    [][\A r \in Requests : ctxDone[r] =>
          /\ ctxDone'[r] /\ sent'[r] = sent[r]
          /\ pc'[r] = pc[r] \/ StepsLeft(r)' < StepsLeft(r)]_vars

(* So does Do, which does not go round again either. *)
CancelledDoEnds ==
    [][cancelled => cancelled' /\ (at' = at \/ DoStepsLeft' < DoStepsLeft)]_(Do!vars)

(* RoundTrip, from any step, is over within three more once its context is *)
(* done, or four if it has not begun.                                      *)
THEOREM CancelEndsRoundTrip == Spec => CancelledRoundTripEnds
  <1>1. ASSUME TypeOK, [Next]_vars, NEW r \in Requests, ctxDone[r]
        PROVE  /\ ctxDone'[r] /\ sent'[r] = sent[r]
               /\ pc'[r] = pc[r] \/ StepsLeft(r)' < StepsLeft(r)
    <2> DEFINE Closer == /\ ctxDone'[r] /\ sent'[r] = sent[r]
                         /\ pc'[r] = pc[r] \/ StepsLeft(r)' < StepsLeft(r)
    <2> USE <1>1 DEF TypeOK, StepsLeft, Return
    <2>1. ASSUME NEW s \in Requests, Start(s) PROVE Closer
      BY <2>1 DEF Start
    <2>2. ASSUME NEW s \in Requests, Cancel(s) PROVE Closer
      BY <2>2 DEF Cancel
    <2>3. ASSUME NEW s \in Requests, CtxErr(s) PROVE Closer
      BY <2>3 DEF CtxErr
    <2>4. ASSUME NEW s \in Requests, CloseLast(s) PROVE Closer
      BY <2>4 DEF CloseLast
    <2>5. ASSUME NEW s \in Requests, CircuitErr(s) PROVE Closer
      BY <2>5 DEF CircuitErr
    <2>6. ASSUME NEW s \in Requests, Send(s) PROVE Closer
      BY <2>6 DEF Send
    <2>7. ASSUME NEW s \in Requests, NEW o \in Outcomes, AttemptEnds(s, o) PROVE Closer
      BY <2>7 DEF AttemptEnds, Decide
    <2>8. ASSUME NEW s \in Requests, SleepCancelled(s) PROVE Closer
      BY <2>8 DEF SleepCancelled
    <2>9. ASSUME NEW s \in Requests, SleepEnds(s) PROVE Closer
      BY <2>9 DEF SleepEnds
    <2>10. CASE CircuitRecovers \/ UNCHANGED vars
      BY <2>10 DEF CircuitRecovers, reqVars, vars
    <2>11. QED
      BY <2>1, <2>2, <2>3, <2>4, <2>5, <2>6, <2>7, <2>8, <2>9, <2>10
         DEF Next, LoopStep, SomeAnswer
  <1>2. TypeOK /\ [Next]_vars =>
            [\A r \in Requests : ctxDone[r] =>
                /\ ctxDone'[r] /\ sent'[r] = sent[r]
                /\ pc'[r] = pc[r] \/ StepsLeft(r)' < StepsLeft(r)]_vars
    BY <1>1
  <1>3. RoundTripInv => TypeOK
    BY DEF RoundTripInv
  <1>4. QED
    BY RoundTripInductive, <1>2, <1>3, PTL DEF Spec, CancelledRoundTripEnds

(* Do is over within three steps once its context is done. *)
THEOREM CancelEndsDoSoon ==
    ASSUME Do!RetryConstants
    PROVE  Do!Spec => CancelledDoEnds
  <1>1. ASSUME at \in {"loop", "fn", "wait", "returned"}, [Do!Next]_(Do!vars), cancelled
        PROVE  cancelled' /\ (at' = at \/ DoStepsLeft' < DoStepsLeft)
    <2>1. \/ at' = at
          \/ at = "fn" /\ at' \in {"wait", "returned"}
          \/ at = "wait" /\ at' \in {"loop", "returned"}
          \/ at = "loop" /\ at' = "returned"
      <3> USE <1>1
      <3>1. CASE Do!LoopEnds \/ Do!LoopCancelled \/ Do!Call
        BY <3>1 DEF Do!LoopEnds, Do!LoopCancelled, Do!Call, Do!Return
      <3>2. CASE Do!FnReturns
        BY <3>2
           DEF Do!FnReturns, Do!Succeeds, Do!FailsForGood, Do!FailsRetryably, Do!Panics,
               Do!Return
      <3>3. CASE Do!TimerFires \/ Do!WaitCancelled
        BY <3>3 DEF Do!TimerFires, Do!WaitCancelled, Do!Return
      <3>4. CASE Do!Cancel \/ UNCHANGED Do!vars
        BY <3>4 DEF Do!Cancel, Do!vars
      <3>5. QED
        BY <3>1, <3>2, <3>3, <3>4 DEF Do!Next
    <2>2. cancelled'
      BY <1>1, Zenon
         DEF Do!Next, Do!FnReturns, Do!LoopEnds, Do!LoopCancelled, Do!Call, Do!Succeeds,
             Do!FailsForGood, Do!FailsRetryably, Do!Panics, Do!TimerFires,
             Do!WaitCancelled, Do!Cancel, Do!vars
    <2>3. QED
      BY <2>1, <2>2 DEF DoStepsLeft
  <1>2. at \in {"loop", "fn", "wait", "returned"} /\ [Do!Next]_(Do!vars) =>
            [cancelled => cancelled' /\ (at' = at \/ DoStepsLeft' < DoStepsLeft)]_(Do!vars)
    BY <1>1
  <1>3. DoInv => at \in {"loop", "fn", "wait", "returned"}
    BY DEF DoInv, Do!TypeOK
  <1>4. QED
    BY DoInductive, <1>2, <1>3, PTL DEF Do!Spec, CancelledDoEnds
=============================================================================
