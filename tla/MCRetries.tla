----------------------------- MODULE MCRetries -----------------------------
(* The two loops that retry: a behaviour is one of either, while the other *)
(* stays where it begins.                                                  *)
EXTENDS MCHTTPClient, Retries

VARIABLE part   \* what this behaviour is of

do == <<options, at, n, timer, cancelled, calls, waits, result>>

(* The backoffs of the kit: growing ones that reach their maximum within   *)
(* the attempts, one whose minimum is the larger, one without jitter, and  *)
(* an exponential one that does not grow.                                  *)
SmallBackoffs ==
    {[kind |-> k, factor |-> 2, min |-> lo, max |-> hi, jitter |-> j] :
        k \in {"static", "constant", "linear", "exponential"},
        lo \in {0, 2, 5}, hi \in {4, 9}, j \in {0, 2}} \cup
    {[kind |-> "exponential", factor |-> 0, min |-> lo, max |-> 4, jitter |-> 2] : lo \in {2, 5}}

ASSUME RetriesConstants == Do!RetryConstants

AClient == RetryLoop
ABackoff == [kind |-> "static", factor |-> 2, min |-> 0, max |-> 4, jitter |-> 0]

RetriesInit ==
    /\ Init /\ Do!Init
    /\ \/ part = "client" /\ ~cancelled /\ options = [maxRetries |-> 0, backoff |-> ABackoff]
       \/ part = "do" /\ tripper = AClient

RetriesNext ==
    \/ part = "client" /\ Next /\ UNCHANGED <<part, do>>
    \/ part = "do" /\ Do!Next /\ UNCHANGED <<part, vars>>

RetriesSpec ==
    /\ RetriesInit /\ [][RetriesNext]_<<part, vars, do>>
    /\ part = "client" => Fairness
    /\ part = "do" => Do!Fairness

(* Whichever loop runs, the end of its context ends it. *)
CancelEndsEither == CancelEnds /\ (part = "do" => Do!CancelEndsDo)
=============================================================================
