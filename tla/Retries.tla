------------------------------- MODULE Retries -------------------------------
(* The two loops that retry: the HTTP client's, as HTTPClient has it, and  *)
(* retry.Do, as Do.  They share nothing.                                   *)
EXTENDS HTTPClient, Integers, Sequences

CONSTANTS MaxAttempts, Backoffs, None   \* of Do

VARIABLES options, at, n, timer, cancelled, calls, waits, result   \* of Do

Do == INSTANCE Retry WITH pc <- at, i <- n

(* The properties of Do. *)
ResultIsTheCalls == Do!ResultIsTheCalls
WaitsAreBounded == Do!WaitsAreBounded
AttemptsAreBounded == Do!AttemptsAreBounded
=============================================================================
