---------------------------- MODULE MCHTTPClient ----------------------------
(* HTTPClient on small instances: the clients NewClient makes of every     *)
(* combination of options, and the retry loop with attempts to repeat.     *)
EXTENDS HTTPClient

(* The options given to NewClient: two retries or none, with or without a  *)
(* backoff, with or without a circuit breaker.                             *)
Configs == [attempts : {0, 2}, backoff : BOOLEAN, breaker : BOOLEAN]

(* The retry loop as written, were the attempts handed on. *)
RetryLoop == [maxAttempts |-> 2, backoff |-> TRUE, breaker |-> TRUE]

AllClients == {NewTripper(config) : config \in Configs} \cup {RetryLoop}

RetryOptions == [attempts |-> 2, backoff |-> TRUE, breaker |-> FALSE]
RetryingClients == {NewTripper(RetryOptions)}

(* WithRetries: a request that failed and can be retried is retried, as    *)
(* often as the option said.                                               *)
ConfiguredRetriesAreMade ==
    \A r \in Requests :
        ret[r] = "response" /\ res[r] \in Retryable => sent[r] = RetryOptions.attempts + 1
=============================================================================
