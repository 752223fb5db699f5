----------------------------- MODULE MCListener -----------------------------
(* Listener on small instances: of an HTTP listener, a gRPC listener and   *)
(* an HTTP listener with no address, any two calls of Serve, on two        *)
(* listeners or on the same one.                                           *)
EXTENDS Listener, FiniteSets, TLC

CONSTANTS h, g, e, h1, h2, g1, g2, e1

Targets == (h1 :> h) @@ (h2 :> h) @@ (g1 :> g) @@ (g2 :> g) @@ (e1 :> e)
AllKinds == (h :> "http") @@ (g :> "grpc") @@ (e :> "http")
Addresses == (h :> TRUE) @@ (g :> TRUE) @@ (e :> FALSE)

(* The calls that have been made, or whose context has been cancelled. *)
Touched ==
    {c \in Calls : serve[c] # "none" \/ result[c] # "none" \/ ctxDone[c]}

AtMostTwoCalls == Cardinality(Touched) <= 2

MCNext == Next /\ AtMostTwoCalls'

MCSpec == Init /\ [][MCNext]_vars /\ Fairness
=============================================================================
