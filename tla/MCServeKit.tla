----------------------------- MODULE MCServeKit -----------------------------
(* A server with an HTTP listener and a gRPC listener. *)
EXTENDS ServeKit, TLC

CONSTANTS h, g, n1, n2

OneEach == (n1 :> h) @@ (n2 :> g)
Kinds == (h :> "http") @@ (g :> "grpc")
Addresses == (h :> TRUE) @@ (g :> TRUE)
=============================================================================
