----------------------------- MODULE MCM2MToken -----------------------------
(* The token cache under the calls of the management client. *)
EXTENDS Management
=============================================================================
