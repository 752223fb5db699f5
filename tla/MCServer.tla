------------------------------ MODULE MCServer ------------------------------
(* Server on small instances: the constants are set in the .cfg files.     *)
EXTENDS Server
=============================================================================
