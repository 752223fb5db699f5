----------------------------- MODULE MCLitekit -----------------------------
(* A database: a behaviour is one of its schema or of its connection,      *)
(* while the other stays where it begins.                                  *)
EXTENDS MCEvolver, Database

VARIABLE part   \* what this behaviour is of

connection ==
    <<config, step, exists, file, replica, streams, failing, writes, atClose, promised>>

ASSUME ConnectionConstants == Conn!LitekitConstants

LitekitInit ==
    /\ Init /\ Conn!Init
    /\ \/ part = "schema"
          /\ config = [backup |-> FALSE, access |-> "rwc", journal |-> "known"]
       \/ part = "connection"

LitekitNext ==
    \/ part = "schema" /\ Next /\ UNCHANGED <<part, connection>>
    \/ part = "connection" /\ Conn!Next /\ UNCHANGED <<part, vars>>

LitekitSpec == LitekitInit /\ [][LitekitNext]_<<part, vars, connection>>
=============================================================================
