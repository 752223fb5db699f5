------------------------------ MODULE Database ------------------------------
(* A litekit database: the evolution of its schema, as Evolver has it, and *)
(* its connection with the backups, as Conn.  They share nothing.          *)
EXTENDS Evolver

CONSTANTS AccessModes, MaxWrites, MaxStreams   \* of Conn

VARIABLES config, step, exists, file, replica, streams, failing, writes, atClose,
          promised   \* of Conn

Conn == INSTANCE Litekit WITH pc <- step

(* The properties of the connection. *)
NothingReplicatedIsLost == Conn!NothingReplicatedIsLost
CleanCloseKeeps == Conn!CleanCloseKeeps
WritesSurvive == Conn!WritesSurvive
=============================================================================
