------------------------------ MODULE Litekit ------------------------------
(***************************************************************************)
(* litekit.Conn: a SQLite database file that may be replicated while it is *)
(* in use and restored from its replica when it is missing.                *)
(*                                                                         *)
(* A program opens the database, writes, closes it, or crashes anywhere;   *)
(* while it is down the disk may be lost.  litestream and SQLite are       *)
(* external: restoring, opening, copying and closing may each fail, a copy *)
(* brings the replica up to the file, and restoring is all or nothing      *)
(* (litestream renames the restored file into place at its end).           *)
(***************************************************************************)
EXTENDS Integers

CONSTANTS AccessModes,    \* the access modes a program may ask for
          MaxWrites,      \* bound: writes in a behaviour
          MaxStreams      \* bound: replications running in one process

LitekitConstants ==
    /\ AccessModes \subseteq {"rwc", "rw", "ro", "memory", "unsupported"}
    /\ MaxWrites \in Nat /\ MaxStreams \in Nat

VARIABLES
    config,    \* what the options have set: [backup, access, journal]
    pc,        \* where New or Close is; "up" in between
    exists,    \* the database file is there
    file,      \* the writes in it
    replica,   \* the writes in the replica ({}: nothing was ever copied)
    streams,   \* litestream databases that are open in the process
    failing,   \* closeErr # nil
    writes,    \* the number of writes so far
    atClose,   \* history: what the file had when Close was called
    promised   \* history: what it had when a Close was called that returned nil

vars == <<config, pc, exists, file, replica, streams, failing, writes, atClose, promised>>
disk == <<exists, file, replica>>
history == <<writes, atClose, promised>>

Contents == SUBSET (1 .. MaxWrites)

(* The modes connString knows are those New can get as far as with; the    *)
(* default journaling mode is WAL.                                         *)
Configs == [backup : BOOLEAN, access : AccessModes, journal : {"known", "unsupported"}]

ConnString(c) == c.access # "unsupported" /\ c.journal = "known"

Init ==
    /\ config \in Configs
    /\ pc = "off"
    /\ exists = FALSE /\ file = {} /\ replica = {}
    /\ streams = 0
    /\ failing = FALSE
    /\ writes = 0 /\ atClose = {} /\ promised = {}

Goto(where) == pc' = where

(* New returns an error.  Nothing it has opened is closed. *)
Fail == Goto("failed") /\ UNCHANGED <<config, disk, streams, failing, history>>

-----------------------------------------------------------------------------
(* New, with the options applied; a program may try again after an error.  *)
New ==
    /\ pc \in {"off", "failed", "closed"}
    /\ streams < MaxStreams
    /\ Goto(IF config.backup THEN "stat" ELSE "connect")
    /\ UNCHANGED <<config, disk, streams, failing, history>>

(* Mutant: a restore is always tried. *)
StatIgnored ==
    /\ pc = "stat"
    /\ Goto("target")
    /\ UNCHANGED <<config, disk, streams, failing, history>>

(* restoreBackup: os.Stat.  A file that is there is left alone. *)
Stat ==
    /\ pc = "stat"
    /\ Goto(IF exists THEN "replicate" ELSE "target")
    /\ UNCHANGED <<config, disk, streams, failing, history>>

StatFails == pc = "stat" /\ Fail

(* replica.CalcRestoreTarget: the zero time if there is no backup. *)
Target ==
    /\ pc = "target"
    /\ Goto(IF replica = {} THEN "replicate" ELSE "restore")
    /\ UNCHANGED <<config, disk, streams, failing, history>>

(* Mutant: a replica that cannot be read is a replica without a backup. *)
TargetFailsOpen ==
    /\ pc = "target"
    /\ Goto("replicate")
    /\ UNCHANGED <<config, disk, streams, failing, history>>

(* The replica cannot be read, or the restore timeout is over (at once if  *)
(* it was left at its zero value and the replica minds the context).       *)
TargetFails == pc = "target" /\ Fail

Restore ==
    /\ pc = "restore"
    /\ exists' = TRUE
    /\ file' = replica
    /\ Goto("replicate")
    /\ UNCHANGED <<config, replica, streams, failing, history>>

RestoreFails == pc = "restore" /\ Fail

(* lsdb.Open, and c.backupDB is set. *)
OpenReplication ==
    /\ pc = "replicate"
    /\ streams' = streams + 1
    /\ Goto("connect")
    /\ UNCHANGED <<config, disk, failing, history>>

OpenReplicationFails == pc = "replicate" /\ Fail

(* sql.Open and the ping that makes the connection: only mode=rwc creates  *)
(* the file, ro and rw need one, memory ignores it.                        *)
Connect ==
    /\ pc = "connect"
    /\ ConnString(config)
    /\ config.access \in {"ro", "rw"} => exists
    /\ exists' = (exists \/ config.access = "rwc")
    /\ Goto("up")
    /\ UNCHANGED <<config, file, replica, streams, failing, history>>

(* The connection string is refused, or the ping fails or times out. *)
ConnectFails == pc = "connect" /\ Fail

-----------------------------------------------------------------------------
Writable == config.access \in {"rwc", "rw"} /\ exists

(* The program writes as long as the handle is open, in Close too: its     *)
(* other goroutines may be at work until DB.Close.                         *)
Write ==
    /\ pc \in {"up", "closing", "closeDB"}
    /\ Writable
    /\ writes < MaxWrites
    /\ writes' = writes + 1
    /\ file' = file \cup {writes + 1}
    /\ UNCHANGED <<config, pc, exists, replica, streams, failing, atClose, promised>>

(* External: litestream copies what is new in the file. *)
Replicate ==
    /\ streams > 0
    /\ exists
    /\ replica' = file
    /\ UNCHANGED <<config, pc, exists, file, streams, failing, history>>

Close ==
    /\ pc = "up"
    /\ atClose' = IF config.access = "memory" THEN {} ELSE file
    /\ Goto(IF config.backup THEN "closing" ELSE "closeDB")
    /\ UNCHANGED <<config, disk, streams, failing, writes, promised>>

(* c.backupDB.Close: a last copy, within defaultBackupCloseTimeout. *)
CloseBackup ==
    /\ pc = "closing"
    /\ replica' = IF exists THEN file ELSE replica
    /\ streams' = streams - 1
    /\ Goto("closeDB")
    /\ UNCHANGED <<config, exists, file, failing, history>>

(* Mutant: the error is only logged. *)
CloseBackupUnreported ==
    /\ pc = "closing"
    /\ streams' = streams - 1
    /\ Goto("closeDB")
    /\ UNCHANGED <<config, disk, failing, history>>

(* It fails or times out; the error is kept and the database closed all    *)
(* the same.                                                               *)
CloseBackupFails ==
    /\ pc = "closing"
    /\ streams' = streams - 1
    /\ failing' = TRUE
    /\ Goto("closeDB")
    /\ UNCHANGED <<config, disk, history>>

(* c.DB.Close, and Close returns the joined errors. *)
CloseDB ==
    /\ pc = "closeDB"
    /\ \E err \in BOOLEAN :
          promised' = IF err \/ failing THEN promised ELSE promised \cup atClose
    /\ failing' = FALSE
    /\ Goto("closed")
    /\ UNCHANGED <<config, disk, streams, writes, atClose>>

(* The process ends, on its own or by a crash: replication with it. *)
Exit ==
    /\ pc # "off"
    /\ Goto("off")
    /\ streams' = 0
    /\ failing' = FALSE
    /\ UNCHANGED <<config, disk, history>>

(* External: the machine is replaced, with an empty disk. *)
LoseDisk ==
    /\ pc = "off"
    /\ exists
    /\ exists' = FALSE
    /\ file' = {}
    /\ UNCHANGED <<config, pc, replica, streams, failing, history>>

Next ==
    \/ New \/ Stat \/ StatFails \/ Target \/ TargetFails \/ Restore \/ RestoreFails
    \/ OpenReplication \/ OpenReplicationFails \/ Connect \/ ConnectFails
    \/ Write \/ Replicate \/ Close \/ CloseBackup \/ CloseBackupFails \/ CloseDB
    \/ Exit \/ LoseDisk

Spec == Init /\ [][Next]_vars

-----------------------------------------------------------------------------
TypeOK ==
    /\ config \in Configs
    /\ pc \in {"off", "failed", "stat", "target", "restore", "replicate", "connect",
               "up", "closing", "closeDB", "closed"}
    /\ exists \in BOOLEAN
    /\ file \in Contents
    /\ ~exists => file = {}
    /\ replica \in Contents /\ atClose \in Contents /\ promised \in Contents
    /\ streams \in 0 .. MaxStreams
    /\ failing \in BOOLEAN
    /\ writes \in 0 .. MaxWrites

(* A database that New has opened with backups has everything the replica  *)
(* has, whatever was lost before: a replica that cannot be read or         *)
(* restored makes New fail, and never starts an empty database beside it,  *)
(* whose next copy would take the backup's place.                          *)
NothingReplicatedIsLost ==
    config.backup /\ pc \in {"up", "closing", "closeDB"} /\ config.access # "memory"
        => /\ exists
           /\ replica \subseteq file

(* What the database had when Close was called, and Close returned nil, is *)
(* in the replica if there are backups, or else in the file for as long as *)
(* there is one: an error of the last copy is not lost.                    *)
CleanCloseKeeps ==
    /\ config.backup => promised \subseteq replica
    /\ pc = "up" /\ config.backup /\ config.access # "memory" => promised \subseteq file

(* As long as the disk is there no step takes a write out of the database: *)
(* a crash leaves writes that were not copied, and the next New, which     *)
(* could restore an older copy, must leave them alone.                     *)
WritesSurvive ==
    [][exists' => file \subseteq file']_vars
=============================================================================
