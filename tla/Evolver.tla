------------------------------- MODULE Evolver -------------------------------
(***************************************************************************)
(* litekit.Evolver.MutateSchema: brings a SQLite database to the schema of *)
(* a release.  A release ships a directory of mutation files; the table    *)
(* schema_version remembers how far the database is.                       *)
(*                                                                         *)
(* Each call is a start of the program: it may fail at any statement, it   *)
(* may crash between any two, and several may run on the same database     *)
(* file.  SQLite is external: statements outside a transaction commit by   *)
(* themselves, a transaction takes the write lock with its first write     *)
(* (go-sqlite3 begins it deferred, whatever isolation is asked for) and is *)
(* undone by an error or a crash.                                          *)
(***************************************************************************)
EXTENDS Integers, Sequences, FiniteSetsExt

CONSTANTS Evolvers,     \* the calls of MutateSchema
          Directory,    \* Directory[e]: its mutation directory, sorted by name
          SqlFiles,     \* the files named *.sql
          NoOne         \* the write lock is free

ASSUME EvolverConstants ==
    /\ \A e \in Evolvers : Directory[e] \in Seq(STRING)
    /\ SqlFiles \subseteq STRING
    /\ NoOne \notin Evolvers

(* What MutateSchema relies on, a mutation's version being its place in    *)
(* the directory: a later release adds its files after those of an earlier *)
(* one.  The names in a directory are distinct.                            *)
ReleasesExtend ==
    \A d, e \in Evolvers :
        /\ \A v, w \in DOMAIN Directory[e] : Directory[e][v] = Directory[e][w] => v = w
        /\ Len(Directory[d]) <= Len(Directory[e]) =>
              \A v \in DOMAIN Directory[d] : Directory[e][v] = Directory[d][v]

VARIABLES
    \* The database file.
    table,     \* schema_version: "absent", "empty", or "row" once it has its row
    version,   \* the row's version
    applied,   \* the mutation files whose changes are in the database, in order
    writer,    \* the call whose transaction holds the write lock
    \* The calls.
    pc,        \* pc[e]: the next statement of e
    at,        \* at[e]: the version e has read, then the one e has reached
    tx,        \* tx[e]: the files e has applied in its open transaction
    overlap    \* history: two calls have run at the same time

dbVars == <<table, version, applied>>
vars == <<table, version, applied, writer, pc, at, tx, overlap>>

Ends == {"ok", "error", "crashed"}

Running(e) == pc[e] \notin Ends \cup {"idle"}

Init ==
    /\ table = "absent"
    /\ version = 0
    /\ applied = <<>>
    /\ writer = NoOne
    /\ pc = [e \in Evolvers |-> "idle"]
    /\ at = [e \in Evolvers |-> 0]
    /\ tx = [e \in Evolvers |-> <<>>]
    /\ overlap = FALSE

Goto(e, where) == pc' = [pc EXCEPT ![e] = where]

CanWrite(e) == writer \in {NoOne, e}

(* Whatever the call held is given up: tx.Rollback, or SQLite's recovery. *)
LeaveTx(e) ==
    /\ writer' = IF writer = e THEN NoOne ELSE writer
    /\ tx' = [tx EXCEPT ![e] = <<>>]

-----------------------------------------------------------------------------
(* ensureSchemaVersionTable: is the table there? *)
CheckTable(e) ==
    /\ pc[e] = "idle"
    /\ overlap' = (overlap \/ \E o \in Evolvers : Running(o))
    /\ Goto(e, IF table = "absent" THEN "create" ELSE "read")
    /\ UNCHANGED <<dbVars, writer, at, tx>>

(* The schema script is one Exec and several statements, each of which     *)
(* commits: create table (and index) if not exists, then insert.           *)
CreateTable(e) ==
    /\ pc[e] = "create"
    /\ CanWrite(e)
    /\ table' = IF table = "absent" THEN "empty" ELSE table
    /\ Goto(e, "insert")
    /\ UNCHANGED <<version, applied, writer, at, tx, overlap>>

(* A second row violates the primary key. *)
InsertRow(e) ==
    /\ pc[e] = "insert"
    /\ CanWrite(e)
    /\ table' = "row"
    /\ Goto(e, IF table = "empty" THEN "read" ELSE "error")
    /\ UNCHANGED <<version, applied, writer, at, tx, overlap>>

(* Mutant: the version is looked up and not used. *)
IgnoreVersion(e) ==
    /\ pc[e] = "read"
    /\ Goto(e, IF table = "row" THEN "begin" ELSE "error")
    /\ UNCHANGED <<dbVars, writer, at, tx, overlap>>

(* select ... where id = 0, outside the transaction: no row is an error. *)
ReadVersion(e) ==
    /\ pc[e] = "read"
    /\ IF table = "row"
       THEN Goto(e, "begin") /\ at' = [at EXCEPT ![e] = version]
       ELSE Goto(e, "error") /\ UNCHANGED at
    /\ UNCHANGED <<dbVars, writer, tx, overlap>>

(* The files are loaded, the database file is copied, the transaction is   *)
(* begun; nothing of the database changes.                                 *)
Begin(e) ==
    /\ pc[e] = "begin"
    /\ Goto(e, "tx")
    /\ UNCHANGED <<dbVars, writer, at, tx, overlap>>

(* loadMutations: a mutation's version is its place in the directory, in   *)
(* which files of other kinds count.                                       *)
Mutations(e) == {v \in DOMAIN Directory[e] : Directory[e][v] \in SqlFiles}

(* Mutant: the mutation that follows is skipped. *)
DueLate(e) == {v \in Mutations(e) : v > at[e] + 1}

(* The mutations that are not skipped as already applied. *)
Due(e) == {v \in Mutations(e) : v > at[e]}

(* Mutant: the changes are executed outside the transaction. *)
ApplyOutsideTx(e) ==
    /\ pc[e] = "tx"
    /\ Due(e) # {}
    /\ CanWrite(e)
    /\ LET v == Min(Due(e))
       IN  /\ at' = [at EXCEPT ![e] = v]
           /\ applied' = Append(applied, Directory[e][v])
           /\ version' = v
    /\ UNCHANGED <<table, writer, pc, tx, overlap>>

(* One turn of the loop: the changes and the new version go into the       *)
(* transaction, which has the write lock from its first turn on.           *)
Apply(e) ==
    /\ pc[e] = "tx"
    /\ Due(e) # {}
    /\ CanWrite(e)
    /\ writer' = e
    /\ LET v == Min(Due(e))
       IN  /\ at' = [at EXCEPT ![e] = v]
           /\ tx' = [tx EXCEPT ![e] = Append(@, Directory[e][v])]
    /\ UNCHANGED <<dbVars, pc, overlap>>

(* tx.Commit.  A transaction that wrote nothing commits nothing. *)
Commit(e) ==
    /\ pc[e] = "tx"
    /\ Due(e) = {}
    /\ applied' = applied \o tx[e]
    /\ version' = IF tx[e] = <<>> THEN version ELSE at[e]
    /\ LeaveTx(e)
    /\ Goto(e, "ok")
    /\ UNCHANGED <<table, at, overlap>>

(* A statement, the load or the backup fails, the lock stays busy or the   *)
(* timeout passes: MutateSchema returns an error, its transaction undone.  *)
Fails(e) ==
    /\ Running(e)
    /\ Goto(e, "error")
    /\ LeaveTx(e)
    /\ UNCHANGED <<dbVars, at, overlap>>

(* The program dies; what it had committed stays. *)
Crash(e) ==
    /\ Running(e)
    /\ Goto(e, "crashed")
    /\ LeaveTx(e)
    /\ UNCHANGED <<dbVars, at, overlap>>

Next ==
    \E e \in Evolvers :
        \/ CheckTable(e) \/ CreateTable(e) \/ InsertRow(e) \/ ReadVersion(e)
        \/ Begin(e) \/ Apply(e) \/ Commit(e) \/ Fails(e) \/ Crash(e)

Spec == Init /\ [][Next]_vars

-----------------------------------------------------------------------------
TypeOK ==
    /\ table \in {"absent", "empty", "row"}
    /\ version \in Nat
    /\ applied \in Seq(SqlFiles)
    /\ writer \in Evolvers \cup {NoOne}
    /\ pc \in [Evolvers -> Ends \cup {"idle", "create", "insert", "read", "begin", "tx"}]
    /\ at \in [Evolvers -> Nat]
    /\ tx \in [Evolvers -> Seq(SqlFiles)]
    /\ overlap \in BOOLEAN

Contents == {applied[n] : n \in DOMAIN applied}

(* "Skip already applied mutations": whatever sequence of starts, failures *)
(* and crashes, no mutation is applied to the database twice.              *)
AppliedOnce ==
    \A m, n \in DOMAIN applied : applied[m] = applied[n] => m = n

(* It holds as long as no two starts overlap. *)
AppliedOnceInTurn == ~overlap => AppliedOnce

(* The database has the mutations of e's release and no others, in the     *)
(* order of its directory, and the version of the last of them.            *)
IsRelease(e) ==
    /\ Mutations(e) # {}
    /\ version = Max(Mutations(e))
    /\ Contents = {Directory[e][v] : v \in Mutations(e)}
    /\ \A m, n \in DOMAIN applied, v, w \in Mutations(e) :
          applied[m] = Directory[e][v] /\ applied[n] = Directory[e][w] => (m < n <=> v < w)

(* The schema is always that of a whole release, or none: a start that     *)
(* fails or crashes half way through leaves nothing of its mutations, and  *)
(* an older release started on a newer database takes nothing back.        *)
WholeReleases ==
    ~overlap =>
        \/ applied = <<>> /\ version = 0
        \/ \E e \in Evolvers : IsRelease(e)

(* A MutateSchema that returns nil leaves no mutation of its release out,  *)
(* even if other starts of the program were at work on the same file.      *)
OkMeansApplied ==
    \A e \in Evolvers : pc[e] = "ok" =>
        \A v \in Mutations(e) : Directory[e][v] \in Contents
=============================================================================
