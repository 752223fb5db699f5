----------------------------- MODULE LitekitProofs -----------------------------
(***************************************************************************)
(* The two parts of litekit.  The connection and its backups, for any      *)
(* access modes and any number of writes and replications; and the         *)
(* evolution of a schema, for any releases and any starts of them.         *)
(***************************************************************************)
EXTENDS Database, WellFoundedInduction, SequenceTheorems, TLAPS

-----------------------------------------------------------------------------
(* The connection.                                                         *)

(* The steps of New that go before the replication is opened; there is     *)
(* room for one more.                                                      *)
StreamsInv ==
    /\ ~config.backup => streams = 0
    /\ step \in {"stat", "target", "restore", "replicate"} =>
          config.backup /\ streams < MaxStreams
    /\ step = "closing" => config.backup
    /\ step \in {"connect", "up", "closing"} /\ config.backup => streams > 0

(* The file is never behind its replica.  New looks for a replica only if  *)
(* there is no file, and goes on without a file only if there is no        *)
(* replica.                                                                *)
FileInv ==
    /\ exists => replica \subseteq file
    /\ ~config.backup => replica = {}
    /\ step \in {"target", "restore"} => ~exists
    /\ step \in {"replicate", "connect"} /\ ~exists => replica = {}
    /\ step \in {"up", "closing", "closeDB"} /\ config.access # "memory" => exists

(* What Close has promised, or will if nothing fails, is replicated. *)
PromiseInv ==
    /\ config.backup => promised \subseteq replica
    /\ step = "closing" => atClose \subseteq file
    /\ step = "closeDB" /\ config.backup /\ ~failing => atClose \subseteq replica

ConnInv == Conn!TypeOK /\ StreamsInv /\ FileInv /\ PromiseInv

(* A program starts in a state of the inductive invariant. *)
LEMMA InitConn == ASSUME Conn!LitekitConstants PROVE Conn!Init => ConnInv
  <1>1. MaxWrites \in Nat /\ MaxStreams \in Nat
    BY DEF Conn!LitekitConstants
  <1>2. Conn!Init => Conn!TypeOK
    <2>1. 0 \in 0 .. MaxStreams /\ 0 \in 0 .. MaxWrites
      BY ONLY <1>1
    <2>2. QED
      BY <2>1, Zenon DEF Conn!Init, Conn!Contents, Conn!TypeOK
  <1>3. Conn!Init => StreamsInv /\ FileInv /\ PromiseInv
    BY DEF Conn!Init, StreamsInv, FileInv, PromiseInv
  <1>4. QED
    BY <1>2, <1>3 DEF ConnInv

(* Every step keeps the types. *)
LEMMA ConnTypes ==
    ASSUME Conn!LitekitConstants, ConnInv, [Conn!Next]_(Conn!vars)
    PROVE  Conn!TypeOK'
  <1>0. MaxWrites \in Nat /\ MaxStreams \in Nat
    BY DEF Conn!LitekitConstants
  <1> USE <1>0
      DEF ConnInv, Conn!TypeOK, Conn!Contents, StreamsInv, Conn!disk, Conn!history,
          Conn!Goto, Conn!Fail
  <1>1. ASSUME Conn!New PROVE Conn!TypeOK'
    BY <1>1 DEF Conn!New
  <1>2. ASSUME Conn!Stat PROVE Conn!TypeOK'
    BY <1>2 DEF Conn!Stat
  <1>3. ASSUME Conn!Fail PROVE Conn!TypeOK'
    BY <1>3
  <1>4. ASSUME Conn!Target PROVE Conn!TypeOK'
    BY <1>4 DEF Conn!Target
  <1>5. ASSUME Conn!Restore PROVE Conn!TypeOK'
    BY <1>5 DEF Conn!Restore
  <1>6. ASSUME Conn!OpenReplication PROVE Conn!TypeOK'
    BY <1>6 DEF Conn!OpenReplication
  <1>7. ASSUME Conn!Connect PROVE Conn!TypeOK'
    BY <1>7 DEF Conn!Connect
  <1>8. ASSUME Conn!Write PROVE Conn!TypeOK'
    BY <1>8 DEF Conn!Write, Conn!Writable
  <1>9. ASSUME Conn!Replicate PROVE Conn!TypeOK'
    BY <1>9 DEF Conn!Replicate
  <1>10. ASSUME Conn!Close PROVE Conn!TypeOK'
    BY <1>10 DEF Conn!Close
  <1>11. ASSUME Conn!CloseBackup PROVE Conn!TypeOK'
    BY <1>11 DEF Conn!CloseBackup
  <1>12. ASSUME Conn!CloseBackupFails PROVE Conn!TypeOK'
    BY <1>12 DEF Conn!CloseBackupFails
  <1>13. ASSUME Conn!CloseDB PROVE Conn!TypeOK'
    BY <1>13 DEF Conn!CloseDB
  <1>14. ASSUME Conn!Exit PROVE Conn!TypeOK'
    <2>1. streams' = 0 /\ failing' = FALSE /\ step' = "off"
      BY <1>14 DEF Conn!Exit
    <2>2. /\ config' = config /\ exists' = exists /\ file' = file /\ replica' = replica
          /\ writes' = writes /\ atClose' = atClose /\ promised' = promised
      BY <1>14, Zenon DEF Conn!Exit
    <2>3. 0 \in 0 .. MaxStreams
      BY ONLY <1>0
    <2>4. QED
      BY <2>1, <2>2, <2>3, Zenon
  <1>15. ASSUME Conn!LoseDisk PROVE Conn!TypeOK'
    BY <1>15 DEF Conn!LoseDisk
  <1>16. CASE UNCHANGED Conn!vars
    BY <1>16 DEF Conn!vars
  <1>17. QED
    BY <1>1, <1>2, <1>3, <1>4, <1>5, <1>6, <1>7, <1>8, <1>9, <1>10, <1>11, <1>12, <1>13,
       <1>14, <1>15, <1>16
       DEF Conn!Next, Conn!StatFails, Conn!TargetFails, Conn!RestoreFails,
           Conn!OpenReplicationFails, Conn!ConnectFails

(* Every step keeps the inductive invariant. *)
LEMMA StepConn ==
    ASSUME Conn!LitekitConstants, ConnInv, [Conn!Next]_(Conn!vars)
    PROVE  ConnInv'
  <1>0. Conn!TypeOK /\ Conn!TypeOK' /\ MaxWrites \in Nat /\ MaxStreams \in Nat
    BY ConnTypes DEF ConnInv, Conn!LitekitConstants
  <1> DEFINE Rest == StreamsInv /\ FileInv /\ PromiseInv
  <1> USE <1>0
      DEF ConnInv, Conn!TypeOK, StreamsInv, FileInv, PromiseInv, Conn!disk, Conn!history,
          Conn!Goto, Conn!Fail
  <1>1. ASSUME Conn!New PROVE Rest'
    BY <1>1 DEF Conn!New
  <1>2. ASSUME Conn!Stat PROVE Rest'
    BY <1>2 DEF Conn!Stat
  <1>3. ASSUME Conn!Fail PROVE Rest'
    BY <1>3
  <1>4. ASSUME Conn!Target PROVE Rest'
    BY <1>4 DEF Conn!Target
  <1>5. ASSUME Conn!Restore PROVE Rest'
    BY <1>5 DEF Conn!Restore
  <1>6. ASSUME Conn!OpenReplication PROVE Rest'
    BY <1>6 DEF Conn!OpenReplication
  <1>7. ASSUME Conn!Connect PROVE Rest'
    <2>1. config.access \in {"rwc", "rw", "ro", "memory", "unsupported"}
      <3>1. AccessModes \subseteq {"rwc", "rw", "ro", "memory", "unsupported"}
        BY DEF Conn!LitekitConstants
      <3>2. QED
        BY <3>1 DEF Conn!Configs
    <2>2. step = "connect" /\ step' = "up" /\ config' = config /\ streams' = streams
          /\ file' = file /\ replica' = replica /\ atClose' = atClose
          /\ promised' = promised /\ failing' = failing
      BY <1>7, Zenon DEF Conn!Connect
    <2>3. exists => exists'
      BY <1>7, Zenon DEF Conn!Connect
    <2>4. exists' /\ ~exists => file = {} /\ replica = {}
      BY <2>2
    <2>5. config.access # "memory" => exists'
      BY <1>7, <2>1 DEF Conn!Connect, Conn!ConnString
    <2>6. StreamsInv'
      BY <2>2
    <2>7. FileInv'
      BY <2>2, <2>3, <2>4, <2>5
    <2>8. PromiseInv'
      BY <2>2
    <2>9. QED
      BY <2>6, <2>7, <2>8
  <1>8. ASSUME Conn!Write PROVE Rest'
    BY <1>8 DEF Conn!Write, Conn!Writable
  <1>9. ASSUME Conn!Replicate PROVE Rest'
    BY <1>9 DEF Conn!Replicate
  <1>10. ASSUME Conn!Close PROVE Rest'
    BY <1>10 DEF Conn!Close
  <1>11. ASSUME Conn!CloseBackup PROVE Rest'
    BY <1>11 DEF Conn!CloseBackup
  <1>12. ASSUME Conn!CloseBackupFails PROVE Rest'
    BY <1>12 DEF Conn!CloseBackupFails
  <1>13. ASSUME Conn!CloseDB PROVE Rest'
    BY <1>13 DEF Conn!CloseDB
  <1>14. ASSUME Conn!Exit PROVE Rest'
    BY <1>14 DEF Conn!Exit
  <1>15. ASSUME Conn!LoseDisk PROVE Rest'
    BY <1>15 DEF Conn!LoseDisk
  <1>16. ASSUME UNCHANGED Conn!vars PROVE Rest'
    BY <1>16 DEF Conn!vars
  <1>17. QED
    BY <1>1, <1>2, <1>3, <1>4, <1>5, <1>6, <1>7, <1>8, <1>9, <1>10, <1>11, <1>12, <1>13,
       <1>14, <1>15, <1>16
       DEF Conn!Next, Conn!StatFails, Conn!TargetFails, Conn!RestoreFails,
           Conn!OpenReplicationFails, Conn!ConnectFails

(* The inductive invariant holds of every behaviour. *)
THEOREM ConnInductive == ASSUME Conn!LitekitConstants PROVE Conn!Spec => []ConnInv
  BY InitConn, StepConn, PTL DEF Conn!Spec

(* An open database with backups has everything its replica has. *)
THEOREM ReplicaIsKept ==
    ASSUME Conn!LitekitConstants
    PROVE  Conn!Spec => []NothingReplicatedIsLost
  <1>1. ConnInv => NothingReplicatedIsLost
    BY DEF ConnInv, FileInv, NothingReplicatedIsLost, Conn!NothingReplicatedIsLost
  <1>2. QED
    BY ConnInductive, <1>1, PTL

(* A Close that returned nil has left everything where New will find it. *)
THEOREM PromisesAreKept ==
    ASSUME Conn!LitekitConstants
    PROVE  Conn!Spec => []CleanCloseKeeps
  <1>1. ConnInv => CleanCloseKeeps
    BY DEF ConnInv, FileInv, PromiseInv, CleanCloseKeeps, Conn!CleanCloseKeeps
  <1>2. QED
    BY ConnInductive, <1>1, PTL

(* While the disk is there no step takes a write out of the database. *)
THEOREM WritesAreKept ==
    ASSUME Conn!LitekitConstants
    PROVE  Conn!Spec => WritesSurvive
  <1>1. ASSUME ConnInv, [Conn!Next]_(Conn!vars)
        PROVE  [exists' => file \subseteq file']_(Conn!vars)
    BY <1>1
       DEF ConnInv, Conn!TypeOK, FileInv, Conn!Next, Conn!New, Conn!Stat, Conn!StatFails,
           Conn!Target, Conn!TargetFails, Conn!Restore, Conn!RestoreFails,
           Conn!OpenReplication, Conn!OpenReplicationFails, Conn!Connect,
           Conn!ConnectFails, Conn!Write, Conn!Replicate, Conn!Close, Conn!CloseBackup,
           Conn!CloseBackupFails, Conn!CloseDB, Conn!Exit, Conn!LoseDisk, Conn!disk,
           Conn!Fail, Conn!Goto
  <1>2. QED
    BY ConnInductive, <1>1, PTL DEF Conn!Spec, WritesSurvive, Conn!WritesSurvive

-----------------------------------------------------------------------------
(* The evolution of a schema: the operators it is made of.                 *)

Less == {p \in Nat \X Nat : p[1] < p[2]}

(* A set of numbers that is not empty has a smallest one, which Min gives. *)
LEMMA MinIsSmallest ==
    ASSUME NEW S \in SUBSET Nat, S # {}
    PROVE  Min(S) \in S /\ \A n \in S : Min(S) <= n
  <1>1. IsWellFoundedOn(Less, Nat)
    BY NatLessThanWellFounded DEF OpToRel, Less
  <1>2. \E n \in S : \A m \in S : <<m, n>> \notin Less
    BY <1>1, WFMin
  <1>3. \A m, n \in S : <<m, n>> \notin Less => n <= m
    BY DEF Less
  <1>4. \E n \in S : \A m \in S : n <= m
    BY <1>2, <1>3
  <1>5. QED
    BY <1>4 DEF Min

(* The mutation files of all releases, and the place of each, which is the *)
(* same in every release that has it.                                      *)
Files == UNION {{Directory[e][v] : v \in Mutations(e)} : e \in Evolvers}

Place(f) == CHOOSE v \in Nat : \E e \in Evolvers : v \in Mutations(e) /\ Directory[e][v] = f

(* The versions of a release are numbers, and its mutations are files.     *)
LEMMA MutationTypes ==
    ASSUME NEW e \in Evolvers
    PROVE  /\ Mutations(e) = {v \in 1 .. Len(Directory[e]) : Directory[e][v] \in SqlFiles}
           /\ Mutations(e) \subseteq Nat \ {0}
           /\ Len(Directory[e]) \in Nat
           /\ \A v \in Mutations(e) : Directory[e][v] \in SqlFiles
  <1>1. Directory[e] \in Seq(STRING)
    BY EvolverConstants
  <1>2. DOMAIN Directory[e] = 1 .. Len(Directory[e]) /\ Len(Directory[e]) \in Nat
    BY <1>1
  <1>3. QED
    BY <1>2 DEF Mutations

(* Releases agree on the mutations up to the end of the shorter one. *)
LEMMA ReleasesAgree ==
    ASSUME ReleasesExtend, NEW d \in Evolvers, NEW e \in Evolvers,
           NEW v \in Mutations(d), v <= Len(Directory[e])
    PROVE  v \in Mutations(e) /\ Directory[e][v] = Directory[d][v]
  <1>1. /\ Len(Directory[d]) \in Nat /\ Len(Directory[e]) \in Nat
        /\ DOMAIN Directory[d] = 1 .. Len(Directory[d])
        /\ DOMAIN Directory[e] = 1 .. Len(Directory[e])
    BY EvolverConstants
  <1>2. v \in 1 .. Len(Directory[d]) /\ v \in 1 .. Len(Directory[e])
    BY <1>1 DEF Mutations
  <1>3. Directory[e][v] = Directory[d][v]
    BY <1>1, <1>2 DEF ReleasesExtend
  <1>4. QED
    BY <1>1, <1>2, <1>3 DEF Mutations

(* Place finds the version of a mutation. *)
LEMMA PlaceOfMutation ==
    ASSUME ReleasesExtend, NEW e \in Evolvers, NEW v \in Mutations(e)
    PROVE  Place(Directory[e][v]) = v /\ Directory[e][v] \in Files
  <1>1. v \in Nat /\ Directory[e][v] \in Files
    BY MutationTypes DEF Files
  <1>2. ASSUME NEW d \in Evolvers, NEW w \in Mutations(d), Directory[d][w] = Directory[e][v]
        PROVE  w = v
    <2>1. /\ Len(Directory[d]) \in Nat /\ Len(Directory[e]) \in Nat
          /\ w \in 1 .. Len(Directory[d]) /\ v \in 1 .. Len(Directory[e])
      BY MutationTypes
    <2>2. CASE Len(Directory[d]) <= Len(Directory[e])
      <3>1. w \in Mutations(e) /\ Directory[e][w] = Directory[d][w]
        BY <2>1, <2>2, ReleasesAgree
      <3>2. QED
        BY <1>2, <3>1 DEF ReleasesExtend, Mutations
    <2>3. CASE Len(Directory[e]) <= Len(Directory[d])
      <3>1. v \in Mutations(d) /\ Directory[d][v] = Directory[e][v]
        BY <2>1, <2>3, ReleasesAgree
      <3>2. QED
        BY <1>2, <3>1 DEF ReleasesExtend, Mutations
    <2>4. QED
      BY <2>1, <2>2, <2>3
  <1>3. QED
    BY <1>1, <1>2 DEF Place

(* A list of mutations from after one version to another, in their order.  *)
Placed(s, from, to) ==
    /\ \A n \in DOMAIN s : s[n] \in Files /\ Place(s[n]) \in Nat
    /\ \A n \in DOMAIN s : from < Place(s[n]) /\ Place(s[n]) <= to
    /\ \A m, n \in DOMAIN s : m < n => Place(s[m]) < Place(s[n])

(* Two such lists, one where the other ends, make one. *)
LEMMA PlacedConcat ==
    ASSUME NEW s \in Seq(SqlFiles), NEW t \in Seq(SqlFiles),
           NEW a \in Nat, NEW b \in Nat, NEW c \in Nat, a <= b, b <= c,
           Placed(s, a, b), Placed(t, b, c)
    PROVE  Placed(s \o t, a, c)
  <1>1. /\ Len(s) \in Nat /\ Len(t) \in Nat
        /\ DOMAIN s = 1 .. Len(s) /\ DOMAIN t = 1 .. Len(t)
        /\ s \o t \in Seq(SqlFiles) /\ Len(s \o t) = Len(s) + Len(t)
        /\ DOMAIN (s \o t) = 1 .. Len(s) + Len(t)
    BY ConcatProperties, LenProperties
  <1>2. \A n \in 1 .. Len(s) : (s \o t)[n] = s[n]
    BY <1>1, ConcatProperties
  <1>3. \A n \in Len(s) + 1 .. Len(s) + Len(t) :
           n - Len(s) \in 1 .. Len(t) /\ (s \o t)[n] = t[n - Len(s)]
    BY <1>1, ConcatProperties
  <1> DEFINE st == s \o t
  <1>4. \A n \in DOMAIN st :
           st[n] \in Files /\ Place(st[n]) \in Nat /\ a < Place(st[n]) /\ Place(st[n]) <= c
    <2> SUFFICES ASSUME NEW n \in 1 .. Len(s) + Len(t)
                 PROVE  /\ st[n] \in Files /\ Place(st[n]) \in Nat
                        /\ a < Place(st[n]) /\ Place(st[n]) <= c
      BY <1>1
    <2>1. CASE n \in 1 .. Len(s)
      BY <1>1, <1>2, <2>1 DEF Placed
    <2>2. CASE n \in Len(s) + 1 .. Len(s) + Len(t)
      BY <1>1, <1>3, <2>2 DEF Placed
    <2>3. QED
      BY <1>1, <2>1, <2>2
  <1>5. ASSUME NEW m \in 1 .. Len(s) + Len(t), NEW n \in 1 .. Len(s) + Len(t), m < n
        PROVE  Place(st[m]) < Place(st[n])
    <2>1. CASE n \in 1 .. Len(s)
      <3>1. m \in DOMAIN s /\ n \in DOMAIN s
        BY <1>1, <1>5, <2>1
      <3>2. st[m] = s[m] /\ st[n] = s[n]
        BY <1>1, <1>2, <3>1
      <3>3. QED
        BY <1>5, <3>1, <3>2 DEF Placed
    <2>2. CASE m \in Len(s) + 1 .. Len(s) + Len(t)
      <3>1. /\ m - Len(s) \in DOMAIN t /\ n - Len(s) \in DOMAIN t
            /\ m - Len(s) < n - Len(s)
        BY <1>1, <1>5, <2>2
      <3>2. st[m] = t[m - Len(s)] /\ st[n] = t[n - Len(s)]
        BY <1>1, <1>3, <1>5, <2>2
      <3>3. QED
        BY <3>1, <3>2 DEF Placed
    <2>3. CASE m \in 1 .. Len(s) /\ n \in Len(s) + 1 .. Len(s) + Len(t)
      <3>1. Place(s[m]) \in Nat /\ Place(s[m]) <= b
        BY <1>1, <2>3 DEF Placed
      <3>2. Place(t[n - Len(s)]) \in Nat /\ b < Place(t[n - Len(s)])
        BY <1>1, <1>3, <2>3 DEF Placed
      <3>3. QED
        BY <1>2, <1>3, <2>3, <3>1, <3>2
    <2>4. QED
      BY <1>1, <1>5, <2>1, <2>2, <2>3
  <1>6. QED
    BY <1>1, <1>4, <1>5 DEF Placed
-----------------------------------------------------------------------------
(* The evolution of a schema: the inductive invariant.                     *)

Elements(s) == {s[n] : n \in DOMAIN s}

InTx(e) == Elements(tx[e])

(* Only an open transaction has anything in it, and stands at the version  *)
(* of the last mutation it applied.                                        *)
TxInv ==
    \A e \in Evolvers :
        /\ pc[e] # "tx" => tx[e] = <<>>
        /\ tx[e] # <<>> => at[e] \in Mutations(e)

(* Up to the version that the database or a call is at, no mutation of any *)
(* release is left out, whatever calls overlap.                            *)
CoverInv ==
    \A e \in Evolvers : \A v \in Mutations(e) :
        /\ v <= version => Directory[e][v] \in Contents
        /\ pc[e] \in {"begin", "tx"} /\ v <= at[e] => Directory[e][v] \in Contents \cup InTx(e)
        /\ pc[e] = "ok" => Directory[e][v] \in Contents

(* As long as no calls overlap, the database has the mutations up to its   *)
(* version in their order, which is the end of a release, and the call     *)
(* that runs adds those that follow.                                       *)
TurnInv ==
    ~overlap =>
        /\ \A d, e \in Evolvers : Running(d) /\ Running(e) => d = e
        /\ Placed(applied, 0, version)
        /\ \/ version = 0
           \/ \E e \in Evolvers :
                 version \in Mutations(e) /\ \A v \in Mutations(e) : v <= version
        /\ \A e \in Evolvers :
              /\ pc[e] = "begin" => at[e] = version
              /\ pc[e] = "tx" =>
                    /\ version <= at[e]
                    /\ Placed(tx[e], version, at[e])
                    /\ tx[e] = <<>> => at[e] = version

EvolverInv == TypeOK /\ TxInv /\ CoverInv /\ TurnInv

(* A new database is in a state of the inductive invariant. *)
LEMMA InitEvolver == Init => EvolverInv
  <1> SUFFICES ASSUME Init PROVE EvolverInv
    OBVIOUS
  <1>1. TypeOK
    <2>1. applied \in Seq(SqlFiles) /\ tx \in [Evolvers -> Seq(SqlFiles)]
      BY DEF Init
    <2>2. version \in Nat /\ at \in [Evolvers -> Nat]
      BY DEF Init
    <2>3. QED
      BY <2>1, <2>2, Zenon DEF Init, TypeOK, Ends
  <1>2. TxInv
    BY DEF Init, TxInv
  <1>3. CoverInv
    BY MutationTypes DEF Init, CoverInv
  <1>4. TurnInv
    BY DEF Init, TurnInv, Placed, Running, Ends
  <1>5. QED
    BY <1>1, <1>2, <1>3, <1>4 DEF EvolverInv

(* The mutation that a turn of the loop applies. *)
LEMMA NextDue ==
    ASSUME TypeOK, NEW e \in Evolvers, Due(e) # {}
    PROVE  /\ Min(Due(e)) \in Mutations(e) /\ Min(Due(e)) \in Nat
           /\ Directory[e][Min(Due(e))] \in SqlFiles
           /\ at[e] < Min(Due(e))
           /\ \A v \in Mutations(e) : v < Min(Due(e)) => v <= at[e]
  <1>1. at[e] \in Nat
    BY DEF TypeOK
  <1>2. Due(e) \in SUBSET Nat
    BY MutationTypes DEF Due
  <1>3. Min(Due(e)) \in Due(e) /\ \A v \in Due(e) : Min(Due(e)) <= v
    BY <1>2, MinIsSmallest
  <1>4. \A v \in Mutations(e) : v \in Nat /\ Directory[e][v] \in SqlFiles
    BY MutationTypes
  <1>5. QED
    BY <1>1, <1>3, <1>4 DEF Due

(* Every step keeps the types. *)
LEMMA EvolverTypes == ASSUME EvolverInv, [Next]_vars PROVE TypeOK'
  <1> USE DEF EvolverInv, TypeOK, Goto, LeaveTx, Ends, Running, dbVars
  <1>1. ASSUME NEW e \in Evolvers, CheckTable(e) PROVE TypeOK'
    BY <1>1 DEF CheckTable
  <1>2. ASSUME NEW e \in Evolvers, CreateTable(e) PROVE TypeOK'
    BY <1>2 DEF CreateTable
  <1>3. ASSUME NEW e \in Evolvers, InsertRow(e) PROVE TypeOK'
    BY <1>3 DEF InsertRow
  <1>4. ASSUME NEW e \in Evolvers, ReadVersion(e) PROVE TypeOK'
    BY <1>4 DEF ReadVersion
  <1>5. ASSUME NEW e \in Evolvers, Begin(e) PROVE TypeOK'
    BY <1>5 DEF Begin
  <1>6. ASSUME NEW e \in Evolvers, Apply(e) PROVE TypeOK'
    BY <1>6, NextDue DEF Apply
  <1>7. ASSUME NEW e \in Evolvers, Commit(e) PROVE TypeOK'
    BY <1>7, ConcatProperties DEF Commit
  <1>8. ASSUME NEW e \in Evolvers, Fails(e) PROVE TypeOK'
    BY <1>8 DEF Fails
  <1>9. ASSUME NEW e \in Evolvers, Crash(e) PROVE TypeOK'
    BY <1>9 DEF Crash
  <1>10. CASE UNCHANGED vars
    BY <1>10 DEF vars
  <1>11. QED
    BY <1>1, <1>2, <1>3, <1>4, <1>5, <1>6, <1>7, <1>8, <1>9, <1>10 DEF Next
(* Only Apply and Commit change what is in the database or a transaction   *)
(* otherwise than by giving it up.                                         *)
LEMMA TxStep == ASSUME EvolverInv, [Next]_vars PROVE TxInv'
  <1>0. TypeOK /\ TypeOK'
    BY EvolverTypes DEF EvolverInv
  <1> USE <1>0 DEF EvolverInv, TxInv, TypeOK, Goto, LeaveTx, Ends, Running, dbVars
  <1>1. ASSUME NEW e \in Evolvers, CheckTable(e) PROVE TxInv'
    BY <1>1 DEF CheckTable, Mutations
  <1>2. ASSUME NEW e \in Evolvers, CreateTable(e) PROVE TxInv'
    BY <1>2 DEF CreateTable, Mutations
  <1>3. ASSUME NEW e \in Evolvers, InsertRow(e) PROVE TxInv'
    BY <1>3 DEF InsertRow, Mutations
  <1>4. ASSUME NEW e \in Evolvers, ReadVersion(e) PROVE TxInv'
    BY <1>4 DEF ReadVersion, Mutations
  <1>5. ASSUME NEW e \in Evolvers, Begin(e) PROVE TxInv'
    BY <1>5 DEF Begin, Mutations
  <1>6. ASSUME NEW e \in Evolvers, Apply(e) PROVE TxInv'
    BY <1>6, NextDue DEF Apply, Mutations
  <1>7. ASSUME NEW e \in Evolvers, Commit(e) PROVE TxInv'
    BY <1>7 DEF Commit, Mutations
  <1>8. ASSUME NEW e \in Evolvers, Fails(e) PROVE TxInv'
    BY <1>8 DEF Fails, Mutations
  <1>9. ASSUME NEW e \in Evolvers, Crash(e) PROVE TxInv'
    BY <1>9 DEF Crash, Mutations
  <1>10. CASE UNCHANGED vars
    BY <1>10 DEF vars, Mutations
  <1>11. QED
    BY <1>1, <1>2, <1>3, <1>4, <1>5, <1>6, <1>7, <1>8, <1>9, <1>10 DEF Next

(* The elements of a sequence of one. *)
LEMMA ElementsOfOne == ASSUME NEW x PROVE Elements(<<x>>) = {x}
  BY DEF Elements

(* A commit brings in what the transaction has. *)
LEMMA ContentsOfCommit ==
    ASSUME NEW s \in Seq(SqlFiles), NEW t \in Seq(SqlFiles)
    PROVE  Elements(s \o t) = Elements(s) \cup Elements(t)
  <1>1. /\ Len(s) \in Nat /\ Len(t) \in Nat
        /\ DOMAIN s = 1 .. Len(s) /\ DOMAIN t = 1 .. Len(t)
        /\ s \o t \in Seq(SqlFiles) /\ Len(s \o t) = Len(s) + Len(t)
        /\ DOMAIN (s \o t) = 1 .. Len(s) + Len(t)
    BY ConcatProperties, LenProperties
  <1>2. \A n \in 1 .. Len(s) + Len(t) :
           (s \o t)[n] = IF n <= Len(s) THEN s[n] ELSE t[n - Len(s)]
    BY ConcatProperties
  <1> DEFINE st == s \o t
  <1>3. ASSUME NEW n \in 1 .. Len(s) + Len(t)
        PROVE  st[n] \in {s[k] : k \in DOMAIN s} \cup {t[k] : k \in DOMAIN t}
    <2>1. CASE n <= Len(s)
      BY <1>1, <1>2, <2>1
    <2>2. CASE n > Len(s)
      <3>1. n - Len(s) \in DOMAIN t /\ st[n] = t[n - Len(s)]
        BY <1>1, <1>2, <2>2
      <3>2. QED
        BY <3>1
    <2>3. QED
      BY <1>1, <2>1, <2>2
  <1>4. ASSUME NEW k \in DOMAIN s PROVE s[k] \in {st[n] : n \in DOMAIN st}
    <2>1. k \in DOMAIN st /\ st[k] = s[k]
      BY <1>1, <1>2
    <2>2. QED
      BY <2>1
  <1>5. ASSUME NEW k \in DOMAIN t PROVE t[k] \in {st[n] : n \in DOMAIN st}
    <2>1. k + Len(s) \in DOMAIN st /\ st[k + Len(s)] = t[k]
      BY <1>1, <1>2
    <2>2. QED
      BY <2>1
  <1>6. QED
    BY <1>1, <1>3, <1>4, <1>5 DEF Elements

(* No step leaves a mutation out. *)
LEMMA CoverStep ==
    ASSUME ReleasesExtend, EvolverInv, [Next]_vars
    PROVE  CoverInv'
  <1>0. TypeOK /\ TypeOK' /\ TxInv /\ TxInv' /\ CoverInv
    BY EvolverTypes, TxStep DEF EvolverInv
  <1>a. \A e \in Evolvers : \A v \in Mutations(e) : v \in Nat
    BY MutationTypes
  <1> USE <1>0, <1>a DEF TypeOK, Goto, LeaveTx, Ends, Running, dbVars
  <1>1. ASSUME NEW e \in Evolvers, CheckTable(e) PROVE CoverInv'
    BY <1>1 DEF CheckTable, CoverInv, Contents, InTx, Elements, Mutations
  <1>2. ASSUME NEW e \in Evolvers, CreateTable(e) PROVE CoverInv'
    BY <1>2 DEF CreateTable, CoverInv, Contents, InTx, Elements, Mutations
  <1>3. ASSUME NEW e \in Evolvers, InsertRow(e) PROVE CoverInv'
    BY <1>3 DEF InsertRow, CoverInv, Contents, InTx, Elements, Mutations
  <1>4. ASSUME NEW e \in Evolvers, ReadVersion(e) PROVE CoverInv'
    BY <1>4 DEF ReadVersion, CoverInv, Contents, InTx, Elements, Mutations
  <1>5. ASSUME NEW e \in Evolvers, Begin(e) PROVE CoverInv'
    BY <1>5 DEF Begin, CoverInv, Contents, InTx, Elements, Mutations
  <1>6. ASSUME NEW e \in Evolvers, Apply(e) PROVE CoverInv'
    <2> DEFINE v == Min(Due(e))
               f == Directory[e][v]
    <2>1. /\ v \in Mutations(e) /\ v \in Nat /\ f \in SqlFiles
          /\ \A w \in Mutations(e) : w < v => w <= at[e]
      BY <1>6, NextDue DEF Apply
    <2>2. /\ pc[e] = "tx" /\ pc' = pc /\ version' = version /\ applied' = applied
          /\ at' = [at EXCEPT ![e] = v]
          /\ tx' = [tx EXCEPT ![e] = Append(@, f)]
      BY <1>6 DEF Apply
    <2>3. InTx(e)' = InTx(e) \cup {f}
      <3>1. tx[e] \in Seq(SqlFiles) /\ tx'[e] = tx[e] \o <<f>> /\ <<f>> \in Seq(SqlFiles)
        BY <2>1, <2>2
      <3>2. Elements(<<f>>) = {f}
        BY ElementsOfOne
      <3>3. Elements(tx[e] \o <<f>>) = Elements(tx[e]) \cup Elements(<<f>>)
        BY <3>1, ContentsOfCommit
      <3>4. QED
        BY <3>1, <3>2, <3>3, Zenon DEF InTx
    <2>4. \A d \in Evolvers \ {e} : InTx(d)' = InTx(d) /\ at'[d] = at[d]
      BY <2>2 DEF InTx
    <2>5. ASSUME NEW w \in Mutations(e), w <= v
          PROVE  Directory[e][w] \in Contents \cup InTx(e)'
      BY <2>1, <2>2, <2>3, <2>5 DEF CoverInv
    <2>6. Contents' = Contents
      BY <2>2 DEF Contents
    <2>7. QED
      BY <2>2, <2>4, <2>5, <2>6 DEF CoverInv, Mutations
  <1>7. ASSUME NEW e \in Evolvers, Commit(e) PROVE CoverInv'
    <2>1. /\ pc[e] = "tx" /\ pc' = [pc EXCEPT ![e] = "ok"] /\ at' = at
          /\ applied' = applied \o tx[e]
          /\ version' = IF tx[e] = <<>> THEN version ELSE at[e]
          /\ tx' = [tx EXCEPT ![e] = <<>>]
          /\ \A v \in Mutations(e) : v <= at[e]
      BY <1>7 DEF Commit, Due
    <2>2. Contents' = Contents \cup InTx(e)
      <3>1. Elements(applied \o tx[e]) = Elements(applied) \cup Elements(tx[e])
        BY ContentsOfCommit
      <3>2. Contents = Elements(applied) /\ Contents' = Elements(applied')
        BY DEF Contents, Elements
      <3>3. QED
        BY <2>1, <3>1, <3>2, Zenon DEF InTx
    <2>3. \A d \in Evolvers \ {e} : InTx(d)' = InTx(d) /\ pc'[d] = pc[d]
      BY <2>1 DEF InTx
    <2>4. \A v \in Mutations(e) : Directory[e][v] \in Contents'
      BY <2>1, <2>2 DEF CoverInv
    <2>5. ASSUME NEW d \in Evolvers, NEW v \in Mutations(d), v <= version'
          PROVE  Directory[d][v] \in Contents'
      <3>1. CASE tx[e] = <<>>
        BY <2>1, <2>2, <2>5, <3>1 DEF CoverInv
      <3>2. CASE tx[e] # <<>>
        <4>1. v <= at[e] /\ at[e] \in Mutations(e)
          BY <2>1, <2>5, <3>2 DEF TxInv
        <4>2. v <= Len(Directory[e])
          <5>1. at[e] \in 1 .. Len(Directory[e]) /\ Len(Directory[e]) \in Nat /\ v \in Nat
            BY <4>1, MutationTypes
          <5>2. QED
            BY <4>1, <5>1
        <4>3. v \in Mutations(e) /\ Directory[e][v] = Directory[d][v]
          BY <4>2, ReleasesAgree
        <4>4. QED
          BY <2>4, <4>3
      <3>3. QED
        BY <3>1, <3>2
    <2>6. ASSUME NEW d \in Evolvers, NEW v \in Mutations(d),
                 pc'[d] \in {"begin", "tx"}, v <= at'[d]
          PROVE  Directory[d][v] \in Contents' \cup InTx(d)'
      <3>1. d # e /\ pc[d] \in {"begin", "tx"} /\ v <= at[d] /\ InTx(d)' = InTx(d)
        BY <2>1, <2>3, <2>6
      <3>2. Directory[d][v] \in Contents \cup InTx(d)
        BY <3>1 DEF CoverInv
      <3>3. QED
        BY <2>2, <3>1, <3>2
    <2>7. ASSUME NEW d \in Evolvers, NEW v \in Mutations(d), pc'[d] = "ok"
          PROVE  Directory[d][v] \in Contents'
      <3>1. CASE d = e
        BY <2>4, <3>1
      <3>2. CASE d # e
        BY <2>2, <2>3, <2>7, <3>2 DEF CoverInv
      <3>3. QED
        BY <3>1, <3>2
    <2>8. QED
      BY <2>5, <2>6, <2>7 DEF CoverInv, Mutations
  <1>8. ASSUME NEW e \in Evolvers, Fails(e) PROVE CoverInv'
    BY <1>8 DEF Fails, CoverInv, Contents, InTx, Elements, Mutations
  <1>9. ASSUME NEW e \in Evolvers, Crash(e) PROVE CoverInv'
    BY <1>9 DEF Crash, CoverInv, Contents, InTx, Elements, Mutations
  <1>10. CASE UNCHANGED vars
    BY <1>10 DEF vars, CoverInv, Contents, InTx, Elements, Mutations
  <1>11. QED
    BY <1>1, <1>2, <1>3, <1>4, <1>5, <1>6, <1>7, <1>8, <1>9, <1>10 DEF Next
(* As long as no calls overlap every step leaves the mutations in order.   *)
LEMMA TurnStep ==
    ASSUME ReleasesExtend, EvolverInv, [Next]_vars
    PROVE  TurnInv'
  <1>0. TypeOK /\ TypeOK' /\ TxInv /\ TurnInv
    BY EvolverTypes DEF EvolverInv
  <1>a. \A e \in Evolvers : \A v \in Mutations(e) : v \in Nat
    BY MutationTypes
  <1> SUFFICES ASSUME ~overlap' PROVE TurnInv'
    BY DEF TurnInv
  <1>b. ~overlap
    BY <1>0 DEF Next, CheckTable, CreateTable, InsertRow, ReadVersion, Begin, Apply, Commit,
                Fails, Crash, vars, TypeOK
  <1> DEFINE Whole ==
                 \/ version = 0
                 \/ \E e \in Evolvers :
                       version \in Mutations(e) /\ \A v \in Mutations(e) : v <= version
  <1>c. /\ \A d, e \in Evolvers : Running(d) /\ Running(e) => d = e
        /\ Placed(applied, 0, version)
        /\ Whole
        /\ \A e \in Evolvers :
              /\ pc[e] = "begin" => at[e] = version
              /\ pc[e] = "tx" =>
                    /\ version <= at[e]
                    /\ Placed(tx[e], version, at[e])
                    /\ tx[e] = <<>> => at[e] = version
    BY <1>0, <1>b DEF TurnInv
  (* A step of the only call that runs, or the first one, which leaves what  *)
  (* was committed alone.                                                    *)
  <1>d. ASSUME NEW e \in Evolvers,
               applied' = applied /\ version' = version,
               \A o \in Evolvers \ {e} : ~Running(o) /\ pc'[o] = pc[o],
               pc'[e] = "begin" => at'[e] = version,
               pc'[e] = "tx" => /\ version <= at'[e]
                                /\ Placed(tx'[e], version, at'[e])
                                /\ tx'[e] = <<>> => at'[e] = version
        PROVE  TurnInv'
    <2>1. \A o \in Evolvers \ {e} :
             ~Running(o)' /\ pc'[o] # "begin" /\ pc'[o] # "tx"
      BY <1>d DEF Running, Ends
    <2>2. Placed(applied, 0, version)'
      BY <1>c, <1>d
    <2>3. Whole'
      BY <1>c, <1>d DEF Mutations
    <2>4. pc'[e] = "tx" => Placed(tx[e], version, at[e])'
      BY <1>d
    <2>5. QED
      BY <1>d, <2>1, <2>2, <2>3, <2>4 DEF TurnInv
  <1>e. ASSUME NEW e \in Evolvers, Running(e)
        PROVE  \A o \in Evolvers \ {e} : ~Running(o)
    BY <1>c, <1>e
  <1> USE <1>0 DEF Goto, TypeOK, Ends
  <1>1. ASSUME NEW e \in Evolvers, CheckTable(e) PROVE TurnInv'
    <2>1. \A o \in Evolvers : ~Running(o)
      BY <1>1 DEF CheckTable
    <2>2. /\ applied' = applied /\ version' = version
          /\ pc'[e] \in {"create", "read"}
          /\ \A o \in Evolvers \ {e} : pc'[o] = pc[o]
      BY <1>1 DEF CheckTable, dbVars
    <2>3. QED
      BY <1>d, <2>1, <2>2
  <1>2. ASSUME NEW e \in Evolvers, CreateTable(e) \/ InsertRow(e) \/ Fails(e) \/ Crash(e)
        PROVE  TurnInv'
    <2>1. /\ applied' = applied /\ version' = version /\ Running(e)
          /\ pc'[e] \in {"insert", "read", "error", "crashed"}
          /\ \A o \in Evolvers \ {e} : pc'[o] = pc[o]
      BY <1>2 DEF CreateTable, InsertRow, Fails, Crash, dbVars, Running
    <2>2. QED
      BY <1>d, <1>e, <2>1
  <1>3. ASSUME NEW e \in Evolvers, ReadVersion(e) PROVE TurnInv'
    <2>1. /\ applied' = applied /\ version' = version /\ Running(e)
          /\ (pc'[e] = "begin" /\ at'[e] = version) \/ pc'[e] = "error"
          /\ \A o \in Evolvers \ {e} : pc'[o] = pc[o]
      BY <1>3 DEF ReadVersion, dbVars, Running
    <2>2. QED
      BY <1>d, <1>e, <2>1
  <1>4. ASSUME NEW e \in Evolvers, Begin(e) PROVE TurnInv'
    <2>1. /\ applied' = applied /\ version' = version /\ Running(e)
          /\ pc'[e] = "tx" /\ at'[e] = version /\ tx'[e] = <<>>
          /\ \A o \in Evolvers \ {e} : pc'[o] = pc[o]
      BY <1>4, <1>c DEF Begin, dbVars, Running, TxInv
    <2>2. Placed(tx'[e], version, at'[e])
      BY <2>1 DEF Placed
    <2>3. version <= at'[e]
      BY <2>1
    <2>4. QED
      BY <1>d, <1>e, <2>1, <2>2, <2>3
  <1>5. ASSUME NEW e \in Evolvers, Apply(e) PROVE TurnInv'
    <2> DEFINE v == Min(Due(e))
               f == Directory[e][v]
    <2>1. v \in Mutations(e) /\ v \in Nat /\ f \in SqlFiles /\ at[e] < v
      BY <1>5, NextDue DEF Apply
    <2>2. /\ applied' = applied /\ version' = version
          /\ pc[e] = "tx" /\ Running(e) /\ pc' = pc
          /\ at'[e] = v /\ tx'[e] = Append(tx[e], f)
      BY <1>5 DEF Apply, dbVars, Running
    <2>3. tx[e] \in Seq(SqlFiles) /\ <<f>> \in Seq(SqlFiles) /\ tx'[e] = tx[e] \o <<f>>
      <3>1. tx[e] \in Seq(SqlFiles)
        BY <1>0
      <3>2. QED
        BY ONLY <2>1, <2>2, <3>1
    <2>4. version <= at[e] /\ Placed(tx[e], version, at[e])
      BY <1>c, <2>2
    <2>5. Placed(<<f>>, at[e], v)
      <3>1. f \in Files /\ Place(f) = v
        BY <2>1, PlaceOfMutation
      <3>2. /\ DOMAIN <<f>> = {1} /\ <<f>>[1] = f
            /\ at[e] \in Nat /\ v \in Nat /\ at[e] < v
        BY <2>1
      <3>3. QED
        BY ONLY <3>1, <3>2 DEF Placed
    <2>6. Placed(tx[e] \o <<f>>, version, v)
      <3>1. version \in Nat /\ at[e] \in Nat /\ at[e] <= v
        BY <2>1
      <3>2. QED
        BY <2>1, <2>3, <2>4, <2>5, <3>1, PlacedConcat
    <2>7. version <= v /\ tx'[e] # <<>>
      <3>1. version \in Nat /\ at[e] \in Nat /\ tx[e] \in Seq(SqlFiles)
        BY <1>0
      <3>2. version <= v
        BY ONLY <2>1, <2>4, <3>1
      <3>3. tx[e] \o <<f>> # <<>>
        BY ONLY <2>3, <3>1
      <3>4. QED
        BY <2>3, <3>2, <3>3, Zenon
    <2>8. QED
      BY <1>d, <1>e, <2>2, <2>3, <2>6, <2>7
  <1>6. ASSUME NEW e \in Evolvers, Commit(e) PROVE TurnInv'
    <2>1. /\ pc[e] = "tx" /\ Running(e) /\ pc'[e] = "ok"
          /\ \A o \in Evolvers \ {e} : pc'[o] = pc[o]
          /\ applied' = applied \o tx[e]
          /\ version' = IF tx[e] = <<>> THEN version ELSE at[e]
          /\ \A v \in Mutations(e) : v <= at[e]
      <3>1. /\ pc[e] = "tx" /\ pc' = [pc EXCEPT ![e] = "ok"]
            /\ applied' = applied \o tx[e]
            /\ version' = IF tx[e] = <<>> THEN version ELSE at[e]
            /\ Due(e) = {}
        BY <1>6, Zenon DEF Commit, Goto
      <3>2. at[e] \in Nat /\ \A v \in Mutations(e) : ~(v > at[e])
        BY <1>0, <3>1 DEF Due
      <3>3. \A v \in Mutations(e) : v <= at[e]
        BY <1>a, <3>2
      <3>4. Running(e) /\ pc'[e] = "ok" /\ \A o \in Evolvers \ {e} : pc'[o] = pc[o]
        BY <3>1 DEF Running
      <3>5. QED
        BY <3>1, <3>3, <3>4
    <2>2. /\ version <= at[e] /\ Placed(tx[e], version, at[e])
          /\ tx[e] = <<>> => at[e] = version
      BY <1>c, <2>1
    <2>3. version' = at[e]
      BY <2>1, <2>2
    <2>4. Placed(applied \o tx[e], 0, at[e])
      <3>1. version \in Nat /\ at[e] \in Nat /\ 0 <= version
        OBVIOUS
      <3>2. QED
        BY <1>c, <2>2, <3>1, PlacedConcat
    <2>5. Placed(applied, 0, version)'
      BY <2>1, <2>3, <2>4
    <2>6. Whole'
      <3>1. CASE tx[e] = <<>>
        BY <1>c, <2>2, <2>3, <3>1 DEF Mutations
      <3>2. CASE tx[e] # <<>>
        BY <2>1, <2>3, <3>2 DEF TxInv, Mutations
      <3>3. QED
        BY <3>1, <3>2
    <2>7. \A o \in Evolvers : ~Running(o)' /\ pc'[o] # "begin" /\ pc'[o] # "tx"
      BY <1>e, <2>1 DEF Running
    <2>8. QED
      BY <2>5, <2>6, <2>7 DEF TurnInv
  <1>7. CASE UNCHANGED vars
    <2>1. applied' = applied /\ version' = version /\ pc' = pc /\ at' = at /\ tx' = tx
      BY <1>7 DEF vars
    <2>2. Whole'
      BY <1>c, <2>1 DEF Mutations
    <2>3. \A d, e \in Evolvers : Running(d)' /\ Running(e)' => d = e
      BY <1>c, <2>1 DEF Running
    <2>4. QED
      BY <1>c, <2>1, <2>2, <2>3 DEF TurnInv
  <1>8. QED
    BY <1>1, <1>2, <1>3, <1>4, <1>5, <1>6, <1>7 DEF Next

(* The inductive invariant holds of every behaviour. *)
THEOREM EvolverInductive == ASSUME ReleasesExtend PROVE Spec => []EvolverInv
  <1>1. EvolverInv /\ [Next]_vars => EvolverInv'
    BY EvolverTypes, TxStep, CoverStep, TurnStep DEF EvolverInv
  <1>2. QED
    BY InitEvolver, <1>1, PTL DEF Spec

(* A MutateSchema that returned nil left no mutation of its release out,   *)
(* even if others were at work on the same file.                           *)
THEOREM NothingIsLeftOut == ASSUME ReleasesExtend PROVE Spec => []OkMeansApplied
  <1>1. EvolverInv => OkMeansApplied
    BY DEF EvolverInv, CoverInv, OkMeansApplied
  <1>2. QED
    BY EvolverInductive, <1>1, PTL

(* While no two starts overlap, no mutation is applied twice. *)
THEOREM MutationsAreAppliedOnce == ASSUME ReleasesExtend PROVE Spec => []AppliedOnceInTurn
  <1>1. EvolverInv => AppliedOnceInTurn
    <2> SUFFICES ASSUME EvolverInv, ~overlap,
                        NEW m \in DOMAIN applied, NEW n \in DOMAIN applied,
                        applied[m] = applied[n]
                 PROVE  m = n
      BY DEF AppliedOnceInTurn, AppliedOnce
    <2>1. applied \in Seq(SqlFiles) /\ Placed(applied, 0, version)
      BY DEF EvolverInv, TypeOK, TurnInv
    <2>2. m \in Nat /\ n \in Nat
      BY <2>1
    <2>3. Place(applied[m]) \in Nat
      BY <2>1 DEF Placed
    <2>4. ~(m < n) /\ ~(n < m)
      BY <2>1, <2>3 DEF Placed
    <2>5. QED
      BY <2>2, <2>4
  <1>2. QED
    BY EvolverInductive, <1>1, PTL

(* While no two starts overlap, the database has whole releases. *)
THEOREM ReleasesAreWhole == ASSUME ReleasesExtend PROVE Spec => []WholeReleases
  <1>1. EvolverInv => WholeReleases
    <2> SUFFICES ASSUME EvolverInv, ~overlap
                 PROVE  \/ applied = <<>> /\ version = 0
                        \/ \E e \in Evolvers : IsRelease(e)
      BY DEF WholeReleases
    <2>1. applied \in Seq(SqlFiles) /\ version \in Nat /\ Placed(applied, 0, version)
      BY DEF EvolverInv, TypeOK, TurnInv
    <2>2. CASE version = 0
      <3>1. DOMAIN applied = {}
        BY <2>1, <2>2 DEF Placed
      <3>2. QED
        BY <2>1, <2>2, <3>1
    <2>3. ASSUME NEW e \in Evolvers,
                 version \in Mutations(e) /\ \A v \in Mutations(e) : v <= version
          PROVE  IsRelease(e)
      <3>1. /\ Mutations(e) \subseteq Nat /\ Len(Directory[e]) \in Nat
            /\ version <= Len(Directory[e])
        BY <2>3, MutationTypes
      <3>2. version = Max(Mutations(e))
        BY <2>3, <3>1 DEF Max
      <3>3. ASSUME NEW n \in DOMAIN applied
            PROVE  \E v \in Mutations(e) : applied[n] = Directory[e][v]
        <4>1. applied[n] \in Files /\ Place(applied[n]) <= version
          BY <2>1 DEF Placed
        <4>2. PICK d \in Evolvers : \E v \in Mutations(d) : applied[n] = Directory[d][v]
          BY <4>1 DEF Files
        <4>3. PICK v \in Mutations(d) : applied[n] = Directory[d][v]
          BY <4>2
        <4>4. v <= version
          BY <4>1, <4>3, PlaceOfMutation
        <4>5. v \in Nat /\ v <= Len(Directory[e])
          BY <2>1, <3>1, <4>4, MutationTypes
        <4>6. QED
          BY <4>3, <4>5, ReleasesAgree
      <3>4. \A v \in Mutations(e) : Directory[e][v] \in Contents
        BY <2>3 DEF EvolverInv, CoverInv
      <3>5. Contents = {Directory[e][v] : v \in Mutations(e)}
        BY <3>3, <3>4 DEF Contents
      <3>6. ASSUME NEW m \in DOMAIN applied, NEW n \in DOMAIN applied,
                   NEW v \in Mutations(e), NEW w \in Mutations(e),
                   applied[m] = Directory[e][v], applied[n] = Directory[e][w]
            PROVE  m < n <=> v < w
        <4>1. Place(applied[m]) = v /\ Place(applied[n]) = w /\ v \in Nat /\ w \in Nat
          BY <3>1, <3>6, PlaceOfMutation
        <4>2. m \in Nat /\ n \in Nat
          BY <2>1
        <4>3. (m < n => v < w) /\ (n < m => w < v) /\ (m = n => v = w)
          BY <2>1, <4>1 DEF Placed
        <4>4. QED
          BY <4>1, <4>2, <4>3
      <3>7. QED
        BY <2>3, <3>2, <3>5, <3>6 DEF IsRelease
    <2>4. QED
      BY <2>2, <2>3 DEF EvolverInv, TurnInv
  <1>2. QED
    BY EvolverInductive, <1>1, PTL

-----------------------------------------------------------------------------
(* The row of schema_version.                                              *)

(* Without its row nothing of a mutation is in the database or on its way  *)
(* there, and no call has got past reading the version.                    *)
RowInv ==
    /\ pc \in [Evolvers -> Ends \cup {"idle", "create", "insert", "read", "begin", "tx"}]
    /\ DOMAIN tx = Evolvers
    /\ table \in {"absent", "empty", "row"}
    /\ table # "row" =>
          /\ applied = <<>> /\ version = 0
          /\ \A e \in Evolvers : tx[e] = <<>> /\ pc[e] \notin {"begin", "tx", "ok"}

(* Every step keeps it. *)
LEMMA RowStep == ASSUME RowInv, [Next]_vars PROVE RowInv'
  <1> USE DEF RowInv, Ends, Goto, dbVars
  <1>1. ASSUME NEW e \in Evolvers, CheckTable(e) PROVE RowInv'
    BY <1>1 DEF CheckTable
  <1>2. ASSUME NEW e \in Evolvers, CreateTable(e) PROVE RowInv'
    BY <1>2 DEF CreateTable
  <1>3. ASSUME NEW e \in Evolvers, InsertRow(e) PROVE RowInv'
    BY <1>3 DEF InsertRow
  <1>4. ASSUME NEW e \in Evolvers, ReadVersion(e) PROVE RowInv'
    BY <1>4 DEF ReadVersion
  <1>5. ASSUME NEW e \in Evolvers, Begin(e) PROVE RowInv'
    BY <1>5 DEF Begin
  <1>6. ASSUME NEW e \in Evolvers, Apply(e) PROVE RowInv'
    <2>1. pc[e] = "tx" /\ pc' = pc /\ table' = table /\ DOMAIN tx' = Evolvers
      BY <1>6 DEF Apply
    <2>2. QED
      BY <2>1
  <1>7. ASSUME NEW e \in Evolvers, Commit(e) PROVE RowInv'
    BY <1>7 DEF Commit, LeaveTx
  <1>8. ASSUME NEW e \in Evolvers, Fails(e) PROVE RowInv'
    BY <1>8 DEF Fails, LeaveTx
  <1>9. ASSUME NEW e \in Evolvers, Crash(e) PROVE RowInv'
    BY <1>9 DEF Crash, LeaveTx
  <1>10. CASE UNCHANGED vars
    BY <1>10 DEF vars
  <1>11. QED
    BY <1>1, <1>2, <1>3, <1>4, <1>5, <1>6, <1>7, <1>8, <1>9, <1>10 DEF Next

(* The row is written first: until schema_version has it, whatever fails,  *)
(* crashes or overlaps, the database has no mutation and no MutateSchema   *)
(* has returned nil.                                                       *)
THEOREM NothingWithoutItsRow ==
    Spec => [](table # "row" =>
                   /\ applied = <<>> /\ version = 0
                   /\ \A e \in Evolvers : pc[e] # "ok")
  <1>1. Init => RowInv
    BY DEF Init, RowInv, Ends
  <1>2. RowInv => (table # "row" => /\ applied = <<>> /\ version = 0
                                   /\ \A e \in Evolvers : pc[e] # "ok")
    BY DEF RowInv
  <1>3. QED
    BY <1>1, <1>2, RowStep, PTL DEF Spec

(* A start that ends between creating the table and inserting its row, and *)
(* no other start that has found the table missing.                        *)
Rowless == table = "empty" /\ \A e \in Evolvers : pc[e] \notin {"create", "insert"}

(* Nobody ever mends that: no later start creates the row, so that by      *)
(* NothingWithoutItsRow none of them ever applies a mutation or returns    *)
(* nil.                                                                    *)
THEOREM RowlessIsForGood == Spec => [][Rowless => Rowless']_vars
  <1>1. Init => RowInv
    BY DEF Init, RowInv, Ends
  <1>2. RowInv /\ [Next]_vars => (Rowless => Rowless')
    <2> SUFFICES ASSUME RowInv, [Next]_vars, Rowless PROVE Rowless'
      OBVIOUS
    <2> DEFINE Onward == Ends \cup {"read", "begin", "tx"}
    <2>1. table' = table
      BY DEF Rowless, Next, CheckTable, CreateTable, InsertRow, ReadVersion, Begin, Apply,
             Commit, Fails, Crash, dbVars, vars
    <2>2. pc' = pc \/ \E e \in Evolvers, where \in Onward : pc' = [pc EXCEPT ![e] = where]
      BY DEF Rowless, Next, CheckTable, CreateTable, InsertRow, ReadVersion, Begin, Apply,
             Commit, Fails, Crash, Goto, Ends, vars
    <2>3. \A where \in Onward : where \notin {"create", "insert"}
      BY DEF Ends
    <2> HIDE DEF Onward
    <2>4. QED
      BY <2>1, <2>2, <2>3 DEF Rowless, RowInv
  <1>3. QED
    BY <1>1, <1>2, RowStep, PTL DEF Spec
=============================================================================
