----------------------------- MODULE MCEvolver -----------------------------
(* Evolver with the releases of a small history: one mutation, then two    *)
(* more after a file that is no mutation, then one more.                   *)
EXTENDS Evolver

MutationFiles == {"1.sql", "3.sql", "4.sql", "5.sql"}

First == <<"1.sql">>
Second == <<"1.sql", "2.txt", "3.sql", "4.sql">>
Third == <<"1.sql", "2.txt", "3.sql", "4.sql", "5.sql">>

(* Every release is started, the second one twice. *)
History == [e1 |-> First, e2 |-> Second, e3 |-> Second, e4 |-> Third]

(* The second release is started twice. *)
Twice == [e1 |-> Second, e2 |-> Second]

ASSUME HistoryExtends == ReleasesExtend
=============================================================================
