---------------------------- MODULE MCMigrations ----------------------------
(* Migrations.tla on small instances. *)
EXTENDS Migrations, TLC

CONSTANTS p1, p2, p3

Sym == Permutations(Process)
=============================================================================
