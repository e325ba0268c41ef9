----------------------------- MODULE MCMigrations -----------------------------
(* An instance of Migrations for TLC: containers which start at the same time. *)
EXTENDS Migrations

CONSTANTS c1, c2

TwoContainers == {c1, c2}
=============================================================================
