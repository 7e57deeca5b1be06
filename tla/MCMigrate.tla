----------------------------- MODULE MCMigrate -----------------------------
(* A small instance of Migrate for TLC. *)
EXTENDS Migrate, TLC

CONSTANTS j1, j2, j3

(* A release, the one after it, and a branch that misses version 2. *)
Branches == (j1 :> {1, 3}) @@ (j2 :> {1, 2}) @@ (j3 :> {1, 2, 3})
=============================================================================
