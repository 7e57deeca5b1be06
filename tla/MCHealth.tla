------------------------------ MODULE MCHealth ------------------------------
(* Small instances of Health for TLC. *)
EXTENDS Health
=============================================================================
