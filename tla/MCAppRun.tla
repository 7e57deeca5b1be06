------------------------------ MODULE MCAppRun ------------------------------
(* Small instances of AppRun for TLC. *)
EXTENDS AppRun
=============================================================================
