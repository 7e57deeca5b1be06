---------------------------- MODULE MCAuthRedis ----------------------------
(* Small instances of AuthRedis for TLC. *)
EXTENDS AuthRedis, TLC

(* Calls and challenge IDs are interchangeable: no operator orders them. *)
Symmetry == Permutations(Calls) \cup Permutations(Challenges)
=============================================================================
