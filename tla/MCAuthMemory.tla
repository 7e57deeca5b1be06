---------------------------- MODULE MCAuthMemory ----------------------------
(* Small instances of AuthMemory for TLC. *)
EXTENDS AuthMemory, TLC

(* Pre-authentication states, which share nothing with the other maps but   *)
(* the pruning of budgets, are created in stores of capacity one only.      *)
SmallNext == Next /\ (capacity > 1 => UNCHANGED browserStates)

SmallSpec == Init /\ [][SmallNext]_vars

(* IDs and addresses are interchangeable: no operator orders them. *)
Symmetry == Permutations(Logins) \cup Permutations(Challenges)
            \cup Permutations(PreAuths) \cup Permutations(Emails)
=============================================================================
