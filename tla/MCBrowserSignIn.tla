-------------------------- MODULE MCBrowserSignIn ---------------------------
(* Small instances of BrowserSignIn for TLC. *)
EXTENDS BrowserSignIn, TLC

Symmetry == Permutations(Slots) \cup Permutations(PreAuths)
              \cup Permutations(Challenges) \cup Permutations(Sessions)
=============================================================================
