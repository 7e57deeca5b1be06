--------------------------- MODULE LoginContract ---------------------------
(***************************************************************************)
(* What a store of one-time sign-in codes promises its callers, whatever   *)
(* keeps the state (auth.Store and auth.SessionStore, auth/auth.go and     *)
(* auth/session.go).  A code is issued once, may be closed at any time     *)
(* (expired, replaced, exhausted, invalidated), and is redeemed at most    *)
(* once; redeeming it is the only way a session begins, and a session that *)
(* has ended stays ended.  The stores are shown to implement this module.  *)
(***************************************************************************)
EXTENDS Integers, FiniteSets

CONSTANTS Challenges,   \* challenge IDs
          Sessions,     \* session IDs
          None          \* no challenge

VARIABLES code,         \* code[ch]: "unissued", "open" or "closed"
          session,      \* session[s]: "none", "live" or "ended"
          grant         \* grant[s]: the challenge that session s was granted for

vars == <<code, session, grant>>

TypeOK ==
    /\ code \in [Challenges -> {"unissued", "open", "closed"}]
    /\ session \in [Sessions -> {"none", "live", "ended"}]
    /\ grant \in [Sessions -> Challenges \cup {None}]

Init ==
    /\ code = [ch \in Challenges |-> "unissued"]
    /\ session = [s \in Sessions |-> "none"]
    /\ grant = [s \in Sessions |-> None]

(* Store.Reserve: a fresh code opens; codes it replaces close with it. *)
Issue(ch, C) ==
    /\ code[ch] = "unissued"
    /\ \A d \in C : code[d] = "open"
    /\ code' = [d \in Challenges |->
                  IF d = ch THEN "open" ELSE IF d \in C THEN "closed" ELSE code[d]]
    /\ UNCHANGED <<session, grant>>

(* Store.Verify, successful: the code is spent and its session begins; a    *)
(* store at its limit may end sessions S to make room.                      *)
Redeem(s, ch, S) ==
    /\ code[ch] = "open"
    /\ session[s] = "none"
    /\ \A r \in S : session[r] = "live"
    /\ code' = [code EXCEPT ![ch] = "closed"]
    /\ session' = [r \in Sessions |->
                     IF r = s THEN "live" ELSE IF r \in S THEN "ended" ELSE session[r]]
    /\ grant' = [grant EXCEPT ![s] = ch]

(* Expiry, exhaustion, rejection, invalidation, logout and revocation. *)
Lapse(C, S) ==
    /\ \A d \in C : code[d] = "open"
    /\ \A s \in S : session[s] = "live"
    /\ code' = [d \in Challenges |-> IF d \in C THEN "closed" ELSE code[d]]
    /\ session' = [s \in Sessions |-> IF s \in S THEN "ended" ELSE session[s]]
    /\ UNCHANGED grant

Next ==
    \/ \E ch \in Challenges, C \in SUBSET Challenges : Issue(ch, C)
    \/ \E s \in Sessions, ch \in Challenges, S \in SUBSET Sessions : Redeem(s, ch, S)
    \/ \E C \in SUBSET Challenges, S \in SUBSET Sessions : Lapse(C, S)

Spec == Init /\ [][Next]_vars
=============================================================================
