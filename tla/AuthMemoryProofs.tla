-------------------------- MODULE AuthMemoryProofs --------------------------
(***************************************************************************)
(* Proofs about AuthMemory for any numbers of calls, codes and addresses,  *)
(* any capacity, lag and limits.  The argument needs no budget: whatever   *)
(* is refused or reclaimed, the active map and the active flags move       *)
(* together, and a redeemed code never becomes active again.               *)
(***************************************************************************)
EXTENDS AuthMemory, TLAPS, FiniteSetTheorems, SequenceTheorems, WellFoundedInduction

MapType ==
    /\ now \in Nat
    /\ challenges \in [Challenges -> StoredChallenge]
    /\ active \in [Emails -> Challenges \cup {None}]

(* A stored active challenge is the one its address names. *)
Flagged(ch) ==
    challenges[ch].state = "stored" /\ challenges[ch].active =>
        challenges[ch].email \in Emails /\ active[challenges[ch].email] = ch

(* What an address names is a stored active challenge of it. *)
Named(e) ==
    active[e] # None =>
        /\ challenges[active[e]].state = "stored"
        /\ challenges[active[e]].active
        /\ challenges[active[e]].email = e

NInv ==
    /\ MapType
    /\ \A ch \in Challenges : Flagged(ch)
    /\ \A e \in Emails : Named(e)

LEMMA NamedSuffices == NInv => ActiveIsNamed
  <1> SUFFICES ASSUME NInv, NEW ch \in Challenges
               PROVE (challenges[ch].state = "stored" /\ challenges[ch].active)
                     <=> \E e \in Emails : active[e] = ch /\ challenges[ch].email = e
    BY DEF ActiveIsNamed
  <1>1. Flagged(ch)  BY DEF NInv
  <1>2. ch # None  BY MemoryAssumption
  <1>3. ASSUME NEW e \in Emails, active[e] = ch
        PROVE challenges[ch].state = "stored" /\ challenges[ch].active
    BY <1>2, <1>3 DEF NInv, Named
  <1> QED  BY <1>1, <1>3 DEF Flagged

LEMMA NInit == Init => NInv
  BY DEF Init, NInv, MapType, StoredChallenge, Flagged, Named

(* The maps without D keep the correspondence. *)
LEMMA Removal ==
    ASSUME NInv, NEW D,
           challenges' = Without(D), active' = Unnamed(D), now' = now
    PROVE NInv'
  <1>1. MapType'
    BY DEF NInv, MapType, Without, Unnamed, StoredChallenge
  <1>2. ASSUME NEW ch \in Challenges PROVE Flagged(ch)'
    <2>1. Flagged(ch)  BY DEF NInv
    <2>2. CASE ch \in D
      BY <2>2 DEF Without, Flagged, NInv, MapType, StoredChallenge
    <2>3. CASE ch \notin D
      BY <2>1, <2>3 DEF Without, Unnamed, Flagged, NInv, MapType
    <2> QED  BY <2>2, <2>3
  <1>3. ASSUME NEW e \in Emails PROVE Named(e)'
    <2>1. Named(e)  BY DEF NInv
    <2>2. active[e] \in Challenges \cup {None}  BY DEF NInv, MapType
    <2>3. CASE active[e] \in D
      BY <2>3 DEF Unnamed, Named
    <2>4. CASE active[e] \notin D
      BY <2>1, <2>2, <2>4 DEF Unnamed, Without, Named
    <2> QED  BY <2>3, <2>4
  <1> QED  BY <1>1, <1>2, <1>3 DEF NInv

(* Reserve's third branch: D is reclaimed, the address's code is replaced. *)
Replaced(D, ch, e, src, t) ==
    /\ challenges' = [d \in Challenges |->
          IF d = ch
          THEN [state |-> "stored", email |-> e, source |-> src,
                issued |-> t, active |-> TRUE, attempts |-> 0]
          ELSE IF d = Unnamed(D)[e]
          THEN [challenges[d] EXCEPT !.active = FALSE]
          ELSE Without(D)[d]]
    /\ active' = [Unnamed(D) EXCEPT ![e] = ch]

LEMMA Storing ==
    ASSUME NInv, NEW D, NEW ch \in Challenges, NEW e \in Emails,
           NEW src \in Sources, NEW t \in Nat,
           challenges[ch].state = "none", now' = now, Replaced(D, ch, e, src, t)
    PROVE NInv'
  <1> USE DEF Replaced
  <1>0. ch # None /\ None \notin Challenges  BY MemoryAssumption
  <1>a. Unnamed(D) \in [Emails -> Challenges \cup {None}]
    BY DEF NInv, MapType, Unnamed
  <1>b. active' = [f \in Emails |-> IF f = e THEN ch ELSE Unnamed(D)[f]]
    BY <1>a
  <1>1. MapType'
    <2>1. Without(D) \in [Challenges -> StoredChallenge]
      BY DEF NInv, MapType, Without, StoredChallenge
    <2>2. ASSUME NEW d \in Challenges PROVE challenges'[d] \in StoredChallenge
      <3>1. challenges[d] \in StoredChallenge  BY DEF NInv, MapType
      <3>2. CASE d = ch  BY <3>2 DEF StoredChallenge
      <3>3. CASE d # ch /\ d = Unnamed(D)[e]
        <4>1. challenges'[d] = [challenges[d] EXCEPT !.active = FALSE]  BY <3>3
        <4> QED  BY <4>1, <3>1 DEF StoredChallenge
      <3>4. CASE d # ch /\ d # Unnamed(D)[e]  BY <3>4, <2>1
      <3> QED  BY <3>2, <3>3, <3>4
    <2>3. challenges' \in [Challenges -> StoredChallenge]  BY <2>2
    <2> QED  BY <2>3, <1>a, <1>b DEF NInv, MapType
  <1>2. ASSUME NEW d \in Challenges PROVE Flagged(d)'
    <2>1. Flagged(d)  BY DEF NInv
    <2>2. CASE d = ch
      BY <2>2, <1>b DEF Flagged
    <2>3. CASE d # ch /\ d = Unnamed(D)[e]
      BY <2>3 DEF Flagged, NInv, MapType, StoredChallenge
    <2>4. CASE d # ch /\ d # Unnamed(D)[e] /\ d \in D
      BY <2>4, ZenonT(40) DEF Flagged, Without, NInv, MapType, StoredChallenge
    <2>5. CASE d # ch /\ d # Unnamed(D)[e] /\ d \notin D
      <3>1. challenges'[d] = challenges[d]  BY <2>5 DEF Without
      <3>2. SUFFICES ASSUME challenges[d].state = "stored", challenges[d].active
                     PROVE challenges[d].email \in Emails /\ active'[challenges[d].email] = d
        BY <3>1 DEF Flagged
      <3>3. challenges[d].email \in Emails /\ active[challenges[d].email] = d
        BY <2>1, <3>2 DEF Flagged
      <3>4. Unnamed(D)[challenges[d].email] = d  BY <3>3, <2>5 DEF Unnamed
      <3>5. challenges[d].email # e  BY <3>4, <2>5
      <3> QED  BY <3>3, <3>4, <3>5, <1>b
    <2> QED  BY <2>2, <2>3, <2>4, <2>5
  <1>3. ASSUME NEW f \in Emails PROVE Named(f)'
    <2>1. Named(f) /\ Named(e)  BY DEF NInv
    <2>2. active[f] \in Challenges \cup {None} /\ active[e] \in Challenges \cup {None}
      BY DEF NInv, MapType
    <2>3. CASE f = e
      <3>1. active'[f] = ch  BY <2>3, <1>b
      <3> QED  BY <3>1, <2>3 DEF Named
    <2>4. CASE f # e /\ active[f] \in D
      <3>1. active'[f] = None  BY <2>4, <1>b DEF Unnamed
      <3> QED  BY <3>1 DEF Named
    <2>5. CASE f # e /\ active[f] \notin D
      <3>1. active'[f] = active[f]  BY <2>5, <1>b DEF Unnamed
      <3>2. SUFFICES ASSUME active[f] # None PROVE Named(f)'
        BY <3>1 DEF Named
      <3>3. active[f] # ch  BY <2>1, <3>2 DEF Named
      <3>4. active[f] # Unnamed(D)[e]
        BY <2>1, <2>2, <2>5, <3>2 DEF Named, Unnamed
      <3>5. challenges'[active[f]] = challenges[active[f]]
        BY <2>2, <2>5, <3>2, <3>3, <3>4 DEF Without
      <3> QED  BY <2>1, <3>1, <3>5 DEF Named
    <2> QED  BY <2>3, <2>4, <2>5
  <1> QED  BY <1>1, <1>2, <1>3 DEF NInv

(* An address loses the code it names: redemption and invalidation. *)
LEMMA Closing ==
    ASSUME NInv, NEW ch \in Challenges, challenges[ch].state = "stored", now' = now,
           challenges' = [challenges EXCEPT ![ch].active = FALSE],
           active' = Unnamed({ch})
    PROVE NInv'
  <1>1. MapType'
    BY DEF NInv, MapType, Unnamed, StoredChallenge
  <1>2. ASSUME NEW d \in Challenges PROVE Flagged(d)'
    BY DEF NInv, MapType, Flagged, Unnamed, StoredChallenge
  <1>3. ASSUME NEW e \in Emails PROVE Named(e)'
    BY MemoryAssumption DEF NInv, MapType, Named, Unnamed
  <1> QED  BY <1>1, <1>2, <1>3 DEF NInv

(* A wrong guess touches neither flag nor map. *)
LEMMA Guessing ==
    ASSUME NInv, NEW ch \in Challenges, now' = now, active' = active,
           challenges' = [challenges EXCEPT ![ch].attempts = @ + 1]
    PROVE NInv'
  <1>1. MapType'
    BY DEF NInv, MapType, StoredChallenge
  <1>2. ASSUME NEW d \in Challenges PROVE Flagged(d)'
    BY DEF NInv, MapType, Flagged, StoredChallenge
  <1>3. ASSUME NEW e \in Emails PROVE Named(e)'
    BY MemoryAssumption DEF NInv, MapType, Named
  <1> QED  BY <1>1, <1>2, <1>3 DEF NInv

LEMMA Untouched ==
    ASSUME NInv, now' \in Nat, UNCHANGED <<challenges, active>>
    PROVE NInv'
  BY DEF NInv, MapType, Flagged, Named

LEMMA ReserveNames ==
    ASSUME NInv, NEW ch \in Challenges, NEW e \in Emails, NEW src \in Sources,
           NEW t \in Nat, Reserve(ch, e, src, t)
    PROVE NInv'
  <1> DEFINE ways == MakeRoom(Stored, Reclaimable(t))
  <1>0. now' = now /\ now \in Nat /\ challenges[ch].state = "none"
    BY DEF Reserve, NInv, MapType
  <1>1. CASE UNCHANGED <<challenges, active>>  BY <1>0, <1>1, Untouched
  <1>2. CASE \E D \in ways : challenges' = Without(D) /\ active' = Unnamed(D)
    BY <1>0, <1>2, Removal
  <1>3. CASE \E D \in ways : Replaced(D, ch, e, src, t)
    BY <1>0, <1>3, Storing
  <1> QED  BY <1>1, <1>2, <1>3 DEF Reserve, Previous, Replaced

LEMMA VerifyNames ==
    ASSUME NInv, NEW l \in Logins, NEW ch \in Challenges, NEW match \in BOOLEAN,
           NEW src \in Sources, NEW t \in Nat, Verify(l, ch, match, src, t)
    PROVE NInv'
  <1>0. now' = now /\ now \in Nat  BY DEF Verify, NInv, MapType
  <1>1. CASE UNCHANGED <<challenges, active>>  BY <1>0, <1>1, Untouched
  <1>2. CASE /\ Redeemable(ch, t)
             /\ challenges' = [challenges EXCEPT ![ch].attempts = @ + 1]
             /\ active' = active
    BY <1>0, <1>2, Guessing
  <1>3. CASE /\ Redeemable(ch, t)
             /\ challenges' = Spent(ch)
             /\ active' = [active EXCEPT ![challenges[ch].email] = None]
    <2>1. challenges[ch].email \in Emails /\ active[challenges[ch].email] = ch
      BY <1>3 DEF Redeemable, NInv, Flagged
    <2>2. ASSUME NEW e \in Emails, active[e] = ch PROVE e = challenges[ch].email
      BY <2>2, MemoryAssumption DEF NInv, Named
    <2>3. active' = Unnamed({ch})
      BY <1>3, <2>1, <2>2 DEF Unnamed, NInv, MapType
    <2> QED  BY <1>0, <1>3, <2>3, Closing DEF Spent, Redeemable
  <1> QED  BY <1>1, <1>2, <1>3 DEF Verify, VerifyLimited, VerifyMatch, VerifyMismatch

LEMMA NNext == NInv /\ [Next]_vars => NInv'
  <1> SUFFICES ASSUME NInv, [Next]_vars PROVE NInv'  OBVIOUS
  <1>0. now \in Nat /\ Stamps \subseteq Nat  BY DEF NInv, MapType, Stamps
  <1>1. CASE Tick  BY <1>1, <1>0, Untouched DEF Tick
  <1>2. ASSUME NEW t \in Stamps, NEW src \in Sources, NEW ch \in Challenges,
               NEW e \in Emails, Reserve(ch, e, src, t)
        PROVE NInv'
    BY <1>0, <1>2, ReserveNames
  <1>3. ASSUME NEW t \in Stamps, NEW src \in Sources, NEW l \in Logins,
               NEW ch \in Challenges, NEW match \in BOOLEAN, Verify(l, ch, match, src, t)
        PROVE NInv'
    BY <1>0, <1>3, VerifyNames
  <1>4. ASSUME NEW ch \in Challenges, Invalidate(ch) PROVE NInv'
    BY <1>4, Closing DEF Invalidate, Stored
  <1>5. CASE now' = now /\ UNCHANGED <<challenges, active>>
    BY <1>0, <1>5, Untouched
  <1>6. ASSUME NEW p \in PreAuths, NEW src \in Sources, NEW t \in Stamps,
               CreatePreAuth(p, src, t)
        PROVE NInv'
    BY <1>5, <1>6 DEF CreatePreAuth
  <1>11. ASSUME NEW p \in PreAuths, NEW t \in Stamps, ConsumePreAuth(p, t)
        PROVE NInv'
    BY <1>5, <1>11 DEF ConsumePreAuth
  <1>7. ASSUME NEW l \in Logins, NEW t \in Stamps,
               AuthenticateSession(l, t) \/ RevokeAllSessions(l, t)
        PROVE NInv'
    BY <1>5, <1>7 DEF AuthenticateSession, RevokeAllSessions, RevokeSessions
  <1>8. ASSUME NEW l \in Logins, RevokeSession(l) PROVE NInv'
    BY <1>5, <1>8 DEF RevokeSession, RevokeSessions
  <1>9. ASSUME NEW e \in Emails, RevokeIdentitySessions(e) PROVE NInv'
    BY <1>5, <1>9 DEF RevokeIdentitySessions, RevokeSessions
  <1>10. CASE UNCHANGED vars  BY <1>5, <1>10 DEF vars
  <1> QED
    BY <1>1, <1>2, <1>3, <1>4, <1>6, <1>11, <1>7, <1>8, <1>9, <1>10
    DEF Next, Request, DeliveryRejected, ServiceVerify, Current, Logout, LogoutAll,
        RevokeIdentity, Bootstrap, Consume

(* Whatever is refused, replaced, redeemed, invalidated or reclaimed, the   *)
(* active map of the store names exactly the active challenges, so Reserve  *)
(* always finds the code it has to replace.                                 *)
THEOREM ActiveMapExact == Spec => []ActiveIsNamed
  <1>1. Spec => []NInv  BY NInit, NNext, PTL DEF Spec
  <1> QED  BY <1>1, NamedSuffices, PTL

-----------------------------------------------------------------------------
(* One session per code                                                    *)

Spending(l) ==
    logins[l].session # "none" =>
        /\ logins[l].ch \in Challenges
        /\ challenges[logins[l].ch].state # "none"
        /\ ~challenges[logins[l].ch].active

(* A code with a session was issued and is inactive, and no two sessions    *)
(* share one.                                                               *)
GInv ==
    /\ logins \in [Logins -> Login]
    /\ \A l \in Logins : Spending(l)
    /\ AtMostOneSession

(* A step that keeps the codes of sessions, and brings no code that has one *)
(* back to life.                                                            *)
StaysSpent ==
    \A ch \in Challenges :
        challenges[ch].state # "none" /\ ~challenges[ch].active
        => challenges'[ch].state # "none" /\ ~challenges'[ch].active

SameGrants ==
    /\ logins' \in [Logins -> Login]
    /\ \A l \in Logins :
         \/ logins'[l].session = "none"
         \/ logins[l].session # "none" /\ logins'[l].ch = logins[l].ch

LEMMA NoNewGrant == ASSUME GInv, StaysSpent, SameGrants PROVE GInv'
  <1>1. ASSUME NEW l \in Logins PROVE Spending(l)'
    BY DEF GInv, StaysSpent, SameGrants, Spending
  <1>2. AtMostOneSession'
    BY DEF GInv, SameGrants, AtMostOneSession
  <1> QED  BY <1>1, <1>2 DEF GInv, SameGrants

LEMMA ReserveSpent ==
    ASSUME NInv, NEW ch \in Challenges, NEW e \in Emails, NEW src \in Sources,
           NEW t \in Nat, Reserve(ch, e, src, t)
    PROVE StaysSpent
  <1> SUFFICES ASSUME NEW d \in Challenges, challenges[d].state # "none", ~challenges[d].active
               PROVE challenges'[d].state # "none" /\ ~challenges'[d].active
    BY DEF StaysSpent
  <1>0. challenges[ch].state = "none" /\ challenges[d] \in StoredChallenge
    BY DEF Reserve, NInv, MapType
  <1>1. CASE UNCHANGED challenges  BY <1>1
  <1>2. ASSUME NEW D, challenges' = Without(D)
        PROVE challenges'[d].state # "none" /\ ~challenges'[d].active
    BY <1>0, <1>2 DEF Without, StoredChallenge
  <1>3. ASSUME NEW D, Replaced(D, ch, e, src, t)
        PROVE challenges'[d].state # "none" /\ ~challenges'[d].active
    BY <1>0, <1>3 DEF Without, Replaced, StoredChallenge
  <1> QED  BY <1>1, <1>2, <1>3 DEF Reserve, Previous, Replaced

(* A successful Verify: the code was active, so no session had it. *)
LEMMA Granting ==
    ASSUME NInv, GInv, NEW l \in Logins, NEW ch \in Challenges, NEW src \in Sources,
           NEW t \in Nat, NEW D, \A k \in D : InMap(k), Redeemable(ch, t),
           logins' = Returned(l, ch, src, t, D, TRUE, FALSE, "active"),
           challenges' = Spent(ch)
    PROVE GInv'
  <1>0. challenges[ch] \in StoredChallenge /\ challenges[ch].active
        /\ challenges[ch].state = "stored"
    BY DEF Redeemable, NInv, MapType
  <1>1. logins' \in [Logins -> Login]
    <2>1. ASSUME NEW k \in Logins PROVE logins'[k] \in Login
      <3>1. logins[k] \in Login  BY DEF GInv
      <3>2. CASE k = l  BY <1>0, <3>2 DEF Returned, Login, StoredChallenge
      <3>3. CASE k # l /\ k \in D
        <4>1. logins'[k] = [logins[k] EXCEPT !.session = "gone"]  BY <3>3 DEF Returned
        <4> QED  BY <4>1, <3>1 DEF Login
      <3>4. CASE k # l /\ k \notin D  BY <3>1, <3>4 DEF Returned
      <3> QED  BY <3>2, <3>3, <3>4
    <2> QED  BY <2>1 DEF Returned
  <1>2. /\ logins'[l].ch = ch
        /\ challenges'[ch].state # "none"
        /\ ~challenges'[ch].active
    BY <1>0 DEF Returned, Spent, NInv, MapType, StoredChallenge
  <1>3. ASSUME NEW k \in Logins, k # l, logins'[k].session # "none"
        PROVE logins[k].session # "none" /\ logins'[k].ch = logins[k].ch
    <2>1. logins[k] \in Login  BY DEF GInv
    <2> QED  BY <1>3, <2>1 DEF Returned, InMap, Login
  <1>4. ASSUME NEW k \in Logins, k # l, logins'[k].session # "none"
        PROVE /\ logins'[k].ch # ch
              /\ logins'[k].ch \in Challenges
              /\ challenges'[logins'[k].ch] = challenges[logins'[k].ch]
    BY <1>0, <1>3, <1>4 DEF GInv, Spending, Spent, NInv, MapType
  <1>5. ASSUME NEW k \in Logins PROVE Spending(k)'
    <2>1. CASE k = l  BY <1>2, <2>1 DEF Spending
    <2>2. CASE k # l /\ logins'[k].session # "none"
      <3>1. logins[k].session # "none" /\ logins'[k].ch = logins[k].ch  BY <1>3, <2>2
      <3>2. challenges'[logins'[k].ch] = challenges[logins'[k].ch]  BY <1>4, <2>2
      <3>3. Spending(k)  BY DEF GInv
      <3> QED  BY <3>1, <3>2, <3>3 DEF Spending
    <2>3. CASE logins'[k].session = "none"  BY <2>3 DEF Spending
    <2> QED  BY <2>1, <2>2, <2>3
  <1>6. AtMostOneSession'
    <2> SUFFICES ASSUME NEW j \in Logins, NEW k \in Logins,
                        logins'[j].session # "none", logins'[k].session # "none",
                        logins'[j].ch = logins'[k].ch
                 PROVE j = k
      BY DEF AtMostOneSession
    <2>1. CASE j = l \/ k = l  BY <1>2, <1>4, <2>1
    <2>2. CASE j # l /\ k # l
      <3>1. logins[j].session # "none" /\ logins'[j].ch = logins[j].ch  BY <1>3, <2>2
      <3>2. logins[k].session # "none" /\ logins'[k].ch = logins[k].ch  BY <1>3, <2>2
      <3> QED  BY <3>1, <3>2 DEF GInv, AtMostOneSession
    <2> QED  BY <2>1, <2>2
  <1> QED  BY <1>1, <1>5, <1>6 DEF GInv

(* A Verify call that grants nothing. *)
LEMMA Refusing ==
    ASSUME NInv, GInv, NEW l \in Logins, NEW ch \in Challenges, NEW src \in Sources,
           NEW t \in Nat, NEW D, \A k \in D : InMap(k),
           NEW charged \in BOOLEAN, NEW failed \in BOOLEAN,
           logins' = Returned(l, ch, src, t, D, charged, failed, "none")
    PROVE SameGrants
  <1>0. challenges[ch] \in StoredChallenge  BY DEF NInv, MapType
  <1>1. ASSUME NEW k \in Logins PROVE logins'[k] \in Login
    <2>1. logins[k] \in Login  BY DEF GInv
    <2>2. CASE k = l  BY <1>0, <2>2 DEF Returned, Login, StoredChallenge
    <2>3. CASE k # l /\ k \in D
      <3>1. logins'[k] = [logins[k] EXCEPT !.session = "gone"]  BY <2>3 DEF Returned
      <3> QED  BY <3>1, <2>1 DEF Login
    <2>4. CASE k # l /\ k \notin D  BY <2>1, <2>4 DEF Returned
    <2> QED  BY <2>2, <2>3, <2>4
  <1>2. logins' \in [Logins -> Login]  BY <1>1 DEF Returned
  <1>3. ASSUME NEW k \in Logins, logins'[k].session # "none"
        PROVE logins[k].session # "none" /\ logins'[k].ch = logins[k].ch
    <2>1. logins[k] \in Login  BY DEF GInv
    <2> QED  BY <1>3, <2>1 DEF Returned, InMap, Login
  <1> QED  BY <1>2, <1>3 DEF SameGrants

LEMMA GNextVerify ==
    ASSUME NInv, GInv, NEW l \in Logins, NEW ch \in Challenges, NEW match \in BOOLEAN,
           NEW src \in Sources, NEW t \in Nat, Verify(l, ch, match, src, t)
    PROVE GInv'
  <1> DEFINE ways == MakeRoom({k \in Logins : InMap(k)}, ReclaimableSessions(t))
             none(D, charged, failed) ==
                logins' = Returned(l, ch, src, t, D, charged, failed, "none")
  <1>1. ASSUME NEW D \in ways PROVE \A k \in D : InMap(k)
    BY DEF MakeRoom, ReclaimableSessions
  <1>2. ASSUME NEW D, \A k \in D : InMap(k), NEW charged \in BOOLEAN,
               NEW failed \in BOOLEAN, none(D, charged, failed), StaysSpent
        PROVE GInv'
    BY <1>2, Refusing, NoNewGrant
  <1>3. UNCHANGED challenges => StaysSpent  BY DEF StaysSpent
  <1>4. challenges' = [challenges EXCEPT ![ch].attempts = @ + 1] => StaysSpent
    BY DEF StaysSpent, NInv, MapType, StoredChallenge
  <1>5. CASE VerifyLimited(l, ch, src, t, Pruned(t))
    <2>1. none({}, FALSE, FALSE) /\ UNCHANGED challenges  BY <1>5 DEF VerifyLimited
    <2> QED  BY <1>2, <1>3, <2>1
  <1>6. CASE none({}, TRUE, FALSE) /\ UNCHANGED challenges
    BY <1>2, <1>3, <1>6
  <1>7. ASSUME NEW c, VerifyMismatch(l, ch, src, t, c) PROVE GInv'
    <2>1. StaysSpent  BY <1>3, <1>4, <1>7 DEF VerifyMismatch
    <2>2. \E failed \in BOOLEAN : none({}, TRUE, failed)  BY <1>7 DEF VerifyMismatch
    <2> QED  BY <1>2, <2>1, <2>2
  <1>8. ASSUME NEW c, VerifyMatch(l, ch, src, t, c), Redeemable(ch, t) PROVE GInv'
    <2>1. CASE none({}, TRUE, FALSE) /\ UNCHANGED challenges  BY <1>6, <2>1
    <2>2. CASE (\E D \in ways : none(D, TRUE, FALSE)) /\ UNCHANGED challenges
      BY <1>1, <1>2, <1>3, <2>2
    <2>3. CASE /\ \E D \in ways : logins' = Returned(l, ch, src, t, D, TRUE, FALSE, "active")
               /\ challenges' = Spent(ch)
      BY <1>1, <1>8, <2>3, Granting
    <2> QED  BY <1>8, <2>1, <2>2, <2>3 DEF VerifyMatch
  <1> QED  BY <1>5, <1>6, <1>7, <1>8 DEF Verify

LEMMA GInit == Init => GInv
  BY DEF Init, GInv, Login, Spending, AtMostOneSession

LEMMA GNext == NInv /\ GInv /\ [Next]_vars => GInv'
  <1> SUFFICES ASSUME NInv, GInv, [Next]_vars PROVE GInv'  OBVIOUS
  <1>0. Stamps \subseteq Nat  BY DEF NInv, MapType, Stamps
  <1>a. UNCHANGED logins => SameGrants  BY DEF SameGrants, GInv
  <1>b. UNCHANGED challenges => StaysSpent  BY DEF StaysSpent
  <1>1. CASE UNCHANGED <<challenges, logins>>
    BY <1>1, <1>a, <1>b, NoNewGrant
  <1>2. ASSUME NEW t \in Stamps, NEW src \in Sources, NEW ch \in Challenges,
               NEW e \in Emails, Reserve(ch, e, src, t)
        PROVE GInv'
    <2>1. UNCHANGED logins  BY <1>2 DEF Reserve
    <2> QED  BY <1>0, <1>2, <1>a, <2>1, ReserveSpent, NoNewGrant
  <1>3. ASSUME NEW t \in Stamps, NEW src \in Sources, NEW l \in Logins,
               NEW ch \in Challenges, NEW match \in BOOLEAN, Verify(l, ch, match, src, t)
        PROVE GInv'
    BY <1>0, <1>3, GNextVerify
  <1>4. ASSUME NEW ch \in Challenges, Invalidate(ch) PROVE GInv'
    <2>1. StaysSpent  BY <1>4 DEF Invalidate, StaysSpent, NInv, MapType, StoredChallenge
    <2> QED  BY <1>4, <1>a, <2>1, NoNewGrant DEF Invalidate
  <1>5. ASSUME NEW p \in PreAuths, NEW src \in Sources, NEW t \in Stamps,
               CreatePreAuth(p, src, t)
        PROVE GInv'
    BY <1>1, <1>5 DEF CreatePreAuth
  <1>6. ASSUME NEW p \in PreAuths, NEW t \in Stamps, ConsumePreAuth(p, t)
        PROVE GInv'
    BY <1>1, <1>6 DEF ConsumePreAuth
  <1>7. ASSUME NEW l \in Logins, NEW t \in Stamps, AuthenticateSession(l, t)
        PROVE GInv'
    <2>1. t \in Nat  BY <1>0
    <2>2. SameGrants  BY <1>7, <2>1 DEF AuthenticateSession, SameGrants, GInv, Login
    <2> QED  BY <1>7, <1>b, <2>2, NoNewGrant DEF AuthenticateSession
  <1>8. ASSUME NEW L, RevokeSessions(L) PROVE GInv'
    <2>1. ASSUME NEW l \in Logins
          PROVE /\ logins'[l] \in Login
                /\ logins'[l].session # "none" => logins[l].session # "none"
                /\ logins'[l].ch = logins[l].ch
      <3>1. logins[l] \in Login  BY DEF GInv
      <3>2. CASE l \in L /\ logins[l].session = "active"
        <4>1. logins'[l] = [logins[l] EXCEPT !.session = "revoked"]
          BY <1>8, <3>2 DEF RevokeSessions
        <4> QED  BY <3>1, <3>2, <4>1 DEF Login
      <3>3. CASE ~(l \in L /\ logins[l].session = "active")
        <4>1. logins'[l] = logins[l]  BY <1>8, <3>3 DEF RevokeSessions
        <4> QED  BY <3>1, <4>1
      <3> QED  BY <3>2, <3>3
    <2>2. SameGrants  BY <1>8, <2>1 DEF SameGrants, RevokeSessions
    <2> QED  BY <1>8, <1>b, <2>2, NoNewGrant DEF RevokeSessions
  <1>9. CASE UNCHANGED vars  BY <1>1, <1>9 DEF vars
  <1>10. CASE Tick  BY <1>1, <1>10 DEF Tick
  <1> QED
    BY <1>2, <1>3, <1>4, <1>5, <1>6, <1>7, <1>8, <1>9, <1>10
    DEF Next, Request, DeliveryRejected, ServiceVerify, Current, Logout, LogoutAll,
        RevokeIdentity, Bootstrap, Consume,
        RevokeSession, RevokeAllSessions, RevokeIdentitySessions

(* For any number of Verify calls racing for the mutex, with late stamps,   *)
(* replaced and reclaimed codes, MemoryStore grants at most one session for *)
(* a code.                                                                  *)
THEOREM MemoryRedeemsOnce == Spec => []AtMostOneSession
  <1>1. Spec => []NInv  BY NInit, NNext, PTL DEF Spec
  <1>2. Spec => []GInv  BY <1>1, GInit, GNext, PTL DEF Spec
  <1>3. GInv => AtMostOneSession  BY DEF GInv
  <1> QED  BY <1>2, <1>3, PTL
-----------------------------------------------------------------------------
(* What is reclaimed is dead                                               *)

LEMMA StampsArePast ==
    ASSUME NInv, NEW t \in Stamps
    PROVE  t \in Nat /\ now \in Nat /\ t <= now /\ now - Lag <= t
  BY MemoryAssumption DEF NInv, MapType, Stamps

LEMMA RoomTaken ==
    ASSUME NEW E, NEW R, NEW D \in MakeRoom(E, R)
    PROVE  D \subseteq R
  BY DEF MakeRoom

LEMMA ReclaimedCode ==
    ASSUME NInv, NEW t \in Stamps, NEW ch \in Reclaimable(t)
    PROVE  ~Redeemable(ch, now)
  <1>1. ch \in Challenges /\ challenges[ch].issued \in Nat
    BY DEF Reclaimable, Stored, NInv, MapType, StoredChallenge
  <1> QED  BY <1>1, StampsArePast, MemoryAssumption DEF Reclaimable, Redeemable

LEMMA ReclaimedSession ==
    ASSUME NInv, GInv, NEW t \in Stamps, NEW l \in ReclaimableSessions(t)
    PROVE  ~Usable(l, now)
  <1>1. l \in Logins /\ logins[l].stamp \in Nat /\ logins[l].seen \in Nat
    BY DEF ReclaimableSessions, GInv, Login
  <1>2. {SessionTTL, IdleTTL} \subseteq Nat
    BY MemoryAssumption
  <1> QED  BY <1>1, <1>2, StampsArePast DEF ReclaimableSessions, SessionExpired, Usable

Dead ==
    /\ \A ch \in Challenges :
         challenges[ch].state = "stored" /\ challenges'[ch].state = "gone"
         => ~Redeemable(ch, now)
    /\ \A l \in Logins :
         InMap(l) /\ logins'[l].session = "gone" => ~Usable(l, now)
    /\ \A p \in PreAuths :
         browserStates[p].state = "stored" /\ browserStates'[p].state = "gone"
         => now >= browserStates[p].issued + PreAuthTTL

LEMMA ReserveReclaims ==
    ASSUME NInv, NEW ch \in Challenges, NEW e \in Emails, NEW src \in Sources,
           NEW t \in Stamps, Reserve(ch, e, src, t)
    PROVE  Dead
  <1> DEFINE ways == MakeRoom(Stored, Reclaimable(t))
  <1>0. challenges[ch].state = "none" /\ UNCHANGED <<logins, browserStates>>
    BY DEF Reserve
  <1>1. ASSUME NEW d \in Challenges, challenges[d].state = "stored",
               challenges'[d].state = "gone"
        PROVE  ~Redeemable(d, now)
    <2>0. challenges[d] \in StoredChallenge /\ d # ch
      BY <1>0, <1>1 DEF NInv, MapType
    <2>1. CASE UNCHANGED challenges  BY <2>1, <1>1
    <2>2. ASSUME NEW D \in ways, challenges' = Without(D)  PROVE d \in D
      BY <1>1, <2>0, <2>2 DEF Without
    <2>3. ASSUME NEW D \in ways, Replaced(D, ch, e, src, t)  PROVE d \in D
      BY <1>1, <2>0, <2>3 DEF Replaced, Without, StoredChallenge
    <2>4. CASE \E D \in ways : d \in D
      BY <2>4, RoomTaken, ReclaimedCode
    <2> QED  BY <2>1, <2>2, <2>3, <2>4 DEF Reserve, Previous, Replaced
  <1>2. ASSUME NEW l \in Logins, InMap(l)  PROVE logins'[l].session # "gone"
    BY <1>0, <1>2 DEF InMap
  <1> QED  BY <1>0, <1>1, <1>2 DEF Dead

LEMMA VerifyReclaims ==
    ASSUME NInv, GInv, NEW l \in Logins, NEW ch \in Challenges, NEW match \in BOOLEAN,
           NEW src \in Sources, NEW t \in Stamps, Verify(l, ch, match, src, t)
    PROVE  Dead
  <1> DEFINE ways == MakeRoom({k \in Logins : InMap(k)}, ReclaimableSessions(t))
  <1>0. UNCHANGED browserStates  BY DEF Verify
  <1>1. ASSUME NEW d \in Challenges, challenges[d].state = "stored"
        PROVE  challenges'[d].state # "gone"
    BY <1>1, ZenonT(40) DEF Verify, VerifyLimited, VerifyMatch, VerifyMismatch, Spent,
                NInv, MapType, StoredChallenge
  <1>2. \E D \in ways \cup {{}}, charged \in BOOLEAN, failed \in BOOLEAN,
           s \in {"none", "active"} :
             logins' = Returned(l, ch, src, t, D, charged, failed, s)
    BY DEF Verify, VerifyLimited, VerifyMatch, VerifyMismatch
  <1>3. PICK D \in ways \cup {{}}, charged \in BOOLEAN, failed \in BOOLEAN,
             s \in {"none", "active"} :
               logins' = Returned(l, ch, src, t, D, charged, failed, s)
    BY <1>2
  <1>4. ASSUME NEW k \in Logins, InMap(k), logins'[k].session = "gone"
        PROVE  ~Usable(k, now)
    <2>1. k \in D
      BY <1>3, <1>4 DEF Returned, InMap
    <2> QED  BY <2>1, RoomTaken, ReclaimedSession
  <1> QED  BY <1>0, <1>1, <1>4 DEF Dead

LEMMA BootstrapReclaims ==
    ASSUME NInv, NEW p \in PreAuths, NEW src \in Sources, NEW t \in Stamps,
           browserStates \in [PreAuths -> BrowserState], CreatePreAuth(p, src, t)
    PROVE  Dead
  <1> DEFINE ways == MakeRoom(StoredStates, ReclaimableStates(t))
  <1>0. UNCHANGED <<challenges, logins>> /\ browserStates[p].state = "none"
    BY DEF CreatePreAuth
  <1>1. ASSUME NEW q \in PreAuths, browserStates[q].state = "stored",
               browserStates'[q].state = "gone"
        PROVE  now >= browserStates[q].issued + PreAuthTTL
    <2>1. \E D \in ways : q \in D
      BY <1>0, <1>1 DEF CreatePreAuth
    <2>2. q \in ReclaimableStates(t)
      BY <2>1, RoomTaken
    <2>3. browserStates[q].issued \in Nat
      BY DEF BrowserState
    <2>4. PreAuthTTL \in Nat  BY MemoryAssumption
    <2> QED  BY <2>2, <2>3, <2>4, StampsArePast DEF ReclaimableStates
  <1>2. ASSUME NEW l \in Logins, InMap(l)  PROVE logins'[l].session # "gone"
    BY <1>0, <1>2 DEF InMap
  <1> QED  BY <1>0, <1>1, <1>2 DEF Dead

(***************************************************************************)
(* Proofs about the budgets and the capacity of AuthMemory, what it        *)
(* reclaims, and that it implements LoginContract.                         *)
(*                                                                         *)
(* A budget list is pruned by its prefix and its stamps arrive out of      *)
(* order, so it neither is sorted nor holds just the stamps inside the     *)
(* window.  What it keeps is an account: for every bound b not before the  *)
(* present window, it has at least as many stamps past b as events were    *)
(* charged past b (Ledger).  An event that passes the length check then    *)
(* falls into no window that is already full.                              *)
(***************************************************************************)

(* A set of naturals has a least element, so recent's CHOOSE finds it. *)
LEMMA LeastNatural ==
    ASSUME NEW T \in SUBSET Nat, T # {}
    PROVE  \E x \in T : \A y \in T : x <= y
  <1>1. PICK x \in T : \A y \in T : ~(<<y, x>> \in OpToRel(<, Nat))
    BY NatLessThanWellFounded, WFMin
  <1>2. \A y \in T : ~(y < x)
    BY <1>1 DEF OpToRel
  <1> QED  BY <1>2

(* recent drops a prefix of stamps outside the window, and all of them when *)
(* none is inside.                                                          *)
LEMMA RecentFrom ==
    ASSUME NEW v \in Seq(Nat), NEW t \in Nat
    PROVE  /\ recent(v, t) \in Seq(Nat)
           /\ \/ /\ recent(v, t) = <<>>
                 /\ \A i \in 1..Len(v) : v[i] <= t - Window
              \/ \E m \in 1..Len(v) :
                    /\ recent(v, t) = SubSeq(v, m, Len(v))
                    /\ \A i \in 1..(m - 1) : v[i] <= t - Window
  <1> DEFINE kept == {i \in DOMAIN v : v[i] > t - Window}
             m == CHOOSE i \in kept : \A j \in kept : i <= j
  <1>0. /\ Len(v) \in Nat /\ DOMAIN v = 1..Len(v)
        /\ \A i \in 1..Len(v) : v[i] \in Nat
        /\ Window \in Nat
    BY LenProperties, ElementOfSeq, MemoryAssumption
  <1>1. CASE kept = {}
    <2>1. recent(v, t) = <<>>  BY <1>1 DEF recent
    <2>2. \A i \in 1..Len(v) : v[i] <= t - Window  BY <1>0, <1>1
    <2> QED  BY <2>1, <2>2
  <1>2. CASE kept # {}
    <2>1. kept \in SUBSET Nat  BY <1>0
    <2>2. m \in kept /\ \A j \in kept : m <= j
      BY <1>2, <2>1, LeastNatural
    <2>3. recent(v, t) = SubSeq(v, m, Len(v))
      BY <1>2 DEF recent
    <2> HIDE DEF m
    <2>4. m \in 1..Len(v)  BY <1>0, <2>2
    <2>5. \A i \in 1..(m - 1) : v[i] <= t - Window
      BY <1>0, <2>2, <2>4, SMTT(30)
    <2>6. SubSeq(v, m, Len(v)) \in Seq(Nat)
      BY <1>0, <2>4, SubSeqProperties
    <2> QED  BY <2>3, <2>4, <2>5, <2>6
  <1> QED  BY <1>1, <1>2

-----------------------------------------------------------------------------
(* One budget: a list of stamps, and the events it was charged for         *)

Above(X, stamp, b) == {x \in X : stamp[x] > b}

Late(list, b) == {i \in 1..Len(list) : list[i] > b}

(* The list accounts for every event that may still count at time n. *)
Ledger(list, X, stamp, limit, n) ==
    /\ IsFiniteSet(X)
    /\ AtMost(limit, X, stamp)
    /\ \A b \in Int : b >= n - Window =>
          Cardinality(Above(X, stamp, b)) <= Cardinality(Late(list, b))

LEMMA LateFinite ==
    ASSUME NEW v \in Seq(Nat), NEW b \in Int
    PROVE  /\ IsFiniteSet(Late(v, b))
           /\ Cardinality(Late(v, b)) \in Nat
           /\ Cardinality(Late(v, b)) <= Len(v)
  <1>1. Len(v) \in Nat  BY LenProperties
  <1>2. IsFiniteSet(1..Len(v)) /\ Cardinality(1..Len(v)) = Len(v)
    <2>1. ASSUME NEW n \in Nat  PROVE IsFiniteSet(1..n) /\ Cardinality(1..n) = n
      <3>1. /\ IsFiniteSet(1..n)
            /\ Cardinality(1..n) = IF 1 > n THEN 0 ELSE n - 1 + 1
        BY FS_Interval
      <3> QED  BY <3>1
    <2> QED  BY <1>1, <2>1
  <1>3. Late(v, b) \in SUBSET (1..Len(v))  BY DEF Late
  <1> QED  BY <1>2, <1>3, FS_Subset, FS_CardinalityType

(* Pruning at t takes nothing inside the window of a later time. *)
LEMMA LateKept ==
    ASSUME NEW v \in Seq(Nat), NEW t \in Nat, NEW b \in Int, b >= t - Window
    PROVE  Cardinality(Late(v, b)) <= Cardinality(Late(recent(v, t), b))
  <1> DEFINE r == recent(v, t)
  <1>0. /\ Len(v) \in Nat
        /\ \A i \in 1..Len(v) : v[i] \in Nat
        /\ Window \in Nat
    BY LenProperties, ElementOfSeq, MemoryAssumption
  <1>1. r \in Seq(Nat)  BY RecentFrom
  <1>2. IsFiniteSet(Late(r, b)) /\ Cardinality(Late(r, b)) \in Nat  BY <1>1, LateFinite
  <1>3. CASE \A i \in 1..Len(v) : v[i] <= t - Window
    <2>1. Late(v, b) = {}  BY <1>0, <1>3 DEF Late
    <2> QED  BY <2>1, <1>2, FS_EmptySet
  <1>4. ASSUME NEW m \in 1..Len(v), r = SubSeq(v, m, Len(v)),
               \A i \in 1..(m - 1) : v[i] <= t - Window
        PROVE  Cardinality(Late(v, b)) <= Cardinality(Late(r, b))
    <2> HIDE DEF r
    <2> DEFINE f == [i \in Late(v, b) |-> i - m + 1]
    <2>1. /\ Len(r) = Len(v) - m + 1
          /\ \A i \in 1..(Len(v) - m + 1) : r[i] = v[m + i - 1]
      BY <1>0, <1>4, SubSeqProperties
    <2>2. ASSUME NEW i \in Late(v, b)  PROVE i - m + 1 \in Late(r, b)
      <3>1. i \in 1..Len(v) /\ v[i] > b  BY DEF Late
      <3>2. i >= m  BY <1>0, <1>4, <3>1
      <3>3. i - m + 1 \in 1..(Len(v) - m + 1)  BY <1>0, <3>1, <3>2
      <3>4. r[i - m + 1] = v[i]
        <4>1. m + (i - m + 1) - 1 = i  BY <3>1
        <4> QED  BY <2>1, <3>3, <4>1
      <3> QED  BY <2>1, <3>1, <3>3, <3>4 DEF Late
    <2>3. f \in [Late(v, b) -> Late(r, b)]  BY <2>2
    <2>4. \A i, j \in Late(v, b) : f[i] = f[j] => i = j
      BY <1>0 DEF Late
    <2>5. f \in Injection(Late(v, b), Late(r, b))  BY <2>3, <2>4 DEF Injection, IsInjective
    <2> QED  BY <1>2, <2>5, FS_Injection DEF r
  <1> HIDE DEF r
  <1>5. \/ \A i \in 1..Len(v) : v[i] <= t - Window
        \/ \E m \in 1..Len(v) : /\ r = SubSeq(v, m, Len(v))
                                /\ \A i \in 1..(m - 1) : v[i] <= t - Window
    BY RecentFrom DEF r
  <1> QED  BY <1>3, <1>4, <1>5 DEF r

LEMMA LateAppended ==
    ASSUME NEW v \in Seq(Nat), NEW t \in Nat, NEW b \in Int
    PROVE  Cardinality(Late(Append(v, t), b)) =
              IF t > b THEN Cardinality(Late(v, b)) + 1 ELSE Cardinality(Late(v, b))
  <1> DEFINE n == Len(v) + 1
             w == Append(v, t)
  <1>0. /\ Len(v) \in Nat /\ Len(w) = n /\ w[n] = t
        /\ \A i \in 1..Len(v) : w[i] = v[i]
    BY LenProperties, AppendProperties
  <1> HIDE DEF w
  <1>1. Late(w, b) = IF t > b THEN Late(v, b) \cup {n} ELSE Late(v, b)
    BY <1>0 DEF Late
  <1>2. n \notin Late(v, b)  BY <1>0 DEF Late
  <1> QED  BY <1>1, <1>2, LateFinite, FS_AddElement DEF w

LEMMA AboveFinite ==
    ASSUME NEW X, IsFiniteSet(X), NEW stamp, NEW b
    PROVE  IsFiniteSet(Above(X, stamp, b)) /\ Cardinality(Above(X, stamp, b)) \in Nat
  <1>1. Above(X, stamp, b) \in SUBSET X  BY DEF Above
  <1> QED  BY <1>1, FS_Subset, FS_CardinalityType

(* Nothing is charged: the list may be pruned, and time may pass. *)
LEMMA LedgerKept ==
    ASSUME NEW v \in Seq(Nat), NEW X, NEW stamp, NEW stamp2, NEW limit, NEW n \in Nat,
           NEW n2 \in Nat, n <= n2, NEW w, NEW t \in Nat, t <= n,
           w = v \/ w = recent(v, t),
           \A x \in X : stamp2[x] = stamp[x],
           Ledger(v, X, stamp, limit, n)
    PROVE  Ledger(w, X, stamp2, limit, n2)
  <1>0. Window \in Nat  BY MemoryAssumption
  <1>1. ASSUME NEW b \in Int, b >= n2 - Window
        PROVE  Cardinality(Above(X, stamp2, b)) <= Cardinality(Late(w, b))
    <2>1. b >= n - Window /\ b >= t - Window  BY <1>0, <1>1
    <2>2. Above(X, stamp2, b) = Above(X, stamp, b)  BY DEF Above
    <2>3. Cardinality(Above(X, stamp, b)) <= Cardinality(Late(v, b))
      BY <2>1 DEF Ledger
    <2>4. Cardinality(Above(X, stamp, b)) \in Nat  BY AboveFinite DEF Ledger
    <2>5. w \in Seq(Nat)  BY RecentFrom
    <2>6. Cardinality(Late(v, b)) \in Nat /\ Cardinality(Late(w, b)) \in Nat
      BY <2>5, LateFinite
    <2>7. Cardinality(Late(v, b)) <= Cardinality(Late(w, b))
      BY <2>1, <2>6, LateKept
    <2> QED  BY <2>2, <2>3, <2>4, <2>6, <2>7
  <1>2. AtMost(limit, X, stamp2)
    <2>1. ASSUME NEW x \in X
          PROVE  {y \in X : stamp2[x] - (Window - Lag) < stamp2[y] /\ stamp2[y] <= stamp2[x]} =
                 {y \in X : stamp[x] - (Window - Lag) < stamp[y] /\ stamp[y] <= stamp[x]}
      OBVIOUS
    <2> QED  BY <2>1 DEF Ledger, AtMost
  <1> QED  BY <1>1, <1>2 DEF Ledger

(* An event is charged at time n, with a stamp no older than Lag: within   *)
(* any window that the event falls into, the list counted all the others.  *)
LEMMA LedgerCharged ==
    ASSUME NEW v \in Seq(Nat), NEW X, NEW stamp, NEW stamp2, NEW limit \in Nat,
           NEW n \in Nat, NEW t \in Nat, t <= n, n - Lag <= t,
           Len(recent(v, t)) < limit, NEW x, x \notin X,
           \A y \in X : stamp[y] \in Nat /\ stamp2[y] = stamp[y],
           stamp2[x] = t, Ledger(v, X, stamp, limit, n)
    PROVE  Ledger(Append(recent(v, t), t), X \cup {x}, stamp2, limit, n)
  <1> DEFINE r == recent(v, t)
             Y == X \cup {x}
             W(z) == {y \in Y : stamp2[z] - (Window - Lag) < stamp2[y] /\ stamp2[y] <= stamp2[z]}
             old(z) == {y \in X : stamp[z] - (Window - Lag) < stamp[y] /\ stamp[y] <= stamp[z]}
  <1>0. Window \in Nat /\ Lag \in Nat /\ r \in Seq(Nat) /\ Len(r) \in Nat
    BY MemoryAssumption, RecentFrom, LenProperties
  <1>1. IsFiniteSet(X) /\ IsFiniteSet(Y)  BY FS_AddElement DEF Ledger
  <1>2. Ledger(r, X, stamp, limit, n)  BY LedgerKept
  <1> HIDE DEF r
  <1>3. ASSUME NEW b \in Int, b >= n - Window
        PROVE  Cardinality(Above(Y, stamp2, b)) <= Cardinality(Late(Append(r, t), b))
    <2>1. Above(Y, stamp2, b) =
             IF t > b THEN Above(X, stamp, b) \cup {x} ELSE Above(X, stamp, b)
      BY DEF Above
    <2>2. x \notin Above(X, stamp, b)  BY DEF Above
    <2>3. /\ Cardinality(Above(X, stamp, b)) \in Nat
          /\ IsFiniteSet(Above(X, stamp, b))
      BY <1>1, AboveFinite
    <2>4. Cardinality(Above(Y, stamp2, b)) =
             IF t > b THEN Cardinality(Above(X, stamp, b)) + 1
             ELSE Cardinality(Above(X, stamp, b))
      BY <2>1, <2>2, <2>3, FS_AddElement
    <2>5. Cardinality(Above(X, stamp, b)) <= Cardinality(Late(r, b))
      BY <1>2, <1>3 DEF Ledger
    <2>6. Cardinality(Late(r, b)) \in Nat  BY <1>0, LateFinite
    <2> QED  BY <1>0, <2>3, <2>4, <2>5, <2>6, LateAppended
  <1>4. Cardinality(Above(X, stamp, n - Window)) + 1 <= limit
    <2>1. n - Window \in Int  BY <1>0
    <2>2. Cardinality(Above(X, stamp, n - Window)) <= Cardinality(Late(r, n - Window))
      BY <1>2, <2>1 DEF Ledger
    <2>3. /\ Cardinality(Late(r, n - Window)) \in Nat
          /\ Cardinality(Late(r, n - Window)) <= Len(r)
      BY <1>0, <2>1, LateFinite
    <2>4. Cardinality(Above(X, stamp, n - Window)) \in Nat  BY <1>1, AboveFinite
    <2> QED  BY <1>0, <2>2, <2>3, <2>4 DEF r
  <1>5. ASSUME NEW z \in Y  PROVE Cardinality(W(z)) <= limit
    <2>0. \A y \in Y : stamp2[y] \in Nat  OBVIOUS
    <2>1. CASE x \in W(z)
      <3>1. ASSUME NEW y \in W(z)  PROVE stamp2[y] > n - Window
        <4>1. stamp2[y] \in Nat /\ stamp2[z] \in Nat  BY <2>0
        <4>2. stamp2[z] - (Window - Lag) < stamp2[y]  OBVIOUS
        <4>3. t <= stamp2[z]  BY <2>1
        <4> QED  BY <1>0, <4>1, <4>2, <4>3
      <3>2. W(z) \in SUBSET (Above(X, stamp, n - Window) \cup {x})
        BY <3>1 DEF Above
      <3>3. IsFiniteSet(Above(X, stamp, n - Window))  BY <1>1, AboveFinite
      <3>4. x \notin Above(X, stamp, n - Window)  BY DEF Above
      <3> HIDE DEF W
      <3>5. /\ IsFiniteSet(Above(X, stamp, n - Window) \cup {x})
            /\ Cardinality(Above(X, stamp, n - Window) \cup {x})
                 = Cardinality(Above(X, stamp, n - Window)) + 1
        BY <3>3, <3>4, FS_AddElement
      <3>6. /\ Cardinality(W(z)) <= Cardinality(Above(X, stamp, n - Window) \cup {x})
            /\ IsFiniteSet(W(z))
        BY <3>2, <3>5, FS_Subset
      <3>7. Cardinality(W(z)) \in Nat /\ Cardinality(Above(X, stamp, n - Window)) \in Nat
        BY <3>3, <3>6, FS_CardinalityType
      <3> QED  BY <1>4, <3>5, <3>6, <3>7
    <2>2. CASE x \notin W(z) /\ z # x
      <3>1. W(z) = old(z)  BY <2>2
      <3>2. Cardinality(old(z)) <= limit  BY <2>2 DEF Ledger, AtMost
      <3> QED  BY <3>1, <3>2
    <2>3. CASE z = x
      <3>0. SendGap \in Nat \ {0}  BY MemoryAssumption
      <3>1. Lag < Window  BY <1>0, <3>0, LagAssumption
      <3>2. x \in W(z)  BY <2>3, <1>0, <3>1
      <3> QED  BY <3>2, <2>1
    <2> QED  BY <2>1, <2>2, <2>3
  <1>6. AtMost(limit, Y, stamp2)  BY <1>5 DEF AtMost
  <1> QED  BY <1>1, <1>3, <1>6 DEF Ledger, r

-----------------------------------------------------------------------------
(* The sends to one address: stamps a gap apart, the last at the end        *)

Spaced(list, X, stamp, n) ==
    /\ \A c, d \in X :
         c # d /\ stamp[c] <= stamp[d] => stamp[d] - stamp[c] >= SendGap
    /\ list = <<>> => \A c \in X : stamp[c] <= n - Window
    /\ list # <<>> => \A c \in X : stamp[c] <= list[Len(list)]

(* A list that pruning does not empty keeps its end. *)
LEMMA LastKept ==
    ASSUME NEW v \in Seq(Nat), NEW t \in Nat
    PROVE  \/ recent(v, t) = <<>> /\ (v = <<>> \/ v[Len(v)] <= t - Window)
           \/ /\ recent(v, t) # <<>>
              /\ v # <<>>
              /\ recent(v, t)[Len(recent(v, t))] = v[Len(v)]
  <1> DEFINE r == recent(v, t)
  <1>0. Len(v) \in Nat /\ \A i \in 1..Len(v) : v[i] \in Nat
    BY LenProperties, ElementOfSeq
  <1>1. CASE r = <<>> /\ \A i \in 1..Len(v) : v[i] <= t - Window
    <2>1. v # <<>> => Len(v) \in 1..Len(v)  BY <1>0, EmptySeq
    <2> QED  BY <1>1, <2>1
  <1>2. ASSUME NEW m \in 1..Len(v), r = SubSeq(v, m, Len(v))
        PROVE  r # <<>> /\ v # <<>> /\ r[Len(r)] = v[Len(v)]
    <2> HIDE DEF r
    <2>1. /\ Len(r) = Len(v) - m + 1
          /\ \A i \in 1..(Len(v) - m + 1) : r[i] = v[m + i - 1]
      BY <1>0, <1>2, SubSeqProperties
    <2>2. Len(r) \in 1..(Len(v) - m + 1) /\ m + Len(r) - 1 = Len(v)  BY <1>0, <2>1
    <2>3. r # <<>> /\ v # <<>>  BY <1>0, <2>2, EmptySeq
    <2> QED  BY <2>1, <2>2, <2>3
  <1> HIDE DEF r
  <1>3. \/ r = <<>> /\ \A i \in 1..Len(v) : v[i] <= t - Window
        \/ \E m \in 1..Len(v) : r = SubSeq(v, m, Len(v))
    BY RecentFrom DEF r
  <1> QED  BY <1>1, <1>2, <1>3 DEF r

(* The list is kept or pruned at t, the stamps are kept. *)
Respacing(v, w, X, stamp, stamp2, n, t) ==
    /\ w = v \/ w = recent(v, t)
    /\ \A x \in X : stamp[x] \in Nat /\ stamp2[x] = stamp[x]
    /\ Spaced(v, X, stamp, n)

LEMMA SpacedKept ==
    ASSUME NEW v \in Seq(Nat), NEW X, NEW stamp, NEW stamp2, NEW n \in Nat,
           NEW n2 \in Nat, n <= n2, NEW w, NEW t \in Nat, t <= n,
           Respacing(v, w, X, stamp, stamp2, n, t)
    PROVE  Spaced(w, X, stamp2, n2)
  <1> USE DEF Respacing
  <1>0. Window \in Nat  BY MemoryAssumption
  <1>1. v # <<>> => v[Len(v)] \in Nat
    <2>1. v # <<>> => Len(v) \in 1..Len(v)  BY LenProperties, EmptySeq
    <2> QED  BY <2>1, ElementOfSeq
  <1>2. w = <<>> => \A x \in X : stamp2[x] <= n2 - Window
    BY <1>0, <1>1, LastKept DEF Spaced
  <1>3. w # <<>> => \A x \in X : stamp2[x] <= w[Len(w)]
    BY LastKept DEF Spaced
  <1> QED  BY <1>2, <1>3 DEF Spaced

LEMMA SpacedCharged ==
    ASSUME NEW v \in Seq(Nat), NEW X, NEW stamp, NEW stamp2,
           NEW n \in Nat, NEW t \in Nat, t <= n, n - Lag <= t,
           recent(v, t) # <<>> => t - recent(v, t)[Len(recent(v, t))] >= SendGap,
           NEW x, x \notin X,
           \A y \in X : stamp[y] \in Nat /\ stamp2[y] = stamp[y],
           stamp2[x] = t, Spaced(v, X, stamp, n)
    PROVE  Spaced(Append(recent(v, t), t), X \cup {x}, stamp2, n)
  <1> DEFINE r == recent(v, t)
             w == Append(r, t)
  <1>0. {Window, Lag, SendGap} \subseteq Nat /\ SendGap > 0 /\ Lag + SendGap <= Window
    BY MemoryAssumption, LagAssumption, SMTT(30)
  <1>1. v # <<>> => v[Len(v)] \in Nat
    <2>1. v # <<>> => Len(v) \in 1..Len(v)  BY LenProperties, EmptySeq
    <2> QED  BY <2>1, ElementOfSeq
  <1>2. r \in Seq(Nat)  BY RecentFrom
  <1>3. ASSUME NEW y \in X  PROVE t - stamp[y] >= SendGap
    <2>0. stamp[y] \in Nat  OBVIOUS
    <2>1. CASE v = <<>>
      <3>1. stamp[y] <= n - Window  BY <2>1 DEF Spaced
      <3> QED  BY <1>0, <2>0, <3>1
    <2>2. CASE v # <<>> /\ v[Len(v)] <= t - Window
      <3>1. stamp[y] <= v[Len(v)]  BY <2>2 DEF Spaced
      <3> QED  BY <1>0, <1>1, <2>0, <2>2, <3>1, SMTT(30)
    <2>3. CASE v # <<>> /\ r # <<>> /\ r[Len(r)] = v[Len(v)]
      <3>1. stamp[y] <= v[Len(v)]  BY <2>3 DEF Spaced
      <3> QED  BY <1>0, <1>1, <2>0, <2>3, <3>1, SMTT(30)
    <2> QED  BY <2>1, <2>2, <2>3, LastKept
  <1> HIDE DEF r
  <1>4. w # <<>> /\ w[Len(w)] = t
    <2>1. Len(w) = Len(r) + 1 /\ w[Len(r) + 1] = t /\ w # <<>>
      BY <1>2, AppendProperties, ZenonT(40)
    <2> QED  BY <2>1
  <1>5. \A y \in X \cup {x} : stamp2[y] <= w[Len(w)]
    BY <1>0, <1>3, <1>4, SMTT(30)
  <1>6. ASSUME NEW c \in X \cup {x}, NEW d \in X \cup {x}, c # d, stamp2[c] <= stamp2[d]
        PROVE  stamp2[d] - stamp2[c] >= SendGap
    <2>1. CASE c \in X /\ d \in X  BY <1>6, <2>1 DEF Spaced
    <2>2. CASE c \in X /\ d = x  BY <1>3, <2>2
    <2>3. CASE c = x /\ d \in X
      <3>1. stamp2[c] = t /\ stamp2[d] = stamp[d] /\ stamp[d] \in Nat  BY <2>3
      <3>2. t - stamp[d] >= SendGap  BY <1>3, <2>3
      <3> QED  BY <1>0, <1>6, <3>1, <3>2
    <2> QED  BY <1>6, <2>1, <2>2, <2>3
  <1> QED  BY <1>4, <1>5, <1>6 DEF Spaced, r

-----------------------------------------------------------------------------
(* The map of a budget                                                     *)

Books(lists, K, X, stamp, limit, n, c) ==
    /\ lists \in [K -> Seq(Nat)]
    /\ IsFiniteSet(Keys(lists))
    /\ Cardinality(Keys(lists)) <= c
    /\ \A k \in K : Ledger(lists[k], X[k], stamp, limit, n)

LEMMA BooksKept ==
    ASSUME NEW lists, NEW K, NEW X, NEW X2, NEW stamp, NEW stamp2, NEW limit,
           NEW n \in Nat, NEW n2 \in Nat, n <= n2, NEW lists2, NEW t \in Nat, t <= n,
           NEW c \in Nat, NEW c2, c2 = c,
           lists2 = lists \/ lists2 = prune(lists, t),
           \A k \in K : X2[k] = X[k] /\ \A x \in X[k] : stamp2[x] = stamp[x],
           Books(lists, K, X, stamp, limit, n, c)
    PROVE  Books(lists2, K, X2, stamp2, limit, n2, c2)
  <1>0. lists \in [K -> Seq(Nat)]  BY DEF Books
  <1>1. ASSUME NEW k \in K
        PROVE  /\ lists2[k] = lists[k] \/ lists2[k] = recent(lists[k], t)
               /\ lists2[k] \in Seq(Nat)
               /\ Ledger(lists2[k], X2[k], stamp2, limit, n2)
    <2>1. lists2[k] = lists[k] \/ lists2[k] = recent(lists[k], t)  BY <1>0 DEF prune
    <2>2. lists[k] \in Seq(Nat)  BY <1>0
    <2>3. lists2[k] \in Seq(Nat)  BY <2>1, <2>2, RecentFrom
    <2>4. Ledger(lists[k], X[k], stamp, limit, n)  BY DEF Books
    <2>5. n \in Nat /\ n2 \in Nat /\ n <= n2 /\ t \in Nat /\ t <= n
      OBVIOUS
    <2>6. X2[k] = X[k] /\ \A x \in X[k] : stamp2[x] = stamp[x]  OBVIOUS
    <2> DEFINE v == lists[k]
               w == lists2[k]
               Y == X[k]
    <2>7. /\ v \in Seq(Nat)
          /\ w = v \/ w = recent(v, t)
          /\ \A x \in Y : stamp2[x] = stamp[x]
          /\ Ledger(v, Y, stamp, limit, n)
      BY <2>1, <2>2, <2>4, <2>6
    <2> HIDE DEF v, w, Y
    <2>8. Ledger(w, Y, stamp2, limit, n2)  BY ONLY <2>5, <2>7, LedgerKept, ZenonT(60)
    <2> QED  BY <2>1, <2>3, <2>6, <2>8 DEF w, Y
  <1>2. lists2 \in [K -> Seq(Nat)]  BY <1>0, <1>1 DEF prune
  <1>3. Keys(lists2) \in SUBSET Keys(lists)
    <2>1. ASSUME NEW k \in K, lists[k] = <<>>  PROVE recent(lists[k], t) = <<>>
      <3>1. <<>> \in Seq(Nat)  OBVIOUS
      <3> QED  BY <2>1, <3>1, LastKept
    <2> QED  BY <1>0, <1>1, <1>2, <2>1 DEF Keys
  <1>4. /\ IsFiniteSet(Keys(lists2))
        /\ Cardinality(Keys(lists2)) <= Cardinality(Keys(lists))
    BY <1>3, FS_Subset DEF Books
  <1>5. Cardinality(Keys(lists2)) <= c2
    <2>1. Cardinality(Keys(lists2)) \in Nat /\ Cardinality(Keys(lists)) \in Nat
      BY <1>4, FS_CardinalityType DEF Books
    <2> QED  BY <1>4, <2>1, SMTT(30) DEF Books
  <1> QED  BY <1>1, <1>2, <1>4, <1>5 DEF Books

(* Event x, stamped t, is new under key k, and the budget of k and its map *)
(* have room for it.                                                       *)
Charging(lists, K, X, X2, stamp, stamp2, limit, n, t, k, x) ==
    /\ HasRoom(prune(lists, t), k)
    /\ Len(prune(lists, t)[k]) < limit
    /\ x \notin X[k]
    /\ X2[k] = X[k] \cup {x}
    /\ \A j \in K \ {k} : X2[j] = X[j]
    /\ \A j \in K : \A y \in X[j] : stamp[y] \in Nat /\ stamp2[y] = stamp[y]
    /\ stamp2[x] = t
    /\ Books(lists, K, X, stamp, limit, n, capacity)

LEMMA BooksCharged ==
    ASSUME NEW lists, NEW K, NEW X, NEW X2, NEW stamp, NEW stamp2, NEW limit \in Nat,
           NEW n \in Nat, NEW t \in Nat, t <= n, n - Lag <= t, NEW k \in K, NEW x,
           capacity \in Nat,
           Charging(lists, K, X, X2, stamp, stamp2, limit, n, t, k, x)
    PROVE  Books(Charge(prune(lists, t), k, t), K, X2, stamp2, limit, n, capacity)
  <1> USE DEF Charging
  <1> DEFINE p == prune(lists, t)
             w == Charge(p, k, t)
  <1>0. Books(p, K, X, stamp, limit, n, capacity)
    <2>1. n <= n  OBVIOUS
    <2>2. \A j \in K : X[j] = X[j] /\ \A y \in X[j] : stamp[y] = stamp[y]  OBVIOUS
    <2> QED  BY <2>1, <2>2, BooksKept
  <1>1. p \in [K -> Seq(Nat)]  BY <1>0 DEF Books
  <1>2. lists \in [K -> Seq(Nat)] /\ \A j \in K : p[j] = recent(lists[j], t)
    BY DEF Books, prune
  <1> HIDE DEF p
  <1>3. Append(p[k], t) \in Seq(Nat) /\ Append(p[k], t) # <<>>
    BY <1>1, AppendProperties, SMTT(30)
  <1>4. w \in [K -> Seq(Nat)] /\ w[k] = Append(p[k], t) /\ \A j \in K \ {k} : w[j] = p[j]
    BY <1>1, <1>3 DEF Charge
  <1> HIDE DEF w
  <1>5. Keys(w) = Keys(p) \cup {k}
    BY <1>1, <1>3, <1>4 DEF Keys
  <1>6. IsFiniteSet(Keys(w)) /\ Cardinality(Keys(w)) <= capacity
    <2>1. IsFiniteSet(Keys(p)) /\ Cardinality(Keys(p)) <= capacity  BY <1>0 DEF Books
    <2>2. k \in Keys(p) \/ Cardinality(Keys(p)) < capacity
      BY <1>1 DEF HasRoom, Keys, p
    <2>3. Cardinality(Keys(p)) \in Nat /\ capacity \in Nat
      BY <2>1, FS_CardinalityType
    <2>4. /\ IsFiniteSet(Keys(p) \cup {k})
          /\ Cardinality(Keys(p) \cup {k}) =
               IF k \in Keys(p) THEN Cardinality(Keys(p)) ELSE Cardinality(Keys(p)) + 1
      BY <2>1, FS_AddElement
    <2> QED  BY <1>5, <2>1, <2>2, <2>3, <2>4
  <1>7. ASSUME NEW j \in K  PROVE Ledger(w[j], X2[j], stamp2, limit, n)
    <2>1. lists[j] \in Seq(Nat) /\ Ledger(lists[j], X[j], stamp, limit, n)
      BY <1>2 DEF Books
    <2>2. CASE j = k
      <3>1. Len(recent(lists[k], t)) < limit  BY <1>2 DEF p
      <3>2. Ledger(Append(recent(lists[k], t), t), X[k] \cup {x}, stamp2, limit, n)
        BY <2>1, <2>2, <3>1, LedgerCharged
      <3> QED  BY <1>2, <1>4, <2>2, <3>2
    <2>3. CASE j # k
      <3>1. w[j] = recent(lists[j], t) /\ X2[j] = X[j]  BY <1>2, <1>4, <2>3
      <3> QED  BY <2>1, <3>1, LedgerKept
    <2> QED  BY <2>2, <2>3
  <1> QED  BY <1>4, <1>6, <1>7 DEF Books, w, p

-----------------------------------------------------------------------------
(* The whole store                                                         *)

Issued == [ch \in Challenges |-> challenges[ch].issued]
Tried == [l \in Logins |-> logins[l].stamp]
Booted == [p \in PreAuths |-> browserStates[p].issued]

SentTo == [e \in Emails |-> {ch \in Challenges : challenges[ch].email = e}]
SentBy == [src \in Sources |-> {ch \in Challenges : challenges[ch].source = src}]
FailedAt == [e \in Emails |-> {l \in Logins : logins[l].failed /\ logins[l].email = e}]
TriedBy == [src \in Sources |-> {l \in Logins : logins[l].charged /\ logins[l].source = src}]
BootedBy == [src \in Sources |-> {p \in PreAuths : browserStates[p].source = src}]

SendBooks ==
    /\ Books(addressSends, Emails, SentTo, Issued, AddressSendLimit, now, capacity)
    /\ Books(sourceSends, Sources, SentBy, Issued, SourceSendLimit, now, capacity)
    /\ \A e \in Emails : Spaced(addressSends[e], SentTo[e], Issued, now)

TryBooks ==
    /\ Books(addressFailures, Emails, FailedAt, Tried, AddressVerifyLimit, now, capacity)
    /\ Books(sourceVerifications, Sources, TriedBy, Tried, SourceVerifyLimit, now, capacity)

BootBooks == Books(browserBootstraps, Sources, BootedBy, Booted, BootstrapLimit, now, capacity)

(* What was not yet used was charged to nobody. *)
Unused ==
    /\ \A ch \in Challenges : challenges[ch].state = "none" =>
          challenges[ch].email = None /\ challenges[ch].source = None
    /\ \A l \in Logins : logins[l].pc = "idle" =>
          ~logins[l].charged /\ ~logins[l].failed /\ logins[l].session = "none"
    /\ \A p \in PreAuths : browserStates[p].state = "none" => browserStates[p].source = None

Fits(S, c) == IsFiniteSet(S) /\ Cardinality(S) <= c

Roomy ==
    /\ Fits(Stored, capacity)
    /\ Fits({l \in Logins : InMap(l)}, capacity)
    /\ Fits(identities, capacity)
    /\ Fits(StoredStates, capacity)

Rest ==
    /\ capacity \in Capacities
    /\ identities \in SUBSET Emails
    /\ browserStates \in [PreAuths -> BrowserState]
    /\ Unused
    /\ SendBooks
    /\ TryBooks
    /\ BootBooks
    /\ Roomy

MInv == NInv /\ GInv /\ Rest

LEMMA MSuffices == MInv => TypeOK /\ WithinCapacity /\ BudgetsHold /\ SendsKeepGap
  <1> SUFFICES ASSUME MInv  PROVE TypeOK /\ WithinCapacity /\ BudgetsHold /\ SendsKeepGap
    OBVIOUS
  <1>1. TypeOK
    BY DEF MInv, Rest, NInv, MapType, GInv, SendBooks, TryBooks, BootBooks, Books, TypeOK
  <1>2. WithinCapacity
    BY DEF MInv, Rest, SendBooks, TryBooks, BootBooks, Books, Roomy, Fits, WithinCapacity
  <1>3. BudgetsHold
    <2>1. ASSUME NEW e \in Emails
          PROVE  /\ AtMost(AddressSendLimit, {ch \in Challenges : challenges[ch].email = e}, Issued)
                 /\ AtMost(AddressVerifyLimit,
                           {l \in Logins : logins[l].failed /\ logins[l].email = e}, Tried)
      <3>1. /\ SentTo[e] = {ch \in Challenges : challenges[ch].email = e}
            /\ FailedAt[e] = {l \in Logins : logins[l].failed /\ logins[l].email = e}
        BY DEF SentTo, FailedAt
      <3>2. /\ AtMost(AddressSendLimit, SentTo[e], Issued)
            /\ AtMost(AddressVerifyLimit, FailedAt[e], Tried)
        BY DEF MInv, Rest, SendBooks, TryBooks, Books, Ledger
      <3> QED  BY <3>1, <3>2
    <2>2. ASSUME NEW src \in Sources
          PROVE  /\ AtMost(SourceSendLimit, {ch \in Challenges : challenges[ch].source = src}, Issued)
                 /\ AtMost(SourceVerifyLimit,
                           {l \in Logins : logins[l].charged /\ logins[l].source = src}, Tried)
                 /\ AtMost(BootstrapLimit, {p \in PreAuths : browserStates[p].source = src}, Booted)
      <3>1. /\ SentBy[src] = {ch \in Challenges : challenges[ch].source = src}
            /\ TriedBy[src] = {l \in Logins : logins[l].charged /\ logins[l].source = src}
            /\ BootedBy[src] = {p \in PreAuths : browserStates[p].source = src}
        BY DEF SentBy, TriedBy, BootedBy
      <3>2. /\ AtMost(SourceSendLimit, SentBy[src], Issued)
            /\ AtMost(SourceVerifyLimit, TriedBy[src], Tried)
            /\ AtMost(BootstrapLimit, BootedBy[src], Booted)
        BY DEF MInv, Rest, SendBooks, TryBooks, BootBooks, Books, Ledger
      <3> QED  BY <3>1, <3>2
    <2> QED  BY <2>1, <2>2 DEF BudgetsHold, Issued, Tried, Booted
  <1>4. SendsKeepGap
    <2> SUFFICES ASSUME NEW c \in Challenges, NEW d \in Challenges, c # d,
                        challenges[c].email = challenges[d].email,
                        challenges[c].email # None,
                        challenges[c].issued <= challenges[d].issued
                 PROVE  challenges[d].issued - challenges[c].issued >= SendGap
      BY DEF SendsKeepGap
    <2>1. challenges[c].email \in Emails
      BY DEF MInv, Rest, NInv, MapType, StoredChallenge
    <2>2. c \in SentTo[challenges[c].email] /\ d \in SentTo[challenges[c].email]
      BY <2>1 DEF SentTo
    <2>3. Issued[c] = challenges[c].issued /\ Issued[d] = challenges[d].issued
      BY DEF Issued
    <2> QED  BY <2>1, <2>2, <2>3 DEF MInv, Rest, SendBooks, Spaced
  <1> QED  BY <1>1, <1>2, <1>3, <1>4

LEMMA CapacityIsPositive == ASSUME capacity \in Capacities PROVE capacity \in Nat \ {0}
  BY MemoryAssumption

LEMMA EmptyBooks ==
    ASSUME NEW K, NEW X, NEW stamp, NEW limit, NEW c \in Nat, \A k \in K : X[k] = {}
    PROVE  Books([k \in K |-> <<>>], K, X, stamp, limit, 0, c)
  <1> DEFINE lists == [k \in K |-> <<>>]
  <1>1. lists \in [K -> Seq(Nat)]  OBVIOUS
  <1>2. Keys(lists) = {}  BY DEF Keys
  <1>3. IsFiniteSet(Keys(lists)) /\ Cardinality(Keys(lists)) <= c
    <2>2. IsFiniteSet(Keys(lists)) /\ Cardinality(Keys(lists)) = 0  BY <1>2, FS_EmptySet
    <2> QED  BY <2>2
  <1>4. ASSUME NEW k \in K  PROVE Ledger(lists[k], X[k], stamp, limit, 0)
    <2>1. X[k] = {} /\ lists[k] = <<>>  OBVIOUS
    <2>2. IsFiniteSet({}) /\ Cardinality({}) = 0  BY FS_EmptySet
    <2>3. ASSUME NEW b \in Int  PROVE Above({}, stamp, b) = {} /\ Late(<<>>, b) = {}
      <3>1. Above({}, stamp, b) = {}  BY DEF Above
      <3>2. Len(<<>>) = 0  OBVIOUS
      <3>3. 1..Len(<<>>) = {}  BY <3>2
      <3>4. Late(<<>>, b) = {}  BY <3>3 DEF Late
      <3> QED  BY <3>1, <3>4
    <2>4. AtMost(limit, {}, stamp)  BY DEF AtMost
    <2>6. ASSUME NEW b \in Int
          PROVE  Cardinality(Above({}, stamp, b)) <= Cardinality(Late(<<>>, b))
      <3>1. Cardinality(Above({}, stamp, b)) = 0  BY <2>2, <2>3, Zenon
      <3>2. Cardinality(Late(<<>>, b)) = 0  BY <2>2, <2>3, Zenon
      <3> QED  BY <3>1, <3>2
    <2>5. Ledger(<<>>, {}, stamp, limit, 0)  BY <2>2, <2>4, <2>6 DEF Ledger
    <2> QED  BY <2>1, <2>5
  <1> QED  BY <1>1, <1>3, <1>4 DEF Books

LEMMA MInit == Init => MInv
  <1> SUFFICES ASSUME Init  PROVE MInv  OBVIOUS
  <1>0. None \notin Emails \cup Sources  BY MemoryAssumption
  <1>a. capacity \in Capacities /\ capacity \in Nat  BY CapacityIsPositive DEF Init
  <1>1. NInv /\ GInv  BY NInit, GInit
  <1>2. /\ \A e \in Emails : SentTo[e] = {} /\ FailedAt[e] = {}
        /\ \A src \in Sources : SentBy[src] = {} /\ TriedBy[src] = {} /\ BootedBy[src] = {}
    BY <1>0 DEF Init, SentTo, SentBy, FailedAt, TriedBy, BootedBy
  <1>3. SendBooks
    <2>1. \A e \in Emails : Spaced(addressSends[e], SentTo[e], Issued, now)
      BY <1>2 DEF Spaced
    <2> QED  BY <1>a, <1>2, <2>1, EmptyBooks DEF SendBooks, Init
  <1>4. TryBooks /\ BootBooks  BY <1>a, <1>2, EmptyBooks DEF TryBooks, BootBooks, Init
  <1>5. Unused /\ identities \in SUBSET Emails  BY DEF Init, Unused
  <1>6. browserStates \in [PreAuths -> BrowserState]  BY DEF Init, BrowserState
  <1>7. Roomy
    <2>1. Fits({}, capacity)  BY <1>a, FS_EmptySet DEF Fits
    <2>2. Stored = {}  BY DEF Init, Stored
    <2>3. {l \in Logins : InMap(l)} = {}  BY DEF Init, InMap
    <2>4. StoredStates = {} /\ identities = {}  BY DEF Init, StoredStates
    <2> QED  BY <2>1, <2>2, <2>3, <2>4 DEF Roomy
  <1> QED  BY <1>a, <1>1, <1>3, <1>4, <1>5, <1>6, <1>7 DEF MInv, Rest

-----------------------------------------------------------------------------
(* Steps that charge nothing                                               *)

SameSends ==
    \A ch \in Challenges :
        /\ challenges'[ch].email = challenges[ch].email
        /\ challenges'[ch].source = challenges[ch].source
        /\ challenges'[ch].issued = challenges[ch].issued

SameTry(l) ==
    /\ logins'[l].email = logins[l].email
    /\ logins'[l].source = logins[l].source
    /\ logins'[l].stamp = logins[l].stamp
    /\ logins'[l].charged = logins[l].charged
    /\ logins'[l].failed = logins[l].failed

NoTry(l) ==
    /\ ~logins[l].charged /\ ~logins[l].failed
    /\ ~logins'[l].charged /\ ~logins'[l].failed

SameTries == \A l \in Logins : SameTry(l) \/ NoTry(l)

SameBoots ==
    \A p \in PreAuths :
        /\ browserStates'[p].source = browserStates[p].source
        /\ browserStates'[p].issued = browserStates[p].issued

SameCapacity == capacity \in Capacities /\ capacity' = capacity

KeptOrPruned(lists, lists2, t) == lists2 = lists \/ lists2 = prune(lists, t)

LEMMA SendsKept ==
    ASSUME NInv, SendBooks, SameSends, NEW t \in Nat, t <= now, now' \in Nat, now <= now',
           SameCapacity,
           KeptOrPruned(addressSends, addressSends', t),
           KeptOrPruned(sourceSends, sourceSends', t)
    PROVE  SendBooks'
  <1>0. now \in Nat /\ capacity \in Nat /\ capacity' = capacity
    BY CapacityIsPositive DEF NInv, MapType, SameCapacity
  <1>1. /\ \A e \in Emails : SentTo'[e] = SentTo[e]
        /\ \A src \in Sources : SentBy'[src] = SentBy[src]
    BY DEF SentTo, SentBy, SameSends
  <1>2. /\ \A e \in Emails : SentTo[e] \subseteq Challenges
        /\ \A src \in Sources : SentBy[src] \subseteq Challenges
    BY DEF SentTo, SentBy
  <1>3. \A ch \in Challenges : Issued[ch] \in Nat /\ Issued'[ch] = Issued[ch]
    BY DEF Issued, SameSends, NInv, MapType, StoredChallenge
  <1>4. Books(addressSends', Emails, SentTo', Issued', AddressSendLimit, now', capacity')
    <2>1. \A e \in Emails : SentTo'[e] = SentTo[e]
                            /\ \A x \in SentTo[e] : Issued'[x] = Issued[x]
      BY <1>1, <1>2, <1>3
    <2>2. Books(addressSends, Emails, SentTo, Issued, AddressSendLimit, now, capacity)
      BY DEF SendBooks
    <2> QED  BY <1>0, <2>1, <2>2, BooksKept DEF KeptOrPruned
  <1>5. Books(sourceSends', Sources, SentBy', Issued', SourceSendLimit, now', capacity')
    <2>1. \A src \in Sources : SentBy'[src] = SentBy[src]
                               /\ \A x \in SentBy[src] : Issued'[x] = Issued[x]
      BY <1>1, <1>2, <1>3
    <2>2. Books(sourceSends, Sources, SentBy, Issued, SourceSendLimit, now, capacity)
      BY DEF SendBooks
    <2> QED  BY <1>0, <2>1, <2>2, BooksKept DEF KeptOrPruned
  <1>6. ASSUME NEW e \in Emails
        PROVE  Spaced(addressSends'[e], SentTo'[e], Issued', now')
    <2>1. addressSends \in [Emails -> Seq(Nat)]  BY DEF SendBooks, Books
    <2>2. addressSends'[e] = addressSends[e] \/ addressSends'[e] = recent(addressSends[e], t)
      BY <2>1 DEF KeptOrPruned, prune
    <2>3. \A x \in SentTo[e] : Issued[x] \in Nat /\ Issued'[x] = Issued[x]
      BY <1>2, <1>3
    <2>4. Spaced(addressSends[e], SentTo[e], Issued, now)  BY DEF SendBooks
    <2>6. addressSends[e] \in Seq(Nat)  BY <2>1
    <2>7. Respacing(addressSends[e], addressSends'[e], SentTo[e], Issued, Issued', now, t)
      BY <2>2, <2>3, <2>4 DEF Respacing
    <2>5. Spaced(addressSends'[e], SentTo[e], Issued', now')
      BY <1>0, <2>6, <2>7, SpacedKept
    <2> QED  BY <1>1, <2>5
  <1> QED  BY <1>4, <1>5, <1>6 DEF SendBooks

LEMMA TriesKept ==
    ASSUME NInv, TryBooks, SameTries, NEW t \in Nat, t <= now, now' \in Nat, now <= now',
           SameCapacity,
           KeptOrPruned(addressFailures, addressFailures', t),
           KeptOrPruned(sourceVerifications, sourceVerifications', t)
    PROVE  TryBooks'
  <1>0. now \in Nat /\ capacity \in Nat /\ capacity' = capacity
    BY CapacityIsPositive DEF NInv, MapType, SameCapacity
  <1>1. /\ \A e \in Emails : FailedAt'[e] = FailedAt[e]
        /\ \A src \in Sources : TriedBy'[src] = TriedBy[src]
    BY DEF FailedAt, TriedBy, SameTries, SameTry, NoTry
  <1>2. /\ \A e \in Emails : \A l \in FailedAt[e] : Tried'[l] = Tried[l]
        /\ \A src \in Sources : \A l \in TriedBy[src] : Tried'[l] = Tried[l]
    BY DEF Tried, FailedAt, TriedBy, SameTries, SameTry, NoTry
  <1>3. Books(addressFailures', Emails, FailedAt', Tried', AddressVerifyLimit, now', capacity')
    <2>1. \A e \in Emails : FailedAt'[e] = FailedAt[e]
                            /\ \A x \in FailedAt[e] : Tried'[x] = Tried[x]
      BY <1>1, <1>2
    <2>2. Books(addressFailures, Emails, FailedAt, Tried, AddressVerifyLimit, now, capacity)
      BY DEF TryBooks
    <2> QED  BY <1>0, <2>1, <2>2, BooksKept DEF KeptOrPruned
  <1>4. Books(sourceVerifications', Sources, TriedBy', Tried', SourceVerifyLimit, now', capacity')
    <2>1. \A src \in Sources : TriedBy'[src] = TriedBy[src]
                               /\ \A x \in TriedBy[src] : Tried'[x] = Tried[x]
      BY <1>1, <1>2
    <2>2. Books(sourceVerifications, Sources, TriedBy, Tried, SourceVerifyLimit, now, capacity)
      BY DEF TryBooks
    <2> QED  BY <1>0, <2>1, <2>2, BooksKept DEF KeptOrPruned
  <1> QED  BY <1>3, <1>4 DEF TryBooks

LEMMA BootsKept ==
    ASSUME NInv, BootBooks, SameBoots, NEW t \in Nat, t <= now, now' \in Nat, now <= now',
           SameCapacity,
           KeptOrPruned(browserBootstraps, browserBootstraps', t)
    PROVE  BootBooks'
  <1>0. now \in Nat /\ capacity \in Nat /\ capacity' = capacity
    BY CapacityIsPositive DEF NInv, MapType, SameCapacity
  <1>1. \A src \in Sources : BootedBy'[src] = BootedBy[src] /\ BootedBy[src] \subseteq PreAuths
    BY DEF BootedBy, SameBoots
  <1>2. \A p \in PreAuths : Booted'[p] = Booted[p]
    BY DEF Booted, SameBoots
  <1>3. \A src \in Sources : BootedBy'[src] = BootedBy[src]
                             /\ \A x \in BootedBy[src] : Booted'[x] = Booted[x]
    BY <1>1, <1>2
  <1>4. Books(browserBootstraps, Sources, BootedBy, Booted, BootstrapLimit, now, capacity)
    BY DEF BootBooks
  <1>5. Books(browserBootstraps', Sources, BootedBy', Booted', BootstrapLimit, now', capacity')
    BY <1>0, <1>3, <1>4, BooksKept DEF KeptOrPruned
  <1> QED  BY <1>5 DEF BootBooks

-----------------------------------------------------------------------------
(* Steps that charge                                                       *)

LEMMA SendsCharged ==
    ASSUME NInv, SendBooks, Unused, NEW ch \in Challenges, NEW e \in Emails,
           NEW src \in Sources, NEW t \in Stamps, now' = now, SameCapacity,
           challenges[ch].state = "none",
           challenges'[ch].email = e, challenges'[ch].source = src,
           challenges'[ch].issued = t,
           \A d \in Challenges \ {ch} :
              /\ challenges'[d].email = challenges[d].email
              /\ challenges'[d].source = challenges[d].source
              /\ challenges'[d].issued = challenges[d].issued,
           ~SendLimited(Pruned(t), e, src, t),
           HasRoom(prune(addressSends, t), e), HasRoom(prune(sourceSends, t), src),
           addressSends' = Charge(prune(addressSends, t), e, t),
           sourceSends' = Charge(prune(sourceSends, t), src, t)
    PROVE  SendBooks'
  <1>0. /\ t \in Nat /\ now \in Nat /\ t <= now /\ now - Lag <= t
        /\ capacity \in Nat /\ capacity' = capacity
    BY StampsArePast, CapacityIsPositive DEF SameCapacity
  <1>1. challenges[ch].email = None /\ challenges[ch].source = None
    BY DEF Unused
  <1>2. None \notin Emails /\ None \notin Sources  BY MemoryAssumption
  <1>3. /\ ch \notin SentTo[e] /\ SentTo'[e] = SentTo[e] \cup {ch}
        /\ \A f \in Emails \ {e} : SentTo'[f] = SentTo[f]
        /\ \A f \in Emails : SentTo[f] \subseteq Challenges \ {ch}
    BY <1>1, <1>2 DEF SentTo
  <1>4. /\ ch \notin SentBy[src] /\ SentBy'[src] = SentBy[src] \cup {ch}
        /\ \A r \in Sources \ {src} : SentBy'[r] = SentBy[r]
        /\ \A r \in Sources : SentBy[r] \subseteq Challenges \ {ch}
    BY <1>1, <1>2 DEF SentBy
  <1>5. \A d \in Challenges \ {ch} : Issued[d] \in Nat /\ Issued'[d] = Issued[d]
    BY DEF Issued, NInv, MapType, StoredChallenge
  <1>6. Issued'[ch] = t  BY DEF Issued
  <1>7. /\ Len(prune(addressSends, t)[e]) < AddressSendLimit
        /\ Len(prune(sourceSends, t)[src]) < SourceSendLimit
        /\ prune(addressSends, t)[e] # <<>> =>
             t - prune(addressSends, t)[e][Len(prune(addressSends, t)[e])] >= SendGap
    <2>1. /\ addressSends \in [Emails -> Seq(Nat)]
          /\ sourceSends \in [Sources -> Seq(Nat)]
      BY DEF SendBooks, Books
    <2>2. /\ prune(addressSends, t)[e] = recent(addressSends[e], t)
          /\ prune(sourceSends, t)[src] = recent(sourceSends[src], t)
      BY <2>1 DEF prune
    <2>3. prune(addressSends, t)[e] \in Seq(Nat) /\ prune(sourceSends, t)[src] \in Seq(Nat)
      BY <1>0, <2>1, <2>2, RecentFrom
    <2>4. AddressSendLimit \in Nat /\ SourceSendLimit \in Nat /\ SendGap \in Nat
      BY MemoryAssumption
    <2> DEFINE a == prune(addressSends, t)[e]
               s == prune(sourceSends, t)[src]
    <2>5. /\ ~(Len(a) >= AddressSendLimit)
          /\ ~(Len(s) >= SourceSendLimit)
          /\ ~(a # <<>> /\ t - a[Len(a)] < SendGap)
      BY DEF SendLimited, Pruned
    <2> HIDE DEF a, s
    <2>6. Len(a) \in Nat /\ Len(s) \in Nat /\ (a # <<>> => a[Len(a)] \in Nat)
      <3>1. a \in Seq(Nat) /\ s \in Seq(Nat)  BY <2>3 DEF a, s
      <3>2. a # <<>> => Len(a) \in 1..Len(a)  BY <3>1, LenProperties, EmptySeq
      <3> QED  BY <3>1, <3>2, LenProperties, ElementOfSeq
    <2>7. /\ Len(a) < AddressSendLimit /\ Len(s) < SourceSendLimit
          /\ a # <<>> => t - a[Len(a)] >= SendGap
      BY <1>0, <2>4, <2>5, <2>6
    <2> QED  BY <2>7 DEF a, s
  <1>8. Books(addressSends', Emails, SentTo', Issued', AddressSendLimit, now', capacity')
    <2>1. \A f \in Emails : \A y \in SentTo[f] : Issued[y] \in Nat /\ Issued'[y] = Issued[y]
      BY <1>3, <1>5
    <2>2. Books(addressSends, Emails, SentTo, Issued, AddressSendLimit, now, capacity)
      BY DEF SendBooks
    <2>3. AddressSendLimit \in Nat  BY MemoryAssumption
    <2>4. Charging(addressSends, Emails, SentTo, SentTo', Issued, Issued', AddressSendLimit, now, t, e, ch)
      BY <1>3, <1>6, <1>7, <2>1, <2>2 DEF Charging
    <2> QED  BY <1>0, <2>3, <2>4, BooksCharged
  <1>9. Books(sourceSends', Sources, SentBy', Issued', SourceSendLimit, now', capacity')
    <2>1. \A r \in Sources : \A y \in SentBy[r] : Issued[y] \in Nat /\ Issued'[y] = Issued[y]
      BY <1>4, <1>5
    <2>2. Books(sourceSends, Sources, SentBy, Issued, SourceSendLimit, now, capacity)
      BY DEF SendBooks
    <2>3. SourceSendLimit \in Nat  BY MemoryAssumption
    <2>4. Charging(sourceSends, Sources, SentBy, SentBy', Issued, Issued', SourceSendLimit, now, t, src, ch)
      BY <1>4, <1>6, <1>7, <2>1, <2>2 DEF Charging
    <2> QED  BY <1>0, <2>3, <2>4, BooksCharged
  <1>10. ASSUME NEW f \in Emails
         PROVE  Spaced(addressSends'[f], SentTo'[f], Issued', now')
    <2>1. addressSends \in [Emails -> Seq(Nat)]  BY DEF SendBooks, Books
    <2>2. \A d \in SentTo[f] : Issued[d] \in Nat /\ Issued'[d] = Issued[d]
      BY <1>3, <1>5
    <2>3. Spaced(addressSends[f], SentTo[f], Issued, now) /\ addressSends[f] \in Seq(Nat)
      BY <2>1 DEF SendBooks
    <2>4. \A j \in Emails : prune(addressSends, t)[j] = recent(addressSends[j], t)
      BY <2>1 DEF prune
    <2>5. CASE f = e
      <3>1. addressSends'[f] = Append(recent(addressSends[f], t), t)
        BY <2>1, <2>4, <2>5 DEF Charge, prune
      <3>2. recent(addressSends[f], t) # <<>> =>
               t - recent(addressSends[f], t)[Len(recent(addressSends[f], t))] >= SendGap
        BY <1>7, <2>4, <2>5
      <3>3. ch \notin SentTo[f]  BY <1>3
      <3>4. Spaced(Append(recent(addressSends[f], t), t), SentTo[f] \cup {ch}, Issued', now)
        BY <1>0, <1>6, <2>2, <2>3, <3>2, <3>3, SpacedCharged
      <3> QED  BY <1>3, <2>5, <3>1, <3>4
    <2>6. CASE f # e
      <3>1. addressSends'[f] = recent(addressSends[f], t)
        BY <2>1, <2>4, <2>6 DEF Charge, prune
      <3>3. now' \in Nat /\ now <= now'  BY <1>0
      <3>2. Respacing(addressSends[f], addressSends'[f], SentTo[f], Issued, Issued', now, t)
        BY <2>2, <2>3, <3>1 DEF Respacing
      <3>4. Spaced(addressSends'[f], SentTo[f], Issued', now')
        BY <1>0, <2>3, <3>2, <3>3, SpacedKept
      <3> QED  BY <1>3, <2>6, <3>4
    <2> QED  BY <2>5, <2>6
  <1> QED  BY <1>8, <1>9, <1>10 DEF SendBooks

(* Call l returned at t: nobody was charged for it before. *)
Answered(l, t) ==
    /\ logins[l].pc = "idle"
    /\ logins'[l].stamp = t
    /\ \A k \in Logins \ {l} : SameTry(k)

LEMMA TryCharged ==
    ASSUME NInv, GInv, TryBooks, Unused, NEW l \in Logins, NEW src \in Sources,
           NEW t \in Stamps, now' = now, SameCapacity, Answered(l, t),
           logins'[l].charged, logins'[l].source = src,
           HasRoom(prune(sourceVerifications, t), src),
           Len(prune(sourceVerifications, t)[src]) < SourceVerifyLimit,
           sourceVerifications' = Charge(prune(sourceVerifications, t), src, t)
    PROVE  Books(sourceVerifications', Sources, TriedBy', Tried', SourceVerifyLimit, now', capacity')
  <1>0. /\ t \in Nat /\ now \in Nat /\ t <= now /\ now - Lag <= t
        /\ capacity \in Nat /\ capacity' = capacity
    BY StampsArePast, CapacityIsPositive DEF SameCapacity
  <1>1. ~logins[l].charged  BY DEF Unused, Answered
  <1>2. /\ l \notin TriedBy[src] /\ TriedBy'[src] = TriedBy[src] \cup {l}
        /\ \A r \in Sources \ {src} : TriedBy'[r] = TriedBy[r]
    BY <1>1 DEF TriedBy, Answered, SameTry
  <1>3. \A r \in Sources : TriedBy[r] \subseteq Logins \ {l}
    BY <1>1 DEF TriedBy
  <1>4. \A k \in Logins \ {l} : Tried[k] \in Nat /\ Tried'[k] = Tried[k]
    BY DEF Tried, GInv, Login, Answered, SameTry
  <1>5. \A r \in Sources : \A k \in TriedBy[r] : Tried[k] \in Nat /\ Tried'[k] = Tried[k]
    BY <1>3, <1>4
  <1>6. Tried'[l] = t  BY DEF Tried, Answered
  <1>7. Books(sourceVerifications, Sources, TriedBy, Tried, SourceVerifyLimit, now, capacity)
    BY DEF TryBooks
  <1>8. Charging(sourceVerifications, Sources, TriedBy, TriedBy', Tried, Tried',
                 SourceVerifyLimit, now, t, src, l)
    BY <1>2, <1>5, <1>6, <1>7 DEF Charging
  <1>9. SourceVerifyLimit \in Nat  BY MemoryAssumption
  <1> QED  BY <1>0, <1>8, <1>9, BooksCharged

LEMMA FailureCharged ==
    ASSUME NInv, GInv, TryBooks, Unused, NEW l \in Logins, NEW e \in Emails,
           NEW t \in Stamps, now' = now, SameCapacity, Answered(l, t),
           logins'[l].failed, logins'[l].email = e,
           HasRoom(prune(addressFailures, t), e),
           Len(prune(addressFailures, t)[e]) < AddressVerifyLimit,
           addressFailures' = Charge(prune(addressFailures, t), e, t)
    PROVE  Books(addressFailures', Emails, FailedAt', Tried', AddressVerifyLimit, now', capacity')
  <1>0. /\ t \in Nat /\ now \in Nat /\ t <= now /\ now - Lag <= t
        /\ capacity \in Nat /\ capacity' = capacity
    BY StampsArePast, CapacityIsPositive DEF SameCapacity
  <1>1. ~logins[l].failed  BY DEF Unused, Answered
  <1>2. /\ l \notin FailedAt[e] /\ FailedAt'[e] = FailedAt[e] \cup {l}
        /\ \A f \in Emails \ {e} : FailedAt'[f] = FailedAt[f]
    BY <1>1 DEF FailedAt, Answered, SameTry
  <1>3. \A f \in Emails : FailedAt[f] \subseteq Logins \ {l}
    BY <1>1 DEF FailedAt
  <1>4. \A k \in Logins \ {l} : Tried[k] \in Nat /\ Tried'[k] = Tried[k]
    BY DEF Tried, GInv, Login, Answered, SameTry
  <1>5. \A f \in Emails : \A k \in FailedAt[f] : Tried[k] \in Nat /\ Tried'[k] = Tried[k]
    BY <1>3, <1>4
  <1>6. Tried'[l] = t  BY DEF Tried, Answered
  <1>7. Books(addressFailures, Emails, FailedAt, Tried, AddressVerifyLimit, now, capacity)
    BY DEF TryBooks
  <1>8. Charging(addressFailures, Emails, FailedAt, FailedAt', Tried, Tried',
                 AddressVerifyLimit, now, t, e, l)
    BY <1>2, <1>5, <1>6, <1>7 DEF Charging
  <1>9. AddressVerifyLimit \in Nat  BY MemoryAssumption
  <1> QED  BY <1>0, <1>8, <1>9, BooksCharged

LEMMA FailureKept ==
    ASSUME NInv, TryBooks, Unused, NEW l \in Logins, NEW t \in Stamps, now' = now, SameCapacity,
           Answered(l, t), ~logins'[l].failed,
           addressFailures' = prune(addressFailures, t)
    PROVE  Books(addressFailures', Emails, FailedAt', Tried', AddressVerifyLimit, now', capacity')
  <1>0. /\ t \in Nat /\ now \in Nat /\ t <= now
        /\ capacity \in Nat /\ capacity' = capacity
    BY StampsArePast, CapacityIsPositive DEF SameCapacity
  <1>1. ~logins[l].failed  BY DEF Unused, Answered
  <1>2. \A e \in Emails : FailedAt'[e] = FailedAt[e] /\ FailedAt[e] \subseteq Logins \ {l}
    BY <1>1 DEF FailedAt, Answered, SameTry
  <1>3. \A k \in Logins \ {l} : Tried'[k] = Tried[k]
    BY DEF Tried, Answered, SameTry
  <1>4. \A e \in Emails : FailedAt'[e] = FailedAt[e]
                          /\ \A x \in FailedAt[e] : Tried'[x] = Tried[x]
    BY <1>2, <1>3
  <1>5. Books(addressFailures, Emails, FailedAt, Tried, AddressVerifyLimit, now, capacity)
    BY DEF TryBooks
  <1>6. now' \in Nat /\ now <= now'  BY <1>0
  <1> QED  BY <1>0, <1>4, <1>5, <1>6, BooksKept

LEMMA BootCharged ==
    ASSUME NInv, browserStates \in [PreAuths -> BrowserState], BootBooks, Unused,
           NEW p \in PreAuths, NEW src \in Sources, NEW t \in Stamps, now' = now, SameCapacity,
           browserStates[p].state = "none",
           browserStates'[p].source = src, browserStates'[p].issued = t,
           \A q \in PreAuths \ {p} :
              /\ browserStates'[q].source = browserStates[q].source
              /\ browserStates'[q].issued = browserStates[q].issued,
           HasRoom(prune(browserBootstraps, t), src),
           Len(prune(browserBootstraps, t)[src]) < BootstrapLimit,
           browserBootstraps' = Charge(prune(browserBootstraps, t), src, t)
    PROVE  BootBooks'
  <1>0. /\ t \in Nat /\ now \in Nat /\ t <= now /\ now - Lag <= t
        /\ capacity \in Nat /\ capacity' = capacity
    BY StampsArePast, CapacityIsPositive DEF SameCapacity
  <1>1. browserStates[p].source = None /\ None \notin Sources
    BY MemoryAssumption DEF Unused
  <1>2. /\ p \notin BootedBy[src] /\ BootedBy'[src] = BootedBy[src] \cup {p}
        /\ \A r \in Sources \ {src} : BootedBy'[r] = BootedBy[r]
    BY <1>1 DEF BootedBy
  <1>3. \A r \in Sources : BootedBy[r] \subseteq PreAuths \ {p}
    BY <1>1 DEF BootedBy
  <1>4. \A q \in PreAuths \ {p} : Booted[q] \in Nat /\ Booted'[q] = Booted[q]
    BY DEF Booted, BrowserState
  <1>5. \A r \in Sources : \A q \in BootedBy[r] : Booted[q] \in Nat /\ Booted'[q] = Booted[q]
    BY <1>3, <1>4
  <1>6. Booted'[p] = t  BY DEF Booted
  <1>7. Books(browserBootstraps, Sources, BootedBy, Booted, BootstrapLimit, now, capacity)
    BY DEF BootBooks
  <1>8. Charging(browserBootstraps, Sources, BootedBy, BootedBy', Booted, Booted',
                 BootstrapLimit, now, t, src, p)
    BY <1>2, <1>5, <1>6, <1>7 DEF Charging
  <1>9. BootstrapLimit \in Nat  BY MemoryAssumption
  <1> QED  BY <1>0, <1>8, <1>9, BooksCharged DEF BootBooks

-----------------------------------------------------------------------------
(* Room in the maps of entries                                             *)

LEMMA FewerFit ==
    ASSUME NEW E, NEW F, NEW c \in Nat, Fits(E, c), F \subseteq E
    PROVE  Fits(F, c)
  <1>1. /\ IsFiniteSet(F) /\ Cardinality(F) <= Cardinality(E)
    BY FS_Subset DEF Fits
  <1>2. Cardinality(F) \in Nat /\ Cardinality(E) \in Nat
    BY <1>1, FS_CardinalityType DEF Fits
  <1> QED  BY <1>1, <1>2 DEF Fits

LEMMA OneMoreFits ==
    ASSUME NEW E, NEW c \in Nat, IsFiniteSet(E), Cardinality(E) < c, NEW x
    PROVE  Fits(E \cup {x}, c)
  <1>1. /\ IsFiniteSet(E \cup {x})
        /\ Cardinality(E \cup {x}) =
             IF x \in E THEN Cardinality(E) ELSE Cardinality(E) + 1
    BY FS_AddElement
  <1>2. Cardinality(E) \in Nat
    BY FS_CardinalityType
  <1> QED  BY <1>1, <1>2 DEF Fits

(* What makeRoom deleted leaves a place for one entry. *)
LEMMA RoomMade ==
    ASSUME capacity \in Nat \ {0}, NEW E, Fits(E, capacity), NEW R, R \subseteq E,
           NEW D \in MakeRoom(E, R), NEW x
    PROVE  Fits((E \ D) \cup {x}, capacity)
  <1>0. IsFiniteSet(E) /\ Cardinality(E) \in Nat /\ capacity \in Nat
    BY FS_CardinalityType DEF Fits
  <1>1. CASE Cardinality(E) < capacity
    <2>1. Fits(E \cup {x}, capacity)  BY <1>0, <1>1, OneMoreFits
    <2> QED  BY <1>0, <2>1, FewerFit
  <1>2. CASE ~(Cardinality(E) < capacity)
    <2>1. PICK y \in R : D = {y}  BY <1>2 DEF MakeRoom
    <2>2. IsFiniteSet(E \ {y}) /\ Cardinality(E \ {y}) = Cardinality(E) - 1
      BY <1>0, <2>1, FS_RemoveElement
    <2>3. Cardinality(E \ {y}) < capacity  BY <1>0, <2>2 DEF Fits
    <2> QED  BY <1>0, <2>1, <2>2, <2>3, OneMoreFits
  <1> QED  BY <1>1, <1>2

-----------------------------------------------------------------------------
(* The actions                                                             *)

LEMMA ReserveRest ==
    ASSUME MInv, NEW ch \in Challenges, NEW e \in Emails, NEW src \in Sources,
           NEW t \in Stamps, Reserve(ch, e, src, t)
    PROVE  Rest'
  <1> DEFINE ways == MakeRoom(Stored, Reclaimable(t))
             room == HasRoom(prune(addressSends, t), e) /\ HasRoom(prune(sourceSends, t), src)
  <1>0. /\ NInv /\ GInv /\ Rest
        /\ t \in Nat /\ now \in Nat /\ t <= now /\ now <= now
        /\ capacity \in Nat /\ capacity \in Nat \ {0} /\ capacity \in Capacities
    BY StampsArePast, CapacityIsPositive DEF MInv, Rest
  <1>1. /\ challenges[ch].state = "none"
        /\ UNCHANGED <<now, capacity, identities, logins, browserStates>>
        /\ \/ SetBudgets(Pruned(t)) /\ UNCHANGED <<challenges, active>>
           \/ SetBudgets(Pruned(t)) /\ \E D \in ways : challenges' = Without(D)
           \/ /\ ~SendLimited(Pruned(t), e, src, t)
              /\ room
              /\ \E D \in ways : Replaced(D, ch, e, src, t)
              /\ SetBudgets([Pruned(t) EXCEPT
                    !.addressSends = Charge(prune(addressSends, t), e, t),
                    !.sourceSends = Charge(prune(sourceSends, t), src, t)])
    BY DEF Reserve, Previous, Replaced, Pruned
  <1>a. SameCapacity  BY <1>0, <1>1 DEF SameCapacity
  <1>2. /\ addressFailures' = prune(addressFailures, t)
        /\ sourceVerifications' = prune(sourceVerifications, t)
        /\ browserBootstraps' = prune(browserBootstraps, t)
    BY <1>1 DEF SetBudgets, Pruned
  <1>3. TryBooks' /\ BootBooks'
    <2>1. SameTries /\ SameBoots  BY <1>1 DEF SameTries, SameTry, SameBoots
    <2>2. now' \in Nat /\ now <= now'  BY <1>0, <1>1
    <2> QED  BY <1>0, <1>a, <1>2, <2>1, <2>2, TriesKept, BootsKept DEF Rest, KeptOrPruned
  <1>4. ASSUME NEW D, challenges' = Without(D)
        PROVE  /\ SameSends
               /\ \A d \in Challenges : challenges'[d].state = "none" => challenges[d].state = "none"
               /\ Stored' \subseteq Stored
    <2>1. \A d \in Challenges : challenges[d] \in StoredChallenge
      BY <1>0 DEF NInv, MapType
    <2> QED  BY <1>4, <2>1 DEF Without, SameSends, StoredChallenge, Stored
  <1>5. ASSUME SetBudgets(Pruned(t)), SameSends
        PROVE  SendBooks'
    <2>1. /\ addressSends' = prune(addressSends, t)
          /\ sourceSends' = prune(sourceSends, t)
      BY <1>5 DEF SetBudgets, Pruned
    <2>2. now' \in Nat /\ now <= now'  BY <1>0, <1>1
    <2> QED  BY <1>0, <1>a, <1>5, <2>1, <2>2, SendsKept DEF Rest, KeptOrPruned
  <1>6. ASSUME NEW D \in ways, Replaced(D, ch, e, src, t)
        PROVE  /\ challenges'[ch].email = e /\ challenges'[ch].source = src
               /\ challenges'[ch].issued = t /\ challenges'[ch].state = "stored"
               /\ \A d \in Challenges \ {ch} :
                    /\ challenges'[d].email = challenges[d].email
                    /\ challenges'[d].source = challenges[d].source
                    /\ challenges'[d].issued = challenges[d].issued
                    /\ challenges'[d].state = "none" => challenges[d].state = "none"
                    /\ challenges'[d].state = "stored" => d \in Stored \ D
    <2>0. ASSUME NEW d \in Challenges  PROVE challenges[d] \in StoredChallenge
      BY <1>0 DEF NInv, MapType
    <2>1. /\ challenges'[ch].email = e /\ challenges'[ch].source = src
          /\ challenges'[ch].issued = t /\ challenges'[ch].state = "stored"
      BY <1>6 DEF Replaced
    <2>2. ASSUME NEW d \in Challenges \ {ch}
          PROVE  \/ /\ challenges'[d] = [challenges[d] EXCEPT !.active = FALSE]
                    /\ d \notin D
                 \/ d \in D /\ challenges'[d] =
                      [challenges[d] EXCEPT !.state = "gone", !.active = FALSE]
                 \/ d \notin D /\ challenges'[d] = challenges[d]
      <3>1. Unnamed(D)[e] \notin D
        <4>1. D \subseteq Challenges
          BY RoomTaken DEF Reclaimable, Stored
        <4> QED  BY <4>1, MemoryAssumption DEF Unnamed
      <3> QED  BY <1>6, <3>1 DEF Replaced, Without
    <2>3. ASSUME NEW d \in Challenges \ {ch}
          PROVE  /\ challenges'[d].email = challenges[d].email
                 /\ challenges'[d].source = challenges[d].source
                 /\ challenges'[d].issued = challenges[d].issued
                 /\ challenges'[d].state = "none" => challenges[d].state = "none"
                 /\ challenges'[d].state = "stored" => d \in Stored \ D
      BY <2>0, <2>2, ZenonT(40) DEF StoredChallenge, Stored
    <2> QED  BY <2>1, <2>3
  <1>7. SendBooks'
    <2>1. CASE SetBudgets(Pruned(t)) /\ UNCHANGED <<challenges, active>>
      <3>1. SameSends  BY <2>1 DEF SameSends
      <3> QED  BY <1>5, <2>1, <3>1
    <2>2. CASE SetBudgets(Pruned(t)) /\ \E D \in ways : challenges' = Without(D)
      BY <1>4, <1>5, <2>2
    <2>3. ASSUME ~SendLimited(Pruned(t), e, src, t), room,
                 NEW D \in ways, Replaced(D, ch, e, src, t),
                 SetBudgets([Pruned(t) EXCEPT
                    !.addressSends = Charge(prune(addressSends, t), e, t),
                    !.sourceSends = Charge(prune(sourceSends, t), src, t)])
          PROVE  SendBooks'
      <3>1. /\ addressSends' = Charge(prune(addressSends, t), e, t)
            /\ sourceSends' = Charge(prune(sourceSends, t), src, t)
        BY <2>3 DEF SetBudgets, Pruned
      <3>2. Unused /\ SendBooks  BY <1>0 DEF Rest
      <3> QED  BY <1>0, <1>a, <1>1, <1>6, <2>3, <3>1, <3>2, SendsCharged
    <2> QED  BY <1>1, <2>1, <2>2, <2>3
  <1>8. Fits(Stored', capacity)
    <2>0. Fits(Stored, capacity) /\ Reclaimable(t) \subseteq Stored
      BY <1>0 DEF Rest, Roomy, Reclaimable
    <2>1. CASE UNCHANGED <<challenges, active>>  BY <2>0, <2>1 DEF Stored
    <2>2. CASE \E D \in ways : challenges' = Without(D)
      BY <1>0, <1>4, <2>0, <2>2, FewerFit
    <2>3. ASSUME NEW D \in ways, Replaced(D, ch, e, src, t)  PROVE Fits(Stored', capacity)
      <3>1. Stored' \subseteq (Stored \ D) \cup {ch}
        BY <1>6, <2>3 DEF Stored
      <3>2. Fits((Stored \ D) \cup {ch}, capacity)  BY <1>0, <2>0, RoomMade
      <3> QED  BY <1>0, <3>1, <3>2, FewerFit
    <2> QED  BY <1>1, <2>1, <2>2, <2>3
  <1>9. Unused'
    <2>1. ASSUME NEW d \in Challenges, challenges'[d].state = "none"
          PROVE  challenges'[d].email = None /\ challenges'[d].source = None
      <3>1. /\ challenges[d].state = "none"
            /\ challenges'[d].email = challenges[d].email
            /\ challenges'[d].source = challenges[d].source
        BY <1>1, <1>4, <1>6, <2>1 DEF SameSends
      <3> QED  BY <1>0, <3>1 DEF Rest, Unused
    <2> QED  BY <1>0, <1>1, <2>1 DEF Rest, Unused
  <1>10. Roomy'
    BY <1>0, <1>1, <1>8 DEF Rest, Roomy, InMap, StoredStates
  <1> QED  BY <1>0, <1>1, <1>3, <1>7, <1>9, <1>10 DEF Rest

LEMMA AnsweredBy ==
    ASSUME GInv, NEW l \in Logins, NEW ch, NEW src, NEW t, NEW D, NEW charged, NEW failed,
           NEW s, logins[l].pc = "idle", \A k \in D : InMap(k),
           logins' = Returned(l, ch, src, t, D, charged, failed, s)
    PROVE  /\ Answered(l, t)
           /\ logins'[l].charged = charged /\ logins'[l].failed = failed
           /\ logins'[l].source = src /\ logins'[l].session = s /\ logins'[l].pc = "done"
           /\ charged => logins'[l].email = challenges[ch].email
           /\ \A k \in Logins \ {l} :
                /\ logins'[k].pc = logins[k].pc
                /\ k \notin D => logins'[k].session = logins[k].session
                /\ k \in D => logins'[k].session = "gone"
  <1>0. \A k \in Logins : logins[k] \in Login  BY DEF GInv
  <1>1. logins'[l] = [pc |-> "done", ch |-> ch,
             email |-> IF charged THEN challenges[ch].email ELSE None,
             source |-> src, stamp |-> t, charged |-> charged, failed |-> failed,
             session |-> s, seen |-> t]
    BY DEF Returned
  <1>2. ASSUME NEW k \in Logins \ {l}
        PROVE  \/ k \in D /\ logins'[k] = [logins[k] EXCEPT !.session = "gone"]
               \/ k \notin D /\ logins'[k] = logins[k]
    BY DEF Returned
  <1>3. ASSUME NEW k \in Logins \ {l}
        PROVE  /\ SameTry(k)
               /\ logins'[k].pc = logins[k].pc
               /\ k \notin D => logins'[k].session = logins[k].session
               /\ k \in D => logins'[k].session = "gone"
    BY <1>0, <1>2, ZenonT(40) DEF Login, SameTry
  <1>4. Answered(l, t)  BY <1>1, <1>3 DEF Answered
  <1> QED  BY <1>1, <1>3, <1>4

(* What any answer leaves: the sessions reclaimed make room for one more.   *)
LEMMA AnswerRoom ==
    ASSUME MInv, NEW l \in Logins, NEW ch, NEW src, NEW t, NEW charged, NEW failed,
           NEW s \in {"none", "active"},
           NEW D, D \subseteq {k \in Logins : InMap(k)},
           s = "active" =>
              D \in MakeRoom({k \in Logins : InMap(k)}, ReclaimableSessions(t)),
           logins[l].pc = "idle",
           logins' = Returned(l, ch, src, t, D, charged, failed, s)
    PROVE  /\ Fits({k \in Logins : InMap(k)}', capacity)
           /\ \A k \in Logins : logins'[k].pc = "idle" =>
                ~logins'[k].charged /\ ~logins'[k].failed /\ logins'[k].session = "none"
  <1> DEFINE E == {k \in Logins : InMap(k)}
  <1>0. /\ GInv /\ Unused /\ Fits(E, capacity) /\ ReclaimableSessions(t) \subseteq E
        /\ capacity \in Nat /\ capacity \in Nat \ {0}
    BY CapacityIsPositive DEF MInv, Rest, Roomy, ReclaimableSessions
  <1>a. \A k \in D : InMap(k)  OBVIOUS
  <1>1. /\ Answered(l, t) /\ logins'[l].session = s /\ logins'[l].pc = "done"
        /\ \A k \in Logins \ {l} :
             /\ logins'[k].pc = logins[k].pc
             /\ k \notin D => logins'[k].session = logins[k].session
             /\ k \in D => logins'[k].session = "gone"
    BY <1>0, <1>a, AnsweredBy
  <1>2. ASSUME NEW k \in Logins, logins'[k].pc = "idle"
        PROVE  ~logins'[k].charged /\ ~logins'[k].failed /\ logins'[k].session = "none"
    <2>1. k # l /\ logins[k].pc = "idle"  BY <1>1, <1>2
    <2>2. ~logins[k].charged /\ ~logins[k].failed /\ logins[k].session = "none"
      BY <1>0, <2>1 DEF Unused
    <2>3. k \notin D  BY <2>2 DEF InMap
    <2> QED  BY <1>1, <2>1, <2>2, <2>3 DEF Answered, SameTry
  <1>3. {k \in Logins : InMap(k)}' \subseteq (E \ D) \cup (IF s = "active" THEN {l} ELSE {})
    BY <1>1 DEF InMap
  <1>4. CASE s = "active"
    <2>1. D \in MakeRoom(E, ReclaimableSessions(t))  BY <1>4
    <2>2. Fits((E \ D) \cup {l}, capacity)  BY <1>0, <2>1, RoomMade
    <2> QED  BY <1>0, <1>2, <1>3, <1>4, <2>2, FewerFit
  <1>5. CASE s = "none"
    <2>1. {k \in Logins : InMap(k)}' \subseteq E  BY <1>3, <1>5
    <2> QED  BY <1>0, <1>2, <2>1, FewerFit
  <1> QED  BY <1>4, <1>5

(* An answer that leaves the challenges' fields, with its budgets. *)
LEMMA AnswerRest ==
    ASSUME MInv, NEW l \in Logins, NEW t \in Stamps,
           UNCHANGED <<now, capacity, browserStates>>, identities' \in SUBSET Emails,
           Fits(identities', capacity),
           SameSends, \A d \in Challenges : challenges'[d].state = challenges[d].state,
           Fits({k \in Logins : InMap(k)}', capacity),
           \A k \in Logins : logins'[k].pc = "idle" =>
             ~logins'[k].charged /\ ~logins'[k].failed /\ logins'[k].session = "none",
           addressSends' = prune(addressSends, t), sourceSends' = prune(sourceSends, t),
           browserBootstraps' = prune(browserBootstraps, t),
           TryBooks'
    PROVE  Rest'
  <1>0. /\ NInv /\ GInv /\ Rest
        /\ t \in Nat /\ now \in Nat /\ t <= now
        /\ now' \in Nat /\ now <= now'
        /\ SameCapacity /\ capacity' \in Capacities /\ capacity' = capacity
    BY StampsArePast DEF MInv, Rest, SameCapacity
  <1>1. SendBooks'
    BY <1>0, SendsKept DEF Rest, KeptOrPruned
  <1>2. BootBooks'
    <2>1. SameBoots  BY DEF SameBoots
    <2> QED  BY <1>0, <2>1, BootsKept DEF Rest, KeptOrPruned
  <1>3. Unused'
    <2>1. ASSUME NEW d \in Challenges, challenges'[d].state = "none"
          PROVE  challenges'[d].email = None /\ challenges'[d].source = None
      BY <1>0, <2>1 DEF Rest, Unused, SameSends
    <2> QED  BY <1>0, <2>1 DEF Rest, Unused
  <1>4. Stored' = Stored /\ StoredStates' = StoredStates
    BY DEF Stored, StoredStates
  <1>5. Roomy'  BY <1>0, <1>4 DEF Rest, Roomy
  <1> QED  BY <1>0, <1>1, <1>2, <1>3, <1>5 DEF Rest

LEMMA VerifyRest ==
    ASSUME MInv, NEW l \in Logins, NEW ch \in Challenges, NEW match \in BOOLEAN,
           NEW src \in Sources, NEW t \in Stamps, Verify(l, ch, match, src, t)
    PROVE  Rest'
  <1> DEFINE E == {k \in Logins : InMap(k)}
             ways == MakeRoom(E, ReclaimableSessions(t))
             e == challenges[ch].email
             b == Pruned(t)
             v == prune(sourceVerifications, t)
             f == prune(addressFailures, t)
             c == [b EXCEPT !.sourceVerifications = Charge(v, src, t)]
             d == [c EXCEPT !.addressFailures = Charge(f, e, t)]
             answer(D, charged, failed, s) ==
                logins' = Returned(l, ch, src, t, D, charged, failed, s)
             sourceRoom == HasRoom(v, src) /\ Len(v[src]) < SourceVerifyLimit
  <1>0. /\ NInv /\ GInv /\ Rest /\ Unused /\ TryBooks
        /\ t \in Nat /\ now \in Nat /\ t <= now /\ now <= now
        /\ capacity \in Nat /\ capacity \in Nat \ {0} /\ capacity \in Capacities
    BY StampsArePast, CapacityIsPositive DEF MInv, Rest
  <1>1. logins[l].pc = "idle" /\ UNCHANGED <<now, capacity, browserStates>>
    BY DEF Verify
  <1>a. SameCapacity  BY <1>0, <1>1 DEF SameCapacity
  <1>2. /\ c = [b EXCEPT !.sourceVerifications = Charge(b.sourceVerifications, src, t)]
        /\ c.addressFailures = f
    BY DEF Pruned
  <1>3. \/ /\ answer({}, FALSE, FALSE, "none") /\ SetBudgets(b)
           /\ UNCHANGED <<challenges, identities>>
        \/ /\ sourceRoom /\ SetBudgets(c)
           /\ \E D \in ways \cup {{}} : answer(D, TRUE, FALSE, "none")
           /\ UNCHANGED <<challenges, identities>>
        \/ /\ sourceRoom /\ SetBudgets(d) /\ Redeemable(ch, t)
           /\ HasRoom(f, e) /\ ~(Len(f[e]) >= AddressVerifyLimit)
           /\ answer({}, TRUE, TRUE, "none")
           /\ challenges' = [challenges EXCEPT ![ch].attempts = @ + 1]
           /\ UNCHANGED identities
        \/ /\ sourceRoom /\ SetBudgets(c) /\ Redeemable(ch, t)
           /\ \E D \in ways : answer(D, TRUE, FALSE, "active")
           /\ challenges' = Spent(ch)
           /\ e \in identities \/ Cardinality(identities) < capacity
           /\ identities' = identities \cup {e}
    <2>1. CASE VerifyLimited(l, ch, src, t, b)
      BY <2>1 DEF VerifyLimited
    <2>2. CASE /\ sourceRoom
               /\ logins' = Returned(l, ch, src, t, {}, TRUE, FALSE, "none")
               /\ SetBudgets(c)
               /\ UNCHANGED <<challenges, active, identities>>
      BY <2>2
    <2>3. CASE sourceRoom /\ Redeemable(ch, t) /\ VerifyMatch(l, ch, src, t, c)
      <3> HIDE DEF c, sourceRoom
      <3> QED  BY <2>3 DEF VerifyMatch
    <2>4. CASE sourceRoom /\ Redeemable(ch, t) /\ VerifyMismatch(l, ch, src, t, c)
      <3>1. CASE ~HasRoom(f, e) \/ Len(f[e]) >= AddressVerifyLimit
        <4>1. /\ SetBudgets(c) /\ UNCHANGED <<challenges, identities>>
              /\ answer({}, TRUE, FALSE, "none")
          BY <1>2, <2>4, <3>1 DEF VerifyMismatch
        <4> QED  BY <2>4, <4>1
      <3>2. CASE ~(~HasRoom(f, e) \/ Len(f[e]) >= AddressVerifyLimit)
        <4>1. /\ SetBudgets(d) /\ UNCHANGED identities
              /\ challenges' = [challenges EXCEPT ![ch].attempts = @ + 1]
              /\ answer({}, TRUE, TRUE, "none")
          BY <1>2, <2>4, <3>2 DEF VerifyMismatch
        <4> QED  BY <2>4, <3>2, <4>1
      <3> QED  BY <3>1, <3>2
    <2>5. v = b.sourceVerifications  BY DEF Pruned
    <2> QED  BY <1>2, <2>1, <2>2, <2>3, <2>4, <2>5 DEF Verify
  <1>4. /\ \A D \in ways \cup {{}} : D \subseteq E
        /\ Fits(identities, capacity) /\ identities \in SUBSET Emails
    BY <1>0, RoomTaken DEF ReclaimableSessions, Rest, Roomy
  <1>5. /\ addressSends' = prune(addressSends, t) /\ sourceSends' = prune(sourceSends, t)
        /\ browserBootstraps' = prune(browserBootstraps, t)
    BY <1>3 DEF SetBudgets, Pruned
  <1>6. /\ SameSends
        /\ \A g \in Challenges : challenges'[g].state = challenges[g].state
    <2>1. \A g \in Challenges : challenges[g] \in StoredChallenge
      BY <1>0 DEF NInv, MapType
    <2>2. \/ UNCHANGED challenges
          \/ challenges' = [challenges EXCEPT ![ch].attempts = @ + 1]
          \/ challenges' = Spent(ch)
      BY <1>3
    <2>3. challenges \in [Challenges -> StoredChallenge]  BY <1>0 DEF NInv, MapType
    <2> QED  BY <2>1, <2>2, <2>3 DEF SameSends, Spent, StoredChallenge
  <1>7. Redeemable(ch, t) => e \in Emails
    BY <1>0 DEF Redeemable, NInv, Flagged
  <1>8. identities' \in SUBSET Emails /\ Fits(identities', capacity)
    <2>1. CASE UNCHANGED identities  BY <1>4, <2>1
    <2>2. CASE /\ Redeemable(ch, t)
               /\ e \in identities \/ Cardinality(identities) < capacity
               /\ identities' = identities \cup {e}
      <3>1. identities' \in SUBSET Emails  BY <1>4, <1>7, <2>2
      <3>2. CASE e \in identities
        <4>1. identities' = identities  BY <2>2, <3>2
        <4> QED  BY <1>4, <4>1
      <3>3. CASE Cardinality(identities) < capacity
        BY <1>0, <1>4, <2>2, <3>1, <3>3, OneMoreFits DEF Fits
      <3> QED  BY <2>2, <3>1, <3>2, <3>3
    <2> QED  BY <1>3, <2>1, <2>2
  <1>9. /\ Fits({k \in Logins : InMap(k)}', capacity)
        /\ \A k \in Logins : logins'[k].pc = "idle" =>
             ~logins'[k].charged /\ ~logins'[k].failed /\ logins'[k].session = "none"
    <2>1. \E D \in ways \cup {{}}, charged \in BOOLEAN, failed \in BOOLEAN,
             s \in {"none", "active"} :
               answer(D, charged, failed, s) /\ (s = "active" => D \in ways)
      BY <1>3
    <2> HIDE DEF ways
    <2>2. PICK D \in ways \cup {{}}, charged \in BOOLEAN, failed \in BOOLEAN,
               s \in {"none", "active"} :
                 answer(D, charged, failed, s) /\ (s = "active" => D \in ways)
      BY <2>1
    <2>3. D \subseteq {k \in Logins : InMap(k)}  BY <1>4
    <2> QED  BY <1>1, <2>2, <2>3, AnswerRoom DEF ways
  <1>10. \A charged, failed, s : \A D \in ways \cup {{}} : answer(D, charged, failed, s) =>
           /\ Answered(l, t) /\ logins'[l].charged = charged /\ logins'[l].failed = failed
           /\ logins'[l].source = src /\ (charged => logins'[l].email = e)
    <2> SUFFICES ASSUME NEW charged, NEW failed, NEW s, NEW D \in ways \cup {{}},
                        answer(D, charged, failed, s)
                 PROVE  /\ Answered(l, t) /\ logins'[l].charged = charged
                        /\ logins'[l].failed = failed /\ logins'[l].source = src
                        /\ (charged => logins'[l].email = e)
      OBVIOUS
    <2>1. \A k \in D : InMap(k)  BY <1>4
    <2> QED  BY <1>0, <1>1, <2>1, AnsweredBy
  <1>11. TryBooks'
    <2>0. now' \in Nat /\ now <= now' /\ now' = now  BY <1>0, <1>1
    <2>1. CASE answer({}, FALSE, FALSE, "none") /\ SetBudgets(b)
      <3>1. Answered(l, t) /\ logins'[l].charged = FALSE /\ logins'[l].failed = FALSE
        BY <1>10, <2>1
      <3>2. ~logins[l].charged /\ ~logins[l].failed  BY <1>0, <1>1 DEF Unused
      <3>3. SameTries  BY <3>1, <3>2 DEF SameTries, Answered, NoTry
      <3>4. addressFailures' = f /\ sourceVerifications' = v
        BY <2>1 DEF SetBudgets, Pruned
      <3> QED  BY <1>0, <1>a, <2>0, <3>3, <3>4, TriesKept DEF KeptOrPruned
    <2>2. ASSUME sourceRoom, SetBudgets(c) \/ SetBudgets(d), NEW failed \in BOOLEAN, NEW s,
                 NEW D \in ways \cup {{}}, answer(D, TRUE, failed, s)
          PROVE  Books(sourceVerifications', Sources, TriedBy', Tried', SourceVerifyLimit, now', capacity')
      <3>1. Answered(l, t) /\ logins'[l].charged = TRUE /\ logins'[l].source = src
        BY <1>10, <2>2
      <3>2. sourceVerifications' = Charge(v, src, t)
        BY <2>2 DEF SetBudgets, Pruned
      <3> QED  BY <1>0, <1>a, <2>0, <2>2, <3>1, <3>2, TryCharged
    <2>3. ASSUME SetBudgets(c), NEW s, NEW D \in ways \cup {{}}, answer(D, TRUE, FALSE, s)
          PROVE  Books(addressFailures', Emails, FailedAt', Tried', AddressVerifyLimit, now', capacity')
      <3>1. Answered(l, t) /\ logins'[l].failed = FALSE  BY <1>10, <2>3
      <3>2. addressFailures' = f  BY <2>3 DEF SetBudgets, Pruned
      <3> QED  BY <1>0, <1>a, <2>0, <3>1, <3>2, FailureKept
    <2>4. CASE /\ sourceRoom /\ SetBudgets(d) /\ Redeemable(ch, t)
               /\ HasRoom(f, e) /\ ~(Len(f[e]) >= AddressVerifyLimit)
               /\ answer({}, TRUE, TRUE, "none")
      <3>1. /\ Answered(l, t) /\ logins'[l].failed = TRUE /\ logins'[l].email = e
        BY <1>10, <2>4
      <3>2. addressFailures' = Charge(f, e, t)  BY <2>4 DEF SetBudgets, Pruned
      <3>3. e \in Emails  BY <1>7, <2>4
      <3>4. Len(f[e]) < AddressVerifyLimit
        <4>1. addressFailures \in [Emails -> Seq(Nat)]  BY <1>0 DEF TryBooks, Books
        <4>2. f[e] = recent(addressFailures[e], t) /\ addressFailures[e] \in Seq(Nat)
          BY <3>3, <4>1 DEF prune
        <4>3. f[e] \in Seq(Nat)  BY <1>0, <4>2, RecentFrom
        <4>4. Len(f[e]) \in Nat /\ AddressVerifyLimit \in Nat
          BY <4>3, LenProperties, MemoryAssumption
        <4> QED  BY <2>4, <4>4
      <3>5. Books(addressFailures', Emails, FailedAt', Tried', AddressVerifyLimit, now', capacity')
        BY <1>0, <1>a, <2>0, <2>4, <3>1, <3>2, <3>3, <3>4, FailureCharged
      <3> QED  BY <2>2, <2>4, <3>5 DEF TryBooks
    <2>5. CASE /\ sourceRoom /\ SetBudgets(c)
               /\ \E D \in ways \cup {{}}, s \in {"none", "active"} : answer(D, TRUE, FALSE, s)
      BY <2>2, <2>3, <2>5 DEF TryBooks
    <2> QED  BY <1>3, <2>1, <2>4, <2>5
  <1> QED  BY <1>1, <1>5, <1>6, <1>8, <1>9, <1>11, AnswerRest

LEMMA BootstrapRest ==
    ASSUME MInv, NEW p \in PreAuths, NEW src \in Sources, NEW t \in Stamps,
           CreatePreAuth(p, src, t)
    PROVE  Rest'
  <1> DEFINE ways == MakeRoom(StoredStates, ReclaimableStates(t))
             b == prune(browserBootstraps, t)
  <1>0. /\ NInv /\ GInv /\ Rest
        /\ t \in Nat /\ now \in Nat /\ t <= now
        /\ capacity \in Nat /\ capacity \in Nat \ {0} /\ capacity \in Capacities
    BY StampsArePast, CapacityIsPositive DEF MInv, Rest
  <1>1. /\ browserStates[p].state = "none"
        /\ UNCHANGED <<now, capacity, challenges, active, identities, logins>>
        /\ now' \in Nat /\ now <= now'
    BY <1>0 DEF CreatePreAuth
  <1>a. SameCapacity  BY <1>0, <1>1 DEF SameCapacity
  <1>2. /\ addressSends' = prune(addressSends, t) /\ sourceSends' = prune(sourceSends, t)
        /\ addressFailures' = prune(addressFailures, t)
        /\ sourceVerifications' = prune(sourceVerifications, t)
    BY DEF CreatePreAuth, SetBudgets, Pruned
  <1>3. SendBooks' /\ TryBooks'
    <2>1. SameSends /\ SameTries  BY <1>1 DEF SameSends, SameTries, SameTry
    <2> QED  BY <1>0, <1>a, <1>1, <1>2, <2>1, SendsKept, TriesKept DEF Rest, KeptOrPruned
  <1>4. \/ UNCHANGED browserStates /\ browserBootstraps' = b
        \/ /\ ~(Len(b[src]) >= BootstrapLimit) /\ HasRoom(b, src)
           /\ browserBootstraps' = Charge(b, src, t)
           /\ \E D \in ways : browserStates' =
                [q \in PreAuths |->
                   IF q = p THEN [state |-> "stored", source |-> src, issued |-> t]
                   ELSE IF q \in D THEN [browserStates[q] EXCEPT !.state = "gone"]
                   ELSE browserStates[q]]
    BY DEF CreatePreAuth, SetBudgets, Pruned
  <1>5. CASE UNCHANGED browserStates /\ browserBootstraps' = b
    <2>1. SameBoots  BY <1>5 DEF SameBoots
    <2>2. BootBooks'  BY <1>0, <1>a, <1>1, <1>5, <2>1, BootsKept DEF Rest, KeptOrPruned
    <2>3. Unused' /\ Roomy'
      BY <1>0, <1>1, <1>5 DEF Rest, Unused, Roomy, Stored, InMap, StoredStates
    <2> QED  BY <1>0, <1>1, <1>3, <1>5, <2>2, <2>3 DEF Rest
  <1>6. ASSUME ~(Len(b[src]) >= BootstrapLimit), HasRoom(b, src),
               browserBootstraps' = Charge(b, src, t), NEW D \in ways,
               browserStates' =
                [q \in PreAuths |->
                   IF q = p THEN [state |-> "stored", source |-> src, issued |-> t]
                   ELSE IF q \in D THEN [browserStates[q] EXCEPT !.state = "gone"]
                   ELSE browserStates[q]]
        PROVE  Rest'
    <2>1. \A q \in PreAuths : browserStates[q] \in BrowserState
      BY <1>0 DEF Rest
    <2>2. ASSUME NEW q \in PreAuths \ {p}
          PROVE  /\ browserStates'[q] \in BrowserState
                 /\ browserStates'[q].source = browserStates[q].source
                 /\ browserStates'[q].issued = browserStates[q].issued
                 /\ browserStates'[q].state = "stored" => q \in StoredStates \ D
                 /\ browserStates'[q].state = "none" => browserStates[q].state = "none"
      <3>1. CASE q \in D
        <4>1. browserStates'[q] = [browserStates[q] EXCEPT !.state = "gone"]
          BY <1>6, <3>1
        <4> QED  BY <2>1, <4>1 DEF BrowserState
      <3>2. CASE q \notin D
        <4>1. browserStates'[q] = browserStates[q]  BY <1>6, <3>2
        <4> QED  BY <2>1, <3>2, <4>1 DEF StoredStates
      <3> QED  BY <3>1, <3>2
    <2>3. browserStates'[p] = [state |-> "stored", source |-> src, issued |-> t]
      BY <1>6
    <2>4. browserStates' \in [PreAuths -> BrowserState]
      <3>1. browserStates'[p] \in BrowserState  BY <1>0, <2>3 DEF BrowserState
      <3>2. \A q \in PreAuths : browserStates'[q] \in BrowserState  BY <2>2, <3>1
      <3> QED  BY <1>6, <3>2
    <2>5. Len(b[src]) < BootstrapLimit
      <3>1. browserBootstraps \in [Sources -> Seq(Nat)]  BY <1>0 DEF Rest, BootBooks, Books
      <3>2. b[src] = recent(browserBootstraps[src], t) /\ browserBootstraps[src] \in Seq(Nat)
        BY <3>1 DEF prune
      <3>3. b[src] \in Seq(Nat)  BY <1>0, <3>2, RecentFrom
      <3>4. Len(b[src]) \in Nat /\ BootstrapLimit \in Nat
        BY <3>3, LenProperties, MemoryAssumption
      <3> QED  BY <1>6, <3>4
    <2>6. BootBooks'
      <3>1. browserStates'[p].source = src /\ browserStates'[p].issued = t  BY <2>3
      <3>2. \A q \in PreAuths \ {p} :
              /\ browserStates'[q].source = browserStates[q].source
              /\ browserStates'[q].issued = browserStates[q].issued
        BY <2>2
      <3>3. browserStates \in [PreAuths -> BrowserState] /\ BootBooks /\ Unused
        BY <1>0 DEF Rest
      <3>4. now' = now  BY <1>1
      <3> QED  BY <1>0, <1>a, <1>1, <1>6, <2>5, <3>1, <3>2, <3>3, <3>4, BootCharged
    <2>7. Fits(StoredStates', capacity)
      <3>1. StoredStates' \subseteq (StoredStates \ D) \cup {p}
        BY <2>2 DEF StoredStates
      <3>2. Fits(StoredStates, capacity) /\ ReclaimableStates(t) \subseteq StoredStates
        BY <1>0 DEF Rest, Roomy, ReclaimableStates
      <3>3. Fits((StoredStates \ D) \cup {p}, capacity)  BY <1>0, <3>2, RoomMade
      <3> QED  BY <1>0, <3>1, <3>3, FewerFit
    <2>8. Unused'
      <3>1. ASSUME NEW q \in PreAuths, browserStates'[q].state = "none"
            PROVE  browserStates'[q].source = None
        BY <1>0, <2>2, <2>3, <3>1 DEF Rest, Unused
      <3> QED  BY <1>0, <1>1, <3>1 DEF Rest, Unused
    <2>9. Roomy'
      BY <1>0, <1>1, <2>7 DEF Rest, Roomy, Stored, InMap
    <2> QED  BY <1>0, <1>1, <1>3, <2>4, <2>6, <2>8, <2>9 DEF Rest
  <1> QED  BY <1>4, <1>5, <1>6

(* Steps that leave every list alone and charge nobody. *)
LEMMA QuietRest ==
    ASSUME MInv, now' \in Nat, now <= now', UNCHANGED <<capacity, identities, budgets>>,
           browserStates' \in [PreAuths -> BrowserState],
           SameSends, SameTries, SameBoots, Unused',
           Stored' \subseteq Stored, StoredStates' \subseteq StoredStates,
           {l \in Logins : InMap(l)}' \subseteq {l \in Logins : InMap(l)}
    PROVE  Rest'
  <1>0. /\ NInv /\ GInv /\ Rest /\ now \in Nat /\ 0 \in Nat /\ 0 <= now
        /\ SameCapacity /\ capacity \in Nat /\ capacity' = capacity /\ capacity' \in Capacities
    BY CapacityIsPositive DEF MInv, Rest, NInv, MapType, SameCapacity
  <1>1. SendBooks' /\ TryBooks' /\ BootBooks'
    BY <1>0, SendsKept, TriesKept, BootsKept DEF Rest, KeptOrPruned, budgets
  <1>2. Fits(Stored, capacity) /\ Fits(StoredStates, capacity) /\ Fits({l \in Logins : InMap(l)}, capacity)
    BY <1>0 DEF Rest, Roomy
  <1>3. Fits(Stored', capacity) /\ Fits(StoredStates', capacity) /\ Fits({l \in Logins : InMap(l)}', capacity)
    BY <1>0, <1>2, FewerFit
  <1>4. Roomy'  BY <1>0, <1>3 DEF Rest, Roomy
  <1> QED  BY <1>0, <1>1, <1>4 DEF Rest

UsedOrRevoked(l) ==
    \/ logins'[l] = logins[l]
    \/ /\ logins[l].session = "active"
       /\ \E s \in {"active", "revoked"}, n \in Nat :
            logins'[l] = [logins[l] EXCEPT !.session = s, !.seen = n]

LEMMA SessionsRest ==
    ASSUME MInv, UNCHANGED <<now, capacity, challenges, active, identities, browserStates, budgets>>,
           \A l \in Logins : UsedOrRevoked(l)
    PROVE  Rest'
  <1>0. /\ now \in Nat /\ \A l \in Logins : logins[l] \in Login
        /\ Unused /\ browserStates \in [PreAuths -> BrowserState]
    BY DEF MInv, NInv, MapType, GInv, Rest
  <1>1. ASSUME NEW l \in Logins
        PROVE  /\ SameTry(l) /\ logins'[l].pc = logins[l].pc
               /\ InMap(l)' => InMap(l)
               /\ logins[l].session = "none" => logins'[l].session = "none"
    <2>1. CASE logins'[l] = logins[l]  BY <2>1 DEF SameTry, InMap
    <2>2. ASSUME NEW s \in {"active", "revoked"}, NEW n \in Nat,
                 logins[l].session = "active",
                 logins'[l] = [logins[l] EXCEPT !.session = s, !.seen = n]
          PROVE  /\ SameTry(l) /\ logins'[l].pc = logins[l].pc
                 /\ InMap(l)' => InMap(l)
                 /\ logins[l].session = "none" => logins'[l].session = "none"
      BY <1>0, <2>2 DEF Login, SameTry, InMap
    <2> QED  BY <2>1, <2>2 DEF UsedOrRevoked
  <1>2. SameSends /\ SameTries /\ SameBoots
    BY <1>1 DEF SameSends, SameTries, SameBoots
  <1>3. Unused'
    <2>1. ASSUME NEW l \in Logins, logins'[l].pc = "idle"
          PROVE  ~logins'[l].charged /\ ~logins'[l].failed /\ logins'[l].session = "none"
      BY <1>0, <1>1, <2>1 DEF Unused, SameTry
    <2> QED  BY <1>0, <2>1 DEF Unused
  <1>4. /\ Stored' \subseteq Stored /\ StoredStates' \subseteq StoredStates
        /\ {l \in Logins : InMap(l)}' \subseteq {l \in Logins : InMap(l)}
    BY <1>1 DEF Stored, StoredStates
  <1>5. now' = now /\ browserStates' = browserStates  OBVIOUS
  <1>6. UNCHANGED <<capacity, identities, budgets>>  OBVIOUS
  <1>7. now' \in Nat /\ now <= now' /\ browserStates' \in [PreAuths -> BrowserState]
    BY <1>0, <1>5
  <1> QED  BY <1>2, <1>3, <1>4, <1>6, <1>7, QuietRest

LEMMA MNext == MInv /\ [Next]_vars => MInv'
  <1> SUFFICES ASSUME MInv, [Next]_vars PROVE MInv'  OBVIOUS
  <1>0. /\ NInv /\ GInv /\ Rest /\ now \in Nat /\ Stamps \subseteq Nat
        /\ challenges \in [Challenges -> StoredChallenge]
        /\ logins \in [Logins -> Login]
        /\ browserStates \in [PreAuths -> BrowserState]
    BY DEF MInv, Rest, NInv, GInv, MapType, Stamps
  <1>a. NInv' /\ GInv'  BY <1>0, NNext, GNext
  <1>b. SUFFICES Rest'  BY <1>a DEF MInv
  <1>c. Unused  BY <1>0 DEF Rest
  <1>1. CASE Tick
    <2>1. now' \in Nat /\ now <= now'  BY <1>0, <1>1 DEF Tick
    <2>2. UNCHANGED <<capacity, challenges, identities, logins, browserStates, budgets>>
      BY <1>1 DEF Tick
    <2> QED
      BY <1>0, <1>c, <2>1, <2>2, QuietRest
      DEF SameSends, SameTries, SameTry, SameBoots, Unused, Stored, StoredStates, InMap
  <1>2. ASSUME NEW t \in Stamps, NEW src \in Sources, NEW ch \in Challenges,
               NEW e \in Emails, Reserve(ch, e, src, t)
        PROVE Rest'
    BY <1>2, ReserveRest
  <1>3. ASSUME NEW t \in Stamps, NEW src \in Sources, NEW l \in Logins,
               NEW ch \in Challenges, NEW match \in BOOLEAN, Verify(l, ch, match, src, t)
        PROVE Rest'
    BY <1>3, VerifyRest
  <1>4. ASSUME NEW ch \in Challenges, Invalidate(ch) PROVE Rest'
    <2>1. /\ challenges' = [challenges EXCEPT ![ch].active = FALSE]
          /\ UNCHANGED <<now, capacity, identities, logins, browserStates, budgets>>
      BY <1>4 DEF Invalidate
    <2>2. \A d \in Challenges :
            /\ challenges'[d].email = challenges[d].email
            /\ challenges'[d].source = challenges[d].source
            /\ challenges'[d].issued = challenges[d].issued
            /\ challenges'[d].state = challenges[d].state
      BY <1>0, <2>1 DEF StoredChallenge
    <2>3. SameSends /\ SameTries /\ SameBoots
      BY <2>1, <2>2 DEF SameSends, SameTries, SameTry, SameBoots
    <2>4. Unused'
      BY <1>c, <2>1, <2>2 DEF Unused
    <2>5. Stored' = Stored  BY <2>2 DEF Stored
    <2>6. /\ StoredStates' = StoredStates
          /\ {l \in Logins : InMap(l)}' = {l \in Logins : InMap(l)}
      BY <2>1 DEF StoredStates, InMap
    <2>7. now' \in Nat /\ now <= now'  BY <1>0, <2>1
    <2> QED  BY <1>0, <2>1, <2>3, <2>4, <2>5, <2>6, <2>7, QuietRest
  <1>5. ASSUME NEW p \in PreAuths, NEW src \in Sources, NEW t \in Stamps,
               CreatePreAuth(p, src, t)
        PROVE Rest'
    BY <1>5, BootstrapRest
  <1>6. ASSUME NEW p \in PreAuths, NEW t \in Stamps, ConsumePreAuth(p, t)
        PROVE Rest'
    <2>1. /\ browserStates' = [browserStates EXCEPT ![p].state = "consumed"]
          /\ UNCHANGED <<now, capacity, challenges, identities, logins, budgets>>
      BY <1>6 DEF ConsumePreAuth
    <2>2. /\ browserStates' \in [PreAuths -> BrowserState]
          /\ \A q \in PreAuths :
               /\ browserStates'[q].source = browserStates[q].source
               /\ browserStates'[q].issued = browserStates[q].issued
               /\ browserStates'[q].state = browserStates[q].state
                  \/ browserStates'[q].state = "consumed"
      BY <1>0, <2>1 DEF BrowserState
    <2>3. SameSends /\ SameTries /\ SameBoots
      BY <2>1, <2>2 DEF SameSends, SameTries, SameTry, SameBoots
    <2>4. Unused'
      BY <1>c, <2>1, <2>2 DEF Unused
    <2>5. StoredStates' \subseteq StoredStates  BY <2>2 DEF StoredStates
    <2>6. /\ Stored' = Stored
          /\ {l \in Logins : InMap(l)}' = {l \in Logins : InMap(l)}
      BY <2>1 DEF Stored, InMap
    <2>7. now' \in Nat /\ now <= now'  BY <1>0, <2>1
    <2> QED  BY <1>0, <2>1, <2>2, <2>3, <2>4, <2>5, <2>6, <2>7, QuietRest
  <1>7. ASSUME NEW l \in Logins, NEW t \in Stamps, AuthenticateSession(l, t)
        PROVE Rest'
    <2>1. t \in Nat /\ logins[l].session = "active"  BY <1>0, <1>7 DEF AuthenticateSession, Usable
    <2>2. logins'[l] = [logins[l] EXCEPT !.session = "active", !.seen = t]
      BY <1>0, <1>7, <2>1 DEF AuthenticateSession, Login
    <2>3. \A k \in Logins \ {l} : logins'[k] = logins[k]
      BY <1>0, <1>7 DEF AuthenticateSession
    <2> QED  BY <1>7, <2>1, <2>2, <2>3, SessionsRest DEF AuthenticateSession, UsedOrRevoked
  <1>8. ASSUME NEW L, RevokeSessions(L) PROVE Rest'
    <2>1. ASSUME NEW l \in Logins, l \in L /\ logins[l].session = "active"
          PROVE  /\ logins[l].seen \in Nat
                 /\ logins'[l] = [logins[l] EXCEPT !.session = "revoked", !.seen = logins[l].seen]
      BY <1>0, <1>8, <2>1 DEF RevokeSessions, Login
    <2>2. ASSUME NEW l \in Logins, ~(l \in L /\ logins[l].session = "active")
          PROVE  logins'[l] = logins[l]
      BY <1>8, <2>2 DEF RevokeSessions
    <2> QED  BY <1>8, <2>1, <2>2, SessionsRest DEF RevokeSessions, UsedOrRevoked
  <1>9. CASE UNCHANGED vars
    BY <1>9, SessionsRest DEF vars, budgets, UsedOrRevoked
  <1> QED
    BY <1>1, <1>2, <1>3, <1>4, <1>5, <1>6, <1>7, <1>8, <1>9
    DEF Next, Request, DeliveryRejected, ServiceVerify, Current, Logout, LogoutAll,
        RevokeIdentity, Bootstrap, Consume,
        RevokeSession, RevokeAllSessions, RevokeIdentitySessions

LEMMA StoreInvariant == Spec => []MInv
  BY MInit, MNext, PTL DEF Spec

(* Whatever calls arrive and however late they take the mutex, every map   *)
(* entry and call of MemoryStore holds a value of its kind, budgets stay   *)
(* lists of stamps.                                                        *)
THEOREM MemoryTypes == Spec => []TypeOK
  BY StoreInvariant, MSuffices, PTL

(* No map of MemoryStore ever outgrows the capacity NewMemoryStore was     *)
(* given: reclaimChallenge, reclaimSession and the budget checks make room *)
(* before every insertion.                                                 *)
THEOREM CapacityHeld == Spec => []WithinCapacity
  BY StoreInvariant, MSuffices, PTL

(* For any limits, window and number of calls, MemoryStore's rolling       *)
(* budgets hold in every window less the longest wait for the mutex,       *)
(* though recent drops only a prefix of stamps that arrive out of order.   *)
THEOREM BudgetsKept == Spec => []BudgetsHold
  BY StoreInvariant, MSuffices, PTL

(* MemoryStore.Reserve never sends two codes to one address closer than    *)
(* the gap, in whatever order the calls took the mutex.                    *)
THEOREM GapKept == Spec => []SendsKeepGap
  BY StoreInvariant, MSuffices, PTL

-----------------------------------------------------------------------------
(* Reclaiming                                                              *)

LEMMA DeadNext == MInv /\ Next => Dead
  <1> SUFFICES ASSUME MInv, Next  PROVE Dead  OBVIOUS
  <1>0. /\ NInv /\ GInv /\ browserStates \in [PreAuths -> BrowserState]
        /\ challenges \in [Challenges -> StoredChallenge] /\ logins \in [Logins -> Login]
    BY DEF MInv, Rest, NInv, MapType, GInv
  <1>1. CASE UNCHANGED <<challenges, logins, browserStates>>
    BY <1>1 DEF Dead, InMap
  <1>2. ASSUME NEW t \in Stamps, NEW src \in Sources, NEW ch \in Challenges,
               NEW e \in Emails, Reserve(ch, e, src, t)
        PROVE Dead
    BY <1>0, <1>2, ReserveReclaims
  <1>3. ASSUME NEW t \in Stamps, NEW src \in Sources, NEW l \in Logins,
               NEW ch \in Challenges, NEW match \in BOOLEAN, Verify(l, ch, match, src, t)
        PROVE Dead
    BY <1>0, <1>3, VerifyReclaims
  <1>4. ASSUME NEW p \in PreAuths, NEW src \in Sources, NEW t \in Stamps,
               CreatePreAuth(p, src, t)
        PROVE Dead
    BY <1>0, <1>4, BootstrapReclaims
  <1>5. ASSUME NEW ch \in Challenges, Invalidate(ch) PROVE Dead
    <2>1. \A d \in Challenges : challenges'[d].state = challenges[d].state
      BY <1>0, <1>5 DEF Invalidate, StoredChallenge
    <2>2. UNCHANGED <<logins, browserStates>>  BY <1>5 DEF Invalidate
    <2> QED  BY <2>1, <2>2 DEF Dead, InMap
  <1>6. ASSUME NEW p \in PreAuths, NEW t \in Stamps, ConsumePreAuth(p, t)
        PROVE Dead
    <2>1. \A q \in PreAuths : browserStates'[q].state \in {browserStates[q].state, "consumed"}
      BY <1>0, <1>6 DEF ConsumePreAuth, BrowserState
    <2>2. UNCHANGED <<challenges, logins>>  BY <1>6 DEF ConsumePreAuth
    <2> QED  BY <2>1, <2>2 DEF Dead, InMap
  <1>7. ASSUME NEW l \in Logins, NEW t \in Stamps, AuthenticateSession(l, t)
        PROVE Dead
    <2>1. \A k \in Logins : logins'[k].session = logins[k].session
      BY <1>0, <1>7 DEF AuthenticateSession, Login
    <2>2. UNCHANGED <<challenges, browserStates>>  BY <1>7 DEF AuthenticateSession
    <2> QED  BY <2>1, <2>2 DEF Dead, InMap
  <1>8. ASSUME NEW L, RevokeSessions(L) PROVE Dead
    <2>1. \A k \in Logins : logins'[k].session \in {logins[k].session, "revoked"}
      BY <1>0, <1>8 DEF RevokeSessions, Login
    <2>2. UNCHANGED <<challenges, browserStates>>  BY <1>8 DEF RevokeSessions
    <2> QED  BY <2>1, <2>2 DEF Dead, InMap
  <1>9. CASE Tick  BY <1>1, <1>9 DEF Tick
  <1> QED
    BY <1>2, <1>3, <1>4, <1>5, <1>6, <1>7, <1>8, <1>9
    DEF Next, Request, DeliveryRejected, ServiceVerify, Current, Logout, LogoutAll,
        RevokeIdentity, Bootstrap, Consume,
        RevokeSession, RevokeAllSessions, RevokeIdentitySessions

(* reclaimChallenge, reclaimSession and the reclaiming of browser states    *)
(* never take an entry a caller reading the clock now could still use, even *)
(* when the reclaiming call itself read the clock earlier.                  *)
THEOREM OnlyDeadReclaimed == Spec => ReclaimsOnlyDead
  <1>1. Spec => []MInv  BY StoreInvariant
  <1>2. MInv /\ [Next]_vars => [Dead]_vars  BY DeadNext
  <1>3. Spec => [][Dead]_vars  BY <1>1, <1>2, PTL DEF Spec
  <1> QED  BY <1>3 DEF ReclaimsOnlyDead, Dead

-----------------------------------------------------------------------------
(* The contract of a code store                                            *)

CodeLapses(ch) ==
    \/ codes'[ch] = codes[ch]
    \/ codes[ch] = "open" /\ codes'[ch] = "closed"

SessionLapses(l) ==
    \/ sessions'[l] = sessions[l]
    \/ sessions[l] = "live" /\ sessions'[l] = "ended"

LEMMA LapseStep ==
    ASSUME \A ch \in Challenges : CodeLapses(ch), \A l \in Logins : SessionLapses(l),
           \A l \in Logins : grants'[l] = grants[l]
    PROVE  Contract!Next
  <1> DEFINE C == {ch \in Challenges : codes[ch] = "open" /\ codes'[ch] = "closed"}
             S == {l \in Logins : sessions[l] = "live" /\ sessions'[l] = "ended"}
  <1>1. codes' = [d \in Challenges |-> IF d \in C THEN "closed" ELSE codes[d]]
    <2>1. codes' = [d \in Challenges |-> codes'[d]]  BY DEF codes
    <2> QED  BY <2>1 DEF CodeLapses
  <1>2. sessions' = [l \in Logins |-> IF l \in S THEN "ended" ELSE sessions[l]]
    <2>1. sessions' = [l \in Logins |-> sessions'[l]]  BY DEF sessions
    <2> QED  BY <2>1 DEF SessionLapses
  <1>3. grants' = grants
    <2>1. grants' = [l \in Logins |-> grants'[l]] /\ grants = [l \in Logins |-> grants[l]]
      BY DEF grants
    <2> QED  BY <2>1
  <1>4. Contract!Lapse(C, S)  BY <1>1, <1>2, <1>3 DEF Contract!Lapse
  <1>5. C \in SUBSET Challenges /\ S \in SUBSET Logins  OBVIOUS
  <1> QED  BY <1>4, <1>5 DEF Contract!Next

LEMMA IssueStep ==
    ASSUME NEW ch \in Challenges, codes[ch] = "unissued", codes'[ch] = "open",
           \A d \in Challenges \ {ch} : CodeLapses(d),
           sessions' = sessions, grants' = grants
    PROVE  Contract!Next
  <1> DEFINE C == {d \in Challenges : codes[d] = "open" /\ codes'[d] = "closed"}
  <1>1. codes' = [d \in Challenges |->
           IF d = ch THEN "open" ELSE IF d \in C THEN "closed" ELSE codes[d]]
    <2>1. codes' = [d \in Challenges |-> codes'[d]]  BY DEF codes
    <2> QED  BY <2>1 DEF CodeLapses
  <1>2. Contract!Issue(ch, C)  BY <1>1 DEF Contract!Issue
  <1>3. C \in SUBSET Challenges  OBVIOUS
  <1> QED  BY <1>2, <1>3 DEF Contract!Next

LEMMA RedeemStep ==
    ASSUME NEW ch \in Challenges, NEW l \in Logins,
           codes[ch] = "open", codes'[ch] = "closed",
           \A d \in Challenges \ {ch} : codes'[d] = codes[d],
           sessions[l] = "none", sessions'[l] = "live",
           \A k \in Logins \ {l} : SessionLapses(k),
           grants'[l] = ch, \A k \in Logins \ {l} : grants'[k] = grants[k]
    PROVE  Contract!Next
  <1> DEFINE S == {k \in Logins : sessions[k] = "live" /\ sessions'[k] = "ended"}
  <1>1. codes' = [codes EXCEPT ![ch] = "closed"]
    <2>1. codes' = [d \in Challenges |-> codes'[d]] /\ codes = [d \in Challenges |-> codes[d]]
      BY DEF codes
    <2> QED  BY <2>1
  <1>2. sessions' = [k \in Logins |->
           IF k = l THEN "live" ELSE IF k \in S THEN "ended" ELSE sessions[k]]
    <2>1. sessions' = [k \in Logins |-> sessions'[k]]  BY DEF sessions
    <2> QED  BY <2>1 DEF SessionLapses
  <1>3. grants' = [grants EXCEPT ![l] = ch]
    <2>1. grants' = [k \in Logins |-> grants'[k]] /\ grants = [k \in Logins |-> grants[k]]
      BY DEF grants
    <2> QED  BY <2>1
  <1>4. Contract!Redeem(l, ch, S)  BY <1>1, <1>2, <1>3 DEF Contract!Redeem
  <1>5. S \in SUBSET Logins  OBVIOUS
  <1> QED  BY <1>4, <1>5 DEF Contract!Next

LEMMA OldestIsPast ==
    ASSUME NInv, NEW t \in Stamps
    PROVE  Oldest \in Nat /\ Oldest <= t /\ t \in Nat
  <1>1. Lag \in Nat  BY MemoryAssumption
  <1> QED  BY <1>1, StampsArePast DEF Oldest

LEMMA SameCode ==
    ASSUME NEW ch \in Challenges, now' = now, challenges'[ch] = challenges[ch]
    PROVE  codes'[ch] = codes[ch]
  BY DEF codes, Open, Oldest

(* An issued code that stays issued and does not open again. *)
LEMMA CodeStays ==
    ASSUME NEW ch \in Challenges, challenges[ch].state # "none",
           challenges'[ch].state # "none", Open(ch)' => Open(ch)
    PROVE  CodeLapses(ch)
  BY DEF codes, CodeLapses

LEMMA SameSession ==
    ASSUME NEW l \in Logins, now' = now, logins'[l] = logins[l]
    PROVE  sessions'[l] = sessions[l] /\ grants'[l] = grants[l]
  BY DEF sessions, grants, Live, SessionExpired, Oldest

(* A session that goes on or ends, of the same code. *)
LEMMA SessionStays ==
    ASSUME NEW l \in Logins, logins[l].session # "none", logins'[l].session # "none",
           logins'[l].ch = logins[l].ch, Live(l)' => Live(l)
    PROVE  SessionLapses(l) /\ grants'[l] = grants[l]
  BY DEF sessions, grants, SessionLapses

LEMMA AllSessionsSame ==
    ASSUME UNCHANGED <<now, logins>>
    PROVE  sessions' = sessions /\ grants' = grants
  BY DEF sessions, grants, Live, SessionExpired, Oldest

LEMMA RemovedCode ==
    ASSUME NInv, now' = now, NEW d \in Challenges, NEW D, D \subseteq Stored,
           challenges'[d] = Without(D)[d]
    PROVE  CodeLapses(d)
  <1>0. challenges[d] \in StoredChallenge  BY DEF NInv, MapType
  <1>1. CASE d \in D
    <2>1. challenges[d].state = "stored"  BY <1>1 DEF Stored
    <2>2. challenges'[d].state = "gone"  BY <1>0, <1>1 DEF Without, StoredChallenge
    <2> QED  BY <2>1, <2>2, CodeStays DEF Open
  <1>2. CASE d \notin D
    <2>1. challenges'[d] = challenges[d]  BY <1>2 DEF Without
    <2> QED  BY <2>1, SameCode DEF CodeLapses
  <1> QED  BY <1>1, <1>2

LEMMA ReserveRefines ==
    ASSUME MInv, NEW ch \in Challenges, NEW e \in Emails, NEW src \in Sources,
           NEW t \in Stamps, Reserve(ch, e, src, t)
    PROVE  Contract!Next
  <1> DEFINE ways == MakeRoom(Stored, Reclaimable(t))
  <1>0. /\ NInv /\ challenges[ch].state = "none" /\ UNCHANGED <<now, logins>>
    BY DEF MInv, Reserve
  <1>1. sessions' = sessions /\ grants' = grants  BY <1>0, AllSessionsSame
  <1>2. \A D \in ways : D \subseteq Stored  BY RoomTaken DEF Reclaimable
  <1>3. CASE UNCHANGED challenges
    <2>1. \A d \in Challenges : CodeLapses(d)  BY <1>0, <1>3, SameCode DEF CodeLapses
    <2> QED  BY <1>1, <2>1, LapseStep DEF SessionLapses
  <1>4. ASSUME NEW D \in ways, challenges' = Without(D)  PROVE Contract!Next
    <2>1. \A d \in Challenges : CodeLapses(d)  BY <1>0, <1>2, <1>4, RemovedCode
    <2> QED  BY <1>1, <2>1, LapseStep DEF SessionLapses
  <1>5. ASSUME NEW D \in ways, Replaced(D, ch, e, src, t)  PROVE Contract!Next
    <2>1. codes[ch] = "unissued"  BY <1>0 DEF codes
    <2>2. codes'[ch] = "open"
      <3>1. challenges'[ch] = [state |-> "stored", email |-> e, source |-> src,
                               issued |-> t, active |-> TRUE, attempts |-> 0]
        BY <1>5 DEF Replaced
      <3>2. Oldest' = Oldest  BY <1>0 DEF Oldest
      <3>3. ChallengeTTL \in Nat \ {0} /\ ChallengeAttempts \in Nat \ {0}
        BY MemoryAssumption
      <3>4. Oldest' < t + ChallengeTTL  BY <1>0, <3>2, <3>3, OldestIsPast
      <3>5. 0 < ChallengeAttempts  BY <3>3
      <3> QED  BY <3>1, <3>4, <3>5 DEF codes, Open
    <2>3. ASSUME NEW d \in Challenges \ {ch}  PROVE CodeLapses(d)
      <3>0. challenges[d] \in StoredChallenge  BY <1>0 DEF NInv, MapType
      <3>1. CASE d = Unnamed(D)[e]
        <4>1. challenges'[d] = [challenges[d] EXCEPT !.active = FALSE]
          BY <1>5, <3>1 DEF Replaced
        <4>2. challenges'[d].state = challenges[d].state /\ challenges'[d].active = FALSE
          BY <3>0, <4>1 DEF StoredChallenge
        <4>3. challenges[d].state # "none"
          <5>1. active[e] = d  BY <3>1, MemoryAssumption DEF Unnamed
          <5> QED  BY <1>0, <5>1, MemoryAssumption DEF NInv, Named
        <4> QED  BY <4>2, <4>3, CodeStays DEF Open
      <3>2. CASE d # Unnamed(D)[e]
        <4>1. challenges'[d] = Without(D)[d]  BY <1>5, <3>2 DEF Replaced
        <4> QED  BY <1>0, <1>2, <4>1, RemovedCode
      <3> QED  BY <3>1, <3>2
    <2> QED  BY <1>1, <2>1, <2>2, <2>3, IssueStep
  <1> QED  BY <1>3, <1>4, <1>5 DEF Reserve, Previous, Replaced

(* An answer without a session, and the sessions it reclaimed. *)
LEMMA AnswerLapses ==
    ASSUME MInv, now' = now, NEW l \in Logins, NEW ch, NEW src, NEW t, NEW D,
           NEW charged, NEW failed, NEW s,
           D \subseteq {k \in Logins : InMap(k)}, logins[l].pc = "idle",
           logins' = Returned(l, ch, src, t, D, charged, failed, s)
    PROVE  /\ \A k \in Logins \ {l} : SessionLapses(k) /\ grants'[k] = grants[k]
           /\ sessions[l] = "none" /\ grants[l] = None
           /\ s = "none" => sessions'[l] = "none" /\ grants'[l] = None
  <1>1. ASSUME NEW k \in Logins \ {l}  PROVE SessionLapses(k) /\ grants'[k] = grants[k]
    <2>0. logins[k] \in Login  BY DEF MInv, GInv
    <2>1. CASE k \in D
      <3>1. logins'[k] = [logins[k] EXCEPT !.session = "gone"]  BY <2>1 DEF Returned
      <3>2. logins'[k].session = "gone" /\ logins'[k].ch = logins[k].ch
        BY <2>0, <3>1 DEF Login
      <3>3. logins[k].session # "none"  BY <2>1 DEF InMap
      <3> QED  BY <3>2, <3>3, SessionStays DEF Live
    <2>2. CASE k \notin D
      <3>1. logins'[k] = logins[k]  BY <2>2 DEF Returned
      <3> QED  BY <3>1, SameSession DEF SessionLapses
    <2> QED  BY <2>1, <2>2
  <1>2. logins[l].session = "none"  BY DEF MInv, Rest, Unused
  <1>3. logins'[l].session = s  BY DEF Returned
  <1> QED  BY <1>1, <1>2, <1>3 DEF sessions, grants

LEMMA VerifyRefines ==
    ASSUME MInv, NEW l \in Logins, NEW ch \in Challenges, NEW match \in BOOLEAN,
           NEW src \in Sources, NEW t \in Stamps, Verify(l, ch, match, src, t)
    PROVE  Contract!Next
  <1> DEFINE ways == MakeRoom({k \in Logins : InMap(k)}, ReclaimableSessions(t))
             answer(D, charged, failed, s) ==
                logins' = Returned(l, ch, src, t, D, charged, failed, s)
  <1>0. /\ NInv /\ now' = now /\ logins[l].pc = "idle"
        /\ challenges \in [Challenges -> StoredChallenge]
    BY DEF MInv, NInv, MapType, Verify
  <1>1. \A D \in ways \cup {{}} : D \subseteq {k \in Logins : InMap(k)}
    BY RoomTaken DEF ReclaimableSessions
  <1>2. \/ /\ \E D \in ways \cup {{}}, charged \in BOOLEAN, failed \in BOOLEAN :
                answer(D, charged, failed, "none")
           /\ \/ UNCHANGED challenges
              \/ /\ Redeemable(ch, t)
                 /\ challenges' = [challenges EXCEPT ![ch].attempts = @ + 1]
        \/ /\ Redeemable(ch, t)
           /\ \E D \in ways : answer(D, TRUE, FALSE, "active")
           /\ challenges' = Spent(ch)
    BY DEF Verify, VerifyLimited, VerifyMatch, VerifyMismatch
  <1>3. ASSUME NEW D \in ways \cup {{}}, NEW charged \in BOOLEAN, NEW failed \in BOOLEAN,
               answer(D, charged, failed, "none"),
               \A d \in Challenges : CodeLapses(d)
        PROVE  Contract!Next
    <2>1. /\ \A k \in Logins \ {l} : SessionLapses(k) /\ grants'[k] = grants[k]
          /\ sessions[l] = "none" /\ grants[l] = None
          /\ sessions'[l] = "none" /\ grants'[l] = None
      BY <1>0, <1>1, <1>3, AnswerLapses
    <2>2. \A k \in Logins : SessionLapses(k) /\ grants'[k] = grants[k]
      BY <2>1 DEF SessionLapses
    <2> QED  BY <1>3, <2>2, LapseStep
  <1>4. UNCHANGED challenges => \A d \in Challenges : CodeLapses(d)
    BY <1>0, SameCode DEF CodeLapses
  <1>5. ASSUME Redeemable(ch, t), challenges' = [challenges EXCEPT ![ch].attempts = @ + 1]
        PROVE  \A d \in Challenges : CodeLapses(d)
    <2>1. ASSUME NEW d \in Challenges \ {ch}  PROVE CodeLapses(d)
      <3>1. challenges'[d] = challenges[d]  BY <1>0, <1>5
      <3> QED  BY <1>0, <3>1, SameCode DEF CodeLapses
    <2>2. /\ challenges'[ch].state = challenges[ch].state
          /\ challenges'[ch].active = challenges[ch].active
          /\ challenges'[ch].issued = challenges[ch].issued
          /\ challenges'[ch].attempts = challenges[ch].attempts + 1
          /\ challenges[ch].attempts \in Nat
      BY <1>0, <1>5 DEF StoredChallenge
    <2>3. ChallengeAttempts \in Nat  BY MemoryAssumption
    <2>4. challenges'[ch].attempts < ChallengeAttempts => challenges[ch].attempts < ChallengeAttempts
      BY <2>2, <2>3
    <2>5. Open(ch)' => Open(ch)  BY <1>0, <2>2, <2>4 DEF Open, Oldest
    <2>6. CodeLapses(ch)  BY <1>5, <2>2, <2>5, CodeStays DEF Redeemable
    <2> QED  BY <2>1, <2>6
  <1>6. ASSUME Redeemable(ch, t), NEW D \in ways, answer(D, TRUE, FALSE, "active"),
               challenges' = Spent(ch)
        PROVE  Contract!Next
    <2>0. Oldest \in Nat /\ Oldest <= t /\ t \in Nat /\ Oldest' = Oldest
      BY <1>0, OldestIsPast DEF Oldest
    <2>1. /\ \A k \in Logins \ {l} : SessionLapses(k) /\ grants'[k] = grants[k]
          /\ sessions[l] = "none"
      BY <1>0, <1>1, <1>6, AnswerLapses
    <2>2. codes[ch] = "open"
      <3>1. challenges[ch].issued \in Nat /\ ChallengeTTL \in Nat
        BY <1>0, MemoryAssumption DEF StoredChallenge
      <3>2. Oldest < challenges[ch].issued + ChallengeTTL
        BY <1>6, <2>0, <3>1 DEF Redeemable
      <3> QED  BY <1>6, <3>2 DEF codes, Open, Redeemable
    <2>3. codes'[ch] = "closed"
      <3>1. challenges'[ch].state = challenges[ch].state /\ challenges'[ch].active = FALSE
        BY <1>0, <1>6 DEF Spent, StoredChallenge
      <3> QED  BY <1>6, <3>1 DEF codes, Open, Redeemable
    <2>4. \A d \in Challenges \ {ch} : codes'[d] = codes[d]
      <3>1. \A d \in Challenges \ {ch} : challenges'[d] = challenges[d]
        BY <1>0, <1>6 DEF Spent
      <3> QED  BY <1>0, <3>1, SameCode
    <2>5. /\ logins'[l].session = "active" /\ logins'[l].ch = ch
          /\ logins'[l].stamp = t /\ logins'[l].seen = t
      BY <1>6 DEF Returned
    <2>6. sessions'[l] = "live" /\ grants'[l] = ch
      <3>1. SessionTTL \in Nat \ {0} /\ IdleTTL \in Nat \ {0}  BY MemoryAssumption
      <3>2. ~(Oldest >= t + SessionTTL) /\ ~(Oldest >= t + IdleTTL)  BY <2>0, <3>1
      <3>3. ~SessionExpired(l, Oldest)'  BY <2>0, <2>5, <3>2 DEF SessionExpired
      <3>4. Live(l)'  BY <2>5, <3>3 DEF Live
      <3> QED  BY <2>5, <3>4 DEF sessions, grants
    <2> QED  BY <2>1, <2>2, <2>3, <2>4, <2>6, RedeemStep
  <1> QED  BY <1>2, <1>3, <1>4, <1>5, <1>6

(* Time passes: codes and sessions end for the oldest waiting call too. *)
LEMMA TickRefines == ASSUME MInv, Tick  PROVE Contract!Next
  <1>0. /\ now \in Nat /\ now' = now + 1 /\ UNCHANGED <<challenges, logins>>
        /\ challenges \in [Challenges -> StoredChallenge] /\ logins \in [Logins -> Login]
        /\ Lag \in Nat
    BY MemoryAssumption DEF MInv, NInv, MapType, GInv, Tick
  <1>1. Oldest \in Nat /\ Oldest' \in Nat /\ Oldest <= Oldest'
    BY <1>0 DEF Oldest
  <1>2. {ChallengeTTL, SessionTTL, IdleTTL} \subseteq Nat  BY MemoryAssumption
  <1>3. ASSUME NEW ch \in Challenges  PROVE CodeLapses(ch)
    <2>1. challenges[ch].issued \in Nat  BY <1>0 DEF StoredChallenge
    <2>2. Oldest' < challenges[ch].issued + ChallengeTTL =>
             Oldest < challenges[ch].issued + ChallengeTTL
      BY <1>1, <1>2, <2>1
    <2>3. Open(ch)' => Open(ch)  BY <1>0, <2>2 DEF Open
    <2>4. CASE challenges[ch].state = "none"
      BY <1>0, <2>4 DEF codes, CodeLapses
    <2>5. CASE challenges[ch].state # "none"
      BY <1>0, <2>3, <2>5, CodeStays
    <2> QED  BY <2>4, <2>5
  <1>4. ASSUME NEW l \in Logins  PROVE SessionLapses(l) /\ grants'[l] = grants[l]
    <2>1. logins[l].stamp \in Nat /\ logins[l].seen \in Nat  BY <1>0 DEF Login
    <2>2. /\ Oldest >= logins[l].stamp + SessionTTL => Oldest' >= logins[l].stamp + SessionTTL
          /\ Oldest >= logins[l].seen + IdleTTL => Oldest' >= logins[l].seen + IdleTTL
      BY <1>1, <1>2, <2>1
    <2>3. Live(l)' => Live(l)  BY <1>0, <2>2 DEF Live, SessionExpired
    <2>4. CASE logins[l].session = "none"
      BY <1>0, <2>4 DEF sessions, grants, SessionLapses
    <2>5. CASE logins[l].session # "none"
      BY <1>0, <2>3, <2>5, SessionStays
    <2> QED  BY <2>4, <2>5
  <1> QED  BY <1>3, <1>4, LapseStep

LEMMA SessionsRefine ==
    ASSUME MInv, UNCHANGED <<now, challenges>>,
           \A l \in Logins :
              \/ logins'[l] = logins[l]
              \/ /\ logins[l].session # "none" /\ logins'[l].session # "none"
                 /\ logins'[l].ch = logins[l].ch
                 /\ Live(l)' => Live(l)
    PROVE  Contract!Next
  <1>1. \A ch \in Challenges : CodeLapses(ch)  BY SameCode DEF CodeLapses
  <1>2. \A l \in Logins : SessionLapses(l) /\ grants'[l] = grants[l]
    BY SameSession, SessionStays DEF SessionLapses
  <1> QED  BY <1>1, <1>2, LapseStep

LEMMA RefinesNext == MInv /\ Next => Contract!Next
  <1> SUFFICES ASSUME MInv, Next  PROVE Contract!Next  OBVIOUS
  <1>0. /\ NInv /\ challenges \in [Challenges -> StoredChallenge]
        /\ logins \in [Logins -> Login]
    BY DEF MInv, NInv, MapType, GInv
  <1>1. CASE Tick  BY <1>1, TickRefines
  <1>2. ASSUME NEW t \in Stamps, NEW src \in Sources, NEW ch \in Challenges,
               NEW e \in Emails, Reserve(ch, e, src, t)
        PROVE Contract!Next
    BY <1>2, ReserveRefines
  <1>3. ASSUME NEW t \in Stamps, NEW src \in Sources, NEW l \in Logins,
               NEW ch \in Challenges, NEW match \in BOOLEAN, Verify(l, ch, match, src, t)
        PROVE Contract!Next
    BY <1>3, VerifyRefines
  <1>4. ASSUME NEW ch \in Challenges, Invalidate(ch) PROVE Contract!Next
    <2>1. /\ challenges' = [challenges EXCEPT ![ch].active = FALSE]
          /\ UNCHANGED <<now, logins>> /\ challenges[ch].state = "stored"
      BY <1>4 DEF Invalidate, Stored
    <2>2. ASSUME NEW d \in Challenges  PROVE CodeLapses(d)
      <3>1. CASE d = ch
        <4>1. challenges'[d].state = "stored" /\ challenges'[d].active = FALSE
          BY <1>0, <2>1, <3>1 DEF StoredChallenge
        <4> QED  BY <2>1, <3>1, <4>1, CodeStays DEF Open
      <3>2. CASE d # ch
        <4>1. challenges'[d] = challenges[d]  BY <1>0, <2>1, <3>2
        <4> QED  BY <2>1, <4>1, SameCode DEF CodeLapses
      <3> QED  BY <3>1, <3>2
    <2>3. sessions' = sessions /\ grants' = grants  BY <2>1, AllSessionsSame
    <2> QED  BY <2>2, <2>3, LapseStep DEF SessionLapses
  <1>5. CASE UNCHANGED <<now, challenges, logins>>
    BY <1>5, SessionsRefine
  <1>6. ASSUME NEW p \in PreAuths, NEW src \in Sources, NEW t \in Stamps,
               CreatePreAuth(p, src, t)
        PROVE Contract!Next
    BY <1>5, <1>6 DEF CreatePreAuth
  <1>7. ASSUME NEW p \in PreAuths, NEW t \in Stamps, ConsumePreAuth(p, t)
        PROVE Contract!Next
    BY <1>5, <1>7 DEF ConsumePreAuth
  <1>8. ASSUME NEW l \in Logins, NEW t \in Stamps, AuthenticateSession(l, t)
        PROVE Contract!Next
    <2>1. /\ UNCHANGED <<now, challenges>> /\ Usable(l, t)
          /\ logins' = [logins EXCEPT ![l].seen = t]
      BY <1>8 DEF AuthenticateSession
    <2>2. \A k \in Logins \ {l} : logins'[k] = logins[k]  BY <1>0, <2>1
    <2>3. logins[l].session # "none" /\ logins'[l].session = logins[l].session
          /\ logins'[l].ch = logins[l].ch
      BY <1>0, <2>1 DEF Usable, Login
    <2>4. Live(l)
      <3>1. {SessionTTL, IdleTTL} \subseteq Nat  BY MemoryAssumption
      <3>2. logins[l].stamp \in Nat /\ logins[l].seen \in Nat  BY <1>0 DEF Login
      <3>3. Oldest \in Nat /\ Oldest <= t /\ t \in Nat  BY <1>0, OldestIsPast
      <3>4. ~SessionExpired(l, Oldest)
        BY <2>1, <3>1, <3>2, <3>3 DEF Usable, SessionExpired
      <3> QED  BY <2>1, <3>4 DEF Live, Usable
    <2> QED  BY <2>1, <2>2, <2>3, <2>4, SessionsRefine
  <1>9. ASSUME NEW L, RevokeSessions(L) PROVE Contract!Next
    <2>1. ASSUME NEW l \in Logins, l \in L /\ logins[l].session = "active"
          PROVE  logins'[l].session = "revoked" /\ logins'[l].ch = logins[l].ch
      BY <1>0, <1>9, <2>1 DEF RevokeSessions, Login
    <2>2. ASSUME NEW l \in Logins, ~(l \in L /\ logins[l].session = "active")
          PROVE  logins'[l] = logins[l]
      BY <1>9, <2>2 DEF RevokeSessions
    <2>3. UNCHANGED <<now, challenges>>  BY <1>9 DEF RevokeSessions
    <2>4. \A l \in Logins : ~Live(l)' \/ logins'[l].session # "revoked"
      BY DEF Live
    <2> QED  BY <2>1, <2>2, <2>3, <2>4, SessionsRefine
  <1> QED
    BY <1>1, <1>2, <1>3, <1>4, <1>6, <1>7, <1>8, <1>9
    DEF Next, Request, DeliveryRejected, ServiceVerify, Current, Logout, LogoutAll,
        RevokeIdentity, Bootstrap, Consume,
        RevokeSession, RevokeAllSessions, RevokeIdentitySessions

(* MemoryStore implements the contract of a code store: under any capacity, *)
(* limits and delays its codes are issued once and redeemed at most once,   *)
(* only Verify begins a session, and nothing that every caller finds ended  *)
(* comes back, neither through a late AuthenticateSession nor by reclaiming.*)
THEOREM MemoryImplements == Spec => ImplementsContract
  <1>1. Init => Contract!Init
    BY DEF Init, Contract!Init, codes, sessions, grants
  <1>2. MInv /\ [Next]_vars => [Contract!Next]_(Contract!vars)
    <2>1. UNCHANGED vars => UNCHANGED Contract!vars
      BY DEF vars, Contract!vars, codes, sessions, grants, Open, Live, SessionExpired, Oldest
    <2> QED  BY <2>1, RefinesNext
  <1> QED  BY <1>1, <1>2, StoreInvariant, PTL DEF Spec, ImplementsContract, Contract!Spec
=============================================================================
