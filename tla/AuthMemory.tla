----------------------------- MODULE AuthMemory -----------------------------
(***************************************************************************)
(* The development sign-in store: auth.Service, SessionManager and         *)
(* PreAuthManager over auth.MemoryStore, maps of bounded size under one    *)
(* mutex.                                                                  *)
(*                                                                         *)
(* A call reads the clock before it takes the mutex, so the store sees     *)
(* times out of order: a call carries any stamp from Lag before the        *)
(* present to the present.  Under the mutex a method is one atomic step,   *)
(* pruning, reclaiming and early returns included.                         *)
(*                                                                         *)
(* A Verify call stands for the session ID it draws.  The five comparisons *)
(* of a code are one Boolean input.  A deleted map entry keeps its fields  *)
(* here, as history.  A budget list that is empty is absent from its map,  *)
(* as prune leaves it.                                                     *)
(***************************************************************************)
EXTENDS Integers, FiniteSets, Sequences

CONSTANTS
    Logins,             \* calls of Verify, each with its own session ID
    Challenges,         \* challenge IDs
    PreAuths,           \* pre-authentication IDs
    Emails,             \* canonical addresses
    Sources,            \* abuse-budget source keys
    None,               \* absence of any of them
    Capacities,         \* bounds of every map a store may be created with
    Lag,                \* longest wait between reading the clock and the mutex
    ChallengeTTL, SessionTTL, IdleTTL, PreAuthTTL,
    Window, SendGap,
    AddressSendLimit, SourceSendLimit, ChallengeAttempts,
    AddressVerifyLimit, SourceVerifyLimit, BootstrapLimit,
    MaxTime             \* bound on the modelled clock

ASSUME MemoryAssumption ==
    /\ None \notin Logins \cup Challenges \cup Emails \cup Sources
    /\ Capacities \subseteq Nat \ {0}
    /\ {ChallengeTTL, SessionTTL, IdleTTL, PreAuthTTL, Window, SendGap,
        AddressSendLimit, SourceSendLimit, ChallengeAttempts,
        AddressVerifyLimit, SourceVerifyLimit, BootstrapLimit} \subseteq Nat \ {0}
    /\ {Lag, MaxTime} \subseteq Nat

(* A call waits for the mutex much shorter than an hour less a minute. *)
ASSUME LagAssumption == Lag + SendGap <= Window

VARIABLES
    now,
    capacity,           \* bound of every map
    challenges,         \* storedChallenge, by ID
    active,             \* active[e]: the challenge the active map names for e
    identities,         \* addresses with an identity
    logins,             \* Verify calls and the storedSession each created
    browserStates,      \* PreAuthRecord, by ID
    addressSends, sourceSends, addressFailures, sourceVerifications,
    browserBootstraps   \* budgets: stamps in the order of arrival

budgets == <<addressSends, sourceSends, addressFailures, sourceVerifications,
             browserBootstraps>>
vars == <<now, capacity, challenges, active, identities, logins, browserStates,
          addressSends, sourceSends, addressFailures, sourceVerifications,
          browserBootstraps>>

StoredChallenge ==
    [state : {"none", "stored", "gone"}, email : Emails \cup {None},
     source : Sources \cup {None}, issued : Nat, active : BOOLEAN, attempts : Nat]

(* A Verify call: the stamp and what it was charged; and its session, of    *)
(* the identity of email.                                                   *)
Login ==
    [pc : {"idle", "done"}, ch : Challenges \cup {None}, email : Emails \cup {None},
     source : Sources \cup {None}, stamp : Nat,
     charged : BOOLEAN, failed : BOOLEAN,
     session : {"none", "active", "revoked", "gone"}, seen : Nat]

BrowserState ==
    [state : {"none", "stored", "consumed", "gone"}, source : Sources \cup {None},
     issued : Nat]

(* Every map entry and call holds a value of its kind. *)
TypeOK ==
    /\ now \in Nat
    /\ capacity \in Capacities
    /\ challenges \in [Challenges -> StoredChallenge]
    /\ active \in [Emails -> Challenges \cup {None}]
    /\ identities \in SUBSET Emails
    /\ logins \in [Logins -> Login]
    /\ browserStates \in [PreAuths -> BrowserState]
    /\ addressSends \in [Emails -> Seq(Nat)]
    /\ sourceSends \in [Sources -> Seq(Nat)]
    /\ addressFailures \in [Emails -> Seq(Nat)]
    /\ sourceVerifications \in [Sources -> Seq(Nat)]
    /\ browserBootstraps \in [Sources -> Seq(Nat)]

(* NewMemoryStore. *)
Init ==
    /\ now = 0
    /\ capacity \in Capacities
    /\ challenges = [ch \in Challenges |->
         [state |-> "none", email |-> None, source |-> None, issued |-> 0,
          active |-> FALSE, attempts |-> 0]]
    /\ active = [e \in Emails |-> None]
    /\ identities = {}
    /\ logins = [l \in Logins |->
         [pc |-> "idle", ch |-> None, email |-> None, source |-> None, stamp |-> 0,
          charged |-> FALSE, failed |-> FALSE, session |-> "none", seen |-> 0]]
    /\ browserStates = [p \in PreAuths |->
         [state |-> "none", source |-> None, issued |-> 0]]
    /\ addressSends = [e \in Emails |-> <<>>]
    /\ sourceSends = [s \in Sources |-> <<>>]
    /\ addressFailures = [e \in Emails |-> <<>>]
    /\ sourceVerifications = [s \in Sources |-> <<>>]
    /\ browserBootstraps = [s \in Sources |-> <<>>]

-----------------------------------------------------------------------------
(* Clocks and budgets                                                      *)

(* What a call that takes the mutex now may have read from the clock. *)
Stamps == {t \in 0..now : now - Lag <= t}

Tick ==
    /\ now < MaxTime
    /\ now' = now + 1
    /\ UNCHANGED <<capacity, challenges, active, identities, logins, browserStates,
                   budgets>>

(* Mutant of recent: the window is one unit short. *)
RecentShort(values, t) ==
    LET kept == {i \in DOMAIN values : values[i] > t - Window + 1}
    IN IF kept = {} THEN <<>>
       ELSE SubSeq(values, CHOOSE i \in kept : \A j \in kept : i <= j, Len(values))

(* The list from its first stamp inside the window on.  Stamps arrive out   *)
(* of order, so later ones may lie outside it and are kept.                 *)
recent(values, t) ==
    LET kept == {i \in DOMAIN values : values[i] > t - Window}
    IN IF kept = {} THEN <<>>
       ELSE SubSeq(values, CHOOSE i \in kept : \A j \in kept : i <= j, Len(values))

prune(lists, t) == [k \in DOMAIN lists |-> recent(lists[k], t)]

(* The map has this key, or room for it. *)
HasRoom(lists, k) ==
    lists[k] # <<>> \/ Cardinality({j \in DOMAIN lists : lists[j] # <<>>}) < capacity

Charge(lists, k, t) == [lists EXCEPT ![k] = Append(@, t)]

(* Reserve, Verify and CreatePreAuth prune every list before anything else. *)
Pruned(t) ==
    [addressSends |-> prune(addressSends, t),
     sourceSends |-> prune(sourceSends, t),
     addressFailures |-> prune(addressFailures, t),
     sourceVerifications |-> prune(sourceVerifications, t),
     browserBootstraps |-> prune(browserBootstraps, t)]

SetBudgets(b) ==
    /\ addressSends' = b.addressSends
    /\ sourceSends' = b.sourceSends
    /\ addressFailures' = b.addressFailures
    /\ sourceVerifications' = b.sourceVerifications
    /\ browserBootstraps' = b.browserBootstraps

(* Mutant of MakeRoom: one entry too many. *)
MakeRoomLate(entries, reclaimable) ==
    IF Cardinality(entries) <= capacity THEN {{}} ELSE {{x} : x \in reclaimable}

(* How a map of these entries makes room for one more: nothing to delete,   *)
(* or one entry that may be reclaimed, or no way at all.                    *)
MakeRoom(entries, reclaimable) ==
    IF Cardinality(entries) < capacity THEN {{}} ELSE {{x} : x \in reclaimable}

-----------------------------------------------------------------------------
(* Challenges                                                              *)

Stored == {ch \in Challenges : challenges[ch].state = "stored"}

(* Mutant of Reclaimable: any entry may go. *)
ReclaimableAny(t) == Stored

Reclaimable(t) ==
    {ch \in Stored : ~challenges[ch].active \/ t >= challenges[ch].issued + ChallengeTTL}

(* The active map without the entries that name a challenge of D. *)
Unnamed(D) == [e \in Emails |-> IF active[e] \in D THEN None ELSE active[e]]

(* The challenges after reclaimChallenge deleted those of D. *)
Without(D) ==
    [ch \in Challenges |->
       IF ch \in D THEN [challenges[ch] EXCEPT !.state = "gone", !.active = FALSE]
       ELSE challenges[ch]]

(* Mutant of SendLimited: no gap between sends. *)
SendLimitedByCount(b, e, src, t) ==
    \/ Len(b.addressSends[e]) >= AddressSendLimit
    \/ Len(b.sourceSends[src]) >= SourceSendLimit

SendLimited(b, e, src, t) ==
    LET address == b.addressSends[e]
    IN \/ Len(address) >= AddressSendLimit
       \/ Len(b.sourceSends[src]) >= SourceSendLimit
       \/ address # <<>> /\ t - address[Len(address)] < SendGap

(* Mutant of Previous: a resend never finds the code it replaces. *)
PreviousNever(D, e) == None

(* The challenge a resend to e replaces, once those of D are deleted. *)
Previous(D, e) == Unnamed(D)[e]

(* Store.Reserve: the budgets, room for the challenge (which may reclaim    *)
(* one), room for the budgets, then both budgets are charged and the        *)
(* address's active challenge replaced.                                     *)
Reserve(ch, e, src, t) ==
    LET b == Pruned(t)
        limited == SendLimited(b, e, src, t)
        room == HasRoom(b.addressSends, e) /\ HasRoom(b.sourceSends, src)
        ways == MakeRoom(Stored, Reclaimable(t))
    IN /\ challenges[ch].state = "none"
       /\ \/ /\ limited \/ ways = {}
             /\ SetBudgets(b)
             /\ UNCHANGED <<challenges, active>>
          \/ /\ ~limited
             /\ ~room
             /\ \E D \in ways : challenges' = Without(D) /\ active' = Unnamed(D)
             /\ SetBudgets(b)
          \/ /\ ~limited
             /\ room
             /\ \E D \in ways :
                  LET previous == Previous(D, e)
                  IN challenges' = [d \in Challenges |->
                       IF d = ch
                       THEN [state |-> "stored", email |-> e, source |-> src,
                             issued |-> t, active |-> TRUE, attempts |-> 0]
                       ELSE IF d = previous
                       THEN [challenges[d] EXCEPT !.active = FALSE]
                       ELSE Without(D)[d]]
                     /\ active' = [Unnamed(D) EXCEPT ![e] = ch]
             /\ SetBudgets([b EXCEPT !.addressSends = Charge(b.addressSends, e, t),
                                     !.sourceSends = Charge(b.sourceSends, src, t)])
       /\ UNCHANGED <<now, capacity, identities, logins, browserStates>>

(* Only the named challenge, and its pointer only if still its own. *)
Invalidate(ch) ==
    /\ ch \in Stored
    /\ challenges' = [challenges EXCEPT ![ch].active = FALSE]
    /\ active' = Unnamed({ch})
    /\ UNCHANGED <<now, capacity, identities, logins, browserStates, budgets>>

-----------------------------------------------------------------------------
(* Verification                                                            *)

InMap(l) == logins[l].session \in {"active", "revoked"}

SessionExpired(l, t) ==
    \/ t >= logins[l].stamp + SessionTTL
    \/ t >= logins[l].seen + IdleTTL

ReclaimableSessions(t) ==
    {l \in Logins : InMap(l) /\ (logins[l].session = "revoked" \/ SessionExpired(l, t))}

Redeemable(ch, t) ==
    /\ challenges[ch].state = "stored"
    /\ challenges[ch].active
    /\ challenges[ch].attempts < ChallengeAttempts
    /\ t >= challenges[ch].issued
    /\ t < challenges[ch].issued + ChallengeTTL

(* The logins after call l returned and reclaimSession deleted D. *)
Returned(l, ch, src, t, D, charged, failed, session) ==
    [k \in Logins |->
       IF k = l
       THEN [pc |-> "done", ch |-> ch,
             email |-> IF charged THEN challenges[ch].email ELSE None,
             source |-> src, stamp |-> t, charged |-> charged, failed |-> failed,
             session |-> session, seen |-> t]
       ELSE IF k \in D THEN [logins[k] EXCEPT !.session = "gone"]
       ELSE logins[k]]

(* The source budget is spent or its map is full: nothing is charged. *)
VerifyLimited(l, ch, src, t, b) ==
    /\ \/ ~HasRoom(b.sourceVerifications, src)
       \/ Len(b.sourceVerifications[src]) >= SourceVerifyLimit
    /\ logins' = Returned(l, ch, src, t, {}, FALSE, FALSE, "none")
    /\ SetBudgets(b)
    /\ UNCHANGED <<challenges, active, identities>>

(* A wrong code: the address budget and the challenge's attempts. *)
VerifyMismatch(l, ch, src, t, c) ==
    LET e == challenges[ch].email
        full == \/ ~HasRoom(c.addressFailures, e)
                \/ Len(c.addressFailures[e]) >= AddressVerifyLimit
    IN /\ IF full
          THEN /\ SetBudgets(c)
               /\ UNCHANGED challenges
          ELSE /\ SetBudgets([c EXCEPT !.addressFailures = Charge(c.addressFailures, e, t)])
               /\ challenges' = [challenges EXCEPT ![ch].attempts = @ + 1]
       /\ logins' = Returned(l, ch, src, t, {}, TRUE, ~full, "none")
       /\ UNCHANGED <<active, identities>>

(* Mutant of Spent: the challenge stays active. *)
SpentNever(ch) == challenges

(* The challenges after ch was redeemed. *)
Spent(ch) == [challenges EXCEPT ![ch].active = FALSE]

(* The right code: room for the session (which may reclaim one) and for the *)
(* identity, then session, identity and challenge in one step.              *)
VerifyMatch(l, ch, src, t, c) ==
    LET e == challenges[ch].email
        ways == MakeRoom({k \in Logins : InMap(k)}, ReclaimableSessions(t))
        admitted == e \in identities \/ Cardinality(identities) < capacity
    IN /\ \/ /\ ways = {}
             /\ logins' = Returned(l, ch, src, t, {}, TRUE, FALSE, "none")
             /\ UNCHANGED <<challenges, active, identities>>
          \/ /\ ~admitted
             /\ \E D \in ways : logins' = Returned(l, ch, src, t, D, TRUE, FALSE, "none")
             /\ UNCHANGED <<challenges, active, identities>>
          \/ /\ admitted
             /\ \E D \in ways : logins' = Returned(l, ch, src, t, D, TRUE, FALSE, "active")
             /\ identities' = identities \cup {e}
             /\ challenges' = Spent(ch)
             /\ active' = [active EXCEPT ![e] = None]
       /\ SetBudgets(c)

(* Store.Verify. *)
Verify(l, ch, match, src, t) ==
    LET b == Pruned(t)
        c == [b EXCEPT !.sourceVerifications = Charge(b.sourceVerifications, src, t)]
    IN /\ logins[l].pc = "idle"
       /\ \/ VerifyLimited(l, ch, src, t, b)
          \/ /\ HasRoom(b.sourceVerifications, src)
             /\ Len(b.sourceVerifications[src]) < SourceVerifyLimit
             /\ \/ /\ ~Redeemable(ch, t)
                   /\ logins' = Returned(l, ch, src, t, {}, TRUE, FALSE, "none")
                   /\ SetBudgets(c)
                   /\ UNCHANGED <<challenges, active, identities>>
                \/ /\ Redeemable(ch, t)
                   /\ IF match THEN VerifyMatch(l, ch, src, t, c)
                                ELSE VerifyMismatch(l, ch, src, t, c)
       /\ UNCHANGED <<now, capacity, browserStates>>

-----------------------------------------------------------------------------
(* Sessions                                                                *)

Usable(l, t) ==
    /\ logins[l].session = "active"
    /\ t >= logins[l].stamp
    /\ ~SessionExpired(l, t)

(* A late call carries the last use back in time. *)
AuthenticateSession(l, t) ==
    /\ Usable(l, t)
    /\ logins' = [logins EXCEPT ![l].seen = t]
    /\ UNCHANGED <<now, capacity, challenges, active, identities, browserStates, budgets>>

RevokeSessions(L) ==
    /\ logins' = [l \in Logins |->
                    IF l \in L /\ logins[l].session = "active"
                    THEN [logins[l] EXCEPT !.session = "revoked"] ELSE logins[l]]
    /\ UNCHANGED <<now, capacity, challenges, active, identities, browserStates, budgets>>

(* Expired sessions too. *)
RevokeSession(l) ==
    /\ logins[l].session = "active"
    /\ RevokeSessions({l})

SessionsOf(e) == {l \in Logins : InMap(l) /\ logins[l].email = e}

(* By one usable session. *)
RevokeAllSessions(l, t) ==
    /\ Usable(l, t)
    /\ RevokeSessions(SessionsOf(logins[l].email))

RevokeIdentitySessions(e) == RevokeSessions(SessionsOf(e))

-----------------------------------------------------------------------------
(* Browser pre-authentication                                              *)

StoredStates == {p \in PreAuths : browserStates[p].state = "stored"}

ReclaimableStates(t) == {p \in StoredStates : t >= browserStates[p].issued + PreAuthTTL}

(* The budget, room for it, room for the state. *)
CreatePreAuth(p, src, t) ==
    LET b == Pruned(t)
        ways == MakeRoom(StoredStates, ReclaimableStates(t))
        refused == \/ Len(b.browserBootstraps[src]) >= BootstrapLimit
                   \/ ~HasRoom(b.browserBootstraps, src)
                   \/ ways = {}
    IN /\ browserStates[p].state = "none"
       /\ \/ /\ refused
             /\ SetBudgets(b)
             /\ UNCHANGED browserStates
          \/ /\ ~refused
             /\ \E D \in ways : browserStates' =
                  [q \in PreAuths |->
                     IF q = p THEN [state |-> "stored", source |-> src, issued |-> t]
                     ELSE IF q \in D THEN [browserStates[q] EXCEPT !.state = "gone"]
                     ELSE browserStates[q]]
             /\ SetBudgets([b EXCEPT !.browserBootstraps = Charge(b.browserBootstraps, src, t)])
       /\ UNCHANGED <<now, capacity, challenges, active, identities, logins>>

(* A state is consumed once, before its exclusive expiry. *)
ConsumePreAuth(p, t) ==
    /\ p \in StoredStates
    /\ t \in browserStates[p].issued..(browserStates[p].issued + PreAuthTTL - 1)
    /\ browserStates' = [browserStates EXCEPT ![p].state = "consumed"]
    /\ UNCHANGED <<now, capacity, challenges, active, identities, logins, budgets>>

-----------------------------------------------------------------------------
(* The managers: each reads the clock, then calls the store                *)

(* Service.Request reserves; after a delivery that the sender rejected it   *)
(* invalidates that reservation, however late.                              *)
Request(ch, e, src) == \E t \in Stamps : Reserve(ch, e, src, t)

DeliveryRejected(ch) == Invalidate(ch)

ServiceVerify(l, ch, src) ==
    \E t \in Stamps, match \in BOOLEAN : Verify(l, ch, match, src, t)

(* SessionManager.Current, and ValidateCSRF. *)
Current(l) == \E t \in Stamps : AuthenticateSession(l, t)

Logout(l) == RevokeSession(l)

LogoutAll(l) == \E t \in Stamps : RevokeAllSessions(l, t)

RevokeIdentity(e) == RevokeIdentitySessions(e)

(* PreAuthManager. *)
Bootstrap(p, src) == \E t \in Stamps : CreatePreAuth(p, src, t)

Consume(p) == \E t \in Stamps : ConsumePreAuth(p, t)

Next ==
    \/ Tick
    \/ \E ch \in Challenges, e \in Emails, src \in Sources : Request(ch, e, src)
    \/ \E ch \in Challenges : DeliveryRejected(ch)
    \/ \E l \in Logins, ch \in Challenges, src \in Sources : ServiceVerify(l, ch, src)
    \/ \E l \in Logins : Current(l) \/ Logout(l) \/ LogoutAll(l)
    \/ \E e \in Emails : RevokeIdentity(e)
    \/ \E p \in PreAuths, src \in Sources : Bootstrap(p, src)
    \/ \E p \in PreAuths : Consume(p)

Spec == Init /\ [][Next]_vars

-----------------------------------------------------------------------------
(* Properties                                                              *)

Keys(lists) == {k \in DOMAIN lists : lists[k] # <<>>}

(* No map outgrows the capacity, whatever is refused, replaced or reclaimed *)
(* on the way (NewMemoryStore: a maximum entry count for each collection).  *)
WithinCapacity ==
    /\ Cardinality(Stored) <= capacity
    /\ Cardinality({l \in Logins : InMap(l)}) <= capacity
    /\ Cardinality(identities) <= capacity
    /\ Cardinality(StoredStates) <= capacity
    /\ \A lists \in {addressSends, sourceSends, addressFailures,
                     sourceVerifications, browserBootstraps} :
          Cardinality(Keys(lists)) <= capacity

(* The active map names exactly the stored challenges that are active, each *)
(* under its address: a resend finds the code it replaces, and an address   *)
(* never has two.                                                           *)
ActiveIsNamed ==
    \A ch \in Challenges :
        (challenges[ch].state = "stored" /\ challenges[ch].active)
        <=> \E e \in Emails : active[e] = ch /\ challenges[ch].email = e

(* A code never yields two sessions, though calls race for the mutex, codes *)
(* are replaced and reclaimed, and sessions end (auth.Store: one concurrent *)
(* attempt is the sole winner).                                             *)
AtMostOneSession ==
    \A k, l \in Logins :
        /\ logins[k].session # "none"
        /\ logins[l].session # "none"
        /\ logins[k].ch = logins[l].ch
        => k = l

(* At most limit of the events X, stamped by stamp, in any window.  A call  *)
(* that waited for the mutex may find stamps already pruned that its own    *)
(* window would count, hence the window less that wait.                     *)
AtMost(limit, X, stamp) ==
    \A x \in X :
        Cardinality({y \in X : stamp[x] - (Window - Lag) < stamp[y] /\ stamp[y] <= stamp[x]})
        <= limit

(* Sends, guesses and bootstraps keep their rolling budgets although stamps *)
(* arrive out of order, lists are pruned by their prefix and challenges are *)
(* replaced and reclaimed in between.                                       *)
BudgetsHold ==
    LET issued == [ch \in Challenges |-> challenges[ch].issued]
        tried == [l \in Logins |-> logins[l].stamp]
        booted == [p \in PreAuths |-> browserStates[p].issued]
    IN /\ \A e \in Emails :
            /\ AtMost(AddressSendLimit, {ch \in Challenges : challenges[ch].email = e}, issued)
            /\ AtMost(AddressVerifyLimit,
                      {l \in Logins : logins[l].failed /\ logins[l].email = e}, tried)
       /\ \A src \in Sources :
            /\ AtMost(SourceSendLimit, {ch \in Challenges : challenges[ch].source = src}, issued)
            /\ AtMost(SourceVerifyLimit,
                      {l \in Logins : logins[l].charged /\ logins[l].source = src}, tried)
            /\ AtMost(BootstrapLimit, {p \in PreAuths : browserStates[p].source = src}, booted)

(* Two sends to one address are stamped at least the gap apart, in whatever *)
(* order their calls took the mutex.                                        *)
SendsKeepGap ==
    \A c, d \in Challenges :
        /\ c # d
        /\ challenges[c].email = challenges[d].email
        /\ challenges[c].email # None
        /\ challenges[c].issued <= challenges[d].issued
        => challenges[d].issued - challenges[c].issued >= SendGap

(* Making room never takes what a caller could still use: an entry is       *)
(* deleted only if every call that reads the clock from now on would be     *)
(* refused with it.                                                         *)
ReclaimsOnlyDead ==
    [][/\ \A ch \in Challenges :
            challenges[ch].state = "stored" /\ challenges'[ch].state = "gone"
            => ~Redeemable(ch, now)
       /\ \A l \in Logins :
            InMap(l) /\ logins'[l].session = "gone" => ~Usable(l, now)
       /\ \A p \in PreAuths :
            browserStates[p].state = "stored" /\ browserStates'[p].state = "gone"
            => now >= browserStates[p].issued + PreAuthTTL]_vars

(* The contract of a code store, implemented.  A code is open while some    *)
(* call could redeem it, a session live while some call could use it, the   *)
(* calls that still wait for the mutex included.                            *)
Oldest == IF now >= Lag THEN now - Lag ELSE 0

Open(ch) ==
    /\ challenges[ch].state = "stored"
    /\ challenges[ch].active
    /\ challenges[ch].attempts < ChallengeAttempts
    /\ Oldest < challenges[ch].issued + ChallengeTTL

Live(l) == logins[l].session = "active" /\ ~SessionExpired(l, Oldest)

codes ==
    [ch \in Challenges |->
       IF challenges[ch].state = "none" THEN "unissued"
       ELSE IF Open(ch) THEN "open" ELSE "closed"]

sessions ==
    [l \in Logins |->
       IF logins[l].session = "none" THEN "none" ELSE IF Live(l) THEN "live" ELSE "ended"]

grants == [l \in Logins |-> IF logins[l].session = "none" THEN None ELSE logins[l].ch]

Contract == INSTANCE LoginContract WITH
    Sessions <- Logins, code <- codes, session <- sessions, grant <- grants

(* One-time redemption and no revival: a code is redeemed at most once, a   *)
(* session begins only by redeeming an open code, and neither a closed code *)
(* nor a session every caller finds ended comes back.                       *)
ImplementsContract == Contract!Spec
=============================================================================
