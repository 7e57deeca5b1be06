----------------------------- MODULE AuthRedis -----------------------------
(***************************************************************************)
(* The production sign-in store: auth.Service over authredis.Store (Redis  *)
(* scripts) and authpg.Store (PostgreSQL identities).                      *)
(*                                                                         *)
(* Every Redis script is one atomic step.  A Verify call is several steps: *)
(* lease the challenge in Redis, resolve the identity in PostgreSQL,       *)
(* complete in Redis.  Between any two of them other calls run, time       *)
(* passes, and the calling process may crash.  Every command travels       *)
(* through "net": the caller may give up on it and it still runs later;    *)
(* its reply may be lost, and the driver then sends it again.              *)
(*                                                                         *)
(* A call draws a fresh session ID, session digest and proposed identity   *)
(* ID, and its lease is a digest of the first two, so the call itself      *)
(* stands for all of them.  The five comparisons of the verify script      *)
(* (email, key ID, purpose, verifier, binding) are one Boolean input.      *)
(***************************************************************************)
EXTENDS Integers, FiniteSets

CONSTANTS
    Calls,              \* calls of Store.Verify, each with its own session ID
    Challenges,         \* challenge IDs
    Emails,             \* canonical addresses
    Sources,            \* abuse-budget source keys
    None,               \* absence of a call, challenge or address
    ChallengeTTL,       \* 300000 ms: challenge, active pointer, completion mark
    LeaseTTL,           \* 30000 ms
    SessionTTL,         \* seven days
    IdleTTL,            \* 24 hours
    Window,             \* 3600000 ms, the rolling budget window
    SendGap,            \* 60000 ms between sends to one address
    AddressSendLimit, SourceSendLimit, ChallengeAttempts,
    AddressVerifyLimit, SourceVerifyLimit,
    RpcTimeout,         \* longest wait of a caller for one completion reply
    CleanupTimeout,     \* 2 s, cleanupContext: longest wait for the retry
    InvitationsRequired,
    MaxTime             \* bound on the modelled clock

ASSUME SetsAssumption ==
    /\ None \notin Calls \cup Challenges \cup Emails \cup Sources

ASSUME TimesAssumption ==
    /\ {ChallengeTTL, LeaseTTL, SessionTTL, IdleTTL, Window, SendGap} \subseteq Nat \ {0}
    /\ {RpcTimeout, CleanupTimeout, MaxTime} \subseteq Nat
    /\ RpcTimeout + CleanupTimeout <= ChallengeTTL

ASSUME LimitsAssumption ==
    /\ {AddressSendLimit, SourceSendLimit, ChallengeAttempts,
        AddressVerifyLimit, SourceVerifyLimit} \subseteq Nat \ {0}
    /\ InvitationsRequired \in BOOLEAN

VARIABLES
    now,                \* the Redis server clock
    \* Redis keys
    challenge,          \* challenge:<id> hashes
    activeKey,          \* active:<purpose,email> pointers
    session,            \* session:<id> hashes
    index,              \* identity-sessions:<id> sets
    completed,          \* expiry of complete:<lease> marks, -1 when never set
    sendAddress, sendSource, verifySource, verifyAddress,  \* budget ZSETs
    \* PostgreSQL rows, by canonical email
    identity, invitation, disabled,
    \* callers
    request,            \* Service.Request, by the challenge it creates
    call,               \* Store.Verify
    writer,             \* the trusted writer that disables an identity
    net                 \* Redis commands sent and not yet answered

redisVars  == <<challenge, activeKey>>
sessVars   == <<session, index, completed>>
budgetVars == <<sendAddress, sendSource, verifySource, verifyAddress>>
pgVars     == <<identity, invitation, disabled>>
vars == <<now, challenge, activeKey, session, index, completed, sendAddress,
          sendSource, verifySource, verifyAddress, identity, invitation,
          disabled, request, call, writer, net>>

Waiting == {"verify", "resolve", "complete", "retry", "release", "reject"}
Errors == {"ErrAuthentication", "ErrRateLimited", "error"}
Commands == {"verify", "complete", "retry", "release", "reject"}

ChallengeHash ==
    [state : {"none", "stored", "gone"}, email : Emails \cup {None}, active : BOOLEAN,
     attempts : Nat, lease : Calls \cup {None}, leaseUntil : Nat, until : Nat]

SessionHash ==
    [state : {"none", "stored", "gone"}, email : Emails \cup {None},
     lastSeen : Nat, expires : Nat]

IdentityIndex == [members : SUBSET Calls, until : Nat]

VerifyCall ==
    [pc : Waiting \cup {"idle", "done", "crashed"},
     ch : Challenges \cup {None}, source : Sources \cup {None}, match : BOOLEAN,
     sent : Nat, result : Errors \cup {"none", "identity"}]

(* Every key, row and caller holds a value of its kind. *)
TypeOK ==
    /\ now \in Nat
    /\ challenge \in [Challenges -> ChallengeHash]
    /\ activeKey \in [Emails -> [id : Challenges \cup {None}, until : Nat]]
    /\ session \in [Calls -> SessionHash]
    /\ index \in [Emails -> IdentityIndex]
    /\ completed \in [Calls -> Nat \cup {-1}]
    /\ sendAddress \in [Emails -> SUBSET (Nat \X Challenges)]
    /\ sendSource \in [Sources -> SUBSET (Nat \X Challenges)]
    /\ verifySource \in [Sources -> SUBSET (Nat \X Calls)]
    /\ verifyAddress \in [Emails -> SUBSET (Nat \X Calls)]
    /\ identity \in [Emails -> Calls \cup {None}]
    /\ invitation \in [Emails -> {"none", "open", "used"}]
    /\ disabled \in [Emails -> BOOLEAN]
    /\ request \in [Challenges -> {"unused", "sending", "invalidating", "done"}]
    /\ call \in [Calls -> VerifyCall]
    /\ writer \in [Emails -> {"idle", "revoked"}]
    /\ net \in SUBSET (Calls \X Commands)

Init ==
    /\ now = 0
    /\ challenge = [ch \in Challenges |->
                      [state |-> "none", email |-> None, active |-> FALSE,
                       attempts |-> 0, lease |-> None, leaseUntil |-> 0, until |-> 0]]
    /\ activeKey = [e \in Emails |-> [id |-> None, until |-> 0]]
    /\ session = [c \in Calls |->
                    [state |-> "none", email |-> None, lastSeen |-> 0, expires |-> 0]]
    /\ index = [e \in Emails |-> [members |-> {}, until |-> 0]]
    /\ completed = [c \in Calls |-> -1]
    /\ sendAddress = [e \in Emails |-> {}]
    /\ sendSource = [s \in Sources |-> {}]
    /\ verifySource = [s \in Sources |-> {}]
    /\ verifyAddress = [e \in Emails |-> {}]
    /\ identity = [e \in Emails |-> None]
    /\ invitation \in [Emails -> IF InvitationsRequired THEN {"none", "open"} ELSE {"none"}]
    /\ disabled = [e \in Emails |-> FALSE]
    /\ request = [ch \in Challenges |-> "unused"]
    /\ call = [c \in Calls |-> [pc |-> "idle", ch |-> None, source |-> None,
                                match |-> FALSE, sent |-> 0, result |-> "none"]]
    /\ writer = [e \in Emails |-> "idle"]
    /\ net = {}

-----------------------------------------------------------------------------
(* Redis keys                                                              *)

Exists(ch) == challenge[ch].state = "stored"

SessionExists(s) == session[s].state = "stored"

(* The hash after DEL or expiry.  A reply to HGET no longer shows any field; *)
(* the address is kept for the properties.                                  *)
DeletedChallenge(k) == [k EXCEPT !.state = "gone", !.active = FALSE, !.attempts = 0,
                                 !.lease = None, !.leaseUntil = 0, !.until = 0]

DeletedSession(k) == [k EXCEPT !.state = "gone", !.lastSeen = 0, !.expires = 0]

(* Mutant of Recent: the window is one tick short. *)
RecentShort(zset, t) == {x \in zset : x[1] > t - Window + 1}

(* ZREMRANGEBYSCORE -inf ms-window runs before every ZCARD: the entries a   *)
(* script counts are those of the last Window.                              *)
Recent(zset, t) == {x \in zset : x[1] > t - Window}

(***************************************************************************)
(* The driver and the caller.  The caller that waits for command cmd takes *)
(* the reply, or the reply is lost and the driver sends the command again; *)
(* a caller that gave up, or crashed, is past caring.                      *)
(***************************************************************************)
Reply(c, cmd, pc, result) ==
    \/ /\ call[c].pc = cmd
       /\ call' = [call EXCEPT ![c] = [@ EXCEPT !.pc = pc, !.sent = 0, !.result = result]]
       /\ net' = net \ {<<c, cmd>>}
    \/ /\ call[c].pc = cmd
       /\ UNCHANGED <<call, net>>
    \/ /\ call[c].pc # cmd
       /\ net' = net \ {<<c, cmd>>}
       /\ UNCHANGED call

(* The caller issues its next Redis command. *)
Send(c, cmd) ==
    /\ call' = [call EXCEPT ![c] = [@ EXCEPT !.pc = cmd, !.sent = now]]
    /\ net' = net \cup {<<c, cmd>>}

Finish(c, result) ==
    /\ call' = [call EXCEPT ![c] = [@ EXCEPT !.pc = "done", !.sent = 0, !.result = result]]
    /\ UNCHANGED net

-----------------------------------------------------------------------------
(* Service.Request                                                         *)

(* reserveScript refuses when a send budget is spent or the last send to    *)
(* the address is too recent.                                              *)
SendAllowed(e, src) ==
    /\ Cardinality(Recent(sendAddress[e], now)) < AddressSendLimit
    /\ Cardinality(Recent(sendSource[src], now)) < SourceSendLimit
    /\ \A x \in Recent(sendAddress[e], now) : now - x[1] >= SendGap

FreshChallenge(e) ==
    [state |-> "stored", email |-> e, active |-> TRUE, attempts |-> 0,
     lease |-> None, leaseUntil |-> 0, until |-> now + ChallengeTTL]

(* Mutant of Reserved: the previous challenge stays active. *)
ReservedBeside(ch, e) == [challenge EXCEPT ![ch] = FreshChallenge(e)]

(* The challenge table after reserveScript: the challenge the active        *)
(* pointer names, if both still exist, is deactivated (its lease is not     *)
(* touched) and the new one is stored.                                      *)
Reserved(ch, e) ==
    LET previous == activeKey[e].id
        replaced == previous # None /\ Exists(previous)
    IN [d \in Challenges |->
          IF d = ch
          THEN FreshChallenge(e)
          ELSE [challenge[d] EXCEPT !.active = @ /\ ~(replaced /\ d = previous)]]

(* Store.Reserve, for a challenge ID just drawn.  Request reads the reply   *)
(* and goes on to send the mail, or loses it and returns an error without   *)
(* sending.  A refused reservation (ErrRateLimited) changes nothing.        *)
Reserve(ch, e, src) ==
    /\ request[ch] = "unused"
    /\ SendAllowed(e, src)
    /\ sendAddress' = [sendAddress EXCEPT ![e] = @ \cup {<<now, ch>>}]
    /\ sendSource' = [sendSource EXCEPT ![src] = @ \cup {<<now, ch>>}]
    /\ challenge' = Reserved(ch, e)
    /\ activeKey' = [activeKey EXCEPT ![e] = [id |-> ch, until |-> now + ChallengeTTL]]
    /\ \E pc \in {"sending", "done"} : request' = [request EXCEPT ![ch] = pc]
    /\ UNCHANGED <<now, sessVars, verifySource, verifyAddress, pgVars, call, writer, net>>

(* sender.Send: accepted or ambiguous (the code stays verifiable), or a     *)
(* known rejection, after which Request invalidates this very challenge.    *)
SendMail(ch) ==
    /\ request[ch] = "sending"
    /\ \E pc \in {"done", "invalidating"} : request' = [request EXCEPT ![ch] = pc]
    /\ UNCHANGED <<now, redisVars, sessVars, budgetVars, pgVars, call, writer, net>>

(* Store.Invalidate: deactivates the challenge if it exists; when the       *)
(* command fails Request returns ErrDelivery and the code stays verifiable. *)
Invalidate(ch) ==
    /\ request[ch] = "invalidating"
    /\ request' = [request EXCEPT ![ch] = "done"]
    /\ \/ challenge' = [challenge EXCEPT ![ch].active = @ /\ ~Exists(ch)]
       \/ UNCHANGED challenge
    /\ UNCHANGED <<now, activeKey, sessVars, budgetVars, pgVars, call, writer, net>>

-----------------------------------------------------------------------------
(* Store.Verify                                                            *)

(* A call arrives with a challenge ID, known or not, and credentials that   *)
(* match the stored ones or do not; its verify command goes out.            *)
BeginVerify(c, ch, match, src) ==
    /\ call[c].pc = "idle"
    /\ call' = [call EXCEPT ![c] = [@ EXCEPT !.pc = "verify", !.ch = ch,
                                                !.match = match, !.source = src]]
    /\ net' = net \cup {<<c, "verify">>}
    /\ UNCHANGED <<now, redisVars, sessVars, budgetVars, pgVars, request, writer>>

Leased(ch) == challenge[ch].lease # None /\ challenge[ch].leaseUntil > now

(* Mutant of Redeemable: "active" is not looked at. *)
RedeemableInactive(ch) == Exists(ch) /\ ~Leased(ch)

Redeemable(ch) == Exists(ch) /\ challenge[ch].active /\ ~Leased(ch)

(* Mutant of Mismatch: one attempt too many. *)
MismatchLate(c, ch) ==
    LET k == challenge[ch]
    IN /\ challenge' = [challenge EXCEPT ![ch] =
                          [k EXCEPT !.lease = None, !.leaseUntil = 0,
                                    !.attempts = k.attempts + 1,
                                    !.active = k.attempts < ChallengeAttempts]]
       /\ verifyAddress' = [verifyAddress EXCEPT ![k.email] = @ \cup {<<now, c>>}]
       /\ Reply(c, "verify", "done", "ErrAuthentication")

(* A wrong guess, after the lapsed lease (if any) is cleared: the address's *)
(* failure budget is charged and the challenge loses an attempt, the last   *)
(* of which deactivates it; with the budget spent nothing is charged.       *)
Mismatch(c, ch) ==
    LET k == challenge[ch]
        spent == Cardinality(Recent(verifyAddress[k.email], now)) >= AddressVerifyLimit
        attempts == IF spent THEN k.attempts ELSE k.attempts + 1
    IN /\ challenge' = [challenge EXCEPT ![ch] =
                          [k EXCEPT !.lease = None, !.leaseUntil = 0,
                                    !.attempts = attempts,
                                    !.active = spent \/ attempts < ChallengeAttempts]]
       /\ IF spent
          THEN UNCHANGED verifyAddress
          ELSE verifyAddress' = [verifyAddress EXCEPT ![k.email] = @ \cup {<<now, c>>}]
       /\ Reply(c, "verify", "done", IF spent THEN "ErrRateLimited" ELSE "ErrAuthentication")

(* A right guess leases the challenge to this call. *)
Match(c, ch) ==
    /\ challenge' = [challenge EXCEPT ![ch] =
                        [@ EXCEPT !.lease = c, !.leaseUntil = now + LeaseTTL]]
    /\ UNCHANGED verifyAddress
    /\ Reply(c, "verify", "resolve", "none")

(* verifyScript: the source budget comes first and is charged for unknown,  *)
(* inactive and leased challenges too.                                      *)
VerifyScript(c) ==
    LET ch == call[c].ch
        src == call[c].source
        spent == Cardinality(Recent(verifySource[src], now)) >= SourceVerifyLimit
    IN /\ <<c, "verify">> \in net
       /\ \/ /\ spent
             /\ Reply(c, "verify", "done", "ErrRateLimited")
             /\ UNCHANGED <<challenge, verifySource, verifyAddress>>
          \/ /\ ~spent
             /\ verifySource' = [verifySource EXCEPT ![src] = @ \cup {<<now, c>>}]
             /\ \/ /\ ~Redeemable(ch)
                   /\ Reply(c, "verify", "done", "ErrAuthentication")
                   /\ UNCHANGED <<challenge, verifyAddress>>
                \/ Redeemable(ch) /\ ~call[c].match /\ Mismatch(c, ch)
                \/ Redeemable(ch) /\ call[c].match /\ Match(c, ch)
       /\ UNCHANGED <<now, activeKey, sessVars, sendAddress, sendSource, pgVars,
                      request, writer>>

(* ResolveVerified is one serialised transaction per address.  Eligible:    *)
(* the identity exists and is enabled, or does not exist and needs no       *)
(* invitation or has an unconsumed one.                                     *)
Eligible(e) ==
    IF identity[e] # None
    THEN ~disabled[e]
    ELSE InvitationsRequired => invitation[e] = "open"

(* Mutant of Resolved: the invitation is not consumed. *)
ResolvedKeepingInvitation(c, e) ==
    /\ identity' = [identity EXCEPT ![e] = IF @ = None THEN c ELSE @]
    /\ UNCHANGED <<invitation, disabled>>

(* The committed transaction: a first login inserts the identity under the  *)
(* call's proposed ID and consumes the invitation when one is required.     *)
Resolved(c, e) ==
    /\ identity' = [identity EXCEPT ![e] = IF @ = None THEN c ELSE @]
    /\ invitation' = [invitation EXCEPT ![e] =
                        IF identity[e] = None /\ InvitationsRequired THEN "used" ELSE @]
    /\ UNCHANGED disabled

(* The transaction commits and its caller knows it. *)
ResolveCommits(c) ==
    LET e == challenge[call[c].ch].email
    IN /\ call[c].pc = "resolve"
       /\ Eligible(e)
       /\ Resolved(c, e)
       /\ Send(c, "complete")
       /\ UNCHANGED <<now, redisVars, sessVars, budgetVars, request, writer>>

(* Policy refuses the identity: the caller consumes the leased challenge.   *)
ResolveRefuses(c) ==
    /\ call[c].pc = "resolve"
    /\ ~Eligible(challenge[call[c].ch].email)
    /\ Send(c, "reject")
    /\ UNCHANGED <<now, redisVars, sessVars, budgetVars, pgVars, request, writer>>

(* The transaction fails, or its commit is ambiguous and took effect: the   *)
(* caller releases the lease.                                               *)
ResolveFails(c) ==
    LET e == challenge[call[c].ch].email
    IN /\ call[c].pc = "resolve"
       /\ \/ UNCHANGED pgVars
          \/ Eligible(e) /\ Resolved(c, e)
       /\ Send(c, "release")
       /\ UNCHANGED <<now, redisVars, sessVars, budgetVars, request, writer>>

HoldsLease(c) == Exists(call[c].ch) /\ challenge[call[c].ch].lease = c

(* releaseLeaseScript; Verify returns the resolver's error either way. *)
ReleaseScript(c) ==
    LET ch == call[c].ch
    IN /\ <<c, "release">> \in net
       /\ IF HoldsLease(c)
          THEN challenge' = [challenge EXCEPT ![ch] =
                               [@ EXCEPT !.lease = None, !.leaseUntil = 0]]
          ELSE UNCHANGED challenge
       /\ Reply(c, "release", "done", "error")
       /\ UNCHANGED <<now, activeKey, sessVars, budgetVars, pgVars, request, writer>>

(* rejectLeaseScript: an eligibility refusal consumes the challenge. *)
RejectScript(c) ==
    LET ch == call[c].ch
    IN /\ <<c, "reject">> \in net
       /\ IF HoldsLease(c)
          THEN challenge' = [challenge EXCEPT ![ch] =
                               [@ EXCEPT !.active = FALSE, !.lease = None, !.leaseUntil = 0]]
          ELSE UNCHANGED challenge
       /\ Reply(c, "reject", "done", "ErrAuthentication")
       /\ UNCHANGED <<now, activeKey, sessVars, budgetVars, pgVars, request, writer>>

(* Mutant of AlreadyCompleted: the completion mark is not read. *)
NeverCompleted(c) == FALSE

AlreadyCompleted(c) == completed[c] # -1

(* Mutant of StoreSession: the challenge is not deleted. *)
StoreSessionKeepingChallenge(c) ==
    LET e == challenge[call[c].ch].email
    IN /\ session' = [session EXCEPT ![c] = [state |-> "stored", email |-> e,
                                             lastSeen |-> now, expires |-> now + SessionTTL]]
       /\ index' = [index EXCEPT ![e] = [members |-> @.members \cup {c},
                                         until |-> now + SessionTTL]]
       /\ completed' = [completed EXCEPT ![c] = now + ChallengeTTL]
       /\ UNCHANGED challenge

(* Mutant of StoreSession: the index keeps its first expiry. *)
StoreSessionKeepingExpiry(c) ==
    LET ch == call[c].ch
        e == challenge[ch].email
    IN /\ session' = [session EXCEPT ![c] = [state |-> "stored", email |-> e,
                                             lastSeen |-> now, expires |-> now + SessionTTL]]
       /\ index' = [index EXCEPT ![e] =
                      [members |-> @.members \cup {c},
                       until |-> IF @.members = {} THEN now + SessionTTL ELSE @.until]]
       /\ completed' = [completed EXCEPT ![c] = now + ChallengeTTL]
       /\ challenge' = [challenge EXCEPT ![ch] = DeletedChallenge(@)]

(* completeScript, first execution: the session is stored and indexed, the  *)
(* completion mark set and the challenge deleted, all in one script.        *)
StoreSession(c) ==
    LET ch == call[c].ch
        e == challenge[ch].email
    IN /\ session' = [session EXCEPT ![c] = [state |-> "stored", email |-> e,
                                             lastSeen |-> now, expires |-> now + SessionTTL]]
       /\ index' = [index EXCEPT ![e] = [members |-> @.members \cup {c},
                                         until |-> now + SessionTTL]]
       /\ completed' = [completed EXCEPT ![c] = now + ChallengeTTL]
       /\ challenge' = [challenge EXCEPT ![ch] = DeletedChallenge(@)]

(* completeScript: a completion already marked answers 1 again; without the *)
(* lease it answers 0.  It looks at neither "active" nor the lease's age.   *)
CompleteScript(c, cmd) ==
    /\ <<c, cmd>> \in net
    /\ \/ /\ AlreadyCompleted(c)
          /\ Reply(c, cmd, "done", "identity")
          /\ UNCHANGED <<sessVars, challenge>>
       \/ /\ ~AlreadyCompleted(c)
          /\ ~HoldsLease(c)
          /\ Reply(c, cmd, "done", "ErrAuthentication")
          /\ UNCHANGED <<sessVars, challenge>>
       \/ /\ ~AlreadyCompleted(c)
          /\ HoldsLease(c)
          /\ StoreSession(c)
          /\ Reply(c, cmd, "done", "identity")
    /\ UNCHANGED <<now, activeKey, budgetVars, pgVars, request, writer>>

(* The caller's context or connection fails while it waits.  The first      *)
(* completion is retried once under a detached context; every other wait    *)
(* ends the call with an error.                                             *)
GiveUp(c) ==
    /\ \/ call[c].pc = "complete" /\ Send(c, "retry")
       \/ call[c].pc \in {"verify", "retry", "release", "reject"} /\ Finish(c, "error")
    /\ UNCHANGED <<now, redisVars, sessVars, budgetVars, pgVars, request, writer>>

(* The process running the call dies; commands it has sent may still run.   *)
Crash(c) ==
    /\ call[c].pc \in Waiting
    /\ call' = [call EXCEPT ![c] = [@ EXCEPT !.pc = "crashed", !.sent = 0]]
    /\ UNCHANGED <<now, redisVars, sessVars, budgetVars, pgVars, request, writer, net>>

-----------------------------------------------------------------------------
(* Sessions.  Credentials that do not match change nothing and have no      *)
(* action here.                                                             *)

Fresh(s) == now < session[s].expires /\ now < session[s].lastSeen + IdleTTL

Without(S) == [s \in Calls |-> IF s \in S /\ SessionExists(s)
                               THEN DeletedSession(session[s]) ELSE session[s]]

(* sessionScript: an expired or idle session is deleted (its index entry    *)
(* stays), a fresh one has its activity refreshed.                          *)
AuthenticateSession(s) ==
    /\ SessionExists(s)
    /\ session' = IF Fresh(s) THEN [session EXCEPT ![s].lastSeen = now] ELSE Without({s})
    /\ UNCHANGED <<now, redisVars, index, completed, budgetVars, pgVars, request, call,
                   writer, net>>

(* revokeScript *)
RevokeSession(s) ==
    LET e == session[s].email
    IN /\ SessionExists(s)
       /\ session' = Without({s})
       /\ index' = [index EXCEPT ![e].members = @ \ {s}]
       /\ UNCHANGED <<now, redisVars, completed, budgetVars, pgVars, request, call,
                      writer, net>>

(* revokeAllScript: the presented session must be fresh. *)
RevokeAllSessions(s) ==
    LET e == session[s].email
    IN /\ SessionExists(s)
       /\ IF Fresh(s)
          THEN /\ session' = Without(index[e].members)
               /\ index' = [index EXCEPT ![e].members = {}]
          ELSE /\ session' = Without({s})
               /\ UNCHANGED index
       /\ UNCHANGED <<now, redisVars, completed, budgetVars, pgVars, request, call,
                      writer, net>>

(* revokeIdentityScript, as the writer that will disable the identity runs  *)
(* it: before it commits the change.                                        *)
RevokeIdentitySessions(e) ==
    /\ identity[e] # None
    /\ session' = Without(index[e].members)
    /\ index' = [index EXCEPT ![e].members = {}]
    /\ writer' = [writer EXCEPT ![e] = "revoked"]
    /\ UNCHANGED <<now, redisVars, completed, budgetVars, pgVars, request, call, net>>

(* The writer's own transaction, outside this repository. *)
CommitDisable(e) ==
    /\ writer[e] = "revoked"
    /\ disabled' = [disabled EXCEPT ![e] = TRUE]
    /\ writer' = [writer EXCEPT ![e] = "idle"]
    /\ UNCHANGED <<now, redisVars, sessVars, budgetVars, identity, invitation, request,
                   call, net>>

(* Redis drops a key once the clock is past its expiry. *)
ExpireKeys(t) ==
    /\ challenge' = [ch \in Challenges |->
                       IF Exists(ch) /\ challenge[ch].until < t
                       THEN DeletedChallenge(challenge[ch]) ELSE challenge[ch]]
    /\ activeKey' = [e \in Emails |->
                       IF activeKey[e].until < t
                       THEN [id |-> None, until |-> 0] ELSE activeKey[e]]
    /\ session' = [s \in Calls |->
                     IF SessionExists(s) /\ session[s].expires < t
                     THEN DeletedSession(session[s]) ELSE session[s]]
    /\ index' = [e \in Emails |->
                   IF index[e].until < t
                   THEN [members |-> {}, until |-> 0] ELSE index[e]]
    /\ completed' = [c \in Calls |-> IF completed[c] < t THEN -1 ELSE completed[c]]

(* Redis time.  A caller waiting for a completion reply gives up within its *)
(* bound, so the clock does not pass it.  Budget entries that have left the *)
(* window are invisible to every script and are dropped here.               *)
Tick ==
    /\ now < MaxTime
    /\ \A c \in Calls : /\ call[c].pc = "complete" => now < call[c].sent + RpcTimeout
                        /\ call[c].pc = "retry" => now < call[c].sent + CleanupTimeout
    /\ now' = now + 1
    /\ ExpireKeys(now')
    /\ sendAddress' = [e \in Emails |-> {x \in sendAddress[e] : x[1] + Window > now'}]
    /\ sendSource' = [s \in Sources |-> {x \in sendSource[s] : x[1] + Window > now'}]
    /\ verifySource' = [s \in Sources |-> {x \in verifySource[s] : x[1] + Window > now'}]
    /\ verifyAddress' = [e \in Emails |-> {x \in verifyAddress[e] : x[1] + Window > now'}]
    /\ UNCHANGED <<pgVars, request, call,
                   writer, net>>

CallStep(c) ==
    \/ VerifyScript(c)
    \/ ResolveCommits(c)
    \/ ResolveRefuses(c)
    \/ ResolveFails(c)
    \/ ReleaseScript(c)
    \/ RejectScript(c)
    \/ \E cmd \in {"complete", "retry"} : CompleteScript(c, cmd)
    \/ GiveUp(c)

Requests ==
    \/ \E ch \in Challenges, e \in Emails, src \in Sources : Reserve(ch, e, src)
    \/ \E ch \in Challenges : SendMail(ch) \/ Invalidate(ch)

Guess(match) ==
    \E c \in Calls, ch \in Challenges, src \in Sources : BeginVerify(c, ch, match, src)

SessionSteps ==
    \/ \E s \in Calls :
          AuthenticateSession(s) \/ RevokeSession(s) \/ RevokeAllSessions(s)
    \/ \E e \in Emails : RevokeIdentitySessions(e) \/ CommitDisable(e)

SignIn ==
    \/ Requests
    \/ \E match \in BOOLEAN : Guess(match)
    \/ \E c \in Calls : CallStep(c)
    \/ Tick

Next ==
    \/ SignIn
    \/ \E c \in Calls : Crash(c)
    \/ SessionSteps

Spec == Init /\ [][Next]_vars

(* Part of the system, for instances too large for the whole of it: calls   *)
(* that are not interrupted, with right and wrong codes, and their sessions. *)
SessionNext ==
    \/ \E ch \in Challenges, e \in Emails, src \in Sources : Reserve(ch, e, src)
    \/ \E match \in BOOLEAN : Guess(match)
    \/ \E c \in Calls : VerifyScript(c) \/ ResolveCommits(c) \/ CompleteScript(c, "complete")
    \/ SessionSteps
    \/ Tick

SessionSpec == Init /\ [][SessionNext]_vars

-----------------------------------------------------------------------------
(* Properties                                                              *)

Created(c) == session[c].state # "none"

(* Only one call ever obtains a session from a challenge, however leases    *)
(* lapse, commands run late or twice, and callers crash (completeScript's   *)
(* lease check and its DEL of the challenge).                               *)
AtMostOneSession ==
    \A c, d \in Calls : Created(c) /\ Created(d) /\ call[c].ch = call[d].ch => c = d

(* What Verify answers is what happened: success only with the session      *)
(* stored, and a definite refusal (ErrAuthentication, ErrRateLimited) only  *)
(* when no session of that call exists, although the completion may have    *)
(* run, lost its reply and been retried (authredis.go, Verify).             *)
AnswerMatchesSession ==
    \A c \in Calls :
        /\ call[c].result = "identity" => Created(c)
        /\ call[c].result \in {"ErrAuthentication", "ErrRateLimited"} => ~Created(c)

(* Revocation by identity reaches every session: a session whose key exists *)
(* is in its identity's index, although index and sessions expire on their  *)
(* own and expired sessions leave index entries behind.                     *)
IndexCoversSessions ==
    \A s \in Calls : SessionExists(s) => s \in index[session[s].email].members

(* A resend replaces: per address at most one existing challenge is active, *)
(* although the pointer that finds the previous one expires by itself.      *)
OneActiveChallenge ==
    \A a, b \in Challenges :
        /\ Exists(a) /\ challenge[a].active
        /\ Exists(b) /\ challenge[b].active
        /\ challenge[a].email = challenge[b].email
        => a = b

(* The address and source budgets hold in the window that ends now, hence,  *)
(* in every state, in every rolling window: concurrent requests and guesses *)
(* of all replicas draw on one budget, and a resend buys no new guesses.    *)
(* Sends to one address are at least SendGap apart, however many race.      *)
BudgetsHold ==
    /\ \A e \in Emails :
          /\ Cardinality({x \in sendAddress[e] : now - x[1] < Window}) <= AddressSendLimit
          /\ Cardinality({x \in verifyAddress[e] : now - x[1] < Window}) <= AddressVerifyLimit
          /\ \A x, y \in sendAddress[e] :
                x[2] # y[2] => x[1] - y[1] >= SendGap \/ y[1] - x[1] >= SendGap
    /\ \A s \in Sources :
          /\ Cardinality({x \in sendSource[s] : now - x[1] < Window}) <= SourceSendLimit
          /\ Cardinality({x \in verifySource[s] : now - x[1] < Window}) <= SourceVerifyLimit

(* No challenge is guessed wrong more than ChallengeAttempts times, and an  *)
(* active one has attempts left, over duplicated and concurrent guesses.    *)
AttemptsBounded ==
    \A ch \in Challenges :
        /\ challenge[ch].attempts <= ChallengeAttempts
        /\ challenge[ch].active => challenge[ch].attempts < ChallengeAttempts

(* An identity exists only for an address whose code some call presented    *)
(* correctly, every session belongs to such an identity and to the address  *)
(* its challenge was mailed to, and an invitation is consumed exactly with  *)
(* the first login (verifyScript before ResolveVerified before complete).   *)
IdentityNeedsProof ==
    /\ \A e \in Emails : \A c \in Calls :
          identity[e] = c => call[c].match /\ challenge[call[c].ch].email = e
    /\ \A c \in Calls :
          Created(c) => /\ session[c].email = challenge[call[c].ch].email
                        /\ identity[session[c].email] # None
    /\ InvitationsRequired =>
          \A e \in Emails : identity[e] # None <=> invitation[e] = "used"

(* Identity disabling revokes all affected sessions: no usable session of a *)
(* disabled identity (docs/AUTH_CONTRACT.md, Sessions and HTTP integration).*)
DisabledHasNoSession ==
    \A s \in Calls :
        SessionExists(s) /\ Fresh(s) => ~disabled[session[s].email]

(* The contract of a code store, implemented: a code is open while its hash *)
(* exists and is active or leased, a session live while its hash exists and *)
(* is neither expired nor idle.                                             *)
Open(ch) == Exists(ch) /\ (challenge[ch].active \/ challenge[ch].lease # None)

Live(s) == SessionExists(s) /\ Fresh(s)

codes ==
    [ch \in Challenges |->
       IF challenge[ch].state = "none" THEN "unissued"
       ELSE IF Open(ch) THEN "open" ELSE "closed"]

sessions ==
    [s \in Calls |-> IF ~Created(s) THEN "none" ELSE IF Live(s) THEN "live" ELSE "ended"]

grants == [s \in Calls |-> IF Created(s) THEN call[s].ch ELSE None]

Contract == INSTANCE LoginContract WITH
    Sessions <- Calls, code <- codes, session <- sessions, grant <- grants

(* One-time redemption and no revival: codes open once and are redeemed at  *)
(* most once, a session begins only by redeeming an open code, and neither  *)
(* a closed code nor an ended session comes back.                           *)
ImplementsContract == Contract!Spec
=============================================================================
