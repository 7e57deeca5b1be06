-------------------------- MODULE AuthRedisProofs --------------------------
(* Proofs about AuthRedis, for any number of calls, codes and addresses.   *)
EXTENDS AuthRedis, FiniteSetTheorems, TLAPS

(* A call that has begun, or has a command in flight, names a challenge ID  *)
(* and a source.                                                            *)
Begun ==
    \A c \in Calls :
        call[c].pc # "idle" \/ (\E cmd \in Commands : <<c, cmd>> \in net)
        => call[c].pc # "idle" /\ call[c].ch \in Challenges /\ call[c].source \in Sources

TInv == TypeOK /\ Begun

USE SetsAssumption, TimesAssumption, LimitsAssumption

LEMMA InitTInv == Init => TInv
  BY DEF Init, TInv, TypeOK, Begun, ChallengeHash, SessionHash, IdentityIndex,
         VerifyCall, Waiting

LEMMA ChallengeRecord ==
    ASSUME NEW r \in ChallengeHash, NEW b \in BOOLEAN
    PROVE  [r EXCEPT !.active = @ /\ b] \in ChallengeHash
  BY DEF ChallengeHash

LEMMA ReserveTInv ==
    ASSUME TInv, NEW ch \in Challenges, NEW e \in Emails, NEW src \in Sources,
           Reserve(ch, e, src)
    PROVE  TInv'
  <1>1. FreshChallenge(e) \in ChallengeHash
    BY DEF TInv, TypeOK, FreshChallenge, ChallengeHash
  <1>2. Reserved(ch, e) \in [Challenges -> ChallengeHash]
    <2>1. challenge \in [Challenges -> ChallengeHash]
      BY DEF TInv, TypeOK
    <2> QED  BY <1>1, <2>1, ChallengeRecord DEF Reserved
  <1>3. activeKey' \in [Emails -> [id : Challenges \cup {None}, until : Nat]]
    BY DEF TInv, TypeOK, Reserve
  <1>4. /\ sendAddress' \in [Emails -> SUBSET (Nat \X Challenges)]
        /\ sendSource' \in [Sources -> SUBSET (Nat \X Challenges)]
    BY DEF TInv, TypeOK, Reserve
  <1>5. request' \in [Challenges -> {"unused", "sending", "invalidating", "done"}]
    BY DEF TInv, TypeOK, Reserve
  <1> QED
    BY <1>2, <1>3, <1>4, <1>5 DEF TInv, TypeOK, Begun, Reserve, sessVars, pgVars

LEMMA MailTInv ==
    ASSUME TInv, NEW ch \in Challenges, SendMail(ch) \/ Invalidate(ch)
    PROVE  TInv'
  <1>1. challenge' \in [Challenges -> ChallengeHash]
    <2>1. challenge \in [Challenges -> ChallengeHash]
      BY DEF TInv, TypeOK
    <2>2. [challenge[ch] EXCEPT !.active = @ /\ ~Exists(ch)] \in ChallengeHash
      BY <2>1, ChallengeRecord DEF Exists
    <2>3. \/ UNCHANGED challenge
          \/ challenge' = [challenge EXCEPT ![ch] = [challenge[ch] EXCEPT !.active = @ /\ ~Exists(ch)]]
      BY DEF SendMail, Invalidate, redisVars
    <2> QED  BY <2>1, <2>2, <2>3
  <1>2. request' \in [Challenges -> {"unused", "sending", "invalidating", "done"}]
    BY DEF TInv, TypeOK, SendMail, Invalidate
  <1> QED
    BY <1>1, <1>2 DEF TInv, TypeOK, Begun, SendMail, Invalidate, redisVars, sessVars,
                      budgetVars, pgVars

LEMMA BeginVerifyTInv ==
    ASSUME TInv, NEW c \in Calls, NEW ch \in Challenges, NEW match \in BOOLEAN,
           NEW src \in Sources, BeginVerify(c, ch, match, src)
    PROVE  TInv'
  <1>0. call \in [Calls -> VerifyCall]
    BY DEF TInv, TypeOK
  <1>1. call' \in [Calls -> VerifyCall]
    <2>1. [call[c] EXCEPT !.pc = "verify", !.ch = ch, !.match = match, !.source = src]
             \in VerifyCall
      BY <1>0, ZenonT(40) DEF VerifyCall, Waiting
    <2> QED  BY <1>0, <2>1 DEF BeginVerify
  <1>2. net' \in SUBSET (Calls \X Commands)
    BY DEF TInv, TypeOK, BeginVerify, Commands
  <1>3. Begun'
    <2>1. call'[c].pc # "idle" /\ call'[c].ch \in Challenges /\ call'[c].source \in Sources
      BY DEF TInv, TypeOK, BeginVerify, VerifyCall
    <2>2. \A d \in Calls : d # c => /\ call'[d] = call[d]
                                    /\ \A cmd : <<d, cmd>> \in net' => <<d, cmd>> \in net
      BY DEF TInv, TypeOK, BeginVerify
    <2> QED  BY <2>1, <2>2 DEF TInv, Begun
  <1> QED
    BY <1>1, <1>2, <1>3 DEF TInv, TypeOK, BeginVerify, redisVars, sessVars, budgetVars, pgVars

(* What a step of a call that has begun does to the callers: whatever it    *)
(* answers or sends, the call stays begun and keeps its inputs.             *)
CallMoves(c) ==
    /\ call' \in [Calls -> VerifyCall]
    /\ net' \in SUBSET (Calls \X Commands)
    /\ \A d \in Calls : /\ call'[d].ch = call[d].ch
                        /\ call'[d].source = call[d].source
                        /\ call'[d].match = call[d].match
                        /\ call'[d].pc = "idle" => call[d].pc = "idle"
                        /\ d # c => call'[d] = call[d]
    /\ \A d \in Calls : \A cmd : <<d, cmd>> \in net' => <<d, cmd>> \in net \/ d = c

LEMMA CallMovesBegun ==
    ASSUME TInv, NEW c \in Calls, call[c].pc # "idle", CallMoves(c)
    PROVE  Begun'
  BY DEF TInv, TypeOK, Begun, CallMoves

LEMMA ReplyMoves ==
    ASSUME TInv, NEW c \in Calls, NEW cmd \in Commands, <<c, cmd>> \in net,
           NEW pc \in {"done", "resolve"},
           NEW result \in Errors \cup {"none", "identity"},
           Reply(c, cmd, pc, result)
    PROVE  CallMoves(c) /\ call[c].pc # "idle" /\ call[c].ch \in Challenges
                        /\ call[c].source \in Sources
  <1>1. call[c].pc # "idle" /\ call[c].ch \in Challenges /\ call[c].source \in Sources
    BY DEF TInv, Begun
  <1>2. CASE call' = [call EXCEPT ![c] = [@ EXCEPT !.pc = pc, !.sent = 0, !.result = result]]
    <2>0. call[c] \in VerifyCall /\ pc \in Waiting \cup {"idle", "done", "crashed"} /\ pc # "idle"
          /\ call \in [Calls -> VerifyCall]
      BY DEF TInv, TypeOK, Waiting
    <2>a. [call[c] EXCEPT !.pc = pc, !.sent = 0, !.result = result] \in VerifyCall
      BY <2>0 DEF VerifyCall
    <2>1. call' \in [Calls -> VerifyCall]
      BY <1>2, <2>0, <2>a
    <2>2. \A d \in Calls : /\ call'[d].ch = call[d].ch
                           /\ call'[d].source = call[d].source
                           /\ call'[d].match = call[d].match
                           /\ call'[d].pc = "idle" => call[d].pc = "idle"
                           /\ d # c => call'[d] = call[d]
      BY <1>2, <2>0 DEF VerifyCall
    <2> QED  BY <1>1, <2>1, <2>2 DEF CallMoves, Reply, TInv, TypeOK
  <1>3. CASE UNCHANGED call
    BY <1>1, <1>3 DEF CallMoves, Reply, TInv, TypeOK
  <1> QED  BY <1>2, <1>3 DEF Reply

LEMMA SendMoves ==
    ASSUME TInv, NEW c \in Calls, NEW cmd \in Commands, call[c].pc # "idle",
           Send(c, cmd) \/ \E r \in Errors : Finish(c, r)
    PROVE  CallMoves(c)
  <1>1. CASE Send(c, cmd)
    <2>0. /\ call \in [Calls -> VerifyCall] /\ now \in Nat
          /\ cmd \in Waiting \cup {"done", "crashed"} /\ cmd # "idle"
      BY DEF TInv, TypeOK, Waiting, Commands
    <2>a. [call[c] EXCEPT !.pc = cmd, !.sent = now] \in VerifyCall
      BY <2>0, ZenonT(40) DEF VerifyCall
    <2>1. call' \in [Calls -> VerifyCall]
      BY <1>1, <2>0, <2>a DEF Send
    <2>2. \A d \in Calls : /\ call'[d].ch = call[d].ch
                           /\ call'[d].source = call[d].source
                           /\ call'[d].match = call[d].match
                           /\ call'[d].pc = "idle" => call[d].pc = "idle"
                           /\ d # c => call'[d] = call[d]
      BY <1>1, <2>0 DEF Send, VerifyCall
    <2> QED  BY <1>1, <2>1, <2>2 DEF CallMoves, Send, TInv, TypeOK
  <1>2. ASSUME NEW r \in Errors, Finish(c, r)  PROVE CallMoves(c)
    <2>0. /\ call \in [Calls -> VerifyCall] /\ net' = net
          /\ call' = [call EXCEPT ![c] = [@ EXCEPT !.pc = "done", !.sent = 0, !.result = r]]
      BY <1>2 DEF TInv, TypeOK, Finish
    <2>a. [call[c] EXCEPT !.pc = "done", !.sent = 0, !.result = r] \in VerifyCall
      BY <2>0, ZenonT(40) DEF VerifyCall
    <2>1. call' \in [Calls -> VerifyCall]
      BY <2>0, <2>a
    <2>2. \A d \in Calls : /\ call'[d].ch = call[d].ch
                           /\ call'[d].source = call[d].source
                           /\ call'[d].match = call[d].match
                           /\ call'[d].pc = "idle" => call[d].pc = "idle"
                           /\ d # c => call'[d] = call[d]
      BY <2>0 DEF VerifyCall
    <2> QED  BY <2>0, <2>1, <2>2 DEF CallMoves, TInv, TypeOK
  <1> QED  BY <1>1, <1>2

(* The hashes the scripts write. *)
LEMMA HashUpdates ==
    ASSUME NEW r \in ChallengeHash, NEW l \in Calls \cup {None}, NEW t \in Nat,
           NEW n \in Nat, NEW b \in BOOLEAN
    PROVE  /\ DeletedChallenge(r) \in ChallengeHash
           /\ [r EXCEPT !.lease = l, !.leaseUntil = t] \in ChallengeHash
           /\ [r EXCEPT !.active = FALSE, !.lease = l, !.leaseUntil = t] \in ChallengeHash
           /\ [r EXCEPT !.lease = l, !.leaseUntil = t, !.attempts = n, !.active = b]
                 \in ChallengeHash
  <1>1. DeletedChallenge(r) \in ChallengeHash
    BY DEF DeletedChallenge, ChallengeHash
  <1>2. [r EXCEPT !.lease = l, !.leaseUntil = t] \in ChallengeHash
    BY DEF ChallengeHash
  <1>3. [r EXCEPT !.active = FALSE, !.lease = l, !.leaseUntil = t] \in ChallengeHash
    BY DEF ChallengeHash
  <1>4. [r EXCEPT !.lease = l, !.leaseUntil = t, !.attempts = n, !.active = b]
           \in ChallengeHash
    BY DEF ChallengeHash
  <1> QED  BY <1>1, <1>2, <1>3, <1>4

LEMMA DeletedTypes ==
    /\ \A r \in ChallengeHash : DeletedChallenge(r) \in ChallengeHash
    /\ \A r \in SessionHash : DeletedSession(r) \in SessionHash
  <1>1. ASSUME NEW r \in ChallengeHash  PROVE DeletedChallenge(r) \in ChallengeHash
    BY DEF DeletedChallenge, ChallengeHash
  <1>2. ASSUME NEW r \in SessionHash  PROVE DeletedSession(r) \in SessionHash
    BY DEF DeletedSession, SessionHash
  <1> QED  BY <1>1, <1>2

LEMMA SessionUpdates ==
    ASSUME NEW r \in SessionHash, NEW t \in Nat
    PROVE  /\ DeletedSession(r) \in SessionHash
           /\ [r EXCEPT !.lastSeen = t] \in SessionHash
  BY DEF DeletedSession, SessionHash

LEMMA IndexUpdates ==
    ASSUME index \in [Emails -> IdentityIndex], NEW e, NEW M,
           e \in Emails => M \in SUBSET Calls
    PROVE  [index EXCEPT ![e].members = M] \in [Emails -> IdentityIndex]
  <1>1. ASSUME e \in Emails  PROVE [index[e] EXCEPT !.members = M] \in IdentityIndex
    BY <1>1 DEF IdentityIndex
  <1> QED  BY <1>1

LEMMA WithoutType ==
    ASSUME session \in [Calls -> SessionHash], NEW S
    PROVE  Without(S) \in [Calls -> SessionHash]
  BY SessionUpdates DEF Without

LEMMA VerifyTInv ==
    ASSUME TInv, NEW c \in Calls, VerifyScript(c)
    PROVE  TInv'
  <1> DEFINE ch == call[c].ch
             src == call[c].source
  <1>1. /\ call[c].pc # "idle" /\ ch \in Challenges /\ src \in Sources
        /\ now \in Nat /\ challenge \in [Challenges -> ChallengeHash]
        /\ verifySource \in [Sources -> SUBSET (Nat \X Calls)]
        /\ verifyAddress \in [Emails -> SUBSET (Nat \X Calls)]
    BY DEF TInv, TypeOK, Begun, VerifyScript, Commands
  <1>2. \E pc \in {"done", "resolve"}, r \in Errors \cup {"none", "identity"} :
           Reply(c, "verify", pc, r)
    BY DEF VerifyScript, Mismatch, Match, Errors
  <1>3. CallMoves(c)
    BY <1>2, ReplyMoves DEF VerifyScript, Commands
  <1>4. challenge' \in [Challenges -> ChallengeHash]
    <2>1. CASE Mismatch(c, ch)
      <3> DEFINE k == challenge[ch]
                 spent == Cardinality(Recent(verifyAddress[k.email], now)) >= AddressVerifyLimit
                 n == IF spent THEN k.attempts ELSE k.attempts + 1
                 b == spent \/ n < ChallengeAttempts
      <3>1. n \in Nat /\ b \in BOOLEAN
        BY <1>1 DEF ChallengeHash
      <3>2. challenge' = [challenge EXCEPT ![ch] =
               [k EXCEPT !.lease = None, !.leaseUntil = 0, !.attempts = n, !.active = b]]
        BY <2>1 DEF Mismatch
      <3> HIDE DEF n, b
      <3>3. [k EXCEPT !.lease = None, !.leaseUntil = 0, !.attempts = n, !.active = b]
               \in ChallengeHash
        <4>1. k \in ChallengeHash
          BY <1>1
        <4> HIDE DEF k
        <4> QED  BY <3>1, <4>1, HashUpdates
      <3> QED  BY <3>2, <3>3, <1>1
    <2>2. CASE Match(c, ch)
      <3> DEFINE k == challenge[ch]
      <3>0. k \in ChallengeHash /\ now + LeaseTTL \in Nat
        BY <1>1
      <3> HIDE DEF k
      <3>1. [k EXCEPT !.lease = c, !.leaseUntil = now + LeaseTTL] \in ChallengeHash
        BY <3>0, HashUpdates
      <3> USE DEF k
      <3> QED  BY <3>1, <2>2, <1>1 DEF Match
    <2>3. CASE UNCHANGED challenge
      BY <2>3, <1>1
    <2> QED  BY <2>1, <2>2, <2>3 DEF VerifyScript
  <1>5. /\ verifySource' \in [Sources -> SUBSET (Nat \X Calls)]
        /\ verifyAddress' \in [Emails -> SUBSET (Nat \X Calls)]
    <2>1. \/ verifySource' = verifySource
          \/ verifySource' = [verifySource EXCEPT ![src] = @ \cup {<<now, c>>}]
      BY DEF VerifyScript
    <2>2. \/ verifyAddress' = verifyAddress
          \/ verifyAddress' = [verifyAddress EXCEPT ![challenge[ch].email] = @ \cup {<<now, c>>}]
      BY DEF VerifyScript, Mismatch, Match
    <2>3. <<now, c>> \in Nat \X Calls
      BY <1>1
    <2>4. verifySource' \in [Sources -> SUBSET (Nat \X Calls)]
      BY <1>1, <2>1, <2>3
    <2> QED BY <1>1, <2>2, <2>3, <2>4
  <1>6. Begun'
    BY <1>1, <1>3, CallMovesBegun
  <1> QED
    BY <1>3, <1>4, <1>5, <1>6 DEF TInv, TypeOK, VerifyScript, CallMoves, sessVars, pgVars

LEMMA ResolveTInv ==
    ASSUME TInv, NEW c \in Calls,
           ResolveCommits(c) \/ ResolveRefuses(c) \/ ResolveFails(c)
    PROVE  TInv'
  <1>1. call[c].pc # "idle"
    BY DEF ResolveCommits, ResolveRefuses, ResolveFails
  <1>2. \E cmd \in Commands : Send(c, cmd)
    BY DEF ResolveCommits, ResolveRefuses, ResolveFails, Commands
  <1>3. CallMoves(c)
    BY <1>1, <1>2, SendMoves
  <1>4. /\ identity' \in [Emails -> Calls \cup {None}]
        /\ invitation' \in [Emails -> {"none", "open", "used"}]
        /\ disabled' = disabled
    BY DEF TInv, TypeOK, ResolveCommits, ResolveRefuses, ResolveFails, Resolved, pgVars
  <1>5. Begun'
    BY <1>1, <1>3, CallMovesBegun
  <1> QED
    BY <1>3, <1>4, <1>5 DEF TInv, TypeOK, CallMoves, ResolveCommits, ResolveRefuses,
                            ResolveFails, redisVars, sessVars, budgetVars

LEMMA LeaseEndTInv ==
    ASSUME TInv, NEW c \in Calls, ReleaseScript(c) \/ RejectScript(c)
    PROVE  TInv'
  <1> DEFINE ch == call[c].ch
             k == challenge[ch]
  <1>1. \E cmd \in Commands : <<c, cmd>> \in net
    BY DEF ReleaseScript, RejectScript, Commands
  <1>2. \E cmd \in Commands, r \in Errors : <<c, cmd>> \in net /\ Reply(c, cmd, "done", r)
    BY DEF ReleaseScript, RejectScript, Commands, Errors
  <1>3. CallMoves(c) /\ call[c].pc # "idle" /\ ch \in Challenges
    BY <1>2, ReplyMoves
  <1>4. k \in ChallengeHash /\ challenge \in [Challenges -> ChallengeHash]
    BY <1>3 DEF TInv, TypeOK
  <1>5. /\ [k EXCEPT !.lease = None, !.leaseUntil = 0] \in ChallengeHash
        /\ [k EXCEPT !.active = FALSE, !.lease = None, !.leaseUntil = 0] \in ChallengeHash
    <2> HIDE DEF k
    <2> QED  BY <1>4, HashUpdates
  <1>6. challenge' \in [Challenges -> ChallengeHash]
    BY <1>4, <1>5 DEF ReleaseScript, RejectScript
  <1>7. Begun'
    BY <1>3, CallMovesBegun
  <1> QED
    BY <1>3, <1>6, <1>7 DEF TInv, TypeOK, CallMoves, ReleaseScript, RejectScript,
                            sessVars, budgetVars, pgVars

LEMMA StoreTypes ==
    ASSUME TInv, NEW c \in Calls, call[c].ch \in Challenges, StoreSession(c)
    PROVE  /\ challenge' \in [Challenges -> ChallengeHash]
           /\ session' \in [Calls -> SessionHash]
           /\ index' \in [Emails -> IdentityIndex]
           /\ completed' \in [Calls -> Nat \cup {-1}]
  <1> DEFINE ch == call[c].ch
             k == challenge[ch]
  <1>1. /\ k \in ChallengeHash /\ challenge \in [Challenges -> ChallengeHash]
        /\ now \in Nat /\ session \in [Calls -> SessionHash]
        /\ index \in [Emails -> IdentityIndex]
        /\ completed \in [Calls -> Nat \cup {-1}]
    BY DEF TInv, TypeOK
  <1>2. challenge' \in [Challenges -> ChallengeHash]
    <2>1. DeletedChallenge(k) \in ChallengeHash
      <3> HIDE DEF k
      <3> QED  BY <1>1, HashUpdates
    <2> QED  BY <1>1, <2>1 DEF StoreSession
  <1>3. session' \in [Calls -> SessionHash]
    <2>1. k.email \in Emails \cup {None}
      BY <1>1 DEF ChallengeHash
    <2>2. [state |-> "stored", email |-> k.email, lastSeen |-> now,
           expires |-> now + SessionTTL] \in SessionHash
      BY <1>1, <2>1 DEF SessionHash
    <2> QED  BY <1>1, <2>2 DEF StoreSession
  <1>4. index' \in [Emails -> IdentityIndex]
    <2> DEFINE e == k.email
               w == [members |-> index[e].members \cup {c}, until |-> now + SessionTTL]
    <2>1. index' = [index EXCEPT ![e] = w]
      BY DEF StoreSession
    <2>2. e \in Emails => w \in IdentityIndex
      BY <1>1 DEF IdentityIndex
    <2> HIDE DEF e, w
    <2> QED  BY <1>1, <2>1, <2>2
  <1>5. completed' \in [Calls -> Nat \cup {-1}]
    BY <1>1 DEF StoreSession
  <1> QED  BY <1>2, <1>3, <1>4, <1>5

LEMMA CompleteTInv ==
    ASSUME TInv, NEW c \in Calls, NEW cmd \in {"complete", "retry"}, CompleteScript(c, cmd)
    PROVE  TInv'
  <1>1. \E r \in Errors \cup {"none", "identity"} : Reply(c, cmd, "done", r)
    BY DEF CompleteScript, Errors
  <1>2. CallMoves(c) /\ call[c].pc # "idle" /\ call[c].ch \in Challenges
    <2>1. cmd \in Commands /\ <<c, cmd>> \in net /\ "done" \in {"done", "resolve"}
      BY DEF CompleteScript, Commands
    <2> QED  BY <1>1, <2>1, ReplyMoves
  <1>3. /\ challenge' \in [Challenges -> ChallengeHash]
        /\ session' \in [Calls -> SessionHash]
        /\ index' \in [Emails -> IdentityIndex]
        /\ completed' \in [Calls -> Nat \cup {-1}]
    <2>1. CASE StoreSession(c)
      BY <1>2, <2>1, StoreTypes
    <2>2. CASE UNCHANGED <<sessVars, challenge>>
      BY <2>2 DEF TInv, TypeOK, sessVars
    <2> QED  BY <2>1, <2>2 DEF CompleteScript
  <1>4. Begun'
    BY <1>2, CallMovesBegun
  <1> QED
    BY <1>2, <1>3, <1>4 DEF TInv, TypeOK, CallMoves, CompleteScript, budgetVars, pgVars

LEMMA GiveUpTInv ==
    ASSUME TInv, NEW c \in Calls, GiveUp(c)
    PROVE  TInv'
  <1>1. call[c].pc # "idle"
    BY DEF GiveUp
  <1>2. CallMoves(c)
    BY <1>1, SendMoves DEF GiveUp, Commands, Errors
  <1>3. Begun'
    BY <1>1, <1>2, CallMovesBegun
  <1> QED
    BY <1>2, <1>3 DEF TInv, TypeOK, CallMoves, GiveUp, redisVars, sessVars, budgetVars, pgVars

LEMMA CrashTInv ==
    ASSUME TInv, NEW c \in Calls, Crash(c)
    PROVE  TInv'
  <1>0. /\ call \in [Calls -> VerifyCall] /\ call[c] \in VerifyCall /\ call[c].pc # "idle"
        /\ call' = [call EXCEPT ![c] = [@ EXCEPT !.pc = "crashed", !.sent = 0]]
    BY DEF TInv, TypeOK, Crash, Waiting
  <1>1. [call[c] EXCEPT !.pc = "crashed", !.sent = 0] \in VerifyCall
    BY <1>0 DEF VerifyCall
  <1>2. \A d \in Calls : /\ call'[d].ch = call[d].ch
                         /\ call'[d].source = call[d].source
                         /\ call'[d].match = call[d].match
                         /\ call'[d].pc = "idle" => call[d].pc = "idle"
                         /\ d # c => call'[d] = call[d]
    BY <1>0 DEF VerifyCall
  <1>3. CallMoves(c)
    BY <1>0, <1>1, <1>2 DEF CallMoves, Crash, TInv, TypeOK
  <1>4. Begun'
    BY <1>0, <1>3, CallMovesBegun
  <1> QED
    BY <1>3, <1>4 DEF TInv, TypeOK, CallMoves, Crash, redisVars, sessVars, budgetVars, pgVars

LEMMA SessionTInv ==
    ASSUME TInv,
           \/ \E s \in Calls :
                 AuthenticateSession(s) \/ RevokeSession(s) \/ RevokeAllSessions(s)
           \/ \E e \in Emails : RevokeIdentitySessions(e) \/ CommitDisable(e)
    PROVE  TInv'
  <1>1. /\ session \in [Calls -> SessionHash] /\ now \in Nat
        /\ \A S : Without(S) \in [Calls -> SessionHash]
    BY WithoutType DEF TInv, TypeOK
  <1>2. ASSUME NEW s \in Calls
        PROVE  [session EXCEPT ![s].lastSeen = now] \in [Calls -> SessionHash]
    <2> DEFINE k == session[s]
    <2>1. k \in SessionHash
      BY <1>1
    <2>2. [k EXCEPT !.lastSeen = now] \in SessionHash
      <3> HIDE DEF k
      <3> QED  BY <1>1, <2>1, SessionUpdates
    <2> QED  BY <1>1, <2>2
  <1>3. session' \in [Calls -> SessionHash] /\ index' \in [Emails -> IdentityIndex]
    <2>0. index \in [Emails -> IdentityIndex]
      BY DEF TInv, TypeOK
    <2>1. ASSUME NEW s \in Calls, AuthenticateSession(s)
          PROVE  session' \in [Calls -> SessionHash] /\ index' = index
      BY <1>1, <1>2, <2>1 DEF AuthenticateSession
    <2>2. ASSUME NEW s \in Calls, RevokeSession(s)
          PROVE  session' \in [Calls -> SessionHash] /\ index' \in [Emails -> IdentityIndex]
      <3> DEFINE e == session[s].email
      <3>1. e \in Emails => index[e].members \ {s} \in SUBSET Calls
        BY <2>0 DEF IdentityIndex
      <3>2. index' = [index EXCEPT ![e].members = index[e].members \ {s}]
        BY <2>2 DEF RevokeSession
      <3> HIDE DEF e
      <3>3. index' \in [Emails -> IdentityIndex]
        BY <2>0, <3>1, <3>2, IndexUpdates
      <3> QED  BY <1>1, <2>2, <3>3 DEF RevokeSession
    <2>a. \A e : [index EXCEPT ![e].members = {}] \in [Emails -> IdentityIndex]
      BY <2>0, IndexUpdates
    <2>3. ASSUME NEW s \in Calls, RevokeAllSessions(s)
          PROVE  session' \in [Calls -> SessionHash] /\ index' \in [Emails -> IdentityIndex]
      BY <1>1, <2>0, <2>a, <2>3 DEF RevokeAllSessions
    <2>4. ASSUME NEW e \in Emails, RevokeIdentitySessions(e)
          PROVE  session' \in [Calls -> SessionHash] /\ index' \in [Emails -> IdentityIndex]
      BY <1>1, <2>a, <2>4 DEF RevokeIdentitySessions
    <2>5. ASSUME NEW e \in Emails, CommitDisable(e)
          PROVE  session' = session /\ index' = index
      BY <2>5 DEF CommitDisable, sessVars
    <2> QED  BY <1>1, <2>0, <2>1, <2>2, <2>3, <2>4, <2>5
  <1>5. /\ writer' \in [Emails -> {"idle", "revoked"}]
        /\ disabled' \in [Emails -> BOOLEAN]
    BY DEF TInv, TypeOK, AuthenticateSession, RevokeSession, RevokeAllSessions,
           RevokeIdentitySessions, CommitDisable, pgVars
  <1>6. UNCHANGED <<now, challenge, activeKey, completed, sendAddress, sendSource,
                    verifySource, verifyAddress, identity, invitation, request, call, net>>
    BY DEF AuthenticateSession, RevokeSession, RevokeAllSessions, RevokeIdentitySessions,
           CommitDisable, redisVars, sessVars, budgetVars, pgVars
  <1> QED
    BY <1>3, <1>5, <1>6 DEF TInv, TypeOK, Begun

LEMMA TickTInv ==
    ASSUME TInv, Tick
    PROVE  TInv'
  <1>1. now' \in Nat
    BY DEF TInv, TypeOK, Tick
  <1>2. challenge' \in [Challenges -> ChallengeHash]
    BY DeletedTypes DEF TInv, TypeOK, Tick, ExpireKeys
  <1>3. session' \in [Calls -> SessionHash]
    BY DeletedTypes DEF TInv, TypeOK, Tick, ExpireKeys
  <1>4. /\ activeKey' \in [Emails -> [id : Challenges \cup {None}, until : Nat]]
        /\ index' \in [Emails -> IdentityIndex]
        /\ completed' \in [Calls -> Nat \cup {-1}]
    BY DEF TInv, TypeOK, IdentityIndex, Tick, ExpireKeys
  <1>5. /\ sendAddress' \in [Emails -> SUBSET (Nat \X Challenges)]
        /\ sendSource' \in [Sources -> SUBSET (Nat \X Challenges)]
        /\ verifySource' \in [Sources -> SUBSET (Nat \X Calls)]
        /\ verifyAddress' \in [Emails -> SUBSET (Nat \X Calls)]
    BY DEF TInv, TypeOK, Tick
  <1> QED
    BY <1>1, <1>2, <1>3, <1>4, <1>5 DEF TInv, TypeOK, Begun, Tick, pgVars

LEMMA NextTInv == TInv /\ [Next]_vars => TInv'
  <1> SUFFICES ASSUME TInv, [Next]_vars  PROVE TInv'
    OBVIOUS
  <1>1. CASE UNCHANGED vars
    BY <1>1 DEF TInv, TypeOK, Begun, vars
  <1>2. CASE Requests
    BY <1>2, ReserveTInv, MailTInv DEF Requests
  <1>3. CASE \E match \in BOOLEAN : Guess(match)
    BY <1>3, BeginVerifyTInv DEF Guess
  <1>4. ASSUME NEW c \in Calls, CallStep(c)  PROVE TInv'
    BY <1>4, VerifyTInv, ResolveTInv, LeaseEndTInv, CompleteTInv, GiveUpTInv DEF CallStep
  <1>5. CASE Tick
    BY <1>5, TickTInv
  <1>6. ASSUME NEW c \in Calls, Crash(c)  PROVE TInv'
    BY <1>6, CrashTInv
  <1>7. CASE SessionSteps
    BY <1>7, SessionTInv DEF SessionSteps
  <1> QED
    BY <1>1, <1>2, <1>3, <1>4, <1>5, <1>6, <1>7 DEF Next, SignIn

(* Every key, row and caller holds a value of its kind in every behaviour   *)
(* of the store (authredis.Store with authpg.Store), crashes, late and      *)
(* repeated commands included.                                              *)
THEOREM TypeCorrect == Spec => []TypeOK
  <1>1. Spec => []TInv
    BY InitTInv, NextTInv, PTL DEF Spec
  <1>2. TInv => TypeOK
    BY DEF TInv
  <1> QED  BY <1>1, <1>2, PTL

-----------------------------------------------------------------------------
(* One session per challenge.                                              *)

(* AtMostOneSession is not inductive: it needs that a redeemed challenge is *)
(* gone, and that the ID of a gone challenge is not reserved again.         *)
OneGrant ==
    /\ \A ch \in Challenges : challenge[ch].state # "none" => request[ch] # "unused"
    /\ \A c \in Calls : Created(c) => /\ call[c].pc # "idle"
                                      /\ challenge[call[c].ch].state = "gone"
    /\ AtMostOneSession

(* What every step but the first completion of a call does. *)
Quiet ==
    /\ \A c \in Calls : session'[c].state = "none" <=> session[c].state = "none"
    /\ \A c \in Calls : call[c].pc # "idle" => /\ call'[c].pc # "idle"
                                               /\ call'[c].ch = call[c].ch
    /\ \A ch \in Challenges :
          /\ challenge[ch].state = "gone" => challenge'[ch].state = "gone"
          /\ challenge'[ch].state # "none" => challenge[ch].state # "none"
                                              \/ request'[ch] # "unused"
          /\ request[ch] # "unused" => request'[ch] # "unused"

LEMMA QuietKeepsGrant ==
    ASSUME TInv, OneGrant, Quiet
    PROVE  OneGrant'
  <1>1. \A c \in Calls : Created(c) => call[c].ch \in Challenges
    BY DEF TInv, Begun, OneGrant
  <1> QED  BY <1>1 DEF OneGrant, Quiet, Created, AtMostOneSession

(* Steps that leave the sessions, and the state of every challenge, alone. *)
LEMMA CallMovesQuiet ==
    ASSUME TInv, NEW c \in Calls, CallMoves(c), UNCHANGED <<session, request>>,
           \A ch \in Challenges : challenge'[ch].state = challenge[ch].state
    PROVE  Quiet
  BY DEF TInv, TypeOK, CallMoves, Quiet

LEMMA HashStates ==
    /\ \A r \in ChallengeHash : DeletedChallenge(r).state = "gone"
    /\ \A r \in SessionHash : DeletedSession(r).state = "gone"
  BY DEF DeletedChallenge, DeletedSession, ChallengeHash, SessionHash

LEMMA StateKept ==
    ASSUME challenge \in [Challenges -> ChallengeHash], NEW ch, NEW w,
           ch \in Challenges => w.state = challenge[ch].state,
           challenge' = [challenge EXCEPT ![ch] = w]
    PROVE  \A d \in Challenges : challenge'[d].state = challenge[d].state
  OBVIOUS

LEMMA RequestQuiet ==
    ASSUME TInv, OneGrant, Requests
    PROVE  Quiet
  <1>0. challenge \in [Challenges -> ChallengeHash]
        /\ request \in [Challenges -> {"unused", "sending", "invalidating", "done"}]
    BY DEF TInv, TypeOK
  <1>1. ASSUME NEW ch \in Challenges, NEW e \in Emails, NEW src \in Sources,
               Reserve(ch, e, src)
        PROVE  Quiet
    <2>1. \A d \in Challenges : d # ch => challenge'[d].state = challenge[d].state
      BY <1>0, <1>1 DEF Reserve, Reserved, ChallengeHash
    <2>2. challenge[ch].state = "none" /\ request'[ch] # "unused"
      BY <1>0, <1>1 DEF Reserve, OneGrant
    <2>3. \A d \in Challenges : d # ch => request'[d] = request[d]
      BY <1>0, <1>1 DEF Reserve
    <2> QED  BY <1>1, <2>1, <2>2, <2>3 DEF Quiet, Reserve, sessVars
  <1>2. ASSUME NEW ch \in Challenges, SendMail(ch) \/ Invalidate(ch)
        PROVE  Quiet
    <2>1. \A d \in Challenges : challenge'[d].state = challenge[d].state
      BY <1>0, <1>2 DEF SendMail, Invalidate, redisVars, ChallengeHash
    <2>2. \A d \in Challenges : request[d] # "unused" => request'[d] # "unused"
      BY <1>0, <1>2 DEF SendMail, Invalidate
    <2> QED  BY <1>2, <2>1, <2>2 DEF Quiet, SendMail, Invalidate, sessVars
  <1> QED  BY <1>1, <1>2 DEF Requests

LEMMA VerifyQuiet ==
    ASSUME TInv, NEW c \in Calls, VerifyScript(c)
    PROVE  Quiet
  <1>1. \E pc \in {"done", "resolve"}, r \in Errors \cup {"none", "identity"} :
           Reply(c, "verify", pc, r)
    BY DEF VerifyScript, Mismatch, Match, Errors
  <1>2. CallMoves(c)
    BY <1>1, ReplyMoves DEF VerifyScript, Commands
  <1>3. \A d \in Challenges : challenge'[d].state = challenge[d].state
    <2> DEFINE ch == call[c].ch
               k == challenge[ch]
    <2>0. challenge \in [Challenges -> ChallengeHash]
      BY DEF TInv, TypeOK
    <2>1. ch \in Challenges => k \in ChallengeHash
      BY <2>0
    <2>2. ASSUME Match(c, ch)
          PROVE  \E w : /\ ch \in Challenges => w.state = k.state
                       /\ challenge' = [challenge EXCEPT ![ch] = w]
      <3> DEFINE w == [k EXCEPT !.lease = c, !.leaseUntil = now + LeaseTTL]
      <3>1. challenge' = [challenge EXCEPT ![ch] = w]
        BY <2>2 DEF Match
      <3>2. ch \in Challenges => w.state = k.state
        BY <2>1 DEF ChallengeHash
      <3> HIDE DEF w
      <3> QED  BY <3>1, <3>2
    <2>3. ASSUME Mismatch(c, ch)
          PROVE  \E w : /\ ch \in Challenges => w.state = k.state
                       /\ challenge' = [challenge EXCEPT ![ch] = w]
      <3> DEFINE spent == Cardinality(Recent(verifyAddress[k.email], now)) >= AddressVerifyLimit
                 n == IF spent THEN k.attempts ELSE k.attempts + 1
                 b == spent \/ n < ChallengeAttempts
                 w == [k EXCEPT !.lease = None, !.leaseUntil = 0, !.attempts = n, !.active = b]
      <3>1. challenge' = [challenge EXCEPT ![ch] = w]
        BY <2>3 DEF Mismatch
      <3> HIDE DEF n, b
      <3>2. ch \in Challenges => w.state = k.state
        BY <2>1 DEF ChallengeHash
      <3> HIDE DEF w
      <3> QED  BY <3>1, <3>2
    <2>4. \/ UNCHANGED challenge
          \/ \E w : /\ ch \in Challenges => w.state = k.state
                    /\ challenge' = [challenge EXCEPT ![ch] = w]
      BY <2>2, <2>3 DEF VerifyScript
    <2> HIDE DEF k, ch
    <2> QED  BY <2>0, <2>4, StateKept DEF k
  <1> QED  BY <1>2, <1>3, CallMovesQuiet DEF VerifyScript, sessVars

LEMMA LeaseEndQuiet ==
    ASSUME TInv, NEW c \in Calls, ReleaseScript(c) \/ RejectScript(c)
    PROVE  Quiet
  <1>1. \E cmd \in Commands, r \in Errors : <<c, cmd>> \in net /\ Reply(c, cmd, "done", r)
    BY DEF ReleaseScript, RejectScript, Commands, Errors
  <1>2. CallMoves(c)
    BY <1>1, ReplyMoves
  <1>3. \A d \in Challenges : challenge'[d].state = challenge[d].state
    <2> DEFINE ch == call[c].ch
               k == challenge[ch]
    <2>0. challenge \in [Challenges -> ChallengeHash]
      BY DEF TInv, TypeOK
    <2>1. k \in ChallengeHash =>
             /\ [k EXCEPT !.lease = None, !.leaseUntil = 0].state = k.state
             /\ [k EXCEPT !.active = FALSE, !.lease = None, !.leaseUntil = 0].state = k.state
      BY DEF ChallengeHash
    <2>2. \/ UNCHANGED challenge
          \/ challenge' = [challenge EXCEPT ![ch] = [k EXCEPT !.lease = None, !.leaseUntil = 0]]
          \/ challenge' = [challenge EXCEPT ![ch] =
                             [k EXCEPT !.active = FALSE, !.lease = None, !.leaseUntil = 0]]
      BY DEF ReleaseScript, RejectScript
    <2>3. ch \in Challenges => k \in ChallengeHash
      BY <2>0
    <2> HIDE DEF k, ch
    <2>4. \/ UNCHANGED challenge
          \/ \E w : /\ ch \in Challenges => w.state = k.state
                    /\ challenge' = [challenge EXCEPT ![ch] = w]
      BY <2>1, <2>2, <2>3
    <2> QED  BY <2>0, <2>4, StateKept DEF k
  <1> QED  BY <1>2, <1>3, CallMovesQuiet DEF ReleaseScript, RejectScript, sessVars

LEMMA CallerQuiet ==
    ASSUME TInv, NEW c \in Calls,
           \/ ResolveCommits(c) \/ ResolveRefuses(c) \/ ResolveFails(c)
           \/ GiveUp(c) \/ Crash(c)
    PROVE  Quiet
  <1>1. CASE ~Crash(c)
    <2>1. call[c].pc # "idle"
      BY <1>1 DEF ResolveCommits, ResolveRefuses, ResolveFails, GiveUp
    <2>2. (\E cmd \in Commands : Send(c, cmd)) \/ (\E r \in Errors : Finish(c, r))
      BY <1>1 DEF ResolveCommits, ResolveRefuses, ResolveFails, GiveUp, Commands, Errors
    <2>a. "verify" \in Commands
      BY DEF Commands
    <2>3. CallMoves(c)
      BY <2>1, <2>2, <2>a, SendMoves
    <2> QED
      BY <1>1, <2>3, CallMovesQuiet DEF ResolveCommits, ResolveRefuses, ResolveFails, GiveUp,
                                        redisVars, sessVars
  <1>2. CASE Crash(c)
    BY <1>2 DEF TInv, TypeOK, VerifyCall, Quiet, Crash, redisVars, sessVars
  <1> QED  BY <1>1, <1>2

LEMMA CompleteGrant ==
    ASSUME TInv, OneGrant, NEW c \in Calls, NEW cmd \in {"complete", "retry"},
           CompleteScript(c, cmd)
    PROVE  OneGrant'
  <1>1. \E r \in Errors \cup {"none", "identity"} : Reply(c, cmd, "done", r)
    BY DEF CompleteScript, Errors
  <1>2. CallMoves(c) /\ call[c].pc # "idle" /\ call[c].ch \in Challenges
    <2>1. cmd \in Commands /\ <<c, cmd>> \in net /\ "done" \in {"done", "resolve"}
      BY DEF CompleteScript, Commands
    <2> QED  BY <1>1, <2>1, ReplyMoves
  <1>3. CASE UNCHANGED <<sessVars, challenge>>
    <2>1. Quiet
      BY <1>2, <1>3, CallMovesQuiet DEF CompleteScript, sessVars
    <2> QED  BY <2>1, QuietKeepsGrant
  <1>4. CASE HoldsLease(c) /\ StoreSession(c)
    <2> DEFINE ch == call[c].ch
    <2>1. challenge[ch].state = "stored" /\ ch \in Challenges
      BY <1>2, <1>4 DEF HoldsLease, Exists
    <2>2. /\ challenge'[ch].state = "gone"
          /\ \A d \in Challenges : d # ch => challenge'[d] = challenge[d]
      BY <1>4, <2>1 DEF TInv, TypeOK, ChallengeHash, StoreSession, DeletedChallenge
    <2>3. \A d \in Calls : d # c => session'[d] = session[d]
      BY <1>4 DEF TInv, TypeOK, StoreSession
    <2>4. \A d \in Calls : Created(d) => call[d].ch # ch /\ call[d].ch \in Challenges
      BY <2>1 DEF OneGrant, TInv, Begun
    <2>5. /\ \A d \in Calls : call'[d].ch = call[d].ch
          /\ \A d \in Calls : call'[d].pc = "idle" => call[d].pc = "idle"
          /\ request' = request
      BY <1>2 DEF CallMoves, CompleteScript
    <2>6. \A x \in Challenges : challenge'[x].state # "none" => request'[x] # "unused"
      BY <2>1, <2>2, <2>5 DEF OneGrant
    <2>7. \A d \in Calls : Created(d)' => d = c \/ Created(d)
      BY <2>3 DEF Created
    <2>8. \A d \in Calls : Created(d)' => call'[d].pc # "idle"
                                          /\ challenge'[call'[d].ch].state = "gone"
      BY <1>2, <2>2, <2>4, <2>5, <2>7 DEF OneGrant
    <2>9. AtMostOneSession'
      BY <2>4, <2>5, <2>7 DEF OneGrant, AtMostOneSession
    <2> QED  BY <2>6, <2>8, <2>9 DEF OneGrant
  <1> QED  BY <1>3, <1>4 DEF CompleteScript

LEMMA SessionQuiet ==
    ASSUME TInv, SessionSteps
    PROVE  Quiet
  <1>0. session \in [Calls -> SessionHash]
    BY DEF TInv, TypeOK
  <1>1. \A S : \A d \in Calls : Without(S)[d].state = "none" <=> session[d].state = "none"
    BY <1>0 DEF Without, SessionExists, DeletedSession, SessionHash
  <1>2. \A s \in Calls : \A d \in Calls :
           [session EXCEPT ![s].lastSeen = now][d].state = session[d].state
    BY <1>0 DEF SessionHash
  <1>3. \/ UNCHANGED session
        \/ \E S : session' = Without(S)
        \/ \E s \in Calls : session' = [session EXCEPT ![s].lastSeen = now]
    <2>1. ASSUME NEW s \in Calls, AuthenticateSession(s)
          PROVE  \/ session' = Without({s})
                 \/ session' = [session EXCEPT ![s].lastSeen = now]
      BY <2>1 DEF AuthenticateSession
    <2>2. ASSUME NEW s \in Calls, RevokeSession(s) \/ RevokeAllSessions(s)
          PROVE  \E S : session' = Without(S)
      BY <2>2 DEF RevokeSession, RevokeAllSessions
    <2>3. ASSUME NEW e \in Emails, RevokeIdentitySessions(e)
          PROVE  \E S : session' = Without(S)
      BY <2>3 DEF RevokeIdentitySessions
    <2>4. ASSUME NEW e \in Emails, CommitDisable(e)
          PROVE  UNCHANGED session
      BY <2>4 DEF CommitDisable, sessVars
    <2> QED  BY <2>1, <2>2, <2>3, <2>4 DEF SessionSteps
  <1>4. \A d \in Calls : session'[d].state = "none" <=> session[d].state = "none"
    <2>1. CASE \E S : session' = Without(S)
      BY <1>1, <2>1
    <2>2. CASE \E s \in Calls : session' = [session EXCEPT ![s].lastSeen = now]
      <3> PICK s \in Calls : session' = [session EXCEPT ![s].lastSeen = now]
        BY <2>2
      <3> QED  BY <1>2
    <2> QED  BY <1>3, <2>1, <2>2
  <1>5. UNCHANGED <<challenge, call, request>>
    BY DEF SessionSteps, AuthenticateSession, RevokeSession, RevokeAllSessions,
           RevokeIdentitySessions, CommitDisable, redisVars
  <1> QED  BY <1>4, <1>5 DEF Quiet

LEMMA TickQuiet ==
    ASSUME TInv, Tick
    PROVE  Quiet
  <1>1. \A d \in Calls : session'[d].state = "none" <=> session[d].state = "none"
    <2>1. \A d \in Calls : /\ session[d] \in SessionHash
                           /\ \/ session'[d] = session[d]
                              \/ session[d].state = "stored"
                                 /\ session'[d] = DeletedSession(session[d])
      BY DEF TInv, TypeOK, Tick, ExpireKeys, SessionExists
    <2> QED  BY <2>1, HashStates
  <1>2. \A ch \in Challenges :
           /\ challenge[ch].state = "gone" => challenge'[ch].state = "gone"
           /\ challenge'[ch].state # "none" => challenge[ch].state # "none"
    <2>1. \A ch \in Challenges : /\ challenge[ch] \in ChallengeHash
                                 /\ \/ challenge'[ch] = challenge[ch]
                                    \/ challenge[ch].state = "stored"
                                       /\ challenge'[ch] = DeletedChallenge(challenge[ch])
      BY DEF TInv, TypeOK, Tick, ExpireKeys, Exists
    <2> QED  BY <2>1, HashStates
  <1>3. UNCHANGED <<call, request>>
    BY DEF Tick
  <1> QED  BY <1>1, <1>2, <1>3 DEF Quiet

LEMMA NextOneGrant == TInv /\ OneGrant /\ [Next]_vars => OneGrant'
  <1> SUFFICES ASSUME TInv, OneGrant, [Next]_vars  PROVE OneGrant'
    OBVIOUS
  <1>1. CASE UNCHANGED vars
    BY <1>1 DEF OneGrant, AtMostOneSession, Created, vars
  <1>2. CASE Requests
    BY <1>2, RequestQuiet, QuietKeepsGrant
  <1>3. CASE \E match \in BOOLEAN : Guess(match)
    <2>1. Quiet
      BY <1>3 DEF TInv, TypeOK, Guess, BeginVerify, Quiet, redisVars, sessVars
    <2> QED  BY <2>1, QuietKeepsGrant
  <1>4. ASSUME NEW c \in Calls, CallStep(c)  PROVE OneGrant'
    <2>1. CASE \E cmd \in {"complete", "retry"} : CompleteScript(c, cmd)
      BY <2>1, CompleteGrant
    <2>2. CASE ~\E cmd \in {"complete", "retry"} : CompleteScript(c, cmd)
      <3>1. Quiet
        BY <1>4, <2>2, VerifyQuiet, LeaseEndQuiet, CallerQuiet DEF CallStep
      <3> QED  BY <3>1, QuietKeepsGrant
    <2> QED  BY <2>1, <2>2
  <1>5. CASE Tick
    BY <1>5, TickQuiet, QuietKeepsGrant
  <1>6. ASSUME NEW c \in Calls, Crash(c)  PROVE OneGrant'
    BY <1>6, CallerQuiet, QuietKeepsGrant
  <1>7. CASE SessionSteps
    BY <1>7, SessionQuiet, QuietKeepsGrant
  <1> QED
    BY <1>1, <1>2, <1>3, <1>4, <1>5, <1>6, <1>7 DEF Next, SignIn

(* A code is redeemed at most once: of all calls that present one challenge *)
(* (Store.Verify), on however many replicas, with lapsed leases, repeated   *)
(* completions and crashes, at most one ever obtains a session.             *)
THEOREM RedeemedOnce == Spec => []AtMostOneSession
  <1>1. Init => OneGrant
    BY DEF Init, OneGrant, Created, AtMostOneSession
  <1>2. Spec => []TInv
    BY InitTInv, NextTInv, PTL DEF Spec
  <1>3. OneGrant => AtMostOneSession
    BY DEF OneGrant
  <1> QED  BY <1>1, <1>2, <1>3, NextOneGrant, PTL DEF Spec

-----------------------------------------------------------------------------
(* What a step does to a challenge hash.                                   *)

(* Only the verify script of a call that presents this challenge's own code *)
(* gives it a lease.                                                        *)
Acquires(c, ch) ==
    c \in Calls /\ <<c, "verify">> \in net /\ call[c].ch = ch /\ call[c].match

(* A stored hash may go; otherwise it keeps its address and expiry, is not  *)
(* activated again, and an attempt or a lease is taken only while active.   *)
Kept(k, r, ch) ==
    /\ r.state = k.state /\ r.email = k.email /\ r.until = k.until
    /\ r.active => k.active
    /\ \/ r.attempts = k.attempts
       \/ /\ k.active
          /\ r.attempts = k.attempts + 1
          /\ r.active => r.attempts < ChallengeAttempts
    /\ \/ r.lease \in {None, k.lease}
       \/ k.state = "stored" /\ k.active /\ Acquires(r.lease, ch)

HashMoves(ch) ==
    \/ challenge[ch].state = "stored" /\ challenge'[ch] = DeletedChallenge(challenge[ch])
    \/ Kept(challenge[ch], challenge'[ch], ch)

Opened(ch) ==
    challenge[ch].state = "none" /\ \E e \in Emails : challenge'[ch] = FreshChallenge(e)

HashesMove == \A ch \in Challenges : HashMoves(ch)

ChallengeStep == \A ch \in Challenges : HashMoves(ch) \/ Opened(ch)

LEMMA SameHash ==
    ASSUME TInv, NEW ch \in Challenges, challenge'[ch] = challenge[ch]
    PROVE  HashMoves(ch)
  BY DEF HashMoves, Kept

LEMMA ReserveHashes ==
    ASSUME TInv, OneGrant, NEW ch \in Challenges, NEW e \in Emails, NEW src \in Sources,
           Reserve(ch, e, src)
    PROVE  /\ ChallengeStep
           /\ challenge[ch].state = "none"
           /\ challenge'[ch] = FreshChallenge(e)
           /\ \A d \in Challenges \ {ch} :
                 /\ Kept(challenge[d], challenge'[d], d)
                 /\ activeKey[e].id = d /\ Exists(d) => ~challenge'[d].active
  <1>0. challenge \in [Challenges -> ChallengeHash]
    BY DEF TInv, TypeOK
  <1>1. challenge[ch].state = "none" /\ challenge'[ch] = FreshChallenge(e)
    BY <1>0 DEF Reserve, Reserved, OneGrant
  <1>2. ASSUME NEW d \in Challenges \ {ch}
        PROVE  /\ Kept(challenge[d], challenge'[d], d)
               /\ activeKey[e].id = d /\ Exists(d) => ~challenge'[d].active
    <2> DEFINE replaced == activeKey[e].id # None /\ Exists(activeKey[e].id)
               b == ~(replaced /\ d = activeKey[e].id)
               k == challenge[d]
    <2>1. challenge'[d] = [k EXCEPT !.active = @ /\ b]
      BY <1>0 DEF Reserve, Reserved
    <2>2. k \in ChallengeHash /\ b \in BOOLEAN
      BY <1>0
    <2>3. activeKey[e].id = d /\ Exists(d) => ~b
      <3>1. activeKey[e].id \in Challenges \cup {None} /\ None \notin Challenges
        BY DEF TInv, TypeOK
      <3> QED  BY <3>1
    <2> HIDE DEF k, b
    <2>4. LET r == [k EXCEPT !.active = @ /\ b]
          IN Kept(k, r, d) /\ (r.active => b)
      BY <2>2 DEF Kept, ChallengeHash
    <2>5. Kept(k, challenge'[d], d) /\ (challenge'[d].active => b)
      BY <2>1, <2>4
    <2> QED  BY <2>3, <2>5 DEF k
  <1>3. ChallengeStep
    BY <1>1, <1>2 DEF ChallengeStep, HashMoves, Opened
  <1> QED  BY <1>1, <1>2, <1>3

LEMMA InvalidateHashes ==
    ASSUME TInv, NEW ch \in Challenges, Invalidate(ch)
    PROVE  HashesMove
  <1> DEFINE k == challenge[ch]
             b == ~Exists(ch)
             w == [k EXCEPT !.active = @ /\ b]
  <1>0. challenge \in [Challenges -> ChallengeHash] /\ k \in ChallengeHash /\ b \in BOOLEAN
    BY DEF TInv, TypeOK
  <1>1. UNCHANGED challenge \/ challenge' = [challenge EXCEPT ![ch] = w]
    BY DEF Invalidate
  <1>2. Kept(k, w, ch)
    <2> HIDE DEF k, b
    <2> QED  BY <1>0 DEF Kept, ChallengeHash
  <1> HIDE DEF w
  <1>3. \A d \in Challenges : challenge'[d] = challenge[d] \/ (d = ch /\ challenge'[ch] = w)
    BY <1>0, <1>1
  <1> QED  BY <1>2, <1>3, SameHash DEF HashesMove, HashMoves

LEMMA VerifyHashes ==
    ASSUME TInv, NEW c \in Calls, VerifyScript(c)
    PROVE  HashesMove
  <1> DEFINE ch == call[c].ch
             k == challenge[ch]
  <1>0. challenge \in [Challenges -> ChallengeHash] /\ ch \in Challenges /\ k \in ChallengeHash
        /\ <<c, "verify">> \in net /\ now \in Nat
    BY DEF TInv, TypeOK, Begun, VerifyScript, Commands
  <1>1. ASSUME call[c].match, Redeemable(ch), Match(c, ch)
        PROVE  \E w : challenge' = [challenge EXCEPT ![ch] = w] /\ Kept(k, w, ch)
    <2> DEFINE w == [k EXCEPT !.lease = c, !.leaseUntil = now + LeaseTTL]
    <2>1. challenge' = [challenge EXCEPT ![ch] = w]
      BY <1>1 DEF Match
    <2>2. k.state = "stored" /\ k.active /\ Acquires(c, ch)
      BY <1>0, <1>1 DEF Redeemable, Exists, Acquires
    <2>3. Kept(k, w, ch)
      <3> HIDE DEF k, ch
      <3>1. w.lease = c /\ w.state = k.state /\ w.email = k.email /\ w.until = k.until
            /\ w.active = k.active /\ w.attempts = k.attempts
        BY <1>0 DEF ChallengeHash
      <3> HIDE DEF w
      <3> QED  BY <2>2, <3>1 DEF Kept
    <2> HIDE DEF w
    <2> QED  BY <2>1, <2>3
  <1>2. ASSUME Redeemable(ch), Mismatch(c, ch)
        PROVE  \E w : challenge' = [challenge EXCEPT ![ch] = w] /\ Kept(k, w, ch)
    <2> DEFINE spent == Cardinality(Recent(verifyAddress[k.email], now)) >= AddressVerifyLimit
               n == IF spent THEN k.attempts ELSE k.attempts + 1
               b == spent \/ n < ChallengeAttempts
               w == [k EXCEPT !.lease = None, !.leaseUntil = 0, !.attempts = n, !.active = b]
    <2>1. challenge' = [challenge EXCEPT ![ch] = w]
      BY <1>2 DEF Mismatch
    <2>2. k.active
      BY <1>2 DEF Redeemable
    <2>3. n = k.attempts \/ (n = k.attempts + 1 /\ (b => n < ChallengeAttempts))
      OBVIOUS
    <2> HIDE DEF n, b
    <2>4. Kept(k, w, ch)
      <3> HIDE DEF k, ch
      <3>1. w.lease = None /\ w.state = k.state /\ w.email = k.email /\ w.until = k.until
            /\ w.active = b /\ w.attempts = n
        BY <1>0 DEF ChallengeHash
      <3> HIDE DEF w
      <3> QED  BY <2>2, <2>3, <3>1 DEF Kept
    <2> HIDE DEF w
    <2> QED  BY <2>1, <2>4
  <1>3. \/ UNCHANGED challenge
        \/ \E w : challenge' = [challenge EXCEPT ![ch] = w] /\ Kept(k, w, ch)
    BY <1>1, <1>2 DEF VerifyScript
  <1>4. CASE UNCHANGED challenge
    BY <1>4, SameHash DEF HashesMove
  <1>5. CASE \E w : challenge' = [challenge EXCEPT ![ch] = w] /\ Kept(k, w, ch)
    <2> PICK w : challenge' = [challenge EXCEPT ![ch] = w] /\ Kept(k, w, ch)
      BY <1>5
    <2>1. \A d \in Challenges : challenge'[d] = challenge[d] \/ (d = ch /\ challenge'[ch] = w)
      BY <1>0
    <2> QED  BY <2>1, SameHash DEF HashesMove, HashMoves
  <1> QED  BY <1>3, <1>4, <1>5

LEMMA LeaseEndHashes ==
    ASSUME TInv, NEW c \in Calls, ReleaseScript(c) \/ RejectScript(c)
    PROVE  HashesMove
  <1> DEFINE ch == call[c].ch
             k == challenge[ch]
             v == [k EXCEPT !.lease = None, !.leaseUntil = 0]
             w == [k EXCEPT !.active = FALSE, !.lease = None, !.leaseUntil = 0]
  <1>0. challenge \in [Challenges -> ChallengeHash] /\ ch \in Challenges /\ k \in ChallengeHash
    BY DEF TInv, TypeOK, Begun, ReleaseScript, RejectScript, Commands
  <1>1. \/ UNCHANGED challenge
        \/ challenge' = [challenge EXCEPT ![ch] = v]
        \/ challenge' = [challenge EXCEPT ![ch] = w]
    BY DEF ReleaseScript, RejectScript
  <1>2. Kept(k, v, ch) /\ Kept(k, w, ch)
    <2> HIDE DEF k, ch
    <2> QED  BY <1>0 DEF Kept, ChallengeHash
  <1> HIDE DEF v, w
  <1>3. \A d \in Challenges : \/ challenge'[d] = challenge[d]
                              \/ d = ch /\ challenge'[ch] \in {v, w}
    BY <1>0, <1>1
  <1> QED  BY <1>2, <1>3, SameHash DEF HashesMove, HashMoves

LEMMA StoreHashes ==
    ASSUME TInv, NEW c \in Calls, call[c].ch \in Challenges, HoldsLease(c), StoreSession(c)
    PROVE  /\ HashesMove
           /\ challenge'[call[c].ch] = DeletedChallenge(challenge[call[c].ch])
           /\ \A d \in Challenges : d # call[c].ch => challenge'[d] = challenge[d]
  <1>1. /\ challenge'[call[c].ch] = DeletedChallenge(challenge[call[c].ch])
        /\ \A d \in Challenges : d # call[c].ch => challenge'[d] = challenge[d]
    BY DEF TInv, TypeOK, StoreSession
  <1> QED  BY <1>1, SameHash DEF HashesMove, HashMoves, HoldsLease, Exists

LEMMA TickHashes ==
    ASSUME TInv, Tick
    PROVE  /\ HashesMove
           /\ \A ch \in Challenges :
                 \/ Exists(ch) /\ challenge'[ch] = DeletedChallenge(challenge[ch])
                 \/ challenge'[ch] = challenge[ch]
                    /\ (Exists(ch) => challenge[ch].until >= now + 1)
  <1>1. \A ch \in Challenges :
           \/ Exists(ch) /\ challenge'[ch] = DeletedChallenge(challenge[ch])
           \/ challenge'[ch] = challenge[ch] /\ (Exists(ch) => challenge[ch].until >= now + 1)
    <2>1. /\ now \in Nat /\ now' = now + 1
          /\ \A ch \in Challenges : challenge[ch].until \in Nat
      BY DEF TInv, TypeOK, ChallengeHash, Tick
    <2>2. challenge' = [ch \in Challenges |->
                          IF Exists(ch) /\ challenge[ch].until < now'
                          THEN DeletedChallenge(challenge[ch]) ELSE challenge[ch]]
      BY DEF Tick, ExpireKeys
    <2> QED  BY <2>1, <2>2
  <1> QED  BY <1>1, SameHash DEF HashesMove, HashMoves, Exists

(* The steps that touch the callers and the rows alone. *)
Aside(c) ==
    \/ ResolveCommits(c) \/ ResolveRefuses(c) \/ ResolveFails(c)
    \/ GiveUp(c) \/ Crash(c)

LEMMA AsideHashes ==
    ASSUME NEW c \in Calls, Aside(c)
    PROVE  UNCHANGED <<now, challenge, activeKey, session, index, completed, sendAddress,
                       sendSource, verifySource, verifyAddress, disabled, request, writer>>
  <1>1. CASE ResolveCommits(c)
    BY <1>1 DEF ResolveCommits, Resolved, redisVars, sessVars, budgetVars
  <1>2. CASE ResolveRefuses(c)
    BY <1>2 DEF ResolveRefuses, redisVars, sessVars, budgetVars, pgVars
  <1>3. CASE ResolveFails(c)
    BY <1>3 DEF ResolveFails, Resolved, redisVars, sessVars, budgetVars, pgVars
  <1>4. CASE GiveUp(c) \/ Crash(c)
    BY <1>4 DEF GiveUp, Crash, redisVars, sessVars, budgetVars, pgVars
  <1> QED  BY <1>1, <1>2, <1>3, <1>4 DEF Aside

Reserves == \E ch \in Challenges, e \in Emails, src \in Sources : Reserve(ch, e, src)

LEMMA HashSteps == TInv /\ Next => Reserves \/ HashesMove
  <1> SUFFICES ASSUME TInv, Next, ~Reserves  PROVE HashesMove
    OBVIOUS
  <1>1. ASSUME UNCHANGED challenge  PROVE HashesMove
    BY <1>1, SameHash DEF HashesMove
  <1>2. CASE Requests
    <2>1. ASSUME NEW ch \in Challenges, SendMail(ch)  PROVE HashesMove
      BY <1>1, <2>1 DEF SendMail, redisVars
    <2> QED  BY <1>2, <2>1, InvalidateHashes DEF Requests, Reserves
  <1>3. CASE \E match \in BOOLEAN : Guess(match)
    BY <1>1, <1>3 DEF Guess, BeginVerify, redisVars
  <1>4. ASSUME NEW c \in Calls, CallStep(c) \/ Crash(c)  PROVE HashesMove
    <2>1. ASSUME NEW cmd \in {"complete", "retry"}, CompleteScript(c, cmd)
          PROVE  HashesMove
      <3>1. call[c].ch \in Challenges
        BY <2>1 DEF TInv, Begun, CompleteScript, Commands
      <3> QED  BY <1>1, <2>1, <3>1, StoreHashes DEF CompleteScript
    <2>2. ASSUME Aside(c)  PROVE HashesMove
      BY <1>1, <2>2, AsideHashes
    <2> QED  BY <1>4, <2>1, <2>2, VerifyHashes, LeaseEndHashes DEF CallStep, Aside
  <1>5. CASE Tick
    BY <1>5, TickHashes
  <1>6. CASE SessionSteps
    BY <1>1, <1>6 DEF SessionSteps, AuthenticateSession, RevokeSession, RevokeAllSessions,
                      RevokeIdentitySessions, CommitDisable, redisVars
  <1> QED  BY <1>2, <1>3, <1>4, <1>5, <1>6 DEF Next, SignIn

LEMMA ChallengeSteps == TInv /\ OneGrant /\ Next => ChallengeStep
  <1> SUFFICES ASSUME TInv, OneGrant, Next  PROVE ChallengeStep
    OBVIOUS
  <1>1. HashesMove => ChallengeStep
    BY DEF HashesMove, ChallengeStep
  <1>2. CASE Reserves
    BY <1>2, ReserveHashes DEF Reserves
  <1> QED  BY <1>1, <1>2, HashSteps

-----------------------------------------------------------------------------
(* Attempts, the active pointer and leases.                                *)

(* A call that has begun keeps its inputs. *)
InputsKept ==
    \A c \in Calls : call[c].pc # "idle" => /\ call'[c].pc # "idle"
                                            /\ call'[c].ch = call[c].ch
                                            /\ call'[c].match = call[c].match

LEMMA CallMovesInputs ==
    ASSUME TInv, NEW c \in Calls, CallMoves(c)
    PROVE  InputsKept
  BY DEF CallMoves, InputsKept

LEMMA AsideMoves ==
    ASSUME TInv, NEW c \in Calls, Aside(c)
    PROVE  CallMoves(c)
  <1>1. CASE ~Crash(c)
    <2>1. call[c].pc # "idle"
      BY <1>1 DEF Aside, ResolveCommits, ResolveRefuses, ResolveFails, GiveUp
    <2>2. (\E cmd \in Commands : Send(c, cmd)) \/ (\E r \in Errors : Finish(c, r))
      BY <1>1 DEF Aside, ResolveCommits, ResolveRefuses, ResolveFails, GiveUp, Commands, Errors
    <2>3. "verify" \in Commands
      BY DEF Commands
    <2> QED  BY <2>1, <2>2, <2>3, SendMoves
  <1>2. CASE Crash(c)
    <2>0. /\ call \in [Calls -> VerifyCall] /\ net' = net
          /\ call' = [call EXCEPT ![c] = [@ EXCEPT !.pc = "crashed", !.sent = 0]]
      BY <1>2 DEF TInv, TypeOK, Crash
    <2>a. [call[c] EXCEPT !.pc = "crashed", !.sent = 0] \in VerifyCall
      BY <2>0 DEF VerifyCall
    <2>1. call' \in [Calls -> VerifyCall]
      BY <2>0, <2>a
    <2>2. \A d \in Calls : /\ call'[d].ch = call[d].ch
                           /\ call'[d].source = call[d].source
                           /\ call'[d].match = call[d].match
                           /\ call'[d].pc = "idle" => call[d].pc = "idle"
                           /\ d # c => call'[d] = call[d]
      BY <2>0 DEF VerifyCall
    <2> QED  BY <2>0, <2>1, <2>2 DEF CallMoves, TInv, TypeOK
  <1> QED  BY <1>1, <1>2

LEMMA ScriptMoves ==
    ASSUME TInv, NEW c \in Calls,
           \/ VerifyScript(c) \/ ReleaseScript(c) \/ RejectScript(c)
           \/ \E cmd \in {"complete", "retry"} : CompleteScript(c, cmd)
    PROVE  CallMoves(c) /\ call[c].pc # "idle" /\ call[c].ch \in Challenges
                        /\ call[c].source \in Sources
  <1>1. \E cmd \in Commands, pc \in {"done", "resolve"}, r \in Errors \cup {"none", "identity"} :
           <<c, cmd>> \in net /\ Reply(c, cmd, pc, r)
    <2>1. CASE VerifyScript(c)
      BY <2>1 DEF VerifyScript, Mismatch, Match, Errors, Commands
    <2>2. CASE ReleaseScript(c) \/ RejectScript(c)
      BY <2>2 DEF ReleaseScript, RejectScript, Errors, Commands
    <2>3. CASE \E cmd \in {"complete", "retry"} : CompleteScript(c, cmd)
      BY <2>3 DEF CompleteScript, Errors, Commands
    <2> QED  BY <2>1, <2>2, <2>3
  <1> QED  BY <1>1, ReplyMoves

LEMMA InputSteps == TInv /\ Next => InputsKept
  <1> SUFFICES ASSUME TInv, Next  PROVE InputsKept
    OBVIOUS
  <1>1. CASE \E match \in BOOLEAN : Guess(match)
    BY <1>1 DEF TInv, TypeOK, Guess, BeginVerify, InputsKept
  <1>2. ASSUME NEW c \in Calls, CallStep(c) \/ Crash(c)  PROVE InputsKept
    BY <1>2, ScriptMoves, AsideMoves, CallMovesInputs DEF CallStep, Aside
  <1>3. CASE Requests \/ Tick \/ SessionSteps
    <2>1. UNCHANGED call
      BY <1>3 DEF Requests, Reserve, SendMail, Invalidate, Tick, SessionSteps,
                  AuthenticateSession, RevokeSession, RevokeAllSessions,
                  RevokeIdentitySessions, CommitDisable
    <2> QED  BY <2>1 DEF InputsKept
  <1> QED  BY <1>1, <1>2, <1>3 DEF Next, SignIn

(* A challenge that is not stored is neither active nor leased; once stored *)
(* it has an address for good; an active one has attempts left, is the one  *)
(* its address's pointer names and expires no later than the pointer; and   *)
(* the holder of its lease presented this challenge's own code.             *)
Pointed(ch) ==
    challenge[ch].active => /\ activeKey[challenge[ch].email].id = ch
                            /\ challenge[ch].until <= activeKey[challenge[ch].email].until

Sound(ch) ==
    LET k == challenge[ch]
    IN /\ k.state # "stored" => ~k.active /\ k.lease = None
       /\ k.state = "none" => k.email = None
       /\ k.state # "none" => k.email \in Emails
       /\ k.attempts <= ChallengeAttempts
       /\ k.active => k.attempts < ChallengeAttempts
       /\ k.lease # None => /\ call[k.lease].pc # "idle"
                            /\ call[k.lease].match
                            /\ call[k.lease].ch = ch

ChallengesSound == \A ch \in Challenges : Sound(ch) /\ Pointed(ch)

LEMMA DeletedFields ==
    ASSUME NEW k \in ChallengeHash
    PROVE  LET r == DeletedChallenge(k)
           IN r.state = "gone" /\ r.email = k.email /\ r.active = FALSE /\ r.attempts = 0
              /\ r.lease = None
  BY DEF DeletedChallenge, ChallengeHash

LEMMA FreshFields ==
    ASSUME NEW e
    PROVE  LET r == FreshChallenge(e)
           IN r.state = "stored" /\ r.email = e /\ r.active = TRUE /\ r.attempts = 0
              /\ r.lease = None /\ r.until = now + ChallengeTTL
  BY DEF FreshChallenge

LEMMA SoundKept ==
    ASSUME TInv, ChallengeStep, InputsKept, NEW ch \in Challenges, Sound(ch)
    PROVE  Sound(ch)'
  <1> DEFINE k == challenge[ch]
             r == challenge'[ch]
  <1>0. /\ k \in ChallengeHash /\ ChallengeAttempts \in Nat \ {0}
        /\ k.attempts \in Nat /\ k.lease \in Calls \cup {None}
    BY DEF TInv, TypeOK, ChallengeHash
  <1>1. CASE k.state = "stored" /\ r = DeletedChallenge(k)
    <2>1. r.state = "gone" /\ r.email = k.email /\ ~r.active /\ r.attempts = 0 /\ r.lease = None
      BY <1>0, <1>1, DeletedFields
    <2> QED  BY <1>0, <1>1, <2>1 DEF Sound
  <1>2. CASE Opened(ch)
    <2>1. /\ r.state = "stored" /\ r.email \in Emails /\ r.active /\ r.attempts = 0
          /\ r.lease = None
      <3> PICK e \in Emails : r = FreshChallenge(e)
        BY <1>2 DEF Opened
      <3> QED  BY DEF FreshChallenge
    <2> QED  BY <1>0, <2>1 DEF Sound
  <1>3. CASE Kept(k, r, ch)
    <2>1. /\ r.state # "stored" => ~r.active /\ r.lease = None
          /\ r.state = "none" => r.email = None
          /\ r.state # "none" => r.email \in Emails
      BY <1>3 DEF Kept, Sound
    <2>2. r.attempts <= ChallengeAttempts /\ (r.active => r.attempts < ChallengeAttempts)
      BY <1>0, <1>3 DEF Kept, Sound
    <2>3. r.lease # None => /\ call'[r.lease].pc # "idle"
                            /\ call'[r.lease].match
                            /\ call'[r.lease].ch = ch
      <3>1. CASE r.lease \in {None, k.lease}
        BY <1>0, <3>1 DEF Sound, InputsKept
      <3>2. CASE Acquires(r.lease, ch)
        <4>1. call[r.lease].pc # "idle"
          BY <3>2 DEF Acquires, TInv, Begun, Commands
        <4> QED  BY <3>2, <4>1 DEF Acquires, InputsKept
      <3> QED  BY <1>3, <3>1, <3>2 DEF Kept
    <2> QED  BY <2>1, <2>2, <2>3 DEF Sound
  <1> QED  BY <1>1, <1>2, <1>3 DEF ChallengeStep, HashMoves

LEMMA PointedKept ==
    ASSUME TInv, UNCHANGED activeKey, NEW ch \in Challenges, HashMoves(ch), Pointed(ch)
    PROVE  Pointed(ch)'
  <1>0. challenge[ch] \in ChallengeHash
    BY DEF TInv, TypeOK
  <1> QED  BY <1>0, DeletedFields DEF HashMoves, Kept, Pointed

LEMMA ReservePointed ==
    ASSUME TInv, OneGrant, ChallengesSound,
           NEW ch \in Challenges, NEW e \in Emails, NEW src \in Sources, Reserve(ch, e, src)
    PROVE  \A d \in Challenges : Pointed(d)'
  <1>1. /\ activeKey'[e] = [id |-> ch, until |-> now + ChallengeTTL]
        /\ \A x \in Emails : x # e => activeKey'[x] = activeKey[x]
    BY DEF TInv, TypeOK, Reserve
  <1>2. Pointed(ch)'
    <2>1. challenge'[ch] = FreshChallenge(e) /\ now + ChallengeTTL \in Nat
      BY ReserveHashes DEF TInv, TypeOK
    <2>2. challenge'[ch].email = e /\ challenge'[ch].until = now + ChallengeTTL
      BY <2>1, FreshFields
    <2> QED  BY <1>1, <2>1, <2>2 DEF Pointed
  <1>3. ASSUME NEW d \in Challenges \ {ch}, challenge'[d].active
        PROVE  Pointed(d)'
    <2>1. /\ Kept(challenge[d], challenge'[d], d)
          /\ activeKey[e].id = d /\ Exists(d) => ~challenge'[d].active
      BY ReserveHashes
    <2>2. /\ challenge[d].active /\ challenge'[d].email = challenge[d].email
          /\ challenge'[d].until = challenge[d].until
      BY <1>3, <2>1 DEF Kept
    <2>3. Exists(d) /\ challenge[d].email \in Emails
      BY <2>2 DEF ChallengesSound, Sound, Exists
    <2>4. activeKey[challenge[d].email].id = d
      BY <2>2 DEF ChallengesSound, Pointed
    <2>5. challenge[d].email # e
      BY <1>3, <2>1, <2>3, <2>4
    <2> QED  BY <1>1, <2>2, <2>3, <2>5 DEF ChallengesSound, Pointed
  <1> QED  BY <1>2, <1>3 DEF Pointed

LEMMA TickPointed ==
    ASSUME TInv, ChallengesSound, Tick
    PROVE  \A d \in Challenges : Pointed(d)'
  <1> SUFFICES ASSUME NEW d \in Challenges, challenge'[d].active  PROVE Pointed(d)'
    BY DEF Pointed
  <1> DEFINE e == challenge[d].email
  <1>0. challenge[d] \in ChallengeHash /\ now \in Nat
    BY DEF TInv, TypeOK
  <1>1. /\ challenge'[d] = challenge[d]
        /\ Exists(d) => challenge[d].until >= now + 1
    BY <1>0, TickHashes, DeletedFields
  <1>2. Exists(d) /\ e \in Emails
    BY <1>1 DEF ChallengesSound, Sound, Exists
  <1>3. activeKey[e].id = d /\ challenge[d].until <= activeKey[e].until
    BY <1>1 DEF ChallengesSound, Pointed
  <1>4. activeKey'[e] = activeKey[e]
    <2>1. activeKey[e].until \in Nat /\ challenge[d].until \in Nat
      BY <1>2 DEF TInv, TypeOK, ChallengeHash
    <2>2. ~(activeKey[e].until < now + 1)
      BY <1>0, <1>1, <1>2, <1>3, <2>1
    <2> QED  BY <1>2, <2>2 DEF TInv, TypeOK, Tick, ExpireKeys
  <1> QED  BY <1>1, <1>3, <1>4 DEF Pointed

LEMMA NextSound == TInv /\ OneGrant /\ ChallengesSound /\ [Next]_vars => ChallengesSound'
  <1> SUFFICES ASSUME TInv, OneGrant, ChallengesSound, [Next]_vars  PROVE ChallengesSound'
    OBVIOUS
  <1>1. CASE UNCHANGED vars
    BY <1>1 DEF ChallengesSound, Sound, Pointed, vars
  <1>2. CASE Next
    <2>1. ChallengeStep /\ InputsKept
      BY <1>2, ChallengeSteps, InputSteps
    <2>2. \A ch \in Challenges : Sound(ch)'
      BY <2>1, SoundKept DEF ChallengesSound
    <2>3. \A ch \in Challenges : Pointed(ch)'
      <3>1. CASE Reserves
        BY <3>1, ReservePointed DEF Reserves
      <3>2. CASE Tick
        BY <3>2, TickPointed
      <3>3. CASE ~Reserves /\ ~Tick
        <4>1. UNCHANGED activeKey
          BY <1>2, <3>3, AsideHashes
             DEF Next, SignIn, Requests, Reserves, SendMail, Invalidate, Guess, BeginVerify,
                 CallStep, VerifyScript, ReleaseScript, RejectScript, CompleteScript, Aside,
                 SessionSteps, AuthenticateSession, RevokeSession, RevokeAllSessions,
                 RevokeIdentitySessions, CommitDisable, redisVars
        <4>2. HashesMove
          BY <1>2, <3>3, HashSteps
        <4> QED  BY <4>1, <4>2, PointedKept DEF HashesMove, ChallengesSound
      <3> QED  BY <3>1, <3>2, <3>3
    <2> QED  BY <2>2, <2>3 DEF ChallengesSound
  <1> QED  BY <1>1, <1>2

LEMMA SoundAlways == Spec => [](TInv /\ OneGrant /\ ChallengesSound)
  <1>1. Init => TInv /\ OneGrant /\ ChallengesSound
    <2>1. Init => OneGrant
      BY DEF Init, OneGrant, Created, AtMostOneSession
    <2>2. Init => ChallengesSound
      BY DEF Init, ChallengesSound, Sound, Pointed
    <2> QED  BY <2>1, <2>2, InitTInv
  <1> QED  BY <1>1, NextTInv, NextOneGrant, NextSound, PTL DEF Spec

(* A resend replaces the code before it: although the pointer by which      *)
(* reserveScript finds the previous challenge expires by itself, an address *)
(* never has two active challenges.                                         *)
THEOREM ResendReplaces == Spec => []OneActiveChallenge
  <1>1. ChallengesSound => OneActiveChallenge
    BY DEF ChallengesSound, Pointed, OneActiveChallenge
  <1> QED  BY <1>1, SoundAlways, PTL

(* However guesses race, repeat and outlive their callers, verifyScript     *)
(* never counts more than ChallengeAttempts wrong guesses on a challenge.   *)
THEOREM GuessesBounded == Spec => []AttemptsBounded
  <1>1. ChallengesSound => AttemptsBounded
    BY DEF ChallengesSound, Sound, AttemptsBounded
  <1> QED  BY <1>1, SoundAlways, PTL

-----------------------------------------------------------------------------
(* Sessions and the identity index.                                        *)

(* A session hash keeps its address; it may go, and else keeps its expiry,  *)
(* and only the activity of a fresh one is refreshed.                       *)
SessionKept(k, r, s) ==
    /\ r.state = k.state /\ r.expires = k.expires
    /\ r.lastSeen = k.lastSeen \/ (SessionExists(s) /\ Fresh(s) /\ r.lastSeen = now)

SessionMoves(s) ==
    /\ session'[s].email = session[s].email
    /\ \/ SessionExists(s) /\ session'[s].state = "gone"
       \/ SessionKept(session[s], session'[s], s)

SessionsMove == \A s \in Calls : SessionMoves(s)

LEMMA SameSession ==
    ASSUME NEW s \in Calls, session'[s] = session[s]
    PROVE  SessionMoves(s)
  BY DEF SessionMoves, SessionKept

LEMMA GoneSession ==
    ASSUME TInv, NEW s \in Calls, SessionExists(s),
           session'[s] = DeletedSession(session[s])
    PROVE  SessionMoves(s) /\ session'[s].state = "gone"
  <1>1. session[s] \in SessionHash
    BY DEF TInv, TypeOK
  <1>2. DeletedSession(session[s]).state = "gone"
        /\ DeletedSession(session[s]).email = session[s].email
    BY <1>1 DEF DeletedSession, SessionHash
  <1> QED  BY <1>2 DEF SessionMoves

LEMMA WithoutMoves ==
    ASSUME TInv, NEW S, session' = Without(S)
    PROVE  /\ SessionsMove
           /\ \A s \in Calls : s \in S => ~SessionExists(s)'
  <1> SUFFICES ASSUME NEW s \in Calls
               PROVE  SessionMoves(s) /\ (s \in S => ~SessionExists(s)')
    BY DEF SessionsMove
  <1>1. CASE s \in S /\ SessionExists(s)
    <2>1. session'[s] = DeletedSession(session[s])
      BY <1>1 DEF Without
    <2> QED  BY <1>1, <2>1, GoneSession DEF SessionExists
  <1>2. CASE ~(s \in S /\ SessionExists(s))
    <2>1. session'[s] = session[s]
      BY <1>2 DEF Without
    <2> QED  BY <1>2, <2>1, SameSession DEF SessionExists
  <1> QED  BY <1>1, <1>2

LEMMA AuthenticateMoves ==
    ASSUME TInv, NEW s \in Calls, AuthenticateSession(s)
    PROVE  SessionsMove
  <1>1. CASE Fresh(s)
    <2> DEFINE k == session[s]
    <2>0. session \in [Calls -> SessionHash] /\ k \in SessionHash
      BY DEF TInv, TypeOK
    <2>1. session' = [session EXCEPT ![s] = [k EXCEPT !.lastSeen = now]]
      BY <1>1 DEF AuthenticateSession
    <2>2. \A d \in Calls : d # s => session'[d] = session[d]
      BY <2>0, <2>1
    <2>3. session'[s] = [k EXCEPT !.lastSeen = now]
      BY <2>0, <2>1
    <2> HIDE DEF k
    <2>4. /\ session'[s].email = k.email /\ session'[s].state = k.state
          /\ session'[s].expires = k.expires /\ session'[s].lastSeen = now
      BY <2>0, <2>3 DEF SessionHash
    <2>5. SessionMoves(s)
      BY <1>1, <2>4 DEF k, SessionMoves, SessionKept, AuthenticateSession
    <2> QED  BY <2>2, <2>5, SameSession DEF SessionsMove
  <1>2. CASE ~Fresh(s)
    BY <1>2, WithoutMoves DEF AuthenticateSession
  <1> QED  BY <1>1, <1>2

LEMMA TickSessions ==
    ASSUME TInv, Tick
    PROVE  /\ SessionsMove
           /\ \A s \in Calls :
                 SessionExists(s)' => /\ session'[s] = session[s]
                                      /\ session[s].expires >= now + 1
  <1> SUFFICES ASSUME NEW s \in Calls
               PROVE  /\ SessionMoves(s)
                      /\ SessionExists(s)' => /\ session'[s] = session[s]
                                              /\ session[s].expires >= now + 1
    BY DEF SessionsMove
  <1>0. now \in Nat /\ session[s].expires \in Nat /\ now' = now + 1
    BY DEF TInv, TypeOK, SessionHash, Tick
  <1>1. CASE SessionExists(s) /\ session[s].expires < now + 1
    <2>1. session'[s] = DeletedSession(session[s])
      BY <1>0, <1>1 DEF Tick, ExpireKeys
    <2> QED  BY <1>1, <2>1, GoneSession DEF SessionExists
  <1>2. CASE ~(SessionExists(s) /\ session[s].expires < now + 1)
    <2>1. session'[s] = session[s]
      BY <1>0, <1>2 DEF Tick, ExpireKeys
    <2> QED  BY <1>0, <1>2, <2>1, SameSession DEF SessionExists
  <1> QED  BY <1>1, <1>2

(* A stored session is in its identity's index, and the index outlives it. *)
Indexed(s) ==
    SessionExists(s) => /\ session[s].email \in Emails
                        /\ s \in index[session[s].email].members
                        /\ session[s].expires <= index[session[s].email].until
                        /\ session[s].expires <= now + SessionTTL

SessionsIndexed == \A s \in Calls : Indexed(s)

LEMMA IndexKept ==
    ASSUME TInv, SessionsIndexed, SessionsMove, now' = now,
           NEW e, NEW M,
           \/ UNCHANGED index
           \/ index' = [index EXCEPT ![e].members = M],
           \A s \in Calls : SessionExists(s)' =>
               \/ UNCHANGED index
               \/ session[s].email # e
               \/ (s \in index[e].members => s \in M)
    PROVE  SessionsIndexed'
  <1> SUFFICES ASSUME NEW s \in Calls, SessionExists(s)'
               PROVE  /\ session'[s].email \in Emails
                      /\ s \in index'[session'[s].email].members
                      /\ session'[s].expires <= index'[session'[s].email].until
                      /\ session'[s].expires <= now' + SessionTTL
    BY DEF SessionsIndexed, Indexed
  <1>1. /\ SessionExists(s) /\ session'[s].email = session[s].email
        /\ session'[s].expires = session[s].expires
    BY DEF SessionsMove, SessionMoves, SessionKept, SessionExists
  <1>2. /\ session[s].email \in Emails
        /\ s \in index[session[s].email].members
        /\ session[s].expires <= index[session[s].email].until
        /\ session[s].expires <= now + SessionTTL
    BY <1>1 DEF SessionsIndexed, Indexed
  <1>3. CASE UNCHANGED index
    BY <1>1, <1>2, <1>3
  <1>4. CASE ~UNCHANGED index /\ session[s].email # e
    <2>1. index'[session[s].email] = index[session[s].email]
      BY <1>2, <1>4 DEF TInv, TypeOK
    <2> QED  BY <1>1, <1>2, <2>1
  <1>5. CASE ~UNCHANGED index /\ session[s].email = e
    <2>1. s \in M
      BY <1>2, <1>5
    <2>2. index'[e].members = M /\ index'[e].until = index[e].until
      BY <1>2, <1>5 DEF TInv, TypeOK, IdentityIndex
    <2> QED  BY <1>1, <1>2, <1>5, <2>1, <2>2
  <1> QED  BY <1>3, <1>4, <1>5

LEMMA RevokeIndexed ==
    ASSUME TInv, SessionsIndexed, SessionSteps
    PROVE  SessionsMove /\ SessionsIndexed'
  <1>0. now' = now
    BY DEF SessionSteps, AuthenticateSession, RevokeSession, RevokeAllSessions,
           RevokeIdentitySessions, CommitDisable
  <1>a. ASSUME SessionsMove, UNCHANGED index  PROVE SessionsIndexed'
    BY <1>0, <1>a, IndexKept
  <1>1. ASSUME NEW s \in Calls, AuthenticateSession(s)  PROVE SessionsMove /\ SessionsIndexed'
    BY <1>a, <1>1, AuthenticateMoves DEF AuthenticateSession
  <1>2. ASSUME NEW s \in Calls, RevokeSession(s)  PROVE SessionsMove /\ SessionsIndexed'
    <2> DEFINE e == session[s].email
               M == index[e].members \ {s}
    <2>1. index' = [index EXCEPT ![e].members = M] /\ session' = Without({s})
      BY <1>2 DEF RevokeSession
    <2>2. SessionsMove /\ ~SessionExists(s)'
      BY <2>1, WithoutMoves
    <2>3. \A d \in Calls : SessionExists(d)' => (d \in index[e].members => d \in M)
      BY <2>2
    <2> HIDE DEF e, M
    <2> QED  BY <1>0, <2>1, <2>2, <2>3, IndexKept
  <1>3. ASSUME NEW e, session' = Without(index[e].members),
               index' = [index EXCEPT ![e].members = {}]
        PROVE  SessionsMove /\ SessionsIndexed'
    <2>1. /\ SessionsMove
          /\ \A d \in Calls : d \in index[e].members => ~SessionExists(d)'
      BY <1>3, WithoutMoves
    <2> QED  BY <1>0, <1>3, <2>1, IndexKept
  <1>4. ASSUME NEW s \in Calls, RevokeAllSessions(s)  PROVE SessionsMove /\ SessionsIndexed'
    <2>1. CASE Fresh(s)
      BY <1>3, <1>4, <2>1 DEF RevokeAllSessions
    <2>2. CASE ~Fresh(s)
      BY <1>a, <1>4, <2>2, WithoutMoves DEF RevokeAllSessions
    <2> QED  BY <2>1, <2>2
  <1>5. ASSUME NEW e \in Emails, RevokeIdentitySessions(e)
        PROVE  SessionsMove /\ SessionsIndexed'
    BY <1>3, <1>5 DEF RevokeIdentitySessions
  <1>6. ASSUME NEW e \in Emails, CommitDisable(e)  PROVE SessionsMove /\ SessionsIndexed'
    <2>1. SessionsMove
      BY <1>6, SameSession DEF SessionsMove, CommitDisable, sessVars
    <2> QED  BY <1>a, <1>6, <2>1 DEF CommitDisable, sessVars
  <1> QED  BY <1>1, <1>2, <1>4, <1>5, <1>6 DEF SessionSteps

LEMMA TickIndexed ==
    ASSUME TInv, SessionsIndexed, Tick
    PROVE  SessionsIndexed'
  <1> SUFFICES ASSUME NEW s \in Calls, SessionExists(s)'  PROVE Indexed(s)'
    BY DEF SessionsIndexed, Indexed
  <1> DEFINE e == session[s].email
  <1>1. session'[s] = session[s] /\ session[s].expires >= now + 1
    BY TickSessions
  <1>2. /\ e \in Emails /\ s \in index[e].members
        /\ session[s].expires <= index[e].until /\ session[s].expires <= now + SessionTTL
    BY <1>1 DEF SessionsIndexed, Indexed, SessionExists
  <1>3. /\ index[e].until \in Nat /\ session[s].expires \in Nat /\ now \in Nat
        /\ now' = now + 1 /\ SessionTTL \in Nat
    BY <1>2 DEF TInv, TypeOK, IdentityIndex, SessionHash, Tick
  <1>4. ~(index[e].until < now + 1)
    BY <1>1, <1>2, <1>3
  <1>5. index'[e] = index[e]
    BY <1>2, <1>3, <1>4 DEF Tick, ExpireKeys
  <1>6. session[s].expires <= now' + SessionTTL
    BY <1>2, <1>3
  <1> QED  BY <1>1, <1>2, <1>5, <1>6 DEF Indexed

LEMMA StoreIndexed ==
    ASSUME TInv, ChallengesSound, SessionsIndexed, NEW c \in Calls, call[c].ch \in Challenges,
           HoldsLease(c), StoreSession(c), now' = now
    PROVE  SessionsIndexed'
  <1> DEFINE e == challenge[call[c].ch].email
  <1>0. /\ e \in Emails /\ now \in Nat /\ SessionTTL \in Nat
        /\ session \in [Calls -> SessionHash] /\ index \in [Emails -> IdentityIndex]
    BY DEF ChallengesSound, Sound, HoldsLease, Exists, TInv, TypeOK
  <1>1. /\ session'[c].email = e /\ session'[c].expires = now + SessionTTL
        /\ \A s \in Calls \ {c} : session'[s] = session[s]
    BY <1>0 DEF StoreSession
  <1>2. /\ index'[e] = [members |-> index[e].members \cup {c}, until |-> now + SessionTTL]
        /\ \A x \in Emails \ {e} : index'[x] = index[x]
    BY <1>0 DEF StoreSession
  <1>3. Indexed(c)'
    <2>1. session'[c].expires <= now + SessionTTL
      BY <1>0, <1>1
    <2> QED  BY <1>0, <1>1, <1>2, <2>1 DEF Indexed
  <1>4. ASSUME NEW s \in Calls \ {c}  PROVE Indexed(s)'
    <2>1. CASE session[s].email = e
      BY <1>0, <1>1, <1>2, <2>1 DEF SessionsIndexed, Indexed, SessionExists
    <2>2. CASE session[s].email # e
      BY <1>0, <1>1, <1>2, <2>2 DEF SessionsIndexed, Indexed, SessionExists
    <2> QED  BY <2>1, <2>2
  <1> QED  BY <1>3, <1>4 DEF SessionsIndexed

LEMMA NextIndexed ==
    TInv /\ ChallengesSound /\ SessionsIndexed /\ [Next]_vars => SessionsIndexed'
  <1> SUFFICES ASSUME TInv, ChallengesSound, SessionsIndexed, [Next]_vars
               PROVE  SessionsIndexed'
    OBVIOUS
  <1>1. ASSUME UNCHANGED <<now, session, index>>  PROVE SessionsIndexed'
    BY <1>1 DEF SessionsIndexed, Indexed, SessionExists
  <1>2. CASE UNCHANGED vars \/ Requests \/ \E match \in BOOLEAN : Guess(match)
    BY <1>1, <1>2 DEF vars, Requests, Reserve, SendMail, Invalidate, Guess, BeginVerify, sessVars
  <1>3. ASSUME NEW c \in Calls, CallStep(c) \/ Crash(c)  PROVE SessionsIndexed'
    <2>1. ASSUME NEW cmd \in {"complete", "retry"}, CompleteScript(c, cmd)
          PROVE  SessionsIndexed'
      <3>1. call[c].ch \in Challenges /\ now' = now
        BY <2>1, ScriptMoves DEF CompleteScript
      <3> QED  BY <1>1, <2>1, <3>1, StoreIndexed DEF CompleteScript, sessVars
    <2>2. CASE Aside(c)
      BY <1>1, <2>2, AsideHashes
    <2>3. CASE VerifyScript(c) \/ ReleaseScript(c) \/ RejectScript(c)
      BY <1>1, <2>3 DEF VerifyScript, ReleaseScript, RejectScript, sessVars
    <2> QED  BY <1>3, <2>1, <2>2, <2>3 DEF CallStep, Aside
  <1> QED  BY <1>2, <1>3, TickIndexed, RevokeIndexed DEF Next, SignIn

(* The steps of the store keep every session whose hash exists in the index *)
(* of its identity, so revokeAllScript and revokeIdentityScript reach it.   *)
THEOREM RevocationReaches == Spec => []IndexCoversSessions
  <1>1. Init => SessionsIndexed
    BY DEF Init, SessionsIndexed, Indexed, SessionExists
  <1>2. SessionsIndexed => IndexCoversSessions
    BY DEF SessionsIndexed, Indexed, IndexCoversSessions
  <1> QED  BY <1>1, <1>2, SoundAlways, NextIndexed, PTL DEF Spec

-----------------------------------------------------------------------------
(* Identities, invitations and the addresses of sessions.                  *)

Completing(c) == <<c, "complete">> \in net \/ <<c, "retry">> \in net

(* What a call has shown by the point it has reached: before the identity   *)
(* is resolved, the code; before a completion is sent, the identity.        *)
Shown(c) ==
    /\ call[c].pc = "resolve" => call[c].match /\ challenge[call[c].ch].state # "none"
    /\ Completing(c) \/ call[c].pc \in {"complete", "retry"} =>
          /\ challenge[call[c].ch].state # "none"
          /\ identity[challenge[call[c].ch].email] # None

CallsShown == \A c \in Calls : Shown(c)

Identified ==
    /\ IdentityNeedsProof
    /\ \A e \in Emails : \A c \in Calls : identity[e] = c => call[c].pc # "idle"

(* The first execution of a call's completion. *)
Stores(c) ==
    /\ Completing(c)
    /\ ~AlreadyCompleted(c)
    /\ HoldsLease(c)
    /\ StoreSession(c)
    /\ call[c].ch \in Challenges
    /\ UNCHANGED <<now, activeKey, pgVars, request>>

(* A call whose transaction commits, whether or not it learns of it. *)
Resolves(c) ==
    /\ call[c].pc = "resolve"
    /\ Eligible(challenge[call[c].ch].email)
    /\ Resolved(c, challenge[call[c].ch].email)

LEMMA SessionKinds == TInv /\ SessionsIndexed /\ Next => SessionsMove \/ \E c \in Calls : Stores(c)
  <1> SUFFICES ASSUME TInv, SessionsIndexed, Next
               PROVE  SessionsMove \/ \E c \in Calls : Stores(c)
    OBVIOUS
  <1>1. ASSUME UNCHANGED session  PROVE SessionsMove
    BY <1>1, SameSession DEF SessionsMove
  <1>2. CASE Requests \/ \E match \in BOOLEAN : Guess(match)
    BY <1>1, <1>2 DEF Requests, Reserve, SendMail, Invalidate, Guess, BeginVerify, sessVars
  <1>3. ASSUME NEW c \in Calls, CallStep(c) \/ Crash(c)  PROVE SessionsMove \/ Stores(c)
    <2>1. ASSUME NEW cmd \in {"complete", "retry"}, CompleteScript(c, cmd)
          PROVE  SessionsMove \/ Stores(c)
      <3>1. call[c].ch \in Challenges
        BY <2>1, ScriptMoves
      <3>2. CASE UNCHANGED <<sessVars, challenge>>
        BY <1>1, <3>2 DEF sessVars
      <3>3. CASE ~AlreadyCompleted(c) /\ HoldsLease(c) /\ StoreSession(c)
        BY <2>1, <3>1, <3>3 DEF CompleteScript, Stores, Completing
      <3> QED  BY <2>1, <3>2, <3>3 DEF CompleteScript
    <2>2. CASE Aside(c)
      BY <1>1, <2>2, AsideHashes
    <2>3. CASE VerifyScript(c) \/ ReleaseScript(c) \/ RejectScript(c)
      BY <1>1, <2>3 DEF VerifyScript, ReleaseScript, RejectScript, sessVars
    <2> QED  BY <1>3, <2>1, <2>2, <2>3 DEF CallStep, Aside
  <1> QED  BY <1>2, <1>3, TickSessions, RevokeIndexed DEF Next, SignIn

LEMMA IdentityKinds ==
    TInv /\ Next => UNCHANGED <<identity, invitation>> \/ \E c \in Calls : Resolves(c)
  <1> SUFFICES ASSUME TInv, Next
               PROVE  UNCHANGED <<identity, invitation>> \/ \E c \in Calls : Resolves(c)
    OBVIOUS
  <1>1. CASE Requests \/ (\E match \in BOOLEAN : Guess(match)) \/ Tick \/ SessionSteps
    BY <1>1 DEF Requests, Reserve, SendMail, Invalidate, Guess, BeginVerify, Tick, SessionSteps,
                AuthenticateSession, RevokeSession, RevokeAllSessions, RevokeIdentitySessions,
                CommitDisable, pgVars
  <1>2. ASSUME NEW c \in Calls, CallStep(c) \/ Crash(c)
        PROVE  UNCHANGED <<identity, invitation>> \/ Resolves(c)
    <2>1. CASE ResolveCommits(c) \/ ResolveRefuses(c) \/ ResolveFails(c)
      BY <2>1 DEF ResolveCommits, ResolveRefuses, ResolveFails, Resolves, pgVars
    <2>2. CASE ~(ResolveCommits(c) \/ ResolveRefuses(c) \/ ResolveFails(c))
      BY <1>2, <2>2 DEF CallStep, VerifyScript, ReleaseScript, RejectScript, CompleteScript,
                        GiveUp, Crash, pgVars
    <2> QED  BY <2>1, <2>2
  <1> QED  BY <1>1, <1>2 DEF Next, SignIn

(* Challenges that have been stored keep their address, and identities that *)
(* exist keep their row.                                                    *)
AddressesKept ==
    \A ch \in Challenges :
        challenge[ch].state # "none" => /\ challenge'[ch].state # "none"
                                        /\ challenge'[ch].email = challenge[ch].email

IdentitiesKept == \A e \in Emails : identity[e] # None => identity'[e] = identity[e]

LEMMA KeptSteps ==
    TInv /\ OneGrant /\ Next => AddressesKept /\ IdentitiesKept
  <1> SUFFICES ASSUME TInv, OneGrant, Next  PROVE AddressesKept /\ IdentitiesKept
    OBVIOUS
  <1>1. AddressesKept
    <2>1. \A ch \in Challenges : challenge[ch] \in ChallengeHash
      BY DEF TInv, TypeOK
    <2> QED
      BY <2>1, ChallengeSteps, DeletedFields DEF ChallengeStep, HashMoves, Kept, Opened, AddressesKept
  <1>2. IdentitiesKept
    <2>1. identity \in [Emails -> Calls \cup {None}]
      BY DEF TInv, TypeOK
    <2>2. ASSUME NEW c \in Calls, Resolves(c)  PROVE IdentitiesKept
      BY <2>1, <2>2 DEF Resolves, Resolved, IdentitiesKept
    <2> QED  BY <2>2, IdentityKinds DEF IdentitiesKept
  <1> QED  BY <1>1, <1>2

(* A call that neither moves nor sends a completion has shown what it had.  *)
LEMMA ShownKept ==
    ASSUME TInv, ChallengesSound, AddressesKept, IdentitiesKept, InputsKept,
           NEW d \in Calls, Shown(d),
           call'[d].pc = "resolve" => call[d].pc = "resolve",
           call'[d].pc \in {"complete", "retry"} => call[d].pc \in {"complete", "retry"},
           Completing(d)' => Completing(d)
    PROVE  Shown(d)'
  <1>1. CASE Completing(d) \/ call[d].pc \in {"resolve", "complete", "retry"}
    <2>1. call[d].pc # "idle" /\ call[d].ch \in Challenges
      BY <1>1 DEF TInv, Begun, Completing, Commands
    <2>2. call'[d].ch = call[d].ch /\ call'[d].match = call[d].match
      BY <2>1 DEF InputsKept
    <2>3. challenge[call[d].ch].state # "none" => challenge[call[d].ch].email \in Emails
      BY <2>1 DEF ChallengesSound, Sound
    <2> QED  BY <2>1, <2>2, <2>3 DEF Shown, AddressesKept, IdentitiesKept
  <1>2. CASE ~(Completing(d) \/ call[d].pc \in {"resolve", "complete", "retry"})
    BY <1>2 DEF Shown
  <1> QED  BY <1>1, <1>2

(* The answer reaches its caller, or changes at most what is in flight. *)
LEMMA ReplyFields ==
    ASSUME TInv, NEW c \in Calls, NEW cmd \in Commands, NEW pc, NEW result,
           Reply(c, cmd, pc, result)
    PROVE  /\ \/ /\ call[c].pc = cmd /\ net' = net \ {<<c, cmd>>}
                 /\ call'[c].pc = pc /\ call'[c].sent = 0 /\ call'[c].result = result
              \/ call' = call /\ net' \in {net, net \ {<<c, cmd>>}}
           /\ net' \subseteq net
           /\ \A d \in Calls \ {c} : call'[d] = call[d]
  <1>0. call \in [Calls -> VerifyCall] /\ call[c] \in VerifyCall
    BY DEF TInv, TypeOK
  <1>1. CASE /\ call[c].pc = cmd /\ net' = net \ {<<c, cmd>>}
             /\ call' = [call EXCEPT ![c] = [@ EXCEPT !.pc = pc, !.sent = 0, !.result = result]]
    <2>1. call'[c].pc = pc /\ call'[c].sent = 0 /\ call'[c].result = result
      BY <1>0, <1>1 DEF VerifyCall
    <2> QED  BY <1>0, <1>1, <2>1
  <1>2. CASE call' = call /\ net' \in {net, net \ {<<c, cmd>>}}
    BY <1>2
  <1> QED  BY <1>1, <1>2 DEF Reply

LEMMA SendFields ==
    ASSUME TInv, NEW c \in Calls, NEW cmd \in Commands, Send(c, cmd)
    PROVE  /\ call'[c].pc = cmd /\ call'[c].sent = now /\ call'[c].result = call[c].result
           /\ net' = net \cup {<<c, cmd>>}
           /\ \A d \in Calls \ {c} : call'[d] = call[d]
  BY DEF TInv, TypeOK, Send, VerifyCall

LEMMA FinishFields ==
    ASSUME TInv, NEW c \in Calls, NEW r, Finish(c, r)
    PROVE  /\ call'[c].pc = "done" /\ call'[c].result = r /\ net' = net
           /\ \A d \in Calls \ {c} : call'[d] = call[d]
  BY DEF TInv, TypeOK, Finish, VerifyCall

LEMMA VerifyShown ==
    ASSUME TInv, ChallengesSound, CallsShown, AddressesKept, IdentitiesKept, InputsKept,
           NEW c \in Calls, VerifyScript(c)
    PROVE  CallsShown'
  <1>1. "verify" \in Commands /\ call[c].ch \in Challenges /\ call[c].pc # "idle"
    BY ScriptMoves DEF Commands
  <1>2. \E pc, r : Reply(c, "verify", pc, r)
    BY DEF VerifyScript, Mismatch, Match
  <1>3. net' \subseteq net /\ \A d \in Calls \ {c} : call'[d] = call[d]
    BY <1>1, <1>2, ReplyFields
  <1>4. \A d \in Calls : Completing(d)' => Completing(d)
    BY <1>3 DEF Completing
  <1>5. \A d \in Calls \ {c} : Shown(d)'
    BY <1>3, <1>4, ShownKept DEF CallsShown
  <1>6. Shown(c)'
    <2>1. ASSUME call[c].match, Redeemable(call[c].ch), Reply(c, "verify", "resolve", "none"),
                 call' # call
          PROVE  Shown(c)'
      <3>1. call[c].pc = "verify" /\ call'[c].pc = "resolve"
        BY <1>1, <2>1, ReplyFields
      <3>2. challenge[call[c].ch].state # "none" /\ call'[c].ch = call[c].ch /\ call'[c].match
        BY <1>1, <2>1 DEF Redeemable, Exists, InputsKept
      <3>3. challenge'[call[c].ch].state # "none"
            /\ challenge'[call[c].ch].email = challenge[call[c].ch].email
            /\ challenge[call[c].ch].email \in Emails
        BY <1>1, <3>2 DEF AddressesKept, ChallengesSound, Sound
      <3> QED  BY <1>4, <3>1, <3>2, <3>3 DEF Shown, CallsShown, IdentitiesKept
    <2>2. ASSUME NEW r, Reply(c, "verify", "done", r)  PROVE Shown(c)'
      <3>1. call'[c].pc \in {"done", call[c].pc}
        BY <1>1, <2>2, ReplyFields
      <3> QED  BY <1>4, <3>1, ShownKept DEF CallsShown
    <2>3. ASSUME call' = call  PROVE Shown(c)'
      BY <1>4, <2>3, ShownKept DEF CallsShown
    <2> QED  BY <2>1, <2>2, <2>3 DEF VerifyScript, Mismatch, Match
  <1> QED  BY <1>5, <1>6 DEF CallsShown

LEMMA AnswerShown ==
    ASSUME TInv, ChallengesSound, CallsShown, AddressesKept, IdentitiesKept, InputsKept,
           NEW c \in Calls, NEW cmd \in Commands, NEW r, Reply(c, cmd, "done", r)
    PROVE  CallsShown'
  <1>1. /\ net' \subseteq net
        /\ \A d \in Calls \ {c} : call'[d] = call[d]
        /\ call'[c].pc \in {"done", call[c].pc}
    BY ReplyFields
  <1>2. \A d \in Calls : Completing(d)' => Completing(d)
    BY <1>1 DEF Completing
  <1>3. \A d \in Calls : call'[d].pc \in {"done", call[d].pc}
    BY <1>1
  <1> QED  BY <1>2, <1>3, ShownKept DEF CallsShown

LEMMA AsideShown ==
    ASSUME TInv, ChallengesSound, CallsShown, AddressesKept, IdentitiesKept, InputsKept,
           NEW c \in Calls, Aside(c)
    PROVE  CallsShown'
  <1>0. \A d \in Calls \ {c} : /\ call'[d] = call[d]
                               /\ Completing(d)' => Completing(d)
    BY AsideMoves DEF CallMoves, Completing
  <1>1. \A d \in Calls \ {c} : Shown(d)'
    BY <1>0, ShownKept DEF CallsShown
  <1>2. ASSUME ResolveCommits(c)  PROVE Shown(c)'
    <2> DEFINE ch == call[c].ch
               e == challenge[ch].email
    <2>1. call[c].pc = "resolve" /\ Resolved(c, e) /\ UNCHANGED challenge /\ Send(c, "complete")
      BY <1>2 DEF ResolveCommits, redisVars
    <2>2. ch \in Challenges /\ challenge[ch].state # "none" /\ call'[c].ch = ch
      BY <2>1 DEF TInv, Begun, CallsShown, Shown, InputsKept
    <2>3. e \in Emails
      BY <2>2 DEF ChallengesSound, Sound
    <2>4. identity'[e] # None
      BY <2>1, <2>3 DEF TInv, TypeOK, Resolved
    <2>5. call'[c].pc = "complete"
      BY <2>1, SendFields DEF Commands
    <2> QED  BY <2>1, <2>2, <2>4, <2>5 DEF Shown
  <1>3. ASSUME ResolveRefuses(c) \/ ResolveFails(c)  PROVE Shown(c)'
    <2>1. \E cmd \in {"release", "reject"} : Send(c, cmd)
      BY <1>3 DEF ResolveRefuses, ResolveFails
    <2>2. /\ call'[c].pc \in {"release", "reject"}
          /\ \E cmd \in {"release", "reject"} : net' = net \cup {<<c, cmd>>}
      BY <2>1, SendFields DEF Commands
    <2>3. Completing(c)' => Completing(c)
      BY <2>2 DEF Completing
    <2> QED  BY <2>2, <2>3, ShownKept DEF CallsShown
  <1>4. ASSUME GiveUp(c)  PROVE Shown(c)'
    <2>1. CASE call[c].pc = "complete" /\ Send(c, "retry")
      <3>1. UNCHANGED <<challenge, identity>>
        BY <1>4 DEF GiveUp, redisVars, pgVars
      <3>2. call'[c].ch = call[c].ch /\ call'[c].pc = "retry"
        BY <2>1, SendFields DEF InputsKept, Commands
      <3> QED  BY <2>1, <3>1, <3>2 DEF Shown, CallsShown
    <2>2. CASE Finish(c, "error")
      <3>1. call'[c].pc = "done" /\ net' = net
        BY <2>2, FinishFields
      <3> QED  BY <3>1, ShownKept DEF CallsShown, Completing
    <2> QED  BY <1>4, <2>1, <2>2 DEF GiveUp
  <1>5. ASSUME Crash(c)  PROVE Shown(c)'
    <2>1. call'[c].pc = "crashed" /\ net' = net
      BY <1>5 DEF Crash, TInv, TypeOK, VerifyCall
    <2> QED  BY <2>1, ShownKept DEF CallsShown, Completing
  <1> QED  BY <1>1, <1>2, <1>3, <1>4, <1>5 DEF CallsShown, Aside

LEMMA NextShown ==
    TInv /\ OneGrant /\ ChallengesSound /\ CallsShown /\ [Next]_vars => CallsShown'
  <1> SUFFICES ASSUME TInv, OneGrant, ChallengesSound, CallsShown, [Next]_vars
               PROVE  CallsShown'
    OBVIOUS
  <1>1. CASE UNCHANGED vars
    BY <1>1 DEF CallsShown, Shown, Completing, vars
  <1>2. CASE Next
    <2>0. AddressesKept /\ IdentitiesKept /\ InputsKept
      BY <1>2, KeptSteps, InputSteps
    <2>1. ASSUME UNCHANGED <<call, net>>  PROVE CallsShown'
      BY <2>0, <2>1, ShownKept DEF CallsShown, Completing
    <2>2. CASE Requests \/ Tick \/ SessionSteps
      BY <2>1, <2>2 DEF Requests, Reserve, SendMail, Invalidate, Tick, SessionSteps,
                        AuthenticateSession, RevokeSession, RevokeAllSessions,
                        RevokeIdentitySessions, CommitDisable
    <2>3. ASSUME NEW c \in Calls, NEW ch \in Challenges, NEW match \in BOOLEAN,
                 NEW src \in Sources, BeginVerify(c, ch, match, src)
          PROVE  CallsShown'
      <3>1. \A d \in Calls : call'[d].pc \in {"verify", call[d].pc}
        BY <2>3 DEF TInv, TypeOK, VerifyCall, BeginVerify
      <3>2. \A d \in Calls : Completing(d)' => Completing(d)
        BY <2>3 DEF BeginVerify, Completing
      <3> QED  BY <2>0, <3>1, <3>2, ShownKept DEF CallsShown
    <2>4. ASSUME NEW c \in Calls, CallStep(c) \/ Crash(c)  PROVE CallsShown'
      <3>1. ASSUME ReleaseScript(c) \/ RejectScript(c)
                   \/ \E cmd \in {"complete", "retry"} : CompleteScript(c, cmd)
            PROVE  CallsShown'
        <4>1. \E cmd \in Commands : \E r : Reply(c, cmd, "done", r)
          BY <3>1 DEF ReleaseScript, RejectScript, CompleteScript, Commands
        <4> QED  BY <2>0, <4>1, AnswerShown
      <3> QED  BY <2>0, <2>4, <3>1, VerifyShown, AsideShown DEF CallStep, Aside
    <2> QED  BY <1>2, <2>2, <2>3, <2>4 DEF Next, SignIn, Guess
  <1> QED  BY <1>1, <1>2

LEMMA ResolvesIdentified ==
    ASSUME TInv, ChallengesSound, CallsShown, Identified, InputsKept, AddressesKept,
           NEW c \in Calls, Resolves(c)
    PROVE  /\ \A e \in Emails : \A d \in Calls :
                 identity'[e] = d =>
                     identity[e] = d \/ (d = c /\ challenge[call[c].ch].email = e)
           /\ InvitationsRequired =>
                 \A e \in Emails : identity'[e] # None <=> invitation'[e] = "used"
  <1> DEFINE x == challenge[call[c].ch].email
  <1>1. call[c].ch \in Challenges /\ challenge[call[c].ch].state # "none"
    BY DEF Resolves, TInv, Begun, CallsShown, Shown
  <1>2. x \in Emails
    BY <1>1 DEF ChallengesSound, Sound
  <1>3. /\ identity'[x] = IF identity[x] = None THEN c ELSE identity[x]
        /\ invitation'[x] = IF identity[x] = None /\ InvitationsRequired
                            THEN "used" ELSE invitation[x]
        /\ \A e \in Emails \ {x} : identity'[e] = identity[e] /\ invitation'[e] = invitation[e]
    BY <1>2 DEF TInv, TypeOK, Resolves, Resolved
  <1>4. c # None
    OBVIOUS
  <1> HIDE DEF x
  <1>5. \A e \in Emails : \A d \in Calls :
           identity'[e] = d => identity[e] = d \/ (d = c /\ x = e)
    BY <1>2, <1>3
  <1>6. InvitationsRequired =>
           \A e \in Emails : identity'[e] # None <=> invitation'[e] = "used"
    BY <1>2, <1>3, <1>4 DEF Identified, IdentityNeedsProof
  <1> QED  BY <1>5, <1>6 DEF x

LEMMA StoreFields ==
    ASSUME TInv, NEW c \in Calls, Stores(c)
    PROVE  /\ session'[c] = [state |-> "stored", email |-> challenge[call[c].ch].email,
                             lastSeen |-> now, expires |-> now + SessionTTL]
           /\ completed'[c] = now + ChallengeTTL
           /\ \A d \in Calls \ {c} : session'[d] = session[d] /\ completed'[d] = completed[d]
  BY DEF TInv, TypeOK, Stores, StoreSession

LEMMA NextIdentified ==
    TInv /\ OneGrant /\ ChallengesSound /\ CallsShown /\ SessionsIndexed
      /\ Identified /\ [Next]_vars => Identified'
  <1> SUFFICES ASSUME TInv, OneGrant, ChallengesSound, CallsShown, SessionsIndexed,
                      Identified, [Next]_vars
               PROVE  Identified'
    OBVIOUS
  <1>1. CASE UNCHANGED vars
    BY <1>1 DEF Identified, IdentityNeedsProof, Created, vars
  <1>2. CASE Next
    <2>0. AddressesKept /\ IdentitiesKept /\ InputsKept
      BY <1>2, KeptSteps, InputSteps
    <2>1. \A e \in Emails : \A d \in Calls :
             identity'[e] = d =>
                 \/ identity[e] = d
                 \/ /\ call[d].pc = "resolve" /\ call[d].match
                    /\ challenge[call[d].ch].email = e
      <3>1. ASSUME NEW c \in Calls, Resolves(c)
            PROVE  call[c].pc = "resolve" /\ call[c].match
        BY <3>1 DEF Resolves, CallsShown, Shown
      <3> QED  BY <1>2, <2>0, <3>1, IdentityKinds, ResolvesIdentified
    <2>2. \A e \in Emails : \A d \in Calls :
             identity'[e] = d => call'[d].pc # "idle" /\ call'[d].match
                                 /\ challenge'[call'[d].ch].email = e
      <3> SUFFICES ASSUME NEW e \in Emails, NEW d \in Calls, identity'[e] = d
                   PROVE  call'[d].pc # "idle" /\ call'[d].match
                          /\ challenge'[call'[d].ch].email = e
        OBVIOUS
      <3>1. call[d].pc # "idle" /\ call[d].match /\ challenge[call[d].ch].email = e
        BY <2>1 DEF Identified, IdentityNeedsProof
      <3>2. call[d].ch \in Challenges /\ call'[d].ch = call[d].ch /\ call'[d].match
            /\ call'[d].pc # "idle"
        BY <2>0, <3>1 DEF TInv, Begun, InputsKept
      <3>3. challenge[call[d].ch].state # "none"
        <4>1. e # None
          OBVIOUS
        <4> QED  BY <3>1, <3>2, <4>1 DEF ChallengesSound, Sound
      <3> QED  BY <2>0, <3>1, <3>2, <3>3 DEF AddressesKept
    <2>3. ASSUME NEW c \in Calls, Created(c)'
          PROVE  /\ session'[c].email = challenge'[call'[c].ch].email
                 /\ identity'[session'[c].email] # None
      <3> DEFINE ch == call[c].ch
      <3>1. /\ call[c].pc # "idle" /\ ch \in Challenges /\ challenge[ch].state # "none"
            /\ session'[c].email = challenge[ch].email
            /\ identity[challenge[ch].email] # None
        <4>1. CASE Created(c) /\ SessionsMove
          <5>1. session'[c].email = session[c].email
            BY <4>1 DEF SessionsMove, SessionMoves
          <5>2. /\ session[c].email = challenge[ch].email
                /\ identity[session[c].email] # None
            BY <4>1 DEF Identified, IdentityNeedsProof
          <5>3. call[c].pc # "idle" /\ challenge[ch].state = "gone"
            BY <4>1 DEF OneGrant
          <5> QED  BY <5>1, <5>2, <5>3 DEF TInv, Begun
        <4>2. ASSUME NEW d \in Calls, Stores(d), d # c
              PROVE  Created(c) /\ session'[c] = session[c]
          BY <2>3, <4>2, StoreFields DEF Created
        <4>3. CASE Stores(c)
          <5>1. session'[c].email = challenge[ch].email
            <6>1. session'[c] = [state |-> "stored", email |-> challenge[ch].email,
                                 lastSeen |-> now, expires |-> now + SessionTTL]
              BY <4>3, StoreFields
            <6> QED  BY <6>1
          <5>2. challenge[ch].state = "stored" /\ identity[challenge[ch].email] # None
            BY <4>3 DEF Stores, CallsShown, Shown, HoldsLease, Exists
          <5>3. ch \in Challenges /\ call[c].pc # "idle"
            BY <4>3 DEF Stores, TInv, Begun, Completing, Commands
          <5> QED  BY <5>1, <5>2, <5>3
        <4>4. CASE \E d \in Calls : Stores(d) /\ d # c
          <5>1. Created(c) /\ session'[c] = session[c]
            BY <4>2, <4>4
          <5>2. /\ session[c].email = challenge[ch].email
                /\ identity[session[c].email] # None
            BY <5>1 DEF Identified, IdentityNeedsProof
          <5>3. call[c].pc # "idle" /\ challenge[ch].state = "gone"
            BY <5>1 DEF OneGrant
          <5> QED  BY <5>1, <5>2, <5>3 DEF TInv, Begun
        <4>5. CASE ~Created(c) /\ SessionsMove
          BY <2>3, <4>5 DEF SessionsMove, SessionMoves, SessionKept, Created, SessionExists
        <4> QED  BY <1>2, <4>1, <4>3, <4>4, <4>5, SessionKinds
      <3>2. challenge[ch].email \in Emails
        BY <3>1 DEF ChallengesSound, Sound
      <3>3. call'[c].ch = ch /\ challenge'[ch].email = challenge[ch].email
        BY <2>0, <3>1 DEF InputsKept, AddressesKept
      <3> QED  BY <2>0, <3>1, <3>2, <3>3 DEF IdentitiesKept
    <2>4. InvitationsRequired =>
             \A e \in Emails : identity'[e] # None <=> invitation'[e] = "used"
      <3>1. CASE UNCHANGED <<identity, invitation>>
        BY <3>1 DEF Identified, IdentityNeedsProof
      <3> QED  BY <1>2, <2>0, <3>1, IdentityKinds, ResolvesIdentified
    <2> QED  BY <2>2, <2>3, <2>4 DEF Identified, IdentityNeedsProof
  <1> QED  BY <1>1, <1>2

LEMMA InitIdentified == Init => CallsShown /\ SessionsIndexed /\ Identified
  <1> SUFFICES ASSUME Init  PROVE CallsShown /\ SessionsIndexed /\ Identified
    OBVIOUS
  <1>1. CallsShown
    BY DEF Init, CallsShown, Shown, Completing
  <1>2. SessionsIndexed
    BY DEF Init, SessionsIndexed, Indexed, SessionExists
  <1>3. \A e \in Emails : \A c \in Calls : identity[e] # c
    BY DEF Init
  <1>4. \A e \in Emails : identity[e] = None /\ invitation[e] # "used"
    BY DEF Init
  <1>5. \A c \in Calls : ~Created(c)
    BY DEF Init, Created
  <1> QED  BY <1>1, <1>2, <1>3, <1>4, <1>5 DEF Identified, IdentityNeedsProof

(* Store.Verify proves the address before PostgreSQL records it: every      *)
(* identity was made by a call that presented the right code for its own    *)
(* address, every session belongs to the identity of the address its code   *)
(* was mailed to, and a required invitation is used exactly once, although  *)
(* commits may be ambiguous, completions late and callers gone.             *)
THEOREM ProvenAddresses == Spec => []IdentityNeedsProof
  <1>1. Identified => IdentityNeedsProof
    BY DEF Identified
  <1> QED
    BY <1>1, InitIdentified, SoundAlways, NextShown, NextIndexed, NextIdentified, PTL DEF Spec

-----------------------------------------------------------------------------
(* What Verify answers is what happened.                                   *)

Early == {"idle", "verify", "resolve", "release", "reject"}

(* A call's commands follow one another: the verify command is answered     *)
(* before the lease is used, a session is stored only by a completion, and  *)
(* only a call that is done has an answer.                                  *)
Ordered(c) ==
    /\ Completing(c) => call[c].pc \notin Early
    /\ <<c, "verify">> \in net =>
          /\ ~Completing(c)
          /\ call[c].pc \notin {"resolve", "complete", "retry", "release", "reject"}
    /\ call[c].pc \in Early => ~Created(c)
    /\ call[c].pc # "done" => call[c].result = "none"

(* A completion mark outlives the caller's wait for it, the retry included. *)
Marked(c) ==
    /\ completed[c] # -1 => Created(c)
    /\ call[c].pc = "complete" =>
          /\ call[c].sent <= now /\ now <= call[c].sent + RpcTimeout
          /\ Created(c) => completed[c] >= call[c].sent + ChallengeTTL
    /\ call[c].pc = "retry" =>
          /\ call[c].sent <= now /\ now <= call[c].sent + CleanupTimeout
          /\ Created(c) => completed[c] >= call[c].sent + ChallengeTTL - RpcTimeout

(* After a refusal no completion still in flight can find the lease. *)
Answered(c) ==
    /\ call[c].result = "identity" => Created(c)
    /\ call[c].result \in {"ErrAuthentication", "ErrRateLimited"} =>
          ~Created(c) /\ (Completing(c) => ~HoldsLease(c))

Truthful(c) == Ordered(c) /\ Marked(c) /\ Answered(c)

CallsTruthful == \A c \in Calls : Truthful(c)

LEMMA LeaseNotRegained ==
    ASSUME TInv, ChallengeStep, NEW d \in Calls, Ordered(d), Completing(d),
           call'[d].ch = call[d].ch, HoldsLease(d)'
    PROVE  HoldsLease(d)
  <1> DEFINE ch == call[d].ch
  <1>1. ch \in Challenges /\ <<d, "verify">> \notin net
    BY DEF TInv, Begun, Completing, Commands, Ordered
  <1>2. challenge'[ch].state = "stored" /\ challenge'[ch].lease = d /\ d # None
    BY DEF HoldsLease, Exists
  <1>3. challenge[ch] \in ChallengeHash
    BY <1>1 DEF TInv, TypeOK
  <1>4. ~Opened(ch) /\ challenge'[ch] # DeletedChallenge(challenge[ch])
    <2>1. ASSUME NEW e \in Emails, challenge'[ch] = FreshChallenge(e)  PROVE FALSE
      BY <1>2, <2>1 DEF FreshChallenge
    <2> QED  BY <1>2, <1>3, <2>1, DeletedFields DEF Opened
  <1>5. Kept(challenge[ch], challenge'[ch], ch)
    BY <1>1, <1>4 DEF ChallengeStep, HashMoves
  <1> QED  BY <1>1, <1>2, <1>5 DEF Kept, Acquires, HoldsLease, Exists

(* A call that this step does not touch, or whose answer was lost. *)
Untouched(d) ==
    /\ call'[d] = call[d]
    /\ \A cmd \in Commands : <<d, cmd>> \in net' => <<d, cmd>> \in net
    /\ Created(d)' <=> Created(d)

LEMMA UntouchedTruthful ==
    ASSUME TInv, ChallengeStep, NEW d \in Calls, Truthful(d), Untouched(d),
           now' = now, completed'[d] = completed[d]
    PROVE  Truthful(d)'
  <1>1. Completing(d)' => Completing(d)
    BY DEF Untouched, Completing, Commands
  <1>2. Ordered(d)'
    BY <1>1 DEF Truthful, Ordered, Untouched, Commands
  <1>3. Marked(d)'
    BY DEF Truthful, Marked, Untouched
  <1>4. Answered(d)'
    <2>1. Completing(d)' /\ HoldsLease(d)' => HoldsLease(d)
      BY <1>1, LeaseNotRegained DEF Truthful, Untouched
    <2> QED  BY <1>1, <2>1 DEF Truthful, Answered, Untouched
  <1> QED  BY <1>2, <1>3, <1>4 DEF Truthful

LEMMA CreatedKept ==
    ASSUME TInv, SessionsMove, NEW s \in Calls
    PROVE  Created(s)' <=> Created(s)
  BY DEF SessionsMove, SessionMoves, SessionKept, Created, SessionExists

(* A script that leaves the sessions alone answers a call, finally. *)
LEMMA AnswerTruthful ==
    ASSUME TInv, ChallengeStep, CallsTruthful, NEW c \in Calls, NEW cmd \in Commands,
           NEW pc \in {"done", "resolve"}, NEW r, Reply(c, cmd, pc, r),
           UNCHANGED <<now, session, completed>>,
           call[c].pc = cmd /\ pc = "resolve" => cmd = "verify" /\ r = "none",
           call[c].pc = cmd /\ r = "identity" => Created(c),
           call[c].pc = cmd /\ r \in {"ErrAuthentication", "ErrRateLimited"} =>
               ~Created(c) /\ (Completing(c)' => ~HoldsLease(c)'),
           call[c].pc = cmd /\ cmd = "verify" => ~Completing(c)
    PROVE  CallsTruthful'
  <1>0. \A d \in Calls : (Created(d)' <=> Created(d)) /\ completed'[d] = completed[d]
    BY DEF Created
  <1>1. /\ \/ /\ call[c].pc = cmd /\ net' = net \ {<<c, cmd>>}
              /\ call'[c].pc = pc /\ call'[c].sent = 0 /\ call'[c].result = r
           \/ call' = call /\ net' \in {net, net \ {<<c, cmd>>}}
        /\ net' \subseteq net
        /\ \A d \in Calls \ {c} : call'[d] = call[d]
    BY ReplyFields
  <1>2. \A d \in Calls \ {c} : Truthful(d)'
    <2>1. \A d \in Calls \ {c} : Untouched(d)
      BY <1>0, <1>1 DEF Untouched
    <2> QED  BY <1>0, <2>1, UntouchedTruthful DEF CallsTruthful
  <1>3. Truthful(c)'
    <2>1. CASE call' = call
      <3>1. Untouched(c)
        BY <1>0, <1>1, <2>1 DEF Untouched
      <3> QED  BY <1>0, <3>1, UntouchedTruthful DEF CallsTruthful
    <2>2. CASE call' # call
      <3>1. /\ call[c].pc = cmd /\ net' = net \ {<<c, cmd>>}
            /\ call'[c].pc = pc /\ call'[c].result = r
        BY <1>1, <2>2
      <3>2. Completing(c)' => Completing(c)
        BY <1>1 DEF Completing
      <3>3. Ordered(c)'
        <4>1. CASE pc = "done"
          <5>1. <<c, "verify">> \in net' => ~Completing(c)'
            BY <1>1, <3>2 DEF CallsTruthful, Truthful, Ordered
          <5> QED  BY <3>1, <4>1, <5>1 DEF Ordered, Early
        <4>2. CASE pc = "resolve"
          <5>1. cmd = "verify" /\ r = "none"
            BY <3>1, <4>2
          <5>2. ~Created(c)' /\ ~Completing(c)' /\ <<c, "verify">> \notin net'
            BY <1>0, <3>1, <3>2, <5>1 DEF CallsTruthful, Truthful, Ordered, Early
          <5> QED  BY <3>1, <4>2, <5>1, <5>2 DEF Ordered
        <4> QED  BY <4>1, <4>2
      <3>4. Marked(c)'
        BY <1>0, <3>1 DEF Marked, CallsTruthful, Truthful
      <3>5. Answered(c)'
        BY <1>0, <3>1 DEF Answered
      <3> QED  BY <3>3, <3>4, <3>5 DEF Truthful
    <2> QED  BY <2>1, <2>2
  <1> QED  BY <1>2, <1>3 DEF CallsTruthful

LEMMA VerifyTruthful ==
    ASSUME TInv, ChallengeStep, CallsTruthful, NEW c \in Calls, VerifyScript(c)
    PROVE  CallsTruthful'
  <1>1. /\ "verify" \in Commands /\ <<c, "verify">> \in net
        /\ ~Completing(c)
        /\ call[c].pc = "verify" => ~Created(c)
        /\ UNCHANGED <<now, session, completed>>
    BY DEF Commands, VerifyScript, CallsTruthful, Truthful, Ordered, Early, sessVars
  <1>2. \/ \E r \in {"ErrAuthentication", "ErrRateLimited"} : Reply(c, "verify", "done", r)
        \/ Reply(c, "verify", "resolve", "none")
    BY DEF VerifyScript, Mismatch, Match
  <1>3. ~Completing(c)'
    <2>1. net' \subseteq net
      BY <1>1, <1>2, ReplyFields
    <2> QED  BY <1>1, <2>1 DEF Completing
  <1>4. ASSUME NEW r \in {"ErrAuthentication", "ErrRateLimited"}, Reply(c, "verify", "done", r)
        PROVE  CallsTruthful'
    BY <1>1, <1>3, <1>4, AnswerTruthful
  <1>5. ASSUME Reply(c, "verify", "resolve", "none")  PROVE CallsTruthful'
    BY <1>1, <1>3, <1>5, AnswerTruthful
  <1> QED  BY <1>2, <1>4, <1>5

LEMMA LeaseEndTruthful ==
    ASSUME TInv, ChallengeStep, CallsTruthful, NEW c \in Calls,
           ReleaseScript(c) \/ RejectScript(c)
    PROVE  CallsTruthful'
  <1>1. UNCHANGED <<now, session, completed>>
    BY DEF ReleaseScript, RejectScript, sessVars
  <1>2. CASE Reply(c, "release", "done", "error")
    BY <1>1, <1>2, AnswerTruthful DEF Commands
  <1>3. CASE Reply(c, "reject", "done", "ErrAuthentication")
    <2>1. "reject" \in Commands
      BY DEF Commands
    <2>2. call[c].pc = "reject" => ~Created(c) /\ ~Completing(c)
      BY DEF CallsTruthful, Truthful, Ordered, Early
    <2>3. Completing(c)' => Completing(c)
      BY <1>3, <2>1, ReplyFields DEF Completing
    <2> QED  BY <1>1, <1>3, <2>1, <2>2, <2>3, AnswerTruthful
  <1> QED  BY <1>2, <1>3 DEF ReleaseScript, RejectScript

LEMMA MarkTimes ==
    ASSUME TInv, NEW c \in Calls
    PROVE  /\ now \in Nat /\ call[c].sent \in Nat /\ completed[c] \in Nat \cup {-1}
           /\ RpcTimeout \in Nat /\ CleanupTimeout \in Nat /\ ChallengeTTL \in Nat \ {0}
           /\ RpcTimeout + CleanupTimeout <= ChallengeTTL
  BY DEF TInv, TypeOK, VerifyCall

LEMMA StoreTruthful ==
    ASSUME TInv, ChallengeStep, CallsTruthful, NEW c \in Calls, NEW cmd \in {"complete", "retry"},
           <<c, cmd>> \in net, Stores(c), Reply(c, cmd, "done", "identity")
    PROVE  CallsTruthful'
  <1>0. cmd \in Commands /\ now' = now
    BY DEF Commands, Stores
  <1>1. /\ \/ /\ call[c].pc = cmd /\ net' = net \ {<<c, cmd>>}
              /\ call'[c].pc = "done" /\ call'[c].result = "identity"
           \/ call' = call /\ net' \in {net, net \ {<<c, cmd>>}}
        /\ net' \subseteq net
        /\ \A d \in Calls \ {c} : call'[d] = call[d]
    BY <1>0, ReplyFields
  <1>2. /\ session'[c].state = "stored" /\ completed'[c] = now + ChallengeTTL
        /\ \A d \in Calls \ {c} : session'[d] = session[d] /\ completed'[d] = completed[d]
    <2>1. session'[c] = [state |-> "stored", email |-> challenge[call[c].ch].email,
                         lastSeen |-> now, expires |-> now + SessionTTL]
      BY StoreFields
    <2>2. session'[c].state = "stored"
      BY <2>1
    <2> QED  BY <2>2, StoreFields
  <1>3. Created(c)'
    BY <1>2 DEF Created
  <1>4. \A d \in Calls \ {c} : Truthful(d)'
    <2>1. \A d \in Calls \ {c} : Untouched(d)
      BY <1>1, <1>2 DEF Untouched, Created
    <2> QED  BY <1>0, <1>2, <2>1, UntouchedTruthful DEF CallsTruthful
  <1>5. call[c].pc \notin Early /\ <<c, "verify">> \notin net /\ Completing(c) /\ HoldsLease(c)
    BY DEF Stores, CallsTruthful, Truthful, Ordered
  <1>6. call'[c].pc \notin Early /\ <<c, "verify">> \notin net'
    BY <1>1, <1>5 DEF Early
  <1>7. Ordered(c)'
    <2>1. call'[c].pc # "done" => call'[c].result = "none"
      BY <1>1 DEF CallsTruthful, Truthful, Ordered
    <2> QED  BY <1>6, <2>1 DEF Ordered
  <1>8. Marked(c)'
    <2>1. call'[c].pc \in {"complete", "retry"} => call' = call
      BY <1>1
    <2> QED
      BY <1>0, <1>2, <1>3, <2>1, MarkTimes DEF Marked, CallsTruthful, Truthful
  <1>9. Answered(c)'
    <2>1. call'[c].result \notin {"ErrAuthentication", "ErrRateLimited"}
      BY <1>1, <1>5 DEF CallsTruthful, Truthful, Answered
    <2> QED  BY <1>3, <2>1 DEF Answered
  <1> QED  BY <1>4, <1>7, <1>8, <1>9 DEF CallsTruthful, Truthful

LEMMA CompleteTruthful ==
    ASSUME TInv, ChallengeStep, CallsTruthful, NEW c \in Calls, NEW cmd \in {"complete", "retry"},
           CompleteScript(c, cmd)
    PROVE  CallsTruthful'
  <1>0. /\ cmd \in Commands /\ <<c, cmd>> \in net /\ Completing(c)
        /\ call[c].ch \in Challenges
    BY ScriptMoves DEF CompleteScript, Commands, Completing
  <1>1. CASE /\ AlreadyCompleted(c) /\ Reply(c, cmd, "done", "identity")
             /\ UNCHANGED <<sessVars, challenge>>
    <2>1. Created(c)
      BY <1>1 DEF AlreadyCompleted, CallsTruthful, Truthful, Marked
    <2>2. UNCHANGED <<now, session, completed>>
      BY <1>1 DEF CompleteScript, sessVars
    <2> QED  BY <1>0, <1>1, <2>1, <2>2, AnswerTruthful
  <1>2. CASE /\ ~AlreadyCompleted(c) /\ ~HoldsLease(c) /\ Reply(c, cmd, "done", "ErrAuthentication")
             /\ UNCHANGED <<sessVars, challenge>>
    <2>1. call[c].pc = cmd => ~Created(c)
      BY <1>2, MarkTimes DEF AlreadyCompleted, CallsTruthful, Truthful, Marked
    <2>2. UNCHANGED <<now, session, completed>>
      BY <1>2 DEF CompleteScript, sessVars
    <2>3. ~HoldsLease(c)'
      <3>1. call'[c].ch = call[c].ch
        BY ScriptMoves DEF CallMoves
      <3> QED  BY <1>2, <3>1 DEF HoldsLease, Exists
    <2> QED  BY <1>0, <1>2, <2>1, <2>2, <2>3, AnswerTruthful
  <1>3. CASE /\ ~AlreadyCompleted(c) /\ HoldsLease(c) /\ StoreSession(c)
             /\ Reply(c, cmd, "done", "identity")
    <2>1. Stores(c)
      BY <1>0, <1>3 DEF CompleteScript, Stores
    <2> QED  BY <1>0, <1>3, <2>1, StoreTruthful
  <1> QED  BY <1>1, <1>2, <1>3 DEF CompleteScript

LEMMA AsideTruthful ==
    ASSUME TInv, ChallengeStep, CallsTruthful, NEW c \in Calls, Aside(c)
    PROVE  CallsTruthful'
  <1>0. /\ UNCHANGED <<now, session, completed, challenge>>
        /\ \A d \in Calls : Created(d)' <=> Created(d)
    BY AsideHashes DEF Created
  <1>1. \A d \in Calls \ {c} : Truthful(d)'
    <2>1. \A d \in Calls \ {c} : Untouched(d)
      BY <1>0, AsideMoves DEF CallMoves, Untouched
    <2> QED  BY <1>0, <2>1, UntouchedTruthful DEF CallsTruthful
  <1>t. Truthful(c)
    BY DEF CallsTruthful
  <1>2. ASSUME NEW cmd \in {"complete", "reject", "release"}, call[c].pc = "resolve", Send(c, cmd)
        PROVE  Truthful(c)'
    <2>1. /\ call'[c].pc = cmd /\ call'[c].sent = now /\ call'[c].result = call[c].result
          /\ net' = net \cup {<<c, cmd>>}
      BY <1>2, SendFields DEF Commands
    <2>2. ~Created(c)' /\ ~Completing(c) /\ <<c, "verify">> \notin net /\ call[c].result = "none"
      BY <1>0, <1>2, <1>t DEF Truthful, Ordered, Early
    <2>3. <<c, "verify">> \notin net' /\ (Completing(c)' => cmd = "complete")
      BY <2>1, <2>2 DEF Completing
    <2>4. Ordered(c)'
      BY <2>1, <2>2, <2>3 DEF Ordered, Early
    <2>5. Marked(c)'
      <3>1. completed'[c] = -1
        BY <1>0, <1>t, <2>2 DEF Truthful, Marked
      <3> QED  BY <1>0, <2>1, <2>2, <3>1, MarkTimes DEF Marked
    <2>6. Answered(c)'
      BY <2>1, <2>2 DEF Answered
    <2> QED  BY <2>4, <2>5, <2>6 DEF Truthful
  <1>3. ASSUME call[c].pc = "complete", Send(c, "retry")  PROVE Truthful(c)'
    <2>1. /\ call'[c].pc = "retry" /\ call'[c].sent = now /\ call'[c].result = call[c].result
          /\ net' = net \cup {<<c, "retry">>}
      BY <1>3, SendFields DEF Commands
    <2>2. <<c, "verify">> \notin net' /\ call[c].result = "none"
      BY <1>3, <1>t, <2>1 DEF Truthful, Ordered
    <2>3. Ordered(c)'
      BY <2>1, <2>2 DEF Ordered, Early
    <2>4. Marked(c)'
      <3>1. /\ completed[c] # -1 => Created(c)
            /\ now <= call[c].sent + RpcTimeout
            /\ Created(c) => completed[c] >= call[c].sent + ChallengeTTL
        BY <1>3, <1>t DEF Truthful, Marked
      <3>2. Created(c) => completed[c] >= now + ChallengeTTL - RpcTimeout
        BY <3>1, MarkTimes
      <3> QED  BY <1>0, <2>1, <3>1, <3>2, MarkTimes DEF Marked
    <2>5. Answered(c)'
      BY <2>1, <2>2 DEF Answered
    <2> QED  BY <2>3, <2>4, <2>5 DEF Truthful
  <1>4. ASSUME Finish(c, "error")  PROVE Truthful(c)'
    <2>1. call'[c].pc = "done" /\ call'[c].result = "error" /\ net' = net
      BY <1>4, FinishFields
    <2> QED
      BY <1>0, <1>t, <2>1 DEF Truthful, Ordered, Marked, Answered, Early, Completing
  <1>5. ASSUME Crash(c)  PROVE Truthful(c)'
    <2>1. /\ call[c].pc # "done" /\ call'[c].pc = "crashed" /\ call'[c].result = call[c].result
          /\ net' = net
      BY <1>5 DEF Crash, Waiting, TInv, TypeOK, VerifyCall
    <2>2. call'[c].result = "none"
      BY <1>t, <2>1 DEF Truthful, Ordered
    <2> QED
      BY <1>0, <1>t, <2>1, <2>2 DEF Truthful, Ordered, Marked, Answered, Early, Completing
  <1>6. Truthful(c)'
    <2>1. CASE ResolveCommits(c) \/ ResolveRefuses(c) \/ ResolveFails(c)
      BY <1>2, <2>1 DEF ResolveCommits, ResolveRefuses, ResolveFails
    <2>2. CASE GiveUp(c)
      BY <1>3, <1>4, <2>2 DEF GiveUp
    <2> QED  BY <1>5, <2>1, <2>2 DEF Aside
  <1> QED  BY <1>1, <1>6 DEF CallsTruthful

LEMMA BeginTruthful ==
    ASSUME TInv, ChallengeStep, CallsTruthful, NEW c \in Calls, NEW ch \in Challenges,
           NEW match \in BOOLEAN, NEW src \in Sources, BeginVerify(c, ch, match, src)
    PROVE  CallsTruthful'
  <1>0. /\ UNCHANGED <<now, session, completed>>
        /\ \A d \in Calls : Created(d)' <=> Created(d)
    BY DEF BeginVerify, sessVars, Created
  <1>1. /\ call[c].pc = "idle" /\ call'[c].pc = "verify" /\ call'[c].result = call[c].result
        /\ net' = net \cup {<<c, "verify">>}
        /\ \A d \in Calls \ {c} : call'[d] = call[d]
    BY DEF TInv, TypeOK, VerifyCall, BeginVerify
  <1>2. \A d \in Calls \ {c} : Truthful(d)'
    <2>1. \A d \in Calls \ {c} : Untouched(d)
      BY <1>0, <1>1 DEF Untouched
    <2> QED  BY <1>0, <2>1, UntouchedTruthful DEF CallsTruthful
  <1>3. ~Completing(c)' /\ ~Created(c)' /\ call'[c].result = "none"
    BY <1>0, <1>1 DEF CallsTruthful, Truthful, Ordered, Early, Completing
  <1>4. Truthful(c)'
    BY <1>0, <1>1, <1>3 DEF CallsTruthful, Truthful, Ordered, Marked, Answered
  <1> QED  BY <1>2, <1>4 DEF CallsTruthful

LEMMA TickTruthful ==
    ASSUME TInv, ChallengeStep, CallsTruthful, Tick
    PROVE  CallsTruthful'
  <1> SUFFICES ASSUME NEW c \in Calls  PROVE Truthful(c)'
    BY DEF CallsTruthful
  <1>0. /\ now' = now + 1 /\ UNCHANGED <<call, net>>
        /\ completed'[c] = IF completed[c] < now' THEN -1 ELSE completed[c]
        /\ call[c].pc = "complete" => now < call[c].sent + RpcTimeout
        /\ call[c].pc = "retry" => now < call[c].sent + CleanupTimeout
    BY DEF Tick, ExpireKeys
  <1>1. Created(c)' <=> Created(c)
    BY TickSessions, CreatedKept
  <1>t. Truthful(c)
    BY DEF CallsTruthful
  <1>2. Ordered(c)'
    BY <1>0, <1>1, <1>t DEF Truthful, Ordered, Completing
  <1>3. Marked(c)'
    <2>1. completed'[c] # -1 => Created(c)'
      BY <1>0, <1>1, <1>t DEF Truthful, Marked
    <2>2. CASE call[c].pc = "complete"
      BY <1>0, <1>1, <1>t, <2>1, <2>2, MarkTimes DEF Truthful, Marked
    <2>3. CASE call[c].pc = "retry"
      BY <1>0, <1>1, <1>t, <2>1, <2>3, MarkTimes DEF Truthful, Marked
    <2> QED  BY <1>0, <2>1, <2>2, <2>3 DEF Marked
  <1>4. Answered(c)'
    <2>1. Completing(c)' /\ HoldsLease(c)' => HoldsLease(c)
      BY <1>0, <1>t, LeaseNotRegained DEF Truthful, Completing
    <2> QED  BY <1>0, <1>1, <1>t, <2>1 DEF Truthful, Answered, Completing
  <1> QED  BY <1>2, <1>3, <1>4 DEF Truthful

LEMMA NextTruthful ==
    TInv /\ OneGrant /\ SessionsIndexed /\ CallsTruthful /\ [Next]_vars => CallsTruthful'
  <1> SUFFICES ASSUME TInv, OneGrant, SessionsIndexed, CallsTruthful, [Next]_vars
               PROVE  CallsTruthful'
    OBVIOUS
  <1>1. CASE UNCHANGED vars
    BY <1>1 DEF CallsTruthful, Truthful, Ordered, Marked, Answered, Completing, Created,
                HoldsLease, Exists, vars
  <1>2. CASE Next
    <2>0. ChallengeStep
      BY <1>2, ChallengeSteps
    <2>1. ASSUME UNCHANGED <<call, net, now, completed>>,
                 \A d \in Calls : Created(d)' <=> Created(d)
          PROVE  CallsTruthful'
      <3>1. \A d \in Calls : Untouched(d) /\ completed'[d] = completed[d]
        BY <2>1 DEF Untouched
      <3> QED  BY <2>0, <2>1, <3>1, UntouchedTruthful DEF CallsTruthful
    <2>2. CASE Requests
      BY <2>1, <2>2 DEF Requests, Reserve, SendMail, Invalidate, sessVars, Created
    <2>3. CASE SessionSteps
      <3>1. UNCHANGED <<call, net, now, completed>>
        BY <2>3 DEF SessionSteps, AuthenticateSession, RevokeSession, RevokeAllSessions,
                    RevokeIdentitySessions, CommitDisable, sessVars
      <3> QED  BY <2>1, <2>3, <3>1, RevokeIndexed, CreatedKept
    <2>4. ASSUME NEW c \in Calls, CallStep(c) \/ Crash(c)  PROVE CallsTruthful'
      BY <2>0, <2>4, VerifyTruthful, LeaseEndTruthful, CompleteTruthful, AsideTruthful
         DEF CallStep, Aside
    <2> QED
      BY <1>2, <2>0, <2>2, <2>3, <2>4, BeginTruthful, TickTruthful DEF Next, SignIn, Guess
  <1> QED  BY <1>1, <1>2

LEMMA InitTruthful == Init => CallsTruthful
  BY DEF Init, CallsTruthful, Truthful, Ordered, Marked, Answered, Completing, Created, Early

(* The answer of Store.Verify is true: "identity" only with the session     *)
(* stored, and a definite refusal only if no session of the call exists or  *)
(* ever will, although a completion may run, lose its reply, be retried and *)
(* run once more after the caller is gone.  It rests on the mark outliving  *)
(* the wait: RpcTimeout + CleanupTimeout <= ChallengeTTL.                   *)
THEOREM AnswersTrue == Spec => []AnswerMatchesSession
  <1>1. CallsTruthful => AnswerMatchesSession
    BY DEF CallsTruthful, Truthful, Answered, AnswerMatchesSession
  <1> QED
    BY <1>1, InitIdentified, InitTruthful, SoundAlways, NextIndexed, NextTruthful, PTL DEF Spec

-----------------------------------------------------------------------------
(* Budgets.                                                                *)

(* A budget's set at time t: every entry is in the window that ends at t,   *)
(* and there are no more of them than the limit.                            *)
Within(zset, limit, t) ==
    /\ IsFiniteSet(zset)
    /\ Cardinality(zset) <= limit
    /\ \A x \in zset : x[1] <= t /\ t < x[1] + Window

LEMMA AllRecent ==
    ASSUME NEW A, NEW zset \in SUBSET (Nat \X A), NEW limit, NEW t \in Nat,
           Within(zset, limit, t)
    PROVE  Recent(zset, t) = zset /\ {x \in zset : t - x[1] < Window} = zset
  <1>1. Window \in Nat /\ \A x \in zset : x[1] \in Nat
    OBVIOUS
  <1>2. \A x \in zset : t < x[1] + Window
    BY DEF Within
  <1>3. \A x \in zset : x[1] > t - Window /\ t - x[1] < Window
    BY <1>1, <1>2
  <1> QED  BY <1>3 DEF Recent

LEMMA WithinCount ==
    ASSUME NEW A, NEW zset \in SUBSET (Nat \X A), NEW limit, NEW t \in Nat,
           Within(zset, limit, t)
    PROVE  Cardinality({x \in zset : t - x[1] < Window}) <= limit
  BY AllRecent DEF Within

LEMMA ChargeWithin ==
    ASSUME NEW A, NEW zset \in SUBSET (Nat \X A), NEW limit \in Nat, NEW t \in Nat, NEW a \in A,
           Within(zset, limit, t), Cardinality(Recent(zset, t)) < limit
    PROVE  Within(zset \cup {<<t, a>>}, limit, t)
  <1> DEFINE e == <<t, a>>
  <1>1. Cardinality(zset) < limit /\ IsFiniteSet(zset)
    BY AllRecent DEF Within
  <1>2. /\ IsFiniteSet(zset \cup {e})
        /\ \/ Cardinality(zset \cup {e}) = Cardinality(zset)
           \/ Cardinality(zset \cup {e}) = Cardinality(zset) + 1
    BY <1>1, FS_AddElement
  <1>3. Cardinality(zset) \in Nat
    BY <1>1, FS_CardinalityType
  <1>4. Cardinality(zset \cup {e}) <= limit
    BY <1>1, <1>2, <1>3
  <1>5. e[1] = t /\ t < t + Window /\ t <= t
    OBVIOUS
  <1> HIDE DEF e
  <1>6. \A x \in zset \cup {e} : x[1] <= t /\ t < x[1] + Window
    BY <1>5 DEF Within
  <1> QED  BY <1>2, <1>4, <1>6 DEF Within, e

LEMMA TickWithin ==
    ASSUME NEW A, NEW zset \in SUBSET (Nat \X A), NEW limit \in Nat, NEW t \in Nat,
           Within(zset, limit, t)
    PROVE  Within({x \in zset : x[1] + Window > t + 1}, limit, t + 1)
  <1> DEFINE z == {x \in zset : x[1] + Window > t + 1}
  <1>1. IsFiniteSet(z) /\ Cardinality(z) <= Cardinality(zset) /\ IsFiniteSet(zset)
    <2>1. z \subseteq zset /\ IsFiniteSet(zset)
      BY DEF Within
    <2> HIDE DEF z
    <2> QED  BY <2>1, FS_Subset
  <1>2. Cardinality(z) \in Nat /\ Cardinality(zset) \in Nat
    BY <1>1, FS_CardinalityType
  <1>3. Cardinality(z) <= limit
    BY <1>1, <1>2 DEF Within
  <1>4. \A x \in z : x[1] \in Nat /\ x[1] <= t /\ x[1] + Window > t + 1
    BY DEF Within
  <1>5. \A x \in z : x[1] <= t + 1 /\ t + 1 < x[1] + Window
    BY <1>4
  <1> HIDE DEF z
  <1> QED  BY <1>1, <1>3, <1>5 DEF Within, z

Apart(zset) ==
    \A x, y \in zset : x[2] # y[2] => x[1] - y[1] >= SendGap \/ y[1] - x[1] >= SendGap

Charged ==
    /\ \A e \in Emails : /\ Within(sendAddress[e], AddressSendLimit, now)
                         /\ Within(verifyAddress[e], AddressVerifyLimit, now)
                         /\ Apart(sendAddress[e])
    /\ \A s \in Sources : /\ Within(sendSource[s], SourceSendLimit, now)
                          /\ Within(verifySource[s], SourceVerifyLimit, now)

LEMMA LimitTypes ==
    /\ AddressSendLimit \in Nat /\ SourceSendLimit \in Nat
    /\ AddressVerifyLimit \in Nat /\ SourceVerifyLimit \in Nat
  OBVIOUS

LEMMA BudgetTypes ==
    ASSUME TInv
    PROVE  /\ now \in Nat
           /\ \A e \in Emails : /\ sendAddress[e] \in SUBSET (Nat \X Challenges)
                                /\ verifyAddress[e] \in SUBSET (Nat \X Calls)
           /\ \A s \in Sources : /\ sendSource[s] \in SUBSET (Nat \X Challenges)
                                 /\ verifySource[s] \in SUBSET (Nat \X Calls)
  BY DEF TInv, TypeOK

LEMMA ReserveCharged ==
    ASSUME TInv, Charged, NEW ch \in Challenges, NEW e \in Emails, NEW src \in Sources,
           Reserve(ch, e, src)
    PROVE  Charged'
  <1>1. /\ now' = now /\ UNCHANGED <<verifySource, verifyAddress>>
        /\ sendAddress'[e] = sendAddress[e] \cup {<<now, ch>>}
        /\ \A x \in Emails \ {e} : sendAddress'[x] = sendAddress[x]
        /\ sendSource'[src] = sendSource[src] \cup {<<now, ch>>}
        /\ \A s \in Sources \ {src} : sendSource'[s] = sendSource[s]
        /\ SendAllowed(e, src)
    BY DEF TInv, TypeOK, Reserve
  <1>2. Within(sendAddress'[e], AddressSendLimit, now)
    <2>1. /\ sendAddress[e] \in SUBSET (Nat \X Challenges) /\ now \in Nat
          /\ Within(sendAddress[e], AddressSendLimit, now)
          /\ Cardinality(Recent(sendAddress[e], now)) < AddressSendLimit
      BY <1>1, BudgetTypes DEF Charged, SendAllowed
    <2>2. Within(sendAddress[e] \cup {<<now, ch>>}, AddressSendLimit, now)
      BY <2>1, LimitTypes, ChargeWithin
    <2> QED  BY <1>1, <2>2
  <1>3. Within(sendSource'[src], SourceSendLimit, now)
    <2>1. /\ sendSource[src] \in SUBSET (Nat \X Challenges) /\ now \in Nat
          /\ Within(sendSource[src], SourceSendLimit, now)
          /\ Cardinality(Recent(sendSource[src], now)) < SourceSendLimit
      BY <1>1, BudgetTypes DEF Charged, SendAllowed
    <2>2. Within(sendSource[src] \cup {<<now, ch>>}, SourceSendLimit, now)
      BY <2>1, LimitTypes, ChargeWithin
    <2> QED  BY <1>1, <2>2
  <1>4. Apart(sendAddress'[e])
    <2>1. \A x \in sendAddress[e] : now - x[1] >= SendGap
      <3>1. Recent(sendAddress[e], now) = sendAddress[e]
        BY BudgetTypes, AllRecent DEF Charged
      <3> QED  BY <1>1, <3>1 DEF SendAllowed
    <2>2. Apart(sendAddress[e])
      BY DEF Charged
    <2> DEFINE w == <<now, ch>>
    <2>3. w[1] = now /\ w[2] = ch
      OBVIOUS
    <2> HIDE DEF w
    <2>4. Apart(sendAddress[e] \cup {w})
      BY <2>1, <2>2, <2>3 DEF Apart
    <2> QED  BY <1>1, <2>4 DEF w
  <1> QED  BY <1>1, <1>2, <1>3, <1>4 DEF Charged

LEMMA VerifyCharged ==
    ASSUME TInv, ChallengesSound, Charged, NEW c \in Calls, VerifyScript(c)
    PROVE  Charged'
  <1> DEFINE ch == call[c].ch
             src == call[c].source
             e == challenge[ch].email
  <1>0. /\ ch \in Challenges /\ src \in Sources /\ now \in Nat
        /\ verifySource[src] \in SUBSET (Nat \X Calls)
    BY ScriptMoves, BudgetTypes
  <1>1. now' = now /\ UNCHANGED <<sendAddress, sendSource>>
    BY DEF VerifyScript
  <1>2. \A s \in Sources : Within(verifySource'[s], SourceVerifyLimit, now)
    <2>1. CASE UNCHANGED verifySource
      BY <2>1 DEF Charged
    <2>2. CASE /\ ~(Cardinality(Recent(verifySource[src], now)) >= SourceVerifyLimit)
               /\ verifySource' = [verifySource EXCEPT ![src] = @ \cup {<<now, c>>}]
      <3>1. Within(verifySource[src], SourceVerifyLimit, now)
        BY <1>0 DEF Charged
      <3>2. Cardinality(Recent(verifySource[src], now)) < SourceVerifyLimit
        <4>1. Recent(verifySource[src], now) = verifySource[src]
          BY <1>0, <3>1, AllRecent
        <4>2. Cardinality(verifySource[src]) \in Nat
          BY <3>1, FS_CardinalityType DEF Within
        <4> QED  BY <2>2, <4>1, <4>2, LimitTypes
      <3>3. Within(verifySource[src] \cup {<<now, c>>}, SourceVerifyLimit, now)
        BY <1>0, <3>1, <3>2, LimitTypes, ChargeWithin
      <3> QED  BY <1>0, <2>2, <3>3 DEF Charged, TInv, TypeOK
    <2> QED  BY <2>1, <2>2 DEF VerifyScript
  <1>3. \A x \in Emails : Within(verifyAddress'[x], AddressVerifyLimit, now)
    <2>1. CASE UNCHANGED verifyAddress
      BY <2>1 DEF Charged
    <2>2. CASE Redeemable(ch) /\ Mismatch(c, ch) /\ ~UNCHANGED verifyAddress
      <3>1. /\ ~(Cardinality(Recent(verifyAddress[e], now)) >= AddressVerifyLimit)
            /\ verifyAddress' = [verifyAddress EXCEPT ![e] = @ \cup {<<now, c>>}]
        BY <2>2 DEF Mismatch
      <3>2. e \in Emails
        BY <1>0, <2>2 DEF Redeemable, Exists, ChallengesSound, Sound
      <3>3. Within(verifyAddress[e], AddressVerifyLimit, now)
            /\ verifyAddress[e] \in SUBSET (Nat \X Calls)
        BY <3>2, BudgetTypes DEF Charged
      <3>4. Cardinality(Recent(verifyAddress[e], now)) < AddressVerifyLimit
        <4>1. Recent(verifyAddress[e], now) = verifyAddress[e]
          BY <1>0, <3>3, AllRecent
        <4>2. Cardinality(verifyAddress[e]) \in Nat
          BY <3>3, FS_CardinalityType DEF Within
        <4> QED  BY <3>1, <4>1, <4>2, LimitTypes
      <3>5. Within(verifyAddress[e] \cup {<<now, c>>}, AddressVerifyLimit, now)
        BY <1>0, <3>3, <3>4, LimitTypes, ChargeWithin
      <3> QED  BY <3>1, <3>2, <3>5 DEF Charged, TInv, TypeOK
    <2> QED  BY <2>1, <2>2 DEF VerifyScript, Match
  <1> QED  BY <1>1, <1>2, <1>3 DEF Charged

LEMMA TickCharged ==
    ASSUME TInv, Charged, Tick
    PROVE  Charged'
  <1>0. now' = now + 1 /\ now \in Nat
    BY BudgetTypes DEF Tick
  <1>1. ASSUME NEW e \in Emails
        PROVE  /\ Within(sendAddress'[e], AddressSendLimit, now + 1)
               /\ Apart(sendAddress'[e])
    <2>1. sendAddress'[e] = {x \in sendAddress[e] : x[1] + Window > now + 1}
      BY <1>0 DEF Tick
    <2>2. Within({x \in sendAddress[e] : x[1] + Window > now + 1}, AddressSendLimit, now + 1)
      BY <1>0, BudgetTypes, LimitTypes, TickWithin DEF Charged
    <2> QED  BY <2>1, <2>2 DEF Charged, Apart
  <1>2. ASSUME NEW e \in Emails
        PROVE  Within(verifyAddress'[e], AddressVerifyLimit, now + 1)
    <2>1. verifyAddress'[e] = {x \in verifyAddress[e] : x[1] + Window > now + 1}
      BY <1>0 DEF Tick
    <2>2. Within({x \in verifyAddress[e] : x[1] + Window > now + 1}, AddressVerifyLimit, now + 1)
      BY <1>0, BudgetTypes, LimitTypes, TickWithin DEF Charged
    <2> QED  BY <2>1, <2>2
  <1>3. ASSUME NEW s \in Sources
        PROVE  Within(sendSource'[s], SourceSendLimit, now + 1)
    <2>1. sendSource'[s] = {x \in sendSource[s] : x[1] + Window > now + 1}
      BY <1>0 DEF Tick
    <2>2. Within({x \in sendSource[s] : x[1] + Window > now + 1}, SourceSendLimit, now + 1)
      BY <1>0, BudgetTypes, LimitTypes, TickWithin DEF Charged
    <2> QED  BY <2>1, <2>2
  <1>4. ASSUME NEW s \in Sources
        PROVE  Within(verifySource'[s], SourceVerifyLimit, now + 1)
    <2>1. verifySource'[s] = {x \in verifySource[s] : x[1] + Window > now + 1}
      BY <1>0 DEF Tick
    <2>2. Within({x \in verifySource[s] : x[1] + Window > now + 1}, SourceVerifyLimit, now + 1)
      BY <1>0, BudgetTypes, LimitTypes, TickWithin DEF Charged
    <2> QED  BY <2>1, <2>2
  <1> QED  BY <1>0, <1>1, <1>2, <1>3, <1>4 DEF Charged

LEMMA NextCharged == TInv /\ ChallengesSound /\ Charged /\ [Next]_vars => Charged'
  <1> SUFFICES ASSUME TInv, ChallengesSound, Charged, [Next]_vars  PROVE Charged'
    OBVIOUS
  <1>1. ASSUME UNCHANGED <<now, sendAddress, sendSource, verifySource, verifyAddress>>
        PROVE  Charged'
    BY <1>1 DEF Charged
  <1>2. CASE UNCHANGED vars \/ (\E match \in BOOLEAN : Guess(match)) \/ SessionSteps
    BY <1>1, <1>2 DEF vars, Guess, BeginVerify, SessionSteps, AuthenticateSession, RevokeSession,
                      RevokeAllSessions, RevokeIdentitySessions, CommitDisable, budgetVars
  <1>3. ASSUME NEW ch \in Challenges, SendMail(ch) \/ Invalidate(ch)  PROVE Charged'
    BY <1>1, <1>3 DEF SendMail, Invalidate, budgetVars
  <1>4. ASSUME NEW c \in Calls, CallStep(c) \/ Crash(c)  PROVE Charged'
    <2>1. CASE Aside(c)
      BY <1>1, <2>1, AsideHashes
    <2>2. CASE ReleaseScript(c) \/ RejectScript(c)
               \/ \E cmd \in {"complete", "retry"} : CompleteScript(c, cmd)
      BY <1>1, <2>2 DEF ReleaseScript, RejectScript, CompleteScript, budgetVars
    <2> QED  BY <1>4, <2>1, <2>2, VerifyCharged DEF CallStep, Aside
  <1> QED
    BY <1>2, <1>3, <1>4, ReserveCharged, TickCharged DEF Next, SignIn, Requests

(* The budgets of reserveScript and verifyScript hold in every window, for  *)
(* any limits, window and gap and any number of racing callers, and sends   *)
(* to one address are at least SendGap apart.                               *)
THEOREM BudgetsAlwaysHold == Spec => []BudgetsHold
  <1>1. Init => Charged
    <2>1. IsFiniteSet({}) /\ Cardinality({}) = 0
      BY FS_EmptySet
    <2>2. /\ 0 <= AddressSendLimit /\ 0 <= SourceSendLimit
          /\ 0 <= AddressVerifyLimit /\ 0 <= SourceVerifyLimit
      BY LimitTypes
    <2>3. /\ Within({}, AddressSendLimit, 0) /\ Within({}, SourceSendLimit, 0)
          /\ Within({}, AddressVerifyLimit, 0) /\ Within({}, SourceVerifyLimit, 0)
          /\ Apart({})
      BY <2>1, <2>2 DEF Within, Apart
    <2> QED  BY <2>3 DEF Init, Charged
  <1>2. TInv /\ Charged => BudgetsHold
    <2> SUFFICES ASSUME TInv, Charged  PROVE BudgetsHold
      OBVIOUS
    <2>1. ASSUME NEW e \in Emails
          PROVE  /\ Cardinality({x \in sendAddress[e] : now - x[1] < Window}) <= AddressSendLimit
                 /\ Cardinality({x \in verifyAddress[e] : now - x[1] < Window}) <= AddressVerifyLimit
      <3>1. /\ sendAddress[e] \in SUBSET (Nat \X Challenges) /\ now \in Nat
            /\ Within(sendAddress[e], AddressSendLimit, now)
        BY BudgetTypes DEF Charged
      <3>2. /\ verifyAddress[e] \in SUBSET (Nat \X Calls) /\ now \in Nat
            /\ Within(verifyAddress[e], AddressVerifyLimit, now)
        BY BudgetTypes DEF Charged
      <3>3. Cardinality({x \in sendAddress[e] : now - x[1] < Window}) <= AddressSendLimit
        BY <3>1, WithinCount
      <3>4. Cardinality({x \in verifyAddress[e] : now - x[1] < Window}) <= AddressVerifyLimit
        BY <3>2, WithinCount
      <3> QED  BY <3>3, <3>4
    <2>2. ASSUME NEW s \in Sources
          PROVE  /\ Cardinality({x \in sendSource[s] : now - x[1] < Window}) <= SourceSendLimit
                 /\ Cardinality({x \in verifySource[s] : now - x[1] < Window}) <= SourceVerifyLimit
      <3>1. /\ sendSource[s] \in SUBSET (Nat \X Challenges) /\ now \in Nat
            /\ Within(sendSource[s], SourceSendLimit, now)
        BY BudgetTypes DEF Charged
      <3>2. /\ verifySource[s] \in SUBSET (Nat \X Calls) /\ now \in Nat
            /\ Within(verifySource[s], SourceVerifyLimit, now)
        BY BudgetTypes DEF Charged
      <3>3. Cardinality({x \in sendSource[s] : now - x[1] < Window}) <= SourceSendLimit
        BY <3>1, WithinCount
      <3>4. Cardinality({x \in verifySource[s] : now - x[1] < Window}) <= SourceVerifyLimit
        BY <3>2, WithinCount
      <3> QED  BY <3>3, <3>4
    <2> QED  BY <2>1, <2>2 DEF Charged, Apart, BudgetsHold
  <1> QED  BY <1>1, <1>2, SoundAlways, NextCharged, PTL DEF Spec

-----------------------------------------------------------------------------
(* AuthRedis implements LoginContract: a step opens one code, redeems one,  *)
(* or lets codes and sessions lapse.                                       *)

CodeLapses(ch) ==
    \/ codes'[ch] = codes[ch]
    \/ codes[ch] = "open" /\ codes'[ch] = "closed"

SessionLapses(s) ==
    \/ sessions'[s] = sessions[s]
    \/ sessions[s] = "live" /\ sessions'[s] = "ended"

LEMMA LapseStep ==
    ASSUME \A ch \in Challenges : CodeLapses(ch), \A s \in Calls : SessionLapses(s),
           \A s \in Calls : grants'[s] = grants[s]
    PROVE  Contract!Next
  <1> DEFINE C == {ch \in Challenges : codes[ch] = "open" /\ codes'[ch] = "closed"}
             S == {s \in Calls : sessions[s] = "live" /\ sessions'[s] = "ended"}
  <1>1. codes' = [d \in Challenges |-> IF d \in C THEN "closed" ELSE codes[d]]
    <2>1. codes' = [d \in Challenges |-> codes'[d]]
      BY DEF codes
    <2> QED  BY <2>1 DEF CodeLapses
  <1>2. sessions' = [s \in Calls |-> IF s \in S THEN "ended" ELSE sessions[s]]
    <2>1. sessions' = [s \in Calls |-> sessions'[s]]
      BY DEF sessions
    <2> QED  BY <2>1 DEF SessionLapses
  <1>3. grants' = grants
    <2>1. grants' = [s \in Calls |-> grants'[s]] /\ grants = [s \in Calls |-> grants[s]]
      BY DEF grants
    <2> QED  BY <2>1
  <1>4. Contract!Lapse(C, S)
    BY <1>1, <1>2, <1>3 DEF Contract!Lapse
  <1>5. C \in SUBSET Challenges /\ S \in SUBSET Calls
    OBVIOUS
  <1> QED  BY <1>4, <1>5 DEF Contract!Next

LEMMA CodeMoves ==
    ASSUME TInv, NEW ch \in Challenges, HashMoves(ch)
    PROVE  CodeLapses(ch)
  <1>0. challenge[ch] \in ChallengeHash
    BY DEF TInv, TypeOK
  <1>1. CASE challenge[ch].state = "stored" /\ challenge'[ch] = DeletedChallenge(challenge[ch])
    <2>1. challenge'[ch].state = "gone"
      BY <1>0, <1>1, DeletedFields
    <2> QED  BY <1>1, <2>1 DEF CodeLapses, codes, Open, Exists
  <1>2. CASE Kept(challenge[ch], challenge'[ch], ch)
    <2>1. challenge'[ch].state = challenge[ch].state /\ (Open(ch)' => Open(ch))
      BY <1>2 DEF Kept, Open, Exists
    <2> QED  BY <2>1 DEF CodeLapses, codes
  <1> QED  BY <1>1, <1>2 DEF HashMoves

LEMMA SessionMovesLapse ==
    ASSUME TInv, SessionsMove, now' \in {now, now + 1}, NEW s \in Calls
    PROVE  SessionLapses(s)
  <1>0. /\ now \in Nat /\ IdleTTL \in Nat
        /\ session[s].expires \in Nat /\ session[s].lastSeen \in Nat
    BY DEF TInv, TypeOK, SessionHash
  <1>1. Created(s)' <=> Created(s)
    BY CreatedKept
  <1>2. Live(s)' => Live(s)
    <2> SUFFICES ASSUME Live(s)'  PROVE Live(s)
      OBVIOUS
    <2>1. SessionKept(session[s], session'[s], s)
      BY DEF Live, SessionExists, SessionsMove, SessionMoves
    <2>2. CASE session'[s].lastSeen = session[s].lastSeen
      BY <1>0, <2>1, <2>2 DEF SessionKept, Live, SessionExists, Fresh
    <2>3. CASE SessionExists(s) /\ Fresh(s)
      BY <2>3 DEF Live
    <2> QED  BY <2>1, <2>2, <2>3 DEF SessionKept
  <1> QED  BY <1>1, <1>2 DEF SessionLapses, sessions

LEMMA GrantsKept ==
    ASSUME TInv, OneGrant, InputsKept, NEW s \in Calls, Created(s)' <=> Created(s)
    PROVE  grants'[s] = grants[s]
  BY DEF OneGrant, InputsKept, grants

LEMMA ReserveRefines ==
    ASSUME TInv, OneGrant, NEW ch \in Challenges, NEW e \in Emails, NEW src \in Sources,
           Reserve(ch, e, src)
    PROVE  Contract!Next
  <1> DEFINE C == {d \in Challenges : codes[d] = "open" /\ codes'[d] = "closed"}
  <1>1. codes[ch] = "unissued" /\ codes'[ch] = "open"
    <2>1. challenge[ch].state = "none" /\ challenge'[ch] = FreshChallenge(e)
      BY ReserveHashes
    <2>2. challenge'[ch].state = "stored" /\ challenge'[ch].active
      BY <2>1, FreshFields, ZenonT(40)
    <2> QED  BY <2>1, <2>2 DEF codes, Open, Exists
  <1>2. \A d \in Challenges \ {ch} : CodeLapses(d)
    BY ReserveHashes, CodeMoves DEF HashMoves
  <1>3. codes' = [d \in Challenges |->
           IF d = ch THEN "open" ELSE IF d \in C THEN "closed" ELSE codes[d]]
    <2>1. codes' = [d \in Challenges |-> codes'[d]]
      BY DEF codes
    <2> QED  BY <1>1, <1>2, <2>1 DEF CodeLapses
  <1>4. UNCHANGED <<now, session, call>>
    BY DEF Reserve, sessVars
  <1>5. UNCHANGED <<sessions, grants>>
    BY <1>4 DEF sessions, grants, Created, Live, SessionExists, Fresh
  <1>6. Contract!Issue(ch, C)
    BY <1>1, <1>3, <1>5 DEF Contract!Issue
  <1>7. C \in SUBSET Challenges
    OBVIOUS
  <1> QED  BY <1>6, <1>7 DEF Contract!Next

LEMMA StoreRefines ==
    ASSUME TInv, OneGrant, InputsKept, NEW c \in Calls, Stores(c)
    PROVE  Contract!Next
  <1> DEFINE ch == call[c].ch
             S == {s \in Calls : sessions[s] = "live" /\ sessions'[s] = "ended"}
  <1>0. /\ ch \in Challenges /\ challenge[ch].state = "stored" /\ challenge[ch].lease = c
        /\ c # None /\ now' = now /\ now \in Nat
    BY DEF Stores, HoldsLease, Exists, TInv, TypeOK
  <1>1. /\ challenge'[ch] = DeletedChallenge(challenge[ch])
        /\ \A d \in Challenges : d # ch => challenge'[d] = challenge[d]
    BY StoreHashes DEF Stores
  <1>2. challenge'[ch].state = "gone"
    BY <1>0, <1>1, HashStates DEF TInv, TypeOK
  <1>3. codes[ch] = "open" /\ codes' = [codes EXCEPT ![ch] = "closed"]
    <2>1. codes[ch] = "open" /\ codes'[ch] = "closed"
      BY <1>0, <1>2 DEF codes, Open, Exists
    <2>2. \A d \in Challenges \ {ch} : codes'[d] = codes[d]
      BY <1>1 DEF codes, Open, Exists
    <2>3. codes' = [d \in Challenges |-> codes'[d]] /\ codes = [d \in Challenges |-> codes[d]]
      BY DEF codes
    <2> QED  BY <2>1, <2>2, <2>3
  <1>4. \A s \in Calls \ {c} : session'[s] = session[s]
    BY StoreFields
  <1>5. /\ session'[c].state = "stored" /\ session'[c].lastSeen = now
        /\ session'[c].expires = now + SessionTTL
    <2>1. session'[c] = [state |-> "stored", email |-> challenge[call[c].ch].email,
                         lastSeen |-> now, expires |-> now + SessionTTL]
      BY StoreFields
    <2> QED  BY <2>1
  <1>6. sessions[c] = "none" /\ sessions'[c] = "live"
    <2>1. ~Created(c)
      BY <1>0 DEF OneGrant
    <2>2. now < now + SessionTTL /\ now < now + IdleTTL
      BY <1>0
    <2> QED  BY <1>0, <1>5, <2>1, <2>2 DEF sessions, Created, Live, SessionExists, Fresh
  <1>7. \A s \in Calls \ {c} : sessions'[s] = sessions[s]
    BY <1>0, <1>4 DEF sessions, Created, Live, SessionExists, Fresh
  <1>8. sessions' = [s \in Calls |->
           IF s = c THEN "live" ELSE IF s \in S THEN "ended" ELSE sessions[s]]
    <2>1. sessions' = [s \in Calls |-> sessions'[s]]
      BY DEF sessions
    <2> QED  BY <1>6, <1>7, <2>1
  <1>9. grants' = [grants EXCEPT ![c] = ch]
    <2>1. grants'[c] = ch
      <3>1. call[c].pc # "idle"
        BY DEF Stores, Completing, TInv, Begun, Commands
      <3> QED  BY <1>5, <3>1 DEF grants, Created, InputsKept
    <2>2. \A s \in Calls \ {c} : grants'[s] = grants[s]
      BY <1>4, GrantsKept DEF Created
    <2>3. grants' = [s \in Calls |-> grants'[s]] /\ grants = [s \in Calls |-> grants[s]]
      BY DEF grants
    <2> QED  BY <2>1, <2>2, <2>3
  <1>10. Contract!Redeem(c, ch, S)
    BY <1>3, <1>6, <1>8, <1>9 DEF Contract!Redeem
  <1>11. S \in SUBSET Calls
    OBVIOUS
  <1> QED  BY <1>0, <1>10, <1>11 DEF Contract!Next

LEMMA RefinesNext == TInv /\ OneGrant /\ SessionsIndexed /\ Next => Contract!Next
  <1> SUFFICES ASSUME TInv, OneGrant, SessionsIndexed, Next  PROVE Contract!Next
    OBVIOUS
  <1>0. InputsKept
    BY InputSteps
  <1>1. CASE Reserves
    BY <1>1, ReserveRefines DEF Reserves
  <1>2. CASE \E c \in Calls : Stores(c)
    BY <1>0, <1>2, StoreRefines
  <1>3. CASE HashesMove /\ SessionsMove
    <2>1. now' \in {now, now + 1}
      <3>1. ASSUME NEW c \in Calls, CallStep(c) \/ Crash(c)  PROVE now' = now
        BY <3>1, AsideHashes DEF CallStep, VerifyScript, ReleaseScript, RejectScript,
                                 CompleteScript, Aside
      <3> QED
        BY <3>1 DEF Next, SignIn, Requests, Reserve, SendMail, Invalidate, Guess, BeginVerify,
                    Tick, SessionSteps, AuthenticateSession, RevokeSession, RevokeAllSessions,
                    RevokeIdentitySessions, CommitDisable
    <2>2. \A ch \in Challenges : CodeLapses(ch)
      BY <1>3, CodeMoves DEF HashesMove
    <2>3. \A s \in Calls : SessionLapses(s)
      BY <1>3, <2>1, SessionMovesLapse
    <2>4. \A s \in Calls : grants'[s] = grants[s]
      BY <1>0, <1>3, CreatedKept, GrantsKept
    <2> QED  BY <2>2, <2>3, <2>4, LapseStep
  <1> QED  BY <1>1, <1>2, <1>3, HashSteps, SessionKinds

(* The store over Redis and PostgreSQL implements LoginContract for every   *)
(* number of calls, codes and addresses: every script, transaction, lost    *)
(* reply, crash and expiry is a step of the contract or none.               *)
THEOREM RedisImplements == Spec => ImplementsContract
  <1>1. Init => Contract!Init
    BY DEF Init, Contract!Init, codes, sessions, grants, Created
  <1>2. TInv /\ OneGrant /\ SessionsIndexed /\ [Next]_vars => [Contract!Next]_(Contract!vars)
    <2>1. UNCHANGED vars => UNCHANGED Contract!vars
      BY DEF vars, Contract!vars, codes, sessions, grants, Open, Exists, Created, Live,
             SessionExists, Fresh
    <2> QED  BY <2>1, RefinesNext
  <1> QED
    BY <1>1, <1>2, InitIdentified, SoundAlways, NextIndexed, PTL
       DEF Spec, ImplementsContract, Contract!Spec
=============================================================================
