------------------------ MODULE BrowserSignInProofs ------------------------
(***************************************************************************)
(* The properties of BrowserSignIn, for any number of requests, states,    *)
(* codes, sessions and faults.                                             *)
(*                                                                         *)
(* The inductive invariant is in two parts.  StoreOK: a session that was   *)
(* created was granted for a code that was issued, and a state against     *)
(* which a session was handed out is gone.  RequestOK: what a request says *)
(* of its session at each point of it, which holds on because sessions,    *)
(* codes and what they are about never go back (Onward).                   *)
(***************************************************************************)
EXTENDS BrowserSignIn, TLAPS, FiniteSetTheorems

StoreOK ==
    /\ \A s \in Sessions : session[s] # "none" =>
          grant[s] \in Challenges /\ code[grant[s]] # "unissued"
    /\ \A p \in PreAuths : \A s \in handed[p] :
          /\ pre[p] = "gone"
          /\ session[s] # "none"
          /\ about[grant[s]].pre = p
          /\ \A t \in handed[p] : s = t

RequestOK(q, ses, ab, gr, ex) ==
    /\ q.pc = "create" => q.kind # "verify"
    /\ q.kind = "verify" /\ q.pc \notin {"consume", "cleanup", "answer"} => q.sess = None
    /\ q.pc = "consume" =>
          /\ q.sess \in Sessions
          /\ ses[q.sess] # "none"
          /\ ab[gr[q.sess]].pre = q.pre
    /\ q.pc = "cleanup" =>
          /\ q.sess \in Sessions
          /\ ses[q.sess] # "none"
    /\ q.pc = "answer" /\ q.kind = "verify" /\ q.status # 200 /\ q.sess # None =>
          /\ q.sess \in Sessions
          /\ ses[q.sess] # "none"
          /\ ses[q.sess] # "live" \/ q.sess \in ex
    /\ q.pc = "answer" /\ q.kind = "verify" /\ q.status = 200 => q.sess \in Sessions

RequestsOK == \A r \in Slots : RequestOK(h[r], session, about, grant, excused)

BInv == TypeOK /\ StoreOK /\ RequestsOK

(* What no step undoes. *)
Onward ==
    /\ \A s \in Sessions : session[s] # "none" =>
          session'[s] # "none" /\ grant'[s] = grant[s] /\ (session'[s] = "live" => session[s] = "live")
    /\ \A c \in Challenges : code[c] # "unissued" => code'[c] # "unissued" /\ about'[c] = about[c]
    /\ \A p \in PreAuths : pre[p] = "gone" => pre'[p] = "gone"
    /\ excused \subseteq excused'

(* A request that says nothing of a session, or that hands one out. *)
Silent(q) ==
    /\ q.pc \notin {"consume", "cleanup"}
    /\ q.pc = "create" => q.kind # "verify"
    /\ q.kind = "verify" => q.sess = None \/ (q.pc = "answer" /\ q.status = 200)
    /\ q.kind = "verify" /\ q.pc = "answer" /\ q.status = 200 => q.sess \in Sessions

-----------------------------------------------------------------------------
LEMMA SilentOK ==
  ASSUME NEW q, NEW ses, NEW ab, NEW gr, NEW ex, Silent(q)
  PROVE  RequestOK(q, ses, ab, gr, ex)
  BY DEF Silent, RequestOK

LEMMA QuietType == Quiet \in Request /\ Silent(Quiet)
  BY DEF Quiet, Request, Silent

LEMMA AnsweredType ==
  ASSUME NEW q \in Request, NEW status \in Nat, status # 200, q.kind = "verify" => q.sess = None
  PROVE  /\ Answered(q, status) \in Request
         /\ Silent(Answered(q, status))
         /\ Answered(q, status).kind = "verify" => Answered(q, status).sess = None
  <1> DEFINE a == [Quiet EXCEPT !.pc = "answer", !.status = status, !.kind = q.kind,
                                !.gone = q.gone]
             b == [a EXCEPT !.via = q.via, !.pre = q.pre, !.ch = q.ch, !.sess = q.sess,
                            !.was = q.was]
  <1>1. a \in Request /\ a.pc = "answer" /\ a.kind = q.kind /\ a.status # 200
    BY ZenonT(40) DEF Quiet, Request
  <1>2. b \in Request /\ b.pc = "answer" /\ b.kind = q.kind /\ b.sess = q.sess /\ b.status # 200
    <2> HIDE DEF a
    <2>1. b \in Request
      BY <1>1, ZenonT(40) DEF Request
    <2>2. b.pc = a.pc /\ b.kind = a.kind /\ b.status = a.status
      BY <1>1 DEF Request
    <2>3. b.sess = q.sess
      BY <1>1 DEF Request
    <2> QED BY <1>1, <2>1, <2>2, <2>3
  <1>3. Answered(q, status) = b \/ Answered(q, status) = Quiet
    BY DEF Answered
  <1>4. Quiet.sess = None
    BY DEF Quiet
  <1> HIDE DEF b
  <1> QED BY <1>2, <1>3, <1>4, QuietType DEF Silent

Failed(q, status) == [q EXCEPT !.pc = "cleanup", !.status = status]

LEMMA FailedType ==
  ASSUME NEW q \in Request, NEW status \in Nat
  PROVE  /\ Failed(q, status) \in Request
         /\ Failed(q, status).pc = "cleanup"
         /\ Failed(q, status).sess = q.sess
  BY DEF Request, Failed

Given(q, status, p) == [q EXCEPT !.pc = "answer", !.status = status, !.pre = p]

LEMMA GivenType ==
  ASSUME NEW q \in Request, NEW status \in Nat, NEW p \in PreAuths
  PROVE  /\ Given(q, status, p) \in Request
         /\ Given(q, status, p).pc = "answer"
         /\ Given(q, status, p).status = status
         /\ Given(q, status, p).kind = q.kind
  BY DEF Request, Given

(* A good answer says 200, or there is nothing left to say. *)
LEMMA AnsweredWell ==
  ASSUME NEW q \in Request, NEW status \in Nat, status < 400
  PROVE  /\ Answered(q, status) \in Request
         /\ \/ Answered(q, status) = Quiet /\ q.ch = None
            \/ /\ Answered(q, status).pc = "answer"
               /\ Answered(q, status).status = status
               /\ Answered(q, status).sess = q.sess
  <1> DEFINE a == [Quiet EXCEPT !.pc = "answer", !.status = status, !.kind = q.kind,
                                !.gone = q.gone]
             b == [a EXCEPT !.via = q.via, !.pre = q.pre, !.ch = q.ch, !.sess = q.sess,
                            !.was = q.was]
  <1>1. a \in Request
    BY DEF Quiet, Request
  <1>2. a.pc = "answer" /\ a.status = status
    BY DEF Quiet
  <1>3. b \in Request /\ b.pc = "answer" /\ b.status = status /\ b.sess = q.sess
    <2> HIDE DEF a
    <2>1. b \in Request
      BY <1>1 DEF Request
    <2>2. b.pc = a.pc
      BY <1>1 DEF Request
    <2>3. b.status = a.status
      BY <1>1 DEF Request
    <2>4. b.sess = q.sess
      BY <1>1 DEF Request
    <2> QED BY <1>2, <2>1, <2>2, <2>3, <2>4
  <1>4. Answered(q, status) = b \/ (Answered(q, status) = Quiet /\ q.ch = None)
    BY DEF Answered
  <1> HIDE DEF b
  <1> QED BY <1>3, <1>4, QuietType

-----------------------------------------------------------------------------
(* Requests that a step leaves alone, and the one it moves on. *)
LEMMA Kept ==
  ASSUME BInv, Onward, NEW q \in Request, RequestOK(q, session, about, grant, excused)
  PROVE  RequestOK(q, session', about', grant', excused')
  BY DEF BInv, TypeOK, StoreOK, Onward, RequestOK

LEMMA OneMoves ==
  ASSUME BInv, Onward, NEW r \in Slots, NEW q \in Request,
         RequestOK(q, session', about', grant', excused'), h' = [h EXCEPT ![r] = q]
  PROVE  h' \in [Slots -> Request] /\ RequestsOK'
  <1>1. h \in [Slots -> Request]
    BY DEF BInv, TypeOK
  <1>2. h' \in [Slots -> Request]
    BY <1>1
  <1>3. ASSUME NEW x \in Slots  PROVE RequestOK(h'[x], session', about', grant', excused')
    <2>1. CASE x = r
      BY <2>1, <1>1
    <2>2. CASE x # r
      <3>1. h'[x] = h[x] /\ h[x] \in Request
        BY <2>2, <1>1
      <3>2. RequestOK(h[x], session, about, grant, excused)
        BY DEF BInv, RequestsOK
      <3> QED BY <3>1, <3>2, Kept
    <2> QED BY <2>1, <2>2
  <1> QED BY <1>2, <1>3 DEF RequestsOK

LEMMA Still ==
  ASSUME BInv, UNCHANGED <<store, handed>>, excused \subseteq excused'
  PROVE  Onward /\ StoreOK'
  BY DEF BInv, TypeOK, StoreOK, Onward, store

LEMMA NoNewSession ==
  ASSUME BInv, Onward, UNCHANGED handed,
         \A s \in Sessions : session'[s] # "none" => session[s] # "none"
  PROVE  StoreOK'
  BY DEF BInv, TypeOK, StoreOK, Onward

(* A request that moves on over an unchanged store, and says nothing. *)
LEMMA SilentStep ==
  ASSUME BInv, NEW r \in Slots, NEW q \in Request, Silent(q), h' = [h EXCEPT ![r] = q],
         UNCHANGED <<store, handed>>, excused \subseteq excused',
         faults' \in 0..MaxFaults, jar' \in [pre : PreAuths \cup {None}, sess : Sessions \cup {None}],
         told' \subseteq Challenges \cup Sessions
  PROVE  BInv'
  <1>1. Onward /\ StoreOK'
    BY Still
  <1>2. h' \in [Slots -> Request] /\ RequestsOK'
    BY <1>1, SilentOK, OneMoves
  <1> QED BY <1>1, <1>2 DEF BInv, TypeOK, store

LEMMA FaultType == ASSUME TypeOK, Fault \/ UNCHANGED faults PROVE faults' \in 0..MaxFaults
  BY FaultsAreBounded DEF TypeOK, Fault

(* What the sessions of a request are before it has one. *)
LEMMA NoneYet ==
  ASSUME BInv, NEW r \in Slots, h[r].pc \notin {"consume", "cleanup", "answer"}
  PROVE  h[r] \in Request /\ (h[r].kind = "verify" => h[r].sess = None)
  BY DEF BInv, TypeOK, RequestsOK, RequestOK

LEMMA AnswersOK ==
  ASSUME BInv, NEW r \in Slots, NEW status \in Nat, status # 200,
         h[r].pc \notin {"consume", "cleanup", "answer"}
  PROVE  /\ Answered(h[r], status) \in Request
         /\ Silent(Answered(h[r], status))
         /\ Answered(h[r], status).kind = "verify" => Answered(h[r], status).sess = None
  BY NoneYet, AnsweredType

-----------------------------------------------------------------------------
(* Arrivals *)
LEMMA Arrives ==
  ASSUME BInv, NEW r \in Slots, NEW q \in Request, q.kind = "verify" => q.sess = None,
         NEW denied \in Nat, denied # 200,
         NEW first \in {"create", "authpre", "reserve", "verify", "csrf", "revoke"},
         first = "create" => q.kind # "verify", Arrive(r, q, denied, first)
  PROVE  BInv'
  <1> DEFINE a == IF denied # 0 THEN Answered(q, denied) ELSE [q EXCEPT !.pc = first]
  <1>1. a \in Request /\ Silent(a)
    <2>1. [q EXCEPT !.pc = first] \in Request /\ Silent([q EXCEPT !.pc = first])
      BY DEF Request, Silent
    <2> QED BY <2>1, AnsweredType
  <1>2. h' = [h EXCEPT ![r] = a]
    BY DEF Arrive
  <1> HIDE DEF a
  <1> QED BY <1>1, <1>2, SilentStep DEF Arrive, history, client, BInv, TypeOK

LEMMA AsksType ==
  ASSUME NEW kind \in {"bootstrap", "request", "verify", "logout", "logoutAll"},
         NEW via \in {"browser", "native"}
  PROVE  /\ Asks(kind, via) \in Request
         /\ Asks(kind, via).kind = kind
         /\ Asks(kind, via).sess = None
  BY DEF Asks, Quiet, Request

LEMMA ArrivalsStep ==
  ASSUME BInv, NEW r \in Slots, Arrivals(r)
  PROVE  BInv'
  <1>1. ASSUME NEW foreign \in BOOLEAN, ArriveBootstrap(r, foreign)  PROVE BInv'
    <2>1. (IF foreign THEN 403 ELSE 0) \in Nat \ {200}
      OBVIOUS
    <2> QED BY <1>1, <2>1, AsksType, Arrives DEF ArriveBootstrap
  <1>2. ASSUME NEW email \in Emails, NEW own \in BOOLEAN, NEW foreign \in BOOLEAN,
               ArriveRequest(r, email, own, foreign)
        PROVE  BInv'
    <2> DEFINE a == Asks("request", "browser")
               q == [a EXCEPT !.email = email, !.pre = Owned(own, jar.pre)]
    <2>1. Owned(own, jar.pre) \in PreAuths \cup {None}
      BY DEF Owned, BInv, TypeOK
    <2>2. a \in Request /\ a.kind = "request"
      BY AsksType
    <2>3. q \in Request /\ q.kind = "request"
      <3> HIDE DEF a
      <3> QED BY <2>1, <2>2 DEF Request
    <2>4. PreAuthDenied(foreign) \in Nat \ {200}
      BY DEF PreAuthDenied
    <2>5. Arrive(r, q, PreAuthDenied(foreign), "authpre")
      BY <1>2 DEF ArriveRequest
    <2> HIDE DEF q
    <2> QED BY <2>3, <2>4, <2>5, Arrives
  <1>3. ASSUME NEW ch \in Challenges \cup {None}, NEW own \in BOOLEAN, NEW foreign \in BOOLEAN,
               ArriveVerify(r, ch, own, foreign)
        PROVE  BInv'
    <2> DEFINE a == Asks("verify", "browser")
               q == [a EXCEPT !.ch = ch, !.pre = Owned(own, jar.pre)]
    <2>1. Owned(own, jar.pre) \in PreAuths \cup {None}
      BY DEF Owned, BInv, TypeOK
    <2>2. a \in Request /\ a.sess = None
      BY AsksType
    <2>3. q \in Request /\ q.sess = None
      <3> HIDE DEF a
      <3> QED BY <2>1, <2>2, ZenonT(40) DEF Request
    <2>4. PreAuthDenied(foreign) \in Nat \ {200}
      BY DEF PreAuthDenied
    <2>5. Arrive(r, q, PreAuthDenied(foreign), "authpre")
      BY <1>3 DEF ArriveVerify
    <2> HIDE DEF q
    <2> QED BY <2>3, <2>4, <2>5, Arrives
  <1>4. ASSUME NEW email \in Emails, NEW decodes \in BOOLEAN,
               ArriveNativeRequest(r, email, decodes)
        PROVE  BInv'
    <2> DEFINE a == Asks("request", "native")
               q == [a EXCEPT !.email = email]
    <2>1. a \in Request /\ a.kind = "request"
      BY AsksType
    <2>2. q \in Request /\ q.kind = "request"
      <3> HIDE DEF a
      <3> QED BY <2>1 DEF Request
    <2>3. (IF decodes THEN 0 ELSE 400) \in Nat \ {200}
      OBVIOUS
    <2>4. Arrive(r, q, IF decodes THEN 0 ELSE 400, "reserve")
      BY <1>4 DEF ArriveNativeRequest
    <2> HIDE DEF q
    <2> QED BY <2>2, <2>3, <2>4, Arrives
  <1>5. ASSUME NEW ch \in Challenges \cup {None}, NEW decodes \in BOOLEAN,
               ArriveNativeVerify(r, ch, decodes)
        PROVE  BInv'
    <2> DEFINE a == Asks("verify", "native")
               q == [a EXCEPT !.ch = ch]
    <2>1. a \in Request /\ a.sess = None
      BY AsksType
    <2>2. q \in Request /\ q.sess = None
      <3> HIDE DEF a
      <3> QED BY <2>1 DEF Request
    <2>3. (IF decodes THEN 0 ELSE 400) \in Nat \ {200}
      OBVIOUS
    <2>4. Arrive(r, q, IF decodes THEN 0 ELSE 400, "verify")
      BY <1>5 DEF ArriveNativeVerify
    <2> HIDE DEF q
    <2> QED BY <2>2, <2>3, <2>4, Arrives
  <1>6. ASSUME NEW via \in {"browser", "native"}, NEW s \in Sessions \cup {None},
               NEW kind \in {"logout", "logoutAll"}, NEW own \in BOOLEAN, NEW foreign \in BOOLEAN,
               ArriveLogout(r, kind, via, s, own, foreign)
        PROVE  BInv'
    <2> DEFINE a == Asks(kind, via)
               o == Owned(own \/ via = "native", s)
               q == [a EXCEPT !.sess = o, !.was = Ending(kind, s)]
               d == IF via = "browser" /\ foreign THEN 403 ELSE IF s = None THEN 401 ELSE 0
               f == IF via = "browser" THEN "csrf" ELSE "revoke"
    <2>1. o \in Sessions \cup {None} /\ Ending(kind, s) \in SUBSET Sessions
      BY DEF Owned, Ending, Live
    <2>2. a \in Request /\ a.kind = kind
      BY AsksType
    <2>3. q \in Request /\ q.kind # "verify"
      <3> HIDE DEF a, o
      <3> QED BY <2>1, <2>2 DEF Request
    <2>4. d \in Nat \ {200} /\ f \in {"csrf", "revoke"}
      OBVIOUS
    <2>5. Arrive(r, q, d, f)
      BY <1>6 DEF ArriveLogout
    <2> HIDE DEF q, d, f
    <2> QED BY <2>3, <2>4, <2>5, Arrives
  <1> QED BY <1>1, <1>2, <1>3, <1>4, <1>5, <1>6 DEF Arrivals

-----------------------------------------------------------------------------
(* Steps that leave the store alone *)
LEMMA AnswerStep ==
  ASSUME BInv, NEW r \in Slots, NEW status \in Nat, status # 200,
         h[r].pc \notin {"consume", "cleanup", "answer"}, Answer(r, status),
         Fault \/ UNCHANGED faults, UNCHANGED <<store, client, history>>
  PROVE  BInv'
  <1>1. Answered(h[r], status) \in Request /\ Silent(Answered(h[r], status))
    BY AnswersOK
  <1>2. h' = [h EXCEPT ![r] = Answered(h[r], status)]
    BY DEF Answer
  <1> QED BY <1>1, <1>2, SilentStep, FaultType DEF BInv, TypeOK, client, history

LEMMA GotoStep ==
  ASSUME BInv, NEW r \in Slots,
         NEW pc \in {"reserve", "verify", "invalidate", "revoke"},
         h[r].pc \notin {"consume", "cleanup", "answer"}, Goto(r, pc),
         UNCHANGED <<store, faults, client, history>>
  PROVE  BInv'
  <1> DEFINE q == [h[r] EXCEPT !.pc = pc]
  <1>1. q \in Request /\ Silent(q)
    BY NoneYet DEF Request, Silent
  <1>2. h' = [h EXCEPT ![r] = q]
    BY DEF Goto
  <1> HIDE DEF q
  <1> QED BY <1>1, <1>2, SilentStep DEF BInv, TypeOK, client, history

LEMMA NeutralOK ==
  ASSUME BInv, NEW r \in Slots, h[r].pc \notin {"consume", "cleanup", "answer"}
  PROVE  LET q == Answered([h[r] EXCEPT !.ch = None], 202) IN q \in Request /\ Silent(q)
  <1> DEFINE q == [h[r] EXCEPT !.ch = None]
  <1>1. q \in Request /\ (q.kind = "verify" => q.sess = None)
    BY NoneYet DEF Request
  <1> HIDE DEF q
  <1>2. Answered(q, 202) \in Request /\ Silent(Answered(q, 202))
    BY <1>1, AnsweredType
  <1> QED BY <1>2 DEF q

LEMMA NeutralStep ==
  ASSUME BInv, NEW r \in Slots, h[r].pc \notin {"consume", "cleanup", "answer"}, Neutral(r),
         UNCHANGED <<store, faults, client, handed, excused>>
  PROVE  BInv'
  <1> DEFINE q == Answered([h[r] EXCEPT !.ch = None], 202)
  <1>1. q \in Request /\ Silent(q)
    BY NeutralOK
  <1>2. h' = [h EXCEPT ![r] = q]
    BY DEF Neutral
  <1> HIDE DEF q
  <1> QED BY <1>1, <1>2, SilentStep DEF BInv, TypeOK, client

LEMMA LogoutOK ==
  ASSUME BInv, NEW r \in Slots, NEW status \in Nat, status # 200, h[r].pc = "revoke",
         LogoutAnswer(r, status)
  PROVE  \E q \in Request : Silent(q) /\ h' = [h EXCEPT ![r] = q]
  <1> DEFINE a == Answered(h[r], status)
             b == [a EXCEPT !.pc = "answer", !.status = status, !.gone = h[r].gone, !.clears = TRUE]
  <1>1. a \in Request /\ Silent(a) /\ (a.kind = "verify" => a.sess = None) /\ h[r].gone \in BOOLEAN
    <2>1. h[r] \in Request
      BY NoneYet
    <2> QED BY <2>1, AnswersOK DEF Request
  <1>2. h' = [h EXCEPT ![r] = IF h[r].via = "browser" THEN b ELSE a]
    BY DEF LogoutAnswer
  <1> HIDE DEF a
  <1>3. b \in Request /\ Silent(b)
    <2>1. b \in Request /\ b.pc = "answer"
      BY <1>1 DEF Request
    <2>2. b.status = status
      BY <1>1 DEF Request
    <2>3. b.kind = a.kind /\ b.sess = a.sess
      BY <1>1 DEF Request
    <2> HIDE DEF b
    <2> QED BY <1>1, <2>1, <2>2, <2>3 DEF Silent
  <1> HIDE DEF b
  <1> QED BY <1>1, <1>2, <1>3

(* A step of one request over a store that goes onward. *)
StoreType ==
    /\ pre \in [PreAuths -> {"unused", "live", "gone"}]
    /\ code \in [Challenges -> {"unissued", "open", "closed"}]
    /\ about \in [Challenges -> [email : Emails \cup {None}, via : {"browser", "native", None},
                                 pre : PreAuths \cup {None}]]
    /\ session \in [Sessions -> {"none", "live", "ended"}]
    /\ grant \in [Sessions -> Challenges \cup {None}]
    /\ handed \in [PreAuths -> SUBSET Sessions]

LEMMA MoveStep ==
  ASSUME BInv, Onward, StoreOK', StoreType', NEW r \in Slots, NEW q \in Request,
         RequestOK(q, session', about', grant', excused'), h' = [h EXCEPT ![r] = q],
         Fault \/ UNCHANGED faults, UNCHANGED client
  PROVE  BInv'
  <1>1. h' \in [Slots -> Request] /\ RequestsOK'
    BY OneMoves
  <1>2. faults' \in 0..MaxFaults
    BY FaultType DEF BInv
  <1> QED BY <1>1, <1>2 DEF BInv, TypeOK, StoreType, client

LEMMA QuietMove ==
  ASSUME BInv, Onward, UNCHANGED <<handed, client>>, StoreType',
         \A s \in Sessions : session'[s] # "none" => session[s] # "none",
         NEW r \in Slots, NEW q \in Request, Silent(q), h' = [h EXCEPT ![r] = q],
         Fault \/ UNCHANGED faults
  PROVE  BInv'
  <1>1. StoreOK'
    BY NoNewSession
  <1> QED BY <1>1, SilentOK, MoveStep

LEMMA CreatePreAuthStep ==
  ASSUME BInv, NEW r \in Slots, NEW p \in PreAuths, CreatePreAuth(r, p)
  PROVE  BInv'
  <1> DEFINE q == Given(h[r], 200, p)
  <1>1. q \in Request /\ Silent(q)
    <2>1. h[r] \in Request /\ h[r].kind # "verify"
      BY DEF CreatePreAuth, BInv, TypeOK, RequestsOK, RequestOK
    <2>2. q \in Request /\ q.pc = "answer" /\ q.kind # "verify"
      BY <2>1, GivenType
    <2> HIDE DEF q
    <2> QED BY <2>2 DEF Silent
  <1>2. Onward
    BY DEF CreatePreAuth, Onward, BInv, TypeOK, history
  <1>3. StoreType'
    BY DEF CreatePreAuth, StoreType, BInv, TypeOK, history
  <1>4. \A status \in {503, 429} : Answered(h[r], status) \in Request /\ Silent(Answered(h[r], status))
    BY AnswersOK DEF CreatePreAuth
  <1>5. \/ h' = [h EXCEPT ![r] = q]
        \/ h' = [h EXCEPT ![r] = Answered(h[r], 503)]
        \/ h' = [h EXCEPT ![r] = Answered(h[r], 429)]
    BY DEF CreatePreAuth, Answer, Given
  <1>6. Fault \/ UNCHANGED faults
    BY DEF CreatePreAuth
  <1>7. UNCHANGED <<session, handed, client>>
    BY DEF CreatePreAuth, history
  <1> HIDE DEF q
  <1> QED BY <1>1, <1>2, <1>3, <1>4, <1>5, <1>6, <1>7, QuietMove

LEMMA AuthenticateStep ==
  ASSUME BInv, NEW r \in Slots, NEW decodes \in BOOLEAN, AuthenticatePreAuth(r, decodes)
  PROVE  BInv'
  <1>1. UNCHANGED <<store, faults, client, history>> /\ h[r].pc = "authpre"
    BY DEF AuthenticatePreAuth
  <1>2. CASE Answer(r, 403)
    BY <1>1, <1>2, AnswerStep
  <1>3. CASE Answer(r, 400)
    BY <1>1, <1>3, AnswerStep
  <1>4. CASE Goto(r, IF h[r].kind = "request" THEN "reserve" ELSE "verify")
    BY <1>1, <1>4, GotoStep
  <1> QED BY <1>2, <1>3, <1>4 DEF AuthenticatePreAuth

LEMMA ReserveStep ==
  ASSUME BInv, NEW r \in Slots, NEW ch \in Challenges, Reserve(r, ch)
  PROVE  BInv'
  <1> DEFINE q == [h[r] EXCEPT !.pc = "send", !.ch = ch]
  <1>1. h[r] \in Request /\ (h[r].kind = "verify" => h[r].sess = None)
    BY NoneYet DEF Reserve
  <1>2. q \in Request /\ Silent(q)
    BY <1>1, ZenonT(40) DEF Request, Silent
  <1>3. Answered(h[r], 503) \in Request /\ Silent(Answered(h[r], 503))
    BY AnswersOK DEF Reserve
  <1>4. Onward
    BY DEF Reserve, Onward, BInv, TypeOK
  <1>5. StoreType'
    <2>1. about' \in [Challenges -> [email : Emails \cup {None}, via : {"browser", "native", None},
                                    pre : PreAuths \cup {None}]]
      BY <1>1 DEF Reserve, BInv, TypeOK, Request
    <2>2. code' \in [Challenges -> {"unissued", "open", "closed"}]
      BY DEF Reserve, BInv, TypeOK
    <2> QED BY <2>1, <2>2 DEF Reserve, StoreType, BInv, TypeOK
  <1>6. h' = [h EXCEPT ![r] = q] \/ h' = [h EXCEPT ![r] = Answered(h[r], 503)]
    BY DEF Reserve, Answer
  <1>7. (Fault \/ UNCHANGED faults) /\ UNCHANGED <<session, handed, client>>
    BY DEF Reserve
  <1> HIDE DEF q
  <1> QED BY <1>2, <1>3, <1>4, <1>5, <1>6, <1>7, QuietMove

LEMMA ReserveLimitedStep ==
  ASSUME BInv, NEW r \in Slots, ReserveLimited(r)
  PROVE  BInv'
  BY NeutralStep DEF ReserveLimited, history

LEMMA SendStep ==
  ASSUME BInv, NEW r \in Slots, Send(r)
  PROVE  BInv'
  <1>1. h[r].pc = "send" /\ UNCHANGED <<store, faults, client, handed, excused>>
    BY DEF Send
  <1>2. CASE Answer(r, 202)
    <2>1. Answered(h[r], 202) \in Request /\ Silent(Answered(h[r], 202))
      BY <1>1, AnswersOK
    <2>2. h' = [h EXCEPT ![r] = Answered(h[r], 202)]
      BY <1>2 DEF Answer
    <2> QED BY <1>1, <2>1, <2>2, SilentStep DEF BInv, TypeOK, client
  <1>3. CASE Goto(r, "invalidate") /\ UNCHANGED sent
    BY <1>1, <1>3, GotoStep DEF history
  <1>4. CASE Neutral(r)
    BY <1>1, <1>4, NeutralStep
  <1> QED BY <1>2, <1>3, <1>4 DEF Send

LEMMA InvalidateStep ==
  ASSUME BInv, NEW r \in Slots, Invalidate(r)
  PROVE  BInv'
  <1> DEFINE q == Answered([h[r] EXCEPT !.ch = None], 202)
  <1>1. q \in Request /\ Silent(q)
    BY NeutralOK DEF Invalidate
  <1>2. h' = [h EXCEPT ![r] = q]
    BY DEF Invalidate, Neutral
  <1>3. Onward
    BY DEF Invalidate, Onward, BInv, TypeOK
  <1>4. StoreType'
    BY DEF Invalidate, StoreType, BInv, TypeOK
  <1>5. (Fault \/ UNCHANGED faults) /\ UNCHANGED <<session, handed, client>>
    BY DEF Invalidate
  <1> HIDE DEF q
  <1> QED BY <1>1, <1>2, <1>3, <1>4, <1>5, QuietMove

LEMMA VerifyStep ==
  ASSUME BInv, NEW r \in Slots, NEW s \in Sessions, Verify(r, s)
  PROVE  BInv'
  <1> DEFINE a == Answered(h[r], 200)
             q == [h[r] EXCEPT !.sess = s, !.pc = "consume"]
             n == [a EXCEPT !.sess = s]
  <1>1. h[r] \in Request /\ (h[r].kind = "verify" => h[r].sess = None)
    BY NoneYet DEF Verify
  <1>2. h[r].ch \in Challenges /\ code[h[r].ch] = "open" /\ about[h[r].ch].pre = h[r].pre
    BY <1>1 DEF Verify, Accepts, Request
  <1>3. Onward
    BY <1>2 DEF Verify, Onward, BInv, TypeOK
  <1>4. StoreType'
    BY <1>2 DEF Verify, StoreType, BInv, TypeOK
  <1>5. StoreOK'
    BY <1>2, <1>3 DEF Verify, StoreOK, Onward, BInv, TypeOK
  <1>6. session'[s] # "none" /\ grant'[s] = h[r].ch /\ about' = about
    BY DEF Verify, BInv, TypeOK
  <1>7. q \in Request /\ RequestOK(q, session', about', grant', excused')
    <2>1. q \in Request /\ q.sess = s /\ q.pc = "consume" /\ q.pre = h[r].pre
      BY <1>1 DEF Request
    <2> HIDE DEF q
    <2> QED BY <2>1, <1>2, <1>6 DEF RequestOK
  <1>8. n \in Request /\ Silent(n)
    <2>1. a \in Request /\ a.pc = "answer" /\ a.status = 200
      <3>1. h[r].ch # None
        BY DEF Verify, Accepts
      <3> QED BY <1>1, <3>1, AnsweredWell
    <2> HIDE DEF a
    <2> QED BY <2>1 DEF Request, Silent
  <1>9. Answered(h[r], 503) \in Request /\ Silent(Answered(h[r], 503))
    BY AnswersOK DEF Verify
  <1>10. \/ h' = [h EXCEPT ![r] = q]
         \/ h' = [h EXCEPT ![r] = n]
         \/ h' = [h EXCEPT ![r] = Answered(h[r], 503)]
    BY DEF Verify, Answer
  <1>11. (Fault \/ UNCHANGED faults) /\ UNCHANGED client
    BY DEF Verify
  <1> HIDE DEF q, n
  <1> QED BY <1>3, <1>4, <1>5, <1>7, <1>8, <1>9, <1>10, <1>11, SilentOK, MoveStep

LEMMA VerifyRefusedStep ==
  ASSUME BInv, NEW r \in Slots, VerifyRefused(r)
  PROVE  BInv'
  <1>1. \A status \in {401, 429} : Answered(h[r], status) \in Request /\ Silent(Answered(h[r], status))
    BY AnswersOK DEF VerifyRefused
  <1>2. \/ h' = [h EXCEPT ![r] = Answered(h[r], 401)]
        \/ h' = [h EXCEPT ![r] = Answered(h[r], 429)]
    BY DEF VerifyRefused, Answer
  <1>3. Onward
    BY DEF VerifyRefused, Onward, BInv, TypeOK, history
  <1>4. StoreType'
    BY DEF VerifyRefused, StoreType, BInv, TypeOK, history
  <1>5. UNCHANGED <<session, handed, client, faults>>
    BY DEF VerifyRefused, history
  <1> QED BY <1>1, <1>2, <1>3, <1>4, <1>5, QuietMove

(* The sign-in that got its session goes on to consume its state. *)
LEMMA ConsumeStep ==
  ASSUME BInv, NEW r \in Slots, Consume(r)
  PROVE  BInv'
  <1> DEFINE s == h[r].sess
             p == h[r].pre
             c(status) == Failed(h[r], status)
             a == Answered(h[r], 200)
  <1>1. /\ h[r] \in Request
        /\ s \in Sessions
        /\ session[s] # "none"
        /\ about[grant[s]].pre = p
    BY DEF Consume, BInv, TypeOK, RequestsOK, RequestOK
  <1>2. Onward
    BY DEF Consume, Onward, BInv, TypeOK
  <1>3. ASSUME NEW status \in {401, 503}
        PROVE  c(status) \in Request /\ RequestOK(c(status), session', about', grant', excused')
    <2>1. c(status) \in Request /\ c(status).pc = "cleanup" /\ c(status).sess = s
      BY <1>1, FailedType
    <2>2. session' = session
      BY DEF Consume
    <2> HIDE DEF c
    <2> QED BY <2>1, <2>2, <1>1 DEF RequestOK
  <1>4. CASE PreAuthHolds(r) /\ Answer(r, 200) /\ handed' = [handed EXCEPT ![p] = @ \cup {s}]
             /\ pre' = [pre EXCEPT ![p] = "gone"] /\ UNCHANGED faults
    <2>1. p \in PreAuths /\ pre[p] = "live"
      BY <1>4, <1>1 DEF PreAuthHolds, Request
    <2>2. handed[p] = {}
      BY <2>1 DEF BInv, StoreOK
    <2>3. StoreOK'
      BY <1>1, <1>4, <2>1, <2>2 DEF Consume, StoreOK, BInv, TypeOK
    <2>4. StoreType'
      BY <1>1, <1>4, <2>1 DEF Consume, StoreType, BInv, TypeOK
    <2>5. a \in Request /\ Silent(a)
      <3>1. a \in Request /\ (a = Quiet \/ (a.pc = "answer" /\ a.status = 200 /\ a.sess = s))
        BY <1>1, AnsweredWell
      <3> HIDE DEF a
      <3> QED BY <3>1, <1>1, QuietType DEF Silent
    <2>6. h' = [h EXCEPT ![r] = a]
      BY <1>4 DEF Answer
    <2>7. UNCHANGED client
      BY DEF Consume
    <2> HIDE DEF a
    <2> QED BY <1>2, <1>4, <2>3, <2>4, <2>5, <2>6, <2>7, SilentOK, MoveStep
  <1>5. CASE UNCHANGED handed /\ (Fault \/ UNCHANGED faults)
             /\ \E status \in {401, 503} : h' = [h EXCEPT ![r] = c(status)]
    <2>1. PICK status \in {401, 503} : h' = [h EXCEPT ![r] = c(status)]
      BY <1>5
    <2>2. StoreOK'
      <3>1. UNCHANGED session
        BY DEF Consume
      <3> QED BY <1>2, <1>5, <3>1, NoNewSession
    <2>3. StoreType'
      BY <1>5 DEF Consume, StoreType, BInv, TypeOK
    <2>4. UNCHANGED client
      BY DEF Consume
    <2>5. c(status) \in Request /\ RequestOK(c(status), session', about', grant', excused')
      BY <1>3
    <2>6. Fault \/ UNCHANGED faults
      BY <1>5
    <2> DEFINE q == c(status)
    <2>7. h' = [h EXCEPT ![r] = q] /\ q \in Request
          /\ RequestOK(q, session', about', grant', excused')
      BY <2>1, <2>5
    <2> HIDE DEF c, q
    <2> QED BY <1>2, <2>2, <2>3, <2>4, <2>6, <2>7, MoveStep
  <1> QED BY <1>4, <1>5 DEF Consume, Failed

LEMMA ConsumeUnreachedStep ==
  ASSUME BInv, NEW r \in Slots, ConsumeUnreached(r)
  PROVE  BInv'
  <1> DEFINE q == Failed(h[r], 503)
  <1>1. h[r] \in Request /\ h[r].sess \in Sessions /\ session[h[r].sess] # "none"
    BY DEF ConsumeUnreached, BInv, TypeOK, RequestsOK, RequestOK
  <1>2. q \in Request /\ q.pc = "cleanup" /\ q.sess = h[r].sess
    BY <1>1, FailedType
  <1>3. UNCHANGED <<store, client, history>> /\ h' = [h EXCEPT ![r] = q]
    BY DEF ConsumeUnreached, Failed
  <1> HIDE DEF q
  <1>4. RequestOK(q, session', about', grant', excused')
    BY <1>1, <1>2, <1>3 DEF RequestOK, store
  <1>5. Onward /\ StoreOK'
    BY <1>3, Still DEF history
  <1>6. StoreType'
    BY <1>3 DEF StoreType, BInv, TypeOK, store, history
  <1>7. Fault \/ UNCHANGED faults
    BY DEF ConsumeUnreached, Away
  <1> QED BY <1>2, <1>3, <1>4, <1>5, <1>6, <1>7, MoveStep

LEMMA AnsweredAny ==
  ASSUME NEW q \in Request, NEW status \in Nat
  PROVE  /\ Answered(q, status) \in Request
         /\ \/ Answered(q, status) = Quiet
            \/ Answered(q, status).pc = "answer" /\ Answered(q, status).sess = q.sess
  <1> DEFINE a == [Quiet EXCEPT !.pc = "answer", !.status = status, !.kind = q.kind,
                                !.gone = q.gone]
             b == [a EXCEPT !.via = q.via, !.pre = q.pre, !.ch = q.ch, !.sess = q.sess,
                            !.was = q.was]
             c == [a EXCEPT !.sess = q.sess]
  <1>1. a \in Request /\ a.pc = "answer"
    BY DEF Quiet, Request
  <1>2. b \in Request /\ b.pc = "answer" /\ b.sess = q.sess
    <2> HIDE DEF a
    <2> QED BY <1>1 DEF Request
  <1>3. c \in Request /\ c.pc = "answer" /\ c.sess = q.sess
    <2> HIDE DEF a
    <2> QED BY <1>1 DEF Request
  <1>4. Answered(q, status) \in {b, c, Quiet}
    BY DEF Answered
  <1> HIDE DEF b, c
  <1> QED BY <1>2, <1>3, <1>4, QuietType

LEMMA CleanupStep ==
  ASSUME BInv, NEW r \in Slots, Cleanup(r)
  PROVE  BInv'
  <1> DEFINE s == h[r].sess
             a == Answered(h[r], h[r].status)
  <1>1. h[r] \in Request /\ s \in Sessions /\ session[s] # "none" /\ h[r].status \in Nat
    <2>1. h[r] \in Request
      BY DEF BInv, TypeOK
    <2> QED BY <2>1 DEF Cleanup, BInv, RequestsOK, RequestOK, Request
  <1>2. Onward
    BY DEF Cleanup, Onward, BInv, TypeOK, End
  <1>3. StoreType'
    BY DEF Cleanup, StoreType, BInv, TypeOK, End
  <1>4. \A t \in Sessions : session'[t] # "none" => session[t] # "none"
    BY DEF Cleanup, BInv, TypeOK, End
  <1>5. session'[s] # "none" /\ (session'[s] # "live" \/ s \in excused')
    BY <1>1 DEF Cleanup, BInv, TypeOK, End, CleanedUp
  <1>6. a \in Request /\ (a = Quiet \/ (a.pc = "answer" /\ a.sess = s))
    BY <1>1, AnsweredAny
  <1>7. h' = [h EXCEPT ![r] = a]
    BY DEF Cleanup, Answer
  <1>8. (Fault \/ UNCHANGED faults) /\ UNCHANGED <<handed, client>>
    BY DEF Cleanup
  <1>9. StoreOK'
    BY <1>2, <1>4, <1>8, NoNewSession
  <1> HIDE DEF a
  <1>10. RequestOK(a, session', about', grant', excused')
    <2>1. CASE a = Quiet
      BY <2>1, QuietType, SilentOK
    <2>2. CASE a.pc = "answer" /\ a.sess = s
      BY <2>2, <1>1, <1>5 DEF RequestOK
    <2> QED BY <2>1, <2>2, <1>6
  <1> QED BY <1>2, <1>3, <1>6, <1>7, <1>8, <1>9, <1>10, MoveStep

LEMMA ValidateStep ==
  ASSUME BInv, NEW r \in Slots, ValidateCSRF(r)
  PROVE  BInv'
  <1>1. UNCHANGED <<store, faults, client, history>> /\ h[r].pc = "csrf"
    BY DEF ValidateCSRF
  <1>2. CASE Answer(r, 403)
    BY <1>1, <1>2, AnswerStep
  <1>3. CASE Goto(r, "revoke")
    BY <1>1, <1>3, GotoStep
  <1> QED BY <1>2, <1>3 DEF ValidateCSRF

LEMMA RevokeStep ==
  ASSUME BInv, NEW r \in Slots, Revoke(r)
  PROVE  BInv'
  <1>1. h[r].pc = "revoke" /\ UNCHANGED <<handed, client>> /\ (Fault \/ UNCHANGED faults)
    BY DEF Revoke, history
  <1>2. \E status \in {204, 401, 503} : LogoutAnswer(r, status)
    BY DEF Revoke
  <1>3. PICK q \in Request : Silent(q) /\ h' = [h EXCEPT ![r] = q]
    BY <1>1, <1>2, LogoutOK
  <1>4. Onward
    BY DEF Revoke, Onward, BInv, TypeOK, End, history
  <1>5. StoreType'
    BY DEF Revoke, StoreType, BInv, TypeOK, End, history
  <1>6. \A t \in Sessions : session'[t] # "none" => session[t] # "none"
    BY DEF Revoke, BInv, TypeOK, End
  <1> QED BY <1>1, <1>3, <1>4, <1>5, <1>6, QuietMove

LEMMA RevokeUnreachedStep ==
  ASSUME BInv, NEW r \in Slots, RevokeUnreached(r)
  PROVE  BInv'
  <1>1. PICK q \in Request : Silent(q) /\ h' = [h EXCEPT ![r] = q]
    BY LogoutOK DEF RevokeUnreached
  <1>2. (Fault \/ UNCHANGED faults) /\ UNCHANGED <<store, client, history>>
    BY DEF RevokeUnreached, Away
  <1> QED BY <1>1, <1>2, SilentStep, FaultType DEF BInv, TypeOK, client, history

LEMMA StoreAwayStep ==
  ASSUME BInv, NEW r \in Slots, StoreAway(r)
  PROVE  BInv'
  <1>1. Answer(r, 503) /\ (Fault \/ UNCHANGED faults) /\ UNCHANGED <<store, client, history>>
    BY DEF StoreAway, Unreached, Away
  <1>2. h[r].pc \notin {"consume", "cleanup", "answer"}
    BY DEF StoreAway
  <1> QED BY <1>1, <1>2, AnswerStep

-----------------------------------------------------------------------------
(* The answer, and the client *)
LEMMA ReceiveStep ==
  ASSUME BInv, NEW r \in Slots, Receive(r)
  PROVE  BInv'
  <1>1. h[r] \in Request
    BY DEF BInv, TypeOK
  <1>2. jar' \in [pre : PreAuths \cup {None}, sess : Sessions \cup {None}]
    BY <1>1 DEF Receive, BInv, TypeOK, Request
  <1>3. told' \subseteq Challenges \cup Sessions
    <2>1. h[r].ch \in Challenges \cup {None}
      BY <1>1 DEF Request
    <2>2. h[r].kind = "verify" /\ h[r].status = 200 => h[r].sess \in Sessions
      BY DEF Receive, BInv, RequestsOK, RequestOK
    <2> QED BY <2>1, <2>2 DEF Receive, BInv, TypeOK
  <1>4. h' = [h EXCEPT ![r] = Quiet] /\ UNCHANGED <<store, faults, history>>
    BY DEF Receive
  <1> QED BY <1>2, <1>3, <1>4, QuietType, SilentStep, FaultType DEF BInv, history

LEMMA LostStep ==
  ASSUME BInv, NEW r \in Slots, Lost(r)
  PROVE  BInv'
  <1>1. h' = [h EXCEPT ![r] = Quiet] /\ UNCHANGED <<store, faults, client, history>>
    BY DEF Lost
  <1> QED BY <1>1, QuietType, SilentStep DEF BInv, TypeOK, client, history

LEMMA DisconnectStep ==
  ASSUME BInv, NEW r \in Slots, Disconnect(r)
  PROVE  BInv'
  <1> DEFINE q == [h[r] EXCEPT !.gone = TRUE]
  <1>1. h[r] \in Request /\ RequestOK(h[r], session, about, grant, excused)
    BY DEF BInv, TypeOK, RequestsOK
  <1>2. /\ q \in Request /\ q.pc = h[r].pc /\ q.kind = h[r].kind /\ q.sess = h[r].sess
        /\ q.pre = h[r].pre /\ q.status = h[r].status
    BY <1>1 DEF Request
  <1>3. h' = [h EXCEPT ![r] = q] /\ UNCHANGED <<store, client, history>> /\ Fault
    BY DEF Disconnect
  <1> HIDE DEF q
  <1>4. Onward /\ StoreOK'
    BY <1>3, Still DEF history
  <1>5. RequestOK(q, session', about', grant', excused')
    BY <1>1, <1>2, <1>3 DEF RequestOK, store, history
  <1>6. StoreType'
    BY <1>3 DEF StoreType, BInv, TypeOK, store, history
  <1> QED BY <1>2, <1>3, <1>4, <1>5, <1>6, MoveStep

LEMMA DieStep ==
  ASSUME BInv, Die
  PROVE  BInv'
  <1>1. UNCHANGED <<store, client, handed>> /\ excused \subseteq excused' /\ Fault
    BY DEF Die
  <1>2. Onward /\ StoreOK'
    BY <1>1, Still
  <1>3. h' = [r \in Slots |-> Quiet]
    BY DEF Die
  <1>4. h' \in [Slots -> Request] /\ RequestsOK'
    BY <1>3, QuietType, SilentOK DEF RequestsOK
  <1>5. faults' \in 0..MaxFaults
    BY <1>1, FaultType DEF BInv
  <1> QED BY <1>1, <1>2, <1>4, <1>5 DEF BInv, TypeOK, store, client

LEMMA ExpireStep ==
  ASSUME BInv, NEW p \in PreAuths, Expire(p)
  PROVE  BInv'
  <1>1. Onward
    BY DEF Expire, Onward, BInv, TypeOK, history
  <1>2. UNCHANGED <<session, about, grant, h, handed, excused>>
    BY DEF Expire, history
  <1>3. StoreOK'
    BY <1>1, <1>2, NoNewSession
  <1>4. RequestsOK'
    BY <1>2 DEF BInv, RequestsOK
  <1>5. TypeOK'
    BY DEF Expire, BInv, TypeOK, client, history
  <1> QED BY <1>3, <1>4, <1>5 DEF BInv

-----------------------------------------------------------------------------
LEMMA InitBInv == Init => BInv
  <1> SUFFICES ASSUME Init PROVE BInv
    OBVIOUS
  <1>1. TypeOK
    <2>1. h \in [Slots -> Request]
      BY QuietType DEF Init
    <2>2. about \in [Challenges -> [email : Emails \cup {None}, via : {"browser", "native", None},
                                   pre : PreAuths \cup {None}]]
      BY DEF Init, NoOne
    <2> QED BY <2>1, <2>2, FaultsAreBounded DEF Init, TypeOK
  <1>2. StoreOK
    BY DEF Init, StoreOK
  <1>3. RequestsOK
    BY QuietType, SilentOK DEF Init, RequestsOK
  <1> QED BY <1>1, <1>2, <1>3 DEF BInv

LEMMA NextBInv == BInv /\ [Next]_vars => BInv'
  <1> SUFFICES ASSUME BInv, [Next]_vars PROVE BInv'
    OBVIOUS
  <1>1. ASSUME NEW r \in Slots, Arrivals(r) \/ Step(r)  PROVE BInv'
    BY <1>1, ArrivalsStep, CreatePreAuthStep, AuthenticateStep, ReserveStep, ReserveLimitedStep,
       SendStep, InvalidateStep, VerifyStep, VerifyRefusedStep, ConsumeStep, ConsumeUnreachedStep,
       CleanupStep, ValidateStep, RevokeStep, RevokeUnreachedStep, StoreAwayStep, ReceiveStep,
       LostStep, DisconnectStep DEF Step
  <1>2. CASE UNCHANGED vars
    BY <1>2 DEF vars, store, client, history, BInv, TypeOK, StoreOK, RequestsOK
  <1> QED BY <1>1, <1>2, DieStep, ExpireStep DEF Next

(* For any number of requests, codes and faults, at most one session is     *)
(* handed out against a pre-auth state, for a code requested under it.      *)
THEOREM OncePerPreAuth == Spec => []OneSessionPerPreAuth
  <1>1. BInv => OneSessionPerPreAuth
    <2> SUFFICES ASSUME BInv, NEW p \in PreAuths
                 PROVE  /\ Cardinality(handed[p]) =< 1
                        /\ \A s \in handed[p] : about[grant[s]].pre = p
      BY DEF OneSessionPerPreAuth
    <2>1. \A s \in handed[p] : about[grant[s]].pre = p
      BY DEF BInv, StoreOK
    <2>2. CASE handed[p] = {}
      BY <2>1, <2>2, FS_EmptySet
    <2>3. CASE handed[p] # {}
      <3>1. PICK s \in handed[p] : TRUE
        BY <2>3
      <3>2. handed[p] = {s}
        BY <3>1 DEF BInv, StoreOK
      <3>3. Cardinality({s}) = 1
        BY FS_Singleton
      <3> QED BY <2>1, <3>2, <3>3
    <2> QED BY <2>2, <2>3
  <1> QED BY <1>1, InitBInv, NextBInv, PTL DEF Spec

(* For any number of requests, codes and faults, a sign-in that failed      *)
(* leaves no live session that its handler could have ended.                *)
THEOREM FailureCleansUp == Spec => []FailedSignInLeavesNothing
  <1>1. BInv => FailedSignInLeavesNothing
    BY DEF BInv, RequestsOK, RequestOK, FailedSignInLeavesNothing
  <1> QED BY <1>1, InitBInv, NextBInv, PTL DEF Spec

-----------------------------------------------------------------------------
(* What a logout promises, and what becomes of a code.                     *)

(* A logout on its way still ends what it set out to end: its own session,  *)
(* or sessions of its session's identity; once it says 204 they have ended. *)
LeaveOK(q, ses, ab, gr) ==
    /\ q.pc = "revoke" => q.sess \in Sessions
    /\ q.pc = "revoke" \/ (q.pc = "csrf" /\ q.sess # None) =>
          \A s \in q.was :
              /\ ses[s] # "none" /\ ses[q.sess] # "none"
              /\ IF q.kind = "logout" THEN s = q.sess ELSE ab[gr[s]].email = ab[gr[q.sess]].email
    /\ q.pc = "cleanup" => q.status # 204
    /\ q.pc = "answer" /\ q.status = 204 => \A s \in q.was : ses[s] = "ended"

(* Only a request for a code reserves one, and has it from then on. *)
AskOK(q) ==
    /\ q.pc \in {"reserve", "send", "invalidate"} => q.kind = "request"
    /\ q.kind = "request" /\ q.pc \notin {"send", "invalidate", "answer"} => q.ch = None

LInv == \A r \in Slots : LeaveOK(h[r], session, about, grant) /\ AskOK(h[r])

QInv == BInv /\ LInv /\ OpenCodeWasSent

(* The request still answers for the code. *)
Holds(q, ch) == q.kind = "request" /\ q.ch = ch /\ q.pc # "answer"

(* What a step of request r must say of each open code. *)
CodesOK(r, q) ==
    \A ch \in Challenges : code'[ch] = "open" =>
        \/ ch \in sent' \cup excused'
        \/ Holds(q, ch)
        \/ code[ch] = "open" /\ ch \notin sent \cup excused /\ ~Holds(h[r], ch)

LEMMA LeaveKept ==
  ASSUME BInv, Onward, NEW q \in Request, LeaveOK(q, session, about, grant), StoreType'
  PROVE  LeaveOK(q, session', about', grant')
  <1>1. \A s \in Sessions : session[s] # "none" =>
           /\ session'[s] # "none" /\ grant'[s] = grant[s]
           /\ about'[grant'[s]] = about[grant[s]]
    BY DEF BInv, StoreOK, Onward
  <1>2. \A s \in Sessions : session[s] = "ended" => session'[s] = "ended"
    BY DEF BInv, TypeOK, StoreType, Onward
  <1>3. q.was \subseteq Sessions /\ q.sess \in Sessions \cup {None}
    BY DEF Request
  <1> QED BY <1>1, <1>2, <1>3 DEF LeaveOK

LEMMA MovesOn ==
  ASSUME QInv, Onward, StoreType', sent \subseteq sent', NEW r \in Slots, NEW q,
         h' = [h EXCEPT ![r] = q],
         LeaveOK(q, session', about', grant'), AskOK(q), CodesOK(r, q)
  PROVE  LInv' /\ OpenCodeWasSent'
  <1>1. h \in [Slots -> Request] /\ BInv /\ LInv
    BY DEF QInv, BInv, TypeOK
  <1>2. h'[r] = q /\ \A x \in Slots : x # r => h'[x] = h[x]
    BY <1>1
  <1>3. ASSUME NEW x \in Slots  PROVE LeaveOK(h'[x], session', about', grant') /\ AskOK(h'[x])
    <2>1. CASE x = r
      BY <2>1, <1>2
    <2>2. CASE x # r
      <3>1. h'[x] = h[x] /\ h[x] \in Request
        BY <1>1, <1>2, <2>2
      <3>2. LeaveOK(h[x], session, about, grant) /\ AskOK(h[x])
        BY <1>1 DEF LInv
      <3>3. LeaveOK(h[x], session', about', grant')
        BY <1>1, <3>1, <3>2, LeaveKept
      <3> QED BY <3>1, <3>2, <3>3
    <2> QED BY <2>1, <2>2
  <1>4. ASSUME NEW ch \in Challenges, code'[ch] = "open"
        PROVE  ch \in sent' \cup excused' \/ \E x \in Slots : Holds(h'[x], ch)
    <2>1. CASE code[ch] = "open" /\ ch \notin sent \cup excused /\ ~Holds(h[r], ch)
      <3>1. \E x \in Slots : Holds(h[x], ch)
        BY <2>1 DEF QInv, OpenCodeWasSent, Holds
      <3>2. PICK x \in Slots : Holds(h[x], ch)
        BY <3>1
      <3>3. x # r
        BY <2>1, <3>2
      <3> QED BY <1>2, <3>2, <3>3
    <2>2. CASE Holds(q, ch)
      BY <1>2, <2>2
    <2> QED BY <1>4, <2>1, <2>2 DEF CodesOK
  <1>5. LInv'
    BY <1>3 DEF LInv
  <1>6. OpenCodeWasSent'
    BY <1>4 DEF OpenCodeWasSent, Holds
  <1> QED BY <1>5, <1>6

(* A request without a code of its own, at a step that opens none. *)
LEMMA NoCode ==
  ASSUME QInv, NEW r \in Slots, NEW q, h[r].pc \notin {"send", "invalidate"},
         sent \subseteq sent', excused \subseteq excused',
         \A ch \in Challenges : code'[ch] = "open" => code[ch] = "open"
  PROVE  CodesOK(r, q)
  <1>1. AskOK(h[r])
    BY DEF QInv, LInv
  <1>2. \A ch \in Challenges : ~Holds(h[r], ch)
    BY <1>1, NoneIsNoChallenge DEF AskOK, Holds
  <1> QED BY <1>2 DEF CodesOK

(* An answer other than 204, or a free slot. *)
Plain(q) == q = Quiet \/ (q.pc = "answer" /\ q.status # 204)

LEMMA PlainOK ==
  ASSUME NEW q, Plain(q), NEW ses, NEW ab, NEW gr
  PROVE  LeaveOK(q, ses, ab, gr) /\ AskOK(q)
  <1>1. Quiet.pc = "idle" /\ Quiet.kind = None /\ Quiet.ch = None
    BY DEF Quiet
  <1> QED BY <1>1 DEF Plain, LeaveOK, AskOK

LEMMA AnsweredShape ==
  ASSUME NEW q \in Request, NEW status \in Nat
  PROVE  /\ Answered(q, status) \in Request
         /\ Answered(q, status).was \subseteq q.was
         /\ \/ Answered(q, status) = Quiet
            \/ Answered(q, status).pc = "answer" /\ Answered(q, status).status = status
  <1> DEFINE a == [Quiet EXCEPT !.pc = "answer", !.status = status, !.kind = q.kind,
                                !.gone = q.gone]
             b == [a EXCEPT !.via = q.via, !.pre = q.pre, !.ch = q.ch, !.sess = q.sess,
                            !.was = q.was]
             c == [a EXCEPT !.sess = q.sess]
  <1>1. a \in Request /\ a.pc = "answer"
    BY DEF Quiet, Request
  <1>2. a.status = status /\ a.was = {} /\ Quiet.was = {}
    BY DEF Quiet
  <1>3. b \in Request /\ b.pc = a.pc /\ b.status = a.status /\ b.was = q.was
    <2> HIDE DEF a
    <2>1. b \in Request
      BY <1>1 DEF Request
    <2>2. b.pc = a.pc
      BY <1>1 DEF Request
    <2>3. b.status = a.status
      BY <1>1 DEF Request
    <2>4. b.was = q.was
      BY <1>1 DEF Request
    <2> QED BY <2>1, <2>2, <2>3, <2>4
  <1>4. c \in Request /\ c.pc = a.pc /\ c.status = a.status /\ c.was = a.was
    <2> HIDE DEF a
    <2>1. c \in Request
      BY <1>1 DEF Request
    <2>2. c.pc = a.pc /\ c.status = a.status /\ c.was = a.was
      BY <1>1 DEF Request
    <2> QED BY <2>1, <2>2
  <1>5. Answered(q, status) \in {b, c, Quiet}
    BY DEF Answered
  <1> HIDE DEF a, b, c
  <1>6. CASE Answered(q, status) = b
    BY <1>1, <1>2, <1>3, <1>6
  <1>7. CASE Answered(q, status) = c
    BY <1>1, <1>2, <1>4, <1>7
  <1>8. CASE Answered(q, status) = Quiet
    BY <1>2, <1>8, QuietType
  <1> QED BY <1>5, <1>6, <1>7, <1>8

LEMMA PlainAnswer ==
  ASSUME QInv, NEW r \in Slots, NEW status \in Nat, status # 204
  PROVE  Plain(Answered(h[r], status))
  <1>1. h[r] \in Request
    BY DEF QInv, BInv, TypeOK
  <1> QED BY <1>1, AnsweredShape DEF Plain

LEMMA PlainNeutral ==
  ASSUME QInv, NEW r \in Slots
  PROVE  Plain(Answered([h[r] EXCEPT !.ch = None], 202))
  <1> DEFINE q == [h[r] EXCEPT !.ch = None]
  <1>1. h[r] \in Request
    BY DEF QInv, BInv, TypeOK
  <1>2. q \in Request
    BY <1>1 DEF Request
  <1> HIDE DEF q
  <1>3. Plain(Answered(q, 202))
    BY <1>2, AnsweredShape DEF Plain
  <1> QED BY <1>3 DEF q

LEMMA PlainMove ==
  ASSUME QInv, Onward, StoreType', NEW r \in Slots, NEW q, Plain(q), h' = [h EXCEPT ![r] = q],
         h[r].pc \notin {"send", "invalidate"}, sent' = sent,
         \A ch \in Challenges : code'[ch] = "open" => code[ch] = "open"
  PROVE  LInv' /\ OpenCodeWasSent'
  <1>1. excused \subseteq excused'
    BY DEF Onward
  <1>2. CodesOK(r, q)
    BY <1>1, NoCode
  <1> QED BY <1>2, PlainOK, MovesOn

(* The same, over an unchanged store. *)
LEMMA StillMove ==
  ASSUME QInv, NEW r \in Slots, NEW q, h' = [h EXCEPT ![r] = q], UNCHANGED <<store, history>>,
         h[r].pc \notin {"send", "invalidate"},
         LeaveOK(q, session, about, grant), AskOK(q)
  PROVE  LInv' /\ OpenCodeWasSent'
  <1>1. BInv /\ StoreType
    BY DEF QInv, BInv, TypeOK, StoreType
  <1>2. /\ session' = session /\ about' = about /\ grant' = grant /\ code' = code /\ pre' = pre
        /\ handed' = handed /\ sent' = sent /\ excused' = excused
    BY DEF store, history
  <1>3. Onward
    BY <1>1, <1>2, Still DEF history, store
  <1>4. StoreType'
    BY <1>1, <1>2 DEF StoreType
  <1>5. CodesOK(r, q)
    BY <1>2, NoCode
  <1>6. LeaveOK(q, session', about', grant')
    BY <1>2
  <1> QED BY <1>2, <1>3, <1>4, <1>5, <1>6, MovesOn

-----------------------------------------------------------------------------
LEMMA ArrivesOn ==
  ASSUME QInv, NEW r \in Slots, NEW q \in Request, NEW denied \in Nat, denied # 204,
         NEW first, Arrive(r, q, denied, first),
         denied = 0 => /\ LeaveOK([q EXCEPT !.pc = first], session, about, grant)
                       /\ AskOK([q EXCEPT !.pc = first])
  PROVE  LInv' /\ OpenCodeWasSent'
  <1> DEFINE a == IF denied # 0 THEN Answered(q, denied) ELSE [q EXCEPT !.pc = first]
  <1>1. LeaveOK(a, session, about, grant) /\ AskOK(a)
    <2>1. CASE denied # 0
      <3>1. Plain(Answered(q, denied))
        BY AnsweredShape DEF Plain
      <3> QED BY <2>1, <3>1, PlainOK
    <2>2. CASE denied = 0
      BY <2>2
    <2> QED BY <2>1, <2>2
  <1>2. h' = [h EXCEPT ![r] = a] /\ h[r].pc = "idle" /\ UNCHANGED <<store, history>>
    BY DEF Arrive
  <1> HIDE DEF a
  <1> QED BY <1>1, <1>2, StillMove

LEMMA AsksShape ==
  ASSUME NEW kind \in {"bootstrap", "request", "verify", "logout", "logoutAll"},
         NEW via \in {"browser", "native"}
  PROVE  Asks(kind, via).ch = None /\ Asks(kind, via).was = {}
  BY DEF Asks, Quiet

(* Of a request that is no logout nothing is asked, and a code only once it *)
(* has one.                                                                 *)
LEMMA StartOK ==
  ASSUME NEW q \in Request, NEW first \in {"create", "authpre", "reserve", "verify"},
         first = "reserve" => q.kind = "request", q.kind = "request" => q.ch = None,
         NEW ses, NEW ab, NEW gr
  PROVE  LeaveOK([q EXCEPT !.pc = first], ses, ab, gr) /\ AskOK([q EXCEPT !.pc = first])
  <1> DEFINE b == [q EXCEPT !.pc = first]
  <1>1. b.pc = first /\ b.kind = q.kind /\ b.ch = q.ch
    BY DEF Request
  <1> HIDE DEF b
  <1>2. LeaveOK(b, ses, ab, gr) /\ AskOK(b)
    BY <1>1 DEF LeaveOK, AskOK
  <1> QED BY <1>2 DEF b

LEMMA LogoutArrivesOn ==
  ASSUME QInv, NEW r \in Slots, NEW via \in {"browser", "native"}, NEW s \in Sessions \cup {None},
         NEW kind \in {"logout", "logoutAll"}, NEW own \in BOOLEAN, NEW foreign \in BOOLEAN,
         ArriveLogout(r, kind, via, s, own, foreign)
  PROVE  LInv' /\ OpenCodeWasSent'
  <1> DEFINE a == Asks(kind, via)
             o == Owned(own \/ via = "native", s)
             w == Ending(kind, s)
             q == [a EXCEPT !.sess = o, !.was = w]
             d == IF via = "browser" /\ foreign THEN 403 ELSE IF s = None THEN 401 ELSE 0
             f == IF via = "browser" THEN "csrf" ELSE "revoke"
             b == [q EXCEPT !.pc = f]
  <1>1. o \in {s, None} /\ w \in SUBSET Sessions /\ (via = "native" => o = s)
    BY DEF Owned, Ending, Live
  <1>2. a \in Request /\ a.kind = kind
    BY AsksType
  <1>3. q \in Request /\ q.kind = kind /\ q.sess = o /\ q.was = w
    <2> HIDE DEF a, o, w
    <2> QED BY <1>1, <1>2 DEF Request
  <1>4. d \in Nat \ {204} /\ f \in {"csrf", "revoke"} /\ (d = 0 => s \in Sessions /\ s # None)
        /\ (f = "revoke" => o = s)
    BY <1>1
  <1>5. Arrive(r, q, d, f)
    BY DEF ArriveLogout
  <1>6. o # None => \A t \in w :
           /\ session[t] # "none" /\ session[o] # "none"
           /\ IF kind = "logout" THEN t = o ELSE about[grant[t]].email = about[grant[o]].email
    <2>1. SUFFICES ASSUME o # None, NEW t \in w
                   PROVE  /\ session[t] # "none" /\ session[o] # "none"
                          /\ IF kind = "logout" THEN t = o
                             ELSE about[grant[t]].email = about[grant[o]].email
      OBVIOUS
    <2>2. o = s
      BY <1>1, <2>1
    <2>3. session[s] = "live" /\ w = IF kind = "logout" THEN {s} ELSE Live(about[grant[s]].email)
      BY <2>1 DEF Ending
    <2> HIDE DEF o, w
    <2>4. CASE kind = "logout"
      BY <2>1, <2>2, <2>3, <2>4
    <2>5. CASE kind # "logout"
      <3>1. t \in Live(about[grant[s]].email)
        BY <2>1, <2>3, <2>5
      <3> QED BY <2>2, <2>3, <2>5, <3>1 DEF Live
    <2> QED BY <2>4, <2>5
  <1>7. ASSUME d = 0  PROVE LeaveOK(b, session, about, grant) /\ AskOK(b)
    <2>1. b.pc = f /\ b.kind = kind /\ b.sess = o /\ b.was = w
      <3> HIDE DEF q, f
      <3> QED BY <1>3, <1>4 DEF Request
    <2>2. (f = "revoke" => o \in Sessions /\ o # None) /\ f \in {"csrf", "revoke"}
      BY <1>4, <1>7
    <2> HIDE DEF b, f, o, w, d
    <2> QED BY <1>6, <2>1, <2>2 DEF LeaveOK, AskOK
  <1> HIDE DEF q, d, f
  <1> QED BY <1>3, <1>4, <1>5, <1>7, ArrivesOn

LEMMA ArrivalsOn ==
  ASSUME QInv, NEW r \in Slots, Arrivals(r)
  PROVE  LInv' /\ OpenCodeWasSent'
  <1>0. jar.pre \in PreAuths \cup {None}
    BY DEF QInv, BInv, TypeOK
  <1>1. ASSUME NEW foreign \in BOOLEAN, ArriveBootstrap(r, foreign)
        PROVE  LInv' /\ OpenCodeWasSent'
    <2> DEFINE q == Asks("bootstrap", "browser")
               d == IF foreign THEN 403 ELSE 0
    <2>1. d \in Nat \ {204} /\ q \in Request /\ q.kind = "bootstrap"
      BY AsksType
    <2>2. Arrive(r, q, d, "create")
      BY <1>1 DEF ArriveBootstrap
    <2> HIDE DEF q, d
    <2> QED BY <2>1, <2>2, StartOK, ArrivesOn
  <1>2. ASSUME NEW email \in Emails, NEW own \in BOOLEAN, NEW foreign \in BOOLEAN,
               ArriveRequest(r, email, own, foreign)
        PROVE  LInv' /\ OpenCodeWasSent'
    <2> DEFINE a == Asks("request", "browser")
               o == Owned(own, jar.pre)
               q == [a EXCEPT !.email = email, !.pre = o]
               d == PreAuthDenied(foreign)
    <2>1. o \in PreAuths \cup {None}
      BY <1>0 DEF Owned
    <2>2. a \in Request /\ a.ch = None
      BY AsksType, AsksShape
    <2>3. q \in Request /\ q.ch = None
      <3> HIDE DEF a, o
      <3>1. q.ch = a.ch
        BY <2>2 DEF Request
      <3>2. q \in Request
        BY <2>1, <2>2, ZenonT(40) DEF Request
      <3> QED BY <2>2, <3>1, <3>2
    <2>4. d \in Nat \ {204}
      BY DEF PreAuthDenied
    <2>5. Arrive(r, q, d, "authpre")
      BY <1>2 DEF ArriveRequest
    <2> HIDE DEF q, d
    <2> QED BY <2>3, <2>4, <2>5, StartOK, ArrivesOn
  <1>3. ASSUME NEW ch \in Challenges \cup {None}, NEW own \in BOOLEAN, NEW foreign \in BOOLEAN,
               ArriveVerify(r, ch, own, foreign)
        PROVE  LInv' /\ OpenCodeWasSent'
    <2> DEFINE a == Asks("verify", "browser")
               o == Owned(own, jar.pre)
               q == [a EXCEPT !.ch = ch, !.pre = o]
               d == PreAuthDenied(foreign)
    <2>1. o \in PreAuths \cup {None}
      BY <1>0 DEF Owned
    <2>2. a \in Request /\ a.kind = "verify"
      BY AsksType
    <2>3. q \in Request /\ q.kind = "verify"
      <3> HIDE DEF a, o
      <3> QED BY <2>1, <2>2 DEF Request
    <2>4. d \in Nat \ {204}
      BY DEF PreAuthDenied
    <2>5. Arrive(r, q, d, "authpre")
      BY <1>3 DEF ArriveVerify
    <2> HIDE DEF q, d
    <2> QED BY <2>3, <2>4, <2>5, StartOK, ArrivesOn
  <1>4. ASSUME NEW email \in Emails, NEW decodes \in BOOLEAN,
               ArriveNativeRequest(r, email, decodes)
        PROVE  LInv' /\ OpenCodeWasSent'
    <2> DEFINE a == Asks("request", "native")
               q == [a EXCEPT !.email = email]
               d == IF decodes THEN 0 ELSE 400
    <2>1. a \in Request /\ a.kind = "request" /\ a.ch = None
      BY AsksType, AsksShape
    <2>2. q \in Request /\ q.kind = "request" /\ q.ch = None
      <3> HIDE DEF a
      <3> QED BY <2>1 DEF Request
    <2>3. d \in Nat \ {204}
      OBVIOUS
    <2>4. Arrive(r, q, d, "reserve")
      BY <1>4 DEF ArriveNativeRequest
    <2> HIDE DEF q, d
    <2> QED BY <2>2, <2>3, <2>4, StartOK, ArrivesOn
  <1>5. ASSUME NEW ch \in Challenges \cup {None}, NEW decodes \in BOOLEAN,
               ArriveNativeVerify(r, ch, decodes)
        PROVE  LInv' /\ OpenCodeWasSent'
    <2> DEFINE a == Asks("verify", "native")
               q == [a EXCEPT !.ch = ch]
               d == IF decodes THEN 0 ELSE 400
    <2>1. a \in Request /\ a.kind = "verify"
      BY AsksType
    <2>2. q \in Request /\ q.kind = "verify"
      <3> HIDE DEF a
      <3> QED BY <2>1 DEF Request
    <2>3. d \in Nat \ {204}
      OBVIOUS
    <2>4. Arrive(r, q, d, "verify")
      BY <1>5 DEF ArriveNativeVerify
    <2> HIDE DEF q, d
    <2> QED BY <2>2, <2>3, <2>4, StartOK, ArrivesOn
  <1> QED BY <1>1, <1>2, <1>3, <1>4, <1>5, LogoutArrivesOn DEF Arrivals

LEMMA StoreTyped == QInv => StoreType
  BY DEF QInv, BInv, TypeOK, StoreType

LEMMA StillStore ==
  ASSUME QInv, UNCHANGED <<store, handed>>, excused \subseteq excused'
  PROVE  Onward /\ StoreType'
  <1>1. Onward
    BY Still DEF QInv
  <1>2. StoreType'
    BY StoreTyped DEF StoreType, store
  <1> QED BY <1>1, <1>2

(* Steps that answer, other than a logout's. *)
LEMMA AnswersOn ==
  ASSUME QInv, NEW r \in Slots, NEW status \in Nat, status # 204, Answer(r, status),
         h[r].pc \notin {"send", "invalidate"}, Onward, StoreType', sent' = sent,
         \A ch \in Challenges : code'[ch] = "open" => code[ch] = "open"
  PROVE  LInv' /\ OpenCodeWasSent'
  <1>1. Plain(Answered(h[r], status))
    BY PlainAnswer
  <1>2. h' = [h EXCEPT ![r] = Answered(h[r], status)]
    BY DEF Answer
  <1> QED BY <1>1, <1>2, PlainMove

LEMMA CreatePreAuthOn ==
  ASSUME QInv, NEW r \in Slots, NEW p \in PreAuths, CreatePreAuth(r, p)
  PROVE  LInv' /\ OpenCodeWasSent'
  <1>0. BInv
    BY DEF QInv
  <1>1. Onward
    BY <1>0 DEF CreatePreAuth, Onward, BInv, TypeOK, history
  <1>2. StoreType'
    BY <1>0 DEF CreatePreAuth, StoreType, BInv, TypeOK, history
  <1>3. sent' = sent /\ code' = code /\ h[r].pc = "create"
    BY DEF CreatePreAuth, history
  <1>4. CASE Answer(r, 503) \/ Answer(r, 429)
    BY <1>1, <1>2, <1>3, <1>4, AnswersOn
  <1>5. CASE h' = [h EXCEPT ![r] = Given(h[r], 200, p)]
    <2>1. h[r] \in Request
      BY <1>0 DEF BInv, TypeOK
    <2>2. Plain(Given(h[r], 200, p))
      BY <2>1, GivenType DEF Plain
    <2> QED BY <1>1, <1>2, <1>3, <1>5, <2>2, PlainMove
  <1> QED BY <1>4, <1>5 DEF CreatePreAuth, Given

LEMMA AuthenticateOn ==
  ASSUME QInv, NEW r \in Slots, NEW decodes \in BOOLEAN, AuthenticatePreAuth(r, decodes)
  PROVE  LInv' /\ OpenCodeWasSent'
  <1>1. UNCHANGED <<store, history>> /\ h[r].pc = "authpre"
    BY DEF AuthenticatePreAuth
  <1>2. h[r] \in Request /\ AskOK(h[r])
    BY DEF QInv, BInv, TypeOK, LInv
  <1>3. Onward /\ StoreType' /\ sent' = sent /\ code' = code
    BY <1>1, StillStore DEF history, store
  <1>4. CASE Answer(r, 403) \/ Answer(r, 400)
    BY <1>1, <1>3, <1>4, AnswersOn
  <1>5. CASE Goto(r, IF h[r].kind = "request" THEN "reserve" ELSE "verify")
    <2> DEFINE f == IF h[r].kind = "request" THEN "reserve" ELSE "verify"
               q == [h[r] EXCEPT !.pc = f]
    <2>1. f \in {"reserve", "verify"} /\ (f = "reserve" => h[r].kind = "request")
      OBVIOUS
    <2>2. h[r].kind = "request" => h[r].ch = None
      BY <1>1, <1>2 DEF AskOK
    <2>3. h' = [h EXCEPT ![r] = q]
      BY <1>5 DEF Goto
    <2> HIDE DEF f
    <2>4. LeaveOK(q, session, about, grant) /\ AskOK(q)
      BY <1>2, <2>1, <2>2, StartOK
    <2> HIDE DEF q
    <2> QED BY <1>1, <2>3, <2>4, StillMove
  <1> QED BY <1>4, <1>5 DEF AuthenticatePreAuth

-----------------------------------------------------------------------------
(* The life of a code: reserved, sent, or taken back. *)
LEMMA ReserveOn ==
  ASSUME QInv, NEW r \in Slots, NEW ch \in Challenges, Reserve(r, ch)
  PROVE  LInv' /\ OpenCodeWasSent'
  <1> DEFINE q == [h[r] EXCEPT !.pc = "send", !.ch = ch]
  <1>0. BInv /\ h[r] \in Request /\ AskOK(h[r]) /\ h[r].pc = "reserve" /\ sent' = sent
    BY DEF QInv, BInv, TypeOK, LInv, Reserve
  <1>1. Onward
    BY <1>0 DEF Reserve, Onward, BInv, TypeOK
  <1>2. StoreType'
    <2>1. about' \in [Challenges -> [email : Emails \cup {None}, via : {"browser", "native", None},
                                    pre : PreAuths \cup {None}]]
      BY <1>0 DEF Reserve, BInv, TypeOK, Request
    <2>2. code' \in [Challenges -> {"unissued", "open", "closed"}]
      BY <1>0 DEF Reserve, BInv, TypeOK
    <2> QED BY <1>0, <2>1, <2>2 DEF Reserve, StoreType, BInv, TypeOK
  <1>3. \A d \in Challenges : d # ch /\ code'[d] = "open" => code[d] = "open"
    BY DEF Reserve
  <1>4. \A d \in Challenges : ~Holds(h[r], d)
    BY <1>0, NoneIsNoChallenge DEF AskOK, Holds
  <1>5. CASE h' = [h EXCEPT ![r] = q] /\ UNCHANGED excused
    <2>1. q.pc = "send" /\ q.ch = ch /\ q.kind = "request"
      BY <1>0 DEF Request, AskOK
    <2> HIDE DEF q
    <2>2. LeaveOK(q, session', about', grant') /\ AskOK(q) /\ Holds(q, ch)
      BY <2>1 DEF LeaveOK, AskOK, Holds
    <2>3. CodesOK(r, q)
      BY <1>0, <1>3, <1>4, <1>5, <2>2 DEF CodesOK
    <2> QED BY <1>0, <1>1, <1>2, <1>5, <2>2, <2>3, MovesOn
  <1>6. CASE Answer(r, 503) /\ excused' = excused \cup {ch}
    <2>1. Plain(Answered(h[r], 503))
      BY PlainAnswer
    <2>2. h' = [h EXCEPT ![r] = Answered(h[r], 503)]
      BY <1>6 DEF Answer
    <2>3. CodesOK(r, Answered(h[r], 503))
      BY <1>0, <1>3, <1>4, <1>6 DEF CodesOK
    <2> DEFINE a == Answered(h[r], 503)
    <2>4. LeaveOK(a, session', about', grant') /\ AskOK(a)
      BY <2>1, PlainOK
    <2>5. CodesOK(r, a) /\ h' = [h EXCEPT ![r] = a] /\ sent \subseteq sent'
      BY <1>0, <2>2, <2>3
    <2> HIDE DEF a
    <2> QED BY <1>1, <1>2, <2>4, <2>5, MovesOn
  <1> QED BY <1>5, <1>6 DEF Reserve

LEMMA ReserveLimitedOn ==
  ASSUME QInv, NEW r \in Slots, ReserveLimited(r)
  PROVE  LInv' /\ OpenCodeWasSent'
  <1> DEFINE q == Answered([h[r] EXCEPT !.ch = None], 202)
  <1>1. Plain(q)
    BY PlainNeutral
  <1>2. h' = [h EXCEPT ![r] = q] /\ h[r].pc = "reserve" /\ UNCHANGED <<store, history>>
    BY DEF ReserveLimited, Neutral
  <1> HIDE DEF q
  <1> QED BY <1>1, <1>2, PlainOK, StillMove

LEMMA SendOn ==
  ASSUME QInv, NEW r \in Slots, Send(r)
  PROVE  LInv' /\ OpenCodeWasSent'
  <1>0. /\ h[r] \in Request /\ AskOK(h[r]) /\ h[r].pc = "send"
        /\ UNCHANGED <<store, handed, excused>>
    BY DEF QInv, BInv, TypeOK, LInv, Send
  <1>1. Onward /\ StoreType' /\ code' = code /\ excused' = excused
    BY <1>0, StillStore DEF store
  <1>2. ASSUME NEW q, Plain(q), h' = [h EXCEPT ![r] = q], sent' = sent \cup {h[r].ch}
        PROVE  LInv' /\ OpenCodeWasSent'
    <2>1. \A ch \in Challenges : Holds(h[r], ch) => ch \in sent'
      BY <1>2 DEF Holds
    <2>2. CodesOK(r, q)
      BY <1>1, <1>2, <2>1 DEF CodesOK
    <2> QED BY <1>1, <1>2, <2>2, PlainOK, MovesOn
  <1>3. CASE Answer(r, 202) /\ sent' = sent \cup {h[r].ch}
    <2>1. Plain(Answered(h[r], 202))
      BY PlainAnswer
    <2>2. h' = [h EXCEPT ![r] = Answered(h[r], 202)]
      BY <1>3 DEF Answer
    <2> QED BY <1>2, <1>3, <2>1, <2>2
  <1>4. CASE Neutral(r) /\ sent' = sent \cup {h[r].ch}
    <2>1. Plain(Answered([h[r] EXCEPT !.ch = None], 202))
      BY PlainNeutral
    <2>2. h' = [h EXCEPT ![r] = Answered([h[r] EXCEPT !.ch = None], 202)]
      BY <1>4 DEF Neutral
    <2> QED BY <1>2, <1>4, <2>1, <2>2
  <1>5. CASE Goto(r, "invalidate") /\ UNCHANGED sent
    <2> DEFINE q == [h[r] EXCEPT !.pc = "invalidate"]
    <2>1. h' = [h EXCEPT ![r] = q]
      BY <1>5 DEF Goto
    <2>2. q.pc = "invalidate" /\ q.kind = h[r].kind /\ q.ch = h[r].ch /\ h[r].kind = "request"
      BY <1>0 DEF Request, AskOK
    <2> HIDE DEF q
    <2>3. LeaveOK(q, session', about', grant') /\ AskOK(q)
      BY <2>2 DEF LeaveOK, AskOK
    <2>4. CodesOK(r, q)
      BY <1>1, <1>5, <2>2 DEF CodesOK, Holds
    <2> QED BY <1>1, <1>5, <2>1, <2>3, <2>4, MovesOn
  <1> QED BY <1>3, <1>4, <1>5 DEF Send

LEMMA InvalidateOn ==
  ASSUME QInv, NEW r \in Slots, Invalidate(r)
  PROVE  LInv' /\ OpenCodeWasSent'
  <1> DEFINE q == Answered([h[r] EXCEPT !.ch = None], 202)
  <1>0. BInv /\ h[r].pc = "invalidate" /\ sent' = sent
    BY DEF QInv, Invalidate
  <1>1. Plain(q)
    BY PlainNeutral
  <1>2. h' = [h EXCEPT ![r] = q]
    BY DEF Invalidate, Neutral
  <1>3. Onward
    BY <1>0 DEF Invalidate, Onward, BInv, TypeOK
  <1>4. StoreType'
    BY <1>0 DEF Invalidate, StoreType, BInv, TypeOK
  <1>5. \A ch \in Challenges : code'[ch] = "open" =>
           code[ch] = "open" /\ (ch \in excused' \/ ch # h[r].ch)
    BY DEF Invalidate, CleanedUp
  <1> HIDE DEF q
  <1>6. CodesOK(r, q)
    BY <1>0, <1>3, <1>5 DEF CodesOK, Holds, Onward
  <1> QED BY <1>0, <1>1, <1>2, <1>3, <1>4, <1>6, PlainOK, MovesOn

-----------------------------------------------------------------------------
(* Signing in. *)
LEMMA VerifyOn ==
  ASSUME QInv, NEW r \in Slots, NEW s \in Sessions, Verify(r, s)
  PROVE  LInv' /\ OpenCodeWasSent'
  <1> DEFINE a == Answered(h[r], 200)
             q == [h[r] EXCEPT !.sess = s, !.pc = "consume"]
             n == [a EXCEPT !.sess = s]
  <1>0. BInv /\ h[r] \in Request /\ AskOK(h[r]) /\ h[r].pc = "verify" /\ sent' = sent
    BY DEF QInv, BInv, TypeOK, LInv, Verify
  <1>1. h[r].ch \in Challenges /\ h[r].ch # None /\ code[h[r].ch] = "open"
    BY <1>0 DEF Verify, Accepts, Request
  <1>2. Onward
    BY <1>0, <1>1 DEF Verify, Onward, BInv, TypeOK
  <1>3. StoreType'
    BY <1>0, <1>1 DEF Verify, StoreType, BInv, TypeOK
  <1>4. \A ch \in Challenges : code'[ch] = "open" => code[ch] = "open"
    BY <1>0 DEF Verify, BInv, TypeOK
  <1>5. CASE h' = [h EXCEPT ![r] = q]
    <2>1. q.pc = "consume" /\ q.kind # "request"
      BY <1>0, <1>1 DEF Request, AskOK
    <2> HIDE DEF q
    <2>2. LeaveOK(q, session', about', grant') /\ AskOK(q)
      BY <2>1 DEF LeaveOK, AskOK
    <2>3. excused \subseteq excused'
      BY <1>2 DEF Onward
    <2>4. CodesOK(r, q)
      BY <1>0, <1>4, <2>3, NoCode
    <2> QED BY <1>0, <1>2, <1>3, <1>5, <2>2, <2>4, MovesOn
  <1>6. CASE h' = [h EXCEPT ![r] = n]
    <2>1. a \in Request /\ a.pc = "answer" /\ a.status = 200
      BY <1>0, <1>1, AnsweredWell
    <2> HIDE DEF a
    <2>2. n.pc = "answer" /\ n.status = 200
      BY <2>1 DEF Request
    <2> HIDE DEF n
    <2>3. Plain(n)
      BY <2>2 DEF Plain
    <2> QED BY <1>0, <1>2, <1>3, <1>4, <1>6, <2>3, PlainMove
  <1>7. CASE Answer(r, 503)
    BY <1>0, <1>2, <1>3, <1>4, <1>7, AnswersOn
  <1> QED BY <1>5, <1>6, <1>7 DEF Verify

LEMMA VerifyRefusedOn ==
  ASSUME QInv, NEW r \in Slots, VerifyRefused(r)
  PROVE  LInv' /\ OpenCodeWasSent'
  <1>0. BInv /\ h[r].pc = "verify" /\ sent' = sent
    BY DEF QInv, VerifyRefused, history
  <1>1. Onward
    BY <1>0 DEF VerifyRefused, Onward, BInv, TypeOK, history
  <1>2. StoreType'
    BY <1>0 DEF VerifyRefused, StoreType, BInv, TypeOK, history
  <1>3. \A ch \in Challenges : code'[ch] = "open" => code[ch] = "open"
    BY <1>0 DEF VerifyRefused, BInv, TypeOK
  <1>4. Answer(r, 401) \/ Answer(r, 429)
    BY DEF VerifyRefused
  <1> QED BY <1>0, <1>1, <1>2, <1>3, <1>4, AnswersOn

(* To the clean-up, with the status that the answer will carry. *)
LEMMA FailsOn ==
  ASSUME QInv, NEW r \in Slots, NEW status \in {401, 503}, h[r].pc = "consume",
         h' = [h EXCEPT ![r] = Failed(h[r], status)], Onward, StoreType', sent' = sent, code' = code
  PROVE  LInv' /\ OpenCodeWasSent'
  <1> DEFINE q == Failed(h[r], status)
  <1>1. h[r] \in Request /\ AskOK(h[r])
    BY DEF QInv, BInv, TypeOK, LInv
  <1>2. q.pc = "cleanup" /\ q.status = status /\ q.kind = h[r].kind /\ q.ch = h[r].ch
    BY <1>1 DEF Failed, Request
  <1> HIDE DEF q
  <1>3. LeaveOK(q, session', about', grant') /\ AskOK(q)
    BY <1>1, <1>2 DEF LeaveOK, AskOK
  <1>4. excused \subseteq excused'
    BY DEF Onward
  <1>5. CodesOK(r, q)
    BY <1>4, NoCode
  <1>6. h' = [h EXCEPT ![r] = q]
    BY DEF q
  <1> QED BY <1>3, <1>5, <1>6, MovesOn

LEMMA ConsumeOn ==
  ASSUME QInv, NEW r \in Slots, Consume(r)
  PROVE  LInv' /\ OpenCodeWasSent'
  <1>0. BInv /\ h[r] \in Request /\ h[r].pc = "consume" /\ sent' = sent /\ code' = code
    BY DEF QInv, BInv, TypeOK, Consume
  <1>1. Onward
    BY <1>0 DEF Consume, Onward, BInv, TypeOK
  <1>2. StoreType'
    <2>1. pre' \in [PreAuths -> {"unused", "live", "gone"}]
      BY <1>0 DEF Consume, BInv, TypeOK
    <2>2. handed' \in [PreAuths -> SUBSET Sessions]
      <3>1. h[r].sess \in Sessions
        BY <1>0 DEF BInv, RequestsOK, RequestOK
      <3> QED BY <1>0, <3>1 DEF Consume, BInv, TypeOK
    <2> QED BY <1>0, <2>1, <2>2 DEF Consume, StoreType, BInv, TypeOK
  <1>3. CASE Answer(r, 200)
    BY <1>0, <1>1, <1>2, <1>3, AnswersOn
  <1>4. CASE h' = [h EXCEPT ![r] = Failed(h[r], 401)]
    BY <1>0, <1>1, <1>2, <1>4, FailsOn, ZenonT(40)
  <1>5. CASE h' = [h EXCEPT ![r] = Failed(h[r], 503)]
    BY <1>0, <1>1, <1>2, <1>5, FailsOn, ZenonT(40)
  <1> QED BY <1>3, <1>4, <1>5 DEF Consume, Failed

LEMMA ConsumeUnreachedOn ==
  ASSUME QInv, NEW r \in Slots, ConsumeUnreached(r)
  PROVE  LInv' /\ OpenCodeWasSent'
  <1>1. /\ UNCHANGED <<store, history>> /\ h[r].pc = "consume"
        /\ h' = [h EXCEPT ![r] = Failed(h[r], 503)]
    BY DEF ConsumeUnreached, Failed
  <1>2. Onward /\ StoreType' /\ sent' = sent /\ code' = code
    BY <1>1, StillStore DEF store, history
  <1> QED BY <1>1, <1>2, FailsOn, ZenonT(40)

LEMMA CleanupOn ==
  ASSUME QInv, NEW r \in Slots, Cleanup(r)
  PROVE  LInv' /\ OpenCodeWasSent'
  <1>0. BInv /\ h[r] \in Request /\ h[r].pc = "cleanup" /\ sent' = sent /\ code' = code
    BY DEF QInv, BInv, TypeOK, Cleanup
  <1>1. Onward
    BY <1>0 DEF Cleanup, Onward, BInv, TypeOK, End
  <1>2. StoreType'
    BY <1>0 DEF Cleanup, StoreType, BInv, TypeOK, End
  <1>3. h[r].status \in Nat /\ h[r].status # 204
    BY <1>0 DEF QInv, LInv, LeaveOK, Request
  <1>4. Answer(r, h[r].status)
    BY DEF Cleanup
  <1> QED BY <1>0, <1>1, <1>2, <1>3, <1>4, AnswersOn

-----------------------------------------------------------------------------
(* Signing out. *)
LEMMA ValidateOn ==
  ASSUME QInv, NEW r \in Slots, ValidateCSRF(r)
  PROVE  LInv' /\ OpenCodeWasSent'
  <1>0. /\ UNCHANGED <<store, history>> /\ h[r].pc = "csrf"
        /\ h[r] \in Request /\ LeaveOK(h[r], session, about, grant) /\ AskOK(h[r])
    BY DEF QInv, BInv, TypeOK, LInv, ValidateCSRF
  <1>1. Onward /\ StoreType' /\ sent' = sent /\ code' = code
    BY <1>0, StillStore DEF store, history
  <1>2. CASE Answer(r, 403)
    BY <1>0, <1>1, <1>2, AnswersOn
  <1>3. CASE Goto(r, "revoke") /\ h[r].sess # None
    <2> DEFINE q == [h[r] EXCEPT !.pc = "revoke"]
    <2>1. h' = [h EXCEPT ![r] = q]
      BY <1>3 DEF Goto
    <2>2. /\ q.pc = "revoke" /\ q.kind = h[r].kind /\ q.ch = h[r].ch /\ q.sess = h[r].sess
          /\ q.was = h[r].was /\ q.sess \in Sessions
      BY <1>0, <1>3 DEF Request
    <2> HIDE DEF q
    <2>3. LeaveOK(q, session, about, grant) /\ AskOK(q)
      BY <1>0, <1>3, <2>2 DEF LeaveOK, AskOK
    <2> QED BY <1>0, <2>1, <2>3, StillMove
  <1> QED BY <1>2, <1>3 DEF ValidateCSRF

(* The answer of a logout sets out to end no more than the request did. *)
LEMMA LogoutShape ==
  ASSUME QInv, NEW r \in Slots, NEW status \in Nat, LogoutAnswer(r, status)
  PROVE  \E q : /\ h' = [h EXCEPT ![r] = q]
                /\ q = Quiet \/ (q.pc = "answer" /\ q.status = status)
                /\ q.was \subseteq h[r].was
  <1> DEFINE a == Answered(h[r], status)
             b == [a EXCEPT !.pc = "answer", !.status = status, !.gone = h[r].gone, !.clears = TRUE]
  <1>1. h[r] \in Request
    BY DEF QInv, BInv, TypeOK
  <1>2. /\ a \in Request /\ a.was \subseteq h[r].was
        /\ a = Quiet \/ (a.pc = "answer" /\ a.status = status)
    BY <1>1, AnsweredShape
  <1>3. h' = [h EXCEPT ![r] = IF h[r].via = "browser" THEN b ELSE a]
    BY DEF LogoutAnswer
  <1> HIDE DEF a
  <1>4. b.pc = "answer" /\ b.status = status /\ b.was = a.was
    BY <1>2 DEF Request
  <1> HIDE DEF b
  <1> QED BY <1>2, <1>3, <1>4

LEMMA LogoutFails ==
  ASSUME QInv, NEW r \in Slots, NEW status \in {401, 503}, LogoutAnswer(r, status),
         h[r].pc = "revoke", Onward, StoreType', sent' = sent, code' = code
  PROVE  LInv' /\ OpenCodeWasSent'
  <1>1. PICK q : /\ h' = [h EXCEPT ![r] = q]
                 /\ q = Quiet \/ (q.pc = "answer" /\ q.status = status)
    BY LogoutShape
  <1>2. Plain(q)
    BY <1>1 DEF Plain
  <1> QED BY <1>1, <1>2, PlainMove

LEMMA RevokeOn ==
  ASSUME QInv, NEW r \in Slots, Revoke(r)
  PROVE  LInv' /\ OpenCodeWasSent'
  <1>0. /\ BInv /\ h[r] \in Request /\ h[r].pc = "revoke" /\ sent' = sent /\ code' = code
        /\ LeaveOK(h[r], session, about, grant)
    BY DEF QInv, BInv, TypeOK, LInv, Revoke, history
  <1>1. Onward
    BY <1>0 DEF Revoke, Onward, BInv, TypeOK, End, history
  <1>2. StoreType'
    BY <1>0 DEF Revoke, StoreType, BInv, TypeOK, End, history
  <1>3. CASE \E status \in {401, 503} : LogoutAnswer(r, status)
    BY <1>0, <1>1, <1>2, <1>3, LogoutFails
  <1>4. CASE session[h[r].sess] = "live" /\ End(Revoked(r)) /\ LogoutAnswer(r, 204)
    <2>1. PICK q : /\ h' = [h EXCEPT ![r] = q]
                   /\ q = Quiet \/ (q.pc = "answer" /\ q.status = 204)
                   /\ q.was \subseteq h[r].was
      BY <1>4, LogoutShape
    <2>2. h[r].sess \in Sessions /\ h[r].was \subseteq Sessions
      BY <1>0 DEF LeaveOK, Request
    <2>4. ASSUME NEW s \in h[r].was  PROVE session'[s] = "ended"
      <3>1. /\ s \in Sessions /\ session[s] \in {"live", "ended"}
            /\ IF h[r].kind = "logout" THEN s = h[r].sess
               ELSE about[grant[s]].email = about[grant[h[r].sess]].email
        BY <1>0, <2>2, <2>4 DEF LeaveOK, BInv, TypeOK
      <3>2. session[s] = "live" => s \in Revoked(r)
        BY <3>1 DEF Revoked, Live
      <3> QED BY <1>4, <3>1, <3>2 DEF End
    <2>5. LeaveOK(q, session', about', grant') /\ AskOK(q)
      <3>1. Quiet.pc = "idle" /\ Quiet.kind = None /\ Quiet.ch = None
        BY DEF Quiet
      <3> QED BY <2>1, <2>4, <3>1 DEF LeaveOK, AskOK
    <2>6. CodesOK(r, q)
      BY <1>0, <1>1, NoCode DEF Onward
    <2>7. sent \subseteq sent' /\ h' = [h EXCEPT ![r] = q]
      BY <1>0, <2>1
    <2> QED BY <1>1, <1>2, <2>5, <2>6, <2>7, MovesOn
  <1> QED BY <1>3, <1>4 DEF Revoke

LEMMA RevokeUnreachedOn ==
  ASSUME QInv, NEW r \in Slots, RevokeUnreached(r)
  PROVE  LInv' /\ OpenCodeWasSent'
  <1>1. UNCHANGED <<store, history>> /\ h[r].pc = "revoke" /\ LogoutAnswer(r, 503)
    BY DEF RevokeUnreached
  <1>2. Onward /\ StoreType' /\ sent' = sent /\ code' = code
    BY <1>1, StillStore DEF store, history
  <1> QED BY <1>1, <1>2, LogoutFails

LEMMA StoreAwayOn ==
  ASSUME QInv, NEW r \in Slots, StoreAway(r)
  PROVE  LInv' /\ OpenCodeWasSent'
  <1>1. /\ UNCHANGED <<store, history>> /\ h[r].pc \notin {"send", "invalidate"}
        /\ Answer(r, 503)
    BY DEF StoreAway, Unreached
  <1>2. Onward /\ StoreType' /\ sent' = sent /\ code' = code
    BY <1>1, StillStore DEF store, history
  <1> QED BY <1>1, <1>2, AnswersOn

-----------------------------------------------------------------------------
(* The answer, the client and the process. *)
LEMMA ClientOn ==
  ASSUME QInv, NEW r \in Slots, Receive(r) \/ Lost(r)
  PROVE  LInv' /\ OpenCodeWasSent'
  <1>1. UNCHANGED <<store, history>> /\ h[r].pc = "answer" /\ h' = [h EXCEPT ![r] = Quiet]
    BY DEF Receive, Lost
  <1>2. Plain(Quiet)
    BY DEF Plain
  <1> QED BY <1>1, <1>2, PlainOK, StillMove

LEMMA DisconnectOn ==
  ASSUME QInv, NEW r \in Slots, Disconnect(r)
  PROVE  LInv' /\ OpenCodeWasSent'
  <1> DEFINE q == [h[r] EXCEPT !.gone = TRUE]
  <1>0. /\ UNCHANGED <<store, history>> /\ h' = [h EXCEPT ![r] = q]
        /\ h[r] \in Request /\ LeaveOK(h[r], session, about, grant) /\ AskOK(h[r])
    BY DEF QInv, BInv, TypeOK, LInv, Disconnect
  <1>1. /\ Onward /\ StoreType' /\ sent' = sent /\ code' = code /\ excused' = excused
        /\ session' = session /\ about' = about /\ grant' = grant
    BY <1>0, StillStore DEF store, history
  <1>2. /\ q.pc = h[r].pc /\ q.kind = h[r].kind /\ q.ch = h[r].ch /\ q.sess = h[r].sess
        /\ q.was = h[r].was /\ q.status = h[r].status
    BY <1>0 DEF Request
  <1> HIDE DEF q
  <1>3. LeaveOK(q, session', about', grant') /\ AskOK(q)
    BY <1>0, <1>1, <1>2 DEF LeaveOK, AskOK
  <1>4. CodesOK(r, q)
    BY <1>1, <1>2 DEF CodesOK, Holds
  <1> QED BY <1>0, <1>1, <1>3, <1>4, MovesOn

LEMMA DieOn ==
  ASSUME QInv, Die
  PROVE  LInv' /\ OpenCodeWasSent'
  <1>1. h' = [r \in Slots |-> Quiet] /\ code' = code /\ sent' = sent
    BY DEF Die, store
  <1>2. LInv'
    BY <1>1, PlainOK DEF LInv, Plain
  <1>3. ASSUME NEW ch \in Challenges, code[ch] = "open"  PROVE ch \in sent \cup excused'
    <2>1. CASE ch \in sent \cup excused
      BY <2>1 DEF Die
    <2>2. CASE ch \notin sent \cup excused
      <3>1. PICK r \in Slots : h[r].kind = "request" /\ h[r].ch = ch
        BY <1>3, <2>2 DEF QInv, OpenCodeWasSent
      <3>2. ch # None
        BY NoneIsNoChallenge
      <3> DEFINE part(x) == IF h[x].kind = "request" THEN {h[x].ch}
                            ELSE IF h[x].kind = "verify" THEN {h[x].sess} ELSE {}
      <3>3. ch \in part(r)
        BY <3>1
      <3> DEFINE parts == {part(x) : x \in Slots}
      <3>4. excused' = excused \cup ((UNION parts) \ {None})
        BY DEF Die
      <3>5. part(r) \in parts
        OBVIOUS
      <3> HIDE DEF part, parts
      <3>6. ch \in UNION parts
        BY <3>3, <3>5, Zenon
      <3> QED BY <3>2, <3>4, <3>6
    <2> QED BY <2>1, <2>2
  <1> QED BY <1>1, <1>2, <1>3 DEF OpenCodeWasSent

LEMMA NextQInv == QInv /\ [Next]_vars => QInv'
  <1> SUFFICES ASSUME QInv, [Next]_vars PROVE LInv' /\ OpenCodeWasSent'
    BY NextBInv DEF QInv
  <1>1. ASSUME NEW r \in Slots, Arrivals(r) \/ Step(r)  PROVE LInv' /\ OpenCodeWasSent'
    BY <1>1, ArrivalsOn, CreatePreAuthOn, AuthenticateOn, ReserveOn, ReserveLimitedOn,
       SendOn, InvalidateOn, VerifyOn, VerifyRefusedOn, ConsumeOn, ConsumeUnreachedOn,
       CleanupOn, ValidateOn, RevokeOn, RevokeUnreachedOn, StoreAwayOn, ClientOn,
       DisconnectOn DEF Step
  <1>2. ASSUME NEW p \in PreAuths, Expire(p)  PROVE LInv' /\ OpenCodeWasSent'
    BY <1>2 DEF Expire, history, QInv, LInv, OpenCodeWasSent
  <1>3. CASE UNCHANGED vars
    BY <1>3 DEF vars, store, client, history, QInv, LInv, OpenCodeWasSent
  <1> QED BY <1>1, <1>2, <1>3, DieOn DEF Next

LEMMA InitQInv == Init => QInv
  <1> SUFFICES ASSUME Init PROVE QInv
    OBVIOUS
  <1>1. LInv
    BY PlainOK DEF Init, LInv, Plain
  <1>2. OpenCodeWasSent
    BY DEF Init, OpenCodeWasSent
  <1> QED BY <1>1, <1>2, InitBInv DEF QInv

(* For any number of requests and faults, 204 is said only once every       *)
(* session that the logout set out to end has ended, for LogoutAll every    *)
(* one the identity had when the request arrived (Logout, LogoutAll).       *)
THEOREM LogoutKeepsItsWord == Spec => []LogoutEnds
  <1>1. QInv => LogoutEnds
    BY DEF QInv, LInv, LeaveOK, LogoutEnds
  <1> QED BY <1>1, InitQInv, NextQInv, PTL DEF Spec

(* For any number of requests and faults, a code that can be redeemed was   *)
(* sent, or may have been, or is still its request's to take back, or a     *)
(* fault kept the handler from it (Service.Request).                        *)
THEOREM NoUnsentCode == Spec => []OpenCodeWasSent
  <1>1. QInv => OpenCodeWasSent
    BY DEF QInv
  <1> QED BY <1>1, InitQInv, NextQInv, PTL DEF Spec
=============================================================================
