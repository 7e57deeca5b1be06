--------------------------- MODULE BrowserSignIn ---------------------------
(***************************************************************************)
(* The HTTP handlers of authhttp (Browser and Native) over the sign-in     *)
(* store, the mailer and the clients that hold the credentials.            *)
(*                                                                         *)
(* A request occupies a slot: it starts with what its client sends (the    *)
(* cookies and tokens held at that moment), takes one step per call of     *)
(* the store or of the mailer, and ends with an answer that reaches the    *)
(* client or is lost.  Requests interleave; the client may go away, the    *)
(* store may be out of reach, a call may run and lose its reply (the Redis *)
(* client then reports the error or runs the script again), and the        *)
(* process may die.  The store's own calls are atomic here: AuthRedis and  *)
(* AuthMemory look inside them (budgets, leases, expiry).  What is kept of *)
(* time here is that pre-auth states expire.                               *)
(***************************************************************************)
EXTENDS Integers, FiniteSets

CONSTANTS Slots,       \* requests under way at a time
          PreAuths,    \* pre-auth states, each a credential and a CSRF token
          Challenges,  \* challenge IDs
          Sessions,    \* sessions, each a credential and a CSRF token
          Emails,      \* addresses, and the identities behind them
          MaxFaults,   \* bound on lost clients and replies, outages and deaths
          None

ASSUME FaultsAreBounded == MaxFaults \in Nat
ASSUME NoneIsNoChallenge == None \notin Challenges

VARIABLES
    pre,      \* pre[p]: "unused", "live" or "gone" (consumed or expired)
    code,     \* code[ch]: "unissued", "open" or "closed"
    about,    \* about[ch]: [email, via, pre] the code was reserved for
    session,  \* session[s]: "none", "live" or "ended"
    grant,    \* grant[s]: the challenge session s was granted for
    faults,   \* clients and replies lost, outages and deaths so far
    h,        \* h[r]: the request in slot r
    jar,      \* the browser's cookies: [pre, sess]
    told,     \* challenges and bearer credentials that answers carried
    \* history
    handed,   \* handed[p]: sessions handed out against pre-auth state p
    sent,     \* codes that were delivered, or may have been
    excused   \* codes and sessions that a fault put out of the handler's reach

store == <<pre, code, about, session, grant>>
client == <<jar, told>>
history == <<handed, sent, excused>>
vars == <<store, faults, h, client, history>>

NoOne == [email |-> None, via |-> None, pre |-> None]

(* A request: the state or session that its cookie and CSRF token, or its   *)
(* bearer credential, belong to (pre, sess; None when they do not belong    *)
(* together), the challenge it has the digits of (None for any other        *)
(* guess), the sessions it sets out to end (was), whether the answer clears *)
(* the session cookie, and whether the client went away.                    *)
Quiet == [pc |-> "idle", kind |-> None, via |-> None, pre |-> None, email |-> None,
          ch |-> None, sess |-> None, was |-> {}, clears |-> FALSE, gone |-> FALSE,
          status |-> 0]

Request == [pc : {"idle", "create", "authpre", "reserve", "send", "invalidate", "verify",
                  "consume", "cleanup", "csrf", "revoke", "answer"},
            kind : {"bootstrap", "request", "verify", "logout", "logoutAll", None},
            via : {"browser", "native", None},
            pre : PreAuths \cup {None}, email : Emails \cup {None},
            ch : Challenges \cup {None}, sess : Sessions \cup {None},
            was : SUBSET Sessions, clears : BOOLEAN, gone : BOOLEAN, status : Nat]

(* The store, the clients and the requests keep their types. *)
TypeOK ==
    /\ pre \in [PreAuths -> {"unused", "live", "gone"}]
    /\ code \in [Challenges -> {"unissued", "open", "closed"}]
    /\ about \in [Challenges -> [email : Emails \cup {None}, via : {"browser", "native", None},
                                 pre : PreAuths \cup {None}]]
    /\ h \in [Slots -> Request]
    /\ session \in [Sessions -> {"none", "live", "ended"}]
    /\ grant \in [Sessions -> Challenges \cup {None}]
    /\ told \subseteq Challenges \cup Sessions
    /\ jar \in [pre : PreAuths \cup {None}, sess : Sessions \cup {None}]
    /\ faults \in 0..MaxFaults
    /\ handed \in [PreAuths -> SUBSET Sessions]

Init ==
    /\ pre = [p \in PreAuths |-> "unused"]
    /\ code = [ch \in Challenges |-> "unissued"]
    /\ about = [ch \in Challenges |-> NoOne]
    /\ session = [s \in Sessions |-> "none"]
    /\ grant = [s \in Sessions |-> None]
    /\ faults = 0
    /\ h = [r \in Slots |-> Quiet]
    /\ jar = [pre |-> None, sess |-> None]
    /\ told = {}
    /\ handed = [p \in PreAuths |-> {}]
    /\ sent = {}
    /\ excused = {}

(***************************************************************************)
(* How a call of the store can go.  A request whose client went away is    *)
(* cancelled and calls nothing more; the clean-up context is not.          *)
(***************************************************************************)
Reaches(r) == ~h[r].gone

(* Mutant of CleanedUp: the clean-up runs under the request's context. *)
CleanedUpIfThere(r, x) == IF h[r].gone THEN {} ELSE {x}

CleanedUp(r, x) == {x}

(* A lost client or reply, an outage or a death: one of MaxFaults. *)
Fault == faults < MaxFaults /\ faults' = faults + 1

(* A call that the store does not see. *)
Away(r) == (~Reaches(r) /\ UNCHANGED faults) \/ Fault

Goto(r, pc) == h' = [h EXCEPT ![r].pc = pc]

(* What is left of a request that was answered: what the answer carries     *)
(* and, of a sign-in that failed, the session it began.  An answer that     *)
(* neither tells the client anything nor leaves anything frees the slot.    *)
Answered(q, status) ==
    LET a == [Quiet EXCEPT !.pc = "answer", !.status = status, !.kind = q.kind, !.gone = q.gone]
    IN IF q.kind = "request" /\ q.ch = None THEN Quiet
       ELSE IF status < 400
       THEN [a EXCEPT !.via = q.via, !.pre = q.pre, !.ch = q.ch, !.sess = q.sess, !.was = q.was]
       ELSE IF q.kind = "verify" /\ q.sess # None THEN [a EXCEPT !.sess = q.sess]
       ELSE Quiet

Answer(r, status) == h' = [h EXCEPT ![r] = Answered(@, status)]

Unreached(r) ==
    /\ Away(r)
    /\ Answer(r, 503)
    /\ UNCHANGED <<store, client, history>>

(***************************************************************************)
(* A request arrives.  What it shows before the first call of the store is *)
(* checked here: the origin, exactly one cookie, exactly one token.  The   *)
(* token may be one kept from another state or session (own is FALSE).     *)
(***************************************************************************)
Live(email) == {s \in Sessions : session[s] = "live" /\ about[grant[s]].email = email}

Arrive(r, q, denied, first) ==
    /\ h[r].pc = "idle"
    /\ h' = [h EXCEPT ![r] = IF denied # 0 THEN Answered(q, denied)
                             ELSE [q EXCEPT !.pc = first]]
    /\ UNCHANGED <<store, faults, client, history>>

Asks(kind, via) == [Quiet EXCEPT !.kind = kind, !.via = via]

(* safeOrigin: a foreign origin is denied, no origin is not. *)
ArriveBootstrap(r, foreign) ==
    Arrive(r, Asks("bootstrap", "browser"), IF foreign THEN 403 ELSE 0, "create")

(* preAuthRequest: origin, cookie and header of RequestCode and VerifyCode. *)
PreAuthDenied(foreign) == IF foreign \/ jar.pre = None THEN 403 ELSE 0

Owned(own, x) == IF own THEN x ELSE None

ArriveRequest(r, email, own, foreign) ==
    Arrive(r, [Asks("request", "browser") EXCEPT !.email = email, !.pre = Owned(own, jar.pre)],
           PreAuthDenied(foreign), "authpre")

(* The person types the code of the mail for one of the challenges the      *)
(* client was told of, or something else.                                   *)
Typed == (told \cap sent) \cup {None}

ArriveVerify(r, ch, own, foreign) ==
    /\ ch \in Typed
    /\ Arrive(r, [Asks("verify", "browser") EXCEPT !.ch = ch, !.pre = Owned(own, jar.pre)],
              PreAuthDenied(foreign), "authpre")

ArriveNativeRequest(r, email, decodes) ==
    Arrive(r, [Asks("request", "native") EXCEPT !.email = email],
           IF decodes THEN 0 ELSE 400, "reserve")

ArriveNativeVerify(r, ch, decodes) ==
    /\ ch \in Typed
    /\ Arrive(r, [Asks("verify", "native") EXCEPT !.ch = ch],
              IF decodes THEN 0 ELSE 400, "verify")

(* What a request for the session shows: the cookie, or the bearer credential. *)
Credentials(via) ==
    IF via = "browser" THEN {jar.sess} ELSE (told \cap Sessions) \cup {None}

(* logout: sessionCSRF first, in a browser; was is what it must end. *)
Ending(kind, s) ==
    IF s = None \/ session[s] # "live" THEN {}
    ELSE IF kind = "logout" THEN {s} ELSE Live(about[grant[s]].email)

ArriveLogout(r, kind, via, s, own, foreign) ==
    /\ s \in Credentials(via)
    /\ Arrive(r, [Asks(kind, via) EXCEPT !.sess = Owned(own \/ via = "native", s),
                                       !.was = Ending(kind, s)],
              IF via = "browser" /\ foreign THEN 403 ELSE IF s = None THEN 401 ELSE 0,
              IF via = "browser" THEN "csrf" ELSE "revoke")

(***************************************************************************)
(* Bootstrap.                                                              *)
(***************************************************************************)

(* CreatePreAuth: stored, over the source's budget, or stored unheard. *)
CreatePreAuth(r, p) ==
    /\ h[r].pc = "create"
    /\ Reaches(r)
    /\ pre[p] = "unused"
    /\ \/ /\ h' = [h EXCEPT ![r] = [@ EXCEPT !.pc = "answer", !.status = 200, !.pre = p]]
          /\ pre' = [pre EXCEPT ![p] = "live"]
          /\ UNCHANGED faults
       \/ Answer(r, 503) /\ pre' = [pre EXCEPT ![p] = "live"] /\ Fault
       \/ Answer(r, 429) /\ UNCHANGED <<pre, faults>>
    /\ UNCHANGED <<code, about, session, grant, client, history>>

(***************************************************************************)
(* RequestCode.                                                            *)
(***************************************************************************)

(* AuthenticatePreAuth: the cookie and the token belong to one live state.  *)
(* A body that does not decode is refused only after it.                    *)
PreAuthHolds(r) == h[r].pre # None /\ pre[h[r].pre] = "live"

AuthenticatePreAuth(r, decodes) ==
    /\ h[r].pc = "authpre"
    /\ Reaches(r)
    /\ IF ~PreAuthHolds(r) THEN Answer(r, 403)
       ELSE IF ~decodes THEN Answer(r, 400)
       ELSE Goto(r, IF h[r].kind = "request" THEN "reserve" ELSE "verify")
    /\ UNCHANGED <<store, faults, client, history>>

(* Reserve: the code opens, and the one it replaces closes.  Over budget,   *)
(* the answer is 202 all the same, with a challenge nobody has.             *)
Replaced(r) ==
    {d \in Challenges : code[d] = "open" /\ about[d].email = h[r].email
                                         /\ about[d].via = h[r].via}

Reserve(r, ch) ==
    /\ h[r].pc = "reserve"
    /\ Reaches(r)
    /\ code[ch] = "unissued"
    /\ code' = [d \in Challenges |->
                  IF d = ch THEN "open" ELSE IF d \in Replaced(r) THEN "closed" ELSE code[d]]
    /\ about' = [about EXCEPT ![ch] = [email |-> h[r].email, via |-> h[r].via, pre |-> h[r].pre]]
    /\ \/ /\ h' = [h EXCEPT ![r] = [@ EXCEPT !.pc = "send", !.ch = ch]]
          /\ UNCHANGED <<excused, faults>>
       \/ Answer(r, 503) /\ excused' = excused \cup {ch} /\ Fault
    /\ UNCHANGED <<pre, session, grant, client, handed, sent>>

(* Accepted, with a challenge nobody has (neutralChallenge). *)
Neutral(r) == h' = [h EXCEPT ![r] = Answered([@ EXCEPT !.ch = None], 202)]

ReserveLimited(r) ==
    /\ h[r].pc = "reserve"
    /\ Reaches(r)
    /\ Neutral(r)
    /\ UNCHANGED <<store, faults, client, history>>

(* Sender.Send: delivered, known to be refused (ErrFull of mail.Capture), or *)
(* cut short by the client or the delivery deadline: then nothing is known   *)
(* of the mail, and the code stays.                                          *)
Send(r) ==
    /\ h[r].pc = "send"
    /\ \/ Answer(r, 202) /\ sent' = sent \cup {h[r].ch}
       \/ Goto(r, "invalidate") /\ UNCHANGED sent
       \/ Neutral(r) /\ sent' = sent \cup {h[r].ch}
    /\ UNCHANGED <<store, faults, client, handed, excused>>

(* Invalidate, under the clean-up context; what it meets is not reported. *)
Invalidate(r) ==
    /\ h[r].pc = "invalidate"
    /\ \/ /\ code' = [d \in Challenges |->
                       IF d \in CleanedUp(r, h[r].ch) /\ code[d] = "open" THEN "closed" ELSE code[d]]
          /\ UNCHANGED <<excused, faults>>
       \/ Fault /\ excused' = excused \cup {h[r].ch} /\ UNCHANGED code
    /\ Neutral(r)
    /\ UNCHANGED <<pre, about, session, grant, client, handed, sent>>

(***************************************************************************)
(* VerifyCode.                                                             *)
(***************************************************************************)

(* Service.Verify: an open code of this purpose, bound to this pre-auth     *)
(* state, and the right digits.                                            *)
Accepts(r) ==
    /\ h[r].ch # None
    /\ code[h[r].ch] = "open"
    /\ about[h[r].ch].via = h[r].via
    /\ about[h[r].ch].pre = h[r].pre

Verify(r, s) ==
    /\ h[r].pc = "verify"
    /\ Reaches(r)
    /\ Accepts(r)
    /\ session[s] = "none"
    /\ code' = [code EXCEPT ![h[r].ch] = "closed"]
    /\ session' = [session EXCEPT ![s] = "live"]
    /\ grant' = [grant EXCEPT ![s] = h[r].ch]
    /\ \/ /\ h' = [h EXCEPT ![r] = IF @.via = "browser"
                                   THEN [@ EXCEPT !.sess = s, !.pc = "consume"]
                                   ELSE [Answered(@, 200) EXCEPT !.sess = s]]
          /\ UNCHANGED <<excused, faults>>
       \/ /\ Answer(r, 503)
          /\ excused' = excused \cup {s}
          /\ Fault
    /\ UNCHANGED <<pre, about, client, handed, sent>>

(* Refused, over a budget, or the last wrong guess a code bears. *)
VerifyRefused(r) ==
    /\ h[r].pc = "verify"
    /\ Reaches(r)
    /\ \/ ~Accepts(r) /\ Answer(r, 401) /\ UNCHANGED code
       \/ /\ h[r].ch = None
          /\ \E d \in told \cap Challenges : code[d] = "open" /\ code' = [code EXCEPT ![d] = "closed"]
          /\ Answer(r, 401)
       \/ Answer(r, 429) /\ UNCHANGED code
    /\ UNCHANGED <<pre, about, session, grant, faults, client, history>>

(* Mutant of Consume: the state is looked up again, and kept. *)
ConsumeKeeps(r) ==
    /\ h[r].pc = "consume"
    /\ Reaches(r)
    /\ \/ /\ PreAuthHolds(r)
          /\ Answer(r, 200)
          /\ handed' = [handed EXCEPT ![h[r].pre] = @ \cup {h[r].sess}]
       \/ /\ ~PreAuthHolds(r)
          /\ h' = [h EXCEPT ![r] = [@ EXCEPT !.pc = "cleanup", !.status = 401]]
          /\ UNCHANGED handed
    /\ UNCHANGED <<store, faults, client, sent, excused>>

(* ConsumePreAuth: of the requests that got this far with one state, one    *)
(* deletes it; a reply that is lost leaves the handler with an error, or    *)
(* with the answer of a second try.                                        *)
Consume(r) ==
    /\ h[r].pc = "consume"
    /\ Reaches(r)
    /\ \/ /\ PreAuthHolds(r)
          /\ pre' = [pre EXCEPT ![h[r].pre] = "gone"]
          /\ \/ /\ Answer(r, 200)
                /\ handed' = [handed EXCEPT ![h[r].pre] = @ \cup {h[r].sess}]
                /\ UNCHANGED faults
             \/ /\ \E status \in {401, 503} :
                     h' = [h EXCEPT ![r] = [@ EXCEPT !.pc = "cleanup", !.status = status]]
                /\ Fault
                /\ UNCHANGED handed
       \/ /\ ~PreAuthHolds(r)
          /\ h' = [h EXCEPT ![r] = [@ EXCEPT !.pc = "cleanup", !.status = 401]]
          /\ UNCHANGED <<pre, handed, faults>>
    /\ UNCHANGED <<code, about, session, grant, client, sent, excused>>

ConsumeUnreached(r) ==
    /\ h[r].pc = "consume"
    /\ Away(r)
    /\ h' = [h EXCEPT ![r] = [@ EXCEPT !.pc = "cleanup", !.status = 503]]
    /\ UNCHANGED <<store, client, history>>

(* Logout of the session that cannot be handed out; its error is dropped. *)
End(S) == session' = [s \in Sessions |->
                        IF s \in S /\ session[s] = "live" THEN "ended" ELSE session[s]]

Cleanup(r) ==
    /\ h[r].pc = "cleanup"
    /\ \/ End(CleanedUp(r, h[r].sess)) /\ UNCHANGED <<excused, faults>>
       \/ Fault /\ excused' = excused \cup {h[r].sess} /\ UNCHANGED session
    /\ Answer(r, h[r].status)
    /\ UNCHANGED <<pre, code, about, grant, client, handed, sent>>

(***************************************************************************)
(* Logout and LogoutAll.                                                   *)
(***************************************************************************)

(* ValidateCSRF: the cookie's session lives and the token is its own. *)
ValidateCSRF(r) ==
    /\ h[r].pc = "csrf"
    /\ Reaches(r)
    /\ IF h[r].sess # None /\ session[h[r].sess] = "live"
       THEN Goto(r, "revoke") ELSE Answer(r, 403)
    /\ UNCHANGED <<store, faults, client, history>>

(* Mutant of Revoked: the other sessions of the identity are left. *)
RevokedOne(r) == {h[r].sess}

(* RevokeSession and RevokeAllSessions. *)
Revoked(r) ==
    IF h[r].kind = "logout" THEN {h[r].sess} ELSE Live(about[grant[h[r].sess]].email)

(* The browser handler clears the session cookie whatever the call returned. *)
LogoutAnswer(r, status) ==
    h' = [h EXCEPT ![r] = IF h[r].via = "browser"
                          THEN [Answered(@, status) EXCEPT !.pc = "answer", !.status = status,
                                                           !.gone = h[r].gone, !.clears = TRUE]
                          ELSE Answered(@, status)]

(* Heard, or unheard: the error, or the answer of a second try. *)
Revoke(r) ==
    /\ h[r].pc = "revoke"
    /\ Reaches(r)
    /\ \/ /\ session[h[r].sess] = "live"
          /\ End(Revoked(r))
          /\ \/ LogoutAnswer(r, 204) /\ UNCHANGED faults
             \/ Fault /\ \E status \in {401, 503} : LogoutAnswer(r, status)
       \/ /\ session[h[r].sess] # "live"
          /\ LogoutAnswer(r, 401)
          /\ UNCHANGED <<session, faults>>
    /\ UNCHANGED <<pre, code, about, grant, client, history>>

RevokeUnreached(r) ==
    /\ h[r].pc = "revoke"
    /\ Away(r)
    /\ LogoutAnswer(r, 503)
    /\ UNCHANGED <<store, client, history>>

(* A call that the store never sees. *)
StoreAway(r) ==
    h[r].pc \in {"create", "authpre", "reserve", "verify", "csrf"} /\ Unreached(r)

(***************************************************************************)
(* The answer reaches the client: cookies are set and cleared, and the     *)
(* client keeps the challenge or the bearer credential of the body.        *)
(***************************************************************************)
Receive(r) ==
    LET q == h[r]
        signedIn == q.kind = "verify" /\ q.status = 200
    IN /\ q.pc = "answer"
       /\ ~q.gone
       /\ jar' = IF q.kind = "bootstrap" /\ q.status = 200 THEN [jar EXCEPT !.pre = q.pre]
                 ELSE IF signedIn /\ q.via = "browser" THEN [pre |-> None, sess |-> q.sess]
                 ELSE IF q.clears THEN [jar EXCEPT !.sess = None] ELSE jar
       /\ told' = IF q.kind = "request" /\ q.status = 202 THEN told \cup ({q.ch} \ {None})
                  ELSE IF signedIn /\ q.via = "native" THEN told \cup {q.sess} ELSE told
       /\ h' = [h EXCEPT ![r] = Quiet]
       /\ UNCHANGED <<store, faults, history>>

(* Nobody is there to receive it. *)
Lost(r) ==
    /\ h[r].pc = "answer"
    /\ h[r].gone
    /\ h' = [h EXCEPT ![r] = Quiet]
    /\ UNCHANGED <<store, faults, client, history>>

(***************************************************************************)
(* Faults and time.                                                        *)
(***************************************************************************)
Disconnect(r) ==
    /\ h[r].pc # "idle"
    /\ ~h[r].gone
    /\ Fault
    /\ h' = [h EXCEPT ![r].gone = TRUE]
    /\ UNCHANGED <<store, client, history>>

(* The process dies: its requests end where they are, unanswered. *)
Die ==
    /\ \E r \in Slots : h[r].pc # "idle"
    /\ Fault
    /\ excused' = excused \cup
         ((UNION {IF h[r].kind = "request" THEN {h[r].ch}
                  ELSE IF h[r].kind = "verify" THEN {h[r].sess} ELSE {} : r \in Slots}) \ {None})
    /\ h' = [r \in Slots |-> Quiet]
    /\ UNCHANGED <<store, client, handed, sent>>

Expire(p) ==
    /\ pre[p] = "live"
    /\ pre' = [pre EXCEPT ![p] = "gone"]
    /\ UNCHANGED <<code, session, about, grant, faults, h, client, history>>

Arrivals(r) ==
    \/ \E foreign \in BOOLEAN : ArriveBootstrap(r, foreign)
    \/ \E email \in Emails, own, foreign \in BOOLEAN : ArriveRequest(r, email, own, foreign)
    \/ \E ch \in Challenges \cup {None}, own, foreign \in BOOLEAN :
         ArriveVerify(r, ch, own, foreign)
    \/ \E email \in Emails, decodes \in BOOLEAN : ArriveNativeRequest(r, email, decodes)
    \/ \E ch \in Challenges \cup {None}, decodes \in BOOLEAN : ArriveNativeVerify(r, ch, decodes)
    \/ \E via \in {"browser", "native"}, s \in Sessions \cup {None} :
         \E kind \in {"logout", "logoutAll"}, own, foreign \in BOOLEAN :
           ArriveLogout(r, kind, via, s, own, foreign)

Step(r) ==
    \/ \E p \in PreAuths : CreatePreAuth(r, p)
    \/ \E decodes \in BOOLEAN : AuthenticatePreAuth(r, decodes)
    \/ \E ch \in Challenges : Reserve(r, ch)
    \/ ReserveLimited(r) \/ Send(r) \/ Invalidate(r)
    \/ \E s \in Sessions : Verify(r, s)
    \/ VerifyRefused(r) \/ Consume(r) \/ ConsumeUnreached(r) \/ Cleanup(r)
    \/ ValidateCSRF(r) \/ Revoke(r)
    \/ RevokeUnreached(r) \/ StoreAway(r)
    \/ Receive(r) \/ Lost(r) \/ Disconnect(r)

Next ==
    \/ \E r \in Slots : Arrivals(r) \/ Step(r)
    \/ Die
    \/ \E p \in PreAuths : Expire(p)

Spec == Init /\ [][Next]_vars

(***************************************************************************)
(* Properties.                                                             *)
(***************************************************************************)

(* However many codes are verified under one pre-auth state, at once or one *)
(* after the other, at most one session is handed out against it, and it is *)
(* one whose code was requested under that state (VerifyCode: Verify, then  *)
(* Consume).                                                               *)
OneSessionPerPreAuth ==
    \A p \in PreAuths :
        /\ Cardinality(handed[p]) =< 1
        /\ \A s \in handed[p] : about[grant[s]].pre = p

(* A VerifyCode that does not answer 200 leaves no live session behind,     *)
(* unless the store could not be reached to end it, its answer was lost or  *)
(* the process died (the clean-up Logout of VerifyCode).                    *)
FailedSignInLeavesNothing ==
    \A r \in Slots :
        h[r].pc = "answer" /\ h[r].kind = "verify" /\ h[r].status # 200 /\ h[r].sess # None =>
            session[h[r].sess] # "live" \/ h[r].sess \in excused

(* 204 says it is done: every session the request set out to end, which for *)
(* LogoutAll is every session the identity had when the request arrived,    *)
(* has ended (Logout, LogoutAll: "before reporting success").               *)
LogoutEnds ==
    \A r \in Slots : h[r].pc = "answer" /\ h[r].status = 204 =>
        \A s \in h[r].was : session[s] = "ended"

(* A code that can still be redeemed was delivered, or may have been, or    *)
(* its request is still at work, or a fault kept the handler from closing   *)
(* it: a mail known to be refused leaves no open code (Service.Request).    *)
OpenCodeWasSent ==
    \A ch \in Challenges : code[ch] = "open" =>
        \/ ch \in sent \cup excused
        \/ \E r \in Slots : h[r].kind = "request" /\ h[r].ch = ch /\ h[r].pc # "answer"
=============================================================================
