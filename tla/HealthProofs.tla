---------------------------- MODULE HealthProofs ----------------------------
(***************************************************************************)
(* Safety of the readiness registry for any number of calls and checks.    *)
(*                                                                         *)
(* Guarded ties the in-flight guard of a check to the one goroutine that   *)
(* holds it; Ledger ties each result of a call to the life of the probe    *)
(* the call started for it.                                                *)
(***************************************************************************)
EXTENDS Health, TLAPS

(* The guard of a check is taken exactly while a probe of it is in flight. *)
Guarded ==
    /\ \A c \in Checks : running[c] <=> \E e \in Evals : InFlight(e, c)
    /\ OneProbeInFlight

(* What a call's bookkeeping says of check c. *)
Entry(r, p, c) ==
    /\ c \in r.todo => c \in r.snapshot /\ c \notin r.pending /\ p[c].st = "none"
    /\ r.pc = "idle" => p[c].st = "none"
    /\ r.pc # "running" => c \notin r.todo /\ c \notin r.pending
    /\ c \in r.outcomes => p[c].st = "exited"
    /\ c \in r.pending => r.results[c].status = "down"
    /\ r.results[c].status = "up" =>
          r.results[c].error = "nil" /\ p[c] = [st |-> "exited", res |-> "ok"]
    /\ c \in r.snapshot /\ c \notin r.todo /\ c \notin r.pending
       /\ r.results[c].status = "down" => r.results[c].error # "nil"

Ledger ==
    \A e \in Evals :
        /\ eval[e].pc = "idle" => eval[e].snapshot = {}
        /\ \A c \in Checks : Entry(eval[e], probe[e], c)
        /\ eval[e].pc = "done" =>
             (eval[e].report = "up" <=>
                \A c \in eval[e].snapshot : eval[e].results[c].status = "up")

IInv == TypeOK /\ Guarded /\ Ledger

-----------------------------------------------------------------------------
(* The three shapes of a step: it changes one call's record, one goroutine, *)
(* or one of each.                                                          *)

LEMMA EvalUpdate ==
    ASSUME eval \in [Evals -> Eval], NEW e \in Evals, NEW r \in Eval,
           eval' = [eval EXCEPT ![e] = r]
    PROVE  /\ eval' \in [Evals -> Eval]
           /\ eval'[e] = r
           /\ \A f \in Evals : f # e => eval'[f] = eval[f]
  OBVIOUS

LEMMA ProbeUpdate ==
    ASSUME probe \in [Evals -> [Checks -> Probe]], NEW e \in Evals, NEW c \in Checks,
           NEW p \in Probe, probe' = [probe EXCEPT ![e][c] = p]
    PROVE  /\ probe' \in [Evals -> [Checks -> Probe]]
           /\ probe'[e][c] = p
           /\ \A d \in Checks : d # c => probe'[e][d] = probe[e][d]
           /\ \A f \in Evals : f # e => probe'[f] = probe[f]
  OBVIOUS

(* A step that changes neither guards nor which probes are in flight keeps  *)
(* Guarded.                                                                 *)
LEMMA GuardedKept ==
    ASSUME Guarded, UNCHANGED running,
           \A f \in Evals, d \in Checks : InFlight(f, d)' <=> InFlight(f, d)
    PROVE  Guarded'
  BY DEF Guarded, OneProbeInFlight

(* The ledger of calls that a step does not touch is kept. *)
LEMMA LedgerKept ==
    ASSUME Ledger, NEW e \in Evals,
           \A f \in Evals : f # e => eval'[f] = eval[f] /\ probe'[f] = probe[f],
           eval'[e].pc = "idle" => eval'[e].snapshot = {},
           \A c \in Checks : Entry(eval'[e], probe'[e], c),
           eval'[e].pc = "done" =>
             (eval'[e].report = "up" <=>
                \A c \in eval'[e].snapshot : eval'[e].results[c].status = "up")
    PROVE  Ledger'
  <1> SUFFICES ASSUME NEW f \in Evals
               PROVE  /\ eval'[f].pc = "idle" => eval'[f].snapshot = {}
                      /\ \A c \in Checks : Entry(eval'[f], probe'[f], c)
                      /\ eval'[f].pc = "done" =>
                           (eval'[f].report = "up" <=>
                              \A c \in eval'[f].snapshot : eval'[f].results[c].status = "up")
    BY DEF Ledger
  <1>1. CASE f = e
    BY <1>1
  <1>2. CASE f # e
    <2>1. eval'[f] = eval[f] /\ probe'[f] = probe[f]
      BY <1>2
    <2> QED BY <2>1 DEF Ledger
  <1> QED BY <1>1, <1>2

-----------------------------------------------------------------------------
LEMMA InitIInv == Init => IInv
  <1> SUFFICES ASSUME Init PROVE IInv
    OBVIOUS
  <1>1. TypeOK
    BY DEF Init, TypeOK, Eval, Probe, Result, NoResult
  <1>2. Guarded
    BY DEF Init, Guarded, OneProbeInFlight, InFlight
  <1>3. Ledger
    BY DEF Init, Ledger, Entry, NoResult
  <1> QED BY <1>1, <1>2, <1>3 DEF IInv

(* The lemmas below follow one pattern: name the record the step writes,    *)
(* read its fields, then check the parts of the invariant.                  *)

LEMMA BeginKeeps == ASSUME IInv, NEW e \in Evals, Begin(e) PROVE IInv'
  <1> DEFINE r == [eval[e] EXCEPT !.pc = "running", !.snapshot = checks, !.todo = checks]
  <1>1. eval[e] \in Eval /\ checks \in SUBSET Checks
    BY DEF IInv, TypeOK
  <1>2. r \in Eval
    BY <1>1 DEF Eval
  <1>3. eval' = [eval EXCEPT ![e] = r]
    BY DEF Begin
  <1>4. /\ r.pc = "running" /\ r.snapshot = checks /\ r.todo = checks
        /\ r.pending = eval[e].pending /\ r.outcomes = eval[e].outcomes
        /\ r.results = eval[e].results
    BY <1>1 DEF Eval
  <1> HIDE DEF r
  <1>5. eval' \in [Evals -> Eval] /\ eval'[e] = r /\ \A f \in Evals : f # e => eval'[f] = eval[f]
    BY <1>2, <1>3, EvalUpdate DEF IInv, TypeOK
  <1>6. TypeOK'
    BY <1>5 DEF IInv, TypeOK, Begin
  <1>7. Guarded'
    BY GuardedKept DEF IInv, Begin, InFlight
  <1>8. \A c \in Checks : Entry(r, probe[e], c)
    BY <1>4 DEF IInv, Ledger, Entry, Begin
  <1>9. Ledger'
    <2>1. probe' = probe
      BY DEF Begin
    <2> QED BY <1>4, <1>5, <1>8, <2>1, LedgerKept DEF IInv
  <1> QED BY <1>6, <1>7, <1>9 DEF IInv

LEMMA CtxDoneKeeps == ASSUME IInv, NEW e \in Evals, CtxDone(e) PROVE IInv'
  <1> DEFINE r == [eval[e] EXCEPT !.ctxDone = TRUE]
  <1>1. eval[e] \in Eval
    BY DEF IInv, TypeOK
  <1>2. r \in Eval
    BY <1>1 DEF Eval
  <1>3. eval' = [eval EXCEPT ![e] = r]
    BY DEF CtxDone
  <1>4. /\ r.pc = "running" /\ r.snapshot = eval[e].snapshot /\ r.todo = eval[e].todo
        /\ r.pending = eval[e].pending /\ r.outcomes = eval[e].outcomes
        /\ r.results = eval[e].results
    BY <1>1 DEF Eval, CtxDone
  <1> HIDE DEF r
  <1>5. eval' \in [Evals -> Eval] /\ eval'[e] = r /\ \A f \in Evals : f # e => eval'[f] = eval[f]
    BY <1>2, <1>3, EvalUpdate DEF IInv, TypeOK
  <1>6. TypeOK'
    BY <1>5 DEF IInv, TypeOK, CtxDone
  <1>7. Guarded'
    BY GuardedKept DEF IInv, CtxDone, InFlight
  <1>8. \A c \in Checks : Entry(r, probe[e], c)
    <2> SUFFICES ASSUME NEW c \in Checks PROVE Entry(r, probe[e], c)
      OBVIOUS
    <2>1. Entry(eval[e], probe[e], c)
      BY DEF IInv, Ledger
    <2> QED BY <2>1, <1>4 DEF Entry, CtxDone
  <1>9. Ledger'
    <2>1. probe' = probe
      BY DEF CtxDone
    <2> QED BY <1>4, <1>5, <1>8, <2>1, LedgerKept DEF IInv
  <1> QED BY <1>6, <1>7, <1>9 DEF IInv

(* A refused iteration: the result is down with a reason. *)
LEMMA RefusedKeeps ==
    ASSUME IInv, NEW e \in Evals, NEW c \in eval[e].todo, NEW why \in {"ctx", "busy"},
           eval' = [eval EXCEPT ![e] =
                      [@ EXCEPT !.todo = eval[e].todo \ {c},
                                !.results = SetResult(e, c, Unanswered, why)]],
           UNCHANGED <<checks, running, probe>>
    PROVE  IInv'
  <1> DEFINE R == SetResult(e, c, Unanswered, why)
             r == [eval[e] EXCEPT !.todo = eval[e].todo \ {c}, !.results = R]
  <1>1. eval[e] \in Eval /\ c \in Checks
    BY DEF IInv, TypeOK, Eval
  <1>2. /\ R \in [Checks -> Result]
        /\ R[c].status = "down" /\ R[c].error = why
        /\ \A d \in Checks : d # c => R[d] = eval[e].results[d]
    BY <1>1 DEF Eval, Result, SetResult, Unanswered
  <1> HIDE DEF R
  <1>3. r \in Eval
    BY <1>1, <1>2 DEF Eval
  <1>4. eval' = [eval EXCEPT ![e] = r]
    BY DEF R
  <1>5. /\ r.pc = eval[e].pc /\ r.snapshot = eval[e].snapshot
        /\ r.todo = eval[e].todo \ {c} /\ r.pending = eval[e].pending
        /\ r.outcomes = eval[e].outcomes /\ r.results = R
    BY <1>1 DEF Eval
  <1> HIDE DEF r
  <1>6. eval' \in [Evals -> Eval] /\ eval'[e] = r /\ \A f \in Evals : f # e => eval'[f] = eval[f]
    BY <1>3, <1>4, EvalUpdate DEF IInv, TypeOK
  <1>7. TypeOK'
    BY <1>6 DEF IInv, TypeOK
  <1>8. Guarded'
    BY GuardedKept DEF IInv, InFlight
  <1>9. eval[e].pc = "running" /\ c \notin eval[e].pending
    BY <1>1 DEF IInv, Ledger, Entry, TypeOK, Eval
  <1>10. \A d \in Checks : Entry(r, probe[e], d)
    <2> SUFFICES ASSUME NEW d \in Checks PROVE Entry(r, probe[e], d)
      OBVIOUS
    <2>1. Entry(eval[e], probe[e], d)
      BY DEF IInv, Ledger
    <2>2. CASE d = c
      BY <2>1, <2>2, <1>1, <1>2, <1>5, <1>9 DEF Entry
    <2>3. CASE d # c
      BY <2>1, <2>3, <1>1, <1>2, <1>5, <1>9 DEF Entry
    <2> QED BY <2>2, <2>3
  <1>11. Ledger'
    BY <1>5, <1>6, <1>9, <1>10, LedgerKept DEF IInv
  <1> QED BY <1>7, <1>8, <1>11 DEF IInv

LEMMA LaunchKeeps == ASSUME IInv, NEW e \in Evals, NEW c \in Checks, Launch(e, c) PROVE IInv'
  <1> USE DEF Launch
  <1>1. CASE eval[e].ctxDone
    BY <1>1, RefusedKeeps
  <1>2. CASE ~eval[e].ctxDone /\ running[c]
    BY <1>2, RefusedKeeps
  <1>3. CASE ~eval[e].ctxDone /\ ~running[c]
    <2> DEFINE R == SetResult(e, c, Unanswered, "nil")
               r == [eval[e] EXCEPT !.todo = eval[e].todo \ {c},
                                    !.pending = eval[e].pending \cup {c}, !.results = R]
               p == [probe[e][c] EXCEPT !.st = "probing"]
    <2>1. eval[e] \in Eval /\ probe[e][c] \in Probe
      BY DEF IInv, TypeOK
    <2>2. /\ R \in [Checks -> Result]
          /\ R[c].status = "down" /\ R[c].error = "nil"
          /\ \A d \in Checks : d # c => R[d] = eval[e].results[d]
      BY <2>1 DEF Eval, Result, SetResult, Unanswered
    <2> HIDE DEF R
    <2>3. r \in Eval
      BY <2>1, <2>2 DEF Eval
    <2>4. p \in Probe /\ p.st = "probing"
      BY <2>1 DEF Probe
    <2>5. eval' = [eval EXCEPT ![e] = r]
      BY <1>3 DEF R
    <2>6. probe' = [probe EXCEPT ![e][c] = p]
      BY <1>3
    <2>7. running' = [running EXCEPT ![c] = TRUE] /\ checks' = checks /\ c \in eval[e].todo
      BY <1>3
    <2>8. /\ r.pc = eval[e].pc /\ r.snapshot = eval[e].snapshot
          /\ r.todo = eval[e].todo \ {c} /\ r.pending = eval[e].pending \cup {c}
          /\ r.outcomes = eval[e].outcomes /\ r.results = R
      BY <2>1 DEF Eval
    <2> HIDE DEF r, p, Launch
    <2>9. eval' \in [Evals -> Eval] /\ eval'[e] = r /\ \A f \in Evals : f # e => eval'[f] = eval[f]
      BY <2>3, <2>5, EvalUpdate DEF IInv, TypeOK
    <2>10. /\ probe' \in [Evals -> [Checks -> Probe]]
           /\ probe'[e][c] = p
           /\ \A d \in Checks : d # c => probe'[e][d] = probe[e][d]
           /\ \A f \in Evals : f # e => probe'[f] = probe[f]
      BY <2>4, <2>6, ProbeUpdate DEF IInv, TypeOK
    <2>11. TypeOK'
      BY <2>7, <2>9, <2>10 DEF IInv, TypeOK
    <2>12. Guarded'
      <3>1. \A f \in Evals : ~InFlight(f, c)
        BY <1>3 DEF IInv, Guarded
      <3>2. \A f \in Evals, d \in Checks :
               InFlight(f, d)' <=> IF d = c THEN f = e ELSE InFlight(f, d)
        BY <3>1, <2>4, <2>10 DEF InFlight
      <3>3. \A d \in Checks : running'[d] <=> IF d = c THEN TRUE ELSE running[d]
        BY <2>7 DEF IInv, TypeOK
      <3> QED BY <3>1, <3>2, <3>3 DEF IInv, Guarded, OneProbeInFlight
    <2>13. eval[e].pc = "running" /\ c \in eval[e].snapshot /\ c \notin eval[e].outcomes
      BY <2>1, <2>7 DEF IInv, Ledger, Entry, TypeOK, Eval
    <2>14. \A d \in Checks : Entry(r, probe'[e], d)
      <3> SUFFICES ASSUME NEW d \in Checks PROVE Entry(r, probe'[e], d)
        OBVIOUS
      <3>1. Entry(eval[e], probe[e], d)
        BY DEF IInv, Ledger
      <3>2. CASE d = c
        BY <3>1, <3>2, <2>2, <2>4, <2>8, <2>10, <2>13 DEF Entry
      <3>3. CASE d # c
        BY <3>1, <3>3, <2>2, <2>4, <2>8, <2>10, <2>13 DEF Entry
      <3> QED BY <3>2, <3>3
    <2>15. Ledger'
      BY <2>8, <2>9, <2>10, <2>13, <2>14, LedgerKept DEF IInv
    <2> QED BY <2>11, <2>12, <2>15 DEF IInv
  <1> QED BY <1>1, <1>2, <1>3

LEMMA ProbeReturnsKeeps ==
    ASSUME IInv, NEW e \in Evals, NEW c \in Checks, NEW res \in {"ok", "failed"},
           ProbeReturns(e, c, res)
    PROVE  IInv'
  <1> DEFINE p == [st |-> "returned", res |-> res]
  <1>1. p \in Probe
    BY DEF Probe
  <1>2. /\ probe' \in [Evals -> [Checks -> Probe]]
        /\ probe'[e][c] = p
        /\ \A d \in Checks : d # c => probe'[e][d] = probe[e][d]
        /\ \A f \in Evals : f # e => probe'[f] = probe[f]
    BY <1>1, ProbeUpdate DEF IInv, TypeOK, ProbeReturns
  <1>3. TypeOK'
    BY <1>2 DEF IInv, TypeOK, ProbeReturns
  <1>4. Guarded'
    <2>1. \A f \in Evals, d \in Checks : InFlight(f, d)' <=> InFlight(f, d)
      BY <1>2 DEF InFlight, ProbeReturns
    <2> QED BY <2>1, GuardedKept DEF IInv, ProbeReturns
  <1>5. \A d \in Checks : Entry(eval[e], probe'[e], d)
    <2> SUFFICES ASSUME NEW d \in Checks PROVE Entry(eval[e], probe'[e], d)
      OBVIOUS
    <2>1. Entry(eval[e], probe[e], d)
      BY DEF IInv, Ledger
    <2>2. CASE d = c
      BY <2>1, <2>2, <1>2 DEF Entry, ProbeReturns
    <2>3. CASE d # c
      BY <2>1, <2>3, <1>2 DEF Entry, ProbeReturns
    <2> QED BY <2>2, <2>3
  <1>6. eval' = eval
    BY DEF ProbeReturns
  <1>7. Ledger'
    BY <1>2, <1>5, <1>6, LedgerKept DEF IInv, Ledger
  <1> QED BY <1>3, <1>4, <1>7 DEF IInv

LEMMA DeferredKeeps == ASSUME IInv, NEW e \in Evals, NEW c \in Checks, Deferred(e, c) PROVE IInv'
  <1>0. eval[e] \in Eval /\ probe[e][c] \in Probe
    BY DEF IInv, TypeOK
  <1>1. CASE probe[e][c].st = "returned"
    <2> DEFINE p == [probe[e][c] EXCEPT !.st = "deferred"]
    <2>1. p \in Probe /\ p.st = "deferred" /\ p.res = probe[e][c].res
      BY <1>0 DEF Probe
    <2>2. /\ probe' = [probe EXCEPT ![e][c] = p]
          /\ running' = [running EXCEPT ![c] = FALSE]
          /\ eval' = eval /\ checks' = checks
      BY <1>1 DEF Deferred
    <2> HIDE DEF p
    <2>3. /\ probe' \in [Evals -> [Checks -> Probe]]
          /\ probe'[e][c] = p
          /\ \A d \in Checks : d # c => probe'[e][d] = probe[e][d]
          /\ \A f \in Evals : f # e => probe'[f] = probe[f]
      BY <2>1, <2>2, ProbeUpdate DEF IInv, TypeOK
    <2>4. TypeOK'
      BY <2>2, <2>3 DEF IInv, TypeOK
    <2>5. Guarded'
      <3>1. InFlight(e, c) /\ \A f \in Evals : InFlight(f, c) => f = e
        BY <1>1 DEF IInv, Guarded, OneProbeInFlight, InFlight
      <3>2. \A f \in Evals, d \in Checks : InFlight(f, d)' <=> d # c /\ InFlight(f, d)
        BY <3>1, <2>1, <2>3 DEF InFlight
      <3>3. \A d \in Checks : running'[d] <=> d # c /\ running[d]
        BY <2>2 DEF IInv, TypeOK
      <3> QED BY <3>2, <3>3 DEF IInv, Guarded, OneProbeInFlight
    <2>6. \A d \in Checks : Entry(eval[e], probe'[e], d)
      <3> SUFFICES ASSUME NEW d \in Checks PROVE Entry(eval[e], probe'[e], d)
        OBVIOUS
      <3>1. Entry(eval[e], probe[e], d)
        BY DEF IInv, Ledger
      <3>2. CASE d = c
        BY <3>1, <3>2, <1>1, <2>1, <2>3 DEF Entry
      <3>3. CASE d # c
        BY <3>1, <3>3, <1>1, <2>1, <2>3 DEF Entry
      <3> QED BY <3>2, <3>3
    <2>7. Ledger'
      <3>1. /\ eval[e].pc = "idle" => eval[e].snapshot = {}
            /\ eval[e].pc = "done" =>
                 (eval[e].report = "up" <=>
                    \A d \in eval[e].snapshot : eval[e].results[d].status = "up")
        BY DEF IInv, Ledger
      <3> QED BY <2>2, <2>3, <2>6, <3>1, LedgerKept DEF IInv
    <2> QED BY <2>4, <2>5, <2>7 DEF IInv
  <1>2. CASE probe[e][c].st = "deferred"
    <2> DEFINE p == [probe[e][c] EXCEPT !.st = "exited"]
               r == [eval[e] EXCEPT !.outcomes = eval[e].outcomes \cup {c}]
    <2>1. p \in Probe /\ p.st = "exited" /\ p.res = probe[e][c].res
      BY <1>0 DEF Probe
    <2>2. r \in Eval
      BY <1>0 DEF Eval
    <2>3. /\ probe' = [probe EXCEPT ![e][c] = p]
          /\ eval' = [eval EXCEPT ![e] = r]
          /\ running' = running /\ checks' = checks
      BY <1>2 DEF Deferred
    <2>4. /\ r.pc = eval[e].pc /\ r.snapshot = eval[e].snapshot /\ r.todo = eval[e].todo
          /\ r.pending = eval[e].pending /\ r.outcomes = eval[e].outcomes \cup {c}
          /\ r.results = eval[e].results /\ r.report = eval[e].report
      BY <1>0 DEF Eval
    <2> HIDE DEF p, r
    <2>5. eval' \in [Evals -> Eval] /\ eval'[e] = r /\ \A f \in Evals : f # e => eval'[f] = eval[f]
      BY <2>2, <2>3, EvalUpdate DEF IInv, TypeOK
    <2>6. /\ probe' \in [Evals -> [Checks -> Probe]]
          /\ probe'[e][c] = p
          /\ \A d \in Checks : d # c => probe'[e][d] = probe[e][d]
          /\ \A f \in Evals : f # e => probe'[f] = probe[f]
      BY <2>1, <2>3, ProbeUpdate DEF IInv, TypeOK
    <2>7. TypeOK'
      BY <2>3, <2>5, <2>6 DEF IInv, TypeOK
    <2>8. Guarded'
      <3>1. \A f \in Evals, d \in Checks : InFlight(f, d)' <=> InFlight(f, d)
        BY <1>2, <2>1, <2>6 DEF InFlight
      <3> QED BY <3>1, <2>3, GuardedKept DEF IInv
    <2>9. \A d \in Checks : Entry(r, probe'[e], d)
      <3> SUFFICES ASSUME NEW d \in Checks PROVE Entry(r, probe'[e], d)
        OBVIOUS
      <3>1. Entry(eval[e], probe[e], d)
        BY DEF IInv, Ledger
      <3>2. CASE d = c
        BY <3>1, <3>2, <1>2, <2>1, <2>4, <2>6 DEF Entry
      <3>3. CASE d # c
        BY <3>1, <3>3, <1>2, <2>1, <2>4, <2>6 DEF Entry
      <3> QED BY <3>2, <3>3
    <2>10. Ledger'
      BY <2>4, <2>5, <2>6, <2>9, LedgerKept DEF IInv, Ledger
    <2> QED BY <2>7, <2>8, <2>10 DEF IInv
  <1> QED BY <1>1, <1>2 DEF Deferred

LEMMA ReceiveKeeps == ASSUME IInv, NEW e \in Evals, NEW c \in Checks, Receive(e, c) PROVE IInv'
  <1> DEFINE ok == probe[e][c].res = "ok"
             R == IF ok THEN SetResult(e, c, "up", "nil") ELSE SetResult(e, c, "down", "probe")
             r == [eval[e] EXCEPT !.outcomes = eval[e].outcomes \ {c},
                                  !.pending = eval[e].pending \ {c}, !.results = R]
  <1>1. eval[e] \in Eval /\ probe[e][c] \in Probe
    BY DEF IInv, TypeOK
  <1>2. /\ R \in [Checks -> Result]
        /\ R[c].status = (IF ok THEN "up" ELSE "down")
        /\ R[c].error = (IF ok THEN "nil" ELSE "probe")
        /\ \A d \in Checks : d # c => R[d] = eval[e].results[d]
    BY <1>1 DEF Eval, Result, SetResult
  <1>3. eval' = [eval EXCEPT ![e] = r]
    BY DEF Receive
  <1> HIDE DEF R
  <1>4. r \in Eval
    BY <1>1, <1>2 DEF Eval
  <1>5. /\ r.pc = eval[e].pc /\ r.snapshot = eval[e].snapshot /\ r.todo = eval[e].todo
        /\ r.pending = eval[e].pending \ {c} /\ r.outcomes = eval[e].outcomes \ {c}
        /\ r.results = R
    BY <1>1 DEF Eval
  <1> HIDE DEF r
  <1>6. eval' \in [Evals -> Eval] /\ eval'[e] = r /\ \A f \in Evals : f # e => eval'[f] = eval[f]
    BY <1>3, <1>4, EvalUpdate DEF IInv, TypeOK
  <1>7. TypeOK'
    BY <1>6 DEF IInv, TypeOK, Receive
  <1>8. Guarded'
    BY GuardedKept DEF IInv, InFlight, Receive
  <1>9. eval[e].pc = "running" /\ probe[e][c].st = "exited"
    BY DEF IInv, Ledger, Entry, Receive, Collecting
  <1>10. \A d \in Checks : Entry(r, probe[e], d)
    <2> SUFFICES ASSUME NEW d \in Checks PROVE Entry(r, probe[e], d)
      OBVIOUS
    <2>1. Entry(eval[e], probe[e], d)
      BY DEF IInv, Ledger
    <2>2. CASE d = c
      <3>1. ok => probe[e][c] = [st |-> "exited", res |-> "ok"]
        BY <1>1, <1>9 DEF Probe
      <3>2. c \notin eval[e].todo
        BY DEF Receive, Collecting
      <3> QED BY <2>1, <2>2, <3>1, <3>2, <1>2, <1>5, <1>9 DEF Entry
    <2>3. CASE d # c
      BY <2>1, <2>3, <1>2, <1>5, <1>9 DEF Entry
    <2> QED BY <2>2, <2>3
  <1>11. Ledger'
    BY <1>5, <1>6, <1>9, <1>10, LedgerKept DEF IInv, Receive
  <1> QED BY <1>7, <1>8, <1>11 DEF IInv

LEMMA GiveUpKeeps == ASSUME IInv, NEW e \in Evals, GiveUp(e) PROVE IInv'
  <1> DEFINE R == [c \in Checks |-> IF c \in eval[e].pending
                                    THEN [eval[e].results[c] EXCEPT !.error = "ctx"]
                                    ELSE eval[e].results[c]]
             r == [eval[e] EXCEPT !.pending = {}, !.results = R]
  <1>1. eval[e] \in Eval
    BY DEF IInv, TypeOK
  <1>2. \A c \in Checks : eval[e].results[c] \in Result
    BY <1>1 DEF Eval
  <1>3. /\ R \in [Checks -> Result]
        /\ \A d \in Checks : R[d].status = eval[e].results[d].status
        /\ \A d \in Checks : R[d].error = IF d \in eval[e].pending THEN "ctx"
                                          ELSE eval[e].results[d].error
    BY <1>2 DEF Result
  <1>4. eval' = [eval EXCEPT ![e] = r]
    BY DEF GiveUp
  <1> HIDE DEF R
  <1>5. r \in Eval
    BY <1>1, <1>3 DEF Eval
  <1>6. /\ r.pc = eval[e].pc /\ r.snapshot = eval[e].snapshot /\ r.todo = eval[e].todo
        /\ r.pending = {} /\ r.outcomes = eval[e].outcomes /\ r.results = R
    BY <1>1 DEF Eval
  <1> HIDE DEF r
  <1>7. eval' \in [Evals -> Eval] /\ eval'[e] = r /\ \A f \in Evals : f # e => eval'[f] = eval[f]
    BY <1>4, <1>5, EvalUpdate DEF IInv, TypeOK
  <1>8. TypeOK'
    BY <1>7 DEF IInv, TypeOK, GiveUp
  <1>9. Guarded'
    BY GuardedKept DEF IInv, InFlight, GiveUp
  <1>10. eval[e].pc = "running"
    BY DEF GiveUp, Collecting
  <1>11. \A d \in Checks : Entry(r, probe[e], d)
    <2> SUFFICES ASSUME NEW d \in Checks PROVE Entry(r, probe[e], d)
      OBVIOUS
    <2>1. Entry(eval[e], probe[e], d)
      BY DEF IInv, Ledger
    <2>2. CASE d \in eval[e].pending
      BY <2>1, <2>2, <1>3, <1>6, <1>10 DEF Entry
    <2>3. CASE d \notin eval[e].pending
      BY <2>1, <2>3, <1>3, <1>6, <1>10 DEF Entry
    <2> QED BY <2>2, <2>3
  <1>12. Ledger'
    BY <1>6, <1>7, <1>10, <1>11, LedgerKept DEF IInv, GiveUp
  <1> QED BY <1>8, <1>9, <1>12 DEF IInv

LEMMA ReportKeeps == ASSUME IInv, NEW e \in Evals, Report(e) PROVE IInv'
  <1> DEFINE good == \A c \in eval[e].snapshot : eval[e].results[c].status = "up"
             r == [eval[e] EXCEPT !.pc = "done", !.report = IF good THEN "up" ELSE "down"]
  <1>1. eval[e] \in Eval
    BY DEF IInv, TypeOK
  <1>2. eval' = [eval EXCEPT ![e] = r]
    BY DEF Report
  <1> HIDE DEF good
  <1>3. r \in Eval
    BY <1>1 DEF Eval
  <1>4. /\ r.pc = "done" /\ r.snapshot = eval[e].snapshot /\ r.todo = eval[e].todo
        /\ r.pending = eval[e].pending /\ r.outcomes = eval[e].outcomes
        /\ r.results = eval[e].results /\ (r.report = "up" <=> good)
    BY <1>1 DEF Eval
  <1> HIDE DEF r
  <1>5. eval' \in [Evals -> Eval] /\ eval'[e] = r /\ \A f \in Evals : f # e => eval'[f] = eval[f]
    BY <1>2, <1>3, EvalUpdate DEF IInv, TypeOK
  <1>6. TypeOK'
    BY <1>5 DEF IInv, TypeOK, Report
  <1>7. Guarded'
    BY GuardedKept DEF IInv, InFlight, Report
  <1>8. \A d \in Checks : Entry(r, probe[e], d)
    <2> SUFFICES ASSUME NEW d \in Checks PROVE Entry(r, probe[e], d)
      OBVIOUS
    <2>1. Entry(eval[e], probe[e], d)
      BY DEF IInv, Ledger
    <2> QED BY <2>1, <1>4 DEF Entry, Report, Collecting
  <1>9. Ledger'
    <2>1. \A f \in Evals : f # e => eval'[f] = eval[f] /\ probe'[f] = probe[f]
      BY <1>5 DEF Report
    <2>2. \A c \in Checks : Entry(eval'[e], probe'[e], c)
      BY <1>5, <1>8 DEF Report
    <2>3. eval'[e].report = "up" <=> \A c \in eval'[e].snapshot : eval'[e].results[c].status = "up"
      BY <1>4, <1>5 DEF good
    <2>4. eval'[e].pc # "idle"
      BY <1>4, <1>5
    <2> QED BY <2>1, <2>2, <2>3, <2>4, LedgerKept DEF IInv
  <1> QED BY <1>6, <1>7, <1>9 DEF IInv

-----------------------------------------------------------------------------
LEMMA NextIInv == ASSUME IInv, [Next]_vars PROVE IInv'
  <1>1. ASSUME NEW c \in Checks, Register(c) PROVE IInv'
    <2>1. TypeOK'
      BY <1>1 DEF IInv, TypeOK, Register
    <2>2. Guarded'
      BY <1>1, GuardedKept DEF IInv, Register, InFlight
    <2>3. Ledger'
      BY <1>1 DEF IInv, Ledger, Entry, Register
    <2> QED BY <2>1, <2>2, <2>3 DEF IInv
  <1>2. ASSUME NEW e \in Evals, EvalStep(e) PROVE IInv'
    BY <1>2, LaunchKeeps, ReceiveKeeps, GiveUpKeeps, ReportKeeps DEF EvalStep
  <1>3. ASSUME NEW e \in Evals, NEW c \in Checks, ProbeReturnsAny(e, c) PROVE IInv'
    BY <1>3, ProbeReturnsKeeps DEF ProbeReturnsAny
  <1>4. CASE UNCHANGED vars
    <2>1. TypeOK'
      BY <1>4 DEF IInv, TypeOK, vars
    <2>2. Guarded'
      BY <1>4, GuardedKept DEF IInv, vars, InFlight
    <2>3. Ledger'
      BY <1>4 DEF IInv, Ledger, Entry, vars
    <2> QED BY <2>1, <2>2, <2>3 DEF IInv
  <1> QED BY <1>1, <1>2, <1>3, <1>4, BeginKeeps, CtxDoneKeeps, DeferredKeeps DEF Next

(* However many Evaluate calls overlap, time out or leave probes behind, a  *)
(* check is never probed twice at once.                                     *)
THEOREM ProbedOnce == Spec => []OneProbeInFlight
  <1>1. IInv => OneProbeInFlight
    BY DEF IInv, Guarded
  <1> QED BY <1>1, InitIInv, NextIInv, PTL DEF Spec

(* For any set of checks, readiness is up exactly when this very call       *)
(* probed every check it saw and all answered well in time.                 *)
THEOREM FailsClosed == Spec => []ReportIsEarned
  <1>1. IInv => ReportIsEarned
    <2> SUFFICES ASSUME IInv, NEW e \in Evals, eval[e].pc = "done"
                 PROVE  eval[e].report = "up" <=>
                          \A c \in eval[e].snapshot :
                              /\ probe[e][c] = [st |-> "exited", res |-> "ok"]
                              /\ eval[e].results[c].error = "nil"
      BY DEF ReportIsEarned
    <2>1. ASSUME NEW c \in eval[e].snapshot
          PROVE  eval[e].results[c].status = "up" <=>
                   /\ probe[e][c] = [st |-> "exited", res |-> "ok"]
                   /\ eval[e].results[c].error = "nil"
      <3>1. c \in Checks /\ eval[e].results[c] \in Result
        BY DEF IInv, TypeOK, Eval
      <3>2. Entry(eval[e], probe[e], c)
        BY <3>1 DEF IInv, Ledger
      <3>3. eval[e].results[c].status \in {"up", "down"}
        BY <3>1 DEF Result
      <3> QED BY <3>2, <3>3 DEF Entry
    <2>2. eval[e].report = "up" <=> \A c \in eval[e].snapshot : eval[e].results[c].status = "up"
      BY DEF IInv, Ledger
    <2> QED BY <2>1, <2>2
  <1> QED BY <1>1, InitIInv, NextIInv, PTL DEF Spec

(* The result of check c turns to "busy" in call e. *)
TurnsBusy(e, c) ==
    eval'[e].results[c].error = "busy" /\ eval[e].results[c].error # "busy"

(* A step that gives call f other results than "busy" ones turns none. *)
LEMMA NotBusy ==
    ASSUME TypeOK, NEW f \in Evals, NEW R, \A g \in Evals : g # f => eval'[g] = eval[g],
           eval'[f].results = R,
           \A d \in Checks : R[d].error = "busy" => R[d].error = eval[f].results[d].error
    PROVE  \A e \in Evals, c \in Checks : ~TurnsBusy(e, c)
  BY DEF TurnsBusy

LEMMA BusyNeedsGuard ==
    ASSUME TypeOK, [Next]_vars, NEW e \in Evals, NEW c \in Checks, TurnsBusy(e, c)
    PROVE  running[c]
  <1> USE DEF TypeOK
  <1>1. CASE UNCHANGED eval
    BY <1>1 DEF TurnsBusy
  <1>2. ASSUME NEW f \in Evals, Begin(f) \/ CtxDone(f) \/ Report(f) PROVE FALSE
    <2>1. eval[f] \in Eval
      OBVIOUS
    <2>2. eval'[f].results = eval[f].results /\ \A g \in Evals : g # f => eval'[g] = eval[g]
      <3>1. CASE Begin(f)
        BY <3>1, <2>1 DEF Begin, Eval
      <3>2. CASE CtxDone(f)
        BY <3>2, <2>1 DEF CtxDone, Eval
      <3>3. CASE Report(f)
        BY <3>3, <2>1 DEF Report, Eval
      <3> QED BY <1>2, <3>1, <3>2, <3>3
    <2> QED BY <2>2, NotBusy
  <1>3. ASSUME NEW f \in Evals, NEW d \in Checks, Launch(f, d) PROVE running[c]
    <2>1. eval[f] \in Eval
      OBVIOUS
    <2>2. PICK why \in {"ctx", "busy", "nil"} :
             /\ eval'[f].results = SetResult(f, d, Unanswered, why)
             /\ \A g \in Evals : g # f => eval'[g] = eval[g]
             /\ why = "busy" => running[d]
      <3>1. CASE eval[f].ctxDone
        <4> DEFINE R == SetResult(f, d, Unanswered, "ctx")
                   r == [eval[f] EXCEPT !.todo = eval[f].todo \ {d},
                                        !.results = R]
        <4>1. eval' = [eval EXCEPT ![f] = r]
          BY <1>3, <3>1 DEF Launch
        <4> HIDE DEF R
        <4>2. r.results = R
          BY <2>1 DEF Eval
        <4> HIDE DEF r
        <4>3. eval'[f].results = R /\ \A g \in Evals : g # f => eval'[g] = eval[g]
          BY <4>1, <4>2
        <4> QED BY <4>3, <3>1 DEF R
      <3>2. CASE ~eval[f].ctxDone /\ running[d]
        <4> DEFINE R == SetResult(f, d, Unanswered, "busy")
                   r == [eval[f] EXCEPT !.todo = eval[f].todo \ {d},
                                        !.results = R]
        <4>1. eval' = [eval EXCEPT ![f] = r]
          BY <1>3, <3>2 DEF Launch
        <4> HIDE DEF R
        <4>2. r.results = R
          BY <2>1 DEF Eval
        <4> HIDE DEF r
        <4>3. eval'[f].results = R /\ \A g \in Evals : g # f => eval'[g] = eval[g]
          BY <4>1, <4>2
        <4> QED BY <4>3, <3>2 DEF R
      <3>3. CASE ~eval[f].ctxDone /\ ~running[d]
        <4> DEFINE R == SetResult(f, d, Unanswered, "nil")
                   r == [eval[f] EXCEPT !.todo = eval[f].todo \ {d},
                                        !.pending = eval[f].pending \cup {d},
                                        !.results = R]
        <4>1. eval' = [eval EXCEPT ![f] = r]
          BY <1>3, <3>3 DEF Launch
        <4> HIDE DEF R
        <4>2. r.results = R
          BY <2>1 DEF Eval
        <4> HIDE DEF r
        <4>3. eval'[f].results = R /\ \A g \in Evals : g # f => eval'[g] = eval[g]
          BY <4>1, <4>2
        <4> QED BY <4>3, <3>3 DEF R
      <3> QED BY <3>1, <3>2, <3>3
    <2>3. e = f
      BY <2>2 DEF TurnsBusy
    <2>4. eval'[f].results[c].error = IF c = d THEN why ELSE eval[f].results[c].error
      BY <2>1, <2>2 DEF SetResult, Eval
    <2> QED BY <2>2, <2>3, <2>4 DEF TurnsBusy
  <1>4. ASSUME NEW f \in Evals, NEW d \in Checks, Receive(f, d) PROVE FALSE
    <2>1. eval[f] \in Eval
      OBVIOUS
    <2> DEFINE R == IF probe[f][d].res = "ok" THEN SetResult(f, d, "up", "nil")
                    ELSE SetResult(f, d, "down", "probe")
    <2>2. eval'[f].results = R /\ \A g \in Evals : g # f => eval'[g] = eval[g]
      BY <1>4, <2>1 DEF Receive, Eval
    <2>3. \A x \in Checks : R[x].error = "busy" => R[x].error = eval[f].results[x].error
      BY <2>1 DEF SetResult, Eval
    <2> HIDE DEF R
    <2> QED BY <2>2, <2>3, NotBusy
  <1>5. ASSUME NEW f \in Evals, GiveUp(f) PROVE FALSE
    <2>1. eval[f] \in Eval
      OBVIOUS
    <2> DEFINE R == [x \in Checks |-> IF x \in eval[f].pending
                                      THEN [eval[f].results[x] EXCEPT !.error = "ctx"]
                                      ELSE eval[f].results[x]]
    <2>2. eval'[f].results = R /\ \A g \in Evals : g # f => eval'[g] = eval[g]
      BY <1>5, <2>1 DEF GiveUp, Eval
    <2>3. \A x \in Checks : eval[f].results[x] \in Result
      BY <2>1 DEF Eval
    <2>4. \A x \in Checks : R[x].error = "busy" => R[x].error = eval[f].results[x].error
      BY <2>3 DEF Result
    <2> HIDE DEF R
    <2> QED BY <2>2, <2>4, NotBusy
  <1>6. ASSUME NEW f \in Evals, NEW d \in Checks, Deferred(f, d) PROVE FALSE
    <2>1. eval[f] \in Eval
      OBVIOUS
    <2>2. eval'[f].results = eval[f].results /\ \A g \in Evals : g # f => eval'[g] = eval[g]
      BY <1>6, <2>1 DEF Deferred, Eval
    <2> QED BY <2>2, NotBusy
  <1>7. ASSUME NEW d \in Checks, Register(d) PROVE UNCHANGED eval
    BY <1>7 DEF Register
  <1>8. ASSUME NEW f \in Evals, NEW d \in Checks, ProbeReturnsAny(f, d) PROVE UNCHANGED eval
    BY <1>8 DEF ProbeReturnsAny, ProbeReturns
  <1>9. UNCHANGED vars => UNCHANGED eval
    BY DEF vars
  <1> QED BY <1>1, <1>2, <1>3, <1>4, <1>5, <1>6, <1>7, <1>8, <1>9 DEF Next, EvalStep

(* A call never says that a probe is still running once its outcome is      *)
(* published, however the goroutines are scheduled.                         *)
THEOREM BusyProved == Spec => BusyIsTrue
  <1> DEFINE A == \A e \in Evals, c \in Checks :
                     eval'[e].results[c].error = "busy" /\ eval[e].results[c].error # "busy"
                     => \E f \in Evals : InFlight(f, c)
  <1>1. ASSUME IInv, [Next]_vars PROVE A
    BY <1>1, BusyNeedsGuard DEF IInv, Guarded, TurnsBusy
  <1>2. IInv /\ [Next]_vars => [A]_vars
    BY <1>1
  <1> HIDE DEF A
  <1>3. Spec => [][A]_vars
    BY <1>2, InitIInv, NextIInv, PTL DEF Spec
  <1> QED BY <1>3 DEF A, BusyIsTrue
=============================================================================
