------------------------------- MODULE Health -------------------------------
(***************************************************************************)
(* The readiness registry (health/health.go): concurrent Evaluate calls    *)
(* over one set of registered checks.                                      *)
(*                                                                         *)
(* An Evaluate call snapshots the checks, starts one goroutine for each    *)
(* whose in-flight guard it can take, and collects outcomes until its      *)
(* context is done.  A probe may take any time, return after its caller    *)
(* gave up, or never return.  A check is its registration; iterations and  *)
(* outcomes of different checks commute, so their order is left open.      *)
(***************************************************************************)
EXTENDS Naturals, FiniteSets

CONSTANTS Evals,        \* calls of Evaluate
          Checks        \* checks that may be registered

VARIABLES checks,       \* r.checks
          running,      \* running[c]: the in-flight guard of check c
          eval,         \* the Evaluate calls
          probe         \* probe[e][c]: the goroutine call e started for check c

vars == <<checks, running, eval, probe>>

Result == [status : {"up", "down"}, error : {"nil", "probe", "busy", "ctx"}]

Eval == [pc : {"idle", "running", "done"},
         ctxDone : BOOLEAN,
         snapshot : SUBSET Checks,
         todo : SUBSET Checks,          \* iterations left of the launch loop
         pending : SUBSET Checks,
         outcomes : SUBSET Checks,      \* the buffered channel
         results : [Checks -> Result],
         report : {"none", "up", "down"}]

Probe == [st : {"none", "probing", "returned", "deferred", "exited"},
          res : {"ok", "failed"}]

NoResult == [status |-> "down", error |-> "nil"]

(* Every registration, call and goroutine has its type. *)
TypeOK ==
    /\ checks \in SUBSET Checks
    /\ running \in [Checks -> BOOLEAN]
    /\ eval \in [Evals -> Eval]
    /\ probe \in [Evals -> [Checks -> Probe]]

Init ==
    /\ checks = {}
    /\ running = [c \in Checks |-> FALSE]
    /\ eval = [e \in Evals |-> [pc |-> "idle", ctxDone |-> FALSE, snapshot |-> {},
                                todo |-> {}, pending |-> {}, outcomes |-> {},
                                results |-> [c \in Checks |-> NoResult],
                                report |-> "none"]]
    /\ probe = [e \in Evals |-> [c \in Checks |-> [st |-> "none", res |-> "ok"]]]

(* Register appends a named check; a nil or unnamed one is refused. *)
Register(c) ==
    /\ c \notin checks
    /\ checks' = checks \cup {c}
    /\ UNCHANGED <<running, eval, probe>>

-----------------------------------------------------------------------------
(* Evaluate                                                                *)

(* The call copies the registered checks under the read lock. *)
Begin(e) ==
    /\ eval[e].pc = "idle"
    /\ eval' = [eval EXCEPT ![e] = [@ EXCEPT !.pc = "running", !.snapshot = checks,
                                             !.todo = checks]]
    /\ UNCHANGED <<checks, running, probe>>

(* The deadline passes, or the client that asked for readiness goes away. *)
CtxDone(e) ==
    /\ eval[e].pc = "running"
    /\ ~eval[e].ctxDone
    /\ eval' = [eval EXCEPT ![e].ctxDone = TRUE]
    /\ UNCHANGED <<checks, running, probe>>

(* Mutant of Unanswered: results start from the common case. *)
UnansweredUp == "up"

(* The status of a result until its probe answers. *)
Unanswered == "down"

SetResult(e, c, status, error) ==
    [eval[e].results EXCEPT ![c] = [status |-> status, error |-> error]]

(* Mutant of Launch: the guard is set without looking at it. *)
LaunchAnyway(e, c) ==
    /\ c \in eval[e].todo
    /\ eval' = [eval EXCEPT ![e] = [@ EXCEPT !.todo = eval[e].todo \ {c},
                                             !.pending = eval[e].pending \cup {c},
                                             !.results = SetResult(e, c, Unanswered, "nil")]]
    /\ running' = [running EXCEPT ![c] = TRUE]
    /\ probe' = [probe EXCEPT ![e][c].st = "probing"]
    /\ UNCHANGED checks

(* One iteration of the launch loop: a context already done and a probe     *)
(* still in flight are failures of the check, else the guard is taken and   *)
(* the goroutine started.                                                   *)
Launch(e, c) ==
    /\ c \in eval[e].todo
    /\ \/ /\ eval[e].ctxDone
          /\ eval' = [eval EXCEPT ![e] =
                        [@ EXCEPT !.todo = eval[e].todo \ {c},
                                  !.results = SetResult(e, c, Unanswered, "ctx")]]
          /\ UNCHANGED <<running, probe>>
       \/ /\ ~eval[e].ctxDone
          /\ running[c]
          /\ eval' = [eval EXCEPT ![e] =
                        [@ EXCEPT !.todo = eval[e].todo \ {c},
                                  !.results = SetResult(e, c, Unanswered, "busy")]]
          /\ UNCHANGED <<running, probe>>
       \/ /\ ~eval[e].ctxDone
          /\ ~running[c]
          /\ running' = [running EXCEPT ![c] = TRUE]
          /\ probe' = [probe EXCEPT ![e][c].st = "probing"]
          /\ eval' = [eval EXCEPT ![e] =
                        [@ EXCEPT !.todo = eval[e].todo \ {c},
                                  !.pending = eval[e].pending \cup {c},
                                  !.results = SetResult(e, c, Unanswered, "nil")]]
    /\ UNCHANGED checks

(* The goroutine: the probe returns nil, or an error or a panic (both are a *)
(* failure), whatever became of the call that started it.                   *)
ProbeReturns(e, c, res) ==
    /\ probe[e][c].st = "probing"
    /\ probe' = [probe EXCEPT ![e][c] = [st |-> "returned", res |-> res]]
    /\ UNCHANGED <<checks, running, eval>>

(* Mutant of Deferred: the outcome is published before the guard is clear. *)
DeferredPublishFirst(e, c) ==
    /\ \/ /\ probe[e][c].st = "returned"
          /\ eval' = [eval EXCEPT ![e].outcomes = @ \cup {c}]
          /\ probe' = [probe EXCEPT ![e][c].st = "deferred"]
          /\ UNCHANGED running
       \/ /\ probe[e][c].st = "deferred"
          /\ running' = [running EXCEPT ![c] = FALSE]
          /\ probe' = [probe EXCEPT ![e][c].st = "exited"]
          /\ UNCHANGED eval
    /\ UNCHANGED checks

(* Mutant of Deferred: a failure skips the rest. *)
DeferredOnSuccess(e, c) ==
    /\ probe[e][c].res = "ok"
    /\ \/ /\ probe[e][c].st = "returned"
          /\ running' = [running EXCEPT ![c] = FALSE]
          /\ probe' = [probe EXCEPT ![e][c].st = "deferred"]
          /\ UNCHANGED eval
       \/ /\ probe[e][c].st = "deferred"
          /\ eval' = [eval EXCEPT ![e].outcomes = @ \cup {c}]
          /\ probe' = [probe EXCEPT ![e][c].st = "exited"]
          /\ UNCHANGED running
    /\ UNCHANGED checks

(* The goroutine's deferred function clears the guard, then publishes; the  *)
(* channel has room for every check, so publishing never waits.             *)
Deferred(e, c) ==
    /\ \/ /\ probe[e][c].st = "returned"
          /\ running' = [running EXCEPT ![c] = FALSE]
          /\ probe' = [probe EXCEPT ![e][c].st = "deferred"]
          /\ UNCHANGED eval
       \/ /\ probe[e][c].st = "deferred"
          /\ eval' = [eval EXCEPT ![e].outcomes = @ \cup {c}]
          /\ probe' = [probe EXCEPT ![e][c].st = "exited"]
          /\ UNCHANGED running
    /\ UNCHANGED checks

Collecting(e) == eval[e].pc = "running" /\ eval[e].todo = {}

(* The collecting loop takes an outcome ... *)
Receive(e, c) ==
    /\ Collecting(e)
    /\ c \in eval[e].pending \cap eval[e].outcomes
    /\ eval' = [eval EXCEPT ![e] =
                  [@ EXCEPT !.outcomes = eval[e].outcomes \ {c},
                            !.pending = eval[e].pending \ {c},
                            !.results = IF probe[e][c].res = "ok"
                                        THEN SetResult(e, c, "up", "nil")
                                        ELSE SetResult(e, c, "down", "probe")]]
    /\ UNCHANGED <<checks, running, probe>>

(* Mutant of GiveUp: the call waits for every probe. *)
GiveUpNever(e) == FALSE /\ UNCHANGED vars

(* ... or finds the context done and gives up on what is pending. *)
GiveUp(e) ==
    /\ Collecting(e)
    /\ eval[e].pending # {}
    /\ eval[e].ctxDone
    /\ eval' = [eval EXCEPT ![e] =
                  [@ EXCEPT !.pending = {},
                            !.results = [c \in Checks |->
                                IF c \in eval[e].pending
                                THEN [eval[e].results[c] EXCEPT !.error = "ctx"]
                                ELSE eval[e].results[c]]]]
    /\ UNCHANGED <<checks, running, probe>>

(* The report is up when every result is. *)
Report(e) ==
    /\ Collecting(e)
    /\ eval[e].pending = {}
    /\ eval' = [eval EXCEPT ![e] =
                  [@ EXCEPT !.pc = "done",
                            !.report = IF \A c \in eval[e].snapshot :
                                             eval[e].results[c].status = "up"
                                       THEN "up" ELSE "down"]]
    /\ UNCHANGED <<checks, running, probe>>

-----------------------------------------------------------------------------
EvalStep(e) ==
    \/ \E c \in Checks : Launch(e, c) \/ Receive(e, c)
    \/ GiveUp(e)
    \/ Report(e)

ProbeReturnsAny(e, c) == \E res \in {"ok", "failed"} : ProbeReturns(e, c, res)

Next ==
    \/ \E c \in Checks : Register(c)
    \/ \E e \in Evals :
         \/ Begin(e) \/ CtxDone(e) \/ EvalStep(e)
         \/ \E c \in Checks : ProbeReturnsAny(e, c) \/ Deferred(e, c)

Spec == Init /\ [][Next]_vars

(* The scheduler runs the call and its goroutines, and the deadline comes.  *)
(* A probe need not return.                                                 *)
Fair ==
    \A e \in Evals :
        /\ WF_vars(EvalStep(e))
        /\ WF_vars(CtxDone(e))
        /\ \A c \in Checks : WF_vars(Deferred(e, c))

FairSpec == Spec /\ Fair

-----------------------------------------------------------------------------
(* Properties                                                              *)

InFlight(e, c) == probe[e][c].st \in {"probing", "returned"}

(* A check is never probed twice at once, though calls overlap, time out    *)
(* and leave probes behind (the in-flight guard, HLT-004).                  *)
OneProbeInFlight ==
    \A c \in Checks : \A e, f \in Evals : InFlight(e, c) /\ InFlight(f, c) => e = f

(* A call reports up exactly when every check it saw was probed by this     *)
(* very call and answered well before the call gave up (fail closed).       *)
ReportIsEarned ==
    \A e \in Evals : eval[e].pc = "done" =>
        (eval[e].report = "up" <=>
            \A c \in eval[e].snapshot :
                /\ probe[e][c] = [st |-> "exited", res |-> "ok"]
                /\ eval[e].results[c].error = "nil")

(* A call says that a previous probe is still running only while that       *)
(* probe's outcome is still to come, never after a caller could have        *)
(* received it (the guard is cleared before publishing).                    *)
BusyIsTrue ==
    [][\A e \in Evals, c \in Checks :
          eval'[e].results[c].error = "busy" /\ eval[e].results[c].error # "busy"
          => \E f \in Evals : InFlight(f, c)]_vars

(* Every Evaluate call returns, probes that never return included: none     *)
(* runs for ever.                                                           *)
EvaluateReturns == \A e \in Evals : []<>(eval[e].pc # "running")

(* Only a probe that never comes back keeps its check's guard for ever: one *)
(* that returns, fails or panics gives it up, also when nobody waits for it *)
(* any more (the guard is cleared in the deferred function).                *)
GuardComesFree ==
    \A c \in Checks : []<>(running[c] => \E e \in Evals : probe[e][c].st = "probing")
=============================================================================
