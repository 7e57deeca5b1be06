------------------------------- MODULE AppRun -------------------------------
(***************************************************************************)
(* App.Run (app.go) over the module registry (module.go): starting the     *)
(* modules, serving, and shutting down, by any number of Run calls on one  *)
(* App.                                                                    *)
(*                                                                         *)
(* Modules are the mounted ones with a Lifecycle, 1 to N in registration   *)
(* order; the others have nothing to start or stop.  The HTTP server is    *)
(* modelled from its use: Shutdown closes the listener, refuses further    *)
(* requests and waits for the handlers in flight until its deadline.       *)
(***************************************************************************)
EXTENDS Integers

CONSTANTS Runs,         \* calls of App.Run
          N,            \* number of Lifecycle modules
          MaxHandlers,  \* bound on requests in flight
          None          \* no run

ASSUME NAssumption == N \in Nat /\ MaxHandlers \in Nat /\ None \notin Runs

Modules == 1..N

VARIABLES running,      \* a.running
          addr,         \* the run whose listener a.addr names
          live,         \* live[m]: calls of m's Start that succeeded less calls of Stop
          run           \* the Run calls

vars == <<running, addr, live, run>>

Active == {"start", "serve", "shutdown", "receive", "stop"}

RunRecord == [pc : Active \cup {"idle", "done"},
              i : 0..(N + 1),           \* the loop index of start and stopAll
              ctxDone : BOOLEAN,
              err : BOOLEAN,            \* an error to return was joined
              srv : {"none", "serving", "failed", "closed"},
              serveErr : BOOLEAN,       \* what the channel serveErr holds
              conns : BOOLEAN,          \* connections are open
              handlers : 0..MaxHandlers,
              result : {"none", "nil", "error", "ErrAlreadyRunning"}]

(* Every run has its type, and a module is never started twice nor stopped  *)
(* without having started.                                                  *)
TypeOK ==
    /\ running \in BOOLEAN
    /\ addr \in Runs \cup {None}
    /\ live \in [Modules -> 0..1]
    /\ run \in [Runs -> RunRecord]

Init ==
    /\ running = FALSE
    /\ addr = None
    /\ live = [m \in Modules |-> 0]
    /\ run = [r \in Runs |-> [pc |-> "idle", i |-> 0, ctxDone |-> FALSE, err |-> FALSE,
                              srv |-> "none", serveErr |-> FALSE, conns |-> FALSE,
                              handlers |-> 0, result |-> "none"]]

(* Run claims the App under its mutex, or is refused. *)
Run(r) ==
    /\ run[r].pc = "idle"
    /\ running' = TRUE
    /\ IF running
       THEN run' = [run EXCEPT ![r] = [@ EXCEPT !.pc = "done", !.result = "ErrAlreadyRunning"]]
       ELSE run' = [run EXCEPT ![r] = [@ EXCEPT !.pc = "start", !.i = 1]]
    /\ UNCHANGED <<addr, live>>

(* The caller cancels its context or a signal arrives. *)
Cancel(r) ==
    /\ run[r].pc \in Active
    /\ ~run[r].ctxDone
    /\ run' = [run EXCEPT ![r].ctxDone = TRUE]
    /\ UNCHANGED <<running, addr, live>>

(* registry.start, one module at a time: Start succeeds ... *)
StartModule(r) ==
    LET i == run[r].i
    IN /\ run[r].pc = "start"
       /\ i \in Modules
       /\ live' = [live EXCEPT ![i] = @ + 1]
       /\ run' = [run EXCEPT ![r].i = i + 1]
       /\ UNCHANGED <<running, addr>>

(* The run goes on with stopping modules k, k - 1, ..., 1. *)
StopFrom(r, k, err) ==
    run' = [run EXCEPT ![r] = [@ EXCEPT !.pc = "stop", !.i = k, !.err = run[r].err \/ err]]

(* Mutant of StartFails: the modules before it are left running. *)
StartFailsAlone(r) ==
    /\ run[r].pc = "start"
    /\ run[r].i \in Modules
    /\ StopFrom(r, 0, TRUE)
    /\ UNCHANGED <<running, addr, live>>

(* ... or fails, and those already started are stopped. *)
StartFails(r) ==
    /\ run[r].pc = "start"
    /\ run[r].i \in Modules
    /\ StopFrom(r, run[r].i - 1, TRUE)
    /\ UNCHANGED <<running, addr, live>>

(* net.Listen succeeds and the goroutine serves ... *)
Listen(r) ==
    /\ run[r].pc = "start"
    /\ run[r].i = N + 1
    /\ addr' = r
    /\ run' = [run EXCEPT ![r] = [@ EXCEPT !.pc = "serve", !.srv = "serving"]]
    /\ UNCHANGED <<running, live>>

(* ... or fails. *)
ListenFails(r) ==
    /\ run[r].pc = "start"
    /\ run[r].i = N + 1
    /\ StopFrom(r, N, TRUE)
    /\ UNCHANGED <<running, addr, live>>

(* A request reaches a handler, over the listener or, when only that has    *)
(* failed, over a connection kept alive.                                    *)
Request(r) ==
    /\ \/ run[r].srv = "serving"
       \/ run[r].srv = "failed" /\ run[r].conns
    /\ run[r].handlers < MaxHandlers
    /\ run' = [run EXCEPT ![r] = [@ EXCEPT !.handlers = run[r].handlers + 1, !.conns = TRUE]]
    /\ UNCHANGED <<running, addr, live>>

HandlerReturns(r) ==
    /\ run[r].handlers > 0
    /\ run' = [run EXCEPT ![r].handlers = @ - 1]
    /\ UNCHANGED <<running, addr, live>>

(* srv.Serve returns an error of its own. *)
ServeFails(r) ==
    /\ run[r].srv = "serving"
    /\ run' = [run EXCEPT ![r] = [@ EXCEPT !.srv = "failed", !.serveErr = TRUE]]
    /\ UNCHANGED <<running, addr, live>>

(* The select takes that error: unwind without shutting the server down. *)
ServerDied(r) ==
    /\ run[r].pc = "serve"
    /\ run[r].serveErr
    /\ StopFrom(r, N, TRUE)
    /\ UNCHANGED <<running, addr, live>>

(* The select takes the cancellation, which may come first or with a dead   *)
(* server: srv.Shutdown closes the listener and ends keep-alives.           *)
BeginShutdown(r) ==
    /\ run[r].pc = "serve"
    /\ run[r].ctxDone
    /\ run' = [run EXCEPT ![r] = [@ EXCEPT !.pc = "shutdown", !.srv = "closed"]]
    /\ UNCHANGED <<running, addr, live>>

(* Shutdown returns once no handler is left ... *)
Drained(r) ==
    /\ run[r].pc = "shutdown"
    /\ run[r].handlers = 0
    /\ run' = [run EXCEPT ![r].pc = "receive"]
    /\ UNCHANGED <<running, addr, live>>

(* Mutant of ShutdownTimesOut: there is no deadline. *)
ShutdownWaits(r) == FALSE /\ UNCHANGED vars

(* Mutant of ShutdownTimesOut: its error is dropped. *)
ShutdownTimesOutQuietly(r) ==
    /\ run[r].pc = "shutdown"
    /\ run[r].handlers > 0
    /\ run' = [run EXCEPT ![r].pc = "receive"]
    /\ UNCHANGED <<running, addr, live>>

(* ... or at its deadline, with an error. *)
ShutdownTimesOut(r) ==
    /\ run[r].pc = "shutdown"
    /\ run[r].handlers > 0
    /\ run' = [run EXCEPT ![r] = [@ EXCEPT !.pc = "receive", !.err = TRUE]]
    /\ UNCHANGED <<running, addr, live>>

(* <-serveErr; the closed server's own error counts as none. *)
ReceiveServeErr(r) ==
    /\ run[r].pc = "receive"
    /\ StopFrom(r, N, run[r].serveErr)
    /\ UNCHANGED <<running, addr, live>>

(* Mutant of StopModule: oldest first. *)
StopModuleForward(r) ==
    LET i == run[r].i
        m == CHOOSE k \in Modules : live[k] = 1 /\ \A l \in Modules : live[l] = 1 => k <= l
    IN /\ run[r].pc = "stop"
       /\ i \in Modules
       /\ live' = [live EXCEPT ![m] = @ - 1]
       /\ \E fails \in BOOLEAN : StopFrom(r, i - 1, fails)
       /\ UNCHANGED <<running, addr>>

(* stopAll, one module at a time; an error of Stop is joined and the loop   *)
(* goes on.                                                                 *)
StopModule(r) ==
    LET i == run[r].i
    IN /\ run[r].pc = "stop"
       /\ i \in Modules
       /\ live' = [live EXCEPT ![i] = @ - 1]
       /\ \E fails \in BOOLEAN : StopFrom(r, i - 1, fails)
       /\ UNCHANGED <<running, addr>>

(* Run returns through its deferred reset. *)
Return(r) ==
    /\ run[r].pc = "stop"
    /\ run[r].i = 0
    /\ running' = FALSE
    /\ addr' = None
    /\ run' = [run EXCEPT ![r] = [@ EXCEPT !.pc = "done",
                                           !.result = IF run[r].err THEN "error" ELSE "nil"]]
    /\ UNCHANGED live

-----------------------------------------------------------------------------
RunStep(r) ==
    \/ StartModule(r) \/ StartFails(r) \/ Listen(r) \/ ListenFails(r)
    \/ ServerDied(r) \/ BeginShutdown(r) \/ Drained(r) \/ ShutdownTimesOut(r)
    \/ ReceiveServeErr(r) \/ StopModule(r) \/ Return(r)

Next ==
    \E r \in Runs :
        \/ Run(r) \/ RunStep(r) \/ Cancel(r)
        \/ Request(r) \/ HandlerReturns(r) \/ ServeFails(r)

Spec == Init /\ [][Next]_vars

(* Run is scheduled, modules return from Start and Stop, and the shutdown   *)
(* deadline comes.  Nothing makes a handler return.                         *)
FairSpec == Spec /\ \A r \in Runs : WF_vars(RunStep(r))

-----------------------------------------------------------------------------
(* Properties                                                              *)

(* The live modules are always the first ones: a module starts after all    *)
(* before it and stops before any of them, over repeated, refused, failing  *)
(* and cancelled runs (registration order, reverse on the way down).        *)
LiveModulesNest ==
    \E k \in 0..N : \A m \in Modules : live[m] = IF m <= k THEN 1 ELSE 0

(* Once Run has returned, whichever step failed, every module that started  *)
(* was stopped and the App can run again with no address left behind.       *)
NothingLeaks ==
    ~running => /\ addr = None
                /\ \A m \in Modules : live[m] = 0
                /\ \A r \in Runs : run[r].pc \notin Active

(* A run that stops modules under a running handler does not return nil:    *)
(* a clean shutdown has drained every request.                              *)
CleanMeansDrained ==
    \A r \in Runs : run[r].handlers > 0 /\ run[r].pc \in {"stop", "done"} => run[r].err

(* A cancelled Run returns, though handlers may never do (the shutdown      *)
(* deadline, CORE-003).                                                     *)
RunReturns == \A r \in Runs : run[r].ctxDone ~> run[r].pc = "done"
=============================================================================
