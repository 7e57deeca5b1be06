---------------------------- MODULE AppRunProofs ----------------------------
(***************************************************************************)
(* Safety of App.Run for any number of Run calls and modules.              *)
(*                                                                         *)
(* Turn says that one call at a time is under way and how many modules are *)
(* live at each point of it; Shape ties a call's server, handlers and      *)
(* errors to its control point.                                            *)
(***************************************************************************)
EXTENDS AppRun, TLAPS

(* The number of modules live while a call is at this point. *)
Level(q) == IF q.pc = "start" THEN q.i - 1 ELSE IF q.pc = "stop" THEN q.i ELSE N

Shape(q) ==
    /\ q.pc = "start" => q.i \in 1..(N + 1)
    /\ q.pc = "stop" => q.i \in 0..N
    /\ q.pc \in {"idle", "start"} => q.srv = "none"
    /\ q.srv = "none" => q.handlers = 0
    /\ q.srv = "serving" => q.pc = "serve"
    /\ q.srv \in {"none", "serving"} => ~q.serveErr
    /\ q.srv = "failed" => q.serveErr
    /\ q.pc = "shutdown" => q.srv = "closed"
    /\ q.pc \in {"stop", "done"} /\ q.srv = "failed" => q.err
    /\ q.pc \in {"receive", "stop", "done"} /\ q.handlers > 0 => q.err
    /\ q.pc = "receive" => q.srv = "closed"

Turn ==
    /\ running <=> \E r \in Runs : run[r].pc \in Active
    /\ \A r, s \in Runs : run[r].pc \in Active /\ run[s].pc \in Active => r = s
    /\ addr # None => running
    /\ \A r \in Runs : run[r].pc \in Active =>
         \A m \in Modules : live[m] = IF m <= Level(run[r]) THEN 1 ELSE 0
    /\ ~running => \A m \in Modules : live[m] = 0

IInv == TypeOK /\ (\A r \in Runs : Shape(run[r])) /\ Turn

-----------------------------------------------------------------------------
LEMMA RunUpdate ==
    ASSUME IInv, NEW r \in Runs, NEW q \in RunRecord, Shape(q),
           run' = [run EXCEPT ![r] = q]
    PROVE  /\ run' \in [Runs -> RunRecord]
           /\ run'[r] = q
           /\ \A s \in Runs : s # r => run'[s] = run[s]
           /\ \A s \in Runs : Shape(run'[s])
  <1>1. /\ run' \in [Runs -> RunRecord]
        /\ run'[r] = q
        /\ \A s \in Runs : s # r => run'[s] = run[s]
    BY DEF IInv, TypeOK
  <1>2. ASSUME NEW s \in Runs PROVE Shape(run'[s])
    BY <1>1 DEF IInv
  <1> QED BY <1>1, <1>2

(* A step of the call under way that leaves its own number of modules live. *)
LEMMA TurnHeld ==
    ASSUME IInv, NEW r \in Runs, NEW q, run[r].pc \in Active, q.pc \in Active,
           run'[r] = q, \A s \in Runs : s # r => run'[s] = run[s],
           UNCHANGED running,
           \A m \in Modules : live'[m] = IF m <= Level(q) THEN 1 ELSE 0
    PROVE  Turn'
  <1>1. \A s \in Runs : run'[s].pc \in Active <=> s = r
    BY DEF IInv, Turn
  <1>2. running
    BY DEF IInv, Turn
  <1> QED BY <1>1, <1>2 DEF Turn

(* A step that moves no call and no module. *)
LEMMA TurnKept ==
    ASSUME IInv, NEW r \in Runs, NEW q, q.pc = run[r].pc, q.i = run[r].i,
           run'[r] = q, \A s \in Runs : s # r => run'[s] = run[s],
           UNCHANGED <<running, addr, live>>
    PROVE  Turn'
  <1>1. \A s \in Runs : run'[s].pc = run[s].pc /\ run'[s].i = run[s].i
    OBVIOUS
  <1>2. \A s \in Runs : Level(run'[s]) = Level(run[s])
    BY <1>1 DEF Level
  <1> QED BY <1>1, <1>2 DEF IInv, Turn

LEMMA InitIInv == Init => IInv
  <1> SUFFICES ASSUME Init PROVE IInv
    OBVIOUS
  <1> USE NAssumption
  <1>1. TypeOK
    <2>1. 0 \in 0..(N + 1) /\ 0 \in 0..MaxHandlers
      OBVIOUS
    <2>2. \A r \in Runs : run[r] \in RunRecord
      BY <2>1 DEF Init, RunRecord
    <2>3. run \in [Runs -> RunRecord]
      BY <2>2 DEF Init
    <2>4. running \in BOOLEAN
      BY DEF Init
    <2>5. addr \in Runs \cup {None} /\ live \in [Modules -> 0..1]
      BY DEF Init
    <2> QED BY <2>3, <2>4, <2>5 DEF TypeOK
  <1>2. \A r \in Runs : Shape(run[r])
    BY DEF Init, Shape
  <1>3. Turn
    BY DEF Init, Turn, Active
  <1> QED BY <1>1, <1>2, <1>3 DEF IInv

-----------------------------------------------------------------------------
(* One lemma per action: the record it writes, then the parts of IInv.      *)

LEMMA StartModuleKeeps == ASSUME IInv, NEW r \in Runs, StartModule(r) PROVE IInv'
  <1> USE NAssumption
  <1> DEFINE q == [run[r] EXCEPT !.i = run[r].i + 1]
  <1>1. run[r] \in RunRecord /\ Shape(run[r])
    BY DEF IInv, TypeOK
  <1>2. run' = [run EXCEPT ![r] = q]
    BY DEF StartModule
  <1>3. q \in RunRecord
    BY <1>1 DEF RunRecord, Shape, Active, Modules, StartModule
  <1>4. /\ q.pc = run[r].pc /\ q.i = run[r].i + 1 /\ q.ctxDone = run[r].ctxDone
        /\ q.err = run[r].err /\ q.srv = run[r].srv /\ q.serveErr = run[r].serveErr
        /\ q.conns = run[r].conns /\ q.handlers = run[r].handlers /\ q.result = run[r].result
    BY <1>1 DEF RunRecord
  <1> HIDE DEF q
  <1>5. Shape(q)
    BY <1>1, <1>3, <1>4 DEF Shape, RunRecord, Modules, Active, StartModule
  <1>6. /\ run' \in [Runs -> RunRecord]
        /\ run'[r] = q
        /\ \A s \in Runs : s # r => run'[s] = run[s]
        /\ \A s \in Runs : Shape(run'[s])
    BY <1>2, <1>3, <1>5, RunUpdate
  <1>7. \A m \in Modules : live'[m] = IF m <= Level(q) THEN 1 ELSE 0
    <2>1. \A m \in Modules : live[m] = IF m <= Level(run[r]) THEN 1 ELSE 0
      BY DEF IInv, Turn, Active, StartModule
    <2>2. live' = [live EXCEPT ![run[r].i] = @ + 1] /\ run[r].i \in Modules /\ run[r].pc = "start"
      BY DEF StartModule
    <2> QED BY <1>4, <2>1, <2>2 DEF Level, Modules, IInv, TypeOK
  <1>8. TypeOK'
    <2>1. live' \in [Modules -> 0..1]
      BY <1>7 DEF IInv, TypeOK, StartModule
    <2> QED BY <1>6, <2>1 DEF IInv, TypeOK, StartModule
  <1>9. Turn'
    <2>1. run[r].pc \in Active /\ q.pc \in Active /\ UNCHANGED running
      BY <1>4 DEF StartModule, Active
    <2> QED BY <2>1, <1>6, <1>7, TurnHeld
  <1> QED BY <1>6, <1>8, <1>9 DEF IInv

LEMMA StartFailsKeeps == ASSUME IInv, NEW r \in Runs, StartFails(r) PROVE IInv'
  <1> USE NAssumption
  <1> DEFINE e == run[r].err \/ TRUE
             q == [run[r] EXCEPT !.pc = "stop", !.i = run[r].i - 1, !.err = e]
  <1>1. run[r] \in RunRecord /\ Shape(run[r])
    BY DEF IInv, TypeOK
  <1>2. run' = [run EXCEPT ![r] = q]
    BY DEF StartFails, StopFrom
  <1>a. e \in BOOLEAN /\ (run[r].err => e) /\ e
    BY <1>1 DEF RunRecord, StopFrom
  <1> HIDE DEF e
  <1>b. "stop" \in Active /\ run[r].i - 1 \in 0..(N + 1)
    BY <1>1 DEF RunRecord, Active, Modules, StartFails
  <1>3. q \in RunRecord
    BY <1>1, <1>a, <1>b DEF RunRecord
  <1>4. /\ q.pc = "stop" /\ q.i = run[r].i - 1 /\ q.ctxDone = run[r].ctxDone
        /\ q.err = e /\ q.srv = run[r].srv /\ q.serveErr = run[r].serveErr
        /\ q.conns = run[r].conns /\ q.handlers = run[r].handlers /\ q.result = run[r].result
    BY <1>1 DEF RunRecord
  <1> HIDE DEF q
  <1>5. Shape(q)
    BY <1>1, <1>a, <1>3, <1>4 DEF Shape, RunRecord, Modules, Active, StartFails
  <1>6. /\ run' \in [Runs -> RunRecord]
        /\ run'[r] = q
        /\ \A s \in Runs : s # r => run'[s] = run[s]
        /\ \A s \in Runs : Shape(run'[s])
    BY <1>2, <1>3, <1>5, RunUpdate
  <1>7. \A m \in Modules : live'[m] = IF m <= Level(q) THEN 1 ELSE 0
    <2>1. \A m \in Modules : live[m] = IF m <= Level(run[r]) THEN 1 ELSE 0
      BY DEF IInv, Turn, Active, StartFails
    <2>2. Level(q) = Level(run[r])
      BY <1>4 DEF Level, StartFails
    <2> QED BY <2>1, <2>2 DEF StartFails
  <1>8. TypeOK'
    BY <1>6 DEF IInv, TypeOK, StartFails
  <1>9. Turn'
    <2>1. run[r].pc \in Active /\ q.pc \in Active /\ UNCHANGED running
      BY <1>4 DEF StartFails, Active
    <2> QED BY <2>1, <1>6, <1>7, TurnHeld
  <1> QED BY <1>6, <1>8, <1>9 DEF IInv

LEMMA ListenKeeps == ASSUME IInv, NEW r \in Runs, Listen(r) PROVE IInv'
  <1> USE NAssumption
  <1> DEFINE q == [run[r] EXCEPT !.pc = "serve", !.srv = "serving"]
  <1>1. run[r] \in RunRecord /\ Shape(run[r])
    BY DEF IInv, TypeOK
  <1>2. run' = [run EXCEPT ![r] = q]
    BY DEF Listen
  <1>3. q \in RunRecord
    BY <1>1 DEF RunRecord, Shape, Active, Modules, Listen
  <1>4. /\ q.pc = "serve" /\ q.i = run[r].i /\ q.ctxDone = run[r].ctxDone
        /\ q.err = run[r].err /\ q.srv = "serving" /\ q.serveErr = run[r].serveErr
        /\ q.conns = run[r].conns /\ q.handlers = run[r].handlers /\ q.result = run[r].result
    BY <1>1 DEF RunRecord
  <1> HIDE DEF q
  <1>5. Shape(q)
    BY <1>1, <1>3, <1>4 DEF Shape, RunRecord, Modules, Active, Listen
  <1>6. /\ run' \in [Runs -> RunRecord]
        /\ run'[r] = q
        /\ \A s \in Runs : s # r => run'[s] = run[s]
        /\ \A s \in Runs : Shape(run'[s])
    BY <1>2, <1>3, <1>5, RunUpdate
  <1>7. \A m \in Modules : live'[m] = IF m <= Level(q) THEN 1 ELSE 0
    <2>1. \A m \in Modules : live[m] = IF m <= Level(run[r]) THEN 1 ELSE 0
      BY DEF IInv, Turn, Active, Listen
    <2>2. Level(q) = Level(run[r])
      BY <1>4 DEF Level, Listen
    <2> QED BY <2>1, <2>2 DEF Listen
  <1>8. TypeOK'
    BY <1>6 DEF IInv, TypeOK, Listen
  <1>9. Turn'
    <2>1. run[r].pc \in Active /\ q.pc \in Active /\ UNCHANGED running
      BY <1>4 DEF Listen, Active
    <2> QED BY <2>1, <1>6, <1>7, TurnHeld
  <1> QED BY <1>6, <1>8, <1>9 DEF IInv

LEMMA ListenFailsKeeps == ASSUME IInv, NEW r \in Runs, ListenFails(r) PROVE IInv'
  <1> USE NAssumption
  <1> DEFINE e == run[r].err \/ TRUE
             q == [run[r] EXCEPT !.pc = "stop", !.i = N, !.err = e]
  <1>1. run[r] \in RunRecord /\ Shape(run[r])
    BY DEF IInv, TypeOK
  <1>2. run' = [run EXCEPT ![r] = q]
    BY DEF ListenFails, StopFrom
  <1>a. e \in BOOLEAN /\ (run[r].err => e) /\ e
    BY <1>1 DEF RunRecord, StopFrom
  <1> HIDE DEF e
  <1>b. "stop" \in Active /\ N \in 0..(N + 1)
    BY <1>1 DEF RunRecord, Active, Modules, ListenFails
  <1>3. q \in RunRecord
    BY <1>1, <1>a, <1>b DEF RunRecord
  <1>4. /\ q.pc = "stop" /\ q.i = N /\ q.ctxDone = run[r].ctxDone
        /\ q.err = e /\ q.srv = run[r].srv /\ q.serveErr = run[r].serveErr
        /\ q.conns = run[r].conns /\ q.handlers = run[r].handlers /\ q.result = run[r].result
    BY <1>1 DEF RunRecord
  <1> HIDE DEF q
  <1>5. Shape(q)
    BY <1>1, <1>a, <1>3, <1>4 DEF Shape, RunRecord, Modules, Active, ListenFails
  <1>6. /\ run' \in [Runs -> RunRecord]
        /\ run'[r] = q
        /\ \A s \in Runs : s # r => run'[s] = run[s]
        /\ \A s \in Runs : Shape(run'[s])
    BY <1>2, <1>3, <1>5, RunUpdate
  <1>7. \A m \in Modules : live'[m] = IF m <= Level(q) THEN 1 ELSE 0
    <2>1. \A m \in Modules : live[m] = IF m <= Level(run[r]) THEN 1 ELSE 0
      BY DEF IInv, Turn, Active, ListenFails
    <2>2. Level(q) = Level(run[r])
      BY <1>4 DEF Level, ListenFails
    <2> QED BY <2>1, <2>2 DEF ListenFails
  <1>8. TypeOK'
    BY <1>6 DEF IInv, TypeOK, ListenFails
  <1>9. Turn'
    <2>1. run[r].pc \in Active /\ q.pc \in Active /\ UNCHANGED running
      BY <1>4 DEF ListenFails, Active
    <2> QED BY <2>1, <1>6, <1>7, TurnHeld
  <1> QED BY <1>6, <1>8, <1>9 DEF IInv

LEMMA ServerDiedKeeps == ASSUME IInv, NEW r \in Runs, ServerDied(r) PROVE IInv'
  <1> USE NAssumption
  <1> DEFINE e == run[r].err \/ TRUE
             q == [run[r] EXCEPT !.pc = "stop", !.i = N, !.err = e]
  <1>1. run[r] \in RunRecord /\ Shape(run[r])
    BY DEF IInv, TypeOK
  <1>2. run' = [run EXCEPT ![r] = q]
    BY DEF ServerDied, StopFrom
  <1>a. e \in BOOLEAN /\ (run[r].err => e) /\ e
    BY <1>1 DEF RunRecord, StopFrom
  <1> HIDE DEF e
  <1>b. "stop" \in Active /\ N \in 0..(N + 1)
    BY <1>1 DEF RunRecord, Active, Modules, ServerDied
  <1>3. q \in RunRecord
    BY <1>1, <1>a, <1>b DEF RunRecord
  <1>4. /\ q.pc = "stop" /\ q.i = N /\ q.ctxDone = run[r].ctxDone
        /\ q.err = e /\ q.srv = run[r].srv /\ q.serveErr = run[r].serveErr
        /\ q.conns = run[r].conns /\ q.handlers = run[r].handlers /\ q.result = run[r].result
    BY <1>1 DEF RunRecord
  <1> HIDE DEF q
  <1>5. Shape(q)
    BY <1>1, <1>a, <1>3, <1>4 DEF Shape, RunRecord, Modules, Active, ServerDied
  <1>6. /\ run' \in [Runs -> RunRecord]
        /\ run'[r] = q
        /\ \A s \in Runs : s # r => run'[s] = run[s]
        /\ \A s \in Runs : Shape(run'[s])
    BY <1>2, <1>3, <1>5, RunUpdate
  <1>7. \A m \in Modules : live'[m] = IF m <= Level(q) THEN 1 ELSE 0
    <2>1. \A m \in Modules : live[m] = IF m <= Level(run[r]) THEN 1 ELSE 0
      BY DEF IInv, Turn, Active, ServerDied
    <2>2. Level(q) = Level(run[r])
      BY <1>4 DEF Level, ServerDied
    <2> QED BY <2>1, <2>2 DEF ServerDied
  <1>8. TypeOK'
    BY <1>6 DEF IInv, TypeOK, ServerDied
  <1>9. Turn'
    <2>1. run[r].pc \in Active /\ q.pc \in Active /\ UNCHANGED running
      BY <1>4 DEF ServerDied, Active
    <2> QED BY <2>1, <1>6, <1>7, TurnHeld
  <1> QED BY <1>6, <1>8, <1>9 DEF IInv

LEMMA BeginShutdownKeeps == ASSUME IInv, NEW r \in Runs, BeginShutdown(r) PROVE IInv'
  <1> USE NAssumption
  <1> DEFINE q == [run[r] EXCEPT !.pc = "shutdown", !.srv = "closed"]
  <1>1. run[r] \in RunRecord /\ Shape(run[r])
    BY DEF IInv, TypeOK
  <1>2. run' = [run EXCEPT ![r] = q]
    BY DEF BeginShutdown
  <1>3. q \in RunRecord
    BY <1>1 DEF RunRecord, Shape, Active, Modules, BeginShutdown
  <1>4. /\ q.pc = "shutdown" /\ q.i = run[r].i /\ q.ctxDone = run[r].ctxDone
        /\ q.err = run[r].err /\ q.srv = "closed" /\ q.serveErr = run[r].serveErr
        /\ q.conns = run[r].conns /\ q.handlers = run[r].handlers /\ q.result = run[r].result
    BY <1>1 DEF RunRecord
  <1> HIDE DEF q
  <1>5. Shape(q)
    BY <1>1, <1>3, <1>4 DEF Shape, RunRecord, Modules, Active, BeginShutdown
  <1>6. /\ run' \in [Runs -> RunRecord]
        /\ run'[r] = q
        /\ \A s \in Runs : s # r => run'[s] = run[s]
        /\ \A s \in Runs : Shape(run'[s])
    BY <1>2, <1>3, <1>5, RunUpdate
  <1>7. \A m \in Modules : live'[m] = IF m <= Level(q) THEN 1 ELSE 0
    <2>1. \A m \in Modules : live[m] = IF m <= Level(run[r]) THEN 1 ELSE 0
      BY DEF IInv, Turn, Active, BeginShutdown
    <2>2. Level(q) = Level(run[r])
      BY <1>4 DEF Level, BeginShutdown
    <2> QED BY <2>1, <2>2 DEF BeginShutdown
  <1>8. TypeOK'
    BY <1>6 DEF IInv, TypeOK, BeginShutdown
  <1>9. Turn'
    <2>1. run[r].pc \in Active /\ q.pc \in Active /\ UNCHANGED running
      BY <1>4 DEF BeginShutdown, Active
    <2> QED BY <2>1, <1>6, <1>7, TurnHeld
  <1> QED BY <1>6, <1>8, <1>9 DEF IInv

LEMMA DrainedKeeps == ASSUME IInv, NEW r \in Runs, Drained(r) PROVE IInv'
  <1> USE NAssumption
  <1> DEFINE q == [run[r] EXCEPT !.pc = "receive"]
  <1>1. run[r] \in RunRecord /\ Shape(run[r])
    BY DEF IInv, TypeOK
  <1>2. run' = [run EXCEPT ![r] = q]
    BY DEF Drained
  <1>3. q \in RunRecord
    BY <1>1 DEF RunRecord, Shape, Active, Modules, Drained
  <1>4. /\ q.pc = "receive" /\ q.i = run[r].i /\ q.ctxDone = run[r].ctxDone
        /\ q.err = run[r].err /\ q.srv = run[r].srv /\ q.serveErr = run[r].serveErr
        /\ q.conns = run[r].conns /\ q.handlers = run[r].handlers /\ q.result = run[r].result
    BY <1>1 DEF RunRecord
  <1> HIDE DEF q
  <1>5. Shape(q)
    BY <1>1, <1>3, <1>4 DEF Shape, RunRecord, Modules, Active, Drained
  <1>6. /\ run' \in [Runs -> RunRecord]
        /\ run'[r] = q
        /\ \A s \in Runs : s # r => run'[s] = run[s]
        /\ \A s \in Runs : Shape(run'[s])
    BY <1>2, <1>3, <1>5, RunUpdate
  <1>7. \A m \in Modules : live'[m] = IF m <= Level(q) THEN 1 ELSE 0
    <2>1. \A m \in Modules : live[m] = IF m <= Level(run[r]) THEN 1 ELSE 0
      BY DEF IInv, Turn, Active, Drained
    <2>2. Level(q) = Level(run[r])
      BY <1>4 DEF Level, Drained
    <2> QED BY <2>1, <2>2 DEF Drained
  <1>8. TypeOK'
    BY <1>6 DEF IInv, TypeOK, Drained
  <1>9. Turn'
    <2>1. run[r].pc \in Active /\ q.pc \in Active /\ UNCHANGED running
      BY <1>4 DEF Drained, Active
    <2> QED BY <2>1, <1>6, <1>7, TurnHeld
  <1> QED BY <1>6, <1>8, <1>9 DEF IInv

LEMMA ShutdownTimesOutKeeps == ASSUME IInv, NEW r \in Runs, ShutdownTimesOut(r) PROVE IInv'
  <1> USE NAssumption
  <1> DEFINE q == [run[r] EXCEPT !.pc = "receive", !.err = TRUE]
  <1>1. run[r] \in RunRecord /\ Shape(run[r])
    BY DEF IInv, TypeOK
  <1>2. run' = [run EXCEPT ![r] = q]
    BY DEF ShutdownTimesOut
  <1>3. q \in RunRecord
    BY <1>1 DEF RunRecord, Shape, Active, Modules, ShutdownTimesOut
  <1>4. /\ q.pc = "receive" /\ q.i = run[r].i /\ q.ctxDone = run[r].ctxDone
        /\ q.err = TRUE /\ q.srv = run[r].srv /\ q.serveErr = run[r].serveErr
        /\ q.conns = run[r].conns /\ q.handlers = run[r].handlers /\ q.result = run[r].result
    BY <1>1 DEF RunRecord
  <1> HIDE DEF q
  <1>5. Shape(q)
    BY <1>1, <1>3, <1>4 DEF Shape, RunRecord, Modules, Active, ShutdownTimesOut
  <1>6. /\ run' \in [Runs -> RunRecord]
        /\ run'[r] = q
        /\ \A s \in Runs : s # r => run'[s] = run[s]
        /\ \A s \in Runs : Shape(run'[s])
    BY <1>2, <1>3, <1>5, RunUpdate
  <1>7. \A m \in Modules : live'[m] = IF m <= Level(q) THEN 1 ELSE 0
    <2>1. \A m \in Modules : live[m] = IF m <= Level(run[r]) THEN 1 ELSE 0
      BY DEF IInv, Turn, Active, ShutdownTimesOut
    <2>2. Level(q) = Level(run[r])
      BY <1>4 DEF Level, ShutdownTimesOut
    <2> QED BY <2>1, <2>2 DEF ShutdownTimesOut
  <1>8. TypeOK'
    BY <1>6 DEF IInv, TypeOK, ShutdownTimesOut
  <1>9. Turn'
    <2>1. run[r].pc \in Active /\ q.pc \in Active /\ UNCHANGED running
      BY <1>4 DEF ShutdownTimesOut, Active
    <2> QED BY <2>1, <1>6, <1>7, TurnHeld
  <1> QED BY <1>6, <1>8, <1>9 DEF IInv

LEMMA ReceiveServeErrKeeps == ASSUME IInv, NEW r \in Runs, ReceiveServeErr(r) PROVE IInv'
  <1> USE NAssumption
  <1> DEFINE e == run[r].err \/ run[r].serveErr
             q == [run[r] EXCEPT !.pc = "stop", !.i = N, !.err = e]
  <1>1. run[r] \in RunRecord /\ Shape(run[r])
    BY DEF IInv, TypeOK
  <1>2. run' = [run EXCEPT ![r] = q]
    BY DEF ReceiveServeErr, StopFrom
  <1>a. e \in BOOLEAN /\ (run[r].err => e) /\ (run[r].serveErr => e)
    BY <1>1 DEF RunRecord, StopFrom
  <1> HIDE DEF e
  <1>b. "stop" \in Active /\ N \in 0..(N + 1)
    BY <1>1 DEF RunRecord, Active, Modules, ReceiveServeErr
  <1>3. q \in RunRecord
    BY <1>1, <1>a, <1>b DEF RunRecord
  <1>4. /\ q.pc = "stop" /\ q.i = N /\ q.ctxDone = run[r].ctxDone
        /\ q.err = e /\ q.srv = run[r].srv /\ q.serveErr = run[r].serveErr
        /\ q.conns = run[r].conns /\ q.handlers = run[r].handlers /\ q.result = run[r].result
    BY <1>1 DEF RunRecord
  <1> HIDE DEF q
  <1>5. Shape(q)
    BY <1>1, <1>a, <1>3, <1>4 DEF Shape, RunRecord, Modules, Active, ReceiveServeErr
  <1>6. /\ run' \in [Runs -> RunRecord]
        /\ run'[r] = q
        /\ \A s \in Runs : s # r => run'[s] = run[s]
        /\ \A s \in Runs : Shape(run'[s])
    BY <1>2, <1>3, <1>5, RunUpdate
  <1>7. \A m \in Modules : live'[m] = IF m <= Level(q) THEN 1 ELSE 0
    <2>1. \A m \in Modules : live[m] = IF m <= Level(run[r]) THEN 1 ELSE 0
      BY DEF IInv, Turn, Active, ReceiveServeErr
    <2>2. Level(q) = Level(run[r])
      BY <1>4 DEF Level, ReceiveServeErr
    <2> QED BY <2>1, <2>2 DEF ReceiveServeErr
  <1>8. TypeOK'
    BY <1>6 DEF IInv, TypeOK, ReceiveServeErr
  <1>9. Turn'
    <2>1. run[r].pc \in Active /\ q.pc \in Active /\ UNCHANGED running
      BY <1>4 DEF ReceiveServeErr, Active
    <2> QED BY <2>1, <1>6, <1>7, TurnHeld
  <1> QED BY <1>6, <1>8, <1>9 DEF IInv

LEMMA StopModuleKeeps == ASSUME IInv, NEW r \in Runs, StopModule(r) PROVE IInv'
  <1> USE NAssumption
  <1>0. PICK fails \in BOOLEAN : StopFrom(r, run[r].i - 1, fails)
    BY DEF StopModule
  <1> DEFINE e == run[r].err \/ fails
             q == [run[r] EXCEPT !.pc = "stop", !.i = run[r].i - 1, !.err = e]
  <1>1. run[r] \in RunRecord /\ Shape(run[r])
    BY DEF IInv, TypeOK
  <1>2. run' = [run EXCEPT ![r] = q]
    BY <1>0 DEF StopFrom
  <1>a. e \in BOOLEAN /\ (run[r].err => e)
    BY <1>1 DEF RunRecord, StopFrom
  <1> HIDE DEF e
  <1>b. "stop" \in Active /\ run[r].i - 1 \in 0..(N + 1)
    BY <1>1 DEF RunRecord, Active, Modules, StopModule
  <1>3. q \in RunRecord
    BY <1>1, <1>a, <1>b DEF RunRecord
  <1>4. /\ q.pc = "stop" /\ q.i = run[r].i - 1 /\ q.ctxDone = run[r].ctxDone
        /\ q.err = e /\ q.srv = run[r].srv /\ q.serveErr = run[r].serveErr
        /\ q.conns = run[r].conns /\ q.handlers = run[r].handlers /\ q.result = run[r].result
    BY <1>1 DEF RunRecord
  <1> HIDE DEF q
  <1>5. Shape(q)
    BY <1>1, <1>a, <1>3, <1>4 DEF Shape, RunRecord, Modules, Active, StopModule
  <1>6. /\ run' \in [Runs -> RunRecord]
        /\ run'[r] = q
        /\ \A s \in Runs : s # r => run'[s] = run[s]
        /\ \A s \in Runs : Shape(run'[s])
    BY <1>2, <1>3, <1>5, RunUpdate
  <1>7. \A m \in Modules : live'[m] = IF m <= Level(q) THEN 1 ELSE 0
    <2>1. \A m \in Modules : live[m] = IF m <= Level(run[r]) THEN 1 ELSE 0
      BY DEF IInv, Turn, Active, StopModule
    <2>2. live' = [live EXCEPT ![run[r].i] = @ - 1] /\ run[r].i \in Modules /\ run[r].pc = "stop"
      BY DEF StopModule
    <2> QED BY <1>4, <2>1, <2>2 DEF Level, Modules, IInv, TypeOK
  <1>8. TypeOK'
    <2>1. live' \in [Modules -> 0..1]
      BY <1>7 DEF IInv, TypeOK, StopModule
    <2> QED BY <1>6, <2>1 DEF IInv, TypeOK, StopModule
  <1>9. Turn'
    <2>1. run[r].pc \in Active /\ q.pc \in Active /\ UNCHANGED running
      BY <1>4 DEF StopModule, Active
    <2> QED BY <2>1, <1>6, <1>7, TurnHeld
  <1> QED BY <1>6, <1>8, <1>9 DEF IInv

LEMMA CancelKeeps == ASSUME IInv, NEW r \in Runs, Cancel(r) PROVE IInv'
  <1> USE NAssumption
  <1> DEFINE q == [run[r] EXCEPT !.ctxDone = TRUE]
  <1>1. run[r] \in RunRecord /\ Shape(run[r])
    BY DEF IInv, TypeOK
  <1>2. run' = [run EXCEPT ![r] = q]
    BY DEF Cancel
  <1>3. q \in RunRecord
    BY <1>1 DEF RunRecord, Shape, Active, Modules, Cancel
  <1>4. /\ q.pc = run[r].pc /\ q.i = run[r].i /\ q.ctxDone = TRUE
        /\ q.err = run[r].err /\ q.srv = run[r].srv /\ q.serveErr = run[r].serveErr
        /\ q.conns = run[r].conns /\ q.handlers = run[r].handlers /\ q.result = run[r].result
    BY <1>1 DEF RunRecord
  <1> HIDE DEF q
  <1>5. Shape(q)
    BY <1>1, <1>3, <1>4 DEF Shape, RunRecord, Modules, Active, Cancel
  <1>6. /\ run' \in [Runs -> RunRecord]
        /\ run'[r] = q
        /\ \A s \in Runs : s # r => run'[s] = run[s]
        /\ \A s \in Runs : Shape(run'[s])
    BY <1>2, <1>3, <1>5, RunUpdate
  <1>8. TypeOK'
    BY <1>6 DEF IInv, TypeOK, Cancel
  <1>9. Turn'
    BY <1>4, <1>6, TurnKept DEF Cancel
  <1> QED BY <1>6, <1>8, <1>9 DEF IInv

LEMMA RequestKeeps == ASSUME IInv, NEW r \in Runs, Request(r) PROVE IInv'
  <1> USE NAssumption
  <1> DEFINE q == [run[r] EXCEPT !.handlers = run[r].handlers + 1, !.conns = TRUE]
  <1>1. run[r] \in RunRecord /\ Shape(run[r])
    BY DEF IInv, TypeOK
  <1>2. run' = [run EXCEPT ![r] = q]
    BY DEF Request
  <1>b. run[r].handlers + 1 \in 0..MaxHandlers
    BY <1>1 DEF RunRecord, Active, Modules, Request
  <1>3. q \in RunRecord
    BY <1>1, <1>b DEF RunRecord
  <1>4. /\ q.pc = run[r].pc /\ q.i = run[r].i /\ q.ctxDone = run[r].ctxDone
        /\ q.err = run[r].err /\ q.srv = run[r].srv /\ q.serveErr = run[r].serveErr
        /\ q.conns = TRUE /\ q.handlers = run[r].handlers + 1 /\ q.result = run[r].result
    BY <1>1 DEF RunRecord
  <1> HIDE DEF q
  <1>5. Shape(q)
    BY <1>1, <1>3, <1>4 DEF Shape, RunRecord, Modules, Active, Request
  <1>6. /\ run' \in [Runs -> RunRecord]
        /\ run'[r] = q
        /\ \A s \in Runs : s # r => run'[s] = run[s]
        /\ \A s \in Runs : Shape(run'[s])
    BY <1>2, <1>3, <1>5, RunUpdate
  <1>8. TypeOK'
    BY <1>6 DEF IInv, TypeOK, Request
  <1>9. Turn'
    BY <1>4, <1>6, TurnKept DEF Request
  <1> QED BY <1>6, <1>8, <1>9 DEF IInv

LEMMA HandlerReturnsKeeps == ASSUME IInv, NEW r \in Runs, HandlerReturns(r) PROVE IInv'
  <1> USE NAssumption
  <1> DEFINE q == [run[r] EXCEPT !.handlers = run[r].handlers - 1]
  <1>1. run[r] \in RunRecord /\ Shape(run[r])
    BY DEF IInv, TypeOK
  <1>2. run' = [run EXCEPT ![r] = q]
    BY DEF HandlerReturns
  <1>3. q \in RunRecord
    BY <1>1 DEF RunRecord, Shape, Active, Modules, HandlerReturns
  <1>4. /\ q.pc = run[r].pc /\ q.i = run[r].i /\ q.ctxDone = run[r].ctxDone
        /\ q.err = run[r].err /\ q.srv = run[r].srv /\ q.serveErr = run[r].serveErr
        /\ q.conns = run[r].conns /\ q.handlers = run[r].handlers - 1 /\ q.result = run[r].result
    BY <1>1 DEF RunRecord
  <1> HIDE DEF q
  <1>5. Shape(q)
    BY <1>1, <1>3, <1>4 DEF Shape, RunRecord, Modules, Active, HandlerReturns
  <1>6. /\ run' \in [Runs -> RunRecord]
        /\ run'[r] = q
        /\ \A s \in Runs : s # r => run'[s] = run[s]
        /\ \A s \in Runs : Shape(run'[s])
    BY <1>2, <1>3, <1>5, RunUpdate
  <1>8. TypeOK'
    BY <1>6 DEF IInv, TypeOK, HandlerReturns
  <1>9. Turn'
    BY <1>4, <1>6, TurnKept DEF HandlerReturns
  <1> QED BY <1>6, <1>8, <1>9 DEF IInv

LEMMA ServeFailsKeeps == ASSUME IInv, NEW r \in Runs, ServeFails(r) PROVE IInv'
  <1> USE NAssumption
  <1> DEFINE q == [run[r] EXCEPT !.srv = "failed", !.serveErr = TRUE]
  <1>1. run[r] \in RunRecord /\ Shape(run[r])
    BY DEF IInv, TypeOK
  <1>2. run' = [run EXCEPT ![r] = q]
    BY DEF ServeFails
  <1>3. q \in RunRecord
    BY <1>1 DEF RunRecord, Shape, Active, Modules, ServeFails
  <1>4. /\ q.pc = run[r].pc /\ q.i = run[r].i /\ q.ctxDone = run[r].ctxDone
        /\ q.err = run[r].err /\ q.srv = "failed" /\ q.serveErr = TRUE
        /\ q.conns = run[r].conns /\ q.handlers = run[r].handlers /\ q.result = run[r].result
    BY <1>1 DEF RunRecord
  <1> HIDE DEF q
  <1>5. Shape(q)
    BY <1>1, <1>3, <1>4 DEF Shape, RunRecord, Modules, Active, ServeFails
  <1>6. /\ run' \in [Runs -> RunRecord]
        /\ run'[r] = q
        /\ \A s \in Runs : s # r => run'[s] = run[s]
        /\ \A s \in Runs : Shape(run'[s])
    BY <1>2, <1>3, <1>5, RunUpdate
  <1>8. TypeOK'
    BY <1>6 DEF IInv, TypeOK, ServeFails
  <1>9. Turn'
    BY <1>4, <1>6, TurnKept DEF ServeFails
  <1> QED BY <1>6, <1>8, <1>9 DEF IInv

LEMMA RunKeeps == ASSUME IInv, NEW r \in Runs, Run(r) PROVE IInv'
  <1> USE NAssumption
  <1>1. run[r] \in RunRecord /\ Shape(run[r]) /\ run[r].pc = "idle" /\ run[r].pc \notin Active
    BY DEF IInv, TypeOK, Run, Active
  <1>2. CASE running
    <2> DEFINE q == [run[r] EXCEPT !.pc = "done", !.result = "ErrAlreadyRunning"]
    <2>1. run' = [run EXCEPT ![r] = q]
      BY <1>2 DEF Run
    <2>2. q \in RunRecord
      BY <1>1 DEF RunRecord
    <2>3. /\ q.pc = "done" /\ q.srv = run[r].srv /\ q.handlers = run[r].handlers
          /\ q.serveErr = run[r].serveErr
      BY <1>1 DEF RunRecord
    <2> HIDE DEF q
    <2>4. Shape(q)
      BY <1>1, <2>2, <2>3 DEF Shape, RunRecord
    <2>5. /\ run' \in [Runs -> RunRecord]
          /\ run'[r] = q
          /\ \A s \in Runs : s # r => run'[s] = run[s]
          /\ \A s \in Runs : Shape(run'[s])
      BY <2>1, <2>2, <2>4, RunUpdate
    <2>6. TypeOK'
      BY <2>5 DEF IInv, TypeOK, Run
    <2>7. Turn'
      <3>1. \A s \in Runs : run'[s].pc \in Active <=> run[s].pc \in Active
        BY <1>1, <2>3, <2>5 DEF Active
      <3>2. \A s \in Runs : run[s].pc \in Active => run'[s] = run[s]
        BY <1>1, <2>5
      <3>3. running' = running /\ addr' = addr /\ live' = live
        BY <1>2 DEF Run, IInv, TypeOK
      <3> QED BY <3>1, <3>2, <3>3 DEF IInv, Turn
    <2> QED BY <2>5, <2>6, <2>7 DEF IInv
  <1>3. CASE ~running
    <2> DEFINE q == [run[r] EXCEPT !.pc = "start", !.i = 1]
    <2>1. run' = [run EXCEPT ![r] = q]
      BY <1>3 DEF Run
    <2>2. "start" \in Active /\ 1 \in 0..(N + 1)
      BY DEF Active
    <2>3. q \in RunRecord
      BY <1>1, <2>2 DEF RunRecord
    <2>4. /\ q.pc = "start" /\ q.i = 1 /\ q.srv = run[r].srv /\ q.handlers = run[r].handlers
          /\ q.serveErr = run[r].serveErr
      BY <1>1 DEF RunRecord
    <2> HIDE DEF q
    <2>5. Shape(q)
      BY <1>1, <2>4 DEF Shape
    <2>6. /\ run' \in [Runs -> RunRecord]
          /\ run'[r] = q
          /\ \A s \in Runs : s # r => run'[s] = run[s]
          /\ \A s \in Runs : Shape(run'[s])
      BY <2>1, <2>3, <2>5, RunUpdate
    <2>7. TypeOK'
      BY <2>6 DEF IInv, TypeOK, Run
    <2>8. Turn'
      <3>1. \A s \in Runs : run'[s].pc \in Active <=> s = r
        BY <1>3, <2>2, <2>4, <2>6 DEF IInv, Turn
      <3>2. running' = TRUE /\ live' = live /\ \A m \in Modules : live[m] = 0
        BY <1>3 DEF Run, IInv, Turn
      <3>3. \A m \in Modules : ~(m <= Level(run'[r]))
        BY <2>4, <2>6 DEF Level, Modules
      <3> QED BY <3>1, <3>2, <3>3 DEF Turn
    <2> QED BY <2>6, <2>7, <2>8 DEF IInv
  <1> QED BY <1>2, <1>3

LEMMA ReturnKeeps == ASSUME IInv, NEW r \in Runs, Return(r) PROVE IInv'
  <1> USE NAssumption
  <1> DEFINE res == IF run[r].err THEN "error" ELSE "nil"
             q == [run[r] EXCEPT !.pc = "done", !.result = res]
  <1>1. run[r] \in RunRecord /\ Shape(run[r]) /\ run[r].pc = "stop" /\ run[r].i = 0
    BY DEF IInv, TypeOK, Return
  <1>2. run' = [run EXCEPT ![r] = q]
    BY DEF Return
  <1>3. res \in {"error", "nil"}
    OBVIOUS
  <1> HIDE DEF res
  <1>4. q \in RunRecord
    BY <1>1, <1>3 DEF RunRecord
  <1>5. /\ q.pc = "done" /\ q.srv = run[r].srv /\ q.handlers = run[r].handlers
        /\ q.serveErr = run[r].serveErr /\ q.err = run[r].err
    BY <1>1 DEF RunRecord
  <1> HIDE DEF q
  <1>6. Shape(q)
    BY <1>1, <1>5 DEF Shape
  <1>7. /\ run' \in [Runs -> RunRecord]
        /\ run'[r] = q
        /\ \A s \in Runs : s # r => run'[s] = run[s]
        /\ \A s \in Runs : Shape(run'[s])
    BY <1>2, <1>4, <1>6, RunUpdate
  <1>8. TypeOK'
    BY <1>7 DEF IInv, TypeOK, Return
  <1>9. Turn'
    <2>1. \A s \in Runs : run'[s].pc \notin Active
      BY <1>1, <1>5, <1>7 DEF IInv, Turn, Active
    <2>2. \A m \in Modules : live[m] = 0
      BY <1>1 DEF IInv, Turn, Active, Level, Modules
    <2>3. running' = FALSE /\ addr' = None /\ live' = live
      BY DEF Return
    <2> QED BY <2>1, <2>2, <2>3 DEF Turn
  <1> QED BY <1>7, <1>8, <1>9 DEF IInv

-----------------------------------------------------------------------------
LEMMA NextIInv == ASSUME IInv, [Next]_vars PROVE IInv'
  <1>1. ASSUME NEW r \in Runs, RunStep(r) PROVE IInv'
    BY <1>1, StartModuleKeeps, StartFailsKeeps, ListenKeeps, ListenFailsKeeps,
       ServerDiedKeeps, BeginShutdownKeeps, DrainedKeeps, ShutdownTimesOutKeeps,
       ReceiveServeErrKeeps, StopModuleKeeps, ReturnKeeps DEF RunStep
  <1>2. CASE UNCHANGED vars
    BY <1>2 DEF vars, IInv, TypeOK, Shape, Turn, Level
  <1> QED BY <1>1, <1>2, RunKeeps, CancelKeeps, RequestKeeps, HandlerReturnsKeeps,
             ServeFailsKeeps DEF Next

LEMMA SpecIInv == Spec => []IInv
  BY InitIInv, NextIInv, PTL DEF Spec

(* For any number of modules and Run calls, modules start in registration   *)
(* order and stop in reverse, and none starts twice or stops unstarted.     *)
THEOREM Nested == Spec => [](TypeOK /\ LiveModulesNest)
  <1>1. IInv => TypeOK /\ LiveModulesNest
    <2> SUFFICES ASSUME IInv PROVE LiveModulesNest
      BY DEF IInv
    <2> USE NAssumption
    <2>1. CASE ~running
      <3>1. 0 \in 0..N /\ \A m \in Modules : live[m] = IF m <= 0 THEN 1 ELSE 0
        BY <2>1 DEF IInv, Turn, Modules
      <3> QED BY <3>1 DEF LiveModulesNest
    <2>2. CASE running
      <3>1. PICK r \in Runs : run[r].pc \in Active
        BY <2>2 DEF IInv, Turn
      <3>2. Level(run[r]) \in 0..N
        BY DEF IInv, TypeOK, Shape, Level, RunRecord
      <3>3. \A m \in Modules : live[m] = IF m <= Level(run[r]) THEN 1 ELSE 0
        BY <3>1 DEF IInv, Turn
      <3> QED BY <3>2, <3>3 DEF LiveModulesNest
    <2>3. running \in BOOLEAN
      BY DEF IInv, TypeOK
    <2> QED BY <2>1, <2>2, <2>3
  <1> QED BY <1>1, SpecIInv, PTL

(* Whatever fails, a returned Run leaves no module started, no address and  *)
(* an App that can run again.                                               *)
THEOREM Unwound == Spec => []NothingLeaks
  <1>1. IInv => NothingLeaks
    BY DEF IInv, Turn, NothingLeaks
  <1> QED BY <1>1, SpecIInv, PTL

(* A Run that returns nil has drained its requests before it stopped a      *)
(* module, for any number of requests in flight.                            *)
THEOREM DrainedIfClean == Spec => []CleanMeansDrained
  <1>1. IInv => CleanMeansDrained
    BY DEF IInv, Shape, CleanMeansDrained
  <1> QED BY <1>1, SpecIInv, PTL
=============================================================================
