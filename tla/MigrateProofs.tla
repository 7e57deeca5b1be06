--------------------------- MODULE MigrateProofs ---------------------------
(* Proofs about Migrate, for any jobs, releases and versions. *)
EXTENDS Migrate, FiniteSetTheorems, TLAPS

USE VersionsAssumption, ReleaseAssumption

(* The working copy of the open transaction, at each point of inTx: equal   *)
(* schema and rows before the body, one migration apart after it, equal     *)
(* again once the row is written.                                           *)
WorkingCopy ==
    \A j \in Jobs :
        /\ job[j].pc \in {"body", "commit"} => tx.schema = tx.table
        /\ job[j].pc = "record" =>
              \A v \in job[j].todo : Current(j, v) =>
                  tx.schema = IF job[j].up THEN tx.table \cup {v} ELSE tx.table \ {v}

IInv == TypeOK /\ RecordedIsApplied /\ WorkingCopy

LEMMA InitIInv == Init => IInv
  <1> SUFFICES ASSUME Init PROVE IInv
    OBVIOUS
  <1>1. overlap \in BOOLEAN
    BY Zenon DEF Init
  <1>2. QED  BY <1>1 DEF Init, IInv, TypeOK, Job, NoTx, RecordedIsApplied, WorkingCopy

(* A step of job j outside a transaction writes only that job's record. *)
Outside(j) ==
    /\ UNCHANGED <<table, schema, tx, committed>>
    /\ job[j].pc \notin {"body", "record", "commit"}
    /\ \E r \in Job : /\ r.pc \notin {"body", "record", "commit"}
                      /\ job' = [job EXCEPT ![j] = r]
    /\ latest' \in Jobs \cup {None}
    /\ overlap' \in BOOLEAN

LEMMA OutsideIInv ==
    ASSUME IInv, NEW j \in Jobs, Outside(j)
    PROVE  IInv'
  <1> PICK r \in Job : r.pc \notin {"body", "record", "commit"} /\ job' = [job EXCEPT ![j] = r]
    BY DEF Outside
  <1>1. TypeOK'
    BY DEF IInv, TypeOK, Outside
  <1>2. WorkingCopy'
    BY DEF IInv, TypeOK, Outside, WorkingCopy, Current
  <1> QED  BY <1>1, <1>2 DEF IInv, Outside, RecordedIsApplied

LEMMA CommandOutside ==
    ASSUME IInv, NEW j \in Jobs,
           \/ \E t \in Release[j] \cup {None} : Begin(j, t)
           \/ Direct(j) \/ PlanRun(j) \/ PlanRollback(j) \/ PlanFails(j) \/ LoopEnds(j)
    PROVE  Outside(j)
  <1> DEFINE r0 == job[j]
  <1>1. r0 \in Job /\ job \in [Jobs -> Job] /\ Release[j] \in SUBSET Versions
        /\ table \in SUBSET Versions /\ r0.ms \in SUBSET Versions
        /\ {"direct", "plan", "next", "done"} \subseteq Running \cup {"idle", "done", "crashed"}
    BY DEF IInv, TypeOK, Job, Running
  <1>2. \A x \in {"ok", "ErrOutOfOrder", "ErrMissingMigration", "error"} :
           Finish(j, x) => \E r \in Job : r.pc = "done" /\ job' = [job EXCEPT ![j] = r]
    <2> SUFFICES ASSUME NEW x \in {"ok", "ErrOutOfOrder", "ErrMissingMigration", "error"},
                        Finish(j, x)
                 PROVE  \E r \in Job : r.pc = "done" /\ job' = [job EXCEPT ![j] = r]
      OBVIOUS
    <2> DEFINE r == [r0 EXCEPT !.pc = "done", !.result = x]
    <2>1. r \in Job /\ r.pc = "done"
      <3> HIDE DEF r0
      <3> QED  BY <1>1 DEF Job, Running
    <2>2. job' = [job EXCEPT ![j] = r]
      BY DEF Finish
    <2> HIDE DEF r
    <2> QED  BY <2>1, <2>2
  <1>3. ASSUME NEW t \in Release[j] \cup {None}, Begin(j, t)  PROVE Outside(j)
    <2> DEFINE p == IF Release[j] = {} THEN "done" ELSE "direct"
               x == IF Release[j] = {} THEN "ok" ELSE "none"
               r == [r0 EXCEPT !.pc = p, !.result = x, !.target = t]
    <2>1. p \in {"done", "direct"} /\ x \in {"none", "ok"} /\ t \in Versions \cup {None}
      BY <1>1
    <2>2. job' = [job EXCEPT ![j] = r]
      BY <1>3 DEF Begin
    <2>3. r \in Job /\ r.pc = p
      <3> HIDE DEF r0, p, x
      <3> QED  BY <1>1, <2>1 DEF Job, Running
    <2> HIDE DEF r, p
    <2> QED  BY <1>3, <2>1, <2>2, <2>3 DEF Begin, Outside
  <1>4. CASE Direct(j)
    <2>1. CASE Finish(j, "error")
      BY <1>2, <1>4, <2>1 DEF Direct, Outside, IInv, TypeOK
    <2>2. CASE ~Finish(j, "error")
      <3> DEFINE b == job[j].target = None \/ job[j].target \notin table
                 ms == IF job[j].target = None \/ ~b THEN Release[j]
                       ELSE {v \in Release[j] : v <= job[j].target /\ v \notin table}
                 r == [r0 EXCEPT !.pc = "plan", !.up = b, !.ms = ms]
      <3>1. b \in BOOLEAN /\ ms \in SUBSET Versions
        BY <1>1
      <3>2. job' = [job EXCEPT ![j] = r]
        BY <1>4, <2>2 DEF Direct
      <3>3. r \in Job /\ r.pc = "plan"
        <4> HIDE DEF r0, b, ms
        <4> QED  BY <1>1, <3>1 DEF Job, Running
      <3> HIDE DEF r
      <3> QED  BY <1>4, <3>2, <3>3 DEF Direct, Outside, IInv, TypeOK
    <2> QED  BY <2>1, <2>2
  <1>5. CASE PlanRun(j) \/ PlanRollback(j)
    <2>1. CASE \E x \in {"ErrOutOfOrder", "ErrMissingMigration"} : Finish(j, x)
      BY <1>2, <1>5, <2>1 DEF PlanRun, PlanRollback, Outside, IInv, TypeOK
    <2>2. CASE \E S \in SUBSET Versions :
                  job' = [job EXCEPT ![j] = [@ EXCEPT !.pc = "next", !.todo = S]]
      <3> PICK S \in SUBSET Versions : job' = [job EXCEPT ![j] = [@ EXCEPT !.pc = "next", !.todo = S]]
        BY <2>2
      <3> DEFINE r == [r0 EXCEPT !.pc = "next", !.todo = S]
      <3>1. r \in Job /\ r.pc = "next"
        <4> HIDE DEF r0
        <4> QED  BY <1>1 DEF Job, Running
      <3>2. job' = [job EXCEPT ![j] = r]
        OBVIOUS
      <3> HIDE DEF r
      <3> QED  BY <1>5, <3>1, <3>2, ZenonT(40) DEF PlanRun, PlanRollback, Outside, IInv, TypeOK
    <2>3. \/ \E x \in {"ErrOutOfOrder", "ErrMissingMigration"} : Finish(j, x)
          \/ \E S \in SUBSET Versions :
                job' = [job EXCEPT ![j] = [@ EXCEPT !.pc = "next", !.todo = S]]
      <3>1. CASE PlanRun(j)
        <4>1. job[j].ms \ table \in SUBSET Versions
          BY <1>1
        <4> QED  BY <3>1, <4>1 DEF PlanRun
      <3>2. CASE PlanRollback(j)
        <4>1. {v \in table : v > job[j].target} \in SUBSET Versions
          BY <1>1
        <4> QED  BY <3>2, <4>1 DEF PlanRollback
      <3> QED  BY <1>5, <3>1, <3>2
    <2> QED  BY <2>1, <2>2, <2>3
  <1>6. CASE PlanFails(j) \/ LoopEnds(j)
    BY <1>2, <1>6 DEF PlanFails, LoopEnds, Outside, IInv, TypeOK
  <1> QED  BY <1>3, <1>4, <1>5, <1>6

(* Steps that open, fill, commit or drop the transaction. *)
LEMMA BeginTxIInv ==
    ASSUME IInv, NEW j \in Jobs, BeginTx(j)
    PROVE  IInv'
  <1>1. /\ job \in [Jobs -> Job] /\ tx.owner = None
        /\ tx' = [owner |-> j, table |-> table, schema |-> schema]
        /\ job' = [job EXCEPT ![j].pc = "body"] /\ job'[j].pc = "body"
        /\ \A k \in Jobs : k # j => job'[k] = job[k]
        /\ \A k \in Jobs : job[k].pc \notin {"body", "record", "commit"}
    BY DEF IInv, TypeOK, Job, BeginTx
  <1>2. job' \in [Jobs -> Job]
    <2>1. [job[j] EXCEPT !.pc = "body"] \in Job
      BY <1>1 DEF Job, Running
    <2> QED  BY <1>1, <2>1
  <1>3. TypeOK'
    BY <1>1, <1>2 DEF IInv, TypeOK, BeginTx
  <1>4. WorkingCopy'
    BY <1>1 DEF IInv, RecordedIsApplied, WorkingCopy
  <1> QED  BY <1>3, <1>4 DEF IInv, RecordedIsApplied, BeginTx

(* Only the current version can be current again after a step that keeps    *)
(* the todo set.                                                            *)
LEMMA CurrentUnique ==
    ASSUME TypeOK, NEW j \in Jobs, NEW v, NEW w, Current(j, v), Current(j, w)
    PROVE  v = w
  <1>1. v \in Int /\ w \in Int
    BY DEF TypeOK, Job, Current
  <1> QED  BY <1>1 DEF Current

LEMMA BodyIInv ==
    ASSUME IInv, NEW j \in Jobs, NEW v \in job[j].todo, Body(j, v) \/ Record(j, v)
    PROVE  IInv'
  <1>0. /\ job \in [Jobs -> Job] /\ v \in Versions /\ Current(j, v) /\ tx.owner = j
        /\ job[j].up \in BOOLEAN
        /\ tx \in [owner : Jobs \cup {None}, table : SUBSET Versions, schema : SUBSET Versions]
    BY DEF IInv, TypeOK, Job, Body, Record
  <1>1. \E pc \in {"record", "commit"} : job' = [job EXCEPT ![j].pc = pc]
    BY DEF Body, Record
  <1> PICK pc \in {"record", "commit"} : job' = [job EXCEPT ![j].pc = pc]
    BY <1>1
  <1>2. /\ job'[j].pc = pc /\ job'[j].todo = job[j].todo /\ job'[j].up = job[j].up
        /\ \A k \in Jobs : k # j => job'[k] = job[k]
        /\ \A k \in Jobs : k # j => job[k].pc \notin {"body", "record", "commit"}
    BY <1>0 DEF IInv, TypeOK, Job
  <1>3. job' \in [Jobs -> Job]
    <2>1. [job[j] EXCEPT !.pc = pc] \in Job
      BY <1>0 DEF Job, Running
    <2> QED  BY <1>0, <2>1
  <1>4. /\ tx' \in [owner : Jobs \cup {None}, table : SUBSET Versions, schema : SUBSET Versions]
        /\ tx'.owner = j
    BY <1>0 DEF Body, Record
  <1>5. TypeOK'
    BY <1>2, <1>3, <1>4 DEF IInv, TypeOK, Body, Record
  <1>6. WorkingCopy'
    <2>1. CASE Body(j, v)
      <3>1. /\ tx'.schema = (IF job[j].up THEN tx.table \cup {v} ELSE tx.table \ {v})
            /\ tx'.table = tx.table /\ pc = "record"
        <4>1. pc = "record"
          BY <1>0, <1>2, <2>1 DEF Body, Job
        <4>2. tx.schema = tx.table
          BY <2>1 DEF IInv, WorkingCopy, Body
        <4>3. /\ tx'.schema = (IF job[j].up THEN tx.schema \cup {v} ELSE tx.schema \ {v})
              /\ tx'.table = tx.table
          BY <1>0, <2>1 DEF Body
        <4> QED  BY <4>1, <4>2, <4>3
      <3>2. \A w \in job'[j].todo : Current(j, w)' => w = v
        BY <1>0, <1>2, CurrentUnique DEF IInv, Current
      <3> QED  BY <1>2, <3>1, <3>2 DEF WorkingCopy
    <2>2. CASE Record(j, v)
      <3>1. tx'.schema = tx'.table /\ pc = "commit"
        <4>1. pc = "commit"
          BY <1>0, <1>2, <2>2 DEF Record, Job
        <4>2. tx.schema = IF job[j].up THEN tx.table \cup {v} ELSE tx.table \ {v}
          BY <1>0, <2>2 DEF IInv, WorkingCopy, Record
        <4>3. /\ tx'.table = (IF job[j].up THEN tx.table \cup {v} ELSE tx.table \ {v})
              /\ tx'.schema = tx.schema
          BY <1>0, <2>2 DEF Record
        <4> QED  BY <4>1, <4>2, <4>3
      <3> QED  BY <1>2, <3>1 DEF WorkingCopy
    <2> QED  BY <2>1, <2>2
  <1> QED  BY <1>5, <1>6 DEF IInv, RecordedIsApplied, Body, Record

(* Ending the transaction, by whatever outcome. *)
LEMMA TxEnds ==
    ASSUME IInv, NEW j \in Jobs, NEW r \in Job, tx.owner = j,
           r.pc \notin {"body", "record", "commit"},
           job' = [job EXCEPT ![j] = r], tx' = NoTx,
           \/ table' = table /\ schema' = schema
           \/ table' = tx.table /\ schema' = tx.schema,
           table' = schema', committed' \in [Jobs -> SUBSET Versions],
           latest' = latest, overlap' = overlap
    PROVE  IInv'
  <1>1. \A k \in Jobs : job'[k].pc \notin {"body", "record", "commit"}
    BY DEF IInv, TypeOK
  <1>2. /\ table' \in SUBSET Versions /\ schema' \in SUBSET Versions
        /\ job' \in [Jobs -> Job] /\ latest' \in Jobs \cup {None} /\ overlap' \in BOOLEAN
    BY DEF IInv, TypeOK
  <1>3. /\ tx' \in [owner : Jobs \cup {None}, table : SUBSET Versions, schema : SUBSET Versions]
        /\ tx'.owner = None
    BY DEF NoTx
  <1>4. TypeOK'
    BY <1>1, <1>2, <1>3 DEF TypeOK
  <1>5. WorkingCopy'
    BY <1>1 DEF WorkingCopy
  <1> QED  BY <1>4, <1>5 DEF IInv, RecordedIsApplied

LEMMA EndIInv ==
    ASSUME IInv, NEW j \in Jobs,
           \/ \E v \in job[j].todo : Commit(j, v)
           \/ TxFails(j) \/ Crash(j)
    PROVE  IInv'
  <1> DEFINE r0 == job[j]
  <1>0. /\ r0 \in Job /\ job \in [Jobs -> Job]
        /\ committed \in [Jobs -> SUBSET Versions]
        /\ {"next", "done", "crashed"} \subseteq Running \cup {"idle", "done", "crashed"}
    BY DEF IInv, TypeOK, Job, Running
  <1>1. /\ [r0 EXCEPT !.pc = "done", !.result = "error"] \in Job
        /\ [r0 EXCEPT !.pc = "done", !.result = "error"].pc = "done"
        /\ [r0 EXCEPT !.pc = "crashed"] \in Job
        /\ [r0 EXCEPT !.pc = "crashed"].pc = "crashed"
    <2> HIDE DEF r0
    <2> QED  BY <1>0 DEF Job, Running
  <1>2. ASSUME NEW v \in job[j].todo, Commit(j, v)  PROVE IInv'
    <2> DEFINE r1 == [r0 EXCEPT !.pc = "next", !.todo = r0.todo \ {v}, !.done = r0.done \cup {v}]
    <2>1. v \in Versions /\ tx.owner = j /\ tx.schema = tx.table
      BY <1>0, <1>2 DEF IInv, TypeOK, Job, WorkingCopy, Commit
    <2>2. r1 \in Job /\ r1.pc = "next"
      <3> HIDE DEF r0
      <3> QED  BY <1>0, <2>1 DEF Job, Running
    <2>3. \E r \in Job : r.pc \in {"next", "done"} /\ job' = [job EXCEPT ![j] = r]
      <3>1. \/ job' = [job EXCEPT ![j] = r1]
            \/ job' = [job EXCEPT ![j] = [r0 EXCEPT !.pc = "done", !.result = "error"]]
        BY <1>2 DEF Commit, Finish
      <3> HIDE DEF r1, r0
      <3> QED  BY <1>1, <2>2, <3>1
    <2>4. committed' \in [Jobs -> SUBSET Versions]
      BY <1>0, <1>2, <2>1 DEF Commit
    <2>5. tx' = NoTx /\ table' = tx.table /\ schema' = tx.schema /\ latest' = latest /\ overlap' = overlap
      BY <1>2 DEF Commit
    <2> QED  BY <2>1, <2>3, <2>4, <2>5, TxEnds
  <1>3. ASSUME NEW r \in Job, r.pc \in {"done", "crashed"}, job' = [job EXCEPT ![j] = r],
               UNCHANGED <<table, schema, committed, latest, overlap>>,
               tx' = IF tx.owner = j THEN NoTx ELSE tx
        PROVE  IInv'
    <2>1. CASE tx.owner = j
      <3>1. /\ table' = schema' /\ committed' \in [Jobs -> SUBSET Versions] /\ tx' = NoTx
            /\ r.pc \notin {"body", "record", "commit"} /\ latest' = latest /\ overlap' = overlap
            /\ table' = table /\ schema' = schema /\ job' = [job EXCEPT ![j] = r]
        BY <1>0, <1>3, <2>1 DEF IInv, RecordedIsApplied
      <3> QED  BY <2>1, <3>1, TxEnds
    <2>2. CASE tx.owner # j
      <3>1. Outside(j)
        BY <1>3, <2>2 DEF Outside, IInv, TypeOK
      <3> QED  BY <3>1, OutsideIInv
    <2> QED  BY <2>1, <2>2
  <1>4. CASE TxFails(j)
    <2>1. tx' = IF tx.owner = j THEN NoTx ELSE tx
      BY <1>4 DEF TxFails, IInv, TypeOK
    <2> QED  BY <1>1, <1>3, <1>4, <2>1 DEF TxFails, Finish
  <1>5. CASE Crash(j)
    BY <1>1, <1>3, <1>5 DEF Crash
  <1> QED  BY <1>2, <1>4, <1>5

LEMMA NextIInv == IInv /\ [Next]_vars => IInv'
  <1> SUFFICES ASSUME IInv, [Next]_vars  PROVE IInv'
    OBVIOUS
  <1>1. CASE UNCHANGED vars
    BY <1>1 DEF IInv, TypeOK, RecordedIsApplied, WorkingCopy, Current, vars
  <1>2. ASSUME NEW j \in Jobs, \E t \in Release[j] \cup {None} : Begin(j, t)  PROVE IInv'
    BY <1>2, CommandOutside, OutsideIInv
  <1>3. ASSUME NEW j \in Jobs, Step(j)  PROVE IInv'
    <2>1. CASE Direct(j) \/ PlanRun(j) \/ PlanRollback(j) \/ PlanFails(j) \/ LoopEnds(j)
      BY <2>1, CommandOutside, OutsideIInv
    <2>2. CASE BeginTx(j)
      BY <2>2, BeginTxIInv
    <2>3. CASE \E v \in job[j].todo : Body(j, v) \/ Record(j, v)
      BY <2>3, BodyIInv
    <2>4. CASE (\E v \in job[j].todo : Commit(j, v)) \/ TxFails(j) \/ Crash(j)
      BY <2>4, EndIInv
    <2> QED  BY <1>3, <2>1, <2>2, <2>3, <2>4 DEF Step
  <1> QED  BY <1>1, <1>2, <1>3 DEF Next

(* A migration is recorded exactly when its effect is in the schema, for    *)
(* any number of overlapping jobs and any releases (apply, revert, inTx).   *)
THEOREM BodyWithRow == Spec => []RecordedIsApplied
  <1>1. Spec => []IInv
    BY InitIInv, NextIInv, PTL DEF Spec
  <1>2. IInv => RecordedIsApplied
    BY DEF IInv
  <1> QED  BY <1>1, <1>2, PTL

-----------------------------------------------------------------------------
(* Jobs that do not overlap apply in order.                                *)

Loop == {"next", "body", "record", "commit"}

(* What Run and Rollback rely on inside their loops: what is left to apply  *)
(* lies above every row, what is left to undo above every row that stays,   *)
(* and the open transaction differs from the table by the current version.  *)
LoopState(j) ==
    /\ job[j].pc = "plan" /\ ~job[j].up => job[j].target \in Versions
    /\ job[j].pc \in Loop => IF job[j].up
                             THEN \A v \in job[j].todo : \A w \in table : w < v
                             ELSE \A v \in job[j].todo : \A w \in table \ job[j].todo : w < v
    /\ job[j].pc \in {"body", "record"} => tx.table = table
    /\ job[j].pc = "commit" =>
          \A v \in job[j].todo : Current(j, v) =>
              tx.table = IF job[j].up THEN table \cup {v} ELSE table \ {v}

Alone == \A j, k \in Jobs : job[j].pc \in Running /\ job[k].pc \in Running => j = k

OInv == Alone /\ \A j \in Jobs : LoopState(j)

InOrderStep ==
    /\ \A v \in table' \ table : \A w \in table : w < v
    /\ \A v \in table \ table' : \A w \in table' : w < v

(* A step of one job leaves the others at rest. *)
LEMMA SoloStep ==
    ASSUME IInv, OInv, NEW j \in Jobs,
           job[j].pc \in Running \/ Idle,
           \E r : job' = [job EXCEPT ![j] = r], LoopState(j)'
    PROVE  OInv'
  <1>1. \A k \in Jobs : k # j => job'[k] = job[k] /\ job[k].pc \notin Running
    BY DEF IInv, TypeOK, OInv, Alone, Idle
  <1>2. \A k \in Jobs : k # j => LoopState(k)'
    BY <1>1 DEF LoopState, Loop, Running
  <1>3. Alone'
    BY <1>1 DEF Alone
  <1> QED  BY <1>2, <1>3 DEF OInv

LEMMA QuietSolo ==
    ASSUME IInv, OInv, NEW j \in Jobs,
           \/ Idle /\ \E t \in Release[j] \cup {None} : Begin(j, t)
           \/ PlanFails(j) \/ LoopEnds(j) \/ TxFails(j) \/ Crash(j)
    PROVE  OInv' /\ InOrderStep
  <1>1. job[j].pc \in Running \/ Idle
    BY DEF PlanFails, LoopEnds, TxFails, Crash, Running
  <1>2. \E r : job' = [job EXCEPT ![j] = r]
    BY DEF Begin, PlanFails, LoopEnds, TxFails, Crash, Finish
  <1>3. job'[j].pc \notin Loop \cup {"plan"}
    <2>0. job \in [Jobs -> Job]
      BY DEF IInv, TypeOK
    <2>1. ASSUME NEW t \in Release[j] \cup {None}, Begin(j, t)
          PROVE  job'[j].pc \in {"done", "direct"}
      BY <2>0, <2>1 DEF Begin, Job
    <2>2. CASE PlanFails(j) \/ LoopEnds(j) \/ TxFails(j)
      <3>1. \E x : job' = [job EXCEPT ![j] = [@ EXCEPT !.pc = "done", !.result = x]]
        BY <2>2 DEF PlanFails, LoopEnds, TxFails, Finish
      <3>2. job'[j].pc = "done"
        BY <2>0, <3>1 DEF Job
      <3> QED  BY <3>2 DEF Loop
    <2>3. CASE Crash(j)
      BY <2>0, <2>3 DEF Crash, Loop, Job
    <2> QED  BY <2>1, <2>2, <2>3 DEF Loop
  <1>4. LoopState(j)'
    BY <1>3 DEF LoopState, Loop
  <1>5. table' = table
    BY DEF Begin, PlanFails, LoopEnds, TxFails, Crash
  <1> QED  BY <1>1, <1>2, <1>4, <1>5, SoloStep DEF InOrderStep

LEMMA DirectSolo ==
    ASSUME IInv, OInv, NEW j \in Jobs, Direct(j)
    PROVE  OInv' /\ InOrderStep
  <1>0. /\ job \in [Jobs -> Job] /\ job[j].target \in Versions \cup {None}
        /\ job[j].pc = "direct" /\ table' = table
    BY DEF IInv, TypeOK, Job, Direct
  <1>1. job[j].pc \in Running
    BY <1>0 DEF Running
  <1>2. \E r : job' = [job EXCEPT ![j] = r]
    BY DEF Direct, Finish
  <1>3. LoopState(j)'
    <2> DEFINE t == job[j].target
               forward == t = None \/ t \notin table
               ms == IF t = None \/ ~forward THEN Release[j]
                     ELSE {v \in Release[j] : v <= t /\ v \notin table}
    <2>1. CASE Finish(j, "error")
      <3>1. job'[j].pc = "done"
        BY <1>0, <2>1 DEF Finish, Job
      <3> QED  BY <3>1 DEF LoopState, Loop
    <2>2. CASE job' = [job EXCEPT ![j] = [@ EXCEPT !.pc = "plan", !.up = forward, !.ms = ms]]
      <3>1. ~forward => t \in Versions
        BY <1>0
      <3> HIDE DEF ms, forward
      <3>2. job'[j].pc = "plan" /\ job'[j].up = forward /\ job'[j].target = t
        BY <1>0, <2>2 DEF Job
      <3> QED  BY <3>1, <3>2 DEF LoopState, Loop
    <2> QED  BY <2>1, <2>2 DEF Direct
  <1> QED  BY <1>0, <1>1, <1>2, <1>3, SoloStep DEF InOrderStep

LEMMA PlanSolo ==
    ASSUME IInv, OInv, NEW j \in Jobs, PlanRun(j) \/ PlanRollback(j)
    PROVE  OInv' /\ InOrderStep
  <1>0. /\ job \in [Jobs -> Job] /\ table \subseteq Int /\ job[j].ms \subseteq Int
        /\ job[j].pc = "plan" /\ table' = table /\ tx' = tx
    BY DEF IInv, TypeOK, Job, PlanRun, PlanRollback
  <1>1. job[j].pc \in Running
    BY <1>0 DEF Running
  <1>2. \E r : job' = [job EXCEPT ![j] = r]
    BY DEF PlanRun, PlanRollback, Finish
  <1>3. LoopState(j)'
    <2>1. CASE PlanRun(j)
      <3> DEFINE pending == job[j].ms \ table
      <3>1. CASE OutOfOrder(pending)
        <4>1. job'[j].pc = "done"
          <5>1. job' = [job EXCEPT ![j] = [@ EXCEPT !.pc = "done", !.result = "ErrOutOfOrder"]]
            BY <2>1, <3>1 DEF PlanRun, Finish
          <5> QED  BY <1>0, <5>1 DEF Job
        <4> QED  BY <4>1 DEF LoopState, Loop
      <3>2. CASE ~OutOfOrder(pending)
        <4>1. job'[j].pc = "next" /\ job'[j].todo = pending /\ job'[j].up
          <5>1. /\ job' = [job EXCEPT ![j] = [@ EXCEPT !.pc = "next", !.todo = pending]]
                /\ job[j].up
            BY <2>1, <3>2 DEF PlanRun
          <5> HIDE DEF pending
          <5> QED  BY <1>0, <5>1 DEF Job
        <4>2. \A v \in pending : \A w \in table : w < v
          BY <1>0, <3>2 DEF OutOfOrder
        <4> QED  BY <1>0, <4>1, <4>2 DEF LoopState
      <3> QED  BY <3>1, <3>2
    <2>2. CASE PlanRollback(j)
      <3> DEFINE targets == {v \in table : v > job[j].target}
      <3>1. CASE ~(targets \subseteq job[j].ms)
        <4>1. job'[j].pc = "done"
          <5>1. job' = [job EXCEPT ![j] = [@ EXCEPT !.pc = "done", !.result = "ErrMissingMigration"]]
            BY <2>2, <3>1 DEF PlanRollback, Finish
          <5> QED  BY <1>0, <5>1 DEF Job
        <4> QED  BY <4>1 DEF LoopState, Loop
      <3>2. CASE targets \subseteq job[j].ms
        <4>1. job'[j].pc = "next" /\ job'[j].todo = targets /\ ~job'[j].up
          <5>1. /\ job' = [job EXCEPT ![j] = [@ EXCEPT !.pc = "next", !.todo = targets]]
                /\ ~job[j].up
            BY <2>2, <3>2 DEF PlanRollback
          <5> HIDE DEF targets
          <5> QED  BY <1>0, <5>1 DEF Job
        <4>2. job[j].target \in Int
          BY <1>0, <2>2 DEF OInv, LoopState, PlanRollback
        <4>3. \A v \in targets : \A w \in table \ targets : w < v
          BY <1>0, <4>2
        <4> QED  BY <1>0, <4>1, <4>3 DEF LoopState
      <3> QED  BY <3>1, <3>2
    <2> QED  BY <2>1, <2>2
  <1> QED  BY <1>0, <1>1, <1>2, <1>3, SoloStep DEF InOrderStep

LEMMA TxSolo ==
    ASSUME IInv, OInv, NEW j \in Jobs,
           \/ BeginTx(j)
           \/ \E v \in job[j].todo : Body(j, v) \/ Record(j, v)
    PROVE  OInv' /\ InOrderStep
  <1>0. /\ job \in [Jobs -> Job] /\ job[j].pc \in {"next", "body", "record"}
        /\ table' = table /\ LoopState(j)
        /\ tx \in [owner : Jobs \cup {None}, table : SUBSET Versions, schema : SUBSET Versions]
    BY DEF IInv, TypeOK, OInv, BeginTx, Body, Record
  <1>1. job[j].pc \in Running
    BY <1>0 DEF Running
  <1>2. \E pc \in {"body", "record", "commit"} : job' = [job EXCEPT ![j].pc = pc]
    BY DEF BeginTx, Body, Record
  <1>3. /\ job'[j].up = job[j].up /\ job'[j].todo = job[j].todo
        /\ job'[j].pc \in {"body", "record", "commit"}
    BY <1>0, <1>2 DEF Job
  <1>a. \E r : job' = [job EXCEPT ![j] = r]
    BY <1>2
  <1>4. CASE BeginTx(j) \/ \E v \in job[j].todo : Body(j, v)
    <2>1. tx'.table = table /\ job'[j].pc \in {"body", "record"}
      BY <1>0, <1>4 DEF BeginTx, Body, LoopState, Job
    <2>2. LoopState(j)'
      BY <1>0, <1>3, <2>1 DEF LoopState, Loop
    <2> QED  BY <1>0, <1>1, <1>a, <2>2, SoloStep DEF InOrderStep
  <1>5. ASSUME NEW v \in job[j].todo, Record(j, v)  PROVE OInv' /\ InOrderStep
    <2>1. /\ Current(j, v) /\ tx.table = table
          /\ tx'.table = IF job[j].up THEN table \cup {v} ELSE table \ {v}
      BY <1>0, <1>5 DEF Record, LoopState
    <2>2. \A w \in job'[j].todo : Current(j, w)' => w = v
      BY <1>3, <2>1, CurrentUnique DEF IInv, Current
    <2>b. job'[j].pc = "commit"
      BY <1>0, <1>5 DEF Record, Job
    <2>3. LoopState(j)'
      BY <1>0, <1>3, <2>1, <2>2, <2>b DEF LoopState, Loop
    <2> QED  BY <1>0, <1>1, <1>a, <2>3, SoloStep DEF InOrderStep
  <1> QED  BY <1>4, <1>5

LEMMA CommitSolo ==
    ASSUME IInv, OInv, NEW j \in Jobs, NEW v \in job[j].todo, Commit(j, v)
    PROVE  OInv' /\ InOrderStep
  <1> DEFINE up == job[j].up
             todo == job[j].todo
  <1>0. /\ job \in [Jobs -> Job] /\ job[j].pc = "commit" /\ todo \subseteq Int
        /\ table \subseteq Int /\ LoopState(j) /\ up \in BOOLEAN
        /\ \A w \in todo : IF up THEN v <= w ELSE v >= w
    BY DEF IInv, TypeOK, OInv, Job, Commit, Current
  <1>1. /\ job[j].pc \in Running
        /\ \E r : job' = [job EXCEPT ![j] = r]
    BY <1>0 DEF Running, Commit, Finish
  <1>2. table' = IF up THEN table \cup {v} ELSE table \ {v}
    BY <1>0 DEF Commit, LoopState
  <1>3. IF up THEN \A x \in todo : \A w \in table : w < x
              ELSE \A x \in todo : \A w \in table \ todo : w < x
    BY <1>0 DEF LoopState, Loop
  <1>4. InOrderStep
    <2>1. CASE up
      BY <1>0, <1>2, <1>3, <2>1 DEF InOrderStep
    <2>2. CASE ~up
      <3>1. \A w \in table \ {v} : w < v
        BY <1>0, <1>3, <2>2
      <3> QED  BY <1>2, <2>2, <3>1 DEF InOrderStep
    <2> QED  BY <2>1, <2>2
  <1>5. IF up THEN \A x \in todo \ {v} : \A w \in table' : w < x
              ELSE \A x \in todo \ {v} : \A w \in table' \ (todo \ {v}) : w < x
    <2>1. CASE up
      BY <1>0, <1>2, <1>3, <2>1
    <2>2. CASE ~up
      BY <1>0, <1>2, <1>3, <2>2
    <2> QED  BY <2>1, <2>2
  <1>6. LoopState(j)'
    <2>1. CASE Finish(j, "error")
      <3>1. job'[j].pc = "done"
        BY <1>0, <2>1 DEF Finish, Job
      <3> QED  BY <3>1 DEF LoopState, Loop
    <2>2. CASE ~Finish(j, "error")
      <3> DEFINE rest == job[j].todo \ {v}
                 d == job[j].done \cup {v}
      <3>1. job' = [job EXCEPT ![j] = [@ EXCEPT !.pc = "next", !.todo = rest, !.done = d]]
        BY <2>2 DEF Commit
      <3>2. job'[j].pc = "next" /\ job'[j].todo = rest /\ job'[j].up = up
        <4> HIDE DEF rest, d
        <4> QED  BY <1>0, <3>1 DEF Job
      <3> QED  BY <1>5, <3>2 DEF LoopState
    <2> QED  BY <2>1, <2>2
  <1> QED  BY <1>1, <1>4, <1>6, SoloStep

(* While no two jobs have run at once. *)
HInv == ~overlap => OInv

(* Two jobs that run at once leave their mark: a job that begins without it *)
(* begins alone, and only a job that begins can leave it.                   *)
LEMMA BeginAlone ==
    ASSUME NEW j \in Jobs, NEW t, Begin(j, t), ~overlap'
    PROVE  Idle /\ ~overlap
  BY Zenon DEF Begin

LEMMA StepKeepsMark ==
    ASSUME NEW j \in Jobs, Step(j)
    PROVE  overlap' = overlap
  BY DEF Step, Direct, PlanRun, PlanRollback, PlanFails, LoopEnds, BeginTx, Body, Record,
         Commit, TxFails, Crash

LEMMA StepSolo ==
    ASSUME IInv, OInv, NEW j \in Jobs, Step(j)
    PROVE  OInv' /\ InOrderStep
  <1>1. CASE PlanFails(j) \/ LoopEnds(j) \/ TxFails(j) \/ Crash(j)
    BY <1>1, QuietSolo
  <1>2. CASE Direct(j)
    BY <1>2, DirectSolo
  <1>3. CASE PlanRun(j) \/ PlanRollback(j)
    BY <1>3, PlanSolo
  <1>4. CASE BeginTx(j) \/ \E v \in job[j].todo : Body(j, v) \/ Record(j, v)
    BY <1>4, TxSolo
  <1>5. CASE \E v \in job[j].todo : Commit(j, v)
    BY <1>5, CommitSolo
  <1> QED  BY <1>1, <1>2, <1>3, <1>4, <1>5 DEF Step

LEMMA NextSolo == IInv /\ HInv /\ [Next]_vars => HInv' /\ [~overlap => InOrderStep]_vars
  <1> SUFFICES ASSUME IInv, HInv, [Next]_vars
               PROVE  HInv' /\ [~overlap => InOrderStep]_vars
    OBVIOUS
  <1>1. CASE UNCHANGED vars
    BY <1>1 DEF HInv, OInv, Alone, LoopState, Current, vars
  <1>2. ASSUME NEW j \in Jobs, \E t \in Release[j] \cup {None} : Begin(j, t)
        PROVE  HInv' /\ (~overlap => InOrderStep)
    <2>1. PICK t \in Release[j] \cup {None} : Begin(j, t)
      BY <1>2
    <2>2. InOrderStep
      BY <2>1 DEF Begin, InOrderStep
    <2>3. CASE overlap'
      BY <2>2, <2>3 DEF HInv
    <2>4. CASE ~overlap'
      <3>1. Idle /\ ~overlap
        BY <2>1, <2>4, BeginAlone
      <3>2. OInv'
        BY <1>2, <3>1, QuietSolo DEF HInv
      <3> QED  BY <2>2, <3>2 DEF HInv
    <2> QED  BY <2>3, <2>4
  <1>3. ASSUME NEW j \in Jobs, Step(j)  PROVE HInv' /\ (~overlap => InOrderStep)
    <2>1. overlap' = overlap
      BY <1>3, StepKeepsMark
    <2>2. ~overlap => OInv' /\ InOrderStep
      BY <1>3, StepSolo DEF HInv
    <2> QED  BY <2>1, <2>2 DEF HInv
  <1> QED  BY <1>1, <1>2, <1>3 DEF Next

(* Jobs that do not overlap record versions in rising order and remove them *)
(* newest first, whatever releases they deploy and wherever they fail or    *)
(* crash (Run's order check, Rollback's reverse order).                     *)
THEOREM InOrder == Spec => AppliedInOrder
  <1>1. Init => HInv
    BY DEF Init, HInv, OInv, Alone, LoopState, Loop, Running
  <1>2. Spec => []IInv
    BY InitIInv, NextIInv, PTL DEF Spec
  <1>3. Spec => [][~overlap => InOrderStep]_vars
    BY <1>1, <1>2, NextSolo, PTL DEF Spec
  <1> QED  BY <1>3 DEF AppliedInOrder, InOrderStep

-----------------------------------------------------------------------------
(* What a job reports is what took effect.                                 *)

(* The report and the history of a job: equal until the job ends, and apart *)
(* by at most the version whose commit answered with an error.              *)
Reported(j) ==
    /\ job[j].done \subseteq committed[j]
    /\ job[j].pc # "done" \/ job[j].result = "ok" => job[j].done = committed[j]
    /\ \A v, w \in committed[j] \ job[j].done : v = w

RInv == \A j \in Jobs : Reported(j)

(* A step of job j that commits nothing: one record changes, not its report. *)
LEMMA QuietStep ==
    ASSUME IInv, NEW j \in Jobs,
           \/ \E t \in Release[j] \cup {None} : Begin(j, t)
           \/ Direct(j) \/ PlanRun(j) \/ PlanRollback(j) \/ PlanFails(j) \/ LoopEnds(j)
           \/ BeginTx(j) \/ TxFails(j) \/ Crash(j)
           \/ \E v \in job[j].todo : Body(j, v) \/ Record(j, v)
    PROVE  /\ committed' = committed /\ table' = table /\ job[j].pc # "done"
           /\ \E r : job' = [job EXCEPT ![j] = r] /\ r.done = job[j].done
  <1>0. job[j] \in Job /\ job \in [Jobs -> Job]
    BY DEF IInv, TypeOK
  <1>1. committed' = committed /\ table' = table /\ job[j].pc # "done"
    BY DEF Begin, Direct, PlanRun, PlanRollback, PlanFails, LoopEnds, BeginTx, TxFails,
           Crash, Body, Record, Running
  <1>2. \A x : Finish(j, x) => \E r : job' = [job EXCEPT ![j] = r] /\ r.done = job[j].done
    <2> SUFFICES ASSUME NEW x, Finish(j, x)
                 PROVE  \E r : job' = [job EXCEPT ![j] = r] /\ r.done = job[j].done
      OBVIOUS
    <2>1. [job[j] EXCEPT !.pc = "done", !.result = x].done = job[j].done
      BY <1>0 DEF Job
    <2> QED  BY <2>1 DEF Finish
  <1>3. \A p : job' = [job EXCEPT ![j].pc = p] =>
           \E r : job' = [job EXCEPT ![j] = r] /\ r.done = job[j].done
    <2> SUFFICES ASSUME NEW p, job' = [job EXCEPT ![j].pc = p]
                 PROVE  \E r : job' = [job EXCEPT ![j] = r] /\ r.done = job[j].done
      OBVIOUS
    <2>1. [job[j] EXCEPT !.pc = p].done = job[j].done
      BY <1>0 DEF Job
    <2> QED  BY <2>1
  <1>4. \A p, a, b : job' = [job EXCEPT ![j] = [@ EXCEPT !.pc = p, !.result = a, !.target = b]] =>
           \E r : job' = [job EXCEPT ![j] = r] /\ r.done = job[j].done
    <2> SUFFICES ASSUME NEW p, NEW a, NEW b,
                        job' = [job EXCEPT ![j] = [@ EXCEPT !.pc = p, !.result = a, !.target = b]]
                 PROVE  \E r : job' = [job EXCEPT ![j] = r] /\ r.done = job[j].done
      OBVIOUS
    <2>1. [job[j] EXCEPT !.pc = p, !.result = a, !.target = b].done = job[j].done
      BY <1>0 DEF Job
    <2> QED  BY <2>1
  <1>5. \A p, a, b : job' = [job EXCEPT ![j] = [@ EXCEPT !.pc = p, !.up = a, !.ms = b]] =>
           \E r : job' = [job EXCEPT ![j] = r] /\ r.done = job[j].done
    <2> SUFFICES ASSUME NEW p, NEW a, NEW b,
                        job' = [job EXCEPT ![j] = [@ EXCEPT !.pc = p, !.up = a, !.ms = b]]
                 PROVE  \E r : job' = [job EXCEPT ![j] = r] /\ r.done = job[j].done
      OBVIOUS
    <2>1. [job[j] EXCEPT !.pc = p, !.up = a, !.ms = b].done = job[j].done
      BY <1>0 DEF Job
    <2> QED  BY <2>1
  <1>6. \A p, a : job' = [job EXCEPT ![j] = [@ EXCEPT !.pc = p, !.todo = a]] =>
           \E r : job' = [job EXCEPT ![j] = r] /\ r.done = job[j].done
    <2> SUFFICES ASSUME NEW p, NEW a,
                        job' = [job EXCEPT ![j] = [@ EXCEPT !.pc = p, !.todo = a]]
                 PROVE  \E r : job' = [job EXCEPT ![j] = r] /\ r.done = job[j].done
      OBVIOUS
    <2>1. [job[j] EXCEPT !.pc = p, !.todo = a].done = job[j].done
      BY <1>0 DEF Job
    <2> QED  BY <2>1
  <1>a. CASE \E t \in Release[j] \cup {None} : Begin(j, t)
    BY <1>1, <1>4, <1>a DEF Begin
  <1>b. CASE Direct(j)
    <2> DEFINE t == job[j].target
               forward == t = None \/ t \notin table
               ms == IF t = None \/ ~forward THEN Release[j]
                     ELSE {v \in Release[j] : v <= t /\ v \notin table}
    <2>1. \/ Finish(j, "error")
          \/ job' = [job EXCEPT ![j] = [@ EXCEPT !.pc = "plan", !.up = forward, !.ms = ms]]
      BY <1>b DEF Direct
    <2> HIDE DEF forward, ms
    <2> QED  BY <1>1, <1>2, <1>5, <2>1
  <1>c. CASE PlanRun(j) \/ PlanRollback(j) \/ PlanFails(j) \/ LoopEnds(j)
    BY <1>1, <1>2, <1>6, <1>c DEF PlanRun, PlanRollback, PlanFails, LoopEnds
  <1>d. CASE BeginTx(j) \/ \E v \in job[j].todo : Body(j, v) \/ Record(j, v)
    BY <1>1, <1>3, <1>d DEF BeginTx, Body, Record
  <1>e. CASE TxFails(j) \/ Crash(j)
    BY <1>1, <1>2, <1>3, <1>e DEF TxFails, Crash
  <1> QED  BY <1>a, <1>b, <1>c, <1>d, <1>e

LEMMA QuietReported ==
    ASSUME IInv, RInv, NEW j \in Jobs, NEW r, job[j].pc # "done", committed' = committed,
           job' = [job EXCEPT ![j] = r], r.done = job[j].done
    PROVE  RInv'
  <1>1. job' \in [Jobs -> {job[k] : k \in Jobs} \cup {r}] /\ job'[j] = r
        /\ \A k \in Jobs : k # j => job'[k] = job[k]
    BY DEF IInv, TypeOK
  <1>2. job[j].done = committed[j]
    BY DEF RInv, Reported
  <1>3. Reported(j)'
    BY <1>1, <1>2 DEF Reported
  <1>4. \A k \in Jobs : k # j => Reported(k)'
    BY <1>1 DEF RInv, Reported
  <1> QED  BY <1>3, <1>4 DEF RInv

LEMMA CommitReported ==
    ASSUME IInv, RInv, NEW j \in Jobs, NEW v \in job[j].todo, Commit(j, v)
    PROVE  RInv'
  <1>0. /\ job[j] \in Job /\ job \in [Jobs -> Job]
        /\ committed \in [Jobs -> SUBSET Versions] /\ job[j].pc = "commit"
    BY DEF IInv, TypeOK, Commit
  <1>1. job[j].done = committed[j]
    BY <1>0 DEF RInv, Reported
  <1>2. /\ committed'[j] = committed[j] \cup {v}
        /\ \A k \in Jobs : k # j => committed'[k] = committed[k]
    BY <1>0 DEF Commit
  <1>3. \A k \in Jobs : k # j => job'[k] = job[k]
    BY <1>0 DEF Commit, Finish
  <1>4. Reported(j)'
    <2>1. CASE Finish(j, "error")
      <3>1. job'[j].pc = "done" /\ job'[j].result = "error" /\ job'[j].done = job[j].done
        BY <1>0, <2>1 DEF Finish, Job
      <3> QED  BY <1>1, <1>2, <3>1 DEF Reported
    <2>2. CASE ~Finish(j, "error")
      <3> DEFINE rest == job[j].todo \ {v}
                 d == job[j].done \cup {v}
      <3>1. job' = [job EXCEPT ![j] = [@ EXCEPT !.pc = "next", !.todo = rest, !.done = d]]
        BY <2>2 DEF Commit
      <3>2. job'[j].done = d
        <4> HIDE DEF rest, d
        <4> QED  BY <1>0, <3>1 DEF Job
      <3> QED  BY <1>1, <1>2, <3>2 DEF Reported
    <2> QED  BY <2>1, <2>2
  <1>5. \A k \in Jobs : k # j => Reported(k)'
    BY <1>2, <1>3 DEF RInv, Reported
  <1> QED  BY <1>4, <1>5 DEF RInv

LEMMA NextReported == IInv /\ RInv /\ [Next]_vars => RInv'
  <1> SUFFICES ASSUME IInv, RInv, [Next]_vars  PROVE RInv'
    OBVIOUS
  <1>1. CASE UNCHANGED vars
    BY <1>1 DEF RInv, Reported, vars
  <1>2. ASSUME NEW j \in Jobs, (\E t \in Release[j] \cup {None} : Begin(j, t)) \/ Step(j)
        PROVE  RInv'
    <2>1. CASE \E v \in job[j].todo : Commit(j, v)
      BY <2>1, CommitReported
    <2>2. CASE ~ \E v \in job[j].todo : Commit(j, v)
      <3>1. /\ committed' = committed /\ job[j].pc # "done"
            /\ \E r : job' = [job EXCEPT ![j] = r] /\ r.done = job[j].done
        BY <1>2, <2>2, QuietStep DEF Step
      <3> QED  BY <3>1, QuietReported
    <2> QED  BY <2>1, <2>2
  <1> QED  BY <1>1, <1>2 DEF Next

(* A job reports only what took effect, all of it when it succeeds, and     *)
(* leaves out at most one version when it fails, for any number of          *)
(* overlapping jobs (the partial results of Run and Rollback).              *)
THEOREM ReportsTrue == Spec => []ReportIsTrue
  <1>1. Init => RInv
    BY DEF Init, RInv, Reported
  <1>2. Spec => []IInv
    BY InitIInv, NextIInv, PTL DEF Spec
  <1>3. RInv => ReportIsTrue
    <2> SUFFICES ASSUME RInv, NEW j \in Jobs
                 PROVE  Cardinality(committed[j] \ job[j].done) <= 1
      BY DEF RInv, Reported, ReportIsTrue
    <2> DEFINE out == committed[j] \ job[j].done
    <2>1. \A v, w \in out : v = w
      BY DEF RInv, Reported
    <2>2. CASE out = {}
      <3>1. Cardinality(out) = 0
        BY <2>2, FS_EmptySet
      <3> QED  BY <3>1
    <2>3. CASE out # {}
      <3>1. PICK v : v \in out
        BY <2>3
      <3>2. out = {v}
        <4> HIDE DEF out
        <4> QED  BY <2>1, <3>1
      <3>3. Cardinality({v}) = 1
        BY FS_Singleton
      <3> HIDE DEF out
      <3>4. Cardinality(out) = 1
        BY <3>2, <3>3
      <3> QED  BY <3>4 DEF out
    <2> QED  BY <2>2, <2>3
  <1> QED  BY <1>1, <1>2, <1>3, NextReported, PTL DEF Spec

-----------------------------------------------------------------------------
(* A job that succeeds alone leaves the database where it was asked to.    *)

Wanted(j) == {v \in Release[j] : job[j].target = None \/ v <= job[j].target}

(* What the plan was computed from. *)
Planned(j) ==
    LET t == job[j].target
    IN /\ job[j].up <=> (t = None \/ t \notin table)
       /\ job[j].ms = IF t = None \/ ~job[j].up THEN Release[j]
                      ELSE {v \in Release[j] : v <= t /\ v \notin table}

(* The loop's outcome once what is left to do is done: going up, the rows   *)
(* and the versions to come hold all that is wanted and nothing above the   *)
(* target; going down, only versions to undo are above it.                  *)
Underway(j) ==
    LET t == job[j].target
    IN IF job[j].up
       THEN /\ Wanted(j) \subseteq table \cup job[j].todo
            /\ t # None => \A v \in table \cup job[j].todo : v <= t
       ELSE t # None /\ \A v \in table \ job[j].todo : v <= t

Reached(j) ==
    LET t == job[j].target
    IN /\ job[j].up => Wanted(j) \subseteq table
       /\ t # None => \A v \in table : v <= t

Asked(j) ==
    /\ job[j].target \in Release[j] \cup {None}
    /\ job[j].pc = "plan" => Planned(j)
    /\ job[j].pc \in Loop => Underway(j)
    /\ job[j].result = "ok" => job[j].pc = "done" /\ Reached(j)

OnlyLatest == \A k \in Jobs : job[k].pc \in Running => k = latest

LatestAsked == \A j \in Jobs : latest = j => Asked(j)

(* While no two jobs have run at once only the latest can be running. *)
AInv == /\ \A j \in Jobs : job[j].pc = "idle" => job[j].result = "none"
        /\ ~overlap => OnlyLatest /\ LatestAsked

(* A step of the one running job. *)
LEMMA LatestStep ==
    ASSUME IInv, OnlyLatest, NEW j \in Jobs, job[j].pc \in Running,
           NEW r, job' = [job EXCEPT ![j] = r], latest' = latest, Asked(j)'
    PROVE  OnlyLatest' /\ LatestAsked'
  <1>1. j = latest
    BY DEF OnlyLatest
  <1>2. \A k \in Jobs : k # j => job'[k] = job[k]
    BY DEF IInv, TypeOK
  <1>3. OnlyLatest'
    BY <1>1, <1>2 DEF OnlyLatest
  <1>4. LatestAsked'
    BY <1>1 DEF LatestAsked
  <1> QED  BY <1>3, <1>4

LEMMA BeginAsked ==
    ASSUME IInv, AInv, NEW j \in Jobs, NEW t \in Release[j] \cup {None}, Begin(j, t), Idle
    PROVE  OnlyLatest' /\ LatestAsked'
  <1>0. job[j] \in Job /\ job \in [Jobs -> Job] /\ job[j].result = "none" /\ job[j].pc = "idle"
    BY DEF IInv, TypeOK, AInv, Begin
  <1> DEFINE p == IF Release[j] = {} THEN "done" ELSE "direct"
             x == IF Release[j] = {} THEN "ok" ELSE "none"
  <1>1. job' = [job EXCEPT ![j] = [@ EXCEPT !.pc = p, !.result = x, !.target = t]]
    BY DEF Begin
  <1>2. job'[j].pc = p /\ job'[j].result = x /\ job'[j].target = t
    <2> HIDE DEF p, x
    <2> QED  BY <1>0, <1>1 DEF Job
  <1>3. latest' = j /\ \A k \in Jobs : k # j => job'[k] = job[k]
    BY <1>0 DEF Begin
  <1>4. OnlyLatest'
    BY <1>3 DEF OnlyLatest, Idle
  <1>5. Asked(j)'
    <2>1. CASE Release[j] = {}
      <3>1. t = None /\ p = "done"
        BY <2>1
      <3>2. Wanted(j)' = {}
        BY <2>1 DEF Wanted
      <3>3. Reached(j)'
        BY <1>2, <3>1, <3>2 DEF Reached
      <3> QED  BY <1>2, <3>1, <3>3 DEF Asked, Loop
    <2>2. CASE Release[j] # {}
      <3>1. p = "direct" /\ x = "none"
        BY <2>2
      <3> QED  BY <1>2, <3>1 DEF Asked, Loop
    <2> QED  BY <2>1, <2>2
  <1> QED  BY <1>3, <1>4, <1>5 DEF LatestAsked

(* A job that ends without success. *)
LEMMA EndsAsked ==
    ASSUME IInv, NEW j \in Jobs, Asked(j), NEW x, Finish(j, x),
           x \in {"ErrOutOfOrder", "ErrMissingMigration", "error"}
    PROVE  Asked(j)'
  <1>1. job'[j].pc = "done" /\ job'[j].result = x /\ job'[j].target = job[j].target
    BY DEF IInv, TypeOK, Job, Finish
  <1> QED  BY <1>1 DEF Asked, Loop

LEMMA DirectAsked ==
    ASSUME IInv, NEW j \in Jobs, Asked(j), Direct(j)
    PROVE  Asked(j)'
  <1>0. /\ job[j] \in Job /\ job \in [Jobs -> Job] /\ job[j].result # "ok"
        /\ table' = table
    BY DEF IInv, TypeOK, Asked, Direct
  <1> DEFINE t == job[j].target
             forward == t = None \/ t \notin table
             ms == IF t = None \/ ~forward THEN Release[j]
                   ELSE {v \in Release[j] : v <= t /\ v \notin table}
  <1>1. CASE Finish(j, "error")
    BY <1>1, EndsAsked
  <1>2. CASE job' = [job EXCEPT ![j] = [@ EXCEPT !.pc = "plan", !.up = forward, !.ms = ms]]
    <2>1. /\ job'[j].pc = "plan" /\ job'[j].up = forward /\ job'[j].ms = ms
          /\ job'[j].target = t /\ job'[j].result # "ok"
      <3> HIDE DEF forward, ms
      <3> QED  BY <1>0, <1>2 DEF Job
    <2>2. Planned(j)'
      BY <1>0, <2>1 DEF Planned
    <2> QED  BY <2>1, <2>2 DEF Asked, Loop
  <1> QED  BY <1>1, <1>2 DEF Direct

LEMMA NoneAbove ==
    ASSUME NEW T \in SUBSET Int, NEW t \in Int, \A w \in T : ~(t < w)
    PROVE  \A w \in T : w <= t
  OBVIOUS

LEMMA PlanAsked ==
    ASSUME IInv, NEW j \in Jobs, Asked(j), PlanRun(j) \/ PlanRollback(j) \/ PlanFails(j)
    PROVE  Asked(j)'
  <1> DEFINE t == job[j].target
  <1>0. /\ job[j] \in Job /\ job \in [Jobs -> Job] /\ job[j].result # "ok"
        /\ table' = table /\ Planned(j) /\ table \subseteq Int
        /\ Release[j] \subseteq Int /\ t \in Release[j] \cup {None} /\ job[j].up \in BOOLEAN
    BY DEF IInv, TypeOK, Job, Asked, PlanRun, PlanRollback, PlanFails
  <1>1. ASSUME NEW S, job' = [job EXCEPT ![j] = [@ EXCEPT !.pc = "next", !.todo = S]]
        PROVE  /\ job'[j].pc = "next" /\ job'[j].todo = S /\ job'[j].up = job[j].up
               /\ job'[j].target = t /\ job'[j].result # "ok"
    BY <1>0, <1>1 DEF Job
  <1>2. CASE PlanFails(j)
    BY <1>2, EndsAsked DEF PlanFails
  <1>3. CASE PlanRun(j)
    <2> DEFINE pending == job[j].ms \ table
    <2>1. CASE OutOfOrder(pending)
      BY <1>3, <2>1, EndsAsked DEF PlanRun
    <2>2. CASE ~OutOfOrder(pending)
      <3>0. /\ job' = [job EXCEPT ![j] = [@ EXCEPT !.pc = "next", !.todo = pending]]
            /\ job[j].up
        BY <1>3, <2>2 DEF PlanRun
      <3>1. /\ job'[j].pc = "next" /\ job'[j].todo = pending /\ job'[j].up
            /\ job'[j].target = t /\ job'[j].result # "ok"
        <4> HIDE DEF pending
        <4> QED  BY <1>1, <3>0
      <3>2. {v \in Release[j] : t = None \/ v <= t} \subseteq table \cup pending
        BY <1>0, <3>0 DEF Planned
      <3>3. ASSUME t # None  PROVE \A v \in table \cup pending : v <= t
        <4>1. t \in Int /\ t \in pending
          BY <1>0, <3>0, <3>3 DEF Planned
        <4>2. \A v \in pending : v <= t
          BY <1>0, <3>0, <3>3 DEF Planned
        <4>3. \A v \in table : v <= t
          <5>1. \A w \in table : ~(t < w)
            <6> HIDE DEF pending
            <6> QED  BY <2>2, <4>1 DEF OutOfOrder
          <5>2. table \in SUBSET Int /\ t \in Int
            BY <1>0, <4>1
          <5> HIDE DEF t
          <5> QED  BY <5>1, <5>2, NoneAbove
        <4> QED  BY <4>2, <4>3
      <3>4. Underway(j)'
        BY <1>0, <3>1, <3>2, <3>3 DEF Underway, Wanted
      <3> QED  BY <1>0, <3>1, <3>4 DEF Asked
    <2> QED  BY <2>1, <2>2
  <1>4. CASE PlanRollback(j)
    <2> DEFINE targets == {v \in table : v > t}
    <2>1. CASE ~(targets \subseteq job[j].ms)
      BY <1>4, <2>1, EndsAsked DEF PlanRollback
    <2>2. CASE targets \subseteq job[j].ms
      <3>0. /\ job' = [job EXCEPT ![j] = [@ EXCEPT !.pc = "next", !.todo = targets]]
            /\ ~job[j].up
        BY <1>4, <2>2 DEF PlanRollback
      <3>1. /\ job'[j].pc = "next" /\ job'[j].todo = targets /\ ~job'[j].up
            /\ job'[j].target = t /\ job'[j].result # "ok"
        <4> HIDE DEF targets
        <4> QED  BY <1>1, <3>0
      <3>2. t # None /\ t \in Int
        BY <1>0, <3>0 DEF Planned
      <3>3. \A v \in table \ targets : v <= t
        BY <1>0, <3>2
      <3>4. Underway(j)'
        BY <1>0, <3>1, <3>2, <3>3 DEF Underway
      <3> QED  BY <1>0, <3>1, <3>4 DEF Asked
    <2> QED  BY <2>1, <2>2
  <1> QED  BY <1>2, <1>3, <1>4

LEMMA LoopAsked ==
    ASSUME IInv, NEW j \in Jobs, Asked(j),
           \/ LoopEnds(j) \/ BeginTx(j) \/ TxFails(j) \/ Crash(j)
           \/ \E v \in job[j].todo : Body(j, v) \/ Record(j, v)
    PROVE  Asked(j)'
  <1>0. /\ job[j] \in Job /\ job \in [Jobs -> Job] /\ table' = table
        /\ job[j].result # "ok"
    BY DEF IInv, TypeOK, Asked, LoopEnds, BeginTx, TxFails, Crash, Body, Record, Running
  <1>1. CASE LoopEnds(j)
    <2>1. /\ job'[j].pc = "done" /\ job'[j].target = job[j].target
          /\ job'[j].up = job[j].up /\ job[j].todo = {}
      BY <1>0, <1>1 DEF LoopEnds, Finish, Job
    <2>2. Underway(j)
      BY <1>1 DEF Asked, LoopEnds, Loop
    <2>3. Reached(j)
      BY <2>1, <2>2 DEF Reached, Underway
    <2>4. Reached(j)'
      BY <1>0, <2>1, <2>3 DEF Reached, Wanted
    <2> QED  BY <2>1, <2>4 DEF Asked, Loop
  <1>2. CASE TxFails(j)
    BY <1>2, EndsAsked DEF TxFails
  <1>3. CASE Crash(j)
    <2>1. /\ job'[j].pc = "crashed" /\ job'[j].target = job[j].target
          /\ job'[j].result = job[j].result
      BY <1>0, <1>3 DEF Crash, Job
    <2> QED  BY <1>0, <2>1 DEF Asked, Loop
  <1>4. CASE BeginTx(j) \/ \E v \in job[j].todo : Body(j, v) \/ Record(j, v)
    <2>1. \E p \in {"body", "record", "commit"} : job' = [job EXCEPT ![j].pc = p]
      BY <1>4 DEF BeginTx, Body, Record
    <2>2. /\ job'[j].pc \in {"body", "record", "commit"}
          /\ job'[j].target = job[j].target /\ job'[j].result = job[j].result
          /\ job'[j].up = job[j].up /\ job'[j].todo = job[j].todo
      BY <1>0, <2>1 DEF Job
    <2>3. Underway(j)
      BY <1>4 DEF Asked, BeginTx, Body, Record, Loop
    <2>4. Underway(j)'
      BY <1>0, <2>2, <2>3 DEF Underway, Wanted
    <2> QED  BY <1>0, <2>2, <2>4 DEF Asked
  <1> QED  BY <1>1, <1>2, <1>3, <1>4

(* The transaction moves the current version from what is to come to the    *)
(* table, or out of both.                                                   *)
LEMMA CommitAsked ==
    ASSUME IInv, OInv, NEW j \in Jobs, Asked(j), NEW v \in job[j].todo, Commit(j, v)
    PROVE  Asked(j)'
  <1>0. /\ job[j] \in Job /\ job \in [Jobs -> Job] /\ job[j].pc = "commit"
        /\ job[j].result # "ok" /\ LoopState(j) /\ Current(j, v) /\ Underway(j)
    BY DEF IInv, TypeOK, OInv, Asked, Commit, Loop
  <1>1. table' = IF job[j].up THEN table \cup {v} ELSE table \ {v}
    BY <1>0 DEF Commit, LoopState
  <1>2. CASE Finish(j, "error")
    BY <1>2, EndsAsked
  <1>3. CASE ~Finish(j, "error")
    <2> DEFINE rest == job[j].todo \ {v}
               d == job[j].done \cup {v}
    <2>1. job' = [job EXCEPT ![j] = [@ EXCEPT !.pc = "next", !.todo = rest, !.done = d]]
      BY <1>3 DEF Commit
    <2>2. /\ job'[j].pc = "next" /\ job'[j].todo = rest /\ job'[j].up = job[j].up
          /\ job'[j].target = job[j].target /\ job'[j].result # "ok"
      <3> HIDE DEF rest, d
      <3> QED  BY <1>0, <2>1 DEF Job
    <2>3. /\ job[j].up => table' \cup rest = table \cup job[j].todo
          /\ ~job[j].up => table' \ rest \subseteq table \ job[j].todo
      BY <1>1
    <2> HIDE DEF rest
    <2>4. Underway(j)'
      <3>1. CASE job[j].up
        BY <1>0, <2>2, <2>3, <3>1 DEF Underway, Wanted
      <3>2. CASE ~job[j].up
        BY <1>0, <2>2, <2>3, <3>2 DEF Underway
      <3> QED  BY <3>1, <3>2
    <2> QED  BY <1>0, <2>2, <2>4 DEF Asked
  <1> QED  BY <1>2, <1>3

LEMMA StepAsked ==
    ASSUME IInv, OInv, OnlyLatest, LatestAsked, NEW j \in Jobs, Step(j)
    PROVE  OnlyLatest' /\ LatestAsked'
  <1>1. job[j].pc \in Running
    BY DEF Step, Direct, PlanRun, PlanRollback, PlanFails, LoopEnds, BeginTx, Body, Record,
           Commit, TxFails, Crash, Running
  <1>2. Asked(j)
    BY <1>1 DEF OnlyLatest, LatestAsked
  <1>3. Asked(j)'
    BY <1>2, DirectAsked, PlanAsked, LoopAsked, CommitAsked DEF Step
  <1>4. latest' = latest
    BY DEF Step, Direct, PlanRun, PlanRollback, PlanFails, LoopEnds, BeginTx, Body, Record,
           Commit, TxFails, Crash
  <1>5. \E r : job' = [job EXCEPT ![j] = r]
    <2>1. CASE \E v \in job[j].todo : Commit(j, v)
      BY <2>1 DEF Commit, Finish
    <2>2. CASE ~ \E v \in job[j].todo : Commit(j, v)
      BY <2>2, QuietStep DEF Step
    <2> QED  BY <2>1, <2>2
  <1> QED  BY <1>1, <1>3, <1>4, <1>5, LatestStep

LEMMA NextAsked == IInv /\ HInv /\ AInv /\ [Next]_vars => AInv'
  <1> SUFFICES ASSUME IInv, HInv, AInv, [Next]_vars  PROVE AInv'
    OBVIOUS
  <1>1. CASE UNCHANGED vars
    <2>1. /\ job' = job /\ table' = table /\ latest' = latest /\ overlap' = overlap
      BY <1>1 DEF vars
    <2> QED  BY <2>1 DEF AInv, OnlyLatest, LatestAsked, Asked, Planned, Underway, Reached, Wanted
  <1>2. ASSUME NEW j \in Jobs, (\E t \in Release[j] \cup {None} : Begin(j, t)) \/ Step(j)
        PROVE  AInv'
    <2>1. \A k \in Jobs : job'[k].pc = "idle" => job'[k].result = "none"
      <3>1. job \in [Jobs -> Job] /\ \E r : job' = [job EXCEPT ![j] = r]
        <4>1. CASE \E v \in job[j].todo : Commit(j, v)
          BY <4>1 DEF Commit, Finish, IInv, TypeOK
        <4>2. CASE ~ \E v \in job[j].todo : Commit(j, v)
          BY <1>2, <4>2, QuietStep DEF Step, IInv, TypeOK
        <4> QED  BY <4>1, <4>2
      <3>2. job'[j].pc # "idle"
        <4>0. job \in [Jobs -> Job] /\ job[j] \in Job
          BY <3>1
        <4>1. ASSUME NEW x, Finish(j, x)  PROVE job'[j].pc = "done"
          BY <4>0, <4>1 DEF Finish, Job
        <4>2. ASSUME NEW t \in Release[j] \cup {None}, Begin(j, t)  PROVE job'[j].pc # "idle"
          BY <4>0, <4>2 DEF Begin, Job
        <4>3. CASE Direct(j)
          <5> DEFINE t == job[j].target
                     forward == t = None \/ t \notin table
                     ms == IF t = None \/ ~forward THEN Release[j]
                           ELSE {v \in Release[j] : v <= t /\ v \notin table}
          <5>1. \/ Finish(j, "error")
                \/ job' = [job EXCEPT ![j] = [@ EXCEPT !.pc = "plan", !.up = forward, !.ms = ms]]
            BY <4>3 DEF Direct
          <5> HIDE DEF forward, ms
          <5>2. ASSUME job' = [job EXCEPT ![j] = [@ EXCEPT !.pc = "plan", !.up = forward, !.ms = ms]]
                PROVE  job'[j].pc = "plan"
            BY <4>0, <5>2 DEF Job
          <5> QED  BY <4>1, <5>1, <5>2
        <4>4. CASE PlanRun(j) \/ PlanRollback(j)
          <5>1. \/ \E x : Finish(j, x)
                \/ \E S : job' = [job EXCEPT ![j] = [@ EXCEPT !.pc = "next", !.todo = S]]
            BY <4>4 DEF PlanRun, PlanRollback
          <5>2. ASSUME NEW S, job' = [job EXCEPT ![j] = [@ EXCEPT !.pc = "next", !.todo = S]]
                PROVE  job'[j].pc = "next"
            BY <4>0, <5>2 DEF Job
          <5> QED  BY <4>1, <5>1, <5>2
        <4>5. CASE PlanFails(j) \/ LoopEnds(j) \/ TxFails(j)
          BY <4>1, <4>5 DEF PlanFails, LoopEnds, TxFails
        <4>6. CASE BeginTx(j) \/ Crash(j) \/ \E v \in job[j].todo : Body(j, v) \/ Record(j, v)
          BY <4>0, <4>6 DEF BeginTx, Crash, Body, Record, Job
        <4>7. ASSUME NEW v \in job[j].todo, Commit(j, v)  PROVE job'[j].pc # "idle"
          <5>1. \/ Finish(j, "error")
                \/ \E a, b : job' = [job EXCEPT ![j] = [@ EXCEPT !.pc = "next", !.todo = a, !.done = b]]
            BY <4>7 DEF Commit
          <5>2. ASSUME NEW a, NEW b,
                       job' = [job EXCEPT ![j] = [@ EXCEPT !.pc = "next", !.todo = a, !.done = b]]
                PROVE  job'[j].pc = "next"
            BY <4>0, <5>2 DEF Job
          <5> QED  BY <4>1, <5>1, <5>2
        <4> QED  BY <1>2, <4>2, <4>3, <4>4, <4>5, <4>6, <4>7 DEF Step
      <3>3. \A k \in Jobs : k # j => job'[k] = job[k]
        BY <3>1
      <3> QED  BY <3>2, <3>3 DEF AInv
    <2>2. ASSUME ~overlap'  PROVE OnlyLatest' /\ LatestAsked'
      <3>1. CASE Step(j)
        BY <2>2, <3>1, StepKeepsMark, StepAsked DEF HInv, AInv
      <3>2. CASE \E t \in Release[j] \cup {None} : Begin(j, t)
        BY <2>2, <3>2, BeginAlone, BeginAsked
      <3> QED  BY <1>2, <3>1, <3>2
    <2> QED  BY <2>1, <2>2 DEF AInv
  <1> QED  BY <1>1, <1>2 DEF Next

(* A job that reports success, if no two have run at once and none has      *)
(* begun since, leaves the table where the command line asked, for any      *)
(* releases and any history of failed and crashed jobs (runMigrate's choice *)
(* of direction, Run's order check, Rollback's targets).                    *)
THEOREM SuccessMeansDone == Spec => []ResultMatchesTable
  <1>1. Init => HInv /\ AInv
    <2>1. Init => HInv
      BY DEF Init, HInv, OInv, Alone, LoopState, Loop, Running
    <2>2. Init => AInv
      BY DEF Init, AInv, OnlyLatest, LatestAsked, Running
    <2> QED  BY <2>1, <2>2
  <1>2. Spec => []IInv
    BY InitIInv, NextIInv, PTL DEF Spec
  <1>3. AInv => ResultMatchesTable
    BY DEF AInv, LatestAsked, Asked, Reached, Wanted, ResultMatchesTable
  <1>4. IInv /\ HInv /\ [Next]_vars => HInv'
    BY NextSolo
  <1> QED  BY <1>1, <1>2, <1>3, <1>4, NextAsked, PTL DEF Spec
=============================================================================
