------------------------------ MODULE Migrate ------------------------------
(***************************************************************************)
(* The migrate command and the migration engine under it (migrate_cmd.go,  *)
(* migrate/migrate.go), run by several jobs against one database: the      *)
(* deploys of several releases, their crashes and their repetitions.       *)
(*                                                                         *)
(* A job reads the applied-state table twice, once to choose a direction   *)
(* and once in the engine, and then applies or reverts one migration per   *)
(* transaction.  A migration is its version: its body has one effect,      *)
(* which Up adds to the schema and Down takes away.  A valid set has       *)
(* versions of one width, whose lexicographic order is that of numbers.    *)
(* The database serialises writing transactions (SQLite's single writer)   *)
(* and drops an open one when its client dies.                             *)
(***************************************************************************)
EXTENDS Integers, FiniteSets

CONSTANTS Jobs,         \* runs of the migrate command
          Versions,     \* migration versions
          Release,      \* Release[j]: the versions declared by the release of job j
          None          \* no target, no job

ASSUME VersionsAssumption == Versions \subseteq Int /\ None \notin Versions \cup Jobs
ASSUME ReleaseAssumption == Release \in [Jobs -> SUBSET Versions]

VARIABLES table,        \* rows of fabrin_migrations
          schema,       \* migrations whose effect is in the schema
          tx,           \* the open transaction: its job and its working copy
          job,          \* the jobs
          committed,    \* versions whose transaction of job j took effect (history)
          latest,       \* the job that began last (history)
          overlap       \* two jobs have run at once (history)

vars == <<table, schema, tx, job, committed, latest, overlap>>

Running == {"direct", "plan", "next", "body", "record", "commit"}

Job == [pc : Running \cup {"idle", "done", "crashed"},
        target : Versions \cup {None}, up : BOOLEAN,
        ms : SUBSET Versions,       \* the set handed to Run
        todo : SUBSET Versions,     \* pending or undo, less what is done
        done : SUBSET Versions,     \* what the job will report
        result : {"none", "ok", "ErrOutOfOrder", "ErrMissingMigration", "error"}]

NoTx == [owner |-> None, table |-> {}, schema |-> {}]

(* Every row, job and transaction has its type, and only the job inside a   *)
(* transaction owns the open one.                                           *)
TypeOK ==
    /\ table \in SUBSET Versions
    /\ schema \in SUBSET Versions
    /\ tx \in [owner : Jobs \cup {None}, table : SUBSET Versions, schema : SUBSET Versions]
    /\ job \in [Jobs -> Job]
    /\ committed \in [Jobs -> SUBSET Versions]
    /\ latest \in Jobs \cup {None}
    /\ overlap \in BOOLEAN
    /\ \A j \in Jobs : tx.owner = j <=> job[j].pc \in {"body", "record", "commit"}

Init ==
    /\ table = {}
    /\ schema = {}
    /\ tx = NoTx
    /\ job = [j \in Jobs |-> [pc |-> "idle", target |-> None, up |-> FALSE, ms |-> {},
                              todo |-> {}, done |-> {}, result |-> "none"]]
    /\ committed = [j \in Jobs |-> {}]
    /\ latest = None
    /\ overlap = FALSE

(* No job is running. *)
Idle == \A j \in Jobs : job[j].pc \notin Running

Finish(j, result) == job' = [job EXCEPT ![j] = [@ EXCEPT !.pc = "done", !.result = result]]

-----------------------------------------------------------------------------
(* The command: runMigrate                                                 *)

(* A job starts with the -to flag unset or naming a declared version.  A    *)
(* sliced process, a missing database and an unknown target are refused     *)
(* before anything is read, and an empty set has nothing to do.             *)
Begin(j, target) ==
    /\ job[j].pc = "idle"
    /\ job' = [job EXCEPT ![j] =
                 [@ EXCEPT !.pc = IF Release[j] = {} THEN "done" ELSE "direct",
                           !.result = IF Release[j] = {} THEN "ok" ELSE "none",
                           !.target = target]]
    /\ latest' = j
    /\ overlap' = (overlap \/ ~Idle)
    /\ UNCHANGED <<table, schema, tx, committed>>

(* Mutant of Direct: a forward run takes the declared versions above the    *)
(* target too.                                                              *)
DirectPast(j) ==
    LET t == job[j].target
        forward == t = None \/ t \notin table
    IN /\ job[j].pc = "direct"
       /\ job' = [job EXCEPT ![j] = [@ EXCEPT !.pc = "plan", !.up = forward,
                                              !.ms = Release[j] \ table]]
       /\ UNCHANGED <<table, schema, tx, committed, latest, overlap>>

(* Ensure and readApplied choose the direction: forward with no target or   *)
(* one not applied, then with the unapplied versions up to it; else back.   *)
Direct(j) ==
    LET t == job[j].target
        forward == t = None \/ t \notin table
        ms == IF t = None \/ ~forward THEN Release[j]
              ELSE {v \in Release[j] : v <= t /\ v \notin table}
    IN /\ job[j].pc = "direct"
       /\ \/ job' = [job EXCEPT ![j] = [@ EXCEPT !.pc = "plan", !.up = forward, !.ms = ms]]
          \/ Finish(j, "error")
       /\ UNCHANGED <<table, schema, tx, committed, latest, overlap>>

-----------------------------------------------------------------------------
(* The engine: Run and Rollback                                            *)

(* Mutant of OutOfOrder: the check is dropped. *)
NeverOutOfOrder(pending) == FALSE

(* A pending version below the highest applied one. *)
OutOfOrder(pending) == \E v \in pending, w \in table : v < w

(* Run up to its loop: prepare, appliedVersions, the order check. *)
PlanRun(j) ==
    LET pending == job[j].ms \ table
    IN /\ job[j].pc = "plan"
       /\ job[j].up
       /\ IF OutOfOrder(pending)
          THEN Finish(j, "ErrOutOfOrder")
          ELSE job' = [job EXCEPT ![j] = [@ EXCEPT !.pc = "next", !.todo = pending]]
       /\ UNCHANGED <<table, schema, tx, committed, latest, overlap>>

(* Rollback up to its loop: every version to undo must be declared. *)
PlanRollback(j) ==
    LET targets == {v \in table : v > job[j].target}
    IN /\ job[j].pc = "plan"
       /\ ~job[j].up
       /\ IF targets \subseteq job[j].ms
          THEN job' = [job EXCEPT ![j] = [@ EXCEPT !.pc = "next", !.todo = targets]]
          ELSE Finish(j, "ErrMissingMigration")
       /\ UNCHANGED <<table, schema, tx, committed, latest, overlap>>

(* prepare refuses the set, or the table cannot be created or read. *)
PlanFails(j) ==
    /\ job[j].pc = "plan"
    /\ Finish(j, "error")
    /\ UNCHANGED <<table, schema, tx, committed, latest, overlap>>

(* Version v is next: oldest first going up, newest first going down.       *)
Current(j, v) ==
    /\ v \in job[j].todo
    /\ \A w \in job[j].todo : IF job[j].up THEN v <= w ELSE v >= w

LoopEnds(j) ==
    /\ job[j].pc = "next"
    /\ job[j].todo = {}
    /\ Finish(j, "ok")
    /\ UNCHANGED <<table, schema, tx, committed, latest, overlap>>

(* inTx: BeginTx waits for the writer before it. *)
BeginTx(j) ==
    /\ job[j].pc = "next"
    /\ job[j].todo # {}
    /\ tx.owner = None
    /\ tx' = [owner |-> j, table |-> table, schema |-> schema]
    /\ job' = [job EXCEPT ![j].pc = "body"]
    /\ UNCHANGED <<table, schema, committed, latest, overlap>>

(* m.Up or m.Down succeeds, on a schema that already has or lacks its       *)
(* effect too (IF NOT EXISTS, IF EXISTS).                                   *)
Body(j, v) ==
    /\ job[j].pc = "body"
    /\ Current(j, v)
    /\ tx' = [tx EXCEPT !.schema = IF job[j].up THEN @ \cup {v} ELSE @ \ {v}]
    /\ job' = [job EXCEPT ![j].pc = "record"]
    /\ UNCHANGED <<table, schema, committed, latest, overlap>>

(* Mutant of Record: the row is written with the database handle, outside   *)
(* the transaction.                                                         *)
RecordOutside(j, v) ==
    LET rows == IF job[j].up THEN table \cup {v} ELSE table \ {v}
    IN /\ job[j].pc = "record"
       /\ Current(j, v)
       /\ job[j].up => v \notin tx.table
       /\ table' = rows
       /\ tx' = [tx EXCEPT !.table = rows]
       /\ job' = [job EXCEPT ![j].pc = "commit"]
       /\ UNCHANGED <<schema, committed, latest, overlap>>

(* INSERT, which the primary key refuses for a recorded version, or DELETE, *)
(* which succeeds for a missing one.                                        *)
Record(j, v) ==
    /\ job[j].pc = "record"
    /\ Current(j, v)
    /\ job[j].up => v \notin tx.table
    /\ tx' = [tx EXCEPT !.table = IF job[j].up THEN @ \cup {v} ELSE @ \ {v}]
    /\ job' = [job EXCEPT ![j].pc = "commit"]
    /\ UNCHANGED <<table, schema, committed, latest, overlap>>

(* tx.Commit succeeds and the loop goes on, or it reports an error although *)
(* it took effect.                                                          *)
Commit(j, v) ==
    /\ job[j].pc = "commit"
    /\ Current(j, v)
    /\ table' = tx.table
    /\ schema' = tx.schema
    /\ tx' = NoTx
    /\ committed' = [committed EXCEPT ![j] = @ \cup {v}]
    /\ \/ job' = [job EXCEPT ![j] = [@ EXCEPT !.pc = "next",
                                              !.todo = job[j].todo \ {v},
                                              !.done = job[j].done \cup {v}]]
       \/ Finish(j, "error")
    /\ UNCHANGED <<latest, overlap>>

(* Mutant of TxFails: the failed migration is reported as done. *)
TxFailsReported(j) ==
    /\ \/ job[j].pc = "next" /\ job[j].todo # {} /\ UNCHANGED tx
       \/ job[j].pc \in {"body", "record", "commit"} /\ tx' = NoTx
    /\ \E v \in job[j].todo : job' = [job EXCEPT ![j] =
          [@ EXCEPT !.pc = "done", !.result = "error", !.done = @ \cup {v}]]
    /\ UNCHANGED <<table, schema, committed, latest, overlap>>

(* BeginTx, the body, the bookkeeping statement or Commit fails: the        *)
(* transaction is rolled back and the loop ends.                            *)
TxFails(j) ==
    /\ \/ job[j].pc = "next" /\ job[j].todo # {} /\ UNCHANGED tx
       \/ job[j].pc \in {"body", "record", "commit"} /\ tx' = NoTx
    /\ Finish(j, "error")
    /\ UNCHANGED <<table, schema, committed, latest, overlap>>

(* The process dies; the database drops its open transaction. *)
Crash(j) ==
    /\ job[j].pc \in Running
    /\ job' = [job EXCEPT ![j].pc = "crashed"]
    /\ tx' = IF tx.owner = j THEN NoTx ELSE tx
    /\ UNCHANGED <<table, schema, committed, latest, overlap>>

Step(j) ==
    \/ Direct(j)
    \/ PlanRun(j) \/ PlanRollback(j) \/ PlanFails(j)
    \/ LoopEnds(j)
    \/ BeginTx(j)
    \/ \E v \in job[j].todo : Body(j, v) \/ Record(j, v) \/ Commit(j, v)
    \/ TxFails(j)
    \/ Crash(j)

Next ==
    \E j \in Jobs : Step(j) \/ \E t \in Release[j] \cup {None} : Begin(j, t)

Spec == Init /\ [][Next]_vars

-----------------------------------------------------------------------------
(* Properties                                                              *)

(* A migration is recorded exactly when its effect is in the schema, though *)
(* bodies and statements fail, commits are ambiguous and jobs crash or      *)
(* overlap (one transaction for body and row, apply and revert).            *)
RecordedIsApplied == schema = table

(* A job reports only what took effect, everything when it succeeds, and    *)
(* when it fails leaves out at most the one migration whose commit it could *)
(* not see (the partial results of Run and Rollback).                       *)
ReportIsTrue ==
    \A j \in Jobs :
        /\ job[j].done \subseteq committed[j]
        /\ job[j].result = "ok" => job[j].done = committed[j]
        /\ Cardinality(committed[j] \ job[j].done) <= 1

(* When a job reports success, no two have run at once and no other has     *)
(* begun since, the database is where the command line asked: forward,      *)
(* every declared version up to the target is recorded and nothing beyond   *)
(* the target is; back, nothing newer than the target is left (runMigrate's *)
(* choice of direction, Run, Rollback).                                     *)
ResultMatchesTable ==
    \A j \in Jobs :
        LET t == job[j].target
        IN ~overlap /\ latest = j /\ job[j].result = "ok" =>
             /\ job[j].up => {v \in Release[j] : t = None \/ v <= t} \subseteq table
             /\ t # None => \A v \in table : v <= t

(* While no two jobs have run at once, versions are recorded in rising      *)
(* order and removed newest first, over any series of releases, targets,    *)
(* failures and crashes: none is applied late and none removed from under a *)
(* newer one (ErrOutOfOrder, Rollback's reverse order).                     *)
AppliedInOrder ==
    [][~overlap => /\ \A v \in table' \ table : \A w \in table : w < v
                   /\ \A v \in table \ table' : \A w \in table' : w < v]_vars
=============================================================================
