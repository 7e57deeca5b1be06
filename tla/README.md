# Fabrin: TLA+ models, model-checking runs and proofs

Fabrin is a Go web framework: an `App` built from modules, with migrations,
health checks, e-mail sign-in, configuration, logging and an administration
page. This directory holds TLA+ models of the parts where the order of steps
matters, the TLC runs that check them on small instances, and TLAPS proofs for
every size. `PROJECT.json` lists components, runs, the source lines of every
definition, hazards, findings and theorems.

## 1. Inventory

| Part | State it keeps | Operations | What is hard | What makes it correct |
|---|---|---|---|---|
| Sign-in over Redis and PostgreSQL (`auth`, `authredis`, `authpg`) | Redis hashes for challenges and sessions, active pointers, identity indexes, completion marks, budget sets; PostgreSQL identities and invitations | `Service.Request`, `Service.Verify`, session use and the three ways to revoke | a `Verify` spans two databases under a lease; lost replies, driver retries, late commands, crashes, expiry | one session per code, budgets, no ended session revived, identities only for proven addresses |
| In-memory sign-in (`auth/memory.go`) | the same as maps under one mutex, bounded by a capacity | the same | the time of a call is read before the lock; reclaiming at capacity | the same contract |
| Browser sign-in (`auth/browser.go`, `authhttp/browser.go`) | pre-authentication states, cookies | bootstrap, request code, verify code, logout, logout all | one handler calls the store several times; requests of one browser interleave, clients leave, replies are lost; compensation by logout | one session per pre-authentication state, nothing left of a failed sign-in, a logout that says so |
| Native sign-in (`authhttp/native.go`) | bearer credentials of the client | request code, verify code, logout, logout all | shares codes and sessions with the browser | the same |
| Mail capture (`mail`) | a bounded list | send, snapshot, drain | the bound | no message lost or seen twice |
| Migration engine and command (`migrate`, `migrate_cmd.go`) | the table `fabrin_migrations`, the schema | `Run`, `Rollback`, `-to` | failing bodies, ambiguous commits, crashes, overlapping jobs, diverging releases | body and row together, order, honest reports |
| Migration generation (`makemigrations.go`) | migration files, state files, manifests, `all.go` | replay, diff, ask for renames, render, write four files per module | a failure or death between two writes or inside one, several modules in one run, versions from several clocks, hand-written entries, old and newer state files | the recorded chain always builds its recorded schemas, in order, and nothing lost is taken for never written |
| Schema diff (`migratediff`), models (`orm`) | none; a JSON state file | diff, render, invert, load and save | order of operations, what each dialect refuses | the statements run and end in the declared schema; Down restores |
| `App` lifecycle (`app.go`, `module.go`) | `running`, `addr`, started modules, the HTTP server | `Run`, `Start`, `Stop`, signals | any step fails; two `Run` calls; cancellation against a dying server; a deadline with requests in flight | modules nest, nothing leaks, `nil` means drained, `Run` returns |
| Configuration (`config`), construction (`New`, `NewFromFactories`), commands (`execute.go`, `cli`) | resolved settings and their origin, the mounted modules, what was collected from them | resolve, select, build, collect, dispatch | combinations of layers, selections, constructors and what modules declare | comes up exactly when nothing is wrong, with what was asked for, and commands run where they were declared |
| Readiness (`health`) | registered checks, in-flight guards | `Register`, `Evaluate` | probes that hang, panic or answer late, overlapping calls | fail closed, one probe per check, every call answers |
| Logging, schema, routing, admin, scaffolding | none that outlives a call | format, validate, render | nothing concurrent | tested sequential code |

Settings decide what the `App` is built from (`Wiring`). Modules interact through it: `Run` starts modules, whose checks the
readiness registry probes and whose migrations the migrate command applies;
makemigrations writes the migrations that the migrate command applies; the
sign-in handlers call `auth.Service`, which calls a store and a mail sender.

## 2. Modules

| Module | Models | Checked by | Proved in |
|---|---|---|---|
| `LoginContract` | what any sign-in store promises (abstract) | refined by `AuthRedis`, `AuthMemory` | |
| `AuthRedis` | `auth.Service` over `authredis.Store` and `authpg.Store` | `MCAuthRedis`, `AuthRedis*.cfg` | `AuthRedisProofs` |
| `AuthMemory` | `auth.Service`, `SessionManager` and `PreAuthManager` over `auth.MemoryStore` | `MCAuthMemory`, `AuthMemory.cfg` | `AuthMemoryProofs` |
| `BrowserSignIn` | the handlers of `authhttp`, browser and native, over the store, the mailer and their clients | `MCBrowserSignIn`, `BrowserSignIn.cfg` | `BrowserSignInProofs` |
| `Migrate` | `runMigrate` over `migrate.Run` and `Rollback` | `MCMigrate`, `Migrate.cfg` | `MigrateProofs` |
| `SchemaDiff` | schemas (`orm`), `Diff` and the dialects (`migratediff`), inverses, as operators | through `MakeMigrations` | `MakeMigrationsProofs` |
| `MakeMigrations` | `runMakemigrations` over a working tree | `MCMakeMigrations`, `MakeMigrations*.cfg` | `MakeMigrationsProofs` |
| `Wiring` | `config.Load`, `New`, `NewFromFactories`, what `New` collects, `Execute` | `MCWiring`, `Wiring*.cfg` | `WiringProofs` |
| `AppRun` | `App.Run` over the registry's `start`, `stop`, `stopAll` | `MCAppRun`, `AppRunCalls.cfg` | `AppRunProofs` |
| `Health` | `health.Registry` | `MCHealth`, `HealthReport.cfg` | `HealthProofs` |

Definitions named like a model definition with a longer name, and commented
"Mutant of", are deliberate bugs: a property is kept only if such a bug breaks it.

### AuthRedis

Every Redis script is one atomic action and keeps its name (`VerifyScript`,
`CompleteScript`, `ReleaseScript`, `RejectScript`, ...). A `Verify` call is a
process with a control point: lease in Redis, resolve in PostgreSQL
(`ResolveCommits`, `ResolveRefuses`, `ResolveFails`), complete in Redis, one retry
of the completion, release or reject. A command sits in `net` until it is
answered; its caller may give up (`GiveUp`), the command then runs late; a lost
reply makes the driver run it again (`Reply`). Keys live through the millisecond
of their expiry (`ExpireKeys`, at `Tick`).

Abstractions. A call stands for its session ID, its lease and the identity ID it
proposes, all drawn afresh. Five comparisons (address, key, purpose, verifier,
binding) are one Boolean. One purpose is modelled: the active pointer is per
purpose and address. A refused reservation changes nothing, and a repeated one
is refused by the gap between sends. Budget entries that left the window are
dropped when time passes. The invalid-session branch cannot be reached through
`Service`. `RpcTimeout` and `CleanupTimeout` bound how long a call waits for its
completion; their sum is assumed not to exceed the challenge's lifetime, as the
driver's read timeout (seconds) and the cleanup deadline (2 s) against five
minutes justify, because a completion mark lives that long. The Redis clock is
assumed monotone.

A code that is replaced or invalidated after it was leased can still complete: the
sign-in counts as having happened at the lease, and the contract calls a code
open while it is active or leased.

### AuthMemory

Each method of the store is one step, since it holds the mutex throughout; it keeps
its name, and the manager methods above it (`Request`, `ServiceVerify`, `Current`,
`Bootstrap`, ...) read the clock first. A call can therefore reach the store up to
`Lag` after its stamp, with later stamps already there. Pruning, the capacity of
every map and the reclaiming of one dead entry, found in map order, are part of the
steps, also on the paths that end in a refusal. Calls that change nothing (failed
proofs, `AuthenticatePreAuth`, cancelled contexts) are not steps, and a `Verify` call
stands for the session ID it draws. The capacity is a variable that never changes,
so that one run has stores of several. `LagAssumption` (`Lag + SendGap <= Window`) says
that a call waits for the mutex less than an hour minus a minute.

Late stamps shape two statements. A stamp may already be pruned by a faster call
when a slower one counts its own window, so the budgets are exact for windows of
`Window - Lag`. A late use of a session moves `LastSeenAt` back, so a session
counts as ended once the oldest stamp still under way would be refused; such a
session never comes back.

### Migrate

A job of the migrate command reads the table for its direction (`Direct`), again
in the engine (`PlanRun`, `PlanRollback`), then runs a transaction per version
(`BeginTx`, `Body`, `Record`, `Commit`, `TxFails`). A migration is its version with
one effect on the schema. Valid sets have versions of one width, so their
lexicographic order is numeric. A sliced process, a missing database and an unknown
target are refused before anything is read and are not behaviours of the model.
The database is assumed to serialise writing transactions (SQLite's single
writer; on PostgreSQL the primary key and DDL locks serialise the cases that touch
one version). Output is left out. `committed`, `latest` and `overlap` are history
variables; `overlap` says that two jobs have been under way at once. Nothing in the
code keeps jobs apart, so the statements that only hold for jobs in turn
(`AppliedInOrder`, `ResultMatchesTable`) are made up to the first overlap, and the
others (`RecordedIsApplied`, `ReportIsTrue`) without condition.

### SchemaDiff and MakeMigrations

Names are numbers, since the code compares and sorts them and no more; a schema is a
function from tables to functions from columns to fields with all their flags.
`Diff` gives the operations with the ranks of the source; `PostgresRenders` and
`SQLiteRenders` say what each dialect refuses; `Invert` and `Reverses` give the
rollback. What a database does with a statement (`Exec`, `Runnable`) is external. A
change of type is written as `ALTER COLUMN ... TYPE` without `USING`; `Converts` says
for which types PostgreSQL accepts that, on an empty table too: between the numeric
ones, and from any to a string.

A run of makemigrations replays the manifests and state files (`Start`), resolves
renames, and for each module renders (`Render`) and writes the migration, its state,
the manifest and `all.go`, one action each; `Fail` stands for a failed write or a
death before any of them or, since `os.WriteFile` truncates first, in the middle of
one (`Tear`). A Go file cut short does not compile until someone repairs it
(a migration is not in a manifest yet); a state file cut short has no readable format; a manifest cut short (`torn`) has lost its entries and does not
parse, which stops every later run (`ReplayFails`). The chain of migrations is then
not on disk, so the statements about it are made for trees without such a manifest;
`ManifestsKeepEntries` says that none is ever written over. Restoring the file from
version control leads to the tree of a failure before the write. Between runs the models are edited, hand-written migrations
appear, a newer release leaves a state file behind, and, in `RetireSpec`, a module
leaves `main`. A project starts empty or with a migration of the format before
ADR 0006. Nobody edits while a run is under way, and branches are merged as lists
of entries, by `HandWrite` alone. The answers to the rename questions are any set of
candidate pairs that share no column (`Accepted`), which is what asking one after
the other, and never again about a renamed column, can yield.

The constants are any modules, declarations that pass the validation of `orm`,
clocks and dialects. `TopIsFarOff` says that the clocks stay at least as many seconds
before the end of the year 9999 as the project, with a last run of every module, can
hold migrations: `nextVersion` refuses past it, `bumpVersion` does not.

### BrowserSignIn

A request is a slot that takes one step per call of the store or the mailer, with
the cookies and tokens its client held when it arrived. The store's calls are
atomic here; `AuthRedis` and `AuthMemory` look inside them. A fault (`MaxFaults`) is a client
that goes away, an answer or reply lost, a store out of reach, or the death of the
process; a script whose reply was lost may have run, and may run again. `handed`,
`sent` and `excused` are history: the last holds codes and sessions that a fault put
out of the handler's reach, which no handler could clean up. Of time only the
expiry of pre-authentication states is kept. `Current` and `RequireAuth` read only.

### Wiring

One behaviour is one process. The initial state chooses the layers of settings, the
registered modules with what they declare and what their factories do, and the
constructor; the steps are the turns of the loops of `Resolve`,
`buildSelectedModules` and the collecting functions, each with its early return.
`FABRIN_MODULES` and `FABRIN_LOG_LEVEL` stand for lists and for values that `Load`
must parse, `FABRIN_TRUSTED_PROXIES` for itself: `Load` only splits it, and Gin parses it
in `New` (`TrustProxies`), after `NewFromFactories` has run the factories. So
`BuildsOnlyWanted` is about the settings `Load` parses (`LoadSound`), and
`StartsAsAsked` about all of them. A command line is its first argument and what
follows it: fine, a request for help, or flags that do not parse. The properties compare the outcome with a definition over the inputs alone
(`Asked`, `LoadSound`, `ProxiesSound`, `CatalogueSound`, `MountedSound`). Where the code appends
what it keeps of a list, the model takes the positions it keeps in their order
(`Pick`), which the prover can reason about.

### AppRun

A `Run` call claims the `App`, starts the `N` modules that have a `Lifecycle`,
listens, serves, and stops. `live[m]` counts successful starts less stops.
`net/http` is modelled from its use: `Shutdown` closes the listener, ends
keep-alives, and returns when no handler runs or its deadline comes; a server
whose `Serve` failed still answers on connections kept alive. Connections a
handler has hijacked are outside the model, as `Shutdown` does not wait for them.
`App.Start` and `App.Stop` called by an embedding program are not mixed with `Run`.

### Health

`Evaluate` is a launch loop, a collecting loop and a report; the goroutine of a
probe clears the guard and publishes in two steps, as in the code. Iterations over
different checks commute, so their order is left open. Sorting is left out.

## 3. Runs

| Run | Instance | Shows |
|---|---|---|
| `redis_lease` | 2 calls, 1 code, invitations, clock to 3 | one session per code, truthful answers, identities only with proof, contract implemented |
| `redis_sessions` | 2 codes of one address, right and wrong guesses, 2 sessions of one identity, clock to 5 | the index used to revoke misses no session; one active code; rolling budgets, gap, attempts |
| `redis_disable` | 1 call, an identity being disabled | finding: a usable session of a disabled identity |
| `memory_store` | 2 codes, 2 calls, 2 pre-authentications, 2 addresses, capacity 1 or 2, lag 1, clock to 3 | capacities, only dead entries reclaimed, the active map exact, budgets and gap, contract implemented |
| `browser_signin` | 2 requests at a time, 2 pre-authentication states, 2 codes, 2 sessions, 1 address, 1 fault | one session per pre-authentication state; nothing left of a failed sign-in; 204 means ended; no open code whose mail was refused |
| `migrate_jobs` | 3 jobs of diverging releases, in turn or overlapping, 3 versions | recorded exactly when applied; reports; success means the state asked for; order |
| `generate` | 2 modules, 2 tables of up to 2 columns with every flag, both dialects, 2 edits, 4 entries, 1 failure, before or inside a write | the chain builds, undoes and replays; versions ascend; manifests keep entries, and one cut short is not written over |
| `generate_retired` | 2 modules, one leaves `main`, 3 edits | finding: a manifest rewritten without its hand-written entry |
| `wiring` | every stack of up to 2 layers, every catalogue of up to 3 modules with at most one mistake, both constructors, command lines with good, bad and help flags | comes up exactly when asked rightly, as asked; factories; dispatch |
| `wiring_sliced` | the same | finding: a process of part of the modules migrates |
| `run_calls` | 3 `Run` calls, 3 modules, 2 requests each | nesting, no leak, drained if clean, a cancelled `Run` returns |
| `health_report` | 2 calls, 2 checks | fails closed, one probe at a time, honest "still running", every call answers, guards come free |

Bounds. Two calls are enough for a lapsed lease and its late commands; three jobs
for two interleaved ones and a later one that reads what they left; three `Run`
calls for a refused one and a later one.
Two edits with a run and a failed run between them reach a chain of migrations
that starts from a half-written one; tables of two columns let a key move, a column
come, go, be renamed, retyped, indexed and made unique. Two requests at a time are
enough for every pair of handlers to race on one state, and one fault for every
single failure. Two layers are enough for a key to be overridden or left alone, three
modules for a selection that reorders and leaves one out.
Clock bounds exceed the lifetimes they are meant to cross. `redis_sessions` uses a
sub-specification of `Spec` (`SessionSpec`) that leaves out actions its question
does not need; `redis_lease` uses all of them. `memory_store` likewise (`SmallSpec`)
creates pre-authentication states at capacity one only.
`memory_store` has stores of capacity one, where every second entry meets a full map,
and of capacity two, where two codes of an address are stored and the second must
replace the first (the mutant `PreviousNever` needs this), and a
window longer than the lag so that pruning and late stamps meet. Symmetry is used
for safety only. Deadlock checking is off since all these systems may come to rest.

Fairness. `AppRun.FairSpec`: `Run` is scheduled, modules return from `Start` and
`Stop`, the shutdown deadline comes; handlers need not return. `Health.FairSpec`: calls and goroutines are scheduled and the deadline
comes; probes need not return.

### Findings

- `redis_disable`: `completeScript` looks at nothing a revocation leaves behind, so
  a sign-in between its PostgreSQL check and its completion survives the documented
  revoke-then-disable sequence.
- `generate_retired`: manifests are loaded for registered modules only, but the owner
  of a dropped table may have left `main`; its manifest and `all.go` are then
  rewritten with the new entry alone.
- `wiring_sliced`: `NewFromFactories` hands `New` only what was selected, so
  `newRegistry` takes a subset for the whole and the migration commands do not
  refuse, which they say they do.

Met while modelling, and left out of the statements rather than run:

- `app.go:492` says no handler still uses what a module owns when it stops. After a
  shutdown deadline one may; `Run` reports the timeout (`CleanMeansDrained`).
- `migrate.go:142`: with a rollback overlapping a run, a version can be applied above
  one that is not; the order is checked once, before the loop.
- On SQLite the Down of an added, indexed column is a plain `DROP COLUMN`, which
  SQLite refuses while the index stands (the exception in `DownRestores`).
- PostgreSQL refuses `ALTER COLUMN ... TYPE` without `USING`
  (`migratediff/dialect_postgres.go:150`) for a change from string to int, for example,
  on an empty table too: such a migration, or the Down of the opposite one, does not
  run (the exceptions `NoWayOn` in `ChainBuilds`, `NoWayBack` in `DownRestores`).
- `makemigrations.go:793` writes `manifest.json` in place. A death inside the write
  loses the entries it held; the next run refuses to parse it, rather than start anew.
- `config.go:415` says every parse failure is reported at load. A wrong
  `FABRIN_TRUSTED_PROXIES` is rejected by `New` (`app.go:154`), after the factories have
  run and opened what they open.
- makemigrations regenerates `all.go` only for a module that gets a migration: a
  hand-written entry is listed there after the next generated one.
- A second module of one run at the last second of year 9999 gets a version of 15
  digits, which sorts first (`TopIsFarOff` excludes it).
- A module's command named `help` is accepted and cannot be dispatched
  (`Dispatch` asks for help first); `RunsTheOwner` says so.

## 4. Proofs

| Theorem | Statement | Inductive invariant |
|---|---|---|
| `AuthRedisProofs!TypeCorrect` | `Spec => []TypeOK` | `TInv`: types, and a call with a command in flight has begun and has a code and a source, without which the scripts' keys are undefined |
| `AuthRedisProofs!RedeemedOnce` | `Spec => []AtMostOneSession` | `OneGrant`: a code in Redis was requested, and a call that created a session has begun on a code that is gone for good; the second completion therefore finds no lease |
| `AuthRedisProofs!ResendReplaces`, `GuessesBounded` | `OneActiveChallenge`, `AttemptsBounded` always hold | `ChallengesSound`: the pointer of an address names every active challenge of it and outlives it, so a resend finds what it must deactivate; a lease is held by calls that presented that code |
| `AuthRedisProofs!RevocationReaches` | `Spec => []IndexCoversSessions` | `SessionsIndexed`: a stored session is a member of its identity's index, and the index expires no earlier than the session |
| `AuthRedisProofs!ProvenAddresses` | `Spec => []IdentityNeedsProof` | `CallsShown` (a call past the lease has presented the code) and `Identified` (identities, sessions and used invitations against the calls that made them) |
| `AuthRedisProofs!AnswersTrue` | `Spec => []AnswerMatchesSession` | `CallsTruthful`: the times of a call's completion are in order (`Ordered`), the completion mark is there as long as a retry can ask for it (`Marked`), and what each control point knows of the outcome (`Answered`); uses `RpcTimeout + CleanupTimeout <= ChallengeTTL` |
| `AuthRedisProofs!BudgetsAlwaysHold` | `Spec => []BudgetsHold` | `Charged`: entries within the window are within the limit and apart by the gap; a duplicate of a command charges the same member again |
| `AuthRedisProofs!RedisImplements` | `Spec => ImplementsContract` | the above; every step maps to one of `LoginContract` or to a stutter (`RefinesNext`): expiry to codes and sessions that lapse (`LapseStep`), the reservation to an issue (`ReserveRefines`), the completion to a redemption (`StoreRefines`) |
| `AuthMemoryProofs!ActiveMapExact` | `Spec => []ActiveIsNamed` | `NInv`: the equivalence per entry, in both directions: a stored active challenge is the one its address names (`Flagged`), and every name in the map is of a stored, active challenge of that address (`Named`), without which a resend would not deactivate what it replaces |
| `AuthMemoryProofs!MemoryRedeemsOnce` | `Spec => []AtMostOneSession` | `GInv`: the code of a call with a session was issued and is inactive for good (`Spending`), so no later call finds it redeemable |
| `AuthMemoryProofs!MemoryTypes` | `Spec => []TypeOK` | `MInv` (with the parts below) |
| `AuthMemoryProofs!CapacityHeld`, `OnlyDeadReclaimed` | `WithinCapacity` always, `ReclaimsOnlyDead` of every step | `Fits`: each map is finite and within the capacity; `MakeRoom`: a deletion comes first, of one entry that is dead at the oldest stamp under way |
| `AuthMemoryProofs!BudgetsKept`, `GapKept` | `BudgetsHold`, `SendsKeepGap` always hold | `Ledger`: for every bound not before the present window, a list has at least as many stamps past the bound as events were charged past it, although prefixes of unsorted lists are pruned; `Spaced`: the last send recorded for an address is the latest |
| `AuthMemoryProofs!MemoryImplements` | `Spec => ImplementsContract` | `NInv` and `GInv`; steps map to issues, redemptions and lapses of `LoginContract` |
| `MigrateProofs!BodyWithRow` | `Spec => []RecordedIsApplied` | `IInv`: the open transaction's copies of table and schema agree, except between body and row, where they differ by the current version |
| `MigrateProofs!InOrder` | `Spec => AppliedInOrder` | `HInv`: unless jobs have overlapped, at most one is under way, and what it still has to do lies above (or is the top of) the table |
| `MigrateProofs!ReportsTrue` | `Spec => []ReportIsTrue` | `RInv`: until a job ends its report equals what it committed; after a failed commit they differ by at most one version |
| `MigrateProofs!SuccessMeansDone` | `Spec => []ResultMatchesTable` | `AInv`: unless jobs have overlapped only the latest is under way; its plan was made from the table as it is (`Planned`), and table and remaining versions together are what was asked for (`Underway`). That nothing recorded lies above the target follows from the order check, as the target itself is pending |
| `AppRunProofs!Nested`, `Unwound`, `DrainedIfClean` | `LiveModulesNest`, `NothingLeaks`, `CleanMeansDrained` always hold | `Turn` (one call under way, and how many modules are live at each point of it) and `Shape` (server, handlers and errors against the control point) |
| `HealthProofs!ProbedOnce`, `FailsClosed`, `BusyProved` | `OneProbeInFlight`, `ReportIsEarned`, `BusyIsTrue` | `Guarded` (a guard is taken exactly while one probe is in flight) and `Ledger` (each result against the life of the probe behind it) |
| `BrowserSignInProofs!OncePerPreAuth`, `FailureCleansUp` | `OneSessionPerPreAuth`, `FailedSignInLeavesNothing` always hold | `BInv`: a session that was created was granted for an issued code, and a state against which one was handed out is gone (`StoreOK`); what a request says of its session at each point (`RequestOK`), which lasts because nothing in the store goes back (`Onward`) |
| `BrowserSignInProofs!LogoutKeepsItsWord`, `NoUnsentCode` | `LogoutEnds`, `OpenCodeWasSent` always hold | `QInv`, over `BInv`: what a logout set out to end is its session, or belongs to its session's identity, until it is answered (`LeaveOK`); only a request for a code reserves one and answers for it until it is sent or taken back (`AskOK`) |
| `WiringProofs!ComesUpAsAsked`, `FactoriesInOrder`, `DispatchesToOwner` | `StartsAsAsked`, `BuildsOnlyWanted`, `RunsTheOwner` always hold | `WInv`, phase by phase: the layer that won each key so far (`ResolvedTo`), the factories run as a prefix of those wanted (`Begun`, `BuildPhase`), and what the modules asked so far have claimed, with its owner (`OwnerInv`); every failure is traced to a mistake in what the process was given |

| `MakeMigrationsProofs!InvIsInvariant` | `Spec => []TreeInv` | `Inv`, below, while no manifest is cut short; afterwards no run is under way or ends well (`Broken`) |
| `MakeMigrationsProofs!ChainAlwaysBuilds`, `DownAlwaysRestores` | `ChainBuilds`, `DownRestores` always hold | `Sound`: the generated entries have distinct versions, each with its files; the k-th takes the schema recorded before it to the one recorded beside it and its Down goes back, unless the database refuses. `Blends`: the schema on the books is the blend described below, from which the next migration was planned |
| `MakeMigrationsProofs!ReplayAlwaysCurrent` | `Spec => []ReplayIsCurrent` | `Blends` with no module left to do is the declared schema (`BlendNone`); between runs `Current` |
| `MakeMigrationsProofs!VersionsAlwaysAscend` | `Spec => VersionsAscend` | `Counts`: the version at hand is above every one on the books, and within as many steps of some clock as there are entries, hence short of `Top` |
| `MakeMigrationsProofs!ManifestsAlwaysKeepEntries` | `Spec => ManifestsKeepEntries` | `Runs`: what a run has loaded is what is on disk, until it ends; `Broken`: with a manifest cut short, no run comes to write |

The three of `WiringProofs` use that the rank of a position among those kept is an injection
between sets of one size, hence takes every value (`RanksAreTaken`); no induction is
needed. Their assumptions say that stacks, catalogues and lists are sequences and
that `None` is no name a module can declare.

`MakeMigrationsProofs` goes from operators to the specification in three layers.

1. Induction over data. A claim about every length is the set of naturals where it
   holds, which contains zero and every successor (`AllNaturals`, from the least
   element of a set of naturals). It gives what `ExecAll`, `Sorted` and `FlattenSeq`
   compute: a concatenation runs as its parts do, one after the other; `Sorted` is
   the rising enumeration of a finite set of numbers.
2. Operations. `Planned` says what the operations of one module are: those of
   `Diff` that concern its tables, in rank order, with accepted renames in place of a
   drop and an addition. Each runs in the schema the ones before it leave, for both
   dialects, unless it changes a type PostgreSQL does not convert; together they take the module's tables from recorded to declared and
   leave the others alone (`PlannedBuilds`). Each reversed inverse undoes its
   operation (`PlannedReverts`), but for the `DROP COLUMN` SQLite refuses and the
   conversions PostgreSQL does.
3. Books. `Blend` is the schema that has the declared tables for the modules a run
   has finished and the recorded ones for those to come. `ChainBuilds` alone is not
   inductive: that the next manifest entry extends the chain needs the blend, the
   files already written (`Writes`), the plan of the run and that its version sorts
   last. `Inv` joins these, and each action keeps it; a failed write or a death
   (`EndInv`) forgets the run and spoils at most files no manifest lists yet, or the
   manifest itself, after which `TreeInv` asks no more than `Broken`.

`Inv` was checked by TLC on the instance of `generate` (all of it but the renames
behind `Plans`, which TLC cannot enumerate) before it was proved.

All hold for any number of calls, codes, jobs, modules, checks, layers, tables,
columns and any limits allowed by the named assumptions, and the strengthened
invariants were checked by TLC on the runs' instances before they were proved. Every
invariant and every action property of a passing run is proved. Only model-checked
are `RunReturns`, `EvaluateReturns` and `GuardComesFree`: liveness under fairness,
which the prover does not reason about.

## 5. Not modelled

Not modelled: text (SQL, templates, logging, parsing of values, flags and dotenv
files); `WithDefaults`; reading handlers (`Current`, `RequireAuth`); the inbox of
`mail.Capture` beyond what its caller sees; the administration pages, whose steps
are one read or write of the application's own storage behind a guard; schema
metadata and routing helpers, which keep no state; scaffolding, which writes
templates once; the repository's tools and examples.
