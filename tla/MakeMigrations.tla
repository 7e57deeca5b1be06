--------------------------- MODULE MakeMigrations ---------------------------
(***************************************************************************)
(* The makemigrations command over a project's working tree.               *)
(*                                                                         *)
(* A developer edits the models, adds a hand-written migration, takes a    *)
(* module out of main, or receives a state file a newer release wrote; in  *)
(* between, makemigrations replays the recorded chain, diffs it against    *)
(* the declared models and writes, module by module, four files: the       *)
(* migration, the state it yields, the manifest and all.go.  Any write may *)
(* fail and the process may die at any point; a file being written is then *)
(* whole or cut short.  A run reads the tree once, at its start: nobody    *)
(* edits while it runs.                                                    *)
(*                                                                         *)
(* A version is a number (a 14-digit UTC second); Top is the last one a    *)
(* year of four digits can write, and what follows it sorts below all.     *)
(***************************************************************************)
EXTENDS SchemaDiff

CONSTANTS Modules,        \* module names, in the order they sort
          Declarations,   \* the snapshots the developer may declare
          Dialects,       \* dialects the project's driver may select
          Clocks,         \* what the machine's clock may read at a run
          Top,            \* the last version of 14 digits
          MaxEdits,       \* how often the models are edited
          MaxEntries,     \* how many migrations the project may hold
          MaxFaults       \* failed writes and deaths

ASSUME ModulesAreOrdered == Modules \subseteq Nat /\ IsFiniteSet(Modules) /\ 1 \in Modules
ASSUME VersionsAreNumbers == Clocks \subseteq Nat /\ Top \in Nat /\ MaxEntries \in Nat

(* No clock, and no version a hand-written migration takes, comes so close  *)
(* to the end of the year 9999 that the project's own versions pass it:     *)
(* bumpVersion does not look, and what it then writes sorts first.          *)
ASSUME TopIsFarOff ==
    \A c \in Clocks \cup {1} : c + MaxEntries + Cardinality(Modules) =< Top

(* Tables and columns are numbers, finitely many; modules own the tables.   *)
ASSUME DeclarationsAreValid ==
    \A d \in Declarations :
        /\ ValidSnapshot(d)
        /\ DOMAIN d \subseteq Nat /\ IsFiniteSet(DOMAIN d)
        /\ \A t \in DOMAIN d :
             /\ d[t].module \in Modules
             /\ d[t].fields \in [DOMAIN d[t].fields -> Field]
             /\ DOMAIN d[t].fields \subseteq Nat /\ IsFiniteSet(DOMAIN d[t].fields)

VARIABLES dialect,     \* the dialect of the configured driver
          registered,  \* the modules registered in main
          declared,    \* a.Models(): the snapshot of the registered modules
          manifest,    \* manifest[m]: manifest.json, a sequence of entries
          torn,        \* the modules whose manifest.json is cut short
          allGo,       \* allGo[m]: the entries all.go lists
          files,       \* the migration files: base -> [up, down]
          states,      \* the state files: base -> [v, models]
          run,         \* the run of makemigrations, see Idle
          edits, faults

vars == <<dialect, registered, declared, manifest, torn, allGo, files, states, run, edits, faults>>
tree == <<manifest, torn, allGo, files, states>>

(* An entry names its files by version and slug; a hand-written one has no  *)
(* state file.                                                             *)
Entry(v, slug, state) == [version |-> v, slug |-> slug, state |-> state]
Base(m, e) == <<m, e.version, e.slug>>

Idle(out) == [pc |-> "idle", out |-> out]

(* A function with one more argument, or one changed. *)
Put(f, x, y) == [z \in DOMAIN f \cup {x} |-> IF z = x THEN y ELSE f[z]]

Entries(man) == UNION {ToSet(man[m]) : m \in DOMAIN man}
Listed == UNION {{<<m, e>> : e \in ToSet(manifest[m])} : m \in Modules}

(***************************************************************************)
(* A project starts empty, or with a migration from before ADR 0006: its   *)
(* SQL made every column but the key nullable, and its state file, of      *)
(* format 0, recorded none of the flags.                                   *)
(***************************************************************************)
Plain(key) == [type |-> "int", maxLen |-> 0, nullable |-> FALSE, primaryKey |-> key,
               unique |-> FALSE, index |-> FALSE]
LegacyState == [t \in {1} |-> [module |-> 1, fields |-> [c \in {1, 2} |-> Plain(c = 1)]]]
LegacyTable == [c \in {1, 2} |-> [Plain(c = 1) EXCEPT !.nullable = (c # 1)]]
LegacyEntry == Entry(1, <<<<"CreateTable", 1>>>>, TRUE)

Init ==
    /\ dialect \in Dialects
    /\ registered = Modules
    /\ torn = {}
    /\ run = Idle("none")
    /\ edits = 0
    /\ faults = 0
    /\ \/ /\ declared = Empty
          /\ manifest = [m \in Modules |-> <<>>]
          /\ files = Empty
          /\ states = Empty
       \/ /\ declared = [t \in {1} |-> [module |-> 1, fields |-> LegacyTable]]
          /\ manifest = [m \in Modules |-> IF m = 1 THEN <<LegacyEntry>> ELSE <<>>]
          /\ files = [b \in {Base(1, LegacyEntry)} |->
                        [up |-> <<CreateTable(1, LegacyTable)>>, down |-> <<DropTable(1)>>]]
          /\ states = [b \in {Base(1, LegacyEntry)} |-> [v |-> 0, models |-> LegacyState]]
    /\ allGo = manifest

(***************************************************************************)
(* What other people do to the tree, while no run is under way.            *)
(***************************************************************************)
Editing == run.pc = "idle" /\ edits < MaxEdits /\ edits' = edits + 1

(* The modules declare another schema. *)
Declare(d) ==
    /\ Editing
    /\ d # declared
    /\ \A t \in DOMAIN d : d[t].module \in registered
    /\ declared' = d
    /\ run' = Idle("none")
    /\ UNCHANGED <<dialect, registered, tree, faults>>

(* A hand-written migration joins its manifest: data only, and no state.    *)
(* Nothing stops its version from being one another branch has taken.       *)
HandWrite(m, v) ==
    /\ Editing
    /\ m \notin torn
    /\ Cardinality(Listed) < MaxEntries
    /\ LET e == Entry(v, <<>>, FALSE)
       IN /\ manifest' = [manifest EXCEPT ![m] = Append(@, e)]
          /\ files' = Put(files, Base(m, e), [up |-> <<>>, down |-> <<>>])
    /\ run' = Idle("none")
    /\ UNCHANGED <<dialect, registered, declared, torn, allGo, states, faults>>

(* A state file is replaced by one of a format this release cannot read. *)
NewerFormat(b) ==
    /\ Editing
    /\ states[b].v = 1
    /\ states' = [states EXCEPT ![b].v = 2]
    /\ run' = Idle("none")
    /\ UNCHANGED <<dialect, registered, declared, manifest, torn, allGo, files, faults>>

(* A module leaves main, and its models with it. *)
Retire(m) ==
    /\ Editing
    /\ m \in registered
    /\ registered' = registered \ {m}
    /\ declared' = [t \in {u \in DOMAIN declared : declared[u].module # m} |-> declared[t]]
    /\ run' = Idle("none")
    /\ UNCHANGED <<dialect, tree, faults>>

(***************************************************************************)
(* The start of a run: replay, diff, renames and the plan.                 *)
(***************************************************************************)

(* ParseSnapshot: format 0 made every column but the key nullable. *)
Readable(b) == states[b].v \in {0, 1}

ParseSnapshot(b) ==
    LET models == states[b].models
    IN IF states[b].v # 0 THEN models
       ELSE [t \in DOMAIN models |->
               [models[t] EXCEPT !.fields = [c \in DOMAIN @ |->
                  [@[c] EXCEPT !.nullable = ~models[t].fields[c].primaryKey]]]]

(* replayRecordedState: the manifests of the registered modules, and the    *)
(* state of the highest version that recorded one.                         *)
Loaded == [m \in registered |-> manifest[m]]
Recorded == UNION {{<<m, e>> : e \in {d \in ToSet(manifest[m]) : d.state}} : m \in registered}
DuplicateVersion ==
    \E m, n \in registered : \E i \in DOMAIN manifest[m], j \in DOMAIN manifest[n] :
        <<m, i>> # <<n, j>> /\ manifest[m][i].version = manifest[n][j].version

(* Mutant of ReplayFails: a manifest that does not parse is read as empty. *)
ReplayTrusts ==
    \/ DuplicateVersion
    \/ \E r \in Recorded : Base(r[1], r[2]) \notin DOMAIN states \/ ~Readable(Base(r[1], r[2]))

ReplayFails ==
    \/ torn \cap registered # {}
    \/ DuplicateVersion
    \/ \E r \in Recorded : Base(r[1], r[2]) \notin DOMAIN states \/ ~Readable(Base(r[1], r[2]))

ReplayState ==
    IF Recorded = {} THEN Empty
    ELSE LET last == CHOOSE r \in Recorded : \A q \in Recorded : q[2].version =< r[2].version
         IN ParseSnapshot(Base(last[1], last[2]))

(* ownerOf, for a table of an operation. *)
OwnerOf(t, before) == IF t \in DOMAIN declared THEN declared[t].module ELSE before[t].module

(***************************************************************************)
(* resolveRenames.  A candidate pairs a dropped with an added column of    *)
(* one table and the same definition, by their places in ops.  A column    *)
(* already renamed is not asked about again, so whatever the developer     *)
(* answers, no two accepted pairs share a column, and any such set of      *)
(* pairs is an answer.  Yes to a constrained column ends the run.          *)
(***************************************************************************)
RenameCompatible(f, g) == f = g

Candidates(ops, before) ==
    {p \in (DOMAIN ops) \X (DOMAIN ops) :
       /\ ops[p[1]].kind = "DropColumn"
       /\ ops[p[2]].kind = "AddColumn"
       /\ ops[p[2]].table = ops[p[1]].table
       /\ RenameCompatible(before[ops[p[1]].table].fields[ops[p[1]].column], ops[p[2]].field)}

Constrained(f) == f.primaryKey \/ f.unique \/ f.index

Accepted(cands) ==
    {yes \in SUBSET cands : \A p, q \in yes : p # q => p[1] # q[1] /\ p[2] # q[2]}

(* The rename takes the place of the drop; the addition goes. *)
Resolved(ops, yes) ==
    LET Keep(i) == IF \E p \in yes : p[1] = i
                   THEN LET p == CHOOSE p \in yes : p[1] = i
                        IN <<RenameColumn(ops[i].table, ops[i].column, ops[p[2]].column)>>
                   ELSE IF \E p \in yes : p[2] = i THEN <<>> ELSE <<ops[i]>>
    IN FlattenSeq([i \in DOMAIN ops |-> Keep(i)])

(* The second that follows v, as it sorts: a fifth digit sorts below. *)
Successor(v) == IF v >= Top THEN 0 ELSE v + 1

(* Mutant of Highest: hand-written versions are not counted. *)
HighestGenerated(man) ==
    LET versions == {e.version : e \in {d \in Entries(man) : d.state}}
    IN IF versions = {} THEN 0 ELSE CHOOSE v \in versions : \A w \in versions : w =< v

(* nextVersion: past the clock and past every loaded version. *)
Highest(man) ==
    IF Entries(man) = {} THEN 0
    ELSE CHOOSE v \in {e.version : e \in Entries(man)} : \A e \in Entries(man) : e.version =< v
NextVersion(man, now) ==
    IF Highest(man) >= now THEN Successor(Highest(man)) ELSE now

(* runMakemigrations up to its loop over the modules.  A process sliced by  *)
(* FABRIN_MODULES, or one without a database of a known driver, refuses     *)
(* before it reads anything; a replay that fails ends the run as well.      *)
Refuse(unusable) ==
    /\ run.pc = "idle"
    /\ unusable \/ ReplayFails
    /\ run' = Idle("refused")
    /\ UNCHANGED <<dialect, registered, declared, tree, edits, faults>>

(* The changes one module owns, in order. *)
ByModule(ops, before, m) ==
    FlattenSeq([i \in DOMAIN ops |->
                  IF OwnerOf(ops[i].table, before) = m THEN <<ops[i]>> ELSE <<>>])

Plan(ops, before, now) ==
    LET owners == {OwnerOf(ops[i].table, before) : i \in DOMAIN ops}
    IN [pc |-> "module", out |-> "none", todo |-> Sorted(owners),
        ops |-> [m \in owners |-> ByModule(ops, before, m)],
        before |-> before, cumulative |-> before,
        version |-> NextVersion(Loaded, now), loaded |-> Loaded]

Start(interactive, now) ==
    /\ run.pc = "idle"
    /\ ~ReplayFails
    /\ LET before == ReplayState
           ops == Diff(before, declared)
           cands == Candidates(ops, before)
           Old(p) == before[ops[p[1]].table].fields[ops[p[1]].column]
       IN \/ ops = <<>> /\ run' = Idle("nochange")
          \/ ops # <<>> /\ cands # {} /\ ~interactive /\ run' = Idle("refused")
          \/ /\ ops # <<>>
             /\ cands # {} => interactive
             /\ \E yes \in Accepted(cands) :
                  IF \/ \E p \in yes : Constrained(Old(p))
                     \/ NextVersion(Loaded, now) =< Highest(Loaded)
                  THEN run' = Idle("refused")
                  ELSE /\ Cardinality(Listed) < MaxEntries
                       /\ run' = Plan(Resolved(ops, yes), before, now)
    /\ UNCHANGED <<dialect, registered, declared, tree, edits, faults>>

(***************************************************************************)
(* One module of the loop.                                                 *)
(***************************************************************************)
Module == Head(run.todo)
Ops == run.ops[Module]
ThisEntry == Entry(run.version, [i \in DOMAIN Ops |-> Describe(Ops[i])], TRUE)
ThisBase == Base(Module, ThisEntry)

(* Mutant of Down: the order of the migration itself. *)
DownInOrder == [i \in DOMAIN Ops |-> Invert(Ops[i], run.before)]

(* The rollback undoes the operations last to first. *)
Down == [i \in DOMAIN Ops |-> Invert(Ops[Len(Ops) + 1 - i], run.before)]

(* Mutant of SnapshotAfter: the final schema is recorded beside each file. *)
SnapshotFinal(current, ops) == declared

(* snapshotAfterOperations: only the tables this migration changes advance. *)
SnapshotAfter(current, ops) ==
    LET changed == {ops[i].table : i \in DOMAIN ops}
    IN [t \in (DOMAIN current \ changed) \cup (DOMAIN declared \cap changed) |->
          IF t \in changed THEN declared[t] ELSE current[t]]

(* The dialect renders the module's changes and their inverses, or the run  *)
(* ends; what earlier modules wrote stays written.                          *)
Rendered == \A i \in DOMAIN Ops :
    Renders(dialect, Ops[i]) /\ Reverses(dialect, Ops[i], run.before)

Render ==
    /\ run.pc = "module"
    /\ run' = IF Rendered
              THEN [run EXCEPT !.pc = "go", !.cumulative = SnapshotAfter(@, Ops)]
              ELSE Idle("refused")
    /\ UNCHANGED <<dialect, registered, declared, tree, edits, faults>>

WriteGo ==
    /\ run.pc = "go"
    /\ files' = Put(files, ThisBase, [up |-> Ops, down |-> Down])
    /\ run' = [run EXCEPT !.pc = "state"]
    /\ UNCHANGED <<dialect, registered, declared, manifest, torn, allGo, states, edits, faults>>

(* EncodeSnapshot writes today's format. *)
WriteState ==
    /\ run.pc = "state"
    /\ states' = Put(states, ThisBase, [v |-> 1, models |-> run.cumulative])
    /\ run' = [run EXCEPT !.pc = "manifest"]
    /\ UNCHANGED <<dialect, registered, declared, manifest, torn, allGo, files, edits, faults>>

(* The manifest as it was loaded, and the new entry; none was loaded for a  *)
(* module that is not registered.                                          *)
WithEntry(m) == Append(IF m \in DOMAIN run.loaded THEN run.loaded[m] ELSE <<>>, ThisEntry)

WriteManifest ==
    /\ run.pc = "manifest"
    /\ manifest' = [manifest EXCEPT ![Module] = WithEntry(Module)]
    /\ torn' = torn \ {Module}
    /\ run' = [run EXCEPT !.pc = "all", !.loaded = Put(@, Module, WithEntry(Module))]
    /\ UNCHANGED <<dialect, registered, declared, allGo, files, states, edits, faults>>

(* writeAll, and on to the next module with the next version. *)
WriteAll ==
    /\ run.pc = "all"
    /\ allGo' = [allGo EXCEPT ![Module] = run.loaded[Module]]
    /\ run' = IF Len(run.todo) = 1 THEN Idle("done")
              ELSE [run EXCEPT !.pc = "module", !.todo = Tail(@), !.version = Successor(@)]
    /\ UNCHANGED <<dialect, registered, declared, manifest, torn, files, states, edits, faults>>

(* os.WriteFile truncates before it writes: the file at hand may be left    *)
(* short.  A Go file then does not compile, a state file has no format to   *)
(* read, and a manifest is no JSON, its entries gone.                       *)
Cut == [up |-> <<>>, down |-> <<>>]

Tear ==
    \/ /\ run.pc = "go"
       /\ files' = Put(files, ThisBase, Cut)
       /\ UNCHANGED <<manifest, torn, allGo, states>>
    \/ /\ run.pc = "state"
       /\ states' = Put(states, ThisBase, [v |-> 2, models |-> Empty])
       /\ UNCHANGED <<manifest, torn, allGo, files>>
    \/ /\ run.pc = "manifest"
       /\ manifest' = [manifest EXCEPT ![Module] = <<>>]
       /\ torn' = torn \cup {Module}
       /\ UNCHANGED <<allGo, files, states>>
    \/ /\ run.pc = "all"
       /\ allGo' = [allGo EXCEPT ![Module] = <<>>]
       /\ UNCHANGED <<manifest, torn, files, states>>

(* A write fails and the run with it, or the process dies: before the file  *)
(* at hand is touched, or in the middle of it.                              *)
Fail ==
    /\ run.pc # "idle"
    /\ faults < MaxFaults
    /\ faults' = faults + 1
    /\ run' = Idle("failed")
    /\ UNCHANGED tree \/ Tear
    /\ UNCHANGED <<dialect, registered, declared, edits>>

Next ==
    \/ \E d \in Declarations : Declare(d)
    \/ \E m \in registered, v \in Clocks : HandWrite(m, v)
    \/ \E b \in DOMAIN states : NewerFormat(b)
    \/ \E unusable \in BOOLEAN : Refuse(unusable)
    \/ \E interactive \in BOOLEAN, now \in Clocks : Start(interactive, now)
    \/ Render \/ WriteGo \/ WriteState \/ WriteManifest \/ WriteAll \/ Fail

Spec == Init /\ [][Next]_vars

(* The same, when modules may leave main. *)
RetireSpec == Init /\ [][Next \/ \E m \in Modules : Retire(m)]_vars

(***************************************************************************)
(* Properties.                                                             *)
(***************************************************************************)
Generated == {r \in Listed : r[2].state}
Chain == Sorted({r[2].version : r \in Generated})
FileAt(v) == LET r == CHOOSE q \in Generated : q[2].version = v IN Base(r[1], r[2])

(* The schema recorded beside the k-th migration; before the first, none.   *)
SchemaAt(k) == IF k = 0 THEN Empty ELSE Schema(ParseSnapshot(FileAt(Chain[k])))
Holds(tables) == [ok |-> TRUE, tables |-> tables]

(* The changes of type of a migration, run on a database that holds S: what *)
(* the column was and becomes.  PostgreSQL may refuse one, or its undoing.  *)
Retyped(S, up) ==
    {<<S[up[i].table][up[i].column].type, up[i].type>> :
       i \in {j \in DOMAIN up : up[j].kind = "ChangeType"}}
NoWayOn(S, up) == \E p \in Retyped(S, up) : ~Converts(p[1], p[2])
NoWayBack(S, up) == \E p \in Retyped(S, up) : ~Converts(p[2], p[1])

(* Whatever failed or died in between, the migrations the manifests list    *)
(* run one after the other from an empty database: each takes the schema    *)
(* recorded beside the one before it to exactly the schema its own state    *)
(* file records (runMakemigrations, Diff, snapshotAfterOperations,          *)
(* ParseSnapshot).  The exception is a change of type that PostgreSQL       *)
(* refuses without USING.  A manifest that is cut short lists nothing.      *)
ChainBuilds ==
    torn = {} =>
        /\ \A r, q \in Generated : r[2].version = q[2].version => r = q
        /\ \A r \in Generated : Base(r[1], r[2]) \in DOMAIN files \cap DOMAIN states
        /\ \A k \in DOMAIN Chain :
             LET up == files[FileAt(Chain[k])].up
             IN \/ ExecAll(dialect, Holds(SchemaAt(k - 1)), up) = Holds(SchemaAt(k))
                \/ NoWayOn(SchemaAt(k - 1), up)

(* A migration's Down, run right after it, restores the schema before it    *)
(* (invert, rawInverse and the reversed groups of runMakemigrations).  The  *)
(* exceptions are what the databases refuse to run: on SQLite the plain     *)
(* DROP COLUMN written for an indexed column the migration added, while the *)
(* index stands; on PostgreSQL the way back from a type to one it does not  *)
(* convert to.                                                              *)
AddsIndexed(up) == \E i \in DOMAIN up : up[i].kind = "AddColumn" /\ up[i].field.index
DownRestores ==
    torn = {} =>
        \A k \in DOMAIN Chain :
            LET file == files[FileAt(Chain[k])]
            IN \/ ExecAll(dialect, Holds(SchemaAt(k)), file.down) = Holds(SchemaAt(k - 1))
               \/ dialect = "sqlite" /\ AddsIndexed(file.up)
               \/ NoWayBack(SchemaAt(k - 1), file.up)

(* A run that ends well, or that finds nothing to do, leaves a recorded     *)
(* state that is the declared schema: the next run has nothing to do.       *)
ReplayIsCurrent ==
    run.out \in {"done", "nochange"} =>
        ~ReplayFails /\ Schema(ReplayState) = Schema(declared)

(* A generated version is above every version on the books when its entry   *)
(* is written, though clocks differ, hand-written versions come from        *)
(* anywhere and one run writes several (nextVersion, bumpVersion).          *)
VersionsAscend ==
    [][run.pc = "manifest" /\ manifest' # manifest =>
         \A e \in Entries(manifest') \ Entries(manifest), d \in Entries(manifest) :
             e.version > d.version]_vars

(* While every module stays in main, a run takes no entry out of a manifest *)
(* it can read; and a manifest that a write cut short, and whose entries    *)
(* are lost, is never written again as if it had been empty: every later    *)
(* run refuses, until someone restores the file (loadManifest,              *)
(* writeManifest).                                                          *)
ManifestsKeepEntries ==
    [][/\ torn \subseteq torn'
       /\ \A m \in Modules \ torn' : ToSet(manifest[m]) \subseteq ToSet(manifest'[m])]_vars

(* writeAll: "regeneration cannot silently lose a hand-written migration    *)
(* that is registered in the manifest".                                     *)
HandWrittenStays ==
    [][\A m \in Modules : \A e \in ToSet(manifest[m]) :
         ~e.state => e \in ToSet(manifest'[m])]_vars
=============================================================================
