------------------------------ MODULE Wiring ------------------------------
(***************************************************************************)
(* How a process comes up: config.Load over its layers of settings, the    *)
(* constructors New and NewFromFactories with the selection of             *)
(* FABRIN_MODULES, what New collects from the mounted modules, and the     *)
(* command that App.Execute dispatches.                                    *)
(*                                                                         *)
(* One behaviour is one process: which settings, modules and constructor   *)
(* it has is chosen in the initial state.  Three settings stand for all of *)
(* them: a list (FABRIN_MODULES), a value that Load parses                 *)
(* (FABRIN_LOG_LEVEL) and one that Load takes as it is and New rejects     *)
(* (FABRIN_TRUSTED_PROXIES).  The text of files, flags and values is left  *)
(* out.                                                                    *)
(***************************************************************************)
EXTENDS Integers, Sequences, FiniteSets, SequencesExt

CONSTANTS Stacks,      \* the sources a main may hand to Load, a set of sequences
          Catalogues,  \* the modules it may register, a set of sequences
          Args,        \* the first argument of a command line, or None
          Rests,       \* the arguments after it: "ok", "help", "bad"
          Blank,       \* a name that is empty after trimming
          None         \* no such declaration, no argument

Modules == "FABRIN_MODULES"
LogLevel == "FABRIN_LOG_LEVEL"
TrustedProxies == "FABRIN_TRUSTED_PROXIES"
knownKeys == {Modules, LogLevel, TrustedProxies}

(* Prefixed, and not a setting: a typo. *)
Typo == "FABRIN_MODULE"

Builtins == {"serve", "routes", "migrate", "makemigrations", "version"}

(* A source: what values() finds.  A module declares one command, table,    *)
(* migration and route, or none; a migration version is a sequence of       *)
(* digits, empty when its author forgot it.  factory says what its          *)
(* LazyModule build does, run whether its command has a Run.                *)
ASSUME StacksAssumption ==
    \A stack \in Stacks : \A i \in DOMAIN stack :
        /\ stack[i].found \in {"ok", "missing", "bad"}
        /\ stack[i].required \in BOOLEAN
        /\ Modules \in DOMAIN stack[i].vals =>
              stack[i].vals[Modules] \in Seq(ToSet(stack[i].vals[Modules]))

ASSUME SequencesAssumption ==
    \A s \in Stacks \cup Catalogues : s \in Seq(ToSet(s))

ASSUME NoneAssumption ==
    None \notin Builtins \cup {Blank, "/healthz", "/readyz"}

ASSUME RestsAssumption == Rests \subseteq {"ok", "help", "bad"}

VARIABLES layers, catalogue, entry,  \* the process: sources, modules, constructor
          pc,
          at,        \* position in the loop of pc
          values,    \* Resolved.values
          sources,   \* Resolved.sources: the index of the layer
          modules,   \* the modules built so far, then those handed to New
          built,     \* factories called (history)
          registry,  \* [modules, sliced]
          owner,     \* owner[<<kind, x>>]: the module x was collected from
          ran        \* what Execute did: [arg, rest, by]

input == <<layers, catalogue, entry>>
resolved == <<values, sources>>
vars == <<input, pc, at, resolved, modules, built, registry, owner, ran>>

Init ==
    /\ layers \in Stacks
    /\ catalogue \in Catalogues
    /\ entry \in {"New", "NewFromFactories"}
    /\ pc = "resolve"
    /\ at = 1
    /\ values = <<>>
    /\ sources = <<>>
    /\ modules = <<>>
    /\ built = <<>>
    /\ registry = [modules |-> <<>>, sliced |-> FALSE]
    /\ owner = <<>>
    /\ ran = None

Goto(next) == pc' = next /\ at' = 1

Fail == Goto("failed")

-----------------------------------------------------------------------------
(* Settings: Resolve and Load                                              *)

(* The file is bad, or missing although it was named; flags do not parse. *)
SourceFails(l) == l.found = "bad" \/ (l.found = "missing" /\ l.required)

(* What a source supplies: its prefixed keys. *)
Supplied(l) == IF l.found = "ok" THEN DOMAIN l.vals \cap (knownKeys \cup {Typo}) ELSE {}

(* A layer over those before it. *)
Overlay(old, new) ==
    [k \in DOMAIN old \cup DOMAIN new |-> IF k \in DOMAIN new THEN new[k] ELSE old[k]]

(* One turn of Resolve's loop over its sources. *)
ResolveSource ==
    LET l == layers[at]
    IN /\ pc = "resolve"
       /\ at <= Len(layers)
       /\ IF SourceFails(l) \/ ~(Supplied(l) \subseteq knownKeys)
          THEN Fail /\ UNCHANGED resolved
          ELSE /\ values' = Overlay(values, [k \in Supplied(l) |-> l.vals[k]])
               /\ sources' = Overlay(sources, [k \in Supplied(l) |-> at])
               /\ pc' = pc
               /\ at' = at + 1
       /\ UNCHANGED <<input, modules, built, registry, owner, ran>>

(* A loop that appends the elements it keeps: those of s at the positions   *)
(* I, in their order.                                                       *)
Pick(s, I) ==
    [k \in 1..Cardinality(I) |-> s[CHOOSE i \in I : Cardinality({j \in I : j <= i}) = k]]

(* splitList, and the cleaning of resolveSelection. *)
Clean(list) == Pick(list, {i \in DOMAIN list : list[i] # Blank})

(* Options.Modules. *)
Selection == IF Modules \in DOMAIN values THEN Clean(values[Modules]) ELSE <<>>

(* Resolve with no sources fails; a value that won and does not parse, too. *)
Load ==
    /\ pc = "resolve"
    /\ at > Len(layers)
    /\ IF layers = <<>> \/ (LogLevel \in DOMAIN values /\ values[LogLevel] # "info")
       THEN Fail ELSE Goto(entry)
    /\ UNCHANGED <<input, resolved, modules, built, registry, owner, ran>>

-----------------------------------------------------------------------------
(* Construction                                                            *)

Names(ms) == [i \in DOMAIN ms |-> ms[i].name]

Repeats(names) == \E i, j \in DOMAIN names : i # j /\ names[i] = names[j]

BadNames(names) == names = <<>> \/ Blank \in ToSet(names) \/ Repeats(names)

Unknown(registered) == ~(ToSet(Selection) \subseteq ToSet(registered))

(* Mutant of resolveSelection: the order in which the setting names them. *)
SelectionAsSpelled(registered) == IF Selection = <<>> THEN registered ELSE Selection

(* The names to mount, in the order of registration. *)
resolveSelection(registered) ==
    IF Selection = <<>> THEN registered
    ELSE Pick(registered, {i \in DOMAIN registered : registered[i] \in ToSet(Selection)})

Named(ms, n) == CHOOSE m \in ToSet(ms) : m.name = n

(* Mutant of FactoriesFail: an unknown name is left to New. *)
FactoriesFailLate ==
    \/ BadNames(Names(catalogue))
    \/ \E i \in DOMAIN catalogue : catalogue[i].factory = "nobuild"

(* buildSelectedModules before it builds anything. *)
FactoriesFail ==
    \/ BadNames(Names(catalogue))
    \/ \E i \in DOMAIN catalogue : catalogue[i].factory = "nobuild"
    \/ Unknown(Names(catalogue))

Validate ==
    /\ pc = "NewFromFactories"
    /\ IF FactoriesFail THEN Fail ELSE Goto("build")
    /\ UNCHANGED <<input, resolved, modules, built, registry, owner, ran>>

(* One selected factory runs: it fails, returns nil or another's module, or *)
(* the module that it is named for.                                         *)
Build ==
    LET wanted == resolveSelection(Names(catalogue))
        m == Named(catalogue, wanted[at])
    IN /\ pc = "build"
       /\ IF at > Len(wanted) THEN Goto("registry") /\ UNCHANGED <<modules, built>>
          ELSE /\ built' = Append(built, m.name)
               /\ IF m.factory # "ok" THEN Fail /\ UNCHANGED modules
                  ELSE modules' = Append(modules, m) /\ pc' = pc /\ at' = at + 1
       /\ UNCHANGED <<input, resolved, registry, owner, ran>>

(* New is called with modules that exist already. *)
Given ==
    /\ pc = "New"
    /\ modules' = catalogue
    /\ Goto("registry")
    /\ UNCHANGED <<input, resolved, built, registry, owner, ran>>

(* newRegistry: what New was handed is what it takes for registered. *)
NewRegistry ==
    LET order == Names(modules)
        wanted == resolveSelection(order)
    IN /\ pc = "registry"
       /\ IF BadNames(order) \/ Unknown(order) THEN Fail /\ UNCHANGED registry
          ELSE /\ registry' = [modules |-> [i \in DOMAIN wanted |-> Named(modules, wanted[i])],
                               sliced |-> Len(wanted) < Len(order)]
               /\ Goto("proxies")
       /\ UNCHANGED <<input, resolved, modules, built, owner, ran>>

(* New hands the trusted proxies to Gin, which parses them: the first time  *)
(* that anyone does, and after NewFromFactories has run the factories.      *)
TrustProxies ==
    /\ pc = "proxies"
    /\ IF TrustedProxies \in DOMAIN values /\ values[TrustedProxies] # "cidr"
       THEN Fail ELSE Goto("check")
    /\ UNCHANGED <<input, resolved, modules, built, registry, owner, ran>>

(* What New collects, kind after kind, each over the mounted modules: named *)
(* checks, routes (Gin panics at a route that is there), commands, models,  *)
(* migrations.                                                              *)
Kinds == <<"check", "route", "command", "table", "version">>

After(kind) ==
    IF kind = "version" THEN "up"
    ELSE Kinds[1 + CHOOSE i \in DOMAIN Kinds : Kinds[i] = kind]

Taken(kind) == {k[2] : k \in {q \in DOMAIN owner : q[1] = kind}}

(* The width of versions is that of the first that is not empty; an empty   *)
(* one before it is let through.                                            *)
OtherWidth(x) == \E v \in Taken("version") : v # <<>> /\ Len(v) # Len(x)

(* Mutant of Clashes: only modules are compared with one another. *)
ClashesAmongModules(kind, x) ==
    CASE kind = "check" -> x = Blank
      [] kind = "route" -> x \in Taken(kind)
      [] kind = "command" -> x = Blank \/ x \in Taken(kind)
      [] kind = "table" -> x = Blank \/ x \in Taken(kind)
      [] kind = "version" -> x \in Taken(kind) \/ OtherWidth(x)

(* What cannot be added to what is there.  Two checks may share a name.     *)
Clashes(kind, x) ==
    CASE kind = "check" -> x = Blank
      [] kind = "route" -> x \in Taken(kind) \cup {"/healthz", "/readyz"}
      [] kind = "command" -> x = Blank \/ x \in Taken(kind) \cup Builtins
      [] kind = "table" -> x = Blank \/ x \in Taken(kind)
      [] kind = "version" -> x \in Taken(kind) \/ OtherWidth(x)

(* collectChecks, the mount loop, collectCommands, collectModels and        *)
(* collectMigrations: one turn for one module.                              *)
Collect ==
    LET m == registry.modules[at]
        x == m[pc]
    IN /\ pc \in ToSet(Kinds)
       /\ \/ /\ at > Len(registry.modules)
             /\ Goto(After(pc))
             /\ UNCHANGED owner
          \/ /\ at <= Len(registry.modules)
             /\ IF x = None THEN pc' = pc /\ at' = at + 1 /\ UNCHANGED owner
                ELSE IF Clashes(pc, x) THEN Fail /\ UNCHANGED owner
                ELSE /\ owner' = [q \in DOMAIN owner \cup {<<pc, x>>} |->
                                    IF q = <<pc, x>> THEN m.name ELSE owner[q]]
                     /\ pc' = pc
                     /\ at' = at + 1
       /\ UNCHANGED <<input, resolved, modules, built, registry, ran>>

-----------------------------------------------------------------------------
(* Execute                                                                 *)

(* The built-in migration commands refuse in a sliced process. *)
Refused(name) == name \in {"migrate", "makemigrations"} /\ registry.sliced

(* The name of a command is known: Dispatch wants a Run, parses the flags   *)
(* (a request for help prints the command's own) and calls Run.             *)
Called(name, rest) ==
    IF name \in Taken("command")
       /\ Named(registry.modules, owner[<<"command", name>>]).run = "nil" THEN "norun"
    ELSE IF rest = "help" THEN "usage"
    ELSE IF rest = "bad" THEN "badflags"
    ELSE IF name \in Taken("command") THEN owner[<<"command", name>>]
    ELSE IF Refused(name) THEN "refused"
    ELSE name

(* No argument and setting flags serve, a request for help prints usage,    *)
(* also behind setting flags, and a name calls the command that bears it.   *)
(* checkDuplicates finds nothing that collectCommands has let through.      *)
Dispatched(arg, rest) ==
    IF arg \in {"-h", "help"} \/ (arg = "-addr" /\ rest = "help") THEN "usage"
    ELSE IF arg \in {None, "-addr"} THEN "serve"
    ELSE IF arg \in Builtins \cup Taken("command") THEN Called(arg, rest)
    ELSE "unknown"

Execute(arg, rest) ==
    /\ pc = "up"
    /\ arg = None => rest = "ok"
    /\ ran' = [arg |-> arg, rest |-> rest, by |-> Dispatched(arg, rest)]
    /\ Goto("ran")
    /\ UNCHANGED <<input, resolved, modules, built, registry, owner>>

Next ==
    \/ ResolveSource \/ Load
    \/ Validate \/ Build \/ Given \/ NewRegistry \/ TrustProxies \/ Collect
    \/ \E arg \in Args, rest \in Rests : Execute(arg, rest)

Spec == Init /\ [][Next]_vars

-----------------------------------------------------------------------------
(* Properties.  The reference is stated over what the process was given:    *)
(* the value of the last layer that has one, the modules it selects.        *)

Layers(k) == {i \in DOMAIN layers : k \in Supplied(layers[i])}

Highest(S) == CHOOSE i \in S : \A j \in S : j <= i

Asked ==
    LET given == IF Layers(Modules) = {} THEN {}
                 ELSE ToSet(layers[Highest(Layers(Modules))].vals[Modules]) \ {Blank}
        wanted == {i \in DOMAIN catalogue : given = {} \/ catalogue[i].name \in given}
    IN [unknown |-> given \ ToSet(Names(catalogue)), modules |-> Pick(catalogue, wanted)]

(* What Load can tell, and what only New can. *)
LoadSound ==
    /\ layers # <<>>
    /\ \A i \in DOMAIN layers : ~SourceFails(layers[i]) /\ Typo \notin Supplied(layers[i])
    /\ Layers(LogLevel) # {} => layers[Highest(Layers(LogLevel))].vals[LogLevel] = "info"

ProxiesSound ==
    Layers(TrustedProxies) # {} =>
        layers[Highest(Layers(TrustedProxies))].vals[TrustedProxies] = "cidr"

SettingsSound == LoadSound /\ ProxiesSound

CatalogueSound ==
    /\ ~BadNames(Names(catalogue))
    /\ Asked.unknown = {}
    /\ entry = "NewFromFactories" => \A i \in DOMAIN catalogue : catalogue[i].factory # "nobuild"

(* No two mounted modules, and no module and the framework, claim one name, *)
(* and a version that is not empty binds those after it to its width.       *)
MountedSound ==
    LET ms == Asked.modules
        Claims(kind) == {i \in DOMAIN ms : ms[i][kind] # None}
        Distinct(kind) == \A i, j \in Claims(kind) : i # j => ms[i][kind] # ms[j][kind]
    IN /\ entry = "NewFromFactories" => \A i \in DOMAIN ms : ms[i].factory = "ok"
       /\ \A kind \in {"check", "command", "table"}, i \in DOMAIN ms : ms[i][kind] # Blank
       /\ \A kind \in {"route", "command", "table", "version"} : Distinct(kind)
       /\ \A i \in DOMAIN ms : ms[i].route \notin {"/healthz", "/readyz"}
                               /\ ms[i].command \notin Builtins
       /\ \A i, j \in Claims("version") :
             i < j /\ ms[i].version # <<>> => Len(ms[i].version) = Len(ms[j].version)

(* A process comes up exactly when its settings, its catalogue and the      *)
(* modules it mounts are free of mistakes, those it does not mount whatever *)
(* they claim; it mounts what the last layer selects, in the order of       *)
(* registration, and names that layer as the origin (Resolve, Load, New,    *)
(* NewFromFactories).                                                       *)
StartsAsAsked ==
    /\ pc \in {"up", "ran"} =>
          /\ SettingsSound /\ CatalogueSound /\ MountedSound
          /\ registry.modules = Asked.modules
          /\ \A k \in DOMAIN sources : sources[k] = Highest(Layers(k))
    /\ pc = "failed" => ~(SettingsSound /\ CatalogueSound /\ MountedSound)

(* Factories run for the selected modules alone, each once and in order,    *)
(* and none when a source, a setting that Load parses, a name or the        *)
(* selection is wrong ("a typo must not partially open a deployment         *)
(* shape").  The trusted proxies are not among them: New rejects a wrong    *)
(* value after the factories have run (app.go:154), and closes nothing.     *)
BuildsOnlyWanted ==
    /\ built # <<>> => LoadSound /\ CatalogueSound
    /\ IsPrefix(built, Names(Asked.modules))

(* A command line calls the framework's command, or that of the one mounted *)
(* module that declares it, and never one of a module left out; none is     *)
(* called when the flags are wrong or ask for help, or the command has no   *)
(* Run.  What Execute and isHelp claim for themselves they keep:            *)
(* collectCommands accepts a module's command called help, which is then    *)
(* never run.                                                               *)
RunsTheOwner ==
    ran # None =>
        LET declaring == {m \in ToSet(registry.modules) : m.command = ran.arg /\ ran.arg # None}
            own == {None, "-addr", "-h", "help"}
            Gives(names) == IF ran.rest = "ok" THEN ran.by \in names
                            ELSE ran.by \in {"usage", "badflags"}
        IN /\ ran.arg \in own => ran.by \in {"serve", "usage"}
           /\ ran.arg \in Builtins => declaring = {} /\ Gives({ran.arg, "refused"})
           /\ ran.arg \notin Builtins \cup own =>
                 IF declaring = {} THEN ran.by = "unknown"
                 ELSE \E m \in declaring :
                         /\ declaring = {m}
                         /\ IF m.run = "nil" THEN ran.by = "norun" ELSE Gives({m.name})

(* A migration command does nothing in a process that mounts fewer modules  *)
(* than are registered (runMigrate, runMakemigrations: "A sliced process    *)
(* refuses outright").                                                      *)
SubsetNeverMigrates ==
    ran # None /\ ran.arg \in {"migrate", "makemigrations"} /\ ran.by = ran.arg =>
        Len(registry.modules) = Len(catalogue)
=============================================================================
