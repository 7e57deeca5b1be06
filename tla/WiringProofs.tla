---------------------------- MODULE WiringProofs ----------------------------
(***************************************************************************)
(* Proofs about Wiring: for every stack of sources and every catalogue a   *)
(* process starts exactly when asked rightly, as asked, builds no factory  *)
(* it should not, and runs a command in the module that declares it.       *)
(*                                                                         *)
(* The selection is reasoned about by position: Pick orders a set of       *)
(* positions by their rank, and the rank is a bijection onto an interval.  *)
(***************************************************************************)
EXTENDS Wiring, TLAPS, FiniteSetTheorems, SequenceTheorems

Rank(I, i) == Cardinality({j \in I : j <= i})

Place(I) == [k \in 1..Cardinality(I) |-> CHOOSE i \in I : Rank(I, i) = k]

LEMMA RankRises ==
  ASSUME NEW n \in Nat, NEW I \in SUBSET (1..n)
  PROVE  /\ IsFiniteSet(I) /\ Cardinality(I) \in Nat
         /\ \A i \in I : Rank(I, i) \in 1..Cardinality(I)
         /\ \A i, j \in I : i < j => Rank(I, i) < Rank(I, j)
  <1>1. IsFiniteSet(I) /\ Cardinality(I) \in Nat
    <2>1. IsFiniteSet(1..n)
      BY FS_Interval
    <2>2. IsFiniteSet(I)
      BY <2>1, FS_Subset
    <2> QED BY <2>2, FS_CardinalityType
  <1>2. ASSUME NEW i \in I  PROVE Rank(I, i) \in 1..Cardinality(I)
    <2> DEFINE S == {j \in I : j <= i}
    <2>1. S \in SUBSET I /\ i \in S
      OBVIOUS
    <2>2. IsFiniteSet(S) /\ Cardinality(S) \in Nat /\ Cardinality(S) <= Cardinality(I)
      BY <1>1, <2>1, FS_Subset, FS_CardinalityType
    <2>3. Cardinality(S) # 0
      BY <2>1, <2>2, FS_EmptySet
    <2> QED BY <1>1, <2>2, <2>3 DEF Rank
  <1>3. ASSUME NEW i \in I, NEW j \in I, i < j  PROVE Rank(I, i) < Rank(I, j)
    <2> DEFINE S == {k \in I : k <= i}
               T == {k \in I : k <= j}
    <2>0. I \subseteq Int /\ i \in Int /\ j \in Int
      OBVIOUS
    <2>1. S \in SUBSET T /\ T \in SUBSET I /\ j \in T /\ j \notin S
      <3>1. \A k \in I : k <= i => k <= j
        BY <1>3, <2>0
      <3>2. j <= j /\ ~(j <= i)
        BY <1>3, <2>0
      <3> QED BY <3>1, <3>2
    <2>2. IsFiniteSet(T)
      BY <1>1, <2>1, FS_Subset
    <2>3. IsFiniteSet(S) /\ Cardinality(S) <= Cardinality(T) /\ Cardinality(S) # Cardinality(T)
      <3> HIDE DEF S, T
      <3> QED BY <2>1, <2>2, FS_Subset
    <2>4. Cardinality(S) \in Nat /\ Cardinality(T) \in Nat
      BY <2>2, <2>3, FS_CardinalityType
    <2>5. Rank(I, i) = Cardinality(S) /\ Rank(I, j) = Cardinality(T)
      BY DEF Rank
    <2> HIDE DEF S, T
    <2> QED BY <2>3, <2>4, <2>5
  <1> QED BY <1>1, <1>2, <1>3

(* Every rank is taken: an injection between sets of one size. *)
LEMMA RanksAreTaken ==
  ASSUME NEW n \in Nat, NEW I \in SUBSET (1..n), NEW k \in 1..Cardinality(I)
  PROVE  \E i \in I : Rank(I, i) = k
  <1> DEFINE c == Cardinality(I)
             f == [i \in I |-> Rank(I, i)]
  <1>1. /\ IsFiniteSet(I) /\ c \in Nat
        /\ \A i \in I : Rank(I, i) \in 1..c
        /\ \A i, j \in I : i < j => Rank(I, i) < Rank(I, j)
    BY RankRises
  <1>2. f \in Injection(I, 1..c)
    <2>1. f \in [I -> 1..c]
      BY <1>1
    <2>2. ASSUME NEW i \in I, NEW j \in I, f[i] = f[j]  PROVE i = j
      <3>1. i \in Int /\ j \in Int /\ Rank(I, i) \in Int /\ Rank(I, j) \in Int
        BY <1>1
      <3> QED BY <1>1, <2>2, <3>1
    <2> QED BY <2>1, <2>2 DEF Injection, IsInjective
  <1>3. IsFiniteSet(1..c) /\ Cardinality(1..c) = c
    BY <1>1, FS_Interval
  <1>4. f \in Surjection(I, 1..c)
    <2> HIDE DEF f, c
    <2>1. Cardinality(I) = Cardinality(1..c)
      BY <1>3 DEF c
    <2> QED BY <1>2, <1>3, <2>1, FS_Injection
  <1> QED BY <1>4 DEF Surjection

LEMMA Places ==
  ASSUME NEW n \in Nat, NEW I \in SUBSET (1..n)
  PROVE  /\ Cardinality(I) \in Nat
         /\ Place(I) \in [1..Cardinality(I) -> I]
         /\ \A i \in I : \E k \in 1..Cardinality(I) : Place(I)[k] = i
         /\ \A k, m \in 1..Cardinality(I) : k < m => Place(I)[k] < Place(I)[m]
  <1> DEFINE c == Cardinality(I)
  <1>1. c \in Nat /\ \A i \in I : Rank(I, i) \in 1..c
    BY RankRises
  <1>2. \A i, j \in I : i < j => Rank(I, i) < Rank(I, j)
    BY RankRises
  <1>3. ASSUME NEW k \in 1..c  PROVE Place(I)[k] \in I /\ Rank(I, Place(I)[k]) = k
    BY RanksAreTaken DEF Place
  <1>4. \A i, j \in I : Rank(I, i) = Rank(I, j) => i = j
    <2>1. ASSUME NEW i \in I, NEW j \in I, Rank(I, i) = Rank(I, j)  PROVE i = j
      <3>1. i \in Int /\ j \in Int /\ Rank(I, i) \in Int
        BY <1>1
      <3> QED BY <1>2, <2>1, <3>1
    <2> QED BY <2>1
  <1>5. ASSUME NEW i \in I  PROVE \E k \in 1..c : Place(I)[k] = i
    <2>1. Rank(I, i) \in 1..c
      BY <1>1
    <2>2. Place(I)[Rank(I, i)] = i
      BY <1>3, <1>4, <2>1
    <2> QED BY <2>1, <2>2
  <1>6. ASSUME NEW k \in 1..c, NEW m \in 1..c, k < m  PROVE Place(I)[k] < Place(I)[m]
    <2> DEFINE i == Place(I)[k]
               j == Place(I)[m]
    <2>1. i \in I /\ j \in I /\ Rank(I, i) = k /\ Rank(I, j) = m
      BY <1>3
    <2> HIDE DEF i, j
    <2>2. i \in Int /\ j \in Int /\ k \in Int /\ m \in Int
      BY <1>1, <2>1
    <2>3. i # j /\ ~(j < i)
      BY <1>2, <1>6, <2>1, <2>2
    <2> QED BY <2>2, <2>3 DEF i, j
  <1>7. Place(I) \in [1..c -> I]
    BY <1>3 DEF Place
  <1> QED BY <1>1, <1>5, <1>6, <1>7

LEMMA PickPlaces ==
  ASSUME NEW s, NEW I
  PROVE  Pick(s, I) = [k \in 1..Cardinality(I) |-> s[Place(I)[k]]]
  BY DEF Pick, Place, Rank

(* All positions: nothing moves. *)
LEMMA PlaceAll ==
  ASSUME NEW n \in Nat
  PROVE  Cardinality(1..n) = n /\ Place(1..n) = [k \in 1..n |-> k]
  <1>1. Cardinality(1..n) = n
    BY FS_Interval
  <1>2. \A i \in 1..n : Rank(1..n, i) = i
    <2>1. ASSUME NEW i \in 1..n  PROVE Rank(1..n, i) = i
      <3>1. {j \in 1..n : j <= i} = 1..i
        OBVIOUS
      <3>2. Cardinality(1..i) = i
        BY FS_Interval
      <3> QED BY <3>1, <3>2 DEF Rank
    <2> QED BY <2>1
  <1>3. \A k \in 1..n : (CHOOSE i \in 1..n : Rank(1..n, i) = k) = k
    BY <1>2
  <1> QED BY <1>1, <1>3 DEF Place

-----------------------------------------------------------------------------
(* The inductive invariant.                                                *)

Spelled == IF Layers(Modules) = {} THEN {}
          ELSE ToSet(layers[Highest(Layers(Modules))].vals[Modules]) \ {Blank}

Wanted == {i \in DOMAIN catalogue : Spelled = {} \/ catalogue[i].name \in Spelled}

Mounted == Pick(catalogue, Wanted)

KindSet == {"check", "route", "command", "table", "version"}

TypeOK ==
    /\ layers \in Stacks
    /\ catalogue \in Catalogues
    /\ entry \in {"New", "NewFromFactories"}
    /\ pc \in {"resolve", "New", "NewFromFactories", "build", "registry", "proxies"}
             \cup KindSet \cup {"up", "ran", "failed"}
    /\ at \in Nat \ {0}

(* What Resolve holds after n layers: the last that has a key wins it. *)
ResolvedTo(n) ==
    /\ \A i \in 1..n : ~SourceFails(layers[i]) /\ Typo \notin Supplied(layers[i])
    /\ DOMAIN values = DOMAIN sources
    /\ \A i \in 1..n : Supplied(layers[i]) \subseteq DOMAIN sources
    /\ \A k \in DOMAIN sources :
          /\ sources[k] \in 1..n
          /\ k \in Supplied(layers[sources[k]])
          /\ values[k] = layers[sources[k]].vals[k]
          /\ \A i \in 1..n : k \in Supplied(layers[i]) => i <= sources[k]

SettingsInv ==
    /\ pc = "resolve" => at <= Len(layers) + 1 /\ ResolvedTo(at - 1)
    /\ pc \notin {"resolve", "failed"} => LoadSound /\ ResolvedTo(Len(layers))

FactoriesOK == entry = "NewFromFactories" => \A i \in DOMAIN Mounted : Mounted[i].factory = "ok"

(* The factories run are the first of those wanted. *)
Begun ==
    /\ built # <<>> => LoadSound /\ CatalogueSound
    /\ \E n \in 0..Len(Mounted) : built = [i \in 1..n |-> Mounted[i].name]

BuildPhase ==
    /\ pc \in {"resolve", "New", "NewFromFactories"} => built = <<>> /\ modules = <<>>
    /\ pc = "New" => entry = "New"
    /\ pc = "NewFromFactories" => entry = "NewFromFactories"
    /\ pc = "build" =>
          /\ entry = "NewFromFactories"
          /\ CatalogueSound
          /\ at <= Len(Mounted) + 1
          /\ built = [i \in 1..(at - 1) |-> Mounted[i].name]
          /\ modules = [i \in 1..(at - 1) |-> Mounted[i]]
          /\ \A i \in 1..(at - 1) : Mounted[i].factory = "ok"
    /\ pc = "registry" =>
          \/ entry = "New" /\ modules = catalogue
          \/ CatalogueSound /\ FactoriesOK /\ modules = Mounted
    /\ pc = "proxies" => CatalogueSound /\ FactoriesOK /\ registry.modules = Mounted

(* Names that no module may claim. *)
Barred(kind) ==
    CASE kind = "check" -> {Blank}
      [] kind = "route" -> {"/healthz", "/readyz"}
      [] kind = "command" -> {Blank} \cup Builtins
      [] kind = "table" -> {Blank}
      [] kind = "version" -> {}

Behind ==
    CASE pc = "route" -> {"check"}
      [] pc = "command" -> {"check", "route"}
      [] pc = "table" -> {"check", "route", "command"}
      [] pc = "version" -> {"check", "route", "command", "table"}
      [] pc \in {"up", "ran"} -> KindSet
      [] OTHER -> {}

(* How many modules have been asked for their declarations of a kind. *)
Upto(kind) == IF pc = kind THEN at - 1 ELSE IF kind \in Behind THEN Len(Mounted) ELSE 0

(* The first n modules and what they claim. *)
Claim(kind, n) == {i \in 1..n : Mounted[i][kind] # None}

SoundTo(kind, n) ==
    /\ \A i \in Claim(kind, n) : Mounted[i][kind] \notin Barred(kind)
    /\ kind # "check" => \A i, j \in Claim(kind, n) : i # j => Mounted[i][kind] # Mounted[j][kind]
    /\ kind = "version" => \A i, j \in Claim(kind, n) :
          i < j /\ Mounted[i][kind] # <<>> => Len(Mounted[i][kind]) = Len(Mounted[j][kind])

OwnedTo(kind, n) ==
    \A i \in Claim(kind, n) :
        /\ <<kind, Mounted[i][kind]>> \in DOMAIN owner
        /\ kind # "check" => owner[<<kind, Mounted[i][kind]>>] = Mounted[i].name

OwnerInv ==
    /\ \A q \in DOMAIN owner : \E kind \in KindSet : \E i \in Claim(kind, Upto(kind)) :
          q = <<kind, Mounted[i][kind]>>
    /\ \A kind \in KindSet : SoundTo(kind, Upto(kind)) /\ OwnedTo(kind, Upto(kind))

MountedInv ==
    pc \in KindSet \cup {"up", "ran"} =>
        /\ ProxiesSound /\ CatalogueSound /\ FactoriesOK
        /\ registry.modules = Mounted
        /\ pc \in KindSet => at <= Len(Mounted) + 1
        /\ OwnerInv

FailedInv == pc = "failed" => ~(SettingsSound /\ CatalogueSound /\ MountedSound)

RanInv ==
    /\ ran # None => pc = "ran"
    /\ pc \notin KindSet \cup {"up", "ran", "failed"} => DOMAIN owner = {}
    /\ RunsTheOwner

WInv == TypeOK /\ SettingsInv /\ Begun /\ BuildPhase /\ MountedInv /\ FailedInv /\ RanInv

-----------------------------------------------------------------------------
(* Shapes.                                                                 *)

LEMMA SameTop ==
  ASSUME NEW m \in Nat, NEW n \in Nat, 1..m = 1..n
  PROVE  m = n
  <1>1. CASE m = 0
    <2>1. ~(n >= 1)
      <3>1. 1 \notin 1..m
        BY <1>1
      <3> QED BY <3>1
    <2> QED BY <1>1, <2>1
  <1>2. CASE m >= 1
    <2>1. m \in 1..n
      BY <1>2
    <2>2. n \in 1..n
      BY <2>1
    <2>3. n \in 1..m
      BY <2>2
    <2> QED BY <2>1, <2>3
  <1> QED BY <1>1, <1>2

(* A function on an interval is a sequence. *)
LEMMA FcnSeq ==
  ASSUME NEW n \in Nat, NEW f, NEW S, f \in [1..n -> S]
  PROVE  f \in Seq(S) /\ Len(f) = n /\ DOMAIN f = 1..n /\ (f = <<>> <=> n = 0)
  <1>1. f \in Seq(S)
    BY SeqDef
  <1>2. DOMAIN f = 1..Len(f) /\ Len(f) \in Nat
    BY <1>1, LenProperties
  <1>3. Len(f) = n
    BY <1>2, SameTop
  <1>4. f # <<>> => Len(f) # 0
    BY <1>1, EmptySeq
  <1>5. f = <<>> => Len(f) = 0
    BY EmptySeq
  <1> QED BY <1>1, <1>2, <1>3, <1>4, <1>5

LEMMA Shapes ==
  ASSUME TypeOK
  PROVE  /\ Len(layers) \in Nat /\ DOMAIN layers = 1..Len(layers)
         /\ Len(catalogue) \in Nat /\ DOMAIN catalogue = 1..Len(catalogue)
         /\ catalogue \in [1..Len(catalogue) -> ToSet(catalogue)]
         /\ layers = <<>> <=> Len(layers) = 0
         /\ catalogue = <<>> <=> Len(catalogue) = 0
  <1>1. layers \in Seq(ToSet(layers)) /\ catalogue \in Seq(ToSet(catalogue))
    BY SequencesAssumption DEF TypeOK
  <1>2. /\ Len(layers) \in Nat /\ DOMAIN layers = 1..Len(layers)
        /\ layers \in [1..Len(layers) -> ToSet(layers)]
    BY <1>1, LenProperties
  <1>3. /\ Len(catalogue) \in Nat /\ DOMAIN catalogue = 1..Len(catalogue)
        /\ catalogue \in [1..Len(catalogue) -> ToSet(catalogue)]
    BY <1>1, LenProperties
  <1>4. layers = <<>> <=> Len(layers) = 0
    BY <1>2, FcnSeq
  <1>5. catalogue = <<>> <=> Len(catalogue) = 0
    BY <1>3, FcnSeq
  <1> QED BY <1>2, <1>3, <1>4, <1>5

LEMMA PickShape ==
  ASSUME NEW n \in Nat, NEW s, DOMAIN s = 1..n, NEW I \in SUBSET (1..n)
  PROVE  /\ Cardinality(I) \in Nat
         /\ Pick(s, I) \in [1..Cardinality(I) -> ToSet(s)]
         /\ Len(Pick(s, I)) = Cardinality(I)
         /\ \A k \in 1..Cardinality(I) : Place(I)[k] \in I /\ Pick(s, I)[k] = s[Place(I)[k]]
         /\ \A i \in I : \E k \in 1..Cardinality(I) : Pick(s, I)[k] = s[i]
         /\ Pick(s, I) = <<>> <=> I = {}
  <1> DEFINE c == Cardinality(I)
             p == Pick(s, I)
  <1>1. c \in Nat /\ Place(I) \in [1..c -> I] /\ \A i \in I : \E k \in 1..c : Place(I)[k] = i
    BY Places
  <1>2. p = [k \in 1..c |-> s[Place(I)[k]]]
    BY PickPlaces
  <1>3. \A k \in 1..c : Place(I)[k] \in I /\ p[k] = s[Place(I)[k]]
    BY <1>1, <1>2
  <1>4. \A k \in 1..c : s[Place(I)[k]] \in ToSet(s)
    BY <1>3 DEF ToSet
  <1>5. p \in [1..c -> ToSet(s)]
    BY <1>2, <1>4
  <1>6. \A i \in I : \E k \in 1..c : p[k] = s[i]
    BY <1>1, <1>3
  <1> HIDE DEF c, p
  <1>7. Len(p) = c /\ (p = <<>> <=> c = 0)
    BY <1>1, <1>5, FcnSeq
  <1>8. c = 0 <=> I = {}
    <2>1. c = 0 => I = {}
      BY <1>6
    <2>2. I = {} => c = 0
      BY FS_EmptySet DEF c
    <2> QED BY <2>1, <2>2
  <1> QED BY <1>1, <1>3, <1>5, <1>6, <1>7, <1>8 DEF c, p

LEMMA CleanSet ==
  ASSUME NEW list, list \in Seq(ToSet(list))
  PROVE  ToSet(Clean(list)) = ToSet(list) \ {Blank} /\ (Clean(list) = <<>> <=> ToSet(list) \ {Blank} = {})
  <1> DEFINE n == Len(list)
             I == {i \in DOMAIN list : list[i] # Blank}
             p == Pick(list, I)
  <1>1. n \in Nat /\ DOMAIN list = 1..n /\ list \in [1..n -> ToSet(list)]
    BY LenProperties
  <1>2. I \in SUBSET (1..n) /\ I = {i \in 1..n : list[i] # Blank}
    BY <1>1
  <1>3. /\ p \in [1..Cardinality(I) -> ToSet(list)]
        /\ \A k \in 1..Cardinality(I) : Place(I)[k] \in I /\ p[k] = list[Place(I)[k]]
        /\ \A i \in I : \E k \in 1..Cardinality(I) : p[k] = list[i]
        /\ p = <<>> <=> I = {}
    <2>1. I \in SUBSET (1..n)
      BY <1>2
    <2> HIDE DEF I, n
    <2> QED BY <1>1, <2>1, PickShape
  <1> HIDE DEF p, n
  <1>4. ToSet(p) = {p[k] : k \in 1..Cardinality(I)}
    BY <1>3 DEF ToSet
  <1>5. ToSet(list) \ {Blank} = {list[i] : i \in I}
    BY <1>1, <1>2 DEF ToSet
  <1>6. ToSet(p) = {list[i] : i \in I}
    <2> HIDE DEF I
    <2> QED BY <1>3, <1>4
  <1>7. Clean(list) = p
    BY DEF Clean, p
  <1> QED BY <1>3, <1>5, <1>6, <1>7

-----------------------------------------------------------------------------
(* Settings: the layer that won.                                           *)

LEMMA HighestIs ==
  ASSUME NEW S \in SUBSET Nat, NEW i \in S, \A j \in S : j <= i
  PROVE  Highest(S) = i
  <1>1. Highest(S) \in S /\ \A j \in S : j <= Highest(S)
    BY DEF Highest
  <1>2. Highest(S) \in Nat /\ i \in Nat /\ i <= Highest(S) /\ Highest(S) <= i
    BY <1>1
  <1> QED BY <1>2

LEMMA Winners ==
  ASSUME TypeOK, ResolvedTo(Len(layers))
  PROVE  /\ \A k \in DOMAIN sources : sources[k] = Highest(Layers(k))
         /\ \A k : k \in DOMAIN sources <=> Layers(k) # {}
         /\ DOMAIN values = DOMAIN sources
         /\ \A k \in DOMAIN values : values[k] = layers[Highest(Layers(k))].vals[k]
         /\ \A k \in DOMAIN values : k \in Supplied(layers[Highest(Layers(k))])
                                     /\ Highest(Layers(k)) \in DOMAIN layers
  <1>0. Len(layers) \in Nat /\ DOMAIN layers = 1..Len(layers)
    BY Shapes
  <1>1. ASSUME NEW k \in DOMAIN sources  PROVE sources[k] = Highest(Layers(k)) /\ Layers(k) # {}
    <2>1. sources[k] \in Layers(k) /\ \A i \in Layers(k) : i <= sources[k]
      BY <1>0 DEF ResolvedTo, Layers
    <2>2. Layers(k) \in SUBSET Nat
      BY <1>0 DEF Layers
    <2> QED BY <2>1, <2>2, HighestIs
  <1>2. ASSUME NEW k, Layers(k) # {}  PROVE k \in DOMAIN sources
    BY <1>0, <1>2 DEF ResolvedTo, Layers
  <1>3. DOMAIN values = DOMAIN sources
    BY DEF ResolvedTo
  <1>4. \A k \in DOMAIN sources : values[k] = layers[Highest(Layers(k))].vals[k]
    BY <1>1 DEF ResolvedTo
  <1>5. \A k \in DOMAIN sources : k \in Supplied(layers[Highest(Layers(k))])
                                  /\ Highest(Layers(k)) \in DOMAIN layers
    BY <1>0, <1>1 DEF ResolvedTo
  <1> QED BY <1>1, <1>2, <1>3, <1>4, <1>5

LEMMA SelectionIs ==
  ASSUME TypeOK, ResolvedTo(Len(layers))
  PROVE  ToSet(Selection) = Spelled /\ (Selection = <<>> <=> Spelled = {})
  <1>1. CASE Layers(Modules) = {}
    <2>1. Modules \notin DOMAIN values
      BY <1>1, Winners
    <2>2. Selection = <<>> /\ Spelled = {}
      BY <1>1, <2>1 DEF Selection, Spelled
    <2>3. ToSet(<<>>) = {}
      BY DEF ToSet
    <2> QED BY <2>2, <2>3
  <1>2. CASE Layers(Modules) # {}
    <2> DEFINE l == layers[Highest(Layers(Modules))]
               list == l.vals[Modules]
    <2>1. Modules \in DOMAIN values /\ values[Modules] = list
      BY <1>2, Winners
    <2>2. Modules \in Supplied(l) /\ Highest(Layers(Modules)) \in DOMAIN layers
      BY <2>1, Winners
    <2>3. Modules \in DOMAIN l.vals
      BY <2>2 DEF Supplied
    <2>4. list \in Seq(ToSet(list))
      BY <2>2, <2>3, StacksAssumption DEF TypeOK
    <2>5. Selection = Clean(list) /\ Spelled = ToSet(list) \ {Blank}
      BY <1>2, <2>1 DEF Selection, Spelled
    <2> HIDE DEF list
    <2> QED BY <2>4, <2>5, CleanSet
  <1> QED BY <1>1, <1>2

-----------------------------------------------------------------------------
(* The modules that are wanted.                                            *)

LEMMA AskedIs ==
  Asked.modules = Mounted /\ Asked.unknown = Spelled \ ToSet(Names(catalogue))
  BY DEF Asked, Mounted, Wanted, Spelled

LEMMA Mounts ==
  ASSUME TypeOK
  PROVE  /\ Len(Mounted) \in Nat
         /\ Mounted \in [1..Len(Mounted) -> ToSet(catalogue)]
         /\ \A k \in 1..Len(Mounted) : Place(Wanted)[k] \in Wanted
                                       /\ Mounted[k] = catalogue[Place(Wanted)[k]]
         /\ \A i \in Wanted : \E k \in 1..Len(Mounted) : Mounted[k] = catalogue[i]
         /\ Mounted = <<>> <=> Wanted = {}
  <1>1. Len(catalogue) \in Nat /\ DOMAIN catalogue = 1..Len(catalogue)
    BY Shapes
  <1>2. Wanted \in SUBSET (1..Len(catalogue))
    BY Shapes DEF Wanted
  <1>3. /\ Cardinality(Wanted) \in Nat
        /\ Mounted \in [1..Cardinality(Wanted) -> ToSet(catalogue)]
        /\ Len(Mounted) = Cardinality(Wanted)
        /\ \A k \in 1..Cardinality(Wanted) : Place(Wanted)[k] \in Wanted
                                             /\ Mounted[k] = catalogue[Place(Wanted)[k]]
        /\ \A i \in Wanted : \E k \in 1..Cardinality(Wanted) : Mounted[k] = catalogue[i]
        /\ Mounted = <<>> <=> Wanted = {}
    BY <1>1, <1>2, PickShape DEF Mounted
  <1> QED BY <1>3

(* With distinct names a position is found again by its name. *)
LEMMA NamedIs ==
  ASSUME NEW ms, NEW i \in DOMAIN ms, ~Repeats(Names(ms))
  PROVE  Named(ms, ms[i].name) = ms[i]
  <1>1. \A m \in ToSet(ms) : m.name = ms[i].name => m = ms[i]
    BY DEF Repeats, Names, ToSet
  <1>2. ms[i] \in ToSet(ms)
    BY DEF ToSet
  <1> QED BY <1>1, <1>2 DEF Named

LEMMA NamesShape ==
  ASSUME NEW n \in Nat, NEW ms, DOMAIN ms = 1..n
  PROVE  /\ DOMAIN Names(ms) = 1..n /\ Len(Names(ms)) = n
         /\ \A i \in 1..n : Names(ms)[i] = ms[i].name
         /\ Names(ms) = <<>> <=> n = 0
         /\ \A x : x \in ToSet(Names(ms)) <=> \E i \in 1..n : ms[i].name = x
  <1>1. DOMAIN Names(ms) = 1..n /\ \A i \in 1..n : Names(ms)[i] = ms[i].name
    BY DEF Names
  <1>2. Names(ms) \in [1..n -> ToSet(Names(ms))]
    BY DEF Names, ToSet
  <1>3. Len(Names(ms)) = n /\ (Names(ms) = <<>> <=> n = 0)
    BY <1>2, FcnSeq
  <1>4. \A x : x \in ToSet(Names(ms)) <=> \E i \in 1..n : ms[i].name = x
    BY <1>1 DEF ToSet
  <1> QED BY <1>1, <1>3, <1>4

LEMMA PickAll ==
  ASSUME NEW n \in Nat, NEW S, NEW s \in [1..n -> S]
  PROVE  Pick(s, 1..n) = s
  <1>1. Pick(s, 1..n) = [k \in 1..n |-> s[Place(1..n)[k]]]
    BY PickPlaces, PlaceAll
  <1>2. \A k \in 1..n : Place(1..n)[k] = k
    BY PlaceAll
  <1> QED BY <1>1, <1>2

Chosen == ToSet(Selection) = Spelled /\ (Selection = <<>> <=> Spelled = {})

LEMMA WantedIs ==
  ASSUME TypeOK, Chosen
  PROVE  resolveSelection(Names(catalogue)) = Names(Mounted)
  <1>0. /\ Len(catalogue) \in Nat /\ DOMAIN catalogue = 1..Len(catalogue)
        /\ catalogue \in [1..Len(catalogue) -> ToSet(catalogue)]
    BY Shapes
  <1>1. CASE Spelled = {}
    <2>1. Wanted = 1..Len(catalogue)
      BY <1>0, <1>1 DEF Wanted
    <2>2. Mounted = catalogue
      BY <1>0, <2>1, PickAll DEF Mounted
    <2> QED BY <1>1, <2>2 DEF resolveSelection, Chosen
  <1>2. CASE Spelled # {}
    <2> DEFINE ns == Names(catalogue)
               c == Cardinality(Wanted)
    <2>1. DOMAIN ns = 1..Len(catalogue) /\ \A i \in 1..Len(catalogue) : ns[i] = catalogue[i].name
      BY <1>0, NamesShape
    <2>2. {i \in DOMAIN ns : ns[i] \in ToSet(Selection)} = Wanted
      BY <1>0, <1>2, <2>1 DEF Wanted, Chosen
    <2>3. resolveSelection(ns) = Pick(ns, Wanted)
      BY <1>2, <2>2 DEF resolveSelection, Chosen
    <2>4. Wanted \in SUBSET (1..Len(catalogue))
      BY <1>0 DEF Wanted
    <2>5. c \in Nat /\ Place(Wanted) \in [1..c -> Wanted]
      BY <1>0, <2>4, Places
    <2> HIDE DEF ns
    <2>6. Pick(ns, Wanted) = [k \in 1..c |-> ns[Place(Wanted)[k]]]
      BY PickPlaces
    <2>7. Mounted = [k \in 1..c |-> catalogue[Place(Wanted)[k]]]
      BY PickPlaces DEF Mounted
    <2>8. \A k \in 1..c : ns[Place(Wanted)[k]] = catalogue[Place(Wanted)[k]].name
      BY <2>1, <2>4, <2>5
    <2>9. Names(Mounted) = [k \in 1..c |-> catalogue[Place(Wanted)[k]].name]
      <3> HIDE DEF c
      <3> QED BY <2>7 DEF Names
    <2> QED BY <2>3, <2>6, <2>8, <2>9 DEF ns
  <1> QED BY <1>1, <1>2

(* Asked again of the modules that were built, the selection is all of them. *)
LEMMA WantedAgain ==
  ASSUME TypeOK, Chosen
  PROVE  resolveSelection(Names(Mounted)) = Names(Mounted)
  <1> DEFINE n == Len(Mounted)
             ns == Names(Mounted)
  <1>1. n \in Nat /\ DOMAIN Mounted = 1..n
    BY Mounts
  <1>2. DOMAIN ns = 1..n /\ \A i \in 1..n : ns[i] = Mounted[i].name
    BY <1>1, NamesShape
  <1>3. CASE Spelled # {}
    <2>1. \A i \in 1..n : Place(Wanted)[i] \in Wanted /\ Mounted[i] = catalogue[Place(Wanted)[i]]
      BY Mounts
    <2>2. \A i \in 1..n : ns[i] \in Spelled
      BY <1>2, <1>3, <2>1 DEF Wanted
    <2>3. {i \in DOMAIN ns : ns[i] \in ToSet(Selection)} = 1..n
      BY <1>2, <2>2 DEF Chosen
    <2>4. ns \in [1..n -> ToSet(ns)]
      BY <1>2 DEF ToSet, Names
    <2>5. resolveSelection(ns) = Pick(ns, 1..n)
      BY <1>3, <2>3 DEF resolveSelection, Chosen
    <2> HIDE DEF n, ns
    <2> QED BY <1>1, <2>4, <2>5, PickAll DEF ns
  <1>4. CASE Spelled = {}
    BY <1>4 DEF resolveSelection, Chosen
  <1> QED BY <1>3, <1>4

LEMMA MountedNames ==
  ASSUME TypeOK, CatalogueSound
  PROVE  /\ ~BadNames(Names(Mounted))
         /\ Spelled \subseteq ToSet(Names(Mounted))
  <1> DEFINE n == Len(Mounted)
             N == Len(catalogue)
  <1>1. N \in Nat /\ DOMAIN catalogue = 1..N /\ n \in Nat /\ DOMAIN Mounted = 1..n
    BY Shapes, Mounts
  <1>2. /\ catalogue # <<>> /\ Spelled \subseteq ToSet(Names(catalogue))
        /\ \A i \in 1..N : catalogue[i].name # Blank
        /\ \A i, j \in 1..N : i # j => catalogue[i].name # catalogue[j].name
    <2>1. /\ Names(catalogue) # <<>> /\ Blank \notin ToSet(Names(catalogue))
          /\ ~Repeats(Names(catalogue)) /\ Spelled \subseteq ToSet(Names(catalogue))
      BY AskedIs DEF CatalogueSound, BadNames
    <2>2. DOMAIN Names(catalogue) = 1..N /\ \A i \in 1..N : Names(catalogue)[i] = catalogue[i].name
      BY <1>1, NamesShape
    <2>3. Names(catalogue) = <<>> <=> N = 0
      BY <1>1, NamesShape
    <2>4. \A i \in 1..N : catalogue[i].name # Blank
      BY <2>1, <2>2 DEF ToSet
    <2>5. \A i, j \in 1..N : i # j => catalogue[i].name # catalogue[j].name
      BY <2>1, <2>2 DEF Repeats
    <2> QED BY <2>1, <2>3, <2>4, <2>5, Shapes
  <1>3. \A i \in 1..n : Place(Wanted)[i] \in Wanted /\ Mounted[i] = catalogue[Place(Wanted)[i]]
    BY Mounts
  <1>4. Wanted \in SUBSET (1..N) /\ n = Cardinality(Wanted)
    <2>1. Wanted \in SUBSET (1..N)
      BY <1>1 DEF Wanted
    <2>2. n = Cardinality(Wanted)
      BY <1>1, <2>1, PickShape DEF Mounted
    <2> QED BY <2>1, <2>2
  <1>5. \A i, j \in 1..n : i # j => Place(Wanted)[i] # Place(Wanted)[j]
    <2>1. \A i, j \in 1..n : i < j => Place(Wanted)[i] < Place(Wanted)[j]
      BY <1>1, <1>4, Places
    <2>2. \A i \in 1..n : Place(Wanted)[i] \in Int
      <3>1. \A x \in Wanted : x \in Int
        BY <1>1, <1>4
      <3> QED BY <1>3, <3>1
    <2> HIDE DEF n
    <2> QED BY <1>1, <2>1, <2>2
  <1>6. /\ \A i, j \in 1..n : i # j => Mounted[i].name # Mounted[j].name
        /\ \A i \in 1..n : Mounted[i].name # Blank
    <2>1. \A i \in 1..n : Place(Wanted)[i] \in 1..N /\ Mounted[i] = catalogue[Place(Wanted)[i]]
      BY <1>3, <1>4
    <2> HIDE DEF n, N
    <2> QED BY <1>2, <1>5, <2>1
  <1>7. Spelled \subseteq ToSet(Names(Mounted))
    <2>1. ASSUME NEW x \in Spelled  PROVE x \in ToSet(Names(Mounted))
      <3>1. PICK i \in 1..N : catalogue[i].name = x
        BY <1>1, <1>2, <2>1, NamesShape
      <3>2. i \in Wanted
        BY <1>1, <2>1, <3>1 DEF Wanted
      <3>3. PICK k \in 1..n : Mounted[k] = catalogue[i]
        BY <3>2, Mounts
      <3> QED BY <1>1, <3>1, <3>3, NamesShape
    <2> QED BY <2>1
  <1>8. Mounted # <<>>
    <2>1. CASE Spelled = {}
      <3>1. 1 \in 1..N
        BY <1>1, <1>2, Shapes
      <3>2. 1 \in Wanted
        BY <1>1, <2>1, <3>1 DEF Wanted
      <3> QED BY <3>2, Mounts
    <2>2. CASE Spelled # {}
      <3>1. n # 0
        BY <1>1, <1>7, <2>2, NamesShape
      <3> QED BY <3>1, EmptySeq
    <2> QED BY <2>1, <2>2
  <1>9. ~BadNames(Names(Mounted))
    <2>1. DOMAIN Names(Mounted) = 1..n /\ \A i \in 1..n : Names(Mounted)[i] = Mounted[i].name
      BY <1>1, NamesShape
    <2>2. ~Repeats(Names(Mounted))
      BY <1>6, <2>1 DEF Repeats
    <2>3. Blank \notin ToSet(Names(Mounted))
      BY <1>6, <2>1 DEF ToSet
    <2>4. Names(Mounted) # <<>>
      <3>1. n # 0
        BY <1>1, <1>8, Mounts, FcnSeq
      <3> QED BY <1>1, <3>1, NamesShape
    <2> QED BY <2>2, <2>3, <2>4 DEF BadNames
  <1> QED BY <1>7, <1>9

(* What newRegistry mounts, of all the modules or of those built. *)
LEMMA RegistryIs ==
  ASSUME TypeOK, CatalogueSound, NEW ms, ms = catalogue \/ ms = Mounted
  PROVE  [i \in DOMAIN Names(Mounted) |-> Named(ms, Names(Mounted)[i])] = Mounted
  <1> DEFINE n == Len(Mounted)
  <1>1. /\ n \in Nat /\ Mounted \in [1..n -> ToSet(catalogue)]
        /\ \A k \in 1..n : Place(Wanted)[k] \in DOMAIN catalogue
                           /\ Mounted[k] = catalogue[Place(Wanted)[k]]
    BY Mounts DEF Wanted
  <1>2. DOMAIN Names(Mounted) = 1..n /\ \A i \in 1..n : Names(Mounted)[i] = Mounted[i].name
    BY <1>1, NamesShape
  <1>3. ~Repeats(Names(catalogue)) /\ ~Repeats(Names(Mounted))
    BY MountedNames DEF CatalogueSound, BadNames
  <1>4. ASSUME NEW i \in 1..n  PROVE Named(ms, Mounted[i].name) = Mounted[i]
    <2>1. CASE ms = Mounted
      BY <1>1, <1>3, <2>1, NamedIs
    <2>2. CASE ms = catalogue
      BY <1>1, <1>3, <2>2, NamedIs
    <2> QED BY <2>1, <2>2
  <1> HIDE DEF n
  <1>5. [i \in DOMAIN Names(Mounted) |-> Named(ms, Names(Mounted)[i])] = [i \in 1..n |-> Mounted[i]]
    BY <1>2, <1>4
  <1> QED BY <1>1, <1>5

-----------------------------------------------------------------------------
(* Steps.  What a process was given does not change.                       *)

LEMMA Still ==
  ASSUME UNCHANGED input
  PROVE  /\ layers' = layers /\ catalogue' = catalogue /\ entry' = entry
         /\ Mounted' = Mounted
         /\ LoadSound' <=> LoadSound
         /\ ProxiesSound' <=> ProxiesSound
         /\ SettingsSound' <=> SettingsSound
         /\ CatalogueSound' <=> CatalogueSound
         /\ MountedSound' <=> MountedSound
         /\ FactoriesOK' <=> FactoriesOK
  <1>1. layers' = layers /\ catalogue' = catalogue /\ entry' = entry
    BY DEF input
  <1>2. ASSUME NEW k  PROVE Layers(k)' = Layers(k)
    BY <1>1 DEF Layers
  <1>3. Spelled' = Spelled
    BY <1>1, <1>2 DEF Spelled
  <1>4. Wanted' = Wanted
    BY <1>1, <1>3 DEF Wanted
  <1>5. Mounted' = Mounted
    BY <1>1, <1>4 DEF Mounted
  <1>6. (LoadSound' <=> LoadSound) /\ (ProxiesSound' <=> ProxiesSound)
        /\ (SettingsSound' <=> SettingsSound)
    <2>1. LoadSound' <=> LoadSound
      BY <1>1, <1>2 DEF LoadSound
    <2>2. ProxiesSound' <=> ProxiesSound
      BY <1>1, <1>2 DEF ProxiesSound
    <2> QED BY <2>1, <2>2 DEF SettingsSound
  <1>7. Asked.modules' = Asked.modules /\ Asked.unknown' = Asked.unknown
    <2>1. Asked.modules' = Mounted' /\ Asked.unknown' = Spelled' \ ToSet(Names(catalogue'))
      BY <1>1, <1>2, <1>3, <1>4, <1>5 DEF Asked, Mounted, Wanted, Spelled
    <2> QED BY <1>1, <1>3, <1>5, <2>1, AskedIs
  <1>8. CatalogueSound' <=> CatalogueSound
    BY <1>1, <1>7 DEF CatalogueSound
  <1>9. MountedSound' <=> MountedSound
    BY <1>1, <1>7 DEF MountedSound
  <1>10. FactoriesOK' <=> FactoriesOK
    BY <1>1, <1>5 DEF FactoriesOK
  <1> QED BY <1>1, <1>5, <1>6, <1>8, <1>9, <1>10

LEMMA FailStep ==
  ASSUME WInv, Fail, UNCHANGED <<input, ran>>, pc # "ran", Begun',
         ~(SettingsSound /\ CatalogueSound /\ MountedSound)
  PROVE  WInv'
  <1>1. pc' = "failed" /\ at' = 1 /\ UNCHANGED input
    BY DEF Fail, Goto
  <1>2. ran' = None
    BY DEF WInv, RanInv
  <1>3. TypeOK'
    BY <1>1 DEF WInv, TypeOK, input
  <1>4. FailedInv'
    BY <1>1, Still DEF FailedInv
  <1>5. RanInv'
    BY <1>1, <1>2 DEF RanInv, RunsTheOwner
  <1>6. SettingsInv' /\ BuildPhase' /\ MountedInv'
    BY <1>1 DEF SettingsInv, BuildPhase, MountedInv, KindSet
  <1> QED BY <1>3, <1>4, <1>5, <1>6 DEF WInv

(* Before anything is built. *)
LEMMA EarlyStep ==
  ASSUME WInv, TypeOK', SettingsInv', Begun', pc \in {"resolve", "New", "NewFromFactories"},
         pc' \in {"resolve", "New", "NewFromFactories"}, pc' \in {"resolve", entry'},
         UNCHANGED <<modules, built, owner, ran>>
  PROVE  WInv'
  <1>1. ran' = None /\ DOMAIN owner' = {}
    BY DEF WInv, RanInv, KindSet
  <1>2. RanInv'
    BY <1>1 DEF RanInv, RunsTheOwner
  <1>3. BuildPhase'
    BY DEF WInv, BuildPhase
  <1>4. FailedInv' /\ MountedInv'
    BY DEF FailedInv, MountedInv, KindSet
  <1> QED BY <1>2, <1>3, <1>4 DEF WInv

LEMMA BegunStill ==
  ASSUME Begun, UNCHANGED input, UNCHANGED built
  PROVE  Begun'
  BY Still DEF Begun

LEMMA ResolveSourceStep ==
  ASSUME WInv, ResolveSource
  PROVE  WInv'
  <1> DEFINE l == layers[at]
             S == Supplied(l)
  <1>1. /\ pc = "resolve" /\ at \in 1..Len(layers) /\ at \in DOMAIN layers /\ ResolvedTo(at - 1)
        /\ UNCHANGED <<input, modules, built, registry, owner, ran>> /\ at \in Nat
    BY Shapes DEF WInv, TypeOK, SettingsInv, ResolveSource
  <1>2. Begun'
    BY <1>1, BegunStill DEF WInv
  <1>3. CASE SourceFails(l) \/ ~(S \subseteq knownKeys)
    <2>1. Fail
      BY <1>3 DEF ResolveSource
    <2>2. SourceFails(l) \/ Typo \in S
      BY <1>3 DEF Supplied
    <2>3. ~SettingsSound
      BY <1>1, <2>2 DEF SettingsSound, LoadSound
    <2> QED BY <1>1, <1>2, <2>1, <2>3, FailStep
  <1>4. CASE ~SourceFails(l) /\ S \subseteq knownKeys
    <2>1. /\ values' = Overlay(values, [k \in S |-> l.vals[k]])
          /\ sources' = Overlay(sources, [k \in S |-> at])
          /\ pc' = "resolve" /\ at' = at + 1
      BY <1>1, <1>4 DEF ResolveSource
    <2>2. layers' = layers
      BY <1>1 DEF input
    <2>3. Typo \notin S
      BY <1>4 DEF knownKeys, Modules, LogLevel, TrustedProxies, Typo
    <2> HIDE DEF S, l
    <2>4. /\ DOMAIN values' = DOMAIN values \cup S /\ DOMAIN sources' = DOMAIN sources \cup S
          /\ \A k \in S : sources'[k] = at /\ values'[k] = l.vals[k]
          /\ \A k \in DOMAIN sources \ S : sources'[k] = sources[k]
          /\ \A k \in DOMAIN values \ S : values'[k] = values[k]
      BY <2>1 DEF Overlay
    <2>5. DOMAIN values = DOMAIN sources
      BY <1>1 DEF ResolvedTo
    <2>6. \A i \in 1..at : i = at \/ i \in 1..(at - 1)
      BY <1>1
    <2>7. \A i \in 1..at : ~SourceFails(layers[i]) /\ Typo \notin Supplied(layers[i])
      BY <1>1, <1>4, <2>3, <2>6 DEF ResolvedTo, S, l
    <2>8. \A i \in 1..at : Supplied(layers[i]) \subseteq DOMAIN sources'
      BY <1>1, <2>4, <2>6 DEF ResolvedTo, S, l
    <2>9. ASSUME NEW k \in DOMAIN sources'
          PROVE  /\ sources'[k] \in 1..at
                 /\ k \in Supplied(layers[sources'[k]])
                 /\ values'[k] = layers[sources'[k]].vals[k]
                 /\ \A i \in 1..at : k \in Supplied(layers[i]) => i <= sources'[k]
      <3>1. CASE k \in S
        BY <1>1, <2>4, <3>1 DEF S, l
      <3>2. CASE k \notin S
        <4>1. k \in DOMAIN sources /\ sources'[k] = sources[k] /\ values'[k] = values[k]
          BY <2>4, <2>5, <3>2
        <4>2. /\ sources[k] \in 1..(at - 1)
              /\ k \in Supplied(layers[sources[k]])
              /\ values[k] = layers[sources[k]].vals[k]
              /\ \A i \in 1..(at - 1) : k \in Supplied(layers[i]) => i <= sources[k]
          BY <1>1, <4>1 DEF ResolvedTo
        <4>3. \A i \in 1..at : k \in Supplied(layers[i]) => i <= sources[k]
          BY <2>6, <3>2, <4>2 DEF S, l
        <4>4. sources[k] \in 1..at
          BY <1>1, <4>2
        <4> QED BY <4>1, <4>2, <4>3, <4>4
      <3> QED BY <3>1, <3>2
    <2>10. ResolvedTo(at - 1)'
      <3>1. at' - 1 = at
        BY <1>1, <2>1
      <3> QED BY <2>2, <2>4, <2>5, <2>7, <2>8, <2>9, <3>1 DEF ResolvedTo
    <2>11. TypeOK' /\ SettingsInv'
      BY <1>1, <2>1, <2>2, <2>10 DEF WInv, TypeOK, SettingsInv, input
    <2> QED BY <1>1, <1>2, <2>1, <2>11, EarlyStep
  <1> QED BY <1>3, <1>4

LEMMA SettledStill ==
  ASSUME UNCHANGED <<input, resolved>>, LoadSound, ResolvedTo(Len(layers)), pc' # "resolve"
  PROVE  SettingsInv'
  <1>1. layers' = layers /\ values' = values /\ sources' = sources
    BY DEF input, resolved
  <1>2. ResolvedTo(Len(layers))'
    BY <1>1 DEF ResolvedTo
  <1> QED BY <1>2, Still DEF SettingsInv

LEMMA LoadStep ==
  ASSUME WInv, Load
  PROVE  WInv'
  <1>1. /\ pc = "resolve" /\ at = Len(layers) + 1 /\ ResolvedTo(Len(layers))
        /\ UNCHANGED <<input, resolved, modules, built, registry, owner, ran>>
    <2>1. pc = "resolve" /\ at > Len(layers) /\ at <= Len(layers) + 1 /\ ResolvedTo(at - 1)
          /\ at \in Nat /\ Len(layers) \in Nat
      BY Shapes DEF WInv, TypeOK, SettingsInv, Load
    <2>2. at = Len(layers) + 1 /\ at - 1 = Len(layers)
      BY <2>1
    <2> QED BY <2>1, <2>2 DEF Load
  <1>2. Begun' /\ UNCHANGED input
    BY <1>1, BegunStill DEF WInv
  <1>3. TypeOK /\ DOMAIN layers = 1..Len(layers)
    BY Shapes DEF WInv
  <1>4. /\ LogLevel \in DOMAIN values <=> Layers(LogLevel) # {}
        /\ LogLevel \in DOMAIN values =>
              values[LogLevel] = layers[Highest(Layers(LogLevel))].vals[LogLevel]
    BY <1>1, <1>3, Winners
  <1>5. CASE layers = <<>> \/ (LogLevel \in DOMAIN values /\ values[LogLevel] # "info")
    <2>1. ~SettingsSound
      BY <1>4, <1>5 DEF SettingsSound, LoadSound
    <2>2. Fail
      BY <1>5 DEF Load
    <2> QED BY <1>1, <1>2, <2>1, <2>2, FailStep
  <1>6. CASE ~(layers = <<>> \/ (LogLevel \in DOMAIN values /\ values[LogLevel] # "info"))
    <2>1. pc' = entry /\ at' = 1
      BY <1>6 DEF Load, Goto
    <2>2. LoadSound
      BY <1>1, <1>3, <1>4, <1>6 DEF LoadSound, ResolvedTo
    <2>3. entry \in {"New", "NewFromFactories"} /\ entry' = entry
      BY <1>1, <1>3 DEF TypeOK, input
    <2>4. TypeOK'
      BY <1>1, <1>3, <2>1, <2>3 DEF TypeOK, input
    <2>5. SettingsInv'
      BY <1>1, <2>1, <2>2, <2>3, SettledStill
    <2> QED BY <1>1, <1>2, <2>1, <2>3, <2>4, <2>5, EarlyStep
  <1> QED BY <1>5, <1>6

LEMMA NoneFcn ==
  /\ [i \in 1..0 |-> Mounted[i].name] = <<>>
  /\ [i \in 1..0 |-> Mounted[i]] = <<>>
  <1> DEFINE f == [i \in 1..0 |-> Mounted[i].name]
             g == [i \in 1..0 |-> Mounted[i]]
  <1>1. f \in [1..0 -> {0}] /\ g \in [1..0 -> {0}]
    OBVIOUS
  <1> HIDE DEF f, g
  <1>2. f = <<>> /\ g = <<>>
    BY <1>1, FcnSeq
  <1> QED BY <1>2 DEF f, g

(* After the settings, before the registry: what the selection is. *)
LEMMA Settled ==
  ASSUME WInv, pc \notin {"resolve", "failed"}
  PROVE  LoadSound /\ ResolvedTo(Len(layers)) /\ TypeOK /\ Chosen
  <1>1. LoadSound /\ ResolvedTo(Len(layers)) /\ TypeOK
    BY DEF WInv, SettingsInv
  <1> QED BY <1>1, SelectionIs DEF Chosen

LEMMA ValidateStep ==
  ASSUME WInv, Validate
  PROVE  WInv'
  <1>1. /\ pc = "NewFromFactories" /\ entry = "NewFromFactories" /\ built = <<>> /\ modules = <<>>
        /\ UNCHANGED <<input, resolved, modules, built, registry, owner, ran>>
    BY DEF WInv, BuildPhase, Validate
  <1>2. Begun' /\ UNCHANGED input /\ UNCHANGED <<input, resolved>>
    BY <1>1, BegunStill DEF WInv
  <1>3. LoadSound /\ ResolvedTo(Len(layers)) /\ TypeOK /\ Chosen
    BY <1>1, Settled
  <1>4. FactoriesFail <=> ~CatalogueSound
    <2>1. Unknown(Names(catalogue)) <=> Asked.unknown # {}
      BY <1>3, AskedIs DEF Unknown, Chosen
    <2> QED BY <1>1, <2>1 DEF FactoriesFail, CatalogueSound
  <1>5. CASE FactoriesFail
    <2>1. Fail
      BY <1>5 DEF Validate
    <2> QED BY <1>1, <1>2, <1>4, <1>5, <2>1, FailStep
  <1>6. CASE ~FactoriesFail
    <2>1. pc' = "build" /\ at' = 1
      BY <1>6 DEF Validate, Goto
    <2>2. TypeOK'
      BY <1>1, <1>3, <2>1 DEF TypeOK, input
    <2>3. SettingsInv'
      BY <1>2, <1>3, <2>1, SettledStill
    <2>4. Mounted' = Mounted /\ CatalogueSound' /\ entry' = entry /\ Len(Mounted) \in Nat
      BY <1>2, <1>3, <1>4, <1>6, Still, Mounts
    <2>5. BuildPhase'
      <3>1. at' - 1 = 0
        BY <2>1
      <3> QED BY <1>1, <2>1, <2>4, <3>1, NoneFcn DEF BuildPhase
    <2>6. ran' = None /\ DOMAIN owner' = {}
      BY <1>1 DEF WInv, RanInv, KindSet
    <2>7. RanInv' /\ FailedInv' /\ MountedInv'
      BY <2>1, <2>6 DEF RanInv, RunsTheOwner, FailedInv, MountedInv, KindSet
    <2> QED BY <1>2, <2>2, <2>3, <2>5, <2>7 DEF WInv
  <1> QED BY <1>5, <1>6

LEMMA AppendNext ==
  ASSUME NEW g, NEW n \in Nat
  PROVE  Append([i \in 1..n |-> g[i]], g[n + 1]) = [i \in 1..(n + 1) |-> g[i]]
  <1> DEFINE S == {g[i] : i \in 1..(n + 1)}
             f == [i \in 1..n |-> g[i]]
             a == Append(f, g[n + 1])
  <1>1. f \in [1..n -> S] /\ g[n + 1] \in S
    OBVIOUS
  <1>2. \A i \in 1..n : f[i] = g[i]
    OBVIOUS
  <1> HIDE DEF S, f
  <1>3. f \in Seq(S) /\ Len(f) = n
    BY <1>1, FcnSeq
  <1>4. a \in Seq(S) /\ Len(a) = n + 1 /\ (\A i \in 1..n : a[i] = f[i]) /\ a[n + 1] = g[n + 1]
    BY <1>1, <1>3, AppendProperties
  <1>5. a \in [1..(n + 1) -> S]
    BY <1>4, LenProperties
  <1> HIDE DEF a
  <1>6. \A i \in 1..(n + 1) : a[i] = g[i]
    <2>1. \A i \in 1..(n + 1) : i \in 1..n \/ i = n + 1
      OBVIOUS
    <2> QED BY <1>2, <1>4, <2>1
  <1>7. a = [i \in 1..(n + 1) |-> g[i]]
    BY <1>5, <1>6
  <1> QED BY <1>7 DEF a, f

LEMMA BuildStep ==
  ASSUME WInv, Build
  PROVE  WInv'
  <1> DEFINE wanted == resolveSelection(Names(catalogue))
             m == Named(catalogue, wanted[at])
             n == Len(Mounted)
  <1>1. /\ pc = "build" /\ entry = "NewFromFactories" /\ CatalogueSound
        /\ at \in Nat \ {0} /\ at <= n + 1
        /\ built = [i \in 1..(at - 1) |-> Mounted[i].name]
        /\ modules = [i \in 1..(at - 1) |-> Mounted[i]]
        /\ \A i \in 1..(at - 1) : Mounted[i].factory = "ok"
        /\ UNCHANGED <<input, resolved, registry, owner, ran>>
    BY DEF WInv, TypeOK, BuildPhase, Build
  <1>2. UNCHANGED input /\ UNCHANGED <<input, resolved>> /\ Begun
    BY <1>1 DEF WInv
  <1>3. LoadSound /\ ResolvedTo(Len(layers)) /\ TypeOK /\ Chosen
    BY <1>1, Settled
  <1>4. n \in Nat /\ DOMAIN Mounted = 1..n /\ Mounted \in [1..n -> ToSet(catalogue)]
    BY <1>3, Mounts
  <1>5. wanted = Names(Mounted)
    BY <1>3, WantedIs
  <1>6. Len(wanted) = n /\ \A i \in 1..n : wanted[i] = Mounted[i].name
    BY <1>4, <1>5, NamesShape
  <1>7. Mounted' = Mounted /\ (CatalogueSound' <=> CatalogueSound) /\ entry' = entry
        /\ (FactoriesOK' <=> FactoriesOK) /\ (LoadSound' <=> LoadSound)
    BY <1>2, Still
  <1>8. ran' = None /\ DOMAIN owner' = {}
    BY <1>1 DEF WInv, RanInv, KindSet
  <1> HIDE DEF wanted
  <1>9. CASE at > n
    <2>1. pc' = "registry" /\ at' = 1 /\ UNCHANGED <<modules, built>>
      BY <1>6, <1>9 DEF Build, Goto, wanted
    <2>2. at - 1 = n
      BY <1>1, <1>4, <1>9
    <2>3. modules' = Mounted /\ FactoriesOK
      BY <1>1, <1>4, <2>1, <2>2 DEF FactoriesOK
    <2>4. TypeOK'
      BY <1>1, <1>3, <2>1 DEF TypeOK, input
    <2>5. SettingsInv'
      BY <1>2, <1>3, <2>1, SettledStill
    <2>6. BuildPhase'
      BY <1>1, <1>7, <2>1, <2>3 DEF BuildPhase
    <2>7. RanInv' /\ FailedInv' /\ MountedInv'
      BY <1>8, <2>1 DEF RanInv, RunsTheOwner, FailedInv, MountedInv, KindSet
    <2>8. Begun'
      BY <1>2, <2>1, BegunStill
    <2> QED BY <2>4, <2>5, <2>6, <2>7, <2>8 DEF WInv
  <1>10. CASE at <= n
    <2>1. at \in 1..n /\ wanted[at] = Mounted[at].name
      BY <1>1, <1>4, <1>6, <1>10
    <2>2. m = Mounted[at]
      <3>1. ~Repeats(Names(catalogue))
        BY <1>1 DEF CatalogueSound, BadNames
      <3>2. Place(Wanted)[at] \in DOMAIN catalogue /\ Mounted[at] = catalogue[Place(Wanted)[at]]
        BY <1>3, <2>1, Mounts DEF Wanted
      <3> QED BY <2>1, <3>1, <3>2, NamedIs
    <2>3. built' = Append(built, Mounted[at].name)
      BY <1>1, <1>6, <2>1, <2>2 DEF Build, wanted
    <2>4. built' = [i \in 1..at |-> Mounted[i].name]
      <3> DEFINE g == Names(Mounted)
      <3>1. \A i \in 1..n : g[i] = Mounted[i].name
        BY <1>4, NamesShape
      <3> HIDE DEF g, n
      <3>2. [i \in 1..(at - 1) |-> Mounted[i].name] = [i \in 1..(at - 1) |-> g[i]]
        BY <1>1, <1>4, <1>10, <3>1
      <3>3. Append([i \in 1..(at - 1) |-> g[i]], g[(at - 1) + 1]) = [i \in 1..((at - 1) + 1) |-> g[i]]
        BY <1>1, AppendNext
      <3>4. (at - 1) + 1 = at
        BY <1>1
      <3>5. built' = [i \in 1..at |-> g[i]]
        BY <1>1, <2>1, <2>3, <3>1, <3>2, <3>3, <3>4
      <3> QED BY <1>1, <1>4, <1>10, <3>1, <3>5
    <2>5. Begun'
      <3>1. at \in 0..n
        BY <2>1
      <3> QED BY <1>1, <1>3, <1>7, <2>4, <3>1 DEF Begun
    <2>6. CASE m.factory # "ok"
      <3>1. Fail
        <4>1. ~(at > Len(wanted))
          BY <1>1, <1>4, <1>6, <1>10
        <4> QED BY <2>6, <4>1 DEF Build, wanted
      <3>2. ~MountedSound
        BY <1>1, <1>4, <2>1, <2>2, <2>6, AskedIs DEF MountedSound
      <3> QED BY <1>1, <2>5, <3>1, <3>2, FailStep
    <2>7. CASE m.factory = "ok"
      <3>1. modules' = Append(modules, m) /\ pc' = pc /\ at' = at + 1
        <4>1. ~(at > Len(wanted))
          BY <1>1, <1>4, <1>6, <1>10
        <4> QED BY <2>7, <4>1 DEF Build, wanted
      <3>2. modules' = [i \in 1..at |-> Mounted[i]]
        <4>1. (at - 1) + 1 = at /\ at - 1 \in Nat
          BY <1>1
        <4> QED BY <1>1, <2>2, <3>1, <4>1, AppendNext
      <3>3. TypeOK'
        BY <1>1, <1>3, <3>1 DEF TypeOK, input
      <3>4. SettingsInv'
        BY <1>1, <1>2, <1>3, <3>1, SettledStill
      <3>5. at' - 1 = at /\ at' <= n + 1 /\ \A i \in 1..at : i = at \/ i \in 1..(at - 1)
        BY <1>1, <1>4, <1>10, <3>1
      <3>6. BuildPhase'
        <4>1. \A i \in 1..at : Mounted[i].factory = "ok"
          BY <1>1, <2>2, <2>7, <3>5
        <4> QED BY <1>1, <1>7, <2>4, <3>1, <3>2, <3>5, <4>1 DEF BuildPhase
      <3>7. RanInv' /\ FailedInv' /\ MountedInv'
        BY <1>1, <1>8, <3>1 DEF RanInv, RunsTheOwner, FailedInv, MountedInv, KindSet
      <3> QED BY <2>5, <3>3, <3>4, <3>6, <3>7 DEF WInv
    <2> QED BY <2>6, <2>7
  <1> QED BY <1>1, <1>4, <1>9, <1>10

LEMMA GivenStep ==
  ASSUME WInv, Given
  PROVE  WInv'
  <1>1. /\ pc = "New" /\ entry = "New" /\ pc' = "registry" /\ at' = 1 /\ modules' = catalogue
        /\ UNCHANGED <<input, resolved, built, registry, owner, ran>>
    BY DEF WInv, BuildPhase, Given, Goto
  <1>2. UNCHANGED input /\ UNCHANGED <<input, resolved>> /\ Begun'
    BY <1>1, BegunStill DEF WInv
  <1>3. LoadSound /\ ResolvedTo(Len(layers)) /\ TypeOK /\ Chosen
    BY <1>1, Settled
  <1>4. TypeOK'
    BY <1>1, <1>3 DEF TypeOK, input
  <1>5. SettingsInv'
    BY <1>1, <1>2, <1>3, SettledStill
  <1>6. BuildPhase'
    BY <1>1, <1>2, Still DEF BuildPhase
  <1>7. ran' = None /\ DOMAIN owner' = {}
    BY <1>1 DEF WInv, RanInv, KindSet
  <1>8. RanInv' /\ FailedInv' /\ MountedInv'
    BY <1>1, <1>7 DEF RanInv, RunsTheOwner, FailedInv, MountedInv, KindSet
  <1> QED BY <1>2, <1>4, <1>5, <1>6, <1>8 DEF WInv

LEMMA NewRegistryStep ==
  ASSUME WInv, NewRegistry
  PROVE  WInv'
  <1> DEFINE order == Names(modules)
             wanted == resolveSelection(order)
  <1>1. /\ pc = "registry"
        /\ \/ entry = "New" /\ modules = catalogue
           \/ CatalogueSound /\ FactoriesOK /\ modules = Mounted
        /\ UNCHANGED <<input, resolved, modules, built, owner, ran>>
    BY DEF WInv, BuildPhase, NewRegistry
  <1>2. UNCHANGED input /\ UNCHANGED <<input, resolved>> /\ Begun'
    BY <1>1, BegunStill DEF WInv
  <1>3. LoadSound /\ ResolvedTo(Len(layers)) /\ TypeOK /\ Chosen
    BY <1>1, Settled
  <1>4. (BadNames(order) \/ Unknown(order)) <=> ~CatalogueSound
    <2>1. CASE entry = "New" /\ modules = catalogue
      <3>1. Unknown(order) <=> Asked.unknown # {}
        BY <1>3, <2>1, AskedIs DEF Unknown, Chosen
      <3> QED BY <2>1, <3>1 DEF CatalogueSound
    <2>2. CASE CatalogueSound /\ modules = Mounted
      BY <1>3, <2>2, MountedNames DEF Unknown, Chosen
    <2> QED BY <1>1, <2>1, <2>2
  <1>5. CASE BadNames(order) \/ Unknown(order)
    <2>1. Fail
      BY <1>5 DEF NewRegistry
    <2> QED BY <1>1, <1>2, <1>4, <1>5, <2>1, FailStep
  <1>6. CASE ~(BadNames(order) \/ Unknown(order))
    <2>1. pc' = "proxies" /\ at' = 1
          /\ registry'.modules = [i \in DOMAIN wanted |-> Named(modules, wanted[i])]
      BY <1>6 DEF NewRegistry, Goto
    <2>2. CatalogueSound /\ FactoriesOK
      BY <1>1, <1>4, <1>6 DEF FactoriesOK
    <2>3. wanted = Names(Mounted)
      BY <1>1, <1>3, WantedIs, WantedAgain
    <2>4. registry'.modules = Mounted
      BY <1>1, <1>3, <2>1, <2>2, <2>3, RegistryIs
    <2>5. TypeOK'
      BY <1>1, <1>3, <2>1 DEF TypeOK, input
    <2>6. SettingsInv'
      BY <1>2, <1>3, <2>1, SettledStill
    <2>7. ran' = None /\ DOMAIN owner' = {}
      BY <1>1 DEF WInv, RanInv, KindSet
    <2>8. RanInv' /\ FailedInv' /\ MountedInv'
      BY <2>1, <2>7 DEF RanInv, RunsTheOwner, FailedInv, MountedInv, KindSet
    <2>9. Mounted' = Mounted /\ CatalogueSound' /\ FactoriesOK'
      BY <1>2, <2>2, Still
    <2>10. BuildPhase'
      BY <2>1, <2>4, <2>9 DEF BuildPhase
    <2> QED BY <1>2, <2>5, <2>6, <2>8, <2>10 DEF WInv
  <1> QED BY <1>5, <1>6

LEMMA TrustProxiesStep ==
  ASSUME WInv, TrustProxies
  PROVE  WInv'
  <1>1. /\ pc = "proxies" /\ CatalogueSound /\ FactoriesOK /\ registry.modules = Mounted
        /\ UNCHANGED <<input, resolved, modules, built, registry, owner, ran>>
    BY DEF WInv, BuildPhase, TrustProxies
  <1>2. UNCHANGED input /\ UNCHANGED <<input, resolved>> /\ Begun'
    BY <1>1, BegunStill DEF WInv
  <1>3. LoadSound /\ ResolvedTo(Len(layers)) /\ TypeOK /\ Chosen
    BY <1>1, Settled
  <1>4. /\ TrustedProxies \in DOMAIN values <=> Layers(TrustedProxies) # {}
        /\ TrustedProxies \in DOMAIN values =>
              values[TrustedProxies] = layers[Highest(Layers(TrustedProxies))].vals[TrustedProxies]
    BY <1>3, Winners
  <1>5. CASE TrustedProxies \in DOMAIN values /\ values[TrustedProxies] # "cidr"
    <2>1. ~SettingsSound
      BY <1>4, <1>5 DEF SettingsSound, ProxiesSound
    <2>2. Fail
      BY <1>5 DEF TrustProxies
    <2> QED BY <1>1, <1>2, <2>1, <2>2, FailStep
  <1>6. CASE ~(TrustedProxies \in DOMAIN values /\ values[TrustedProxies] # "cidr")
    <2>1. pc' = "check" /\ at' = 1 /\ registry'.modules = Mounted
      BY <1>1, <1>6 DEF TrustProxies, Goto
    <2>2. ProxiesSound
      BY <1>4, <1>6 DEF ProxiesSound
    <2>3. TypeOK'
      BY <1>1, <1>3, <2>1 DEF TypeOK, input, KindSet
    <2>4. SettingsInv'
      BY <1>2, <1>3, <2>1, SettledStill
    <2>5. ran' = None /\ DOMAIN owner' = {}
      BY <1>1 DEF WInv, RanInv, KindSet
    <2>6. RanInv' /\ FailedInv' /\ BuildPhase'
      BY <2>1, <2>5 DEF RanInv, RunsTheOwner, FailedInv, BuildPhase, KindSet
    <2>7. Mounted' = Mounted /\ ProxiesSound' /\ CatalogueSound' /\ FactoriesOK' /\ Len(Mounted) \in Nat
      BY <1>1, <1>2, <1>3, <2>2, Still, Mounts
    <2>8. ASSUME NEW kind \in KindSet  PROVE Upto(kind)' = 0
      BY <2>1 DEF Upto, Behind
    <2>9. OwnerInv'
      <3>1. ASSUME NEW kind \in KindSet  PROVE Claim(kind, Upto(kind))' = {}
        BY <2>8 DEF Claim
      <3>2. ASSUME NEW kind \in KindSet  PROVE (SoundTo(kind, Upto(kind)) /\ OwnedTo(kind, Upto(kind)))'
        BY <3>1 DEF SoundTo, OwnedTo
      <3> QED BY <2>5, <3>2 DEF OwnerInv
    <2>10. MountedInv'
      BY <2>1, <2>7, <2>9 DEF MountedInv
    <2> QED BY <1>2, <2>3, <2>4, <2>6, <2>10 DEF WInv
  <1> QED BY <1>5, <1>6

-----------------------------------------------------------------------------
(* Collection.                                                             *)

LEMMA KindsAre ==
  /\ ToSet(Kinds) = KindSet
  /\ After("check") = "route" /\ After("route") = "command" /\ After("command") = "table"
  /\ After("table") = "version" /\ After("version") = "up"
  <1>1. DOMAIN Kinds = {1, 2, 3, 4, 5}
    BY DEF Kinds
  <1>2. /\ Kinds[1] = "check" /\ Kinds[2] = "route" /\ Kinds[3] = "command"
        /\ Kinds[4] = "table" /\ Kinds[5] = "version"
    BY DEF Kinds
  <1>3. ToSet(Kinds) = KindSet
    BY <1>1, <1>2 DEF ToSet, KindSet
  <1>4. After("check") = "route"
    <2> DEFINE c == CHOOSE i \in DOMAIN Kinds : Kinds[i] = "check"
    <2>1. c = 1
      BY <1>1, <1>2
    <2>2. After("check") = Kinds[1 + c]
      BY DEF After
    <2> HIDE DEF c
    <2> QED BY <1>2, <2>1, <2>2
  <1>5. After("route") = "command"
    <2> DEFINE c == CHOOSE i \in DOMAIN Kinds : Kinds[i] = "route"
    <2>1. c = 2
      BY <1>1, <1>2
    <2>2. After("route") = Kinds[1 + c]
      BY DEF After
    <2> HIDE DEF c
    <2> QED BY <1>2, <2>1, <2>2
  <1>6. After("command") = "table"
    <2> DEFINE c == CHOOSE i \in DOMAIN Kinds : Kinds[i] = "command"
    <2>1. c = 3
      BY <1>1, <1>2
    <2>2. After("command") = Kinds[1 + c]
      BY DEF After
    <2> HIDE DEF c
    <2> QED BY <1>2, <2>1, <2>2
  <1>7. After("table") = "version"
    <2> DEFINE c == CHOOSE i \in DOMAIN Kinds : Kinds[i] = "table"
    <2>1. c = 4
      BY <1>1, <1>2
    <2>2. After("table") = Kinds[1 + c]
      BY DEF After
    <2> HIDE DEF c
    <2> QED BY <1>2, <2>1, <2>2
  <1>8. After("version") = "up"
    BY DEF After
  <1> QED BY <1>3, <1>4, <1>5, <1>6, <1>7, <1>8

(* A clash is with the framework, or with a module before. *)
LEMMA ClashesIs ==
  ASSUME NEW kind \in KindSet, NEW x
  PROVE  Clashes(kind, x) <=>
            \/ x \in Barred(kind)
            \/ kind # "check" /\ x \in Taken(kind)
            \/ kind = "version" /\ \E v \in Taken(kind) : v # <<>> /\ Len(v) # Len(x)
  <1>1. CASE kind = "check"
    BY <1>1 DEF Clashes, Barred
  <1>2. CASE kind = "route"
    BY <1>2 DEF Clashes, Barred
  <1>3. CASE kind = "command"
    BY <1>3 DEF Clashes, Barred
  <1>4. CASE kind = "table"
    BY <1>4 DEF Clashes, Barred
  <1>5. CASE kind = "version"
    BY <1>5 DEF Clashes, Barred, OtherWidth
  <1> QED BY <1>1, <1>2, <1>3, <1>4, <1>5 DEF KindSet

LEMMA TakenIs ==
  ASSUME OwnerInv, NEW kind \in KindSet, NEW x
  PROVE  x \in Taken(kind) <=> \E i \in Claim(kind, Upto(kind)) : Mounted[i][kind] = x
  <1>1. ASSUME x \in Taken(kind)  PROVE \E i \in Claim(kind, Upto(kind)) : Mounted[i][kind] = x
    <2>1. PICK q \in DOMAIN owner : q[1] = kind /\ q[2] = x
      BY <1>1 DEF Taken
    <2>2. PICK l \in KindSet : \E i \in Claim(l, Upto(l)) : q = <<l, Mounted[i][l]>>
      BY DEF OwnerInv
    <2>3. PICK i \in Claim(l, Upto(l)) : q = <<l, Mounted[i][l]>>
      BY <2>2
    <2>4. l = kind /\ Mounted[i][l] = x
      BY <2>1, <2>3
    <2> QED BY <2>3, <2>4
  <1>2. ASSUME NEW i \in Claim(kind, Upto(kind)), Mounted[i][kind] = x  PROVE x \in Taken(kind)
    <2>1. <<kind, x>> \in DOMAIN owner
      BY <1>2 DEF OwnerInv, OwnedTo
    <2> QED BY <2>1 DEF Taken
  <1> QED BY <1>1, <1>2

(* The reference for the modules mounted, kind by kind. *)
LEMMA SoundIs ==
  ASSUME TypeOK
  PROVE  MountedSound <=> FactoriesOK /\ \A kind \in KindSet : SoundTo(kind, Len(Mounted))
  <1> DEFINE n == Len(Mounted)
             Of(kind) == {i \in DOMAIN Mounted : Mounted[i][kind] # None}
             Apart(kind) == \A i, j \in Of(kind) : i # j => Mounted[i][kind] # Mounted[j][kind]
  <1>1. DOMAIN Mounted = 1..n
    BY Mounts
  <1>2. \A kind : Of(kind) = Claim(kind, n)
    BY <1>1 DEF Claim
  <1>3. MountedSound <=>
          /\ FactoriesOK
          /\ \A kind \in {"check", "command", "table"} : \A i \in DOMAIN Mounted : Mounted[i][kind] # Blank
          /\ \A kind \in {"route", "command", "table", "version"} : Apart(kind)
          /\ \A i \in DOMAIN Mounted : Mounted[i]["route"] \notin {"/healthz", "/readyz"}
                                       /\ Mounted[i]["command"] \notin Builtins
          /\ \A i, j \in Of("version") :
                i < j /\ Mounted[i]["version"] # <<>> =>
                    Len(Mounted[i]["version"]) = Len(Mounted[j]["version"])
    BY AskedIs DEF MountedSound, FactoriesOK
  <1>4. ASSUME MountedSound, NEW kind \in KindSet  PROVE SoundTo(kind, n)
    <2>1. CASE kind = "check"
      BY <1>1, <1>3, <1>4, <2>1 DEF SoundTo, Barred, Claim
    <2>2. CASE kind = "route"
      BY <1>1, <1>2, <1>3, <1>4, <2>2 DEF SoundTo, Barred, Claim
    <2>3. CASE kind = "command"
      BY <1>1, <1>2, <1>3, <1>4, <2>3 DEF SoundTo, Barred, Claim
    <2>4. CASE kind = "table"
      BY <1>1, <1>2, <1>3, <1>4, <2>4 DEF SoundTo, Barred, Claim
    <2>5. CASE kind = "version"
      BY <1>1, <1>2, <1>3, <1>4, <2>5 DEF SoundTo, Barred, Claim
    <2> QED BY <2>1, <2>2, <2>3, <2>4, <2>5 DEF KindSet
  <1>5. ASSUME FactoriesOK, \A kind \in KindSet : SoundTo(kind, n)  PROVE MountedSound
    <2>1. ASSUME NEW kind \in {"check", "command", "table"}, NEW i \in DOMAIN Mounted
          PROVE  Mounted[i][kind] # Blank
      BY <1>1, <1>5, NoneAssumption DEF SoundTo, Barred, Claim, KindSet
    <2>2. ASSUME NEW kind \in {"route", "command", "table", "version"}  PROVE Apart(kind)
      BY <1>2, <1>5 DEF SoundTo, KindSet
    <2>3. ASSUME NEW i \in DOMAIN Mounted
          PROVE  /\ Mounted[i]["route"] \notin {"/healthz", "/readyz"}
                 /\ Mounted[i]["command"] \notin Builtins
      BY <1>1, <1>5, NoneAssumption DEF SoundTo, Barred, Claim, KindSet
    <2>4. \A i, j \in Of("version") :
            i < j /\ Mounted[i]["version"] # <<>> =>
                Len(Mounted[i]["version"]) = Len(Mounted[j]["version"])
      BY <1>2, <1>5 DEF SoundTo, KindSet
    <2> QED BY <1>3, <1>5, <2>1, <2>2, <2>3, <2>4
  <1> QED BY <1>3, <1>4, <1>5

LEMMA OwnerStill ==
  ASSUME OwnerInv, Mounted' = Mounted, owner' = owner,
         \A kind \in KindSet : Claim(kind, Upto(kind))' = Claim(kind, Upto(kind))
  PROVE  OwnerInv'
  <1>1. ASSUME NEW kind \in KindSet
        PROVE  (SoundTo(kind, Upto(kind)) /\ OwnedTo(kind, Upto(kind)))'
    <2>1. SoundTo(kind, Upto(kind)) /\ OwnedTo(kind, Upto(kind))
      BY DEF OwnerInv
    <2>2. Claim(kind, Upto(kind))' = Claim(kind, Upto(kind))
      OBVIOUS
    <2> QED BY <2>1, <2>2 DEF SoundTo, OwnedTo
  <1>2. ASSUME NEW q \in DOMAIN owner'
        PROVE  \E kind \in KindSet : \E i \in Claim(kind, Upto(kind))' : q = <<kind, Mounted'[i][kind]>>
    BY DEF OwnerInv
  <1> QED BY <1>1, <1>2 DEF OwnerInv

(* The module at hand declares x, which is new. *)
LEMMA OwnerGrows ==
  ASSUME OwnerInv, TypeOK, pc \in KindSet, at \in 1..Len(Mounted), NEW x, x = Mounted[at][pc], x # None,
         ~Clashes(pc, x), Mounted' = Mounted, pc' = pc, at' = at + 1,
         owner' = [q \in DOMAIN owner \cup {<<pc, x>>} |->
                     IF q = <<pc, x>> THEN Mounted[at].name ELSE owner[q]]
  PROVE  OwnerInv'
  <1>0. at \in Nat
    BY DEF TypeOK
  <1>1. /\ DOMAIN owner' = DOMAIN owner \cup {<<pc, x>>} /\ owner'[<<pc, x>>] = Mounted[at].name
        /\ \A q \in DOMAIN owner : q # <<pc, x>> => owner'[q] = owner[q]
    OBVIOUS
  <1>2. \A kind \in KindSet : kind # pc => Claim(kind, Upto(kind))' = Claim(kind, Upto(kind))
    BY DEF Claim, Upto, Behind
  <1>3. Upto(pc) = at - 1 /\ Upto(pc)' = at
    BY <1>0 DEF Upto
  <1>4. Claim(pc, Upto(pc))' = Claim(pc, Upto(pc)) \cup {at}
    <2>1. Claim(pc, Upto(pc))' = {i \in 1..at : Mounted[i][pc] # None}
      BY <1>3 DEF Claim
    <2>2. Claim(pc, Upto(pc)) = {i \in 1..(at - 1) : Mounted[i][pc] # None}
      BY <1>3 DEF Claim
    <2>3. \A i \in 1..at : i = at \/ i \in 1..(at - 1)
      BY <1>0
    <2>4. 1..(at - 1) \subseteq 1..at /\ at \in 1..at
      BY <1>0
    <2> QED BY <2>1, <2>2, <2>3, <2>4
  <1>5. /\ x \notin Barred(pc)
        /\ pc # "check" => \A i \in Claim(pc, Upto(pc)) : Mounted[i][pc] # x
        /\ pc = "version" => \A i \in Claim(pc, Upto(pc)) :
              Mounted[i][pc] # <<>> => Len(Mounted[i][pc]) = Len(x)
    BY ClashesIs, TakenIs
  <1>6. ASSUME NEW kind \in KindSet, kind # pc
        PROVE  (SoundTo(kind, Upto(kind)) /\ OwnedTo(kind, Upto(kind)))'
    <2>1. SoundTo(kind, Upto(kind)) /\ OwnedTo(kind, Upto(kind))
      BY DEF OwnerInv
    <2>2. Claim(kind, Upto(kind))' = Claim(kind, Upto(kind))
      BY <1>2, <1>6
    <2>3. SoundTo(kind, Upto(kind))'
      BY <2>1, <2>2 DEF SoundTo
    <2>4. \A y : <<kind, y>> # <<pc, x>>
      BY <1>6
    <2>5. OwnedTo(kind, Upto(kind))'
      BY <1>1, <2>1, <2>2, <2>4 DEF OwnedTo
    <2> QED BY <2>3, <2>5
  <1>7. SoundTo(pc, Upto(pc))'
    <2>1. SoundTo(pc, Upto(pc))
      BY DEF OwnerInv
    <2>2. \A j \in Claim(pc, Upto(pc)) \cup {at} : ~(at < j)
      BY <1>0, <1>3 DEF Claim
    <2> QED BY <1>4, <1>5, <2>1, <2>2 DEF SoundTo
  <1>8. OwnedTo(pc, Upto(pc))'
    <2>1. OwnedTo(pc, Upto(pc))
      BY DEF OwnerInv
    <2>2. ASSUME NEW i \in Claim(pc, Upto(pc)) \cup {at}
          PROVE  /\ <<pc, Mounted[i][pc]>> \in DOMAIN owner'
                 /\ pc # "check" => owner'[<<pc, Mounted[i][pc]>>] = Mounted[i].name
      <3>1. CASE i = at
        BY <1>1, <3>1
      <3>2. CASE i \in Claim(pc, Upto(pc))
        <4>1. <<pc, Mounted[i][pc]>> \in DOMAIN owner
          BY <2>1, <3>2 DEF OwnedTo
        <4>2. ASSUME pc # "check"  PROVE owner'[<<pc, Mounted[i][pc]>>] = Mounted[i].name
          <5>1. owner[<<pc, Mounted[i][pc]>>] = Mounted[i].name
            BY <2>1, <3>2, <4>2 DEF OwnedTo
          <5>2. <<pc, Mounted[i][pc]>> # <<pc, x>>
            BY <1>5, <3>2, <4>2
          <5> QED BY <1>1, <4>1, <5>1, <5>2
        <4> QED BY <1>1, <4>1, <4>2
      <3> QED BY <2>2, <3>1, <3>2
    <2> QED BY <1>4, <2>2 DEF OwnedTo
  <1>9. ASSUME NEW q \in DOMAIN owner'
        PROVE  \E kind \in KindSet : \E i \in Claim(kind, Upto(kind))' : q = <<kind, Mounted'[i][kind]>>
    <2>1. CASE q = <<pc, x>>
      BY <1>4, <2>1
    <2>2. CASE q \in DOMAIN owner
      <3>1. PICK kind \in KindSet : \E i \in Claim(kind, Upto(kind)) : q = <<kind, Mounted[i][kind]>>
        BY <2>2 DEF OwnerInv
      <3>2. Claim(kind, Upto(kind)) \subseteq Claim(kind, Upto(kind))'
        BY <1>2, <1>4
      <3> QED BY <3>1, <3>2
    <2> QED BY <1>1, <1>9, <2>1, <2>2
  <1>10. \A kind \in KindSet : (SoundTo(kind, Upto(kind)) /\ OwnedTo(kind, Upto(kind)))'
    BY <1>6, <1>7, <1>8
  <1> QED BY <1>9, <1>10 DEF OwnerInv

(* A clash is a mistake of the modules mounted. *)
LEMMA ClashIsUnsound ==
  ASSUME OwnerInv, TypeOK, pc \in KindSet, at \in 1..Len(Mounted), Mounted[at][pc] # None,
         Clashes(pc, Mounted[at][pc])
  PROVE  ~MountedSound
  <1> DEFINE n == Len(Mounted)
             x == Mounted[at][pc]
  <1>0. n \in Nat /\ at \in Nat
    BY Mounts DEF TypeOK
  <1>1. Upto(pc) = at - 1
    BY DEF Upto
  <1>2. Claim(pc, Upto(pc)) \subseteq Claim(pc, n) \ {at} /\ at \in Claim(pc, n)
    <2>1. 1..(at - 1) \subseteq (1..n) \ {at}
      BY <1>0
    <2> QED BY <1>1, <2>1 DEF Claim
  <1>3. ~SoundTo(pc, n)
    <2>1. CASE x \in Barred(pc)
      BY <1>2, <2>1 DEF SoundTo
    <2>2. CASE pc # "check" /\ x \in Taken(pc)
      <3>1. PICK i \in Claim(pc, Upto(pc)) : Mounted[i][pc] = x
        BY <2>2, TakenIs
      <3> QED BY <1>2, <2>2, <3>1 DEF SoundTo
    <2>3. CASE pc = "version" /\ \E v \in Taken(pc) : v # <<>> /\ Len(v) # Len(x)
      <3>1. PICK v \in Taken(pc) : v # <<>> /\ Len(v) # Len(x)
        BY <2>3
      <3>2. PICK i \in Claim(pc, Upto(pc)) : Mounted[i][pc] = v
        BY <3>1, TakenIs
      <3>3. i < at
        BY <1>0, <1>1, <3>2 DEF Claim
      <3> QED BY <1>2, <2>3, <3>1, <3>2, <3>3 DEF SoundTo
    <2> QED BY <2>1, <2>2, <2>3, ClashesIs
  <1> QED BY <1>3, SoundIs

LEMMA LateStep ==
  ASSUME WInv, pc \in KindSet \cup {"up"}, pc' \in KindSet \cup {"up", "ran"}, at' \in Nat \ {0},
         at' <= Len(Mounted) + 1, UNCHANGED <<input, resolved, built, registry>>, OwnerInv',
         RanInv'
  PROVE  WInv'
  <1>1. LoadSound /\ ResolvedTo(Len(layers)) /\ TypeOK
    BY Settled DEF KindSet
  <1>2. pc' # "resolve" /\ pc # "resolve" /\ UNCHANGED input /\ UNCHANGED <<input, resolved>>
        /\ UNCHANGED built
    BY DEF KindSet
  <1>3. ProxiesSound /\ CatalogueSound /\ FactoriesOK /\ registry.modules = Mounted
    BY DEF WInv, MountedInv
  <1>4. TypeOK'
    BY <1>1, <1>2 DEF TypeOK, input
  <1>5. SettingsInv'
    BY <1>1, <1>2, SettledStill
  <1>6. Begun'
    BY <1>2, BegunStill DEF WInv
  <1>7. MountedInv'
    <2>1. Mounted' = Mounted /\ ProxiesSound' /\ CatalogueSound' /\ FactoriesOK'
      BY <1>2, <1>3, Still
    <2> QED BY <1>3, <2>1 DEF MountedInv
  <1>8. FailedInv' /\ BuildPhase'
    BY DEF FailedInv, BuildPhase, KindSet
  <1> QED BY <1>4, <1>5, <1>6, <1>7, <1>8 DEF WInv

LEMMA CollectStep ==
  ASSUME WInv, Collect
  PROVE  WInv'
  <1> DEFINE n == Len(Mounted)
             m == Mounted[at]
             x == Mounted[at][pc]
  <1>1. pc \in KindSet /\ UNCHANGED <<input, resolved, modules, built, registry, ran>>
    BY KindsAre DEF Collect
  <1>2. registry.modules = Mounted /\ at <= n + 1 /\ OwnerInv
    BY <1>1 DEF WInv, MountedInv
  <1>3. TypeOK /\ n \in Nat /\ at \in Nat \ {0}
    BY Mounts DEF WInv, TypeOK
  <1>4. Mounted' = Mounted /\ UNCHANGED input
    BY <1>1, Still
  <1>5. pc # "ran" /\ ran' = None
    BY <1>1 DEF WInv, RanInv, KindSet
  <1>6. pc' \in KindSet \cup {"up"} => RanInv'
    BY <1>5 DEF RanInv, RunsTheOwner, KindSet
  <1>7. CASE at > n
    <2>1. pc' = After(pc) /\ at' = 1 /\ owner' = owner
      BY <1>2, <1>3, <1>7 DEF Collect, Goto
    <2>2. pc' \in KindSet \cup {"up"}
      BY <1>1, <2>1, KindsAre DEF KindSet
    <2>3. at - 1 = n
      BY <1>2, <1>3, <1>7
    <2>4. ASSUME NEW kind \in KindSet  PROVE Upto(kind)' = Upto(kind)
      <3>1. CASE pc = "check"
        BY <1>4, <2>1, <2>3, <3>1, KindsAre DEF Upto, Behind, KindSet
      <3>2. CASE pc = "route"
        BY <1>4, <2>1, <2>3, <3>2, KindsAre DEF Upto, Behind, KindSet
      <3>3. CASE pc = "command"
        BY <1>4, <2>1, <2>3, <3>3, KindsAre DEF Upto, Behind, KindSet
      <3>4. CASE pc = "table"
        BY <1>4, <2>1, <2>3, <3>4, KindsAre DEF Upto, Behind, KindSet
      <3>5. CASE pc = "version"
        BY <1>4, <2>1, <2>3, <3>5, KindsAre DEF Upto, Behind, KindSet
      <3> QED BY <1>1, <3>1, <3>2, <3>3, <3>4, <3>5 DEF KindSet
    <2>5. \A kind \in KindSet : Claim(kind, Upto(kind))' = Claim(kind, Upto(kind))
      BY <1>4, <2>4 DEF Claim
    <2>6. OwnerInv'
      BY <1>2, <1>4, <2>1, <2>5, OwnerStill
    <2>7. at' \in Nat \ {0} /\ at' <= n + 1
      BY <1>3, <2>1
    <2> QED BY <1>1, <1>6, <2>2, <2>6, <2>7, LateStep
  <1>8. CASE at <= n
    <2>1. at \in 1..n /\ ~(at > Len(registry.modules))
      BY <1>2, <1>3, <1>8
    <2>2. CASE x = None
      <3>1. pc' = pc /\ at' = at + 1 /\ owner' = owner
        BY <1>2, <2>1, <2>2 DEF Collect
      <3>2. ASSUME NEW kind \in KindSet  PROVE Claim(kind, Upto(kind))' = Claim(kind, Upto(kind))
        <4>1. CASE kind # pc
          BY <1>4, <3>1, <4>1 DEF Claim, Upto, Behind
        <4>2. CASE kind = pc
          <5>1. Upto(kind) = at - 1 /\ Upto(kind)' = at
            BY <1>3, <3>1, <4>2 DEF Upto
          <5>2. \A i \in 1..at : i = at \/ i \in 1..(at - 1)
            BY <1>3
          <5>3. 1..(at - 1) \subseteq 1..at
            BY <1>3
          <5> QED BY <1>4, <2>2, <4>2, <5>1, <5>2, <5>3 DEF Claim
        <4> QED BY <4>1, <4>2
      <3>3. OwnerInv'
        BY <1>2, <1>4, <3>1, <3>2, OwnerStill
      <3>4. at' \in Nat \ {0} /\ at' <= n + 1
        BY <1>3, <1>8, <3>1
      <3> QED BY <1>1, <1>6, <3>1, <3>3, <3>4, LateStep
    <2>3. CASE x # None /\ Clashes(pc, x)
      <3>1. Fail
        BY <1>2, <2>1, <2>3 DEF Collect
      <3>2. ~MountedSound
        BY <1>1, <1>2, <1>3, <2>1, <2>3, ClashIsUnsound
      <3>3. Begun'
        BY <1>1, BegunStill DEF WInv
      <3> QED BY <1>1, <1>5, <3>1, <3>2, <3>3, FailStep
    <2>4. CASE x # None /\ ~Clashes(pc, x)
      <3>1. /\ pc' = pc /\ at' = at + 1
            /\ owner' = [q \in DOMAIN owner \cup {<<pc, x>>} |->
                           IF q = <<pc, x>> THEN m.name ELSE owner[q]]
        BY <1>2, <2>1, <2>4 DEF Collect
      <3>2. OwnerInv'
        BY <1>1, <1>2, <1>3, <1>4, <2>1, <2>4, <3>1, OwnerGrows
      <3>3. at' \in Nat \ {0} /\ at' <= n + 1
        BY <1>3, <1>8, <3>1
      <3> QED BY <1>1, <1>6, <3>1, <3>2, <3>3, LateStep
    <2> QED BY <2>2, <2>3, <2>4
  <1> QED BY <1>3, <1>7, <1>8

(* Who runs a command. *)
LEMMA DispatchIs ==
  ASSUME WInv, pc = "up", NEW arg, NEW rest \in {"ok", "help", "bad"}
  PROVE  LET declaring == {m \in ToSet(registry.modules) : m.command = arg /\ arg # None}
             own == {None, "-addr", "-h", "help"}
             by == Dispatched(arg, rest)
             Gives(names) == IF rest = "ok" THEN by \in names ELSE by \in {"usage", "badflags"}
         IN /\ arg \in own => by \in {"serve", "usage"}
            /\ arg \in Builtins => declaring = {} /\ Gives({arg, "refused"})
            /\ arg \notin Builtins \cup own =>
                  IF declaring = {} THEN by = "unknown"
                  ELSE \E m \in declaring :
                          /\ declaring = {m}
                          /\ IF m.run = "nil" THEN by = "norun" ELSE Gives({m.name})
  <1> DEFINE n == Len(Mounted)
             declaring == {m \in ToSet(registry.modules) : m.command = arg /\ arg # None}
             own == {None, "-addr", "-h", "help"}
             by == Dispatched(arg, rest)
             Gives(names) == IF rest = "ok" THEN by \in names ELSE by \in {"usage", "badflags"}
  <1>1. /\ TypeOK /\ CatalogueSound /\ registry.modules = Mounted /\ OwnerInv
    BY DEF WInv, MountedInv
  <1>2. n \in Nat /\ DOMAIN Mounted = 1..n
    BY <1>1, Mounts
  <1>3. "command" \in KindSet /\ Upto("command") = n
    BY DEF Upto, Behind, KindSet
  <1>4. ASSUME NEW m  PROVE m \in declaring <=> \E i \in Claim("command", n) :
                              m = Mounted[i] /\ Mounted[i]["command"] = arg
    BY <1>1, <1>2 DEF ToSet, Claim
  <1>5. SoundTo("command", n) /\ OwnedTo("command", n)
    BY <1>1, <1>3 DEF OwnerInv
  <1>6. arg \in Taken("command") <=> \E i \in Claim("command", n) : Mounted[i]["command"] = arg
    BY <1>1, <1>3, TakenIs
  <1> HIDE DEF declaring
  <1>7. ASSUME arg \in Builtins  PROVE declaring = {} /\ Gives({arg, "refused"})
    <2>1. Builtins \subseteq Barred("command")
      BY DEF Barred
    <2>2. declaring = {}
      BY <1>4, <1>5, <1>7, <2>1 DEF SoundTo
    <2>3. arg \notin own
      BY <1>7, NoneAssumption DEF Builtins
    <2>4. arg \notin Taken("command")
      BY <1>4, <1>6, <2>2
    <2>5. by = Called(arg, rest)
      BY <1>7, <2>3 DEF Dispatched
    <2> QED BY <2>2, <2>4, <2>5 DEF Called
  <1>8. ASSUME arg \in own  PROVE by \in {"serve", "usage"}
    BY <1>8 DEF Dispatched
  <1>9. ASSUME arg \notin Builtins \cup own, declaring = {}  PROVE by = "unknown"
    <2>1. arg \notin Taken("command")
      BY <1>4, <1>6, <1>9
    <2> QED BY <1>9, <2>1 DEF Dispatched
  <1>10. ASSUME arg \notin Builtins \cup own, declaring # {}
         PROVE  \E m \in declaring :
                   /\ declaring = {m}
                   /\ IF m.run = "nil" THEN by = "norun" ELSE Gives({m.name})
    <2>1. PICK i \in Claim("command", n) : Mounted[i]["command"] = arg
      BY <1>4, <1>10
    <2>2. arg \in Taken("command") /\ by = Called(arg, rest)
      BY <1>6, <1>10, <2>1 DEF Dispatched
    <2>3. owner[<<"command", arg>>] = Mounted[i].name
      BY <1>5, <2>1 DEF OwnedTo
    <2>4. i \in DOMAIN Mounted
      BY <1>2 DEF Claim
    <2>5. ~Repeats(Names(Mounted))
      BY <1>1, MountedNames DEF BadNames
    <2>6. Named(Mounted, Mounted[i].name) = Mounted[i]
      BY <2>4, <2>5, NamedIs
    <2>7. \A j \in Claim("command", n) : Mounted[j]["command"] = arg => j = i
      BY <1>5, <2>1 DEF SoundTo
    <2>8. \A m : m \in declaring <=> m = Mounted[i]
      BY <1>4, <2>1, <2>7
    <2> DEFINE o == Mounted[i]
    <2>9. IF o.run = "nil" THEN by = "norun" ELSE Gives({o.name})
      <3>1. Called(arg, rest) = IF o.run = "nil" THEN "norun" ELSE IF rest = "help" THEN "usage"
                                ELSE IF rest = "bad" THEN "badflags" ELSE o.name
        BY <1>1, <2>2, <2>3, <2>6 DEF Called
      <3> HIDE DEF by, o
      <3> QED BY <2>2, <3>1
    <2>10. declaring = {o} /\ o \in declaring
      BY <2>8
    <2> HIDE DEF by, o
    <2> QED BY <2>9, <2>10
  <1> HIDE DEF by, own
  <1>11. /\ arg \in own => by \in {"serve", "usage"}
         /\ arg \in Builtins => declaring = {} /\ Gives({arg, "refused"})
         /\ arg \notin Builtins \cup own =>
               IF declaring = {} THEN by = "unknown"
               ELSE \E m \in declaring :
                       /\ declaring = {m}
                       /\ IF m.run = "nil" THEN by = "norun" ELSE Gives({m.name})
    <2> HIDE DEF Gives
    <2> QED BY <1>7, <1>8, <1>9, <1>10
  <1> QED BY <1>11 DEF declaring, by, own

LEMMA ExecuteStep ==
  ASSUME WInv, NEW arg \in Args, NEW rest \in Rests, Execute(arg, rest)
  PROVE  WInv'
  <1>1. /\ pc = "up" /\ pc' = "ran" /\ at' = 1
        /\ ran' = [arg |-> arg, rest |-> rest, by |-> Dispatched(arg, rest)]
        /\ UNCHANGED <<input, resolved, modules, built, registry, owner>>
    BY DEF Execute, Goto
  <1>2. /\ ran'.arg = arg /\ ran'.rest = rest /\ ran'.by = Dispatched(arg, rest)
        /\ registry' = registry /\ owner' = owner
    BY <1>1
  <1>3. RunsTheOwner'
    <2>1. rest \in {"ok", "help", "bad"}
      BY RestsAssumption
    <2> QED BY <1>1, <1>2, <2>1, DispatchIs DEF RunsTheOwner
  <1>4. RanInv'
    BY <1>1, <1>3 DEF RanInv
  <1>5. Mounted' = Mounted
    BY <1>1, Still
  <1>6. ASSUME NEW kind \in KindSet  PROVE Claim(kind, Upto(kind))' = Claim(kind, Upto(kind))
    BY <1>1, <1>5 DEF Claim, Upto, Behind, KindSet
  <1>7. OwnerInv'
    <2>1. OwnerInv
      BY <1>1 DEF WInv, MountedInv
    <2> QED BY <1>2, <1>5, <1>6, <2>1, OwnerStill
  <1>8. at' \in Nat \ {0} /\ at' <= Len(Mounted) + 1
    <2>1. Len(Mounted) \in Nat
      BY Mounts DEF WInv
    <2> QED BY <1>1, <2>1
  <1> QED BY <1>1, <1>4, <1>7, <1>8, LateStep

LEMMA WInvInit ==
  ASSUME Init
  PROVE  WInv
  <1>1. TypeOK
    BY DEF Init, TypeOK
  <1>2. SettingsInv
    <2>1. Len(layers) \in Nat
      BY <1>1, Shapes
    <2>2. ResolvedTo(at - 1)
      BY DEF Init, ResolvedTo
    <2> QED BY <2>1, <2>2 DEF Init, SettingsInv
  <1>3. Begun
    <2>1. 0 \in 0..Len(Mounted)
      BY <1>1, Mounts
    <2> QED BY <2>1, NoneFcn DEF Init, Begun
  <1>4. BuildPhase /\ MountedInv /\ FailedInv
    BY DEF Init, BuildPhase, MountedInv, FailedInv, KindSet
  <1>5. RanInv
    BY DEF Init, RanInv, RunsTheOwner
  <1> QED BY <1>1, <1>2, <1>3, <1>4, <1>5 DEF WInv

LEMMA WInvStutter ==
  ASSUME WInv, UNCHANGED <<input, resolved, pc, at, modules, built, registry, owner, ran>>
  PROVE  WInv'
  <1>1. /\ UNCHANGED input /\ UNCHANGED <<input, resolved>>
        /\ pc' = pc /\ at' = at /\ modules' = modules /\ built' = built
        /\ registry' = registry /\ owner' = owner /\ ran' = ran
    OBVIOUS
  <1>2. /\ layers' = layers /\ catalogue' = catalogue /\ entry' = entry
        /\ values' = values /\ sources' = sources
    BY <1>1 DEF input, resolved
  <1>3. /\ Mounted' = Mounted
        /\ LoadSound' <=> LoadSound
        /\ ProxiesSound' <=> ProxiesSound
        /\ SettingsSound' <=> SettingsSound
        /\ CatalogueSound' <=> CatalogueSound
        /\ MountedSound' <=> MountedSound
        /\ FactoriesOK' <=> FactoriesOK
    BY <1>1, Still
  <1>4. TypeOK'
    BY <1>1, <1>2 DEF WInv, TypeOK
  <1>5. SettingsInv'
    BY <1>1, <1>2, <1>3 DEF WInv, SettingsInv, ResolvedTo
  <1>6. Begun'
    BY <1>1, BegunStill DEF WInv
  <1>7. BuildPhase' /\ FailedInv'
    BY <1>1, <1>2, <1>3 DEF WInv, BuildPhase, FailedInv
  <1>8. MountedInv'
    <2>1. \A kind \in KindSet : Claim(kind, Upto(kind))' = Claim(kind, Upto(kind))
      BY <1>1, <1>3 DEF Claim, Upto, Behind
    <2>2. OwnerInv => OwnerInv'
      BY <1>1, <1>3, <2>1, OwnerStill
    <2> QED BY <1>1, <1>3, <2>2 DEF WInv, MountedInv
  <1>9. RanInv'
    BY <1>1 DEF WInv, RanInv, RunsTheOwner
  <1> QED BY <1>4, <1>5, <1>6, <1>7, <1>8, <1>9 DEF WInv

LEMMA WInvStep ==
  ASSUME WInv, [Next]_vars
  PROVE  WInv'
  <1>1. CASE ResolveSource
    BY <1>1, ResolveSourceStep
  <1>2. CASE Load
    BY <1>2, LoadStep
  <1>3. CASE Validate
    BY <1>3, ValidateStep
  <1>4. CASE Build
    BY <1>4, BuildStep
  <1>5. CASE Given
    BY <1>5, GivenStep
  <1>6. CASE NewRegistry
    BY <1>6, NewRegistryStep
  <1>7. CASE TrustProxies
    BY <1>7, TrustProxiesStep
  <1>8. CASE Collect
    BY <1>8, CollectStep
  <1>9. CASE \E arg \in Args, rest \in Rests : Execute(arg, rest)
    BY <1>9, ExecuteStep
  <1>10. CASE UNCHANGED vars
    <2>1. UNCHANGED <<input, resolved, pc, at, modules, built, registry, owner, ran>>
      BY <1>10 DEF vars
    <2> QED BY <2>1, WInvStutter
  <1> QED BY <1>1, <1>2, <1>3, <1>4, <1>5, <1>6, <1>7, <1>8, <1>9, <1>10 DEF Next

(* What every reachable state of a process satisfies, phase by phase, from  *)
(* which the three properties follow.                                       *)
THEOREM WiringInvariant == Spec => []WInv
  <1>1. Init => WInv
    BY WInvInit
  <1>2. WInv /\ [Next]_vars => WInv'
    BY WInvStep
  <1> QED BY <1>1, <1>2, PTL DEF Spec

LEMMA StartsFromInv ==
  ASSUME WInv
  PROVE  StartsAsAsked
  <1>1. ASSUME pc \in {"up", "ran"}
        PROVE  /\ SettingsSound /\ CatalogueSound /\ MountedSound
               /\ registry.modules = Asked.modules
               /\ \A k \in DOMAIN sources : sources[k] = Highest(Layers(k))
    <2>1. LoadSound /\ ResolvedTo(Len(layers)) /\ TypeOK
      BY <1>1, Settled
    <2>2. ProxiesSound /\ CatalogueSound /\ FactoriesOK /\ registry.modules = Mounted /\ OwnerInv
      BY <1>1 DEF WInv, MountedInv
    <2>3. ASSUME NEW kind \in KindSet  PROVE SoundTo(kind, Len(Mounted))
      <3>1. Upto(kind) = Len(Mounted)
        BY <1>1 DEF Upto, Behind, KindSet
      <3> QED BY <2>2, <3>1 DEF OwnerInv
    <2>4. MountedSound
      BY <2>1, <2>2, <2>3, SoundIs
    <2>5. SettingsSound
      BY <2>1, <2>2 DEF SettingsSound
    <2> QED BY <2>1, <2>2, <2>4, <2>5, AskedIs, Winners
  <1>2. pc = "failed" => ~(SettingsSound /\ CatalogueSound /\ MountedSound)
    BY DEF WInv, FailedInv
  <1> QED BY <1>1, <1>2 DEF StartsAsAsked

(* For every stack of sources and every catalogue, by either constructor: a *)
(* process comes up only when nothing it was given is wrong, and then       *)
(* mounts what the last layer selects in the order of registration; it      *)
(* fails only when something is (Resolve, Load, New, NewFromFactories).     *)
THEOREM ComesUpAsAsked == Spec => []StartsAsAsked
  BY StartsFromInv, WiringInvariant, PTL

LEMMA FirstsArePrefix ==
  ASSUME NEW N \in Nat, NEW S, NEW t \in [1..N -> S], NEW n \in 0..N, NEW s, s = [i \in 1..n |-> t[i]]
  PROVE  IsPrefix(s, t)
  <1>1. n \in Nat /\ n \in Int /\ n <= N /\ 1 \in Int /\ \A i \in 1..n : i \in 1..N
    OBVIOUS
  <1>2. s \in [1..n -> S]
    BY <1>1
  <1>3. s \in Seq(S) /\ Len(s) = n /\ t \in Seq(S) /\ Len(t) = N
    BY <1>1, <1>2, FcnSeq
  <1>4. SubSeq(s, 1, n) = s
    BY <1>3, SubSeqFull
  <1>5. \A i \in 1..n : t[i] \in S
    BY <1>1
  <1>6. /\ SubSeq(t, 1, n) \in Seq(S)
        /\ Len(SubSeq(t, 1, n)) = IF 1 <= n THEN n - 1 + 1 ELSE 0
        /\ \A i \in 1..(n - 1 + 1) : SubSeq(t, 1, n)[i] = t[1 + i - 1]
    BY <1>1, <1>5, SubSeqProperties
  <1>7. Len(SubSeq(t, 1, n)) = n /\ n - 1 + 1 = n
    BY <1>1, <1>6
  <1>8. \A i \in 1..n : SubSeq(t, 1, n)[i] = s[i]
    <2>1. \A i \in 1..n : 1 + i - 1 = i
      OBVIOUS
    <2> QED BY <1>6, <1>7, <2>1
  <1>9. SubSeq(t, 1, n) = s
    BY <1>3, <1>6, <1>7, <1>8, SeqEqual
  <1> QED BY <1>1, <1>3, <1>4, <1>9 DEF IsPrefix

LEMMA BuildsFromInv ==
  ASSUME WInv
  PROVE  BuildsOnlyWanted
  <1> DEFINE N == Len(Mounted)
             t == Names(Mounted)
  <1>1. N \in Nat /\ DOMAIN Mounted = 1..N
    BY Mounts DEF WInv
  <1>2. t \in [1..N -> ToSet(t)] /\ \A i \in 1..N : t[i] = Mounted[i].name
    BY <1>1 DEF Names, ToSet
  <1>3. PICK n \in 0..N : built = [i \in 1..n |-> Mounted[i].name]
    BY DEF WInv, Begun
  <1> HIDE DEF N, t
  <1>4. built = [i \in 1..n |-> t[i]]
    <2>1. \A i \in 1..n : i \in 1..N
      BY <1>1
    <2> QED BY <1>2, <1>3, <2>1
  <1>5. IsPrefix(built, t)
    BY <1>1, <1>2, <1>4, FirstsArePrefix
  <1>6. built # <<>> => LoadSound /\ CatalogueSound
    BY DEF WInv, Begun
  <1> QED BY <1>5, <1>6, AskedIs DEF BuildsOnlyWanted, t

(* No factory runs before every source, every setting that Load parses,     *)
(* every name and the selection has been found right, and those that run    *)
(* are the first of the selected modules, in the order of registration,     *)
(* each once (buildSelectedModules).  Of the trusted proxies it says        *)
(* nothing: New looks at them after the factories have run.                 *)
THEOREM FactoriesInOrder == Spec => []BuildsOnlyWanted
  BY BuildsFromInv, WiringInvariant, PTL

(* Whatever modules meet in a process and whatever they declare, a command  *)
(* line calls the framework's command or that of the one mounted module     *)
(* that declares it, and none when its flags are wrong or it has no Run     *)
(* (Execute, Dispatch, collectCommands).                                    *)
THEOREM DispatchesToOwner == Spec => []RunsTheOwner
  <1>1. WInv => RunsTheOwner
    BY DEF WInv, RanInv
  <1> QED BY <1>1, WiringInvariant, PTL
=============================================================================
