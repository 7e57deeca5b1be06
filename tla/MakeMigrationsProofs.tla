------------------------ MODULE MakeMigrationsProofs ------------------------
(***************************************************************************)
(* Proofs about MakeMigrations for any modules, declarations, clocks,      *)
(* dialects and bounds.                                                    *)
(*                                                                         *)
(* Data: a statement about every length or every size is the set of the    *)
(* naturals at which it holds, shown to hold zero and every successor      *)
(* (AllNaturals).  In that way ExecAll, FlattenSeq and Sorted get the      *)
(* facts the rest needs: running a concatenation is running its parts in   *)
(* turn, and a sorted set is a strictly rising sequence.                   *)
(*                                                                         *)
(* Operations: a change runs where the column, table or index it names     *)
(* is as the recorded schema says, and touches nothing else; Diff, with    *)
(* the renames resolved, brings the tables one module owns from recorded   *)
(* to declared, and the reversed inverses bring them back (Planned).       *)
(*                                                                         *)
(* Books: Inv holds of every state.  The migrations the manifests list     *)
(* form a chain that builds and undoes (Sound); a run in progress stands   *)
(* at the blend of the two schemas, declared for the modules it has        *)
(* finished and recorded for those it has not (Blends); and its version    *)
(* is above the books and short of Top (Counts, by TopIsFarOff).           *)
(***************************************************************************)
EXTENDS MakeMigrations, TLAPS, FiniteSetTheorems, SequenceTheorems, WellFoundedInduction

(***************************************************************************)
(* Naturals.                                                               *)
(***************************************************************************)

(* A set of naturals has a least element. *)
LEMMA LeastNatural ==
    ASSUME NEW T \in SUBSET Nat, T # {}
    PROVE  \E x \in T : \A y \in T : x =< y
  <1>1. PICK x \in T : \A y \in T : ~(<<y, x>> \in OpToRel(<, Nat))
    BY NatLessThanWellFounded, WFMin
  <1>2. \A y \in T : ~(y < x)
    BY <1>1 DEF OpToRel
  <1> QED  BY <1>2

(* A bounded one has a greatest. *)
LEMMA GreatestNatural ==
    ASSUME NEW T \in SUBSET Nat, T # {}, NEW b \in Nat, \A x \in T : x =< b
    PROVE  \E x \in T : \A y \in T : y =< x
  <1> DEFINE U == {b - x : x \in T}
  <1>0. \A x \in T : b - x \in Nat
    OBVIOUS
  <1>1. U # {} /\ U \in SUBSET Nat
    BY <1>0
  <1>2. PICK u \in U : \A w \in U : u =< w
    BY <1>1, LeastNatural
  <1>3. PICK x \in T : u = b - x
    OBVIOUS
  <1>4. \A y \in T : b - x =< b - y
    BY <1>2, <1>3
  <1> QED  BY <1>4

(* A set that holds zero and the successor of each member is all naturals. *)
LEMMA AllNaturals ==
    ASSUME NEW P \in SUBSET Nat, 0 \in P, \A n \in P : n + 1 \in P
    PROVE  P = Nat
  <1> SUFFICES ASSUME P # Nat PROVE FALSE
    OBVIOUS
  <1>1. Nat \ P # {} /\ Nat \ P \in SUBSET Nat
    OBVIOUS
  <1>2. PICK x \in Nat \ P : \A y \in Nat \ P : x =< y
    BY <1>1, LeastNatural
  <1>3. x # 0 /\ x - 1 \in Nat
    BY <1>2
  <1>4. x - 1 \in P
    BY <1>2, <1>3
  <1> QED  BY <1>4, <1>2

(***************************************************************************)
(* FlattenSeq: what it lists, and in which order.                          *)
(***************************************************************************)

(* The function FlattenSeq is defined with. *)
Flattens(ss, n, g) == g = [i \in 1..n |-> IF i = 1 THEN ss[i] ELSE g[i - 1] \o ss[i]]

LEMMA FlattensExist ==
    ASSUME NEW ss, NEW n \in Nat
    PROVE  \E g : Flattens(ss, n, g)
  <1> DEFINE P == {k \in Nat : \E g : Flattens(ss, k, g)}
  <1>1. 0 \in P
    <2> DEFINE g == [i \in 1..0 |-> IF i = 1 THEN ss[i] ELSE <<>>]
    <2>1. Flattens(ss, 0, g)
      BY DEF Flattens
    <2> QED  BY <2>1
  <1>2. ASSUME NEW k \in P PROVE k + 1 \in P
    <2>1. k \in Nat
      OBVIOUS
    <2>2. PICK g : Flattens(ss, k, g)
      OBVIOUS
    <2> HIDE DEF P
    <2> DEFINE h == [i \in 1..(k + 1) |-> IF i = 1 THEN ss[i] ELSE g[i - 1] \o ss[i]]
    <2>3. ASSUME NEW i \in 1..k PROVE h[i] = g[i]
      <3>1. i \in 1..(k + 1)
        BY <2>1
      <3>2. h[i] = IF i = 1 THEN ss[i] ELSE g[i - 1] \o ss[i]
        BY <3>1
      <3>3. g[i] = IF i = 1 THEN ss[i] ELSE g[i - 1] \o ss[i]
        BY <2>2 DEF Flattens
      <3> QED  BY <3>2, <3>3
    <2> HIDE DEF h
    <2>4. ASSUME NEW i \in 1..(k + 1), i # 1 PROVE h[i - 1] = g[i - 1]
      <3>1. i - 1 \in 1..k
        BY <2>1, <2>4
      <3> QED  BY <3>1, <2>3
    <2>5. h = [i \in 1..(k + 1) |-> IF i = 1 THEN ss[i] ELSE h[i - 1] \o ss[i]]
      BY <2>1, <2>4 DEF h
    <2>6. \E f : Flattens(ss, k + 1, f)
      BY <2>5 DEF Flattens
    <2> QED  BY <2>1, <2>6 DEF P
  <1> HIDE DEF P
  <1>3. P \in SUBSET Nat
    BY DEF P
  <1>4. n \in P
    BY <1>1, <1>2, <1>3, AllNaturals
  <1> QED  BY <1>4 DEF P

LEMMA FlattensAt ==
    ASSUME NEW ss, NEW n \in Nat, NEW g, Flattens(ss, n, g), n # 0
    PROVE  /\ g[1] = ss[1]
           /\ \A i \in 1..n : i # 1 => g[i] = g[i - 1] \o ss[i]
  <1>1. \A i \in 1..n : g[i] = IF i = 1 THEN ss[i] ELSE g[i - 1] \o ss[i]
    BY Zenon DEF Flattens
  <1>2. 1 \in 1..n
    OBVIOUS
  <1> QED  BY <1>1, <1>2

LEMMA FlattenSeqIs ==
    ASSUME NEW ss, Len(ss) \in Nat, Len(ss) # 0
    PROVE  \E g : Flattens(ss, Len(ss), g) /\ FlattenSeq(ss) = g[Len(ss)]
  <1> DEFINE f == CHOOSE g : g = [i \in 1..Len(ss) |-> IF i = 1 THEN ss[i] ELSE g[i - 1] \o ss[i]]
  <1>1. f = [i \in 1..Len(ss) |-> IF i = 1 THEN ss[i] ELSE f[i - 1] \o ss[i]]
    BY FlattensExist DEF Flattens
  <1>2. FlattenSeq(ss) = f[Len(ss)]
    BY DEF FlattenSeq
  <1> QED  BY <1>1, <1>2 DEF Flattens

(* s lists the first k parts of ss, one part after the other. *)
ListsTo(s, ss, k) ==
    /\ \A i \in DOMAIN s : \E a \in 1..k : \E b \in DOMAIN ss[a] : s[i] = ss[a][b]
    /\ \A a \in 1..k : \A b \in DOMAIN ss[a] : \E i \in DOMAIN s : s[i] = ss[a][b]
    /\ \A i, j \in DOMAIN s : i < j =>
         \E a, c \in 1..k : \E b \in DOMAIN ss[a], d \in DOMAIN ss[c] :
             s[i] = ss[a][b] /\ s[j] = ss[c][d] /\ (a < c \/ (a = c /\ b < d))

LEMMA ListsMore ==
    ASSUME NEW X, NEW s \in Seq(X), NEW ss, NEW k \in Nat, ListsTo(s, ss, k),
           ss[k + 1] \in Seq(X)
    PROVE  ListsTo(s \o ss[k + 1], ss, k + 1)
  <1> DEFINE w == ss[k + 1]
             r == s \o w
  <1>1. /\ r \in Seq(X) /\ w \in Seq(X)
        /\ DOMAIN s = 1..Len(s) /\ DOMAIN w = 1..Len(w) /\ DOMAIN r = 1..(Len(s) + Len(w))
        /\ Len(s) \in Nat /\ Len(w) \in Nat
    OBVIOUS
  <1>2. \A i \in DOMAIN r : (i =< Len(s) => i \in DOMAIN s /\ r[i] = s[i])
                         /\ (i > Len(s) => i - Len(s) \in DOMAIN w /\ r[i] = w[i - Len(s)])
    OBVIOUS
  <1>3. /\ \A i \in DOMAIN s : i \in DOMAIN r /\ r[i] = s[i]
        /\ \A b \in DOMAIN w : b + Len(s) \in DOMAIN r /\ r[b + Len(s)] = w[b]
    OBVIOUS
  <1> HIDE DEF r
  <1>4. k + 1 \in 1..(k + 1) /\ \A a \in 1..k : a \in 1..(k + 1) /\ a < k + 1
    OBVIOUS
  <1>5. ASSUME NEW i \in DOMAIN r
        PROVE  \E a \in 1..(k + 1) : \E b \in DOMAIN ss[a] : r[i] = ss[a][b]
    <2>1. CASE i =< Len(s)
      BY <2>1, <1>2, <1>4 DEF ListsTo
    <2>2. CASE i > Len(s)
      BY <2>2, <1>2, <1>4
    <2> QED  BY <2>1, <2>2, <1>1
  <1>6. ASSUME NEW a \in 1..(k + 1), NEW b \in DOMAIN ss[a]
        PROVE  \E i \in DOMAIN r : r[i] = ss[a][b]
    <2>1. CASE a \in 1..k
      BY <2>1, <1>3 DEF ListsTo
    <2>2. CASE a = k + 1
      BY <2>2, <1>3
    <2> QED  BY <2>1, <2>2
  <1>7. ASSUME NEW i \in DOMAIN r, NEW j \in DOMAIN r, i < j
        PROVE  \E a, c \in 1..(k + 1) : \E b \in DOMAIN ss[a], d \in DOMAIN ss[c] :
                 r[i] = ss[a][b] /\ r[j] = ss[c][d] /\ (a < c \/ (a = c /\ b < d))
    <2>1. CASE j =< Len(s)
      <3>1. i \in DOMAIN s /\ j \in DOMAIN s /\ r[i] = s[i] /\ r[j] = s[j]
        BY <2>1, <1>7, <1>2, <1>1
      <3>2. PICK a \in 1..k, c \in 1..k : \E b \in DOMAIN ss[a], d \in DOMAIN ss[c] :
               s[i] = ss[a][b] /\ s[j] = ss[c][d] /\ (a < c \/ (a = c /\ b < d))
        BY <3>1, <1>7 DEF ListsTo
      <3>3. a \in 1..(k + 1) /\ c \in 1..(k + 1)
        BY <1>4
      <3> QED  BY <3>1, <3>2, <3>3, Zenon
    <2>2. CASE i =< Len(s) /\ j > Len(s)
      <3>1. i \in DOMAIN s /\ r[i] = s[i] /\ j - Len(s) \in DOMAIN w /\ r[j] = w[j - Len(s)]
        BY <2>2, <1>2
      <3>2. PICK a \in 1..k : \E b \in DOMAIN ss[a] : r[i] = ss[a][b]
        BY <3>1 DEF ListsTo
      <3> QED  BY <3>1, <3>2, <1>4
    <2>3. CASE i > Len(s) /\ j > Len(s)
      <3>1. /\ i - Len(s) \in DOMAIN w /\ r[i] = w[i - Len(s)]
            /\ j - Len(s) \in DOMAIN w /\ r[j] = w[j - Len(s)]
        BY <2>3, <1>2
      <3>2. i - Len(s) < j - Len(s)
        BY <1>7, <1>1
      <3> QED  BY <3>1, <3>2, <1>4
    <2> QED  BY <2>1, <2>2, <2>3, <1>1, <1>7
  <1>8. ListsTo(r, ss, k + 1)
    BY <1>5, <1>6, <1>7 DEF ListsTo
  <1> QED  BY <1>8 DEF r

(* FlattenSeq lists all the parts. *)
LEMMA FlattenLists ==
    ASSUME NEW X, NEW ss \in Seq(Seq(X))
    PROVE  FlattenSeq(ss) \in Seq(X) /\ ListsTo(FlattenSeq(ss), ss, Len(ss))
  <1>0. Len(ss) \in Nat /\ \A i \in 1..Len(ss) : ss[i] \in Seq(X)
    OBVIOUS
  <1>1. CASE Len(ss) = 0
    <2>1. FlattenSeq(ss) = ss /\ ss = <<>>
      BY <1>1 DEF FlattenSeq
    <2> QED  BY <2>1, <1>1 DEF ListsTo
  <1>2. CASE Len(ss) # 0
    <2>1. PICK g : Flattens(ss, Len(ss), g) /\ FlattenSeq(ss) = g[Len(ss)]
      BY <1>0, <1>2, FlattenSeqIs
    <2>2. /\ g[1] = ss[1]
          /\ \A i \in 1..Len(ss) : i # 1 => g[i] = g[i - 1] \o ss[i]
      BY <1>0, <1>2, <2>1, FlattensAt
    <2> DEFINE P == {k \in Nat : k + 1 =< Len(ss) =>
                       g[k + 1] \in Seq(X) /\ ListsTo(g[k + 1], ss, k + 1)}
    <2>3. 0 \in P
      <3>1. ss[1] \in Seq(X)
        BY <1>0, <1>2
      <3>2. ListsTo(ss[1], ss, 1)
        BY <3>1 DEF ListsTo
      <3> QED  BY <3>1, <3>2, <2>2
    <2>4. ASSUME NEW k \in P PROVE k + 1 \in P
      <3> SUFFICES ASSUME k + 2 =< Len(ss)
                   PROVE  g[k + 2] \in Seq(X) /\ ListsTo(g[k + 2], ss, k + 2)
        OBVIOUS
      <3>1. k \in Nat /\ g[k + 1] \in Seq(X) /\ ListsTo(g[k + 1], ss, k + 1)
        BY <1>0
      <3> HIDE DEF P
      <3>2. k + 2 \in 1..Len(ss) /\ k + 2 # 1 /\ (k + 2) - 1 = k + 1 /\ (k + 1) + 1 = k + 2
        BY <1>0, <3>1
      <3>3. g[k + 2] = g[k + 1] \o ss[k + 2] /\ ss[k + 2] \in Seq(X)
        BY <3>2, <2>2, <1>0
      <3>4. g[k + 2] \in Seq(X)
        BY <3>1, <3>3
      <3>5. ListsTo(g[k + 1] \o ss[(k + 1) + 1], ss, (k + 1) + 1)
        BY <3>1, <3>2, <3>3, ListsMore
      <3> QED  BY <3>2, <3>3, <3>4, <3>5
    <2> HIDE DEF P
    <2>5. P \in SUBSET Nat
      BY DEF P
    <2>6. Len(ss) - 1 \in P
      <3>1. Len(ss) - 1 \in Nat
        BY <1>0, <1>2
      <3>2. P = Nat
        BY <2>3, <2>4, <2>5, AllNaturals
      <3> QED  BY <3>1, <3>2
    <2>7. (Len(ss) - 1) + 1 = Len(ss)
      BY <1>0
    <2> QED  BY <2>1, <2>6, <2>7, <1>0 DEF P
  <1> QED  BY <1>1, <1>2

(***************************************************************************)
(* Sorted: the members of a set, each once, in ascending order.            *)
(***************************************************************************)
LEMMA FiniteIsBounded ==
    ASSUME NEW S \in SUBSET Nat, IsFiniteSet(S)
    PROVE  \E b \in Nat : \A x \in S : x =< b
  <1> DEFINE P == {n \in Nat : \A T \in SUBSET Nat :
                     IsFiniteSet(T) /\ Cardinality(T) = n => \E b \in Nat : \A x \in T : x =< b}
  <1>1. 0 \in P
    <2>1. ASSUME NEW T \in SUBSET Nat, IsFiniteSet(T), Cardinality(T) = 0
          PROVE  \E b \in Nat : \A x \in T : x =< b
      <3>1. T = {}
        BY <2>1, FS_EmptySet
      <3> QED  BY <3>1
    <2> QED  BY <2>1
  <1>2. ASSUME NEW n \in P PROVE n + 1 \in P
    <2>0. n \in Nat
      OBVIOUS
    <2>1. ASSUME NEW T \in SUBSET Nat, IsFiniteSet(T), Cardinality(T) = n + 1
          PROVE  \E b \in Nat : \A x \in T : x =< b
      <3>1. T # {}
        BY <2>0, <2>1, FS_EmptySet
      <3>2. PICK y \in T : TRUE
        BY <3>1
      <3>3. IsFiniteSet(T \ {y}) /\ Cardinality(T \ {y}) = n
        <4>1. IsFiniteSet(T \ {y}) /\ Cardinality(T \ {y}) = Cardinality(T) - 1
          BY <2>1, FS_RemoveElement
        <4> QED  BY <4>1, <2>0, <2>1
      <3>4. PICK b \in Nat : \A x \in T \ {y} : x =< b
        BY <3>3
      <3>5. \A x \in T : x =< b + y
        BY <3>4
      <3> QED  BY <3>5
    <2> QED  BY <2>0, <2>1
  <1> HIDE DEF P
  <1>3. P \in SUBSET Nat
    BY DEF P
  <1>4. P = Nat
    BY <1>1, <1>2, <1>3, AllNaturals
  <1>5. Cardinality(S) \in P
    BY <1>4, FS_CardinalityType
  <1> QED  BY <1>5 DEF P

(* The least member, as Sorted takes it. *)
LEMMA MinIs ==
    ASSUME NEW T \in SUBSET Nat, T # {}
    PROVE  Min(T) \in T /\ \A y \in T : Min(T) =< y
  BY LeastNatural DEF Min

(* The function Sorted is defined with, on the subsets of S. *)
Sorts(S, f) ==
    f = [T \in SUBSET S |-> IF T = {} THEN <<>> ELSE <<Min(T)>> \o f[T \ {Min(T)}]]

(* The members of S among the last k numbers up to b. *)
Topmost(S, b, k) == {x \in S : x + k > b}

LEMMA TopmostGrows ==
    ASSUME NEW S \in SUBSET Nat, NEW b \in Nat, \A x \in S : x =< b
    PROVE  /\ Topmost(S, b, 0) = {}
           /\ Topmost(S, b, b + 1) = S
           /\ \A k \in Nat : Topmost(S, b, k) \subseteq Topmost(S, b, k + 1)
  <1>1. \A x \in S : x \in Nat
    OBVIOUS
  <1>2. ASSUME NEW x \in S
        PROVE  ~(x + 0 > b) /\ x + (b + 1) > b /\ \A k \in Nat : x + k > b => x + (k + 1) > b
    BY <1>1
  <1>3. Topmost(S, b, 0) = {} /\ Topmost(S, b, b + 1) = S
    BY <1>2, Zenon DEF Topmost
  <1>4. ASSUME NEW k \in Nat PROVE Topmost(S, b, k) \subseteq Topmost(S, b, k + 1)
    BY <1>2, Zenon DEF Topmost
  <1> QED  BY <1>3, <1>4

LEMMA TopmostRemoved ==
    ASSUME NEW S \in SUBSET Nat, NEW b \in Nat, NEW k \in Nat,
           NEW T \in SUBSET Topmost(S, b, k + 1), T # {}
    PROVE  T \ {Min(T)} \in SUBSET Topmost(S, b, k)
  <1>1. T \in SUBSET Nat
    BY DEF Topmost
  <1>2. Min(T) \in T /\ \A y \in T : Min(T) =< y
    BY <1>1, MinIs
  <1>3. ASSUME NEW y \in T, y # Min(T) PROVE y + k > b
    <2>0. y \in Nat /\ Min(T) \in Nat /\ Min(T) =< y
      BY <1>1, <1>2
    <2>1. y \in Nat /\ Min(T) \in Nat /\ Min(T) < y
      BY <2>0, <1>3
    <2>2. Min(T) + (k + 1) > b
      BY <1>2 DEF Topmost
    <2> QED  BY <2>1, <2>2
  <1> QED  BY <1>1, <1>3 DEF Topmost

LEMMA SortsExist ==
    ASSUME NEW S \in SUBSET Nat, IsFiniteSet(S)
    PROVE  \E f : Sorts(S, f)
  <1>1. PICK b \in Nat : \A x \in S : x =< b
    BY FiniteIsBounded
  <1> DEFINE P == {k \in Nat : \E f : Sorts(Topmost(S, b, k), f)}
  <1>2. 0 \in P
    <2>1. Topmost(S, b, 0) = {}
      BY <1>1, TopmostGrows
    <2> DEFINE f == [T \in SUBSET {} |-> <<>>]
    <2>2. Sorts({}, f)
      BY DEF Sorts
    <2> QED  BY <2>1, <2>2
  <1>3. ASSUME NEW k \in P PROVE k + 1 \in P
    <2>1. k \in Nat
      OBVIOUS
    <2>2. PICK f : Sorts(Topmost(S, b, k), f)
      OBVIOUS
    <2> HIDE DEF P
    <2> DEFINE L == Topmost(S, b, k + 1)
               h == [T \in SUBSET L |->
                       IF T = {} THEN <<>> ELSE <<Min(T)>> \o f[T \ {Min(T)}]]
    <2>3. Topmost(S, b, k) \subseteq L
      BY <2>1, <1>1, TopmostGrows
    <2>4. ASSUME NEW T \in SUBSET Topmost(S, b, k) PROVE h[T] = f[T]
      <3>1. T \in SUBSET L
        BY <2>3
      <3>2. h[T] = IF T = {} THEN <<>> ELSE <<Min(T)>> \o f[T \ {Min(T)}]
        BY <3>1
      <3>3. f[T] = IF T = {} THEN <<>> ELSE <<Min(T)>> \o f[T \ {Min(T)}]
        BY <2>2, Zenon DEF Sorts
      <3> QED  BY <3>2, <3>3
    <2> HIDE DEF h
    <2>5. ASSUME NEW T \in SUBSET L, T # {} PROVE h[T \ {Min(T)}] = f[T \ {Min(T)}]
      <3>1. T \ {Min(T)} \in SUBSET Topmost(S, b, k)
        BY <2>1, <2>5, TopmostRemoved
      <3> QED  BY <3>1, <2>4
    <2>6. ASSUME NEW T \in SUBSET L
          PROVE  h[T] = IF T = {} THEN <<>> ELSE <<Min(T)>> \o h[T \ {Min(T)}]
      <3>1. h[T] = IF T = {} THEN <<>> ELSE <<Min(T)>> \o f[T \ {Min(T)}]
        BY DEF h
      <3> QED  BY <3>1, <2>5
    <2>7. h = [T \in SUBSET L |-> IF T = {} THEN <<>> ELSE <<Min(T)>> \o h[T \ {Min(T)}]]
      <3>1. h = [T \in SUBSET L |-> h[T]]
        BY DEF h
      <3> HIDE DEF L
      <3> QED  BY <3>1, <2>6, Zenon
    <2>8. \E g : Sorts(L, g)
      BY <2>7 DEF Sorts
    <2> QED  BY <2>1, <2>8 DEF P
  <1> HIDE DEF P
  <1>4. P \in SUBSET Nat
    BY DEF P
  <1>5. b + 1 \in P
    <2>1. b + 1 \in Nat
      OBVIOUS
    <2> QED  BY <2>1, <1>2, <1>3, <1>4, AllNaturals
  <1>6. Topmost(S, b, b + 1) = S
    BY <1>1, TopmostGrows
  <1> QED  BY <1>5, <1>6 DEF P

(* s lists the members of T, ascending. *)
Ascends(s, T) ==
    /\ s \in Seq(Nat)
    /\ ToSet(s) = T
    /\ \A i, j \in DOMAIN s : i < j => s[i] < s[j]

LEMMA AscendsCons ==
    ASSUME NEW x \in Nat, NEW T, NEW s, Ascends(s, T), \A y \in T : x < y
    PROVE  Ascends(<<x>> \o s, T \cup {x})
  <1> DEFINE r == <<x>> \o s
  <1>1. /\ s \in Seq(Nat) /\ Len(s) \in Nat /\ DOMAIN s = 1..Len(s)
        /\ \A i \in DOMAIN s : s[i] \in T
    BY DEF Ascends, ToSet
  <1>2. /\ r \in Seq(Nat) /\ Len(r) = Len(s) + 1 /\ DOMAIN r = 1..(Len(s) + 1)
        /\ r[1] = x
    BY <1>1
  <1>3. \A i \in DOMAIN r : i # 1 => i - 1 \in DOMAIN s /\ r[i] = s[i - 1]
    BY <1>1
  <1>4. \A i \in DOMAIN s : i + 1 \in DOMAIN r /\ r[i + 1] = s[i]
    BY <1>1
  <1> HIDE DEF r
  <1>5. 1 \in DOMAIN r
    BY <1>1, <1>2
  <1>6. ToSet(r) \subseteq T \cup {x}
    BY <1>1, <1>2, <1>3 DEF ToSet
  <1>7. T \cup {x} \subseteq ToSet(r)
    <2>1. x \in ToSet(r)
      BY <1>2, <1>5 DEF ToSet
    <2>2. ASSUME NEW y \in T PROVE y \in ToSet(r)
      <3>1. PICK i \in DOMAIN s : y = s[i]
        BY DEF Ascends, ToSet
      <3> QED  BY <3>1, <1>4 DEF ToSet
    <2> QED  BY <2>1, <2>2
  <1>8. ASSUME NEW i \in DOMAIN r, NEW j \in DOMAIN r, i < j PROVE r[i] < r[j]
    <2>1. j # 1 /\ j - 1 \in DOMAIN s /\ r[j] = s[j - 1]
      BY <1>2, <1>3, <1>8
    <2>2. CASE i = 1
      BY <2>1, <2>2, <1>1, <1>2
    <2>3. CASE i # 1
      <3>1. i - 1 \in DOMAIN s /\ r[i] = s[i - 1] /\ i - 1 < j - 1
        BY <2>3, <1>2, <1>3, <1>8
      <3> QED  BY <3>1, <2>1 DEF Ascends
    <2> QED  BY <2>2, <2>3
  <1>9. Ascends(r, T \cup {x})
    BY <1>2, <1>6, <1>7, <1>8 DEF Ascends
  <1> QED  BY <1>9 DEF r

(* What Sorted returns. *)
LEMMA SortedAscends ==
    ASSUME NEW S \in SUBSET Nat, IsFiniteSet(S)
    PROVE  Ascends(Sorted(S), S)
  <1> DEFINE f == CHOOSE f : f = [T \in SUBSET S |->
                    IF T = {} THEN <<>> ELSE <<Min(T)>> \o f[T \ {Min(T)}]]
  <1>1. Sorts(S, f)
    BY SortsExist, Zenon DEF Sorts
  <1>2. Sorted(S) = f[S]
    BY DEF Sorted, Min
  <1> HIDE DEF f
  <1>3. PICK b \in Nat : \A x \in S : x =< b
    BY FiniteIsBounded
  <1> DEFINE P == {k \in Nat : \A T \in SUBSET Topmost(S, b, k) : Ascends(f[T], T)}
  <1>4. ASSUME NEW T \in SUBSET S
        PROVE  f[T] = IF T = {} THEN <<>> ELSE <<Min(T)>> \o f[T \ {Min(T)}]
    BY <1>1, Zenon DEF Sorts
  <1>5. Ascends(f[{}], {})
    <2>1. f[{}] = <<>>
      BY <1>4
    <2> QED  BY <2>1 DEF Ascends, ToSet
  <1>6. 0 \in P
    <2>1. Topmost(S, b, 0) = {}
      BY <1>3, TopmostGrows
    <2> QED  BY <2>1, <1>5
  <1>7. ASSUME NEW k \in P PROVE k + 1 \in P
    <2>1. k \in Nat /\ \A T \in SUBSET Topmost(S, b, k) : Ascends(f[T], T)
      OBVIOUS
    <2> HIDE DEF P
    <2>2. ASSUME NEW T \in SUBSET Topmost(S, b, k + 1) PROVE Ascends(f[T], T)
      <3>1. CASE T = {}
        BY <3>1, <1>5
      <3>2. CASE T # {}
        <4>1. T \in SUBSET S /\ T \in SUBSET Nat
          BY DEF Topmost
        <4>2. Min(T) \in T /\ \A y \in T : Min(T) =< y
          BY <3>2, <4>1, MinIs
        <4>3. T \ {Min(T)} \in SUBSET Topmost(S, b, k)
          BY <2>1, <3>2, TopmostRemoved
        <4>4. Ascends(f[T \ {Min(T)}], T \ {Min(T)})
          BY <4>3, <2>1
        <4>5. Min(T) \in Nat /\ \A y \in T \ {Min(T)} : Min(T) < y
          <5>1. Min(T) \in Nat /\ \A y \in T : y \in Nat
            BY <4>1, <4>2
          <5> QED  BY <5>1, <4>2
        <4>6. Ascends(<<Min(T)>> \o f[T \ {Min(T)}], (T \ {Min(T)}) \cup {Min(T)})
          BY <4>4, <4>5, AscendsCons
        <4>7. (T \ {Min(T)}) \cup {Min(T)} = T
          BY <4>2
        <4>8. f[T] = <<Min(T)>> \o f[T \ {Min(T)}]
          BY <4>1, <3>2, <1>4
        <4> QED  BY <4>6, <4>7, <4>8
      <3> QED  BY <3>1, <3>2
    <2> QED  BY <2>1, <2>2 DEF P
  <1> HIDE DEF P
  <1>8. P \in SUBSET Nat
    BY DEF P
  <1>9. b + 1 \in P
    <2>1. b + 1 \in Nat
      OBVIOUS
    <2> QED  BY <2>1, <1>6, <1>7, <1>8, AllNaturals
  <1>10. S \in SUBSET Topmost(S, b, b + 1)
    BY <1>3, TopmostGrows
  <1> QED  BY <1>2, <1>9, <1>10 DEF P

(* Two lists of the same numbers, both ascending, agree place by place. *)
LEMMA AscendsAgree ==
    ASSUME NEW T, NEW a, NEW b, Ascends(a, T), Ascends(b, T), NEW i \in DOMAIN a,
           \A k \in Nat : k < i => (k \in DOMAIN a => k \in DOMAIN b /\ b[k] = a[k])
    PROVE  i \in DOMAIN b /\ b[i] = a[i]
  <1>1. /\ a \in Seq(Nat) /\ Len(a) \in Nat /\ DOMAIN a = 1..Len(a)
        /\ b \in Seq(Nat) /\ Len(b) \in Nat /\ DOMAIN b = 1..Len(b)
        /\ \A k \in DOMAIN a : a[k] \in Nat /\ \A l \in DOMAIN a : k < l => a[k] < a[l]
        /\ \A k \in DOMAIN b : b[k] \in Nat /\ \A l \in DOMAIN b : k < l => b[k] < b[l]
    BY DEF Ascends
  <1>2. PICK j \in DOMAIN b : b[j] = a[i]
    BY DEF Ascends, ToSet
  <1>3. j >= i
    <2> SUFFICES ASSUME j < i PROVE FALSE
      BY <1>1
    <2>1. j \in DOMAIN a /\ b[j] = a[j] /\ a[j] < a[i]
      BY <1>1
    <2> QED  BY <2>1, <1>1, <1>2
  <1>4. i \in DOMAIN b /\ (i < j => b[i] < b[j])
    BY <1>1, <1>3
  <1>5. PICK l \in DOMAIN a : a[l] = b[i]
    BY <1>4 DEF Ascends, ToSet
  <1>6. l >= i
    <2> SUFFICES ASSUME l < i PROVE FALSE
      BY <1>1
    <2>1. l \in DOMAIN b /\ b[l] = a[l] /\ b[l] < b[i]
      BY <1>1, <1>4
    <2> QED  BY <2>1, <1>1, <1>5
  <1>7. l # i => a[i] < a[l]
    BY <1>1, <1>6
  <1>8. CASE i = j
    BY <1>8, <1>2, <1>4
  <1>9. CASE i < j
    BY <1>9, <1>1, <1>2, <1>4, <1>5, <1>7
  <1> QED  BY <1>1, <1>3, <1>4, <1>8, <1>9

LEMMA AscendsWithin ==
    ASSUME NEW T, NEW a, NEW b, Ascends(a, T), Ascends(b, T), NEW i \in DOMAIN a
    PROVE  i \in DOMAIN b /\ b[i] = a[i]
  <1> DEFINE Q == {k \in Nat : k \in DOMAIN a /\ ~(k \in DOMAIN b /\ b[k] = a[k])}
  <1>0. i \in Nat
    <2>1. a \in Seq(Nat)
      BY DEF Ascends
    <2> QED  BY <2>1
  <1> SUFFICES ASSUME Q # {} PROVE FALSE
    BY <1>0
  <1>1. Q \in SUBSET Nat
    OBVIOUS
  <1>2. PICK k \in Q : \A y \in Q : k =< y
    BY <1>1, LeastNatural
  <1>3. k \in Nat /\ k \in DOMAIN a /\ ~(k \in DOMAIN b /\ b[k] = a[k])
    OBVIOUS
  <1>4. \A l \in Nat : l < k => (l \in DOMAIN a => l \in DOMAIN b /\ b[l] = a[l])
    BY <1>2, <1>3
  <1> QED  BY <1>3, <1>4, AscendsAgree

LEMMA AscendsUnique ==
    ASSUME NEW T, NEW a, NEW b, Ascends(a, T), Ascends(b, T)
    PROVE  a = b
  <1>1. \A i \in DOMAIN a : i \in DOMAIN b /\ b[i] = a[i]
    BY AscendsWithin
  <1>2. \A i \in DOMAIN b : i \in DOMAIN a
    BY AscendsWithin
  <1>3. DOMAIN a = DOMAIN b
    BY <1>1, <1>2
  <1>4. a \in Seq(Nat) /\ b \in Seq(Nat)
    BY DEF Ascends
  <1>5. Len(a) = Len(b)
    <2>1. Len(a) \in Nat /\ Len(b) \in Nat /\ DOMAIN a = 1..Len(a) /\ DOMAIN b = 1..Len(b)
      BY <1>4
    <2>2. \A i \in Nat : 1 =< i /\ i =< Len(a) <=> 1 =< i /\ i =< Len(b)
      BY <2>1, <1>3
    <2>3. Len(a) =< Len(b)
      BY <2>1, <2>2
    <2>4. Len(b) =< Len(a)
      BY <2>1, <2>2
    <2>5. \A m, n \in Nat : m =< n /\ n =< m => m = n
      OBVIOUS
    <2> QED  BY <2>1, <2>3, <2>4, <2>5
  <1> QED  BY <1>1, <1>4, <1>5, SeqEqual

(* A number above all comes last. *)
LEMMA SortedAppend ==
    ASSUME NEW S \in SUBSET Nat, IsFiniteSet(S), NEW v \in Nat, \A x \in S : x < v
    PROVE  Sorted(S \cup {v}) = Append(Sorted(S), v)
  <1> DEFINE s == Sorted(S)
             r == Append(s, v)
  <1>1. Ascends(s, S)
    BY SortedAscends
  <1>2. Ascends(Sorted(S \cup {v}), S \cup {v})
    <2>1. IsFiniteSet(S \cup {v}) /\ S \cup {v} \in SUBSET Nat
      BY FS_AddElement
    <2> QED  BY <2>1, SortedAscends
  <1> HIDE DEF s
  <1>3. /\ s \in Seq(Nat) /\ Len(s) \in Nat /\ DOMAIN s = 1..Len(s)
        /\ \A i \in DOMAIN s : s[i] \in S
    BY <1>1 DEF Ascends, ToSet
  <1>4. /\ r \in Seq(Nat) /\ DOMAIN r = 1..(Len(s) + 1) /\ r[Len(s) + 1] = v
        /\ \A i \in DOMAIN s : r[i] = s[i]
    BY <1>3
  <1> HIDE DEF r
  <1>5. \A i \in DOMAIN r : i \in DOMAIN s \/ i = Len(s) + 1
    BY <1>3, <1>4
  <1>6. Len(s) + 1 \in DOMAIN r /\ \A i \in DOMAIN s : i \in DOMAIN r /\ i < Len(s) + 1
    BY <1>3, <1>4
  <1>7. ToSet(r) \subseteq S \cup {v}
    BY <1>3, <1>4, <1>5 DEF ToSet
  <1>8. S \cup {v} \subseteq ToSet(r)
    <2>1. v \in ToSet(r)
      BY <1>4, <1>6 DEF ToSet
    <2>2. ASSUME NEW y \in S PROVE y \in ToSet(r)
      <3>1. PICK i \in DOMAIN s : y = s[i]
        BY <1>1 DEF Ascends, ToSet
      <3> QED  BY <3>1, <1>4, <1>6 DEF ToSet
    <2> QED  BY <2>1, <2>2
  <1>9. ASSUME NEW i \in DOMAIN r, NEW j \in DOMAIN r, i < j PROVE r[i] < r[j]
    <2>1. i \in DOMAIN s
      BY <1>3, <1>4, <1>5, <1>6, <1>9
    <2>2. CASE j \in DOMAIN s
      BY <2>1, <2>2, <1>1, <1>4, <1>9 DEF Ascends
    <2>3. CASE j = Len(s) + 1
      BY <2>1, <2>3, <1>3, <1>4
    <2> QED  BY <2>2, <2>3, <1>5
  <1>10. Ascends(r, S \cup {v})
    BY <1>4, <1>7, <1>8, <1>9 DEF Ascends
  <1> QED  BY <1>2, <1>10, AscendsUnique DEF r, s

(* It is no longer than a finite set it is drawn from. *)
LEMMA SortedLength ==
    ASSUME NEW S \in SUBSET Nat, NEW T \in SUBSET S, IsFiniteSet(S)
    PROVE  Len(Sorted(T)) =< Cardinality(S)
  <1>1. IsFiniteSet(T)
    BY FS_Subset
  <1> DEFINE s == Sorted(T)
  <1>2. Ascends(s, T)
    BY <1>1, SortedAscends
  <1> HIDE DEF s
  <1>3. /\ s \in Seq(Nat) /\ Len(s) \in Nat /\ DOMAIN s = 1..Len(s)
        /\ \A i \in DOMAIN s : s[i] \in S /\ s[i] \in Nat
    BY <1>2 DEF Ascends, ToSet
  <1>4. s \in [1..Len(s) -> S]
    BY <1>3
  <1>5. ASSUME NEW i \in 1..Len(s), NEW j \in 1..Len(s), s[i] = s[j] PROVE i = j
    BY <1>2, <1>3, <1>5 DEF Ascends
  <1>6. s \in Injection(1..Len(s), S)
    BY <1>4, <1>5 DEF Injection, IsInjective
  <1>7. Cardinality(1..Len(s)) =< Cardinality(S)
    BY <1>6, FS_Injection
  <1>8. Cardinality(1..Len(s)) = Len(s)
    <2>1. Cardinality(1..Len(s)) = IF 1 > Len(s) THEN 0 ELSE Len(s) - 1 + 1
      BY <1>3, FS_Interval
    <2> QED  BY <2>1, <1>3
  <1> QED  BY <1>7, <1>8 DEF s

(***************************************************************************)
(* ExecAll, as the states it passes through.                               *)
(***************************************************************************)
Passes(d, s, ops, R) ==
    /\ R[0] = s
    /\ \A i \in 1..Len(ops) : R[i] = Exec(d, R[i - 1], ops[i])

(* The function its fold is defined with. *)
Folds2(d, s, ops, n, g) ==
    g = [T \in SUBSET (1..n) |-> IF T = {} THEN s ELSE Exec(d, g[T \ {Max(T)}], ops[Max(T)])]

LEMMA MaxIs ==
    ASSUME NEW n \in Nat, NEW T \in SUBSET (1..n), T # {}
    PROVE  Max(T) \in T /\ \A y \in T : y =< Max(T)
  <1>1. T \in SUBSET Nat /\ \A x \in T : x =< n
    OBVIOUS
  <1>2. PICK x \in T : \A y \in T : y =< x
    BY <1>1, GreatestNatural
  <1>3. \A y \in T : x >= y
    BY <1>1, <1>2
  <1>4. Max(T) \in T /\ \A y \in T : Max(T) >= y
    BY <1>3 DEF Max
  <1> QED  BY <1>1, <1>4

LEMMA FoldsExist ==
    ASSUME NEW d, NEW s, NEW ops, NEW n \in Nat
    PROVE  \E g : Folds2(d, s, ops, n, g)
  <1> DEFINE P == {k \in Nat : \E g : Folds2(d, s, ops, k, g)}
  <1>1. 0 \in P
    <2> DEFINE g == [T \in SUBSET (1..0) |-> s]
    <2>1. \A T \in SUBSET (1..0) : T = {}
      OBVIOUS
    <2>2. Folds2(d, s, ops, 0, g)
      BY <2>1 DEF Folds2
    <2> QED  BY <2>2
  <1>2. ASSUME NEW k \in P PROVE k + 1 \in P
    <2>1. k \in Nat
      OBVIOUS
    <2>2. PICK g : Folds2(d, s, ops, k, g)
      OBVIOUS
    <2> HIDE DEF P
    <2> DEFINE L == 1..(k + 1)
               Fold(f, T) == IF T = {} THEN s ELSE Exec(d, f[T \ {Max(T)}], ops[Max(T)])
               h == [T \in SUBSET L |-> Fold(g, T)]
    <2>3. 1..k \subseteq L
      BY <2>1
    <2>4. ASSUME NEW T \in SUBSET (1..k) PROVE h[T] = g[T]
      <3>1. T \in SUBSET L
        BY <2>3
      <3>2. h[T] = Fold(g, T)
        BY <3>1
      <3>3. g[T] = Fold(g, T)
        BY <2>2, Zenon DEF Folds2
      <3> QED  BY <3>2, <3>3
    <2> HIDE DEF h
    <2>5. ASSUME NEW T \in SUBSET L, T # {} PROVE h[T \ {Max(T)}] = g[T \ {Max(T)}]
      <3>0. k + 1 \in Nat
        BY <2>1
      <3>1. Max(T) \in T /\ \A y \in T : y =< Max(T)
        BY <3>0, <2>5, MaxIs
      <3>2. T \ {Max(T)} \in SUBSET (1..k)
        <4>1. ASSUME NEW y \in T, y # Max(T) PROVE y \in 1..k
          <5>1. y \in 1..(k + 1) /\ Max(T) \in 1..(k + 1) /\ y =< Max(T)
            BY <3>1
          <5> QED  BY <5>1, <4>1, <2>1
        <4> QED  BY <4>1
      <3> QED  BY <3>2, <2>4
    <2>6. ASSUME NEW T \in SUBSET L PROVE h[T] = Fold(h, T)
      <3>1. h[T] = Fold(g, T)
        BY DEF h
      <3> QED  BY <3>1, <2>5
    <2>7. h = [T \in SUBSET L |-> Fold(h, T)]
      <3>1. h = [T \in SUBSET L |-> h[T]]
        BY DEF h
      <3> HIDE DEF L, Fold
      <3> QED  BY <3>1, <2>6, Zenon
    <2>8. \E f : Folds2(d, s, ops, k + 1, f)
      BY <2>7 DEF Folds2
    <2> QED  BY <2>1, <2>8 DEF P
  <1> HIDE DEF P
  <1>3. P \in SUBSET Nat
    BY DEF P
  <1>4. n \in P
    BY <1>1, <1>2, <1>3, AllNaturals
  <1> QED  BY <1>4 DEF P

LEMMA ExecAllPasses ==
    ASSUME NEW d, NEW s, NEW X, NEW ops \in Seq(X)
    PROVE  \E R : Passes(d, s, ops, R) /\ ExecAll(d, s, ops) = R[Len(ops)]
  <1> DEFINE n == Len(ops)
             f == CHOOSE g : g = [T \in SUBSET (1..n) |->
                    IF T = {} THEN s ELSE Exec(d, g[T \ {Max(T)}], ops[Max(T)])]
  <1>1. n \in Nat /\ DOMAIN ops = 1..n
    OBVIOUS
  <1>2. Folds2(d, s, ops, n, f)
    <2> HIDE DEF n
    <2>1. \E g : Folds2(d, s, ops, n, g)
      BY <1>1, FoldsExist
    <2> QED  BY <2>1, Zenon DEF Folds2
  <1>3. ExecAll(d, s, ops) = f[1..n]
    <2> HIDE DEF n
    <2> QED  BY <1>1 DEF ExecAll, FoldLeft, MapThenFoldSet
  <1> HIDE DEF f, n
  <1> DEFINE R == [k \in 0..n |-> f[1..k]]
  <1>4. ASSUME NEW T \in SUBSET (1..n)
        PROVE  f[T] = IF T = {} THEN s ELSE Exec(d, f[T \ {Max(T)}], ops[Max(T)])
    BY <1>2, Zenon DEF Folds2
  <1>5. R[0] = s
    <2>1. 1..0 = {} /\ 0 \in 0..n
      BY <1>1
    <2>2. f[{}] = s
      BY <1>4
    <2> QED  BY <2>1, <2>2
  <1>6. ASSUME NEW i \in 1..n PROVE R[i] = Exec(d, R[i - 1], ops[i])
    <2>1. i \in Nat /\ i \in 0..n /\ i - 1 \in 0..n
      BY <1>1
    <2>2. 1..i \in SUBSET (1..n) /\ 1..i # {}
      BY <1>1, <2>1
    <2>3. Max(1..i) \in 1..i /\ \A y \in 1..i : y =< Max(1..i)
      BY <2>1, <2>2, MaxIs
    <2>4. Max(1..i) = i
      <3>1. i \in 1..i
        BY <2>1
      <3>2. i =< Max(1..i)
        BY <2>3, <3>1
      <3> QED  BY <2>1, <2>3, <3>2
    <2>5. (1..i) \ {i} = 1..(i - 1)
      BY <2>1
    <2>6. f[1..i] = Exec(d, f[1..(i - 1)], ops[i])
      BY <1>4, <2>2, <2>4, <2>5
    <2> QED  BY <2>1, <2>6
  <1>7. R[n] = f[1..n]
    BY <1>1
  <1> QED  BY <1>3, <1>5, <1>6, <1>7 DEF Passes, n

LEMMA PassesOnce ==
    ASSUME NEW d, NEW s, NEW X, NEW ops \in Seq(X), NEW R, NEW Q,
           Passes(d, s, ops, R), Passes(d, s, ops, Q)
    PROVE  R[Len(ops)] = Q[Len(ops)]
  <1> DEFINE P == {k \in Nat : k =< Len(ops) => R[k] = Q[k]}
  <1>1. 0 \in P
    BY DEF Passes
  <1>2. ASSUME NEW k \in P PROVE k + 1 \in P
    <2> SUFFICES ASSUME k + 1 =< Len(ops) PROVE R[k + 1] = Q[k + 1]
      OBVIOUS
    <2>1. k \in Nat /\ R[k] = Q[k] /\ k + 1 \in 1..Len(ops) /\ (k + 1) - 1 = k
      OBVIOUS
    <2> QED  BY <2>1 DEF Passes
  <1> HIDE DEF P
  <1>3. P \in SUBSET Nat
    BY DEF P
  <1>4. Len(ops) \in P
    <2>1. P = Nat
      BY <1>1, <1>2, <1>3, AllNaturals
    <2>2. Len(ops) \in Nat
      OBVIOUS
    <2> QED  BY <2>1, <2>2
  <1> QED  BY <1>4 DEF P

LEMMA ExecAllIs ==
    ASSUME NEW d, NEW s, NEW X, NEW ops \in Seq(X), NEW R, Passes(d, s, ops, R)
    PROVE  ExecAll(d, s, ops) = R[Len(ops)]
  BY ExecAllPasses, PassesOnce

(***************************************************************************)
(* Diff: the changes of a table, named by kind and column.                 *)
(***************************************************************************)
InPlace == {"DropIndex", "DropUnique", "DropPrimaryKey", "ChangeType", "ChangeNullability",
            "AddPrimaryKey", "AddUnique", "AddIndex"}

(* The changes from one field to another. *)
Differs(k, f, g) ==
    \/ k = "DropIndex" /\ f.index /\ ~g.index
    \/ k = "AddIndex" /\ ~f.index /\ g.index
    \/ k = "DropUnique" /\ f.unique /\ ~g.unique
    \/ k = "AddUnique" /\ ~f.unique /\ g.unique
    \/ k = "DropPrimaryKey" /\ f.primaryKey /\ ~g.primaryKey
    \/ k = "AddPrimaryKey" /\ ~f.primaryKey /\ g.primaryKey
    \/ k = "ChangeType" /\ (f.type # g.type \/ f.maxLen # g.maxLen)
    \/ k = "ChangeNullability" /\ f.nullable # g.nullable

Needs(was, now, k, c) ==
    \/ k \in InPlace /\ c \in DOMAIN was \cap DOMAIN now /\ Differs(k, was[c], now[c])
    \/ k = "AddColumn" /\ c \in DOMAIN now \ DOMAIN was
    \/ k = "DropColumn" /\ c \in DOMAIN was \ DOMAIN now

(* The operation of a kind on a column; ren names where a column moves to. *)
AlterOf(t, now, k, c) ==
    CASE k = "ChangeType" -> ChangeType(t, c, now[c])
      [] k = "ChangeNullability" -> ChangeNullability(t, c, now[c].nullable)
      [] k = "AddColumn" -> AddColumn(t, c, now[c])
      [] OTHER -> ColumnOp(k, t, c)

OpOf(t, now, ren, k, c) ==
    IF k = "RenameColumn" THEN RenameColumn(t, c, ren[c]) ELSE AlterOf(t, now, k, c)

Kind == InPlace \cup {"AddColumn", "DropColumn", "RenameColumn"}
Rank(k) == IF k = "RenameColumn" THEN 3 ELSE Ranks[k]

LEMMA OpOfIs ==
    ASSUME NEW t, NEW now, NEW ren, NEW k \in Kind, NEW c
    PROVE  /\ OpOf(t, now, ren, k, c).kind = k
           /\ OpOf(t, now, ren, k, c).table = t
           /\ OpOf(t, now, ren, k, c).column = c
  BY DEF OpOf, AlterOf, Kind, InPlace, ChangeType, ChangeNullability, AddColumn, RenameColumn, ColumnOp

LEMMA AlterOfIs ==
    ASSUME NEW t, NEW now, NEW k \in Kind \ {"RenameColumn"}, NEW c
    PROVE  /\ AlterOf(t, now, k, c).kind = k
           /\ AlterOf(t, now, k, c).table = t
           /\ AlterOf(t, now, k, c).column = c
  BY DEF AlterOf, Kind, InPlace, ChangeType, ChangeNullability, AddColumn, ColumnOp

LEMMA KindsRanked ==
    ASSUME NEW k \in Kind
    PROVE  /\ Rank(k) \in 0..9
           /\ k # "RenameColumn" => k \in DOMAIN Ranks /\ Ranks[k] = Rank(k)
  BY DEF Kind, InPlace, Rank, Ranks

LEMMA RanksTellKinds ==
    ASSUME NEW k \in Kind \ {"RenameColumn"}, NEW l \in Kind \ {"RenameColumn"}, Rank(k) = Rank(l)
    PROVE  k = l
  BY DEF Kind, InPlace, Rank, Ranks

(* The operations Diff gathers are the ones needed. *)
LEMMA AltersAre ==
    ASSUME NEW t, NEW was, NEW now, NEW op
    PROVE  op \in Alters(t, was, now) <=>
             \E k \in Kind \ {"RenameColumn"} : \E c \in DOMAIN was \cup DOMAIN now :
                 Needs(was, now, k, c) /\ op = AlterOf(t, now, k, c)
  <1> DEFINE A == Alters(t, was, now)
             kept == DOMAIN was \cap DOMAIN now
  <1>1. ASSUME op \in A
        PROVE  \E k \in Kind \ {"RenameColumn"} : \E c \in DOMAIN was \cup DOMAIN now :
                 Needs(was, now, k, c) /\ op = AlterOf(t, now, k, c)
    <2>1. \/ \E c \in kept : Differs("DropIndex", was[c], now[c]) /\ op = ColumnOp("DropIndex", t, c)
          \/ \E c \in kept : Differs("AddIndex", was[c], now[c]) /\ op = ColumnOp("AddIndex", t, c)
          \/ \E c \in kept : Differs("DropUnique", was[c], now[c]) /\ op = ColumnOp("DropUnique", t, c)
          \/ \E c \in kept : Differs("AddUnique", was[c], now[c]) /\ op = ColumnOp("AddUnique", t, c)
          \/ \E c \in kept : Differs("DropPrimaryKey", was[c], now[c]) /\ op = ColumnOp("DropPrimaryKey", t, c)
          \/ \E c \in kept : Differs("AddPrimaryKey", was[c], now[c]) /\ op = ColumnOp("AddPrimaryKey", t, c)
          \/ \E c \in kept : Differs("ChangeType", was[c], now[c]) /\ op = ChangeType(t, c, now[c])
          \/ \E c \in kept : Differs("ChangeNullability", was[c], now[c])
                               /\ op = ChangeNullability(t, c, now[c].nullable)
          \/ \E c \in DOMAIN now \ kept : op = AddColumn(t, c, now[c])
          \/ \E c \in DOMAIN was \ kept : op = ColumnOp("DropColumn", t, c)
      BY <1>1 DEF Alters, Differs
    <2> QED  BY <2>1 DEF Needs, AlterOf, Kind, InPlace
  <1>2. ASSUME NEW k \in Kind \ {"RenameColumn"}, NEW c \in DOMAIN was \cup DOMAIN now,
               Needs(was, now, k, c), op = AlterOf(t, now, k, c)
        PROVE  op \in A
    BY <1>2 DEF Alters, Needs, Differs, AlterOf, Kind, InPlace
  <1> QED  BY <1>1, <1>2

(* By rank, then by column. *)
Precedes(o, p) ==
    \/ Ranks[o.kind] < Ranks[p.kind]
    \/ Ranks[o.kind] = Ranks[p.kind] /\ o.column < p.column

(* The columns of a table: numbers, finitely many. *)
IsColumns(C) == C \in SUBSET Nat /\ IsFiniteSet(C)

LEMMA InOrderIs ==
    ASSUME NEW t, NEW was, NEW now, IsColumns(DOMAIN was), IsColumns(DOMAIN now)
    PROVE  LET A == Alters(t, was, now)
               s == InOrder(A)
           IN /\ s \in Seq(A)
              /\ \A op \in A : \E i \in DOMAIN s : s[i] = op
              /\ \A i, j \in DOMAIN s : i < j => Precedes(s[i], s[j])
  <1> DEFINE A == Alters(t, was, now)
             C == DOMAIN was \cup DOMAIN now
             Runs(r) == {op \in A : Ranks[op.kind] = r}
             Cols(r) == {op.column : op \in Runs(r)}
             Columns(r) == Sorted(Cols(r))
             Ranked(r) == [i \in DOMAIN Columns(r) |->
                             CHOOSE op \in Runs(r) : op.column = Columns(r)[i]]
             ss == [r \in 1..10 |-> Ranked(r - 1)]
  <1>1. InOrder(A) = FlattenSeq(ss)
    <2> HIDE DEF A
    <2> QED  BY DEF InOrder
  <1>2. ASSUME NEW op \in A
        PROVE  /\ op.kind \in Kind \ {"RenameColumn"} /\ op.column \in C
               /\ Ranks[op.kind] = Rank(op.kind) /\ Ranks[op.kind] \in 0..9
               /\ op = AlterOf(t, now, op.kind, op.column)
    <2>1. PICK k \in Kind \ {"RenameColumn"}, c \in C :
             Needs(was, now, k, c) /\ op = AlterOf(t, now, k, c)
      BY AltersAre
    <2>2. op.kind = k /\ op.column = c
      BY <2>1, AlterOfIs
    <2> QED  BY <2>1, <2>2, KindsRanked
  <1> HIDE DEF A
  <1>3. ASSUME NEW op \in A, NEW oq \in A, op.column = oq.column, Ranks[op.kind] = Ranks[oq.kind]
        PROVE  op = oq
    <2>1. op.kind = oq.kind
      BY <1>2, <1>3, RanksTellKinds
    <2> QED  BY <1>2, <1>3, <2>1
  <1>4. C \in SUBSET Nat /\ IsFiniteSet(C)
    BY FS_Union DEF IsColumns
  <1>5. ASSUME NEW r \in 0..9
        PROVE  Ascends(Columns(r), Cols(r))
    <2>1. Cols(r) \in SUBSET C
      BY <1>2
    <2>2. Cols(r) \in SUBSET Nat /\ IsFiniteSet(Cols(r))
      BY <1>4, <2>1, FS_Subset
    <2> HIDE DEF Cols
    <2> QED  BY <2>2, SortedAscends
  <1>6. ASSUME NEW r \in 0..9, NEW i \in DOMAIN Columns(r)
        PROVE  Ranked(r)[i] \in Runs(r) /\ Ranked(r)[i].column = Columns(r)[i]
    <2>1. Columns(r)[i] \in Cols(r)
      BY <1>5 DEF Ascends, ToSet
    <2>2. \E op \in Runs(r) : op.column = Columns(r)[i]
      BY <2>1
    <2> HIDE DEF Columns, Runs
    <2> QED  BY <2>2
  <1>7. ASSUME NEW r \in 0..9
        PROVE  /\ Ranked(r) \in Seq(A) /\ DOMAIN Ranked(r) = DOMAIN Columns(r)
               /\ \A i \in DOMAIN Ranked(r) : Ranked(r)[i] \in A /\ Ranks[Ranked(r)[i].kind] = r
    <2>1. Columns(r) \in Seq(Nat)
      BY <1>5 DEF Ascends
    <2>2. Len(Columns(r)) \in Nat /\ DOMAIN Columns(r) = 1..Len(Columns(r))
      BY <2>1
    <2>3. \A i \in DOMAIN Columns(r) : Ranked(r)[i] \in A /\ Ranks[Ranked(r)[i].kind] = r
      BY <1>6
    <2> HIDE DEF Columns
    <2>4. DOMAIN Ranked(r) = DOMAIN Columns(r)
      OBVIOUS
    <2> HIDE DEF Ranked
    <2>5. Ranked(r) = [i \in DOMAIN Columns(r) |-> Ranked(r)[i]]
      BY DEF Ranked
    <2>6. Ranked(r) \in Seq(A)
      BY <2>2, <2>3, <2>5
    <2> QED  BY <2>3, <2>4, <2>6
  <1>8. ASSUME NEW r \in 0..9, NEW i \in DOMAIN Ranked(r), NEW j \in DOMAIN Ranked(r), i < j
        PROVE  Ranked(r)[i].column < Ranked(r)[j].column
    <2> HIDE DEF Ranked, Columns, Cols, Runs
    <2>1. i \in DOMAIN Columns(r) /\ j \in DOMAIN Columns(r)
      BY <1>7
    <2>2. Ranked(r)[i].column = Columns(r)[i] /\ Ranked(r)[j].column = Columns(r)[j]
      BY <2>1, <1>6, Zenon
    <2>3. Columns(r)[i] < Columns(r)[j]
      BY <2>1, <1>5, <1>8, Zenon DEF Ascends
    <2> QED  BY <2>2, <2>3
  <1>9. ASSUME NEW op \in A
        PROVE  \E r \in 0..9 : \E i \in DOMAIN Ranked(r) : Ranked(r)[i] = op
    <2> DEFINE r == Ranks[op.kind]
    <2>1. r \in 0..9 /\ op \in Runs(r) /\ op.column \in Cols(r)
      BY <1>2
    <2>2. PICK i \in DOMAIN Columns(r) : Columns(r)[i] = op.column
      BY <2>1, <1>5 DEF Ascends, ToSet
    <2>3. Ranked(r)[i] \in A /\ Ranked(r)[i].column = op.column /\ Ranks[Ranked(r)[i].kind] = r
      BY <2>1, <2>2, <1>6
    <2>4. Ranked(r)[i] = op
      BY <2>3, <1>3
    <2>5. DOMAIN Ranked(r) = DOMAIN Columns(r)
      BY <2>1, <1>7
    <2> QED  BY <2>1, <2>2, <2>4, <2>5
  <1> HIDE DEF Ranked, Columns, Cols, Runs
  <1>10. /\ Len(ss) = 10 /\ DOMAIN ss = 1..10 /\ ss \in Seq(Seq(A))
         /\ \A a \in 1..10 : ss[a] = Ranked(a - 1) /\ a - 1 \in 0..9
         /\ \A r \in 0..9 : r + 1 \in 1..10 /\ ss[r + 1] = Ranked(r)
    <2>1. \A a \in 1..10 : a - 1 \in 0..9
      OBVIOUS
    <2>2. \A a \in 1..10 : Ranked(a - 1) \in Seq(A)
      BY <2>1, <1>7
    <2>3. \A r \in 0..9 : r + 1 \in 1..10 /\ (r + 1) - 1 = r
      OBVIOUS
    <2> QED  BY <2>1, <2>2, <2>3
  <1> HIDE DEF ss
  <1> DEFINE s == FlattenSeq(ss)
  <1>11. s \in Seq(A) /\ ListsTo(s, ss, 10)
    BY <1>10, FlattenLists
  <1> HIDE DEF s
  <1>12. ASSUME NEW op \in A PROVE \E i \in DOMAIN s : s[i] = op
    <2>1. PICK r \in 0..9 : \E i \in DOMAIN Ranked(r) : Ranked(r)[i] = op
      BY <1>9
    <2>2. r + 1 \in 1..10 /\ \E b \in DOMAIN ss[r + 1] : ss[r + 1][b] = op
      BY <2>1, <1>10
    <2> QED  BY <2>2, <1>11 DEF ListsTo
  <1>13. ASSUME NEW i \in DOMAIN s, NEW j \in DOMAIN s, i < j PROVE Precedes(s[i], s[j])
    <2>1. PICK a \in 1..10, c \in 1..10 : \E b \in DOMAIN ss[a], d \in DOMAIN ss[c] :
             s[i] = ss[a][b] /\ s[j] = ss[c][d] /\ (a < c \/ (a = c /\ b < d))
      BY <1>11, <1>13, ZenonT(60) DEF ListsTo
    <2>2. PICK b \in DOMAIN ss[a], d \in DOMAIN ss[c] :
             s[i] = ss[a][b] /\ s[j] = ss[c][d] /\ (a < c \/ (a = c /\ b < d))
      BY <2>1
    <2>0. /\ a - 1 \in 0..9 /\ ss[a] = Ranked(a - 1)
          /\ c - 1 \in 0..9 /\ ss[c] = Ranked(c - 1)
      BY <1>10
    <2>3. Ranks[s[i].kind] = a - 1 /\ Ranks[s[j].kind] = c - 1
      <3>1. Ranks[ss[a][b].kind] = a - 1
        BY <2>0, <2>2, <1>7, Zenon
      <3>2. Ranks[ss[c][d].kind] = c - 1
        BY <2>0, <2>2, <1>7, Zenon
      <3> QED  BY <2>2, <3>1, <3>2
    <2>4. CASE a < c
      BY <2>3, <2>4 DEF Precedes
    <2>5. CASE a = c /\ b < d
      <3>1. s[i].column < s[j].column
        BY <2>0, <2>2, <2>5, <1>8, Zenon
      <3> QED  BY <3>1, <2>3, <2>5 DEF Precedes
    <2> QED  BY <2>2, <2>4, <2>5
  <1> QED  BY <1>1, <1>11, <1>12, <1>13 DEF s, A

(* A snapshot of finitely many tables and columns. *)
IsFinite(snapshot) ==
    /\ IsColumns(DOMAIN snapshot)
    /\ \A t \in DOMAIN snapshot : IsColumns(DOMAIN snapshot[t].fields)

(* The operations between two snapshots. *)
DiffOps(before, after) ==
    {CreateTable(t, after[t].fields) : t \in DOMAIN after \ DOMAIN before}
      \cup {DropTable(t) : t \in DOMAIN before \ DOMAIN after}
      \cup UNION {Alters(t, before[t].fields, after[t].fields) :
                    t \in DOMAIN after \cap DOMAIN before}

LEMMA AltersTable ==
    ASSUME NEW t, NEW was, NEW now, NEW op \in Alters(t, was, now)
    PROVE  op.table = t
  <1>1. PICK k \in Kind \ {"RenameColumn"}, c \in DOMAIN was \cup DOMAIN now :
           op = AlterOf(t, now, k, c)
    BY AltersAre
  <1> QED  BY <1>1, AlterOfIs

(* Diff lists each of them, and a table's own in order. *)
LEMMA DiffIs ==
    ASSUME NEW before, NEW after, IsFinite(before), IsFinite(after)
    PROVE  LET X == DiffOps(before, after)
               s == Diff(before, after)
           IN /\ s \in Seq(X)
              /\ \A op \in X : \E i \in DOMAIN s : s[i] = op
              /\ \A i, j \in DOMAIN s : i < j /\ s[i].table = s[j].table =>
                   s[i].table \in DOMAIN after \cap DOMAIN before /\ Precedes(s[i], s[j])
  <1> DEFINE X == DiffOps(before, after)
             N == DOMAIN after \ DOMAIN before
             K == DOMAIN after \cap DOMAIN before
             G == DOMAIN before \ DOMAIN after
             new == Sorted(N)
             kept == Sorted(K)
             gone == Sorted(G)
             A(t) == Alters(t, before[t].fields, after[t].fields)
             a == [i \in DOMAIN new |-> CreateTable(new[i], after[new[i]].fields)]
             kk == [i \in DOMAIN kept |-> InOrder(A(kept[i]))]
             b == FlattenSeq(kk)
             c == [i \in DOMAIN gone |-> DropTable(gone[i])]
  <1>1. Diff(before, after) = (a \o b) \o c
    BY DEF Diff
  <1>2. /\ N \in SUBSET Nat /\ IsFiniteSet(N)
        /\ K \in SUBSET Nat /\ IsFiniteSet(K)
        /\ G \in SUBSET Nat /\ IsFiniteSet(G)
    BY FS_Difference, FS_Intersection DEF IsFinite, IsColumns
  <1>3. Ascends(new, N) /\ Ascends(kept, K) /\ Ascends(gone, G)
    <2> HIDE DEF N, K, G
    <2> QED  BY <1>2, SortedAscends
  <1> HIDE DEF new, kept, gone
  <1>4. ASSUME NEW T, NEW s, Ascends(s, T)
        PROVE  /\ s \in Seq(Nat) /\ Len(s) \in Nat /\ DOMAIN s = 1..Len(s)
               /\ \A i \in DOMAIN s : s[i] \in T
               /\ \A t \in T : \E i \in DOMAIN s : s[i] = t
               /\ \A i, j \in DOMAIN s : i < j => s[i] # s[j]
    <2>1. s \in Seq(Nat) /\ Len(s) \in Nat /\ DOMAIN s = 1..Len(s)
      BY <1>4 DEF Ascends
    <2>2. \A i \in DOMAIN s : s[i] \in T /\ s[i] \in Nat
      BY <1>4, <2>1 DEF Ascends, ToSet
    <2>3. \A t \in T : \E i \in DOMAIN s : s[i] = t
      BY <1>4 DEF Ascends, ToSet
    <2>4. \A i, j \in DOMAIN s : i < j => s[i] # s[j]
      BY <1>4, <2>2 DEF Ascends
    <2> QED  BY <2>1, <2>2, <2>3, <2>4
  <1>5. /\ Len(new) \in Nat /\ DOMAIN new = 1..Len(new)
        /\ \A i \in DOMAIN new : new[i] \in N
        /\ \A t \in N : \E i \in DOMAIN new : new[i] = t
        /\ \A i, j \in DOMAIN new : i < j => new[i] # new[j]
    BY <1>3, <1>4, Zenon
  <1>6. /\ Len(kept) \in Nat /\ DOMAIN kept = 1..Len(kept)
        /\ \A i \in DOMAIN kept : kept[i] \in K
        /\ \A t \in K : \E i \in DOMAIN kept : kept[i] = t
        /\ \A i, j \in DOMAIN kept : i < j => kept[i] # kept[j]
    BY <1>3, <1>4, Zenon
  <1>7. /\ Len(gone) \in Nat /\ DOMAIN gone = 1..Len(gone)
        /\ \A i \in DOMAIN gone : gone[i] \in G
        /\ \A t \in G : \E i \in DOMAIN gone : gone[i] = t
        /\ \A i, j \in DOMAIN gone : i < j => gone[i] # gone[j]
    BY <1>3, <1>4, Zenon
  <1>8. /\ \A t \in N : CreateTable(t, after[t].fields) \in X
        /\ \A t \in G : DropTable(t) \in X
        /\ \A t \in K : A(t) \subseteq X
    BY DEF DiffOps
  <1>9. ASSUME NEW op \in X
        PROVE  \/ \E t \in N : op = CreateTable(t, after[t].fields)
               \/ \E t \in G : op = DropTable(t)
               \/ \E t \in K : op \in A(t)
    BY DEF DiffOps
  <1>10. ASSUME NEW t \in K
         PROVE  /\ InOrder(A(t)) \in Seq(A(t))
                /\ \A op \in A(t) : \E i \in DOMAIN InOrder(A(t)) : InOrder(A(t))[i] = op
                /\ \A i, j \in DOMAIN InOrder(A(t)) : i < j =>
                     Precedes(InOrder(A(t))[i], InOrder(A(t))[j])
    <2>1. IsColumns(DOMAIN before[t].fields) /\ IsColumns(DOMAIN after[t].fields)
      BY DEF IsFinite
    <2> QED  BY <2>1, InOrderIs, Zenon
  <1>11. \A t \in K : \A op \in A(t) : op.table = t
    BY AltersTable
  <1> HIDE DEF X, A, N, K, G
  <1>12. /\ a \in Seq(X) /\ DOMAIN a = DOMAIN new
         /\ \A i \in DOMAIN a : a[i] = CreateTable(new[i], after[new[i]].fields) /\ a[i].table = new[i]
    <2>1. \A i \in 1..Len(new) : CreateTable(new[i], after[new[i]].fields) \in X
      BY <1>5, <1>8
    <2>2. a \in Seq(X)
      BY <1>5, <2>1
    <2> QED  BY <2>2 DEF CreateTable
  <1>13. /\ c \in Seq(X) /\ DOMAIN c = DOMAIN gone
         /\ \A i \in DOMAIN c : c[i] = DropTable(gone[i]) /\ c[i].table = gone[i]
    <2>1. \A i \in 1..Len(gone) : DropTable(gone[i]) \in X
      BY <1>7, <1>8
    <2>2. c \in Seq(X)
      BY <1>7, <2>1
    <2> QED  BY <2>2 DEF DropTable
  <1>14. /\ kk \in Seq(Seq(X)) /\ Len(kk) = Len(kept)
         /\ \A i \in 1..Len(kept) : kk[i] = InOrder(A(kept[i]))
    <2>1. ASSUME NEW i \in 1..Len(kept) PROVE InOrder(A(kept[i])) \in Seq(X)
      <3>1. kept[i] \in K
        BY <1>6
      <3>2. InOrder(A(kept[i])) \in Seq(A(kept[i])) /\ A(kept[i]) \subseteq X
        BY <3>1, <1>8, <1>10
      <3> QED  BY <3>2
    <2> QED  BY <1>6, <2>1
  <1> HIDE DEF a, c, kk
  <1>15. b \in Seq(X) /\ ListsTo(b, kk, Len(kept))
    BY <1>14, FlattenLists
  <1> HIDE DEF b
  <1>16. ASSUME NEW i \in DOMAIN b PROVE b[i].table \in K /\ b[i] \in A(b[i].table)
    <2>0. PICK k \in 1..Len(kept) : \E l \in DOMAIN kk[k] : b[i] = kk[k][l]
      BY <1>15 DEF ListsTo
    <2>1. PICK l \in DOMAIN kk[k] : b[i] = kk[k][l]
      BY <2>0
    <2>2. kept[k] \in K
      BY <1>6
    <2>3. kk[k] = InOrder(A(kept[k])) /\ InOrder(A(kept[k])) \in Seq(A(kept[k]))
      BY <1>14, <1>10, <2>2
    <2>4. b[i] \in A(kept[k])
      BY <2>1, <2>3
    <2> QED  BY <2>2, <2>4, <1>11
  <1>17. ASSUME NEW i \in DOMAIN b, NEW j \in DOMAIN b, i < j, b[i].table = b[j].table
         PROVE  Precedes(b[i], b[j])
    <2>1. PICK k \in 1..Len(kept), m \in 1..Len(kept) :
             \E l \in DOMAIN kk[k], n \in DOMAIN kk[m] :
               b[i] = kk[k][l] /\ b[j] = kk[m][n] /\ (k < m \/ (k = m /\ l < n))
      BY <1>15, <1>17, ZenonT(60) DEF ListsTo
    <2>2. PICK l \in DOMAIN kk[k], n \in DOMAIN kk[m] :
               b[i] = kk[k][l] /\ b[j] = kk[m][n] /\ (k < m \/ (k = m /\ l < n))
      BY <2>1
    <2>3. kept[k] \in K /\ kept[m] \in K
      BY <1>6
    <2>4. /\ kk[k] = InOrder(A(kept[k])) /\ InOrder(A(kept[k])) \in Seq(A(kept[k]))
          /\ kk[m] = InOrder(A(kept[m])) /\ InOrder(A(kept[m])) \in Seq(A(kept[m]))
      BY <1>14, <1>10, <2>3
    <2>5. b[i] \in A(kept[k]) /\ b[j] \in A(kept[m])
      BY <2>2, <2>4
    <2>6. b[i].table = kept[k] /\ b[j].table = kept[m]
      BY <2>3, <2>5, <1>11
    <2>7. ~(k < m)
      BY <2>6, <1>6, <1>17
    <2>8. k = m /\ l < n
      BY <2>2, <2>7
    <2> QED  BY <2>2, <2>3, <2>4, <2>8, <1>10
  <1>18. ASSUME NEW op, \E t \in K : op \in A(t) PROVE \E i \in DOMAIN b : b[i] = op
    <2>1. PICK t \in K : op \in A(t)
      BY <1>18
    <2>2. PICK k \in 1..Len(kept) : kept[k] = t
      BY <1>6
    <2>3. PICK l \in DOMAIN kk[k] : kk[k][l] = op
      BY <2>1, <2>2, <1>10, <1>14
    <2> QED  BY <2>3, <1>15 DEF ListsTo
  <1> DEFINE ss == <<a, b, c>>
             s == (a \o b) \o c
  <1>19. ss[1] = a /\ ss[2] = b /\ ss[3] = c
    OBVIOUS
  <1> HIDE DEF ss
  <1>20. ListsTo(a, ss, 1)
    BY <1>12, <1>19 DEF ListsTo
  <1>21. a \o b \in Seq(X) /\ ListsTo(a \o b, ss, 2)
    <2>1. ListsTo(a \o ss[1 + 1], ss, 1 + 1)
      BY <1>12, <1>15, <1>19, <1>20, ListsMore
    <2> QED  BY <2>1, <1>12, <1>15, <1>19
  <1>22. s \in Seq(X) /\ ListsTo(s, ss, 3)
    <2>0. ss[2 + 1] \in Seq(X) /\ 2 \in Nat
      BY <1>13, <1>19
    <2>1. ListsTo((a \o b) \o ss[2 + 1], ss, 2 + 1)
      <3> DEFINE ab == a \o b
      <3>1. ab \in Seq(X) /\ ListsTo(ab, ss, 2)
        BY <1>21
      <3> HIDE DEF ab
      <3>2. ListsTo(ab \o ss[2 + 1], ss, 2 + 1)
        BY <2>0, <3>1, ListsMore
      <3> QED  BY <3>2 DEF ab
    <2> QED  BY <2>1, <1>13, <1>19, <1>21
  <1> HIDE DEF s
  <1>23. ASSUME NEW op \in X PROVE \E i \in DOMAIN s : s[i] = op
    <2>1. \E m \in 1..3 : \E l \in DOMAIN ss[m] : ss[m][l] = op
      <3>1. CASE \E t \in N : op = CreateTable(t, after[t].fields)
        <4>1. \E l \in DOMAIN a : a[l] = op
          BY <3>1, <1>5, <1>12
        <4> QED  BY <4>1, <1>19
      <3>2. CASE \E t \in G : op = DropTable(t)
        <4>1. \E l \in DOMAIN c : c[l] = op
          BY <3>2, <1>7, <1>13
        <4> QED  BY <4>1, <1>19
      <3>3. CASE \E t \in K : op \in A(t)
        BY <3>3, <1>18, <1>19
      <3> QED  BY <3>1, <3>2, <3>3, <1>9
    <2> QED  BY <2>1, <1>22 DEF ListsTo
  <1>24. ASSUME NEW i \in DOMAIN s, NEW j \in DOMAIN s, i < j, s[i].table = s[j].table
         PROVE  s[i].table \in K /\ Precedes(s[i], s[j])
    <2>1. PICK k \in 1..3, m \in 1..3 : \E l \in DOMAIN ss[k], n \in DOMAIN ss[m] :
               s[i] = ss[k][l] /\ s[j] = ss[m][n] /\ (k < m \/ (k = m /\ l < n))
      BY <1>22, <1>24 DEF ListsTo
    <2>2. PICK l \in DOMAIN ss[k], n \in DOMAIN ss[m] :
               s[i] = ss[k][l] /\ s[j] = ss[m][n] /\ (k < m \/ (k = m /\ l < n))
      BY <2>1
    <2>3. ASSUME NEW q \in 1..3, NEW p \in DOMAIN ss[q]
          PROVE  /\ q = 1 => ss[q][p].table \in N /\ p \in DOMAIN new /\ ss[q][p].table = new[p]
                 /\ q = 2 => ss[q][p].table \in K
                 /\ q = 3 => ss[q][p].table \in G /\ p \in DOMAIN gone /\ ss[q][p].table = gone[p]
      BY <1>5, <1>7, <1>12, <1>13, <1>16, <1>19
    <2>4. k = m /\ l < n
      BY <2>2, <2>3, <1>24 DEF N, K, G
    <2>5. k = 2
      <3>1. k # 1
        BY <2>2, <2>3, <2>4, <1>5, <1>24
      <3>2. k # 3
        BY <2>2, <2>3, <2>4, <1>7, <1>24
      <3> QED  BY <3>1, <3>2
    <2> QED  BY <2>2, <2>3, <2>4, <2>5, <1>17, <1>19, <1>24
  <1> QED  BY <1>1, <1>22, <1>23, <1>24 DEF s, X, K

(***************************************************************************)
(* A table on its way from was to now, after some of its changes.          *)
(***************************************************************************)

(* A field after the changes of kinds K. *)
Mixed(f, g, K) ==
    [type |-> IF "ChangeType" \in K THEN g.type ELSE f.type,
     maxLen |-> IF "ChangeType" \in K THEN g.maxLen ELSE f.maxLen,
     nullable |-> IF "ChangeNullability" \in K THEN g.nullable ELSE f.nullable,
     primaryKey |-> IF "AddPrimaryKey" \in K \/ "DropPrimaryKey" \in K
                    THEN g.primaryKey ELSE f.primaryKey,
     unique |-> IF "AddUnique" \in K \/ "DropUnique" \in K THEN g.unique ELSE f.unique,
     index |-> IF "AddIndex" \in K \/ "DropIndex" \in K THEN g.index ELSE f.index]

(* What an operation in place does to its field, and what undoes it. *)
Effect(h, k, g) ==
    CASE k = "ChangeType" -> [h EXCEPT !.type = g.type, !.maxLen = g.maxLen]
      [] k = "ChangeNullability" -> [h EXCEPT !.nullable = g.nullable]
      [] k = "AddUnique" -> [h EXCEPT !.unique = TRUE]
      [] k = "DropUnique" -> [h EXCEPT !.unique = FALSE]
      [] k = "AddIndex" -> [h EXCEPT !.index = TRUE]
      [] k = "DropIndex" -> [h EXCEPT !.index = FALSE]
      [] k = "AddPrimaryKey" -> [h EXCEPT !.primaryKey = TRUE, !.nullable = FALSE]
      [] k = "DropPrimaryKey" -> [h EXCEPT !.primaryKey = FALSE]

Opposite(k) ==
    CASE k = "AddUnique" -> "DropUnique" [] k = "DropUnique" -> "AddUnique"
      [] k = "AddIndex" -> "DropIndex" [] k = "DropIndex" -> "AddIndex"
      [] k = "AddPrimaryKey" -> "DropPrimaryKey" [] k = "DropPrimaryKey" -> "AddPrimaryKey"
      [] OTHER -> k

(* The changes of a field made so far, when the next is of kind k: only     *)
(* ones it needs, none of a later rank, and all of an earlier rank.         *)
FieldTurn(f, g, K, k) ==
    /\ k \in InPlace /\ Differs(k, f, g) /\ k \notin K
    /\ \A l \in K : l \in InPlace /\ Differs(l, f, g) /\ Rank(l) =< Rank(k)
    /\ \A l \in InPlace : Differs(l, f, g) /\ Rank(l) < Rank(k) => l \in K

LEMMA InPlaceRanks ==
    /\ Rank("DropIndex") = 0 /\ Rank("DropUnique") = 1 /\ Rank("DropPrimaryKey") = 2
    /\ Rank("DropColumn") = 3 /\ Rank("RenameColumn") = 3
    /\ Rank("ChangeType") = 4 /\ Rank("ChangeNullability") = 5 /\ Rank("AddColumn") = 6
    /\ Rank("AddPrimaryKey") = 7 /\ Rank("AddUnique") = 8 /\ Rank("AddIndex") = 9
  BY DEF Rank, Ranks

LEMMA FieldForward ==
    ASSUME NEW f \in Field, NEW g \in Field, ValidField(f), ValidField(g),
           NEW K, NEW k, FieldTurn(f, g, K, k)
    PROVE  Effect(Mixed(f, g, K), k, g) = Mixed(f, g, K \cup {k})
  <1> USE InPlaceRanks DEF Field, ValidField, FieldTurn, Mixed, Effect, Differs
  <1>1. CASE k = "ChangeType"
    BY <1>1
  <1>2. CASE k = "ChangeNullability"
    BY <1>2
  <1>3. CASE k = "AddUnique"
    BY <1>3
  <1>4. CASE k = "DropUnique"
    BY <1>4
  <1>5. CASE k = "AddIndex"
    BY <1>5
  <1>6. CASE k = "DropIndex"
    BY <1>6
  <1>7. CASE k = "AddPrimaryKey"
    <2>1. f.nullable # g.nullable => "ChangeNullability" \in K
      BY <1>7 DEF InPlace
    <2> QED  BY <1>7, <2>1
  <1>8. CASE k = "DropPrimaryKey"
    BY <1>8
  <1> QED  BY <1>1, <1>2, <1>3, <1>4, <1>5, <1>6, <1>7, <1>8 DEF InPlace

LEMMA FieldBackward ==
    ASSUME NEW f \in Field, NEW g \in Field, ValidField(f), ValidField(g),
           NEW K, NEW k, FieldTurn(f, g, K, k)
    PROVE  Effect(Mixed(f, g, K \cup {k}), Opposite(k), f) = Mixed(f, g, K)
  <1> USE InPlaceRanks DEF Field, ValidField, FieldTurn, Mixed, Effect, Differs, Opposite
  <1>1. CASE k = "ChangeType"
    BY <1>1
  <1>2. CASE k = "ChangeNullability"
    BY <1>2
  <1>3. CASE k = "AddUnique"
    BY <1>3
  <1>4. CASE k = "DropUnique"
    BY <1>4
  <1>5. CASE k = "AddIndex"
    BY <1>5
  <1>6. CASE k = "DropIndex"
    BY <1>6
  <1>7. CASE k = "AddPrimaryKey"
    BY <1>7
  <1>8. CASE k = "DropPrimaryKey"
    <2>1. "ChangeNullability" \notin K
      BY <1>8
    <2> QED  BY <1>8, <2>1
  <1> QED  BY <1>1, <1>2, <1>3, <1>4, <1>5, <1>6, <1>7, <1>8 DEF InPlace

LEMMA MixedEnds ==
    ASSUME NEW f \in Field, NEW g \in Field
    PROVE  /\ Mixed(f, g, {}) = f
           /\ Mixed(f, g, {k \in InPlace : Differs(k, f, g)}) = g
  BY DEF Mixed, Field, Differs, InPlace

(* A valid table: numbered columns, valid fields, one key. *)
IsTable(F) ==
    /\ F \in [DOMAIN F -> Field]
    /\ IsColumns(DOMAIN F)
    /\ Valid(F)

LEMMA OneKey ==
    ASSUME NEW F, IsTable(F)
    PROVE  /\ \A c \in DOMAIN F : F[c] \in Field /\ ValidField(F[c])
           /\ \E k \in DOMAIN F : F[k].primaryKey /\ \A c \in DOMAIN F : F[c].primaryKey => c = k
  <1> DEFINE K == {c \in DOMAIN F : F[c].primaryKey}
  <1>1. Cardinality(K) = 1 /\ IsFiniteSet(K)
    <2>1. IsFiniteSet(DOMAIN F) /\ K \in SUBSET (DOMAIN F)
      BY DEF IsTable, IsColumns
    <2>2. IsFiniteSet(K)
      BY <2>1, FS_Subset
    <2> QED  BY <2>2 DEF IsTable, Valid
  <1>2. PICK k : K = {k}
    BY <1>1, FS_Singleton
  <1>3. k \in DOMAIN F /\ F[k].primaryKey /\ \A c \in DOMAIN F : F[c].primaryKey => c = k
    BY <1>2
  <1>4. \A c \in DOMAIN F : F[c] \in Field /\ ValidField(F[c])
    BY DEF IsTable, Valid
  <1> QED  BY <1>3, <1>4

(* ren renames dropped columns to added ones of the same, free definition. *)
IsRenaming(was, now, ren) ==
    /\ DOMAIN ren \subseteq DOMAIN was \ DOMAIN now
    /\ \A b \in DOMAIN ren :
         /\ ren[b] \in DOMAIN now \ DOMAIN was
         /\ was[b] = now[ren[b]]
         /\ ~Constrained(was[b])
    /\ \A b, c \in DOMAIN ren : ren[b] = ren[c] => b = c

(* The changes left when the renames take the place of drops and additions. *)
Steps(was, now, ren, k, c) ==
    \/ k \in InPlace /\ c \in DOMAIN was \cap DOMAIN now /\ Differs(k, was[c], now[c])
    \/ k = "AddColumn" /\ c \in DOMAIN now \ DOMAIN was /\ ~\E b \in DOMAIN ren : ren[b] = c
    \/ k = "DropColumn" /\ c \in (DOMAIN was \ DOMAIN now) \ DOMAIN ren
    \/ k = "RenameColumn" /\ c \in DOMAIN ren

(* The columns there, and the fields, after the changes in D. *)
Here(was, now, ren, D) ==
    {c \in DOMAIN was : <<"DropColumn", c>> \notin D /\ <<"RenameColumn", c>> \notin D}
      \cup {c \in DOMAIN now \ DOMAIN was :
              \/ <<"AddColumn", c>> \in D
              \/ \E b \in DOMAIN ren : ren[b] = c /\ <<"RenameColumn", b>> \in D}

Made(D, c) == {k \in InPlace : <<k, c>> \in D}

FieldAt(was, now, D, c) ==
    IF c \notin DOMAIN was THEN now[c]
    ELSE IF c \notin DOMAIN now THEN was[c]
    ELSE Mixed(was[c], now[c], Made(D, c))

At(was, now, ren, D) == [c \in Here(was, now, ren, D) |-> FieldAt(was, now, D, c)]

(* D is made of changes needed, and (k, c) is the next in order. *)
Turn(was, now, ren, D, k, c) ==
    /\ Steps(was, now, ren, k, c)
    /\ <<k, c>> \notin D
    /\ \A l \in Kind : \A x : <<l, x>> \in D => Steps(was, now, ren, l, x) /\ Rank(l) =< Rank(k)
    /\ \A l \in Kind : \A x : Steps(was, now, ren, l, x) /\ Rank(l) < Rank(k) => <<l, x>> \in D

LEMMA AtStart ==
    ASSUME NEW was, NEW now, NEW ren, IsTable(was), IsTable(now)
    PROVE  At(was, now, ren, {}) = was
  <1>1. Here(was, now, ren, {}) = DOMAIN was
    BY DEF Here
  <1>2. ASSUME NEW c \in DOMAIN was PROVE FieldAt(was, now, {}, c) = was[c]
    <2>1. CASE c \in DOMAIN now
      <3>1. Made({}, c) = {}
        BY DEF Made
      <3>2. was[c] \in Field /\ now[c] \in Field
        BY <2>1, OneKey
      <3> QED  BY <2>1, <3>1, <3>2, MixedEnds DEF FieldAt
    <2>2. CASE c \notin DOMAIN now
      BY <2>2 DEF FieldAt
    <2> QED  BY <2>1, <2>2
  <1>3. was = [c \in DOMAIN was |-> was[c]]
    BY DEF IsTable
  <1> QED  BY <1>1, <1>2, <1>3 DEF At

LEMMA AtEnd ==
    ASSUME NEW was, NEW now, NEW ren, NEW D, IsTable(was), IsTable(now), IsRenaming(was, now, ren),
           \A k \in Kind : \A c : <<k, c>> \in D <=> Steps(was, now, ren, k, c)
    PROVE  At(was, now, ren, D) = now
  <1>0. /\ {"AddColumn", "DropColumn", "RenameColumn"} \subseteq Kind /\ InPlace \subseteq Kind
        /\ "AddColumn" \notin InPlace /\ "DropColumn" \notin InPlace /\ "RenameColumn" \notin InPlace
    BY DEF Kind, InPlace
  <1>1. /\ \A c : <<"AddColumn", c>> \in D <=>
             c \in DOMAIN now \ DOMAIN was /\ ~\E b \in DOMAIN ren : ren[b] = c
        /\ \A c : <<"DropColumn", c>> \in D <=> c \in (DOMAIN was \ DOMAIN now) \ DOMAIN ren
        /\ \A c : <<"RenameColumn", c>> \in D <=> c \in DOMAIN ren
    BY <1>0 DEF Steps
  <1>2. Here(was, now, ren, D) = DOMAIN now
    BY <1>1 DEF Here, IsRenaming
  <1>3. ASSUME NEW c \in DOMAIN now PROVE FieldAt(was, now, D, c) = now[c]
    <2>1. CASE c \in DOMAIN was
      <3>1. Made(D, c) = {k \in InPlace : Differs(k, was[c], now[c])}
        BY <1>0, <2>1 DEF Made, Steps
      <3>2. was[c] \in Field /\ now[c] \in Field
        BY <2>1, OneKey
      <3> QED  BY <2>1, <3>1, <3>2, MixedEnds DEF FieldAt
    <2>2. CASE c \notin DOMAIN was
      BY <2>2 DEF FieldAt
    <2> QED  BY <2>1, <2>2
  <1>4. now = [c \in DOMAIN now |-> now[c]]
    BY DEF IsTable
  <1> QED  BY <1>2, <1>3, <1>4 DEF At

(* A change in place moves one field. *)
MovesField(was, now, F, G, K, k, c) ==
    /\ c \in DOMAIN F /\ DOMAIN G = DOMAIN F
    /\ F[c] = Mixed(was[c], now[c], K) /\ G[c] = Mixed(was[c], now[c], K \cup {k})
    /\ F = [x \in DOMAIN F |-> F[x]] /\ G = [x \in DOMAIN F |-> G[x]]
    /\ \A x \in DOMAIN F : x # c => G[x] = F[x]

LEMMA AtInPlace ==
    ASSUME NEW was, NEW now, NEW ren, NEW D, NEW k \in InPlace, NEW c \in DOMAIN was \cap DOMAIN now,
           <<"DropColumn", c>> \notin D, <<"RenameColumn", c>> \notin D
    PROVE  MovesField(was, now, At(was, now, ren, D), At(was, now, ren, D \cup {<<k, c>>}), Made(D, c), k, c)
  <1> DEFINE E == D \cup {<<k, c>>}
  <1>0. k \notin {"AddColumn", "DropColumn", "RenameColumn"}
    BY DEF InPlace
  <1>1. Here(was, now, ren, E) = Here(was, now, ren, D)
    BY <1>0 DEF Here
  <1>2. c \in Here(was, now, ren, D)
    BY DEF Here
  <1>3. Made(E, c) = Made(D, c) \cup {k}
    BY DEF Made
  <1>4. \A x : x # c => Made(E, x) = Made(D, x)
    BY DEF Made
  <1> HIDE DEF E
  <1>5. \A x \in Here(was, now, ren, D) : x # c => FieldAt(was, now, E, x) = FieldAt(was, now, D, x)
    BY <1>4 DEF FieldAt
  <1>6. /\ FieldAt(was, now, D, c) = Mixed(was[c], now[c], Made(D, c))
        /\ FieldAt(was, now, E, c) = Mixed(was[c], now[c], Made(D, c) \cup {k})
    BY <1>3 DEF FieldAt
  <1> DEFINE F == At(was, now, ren, D)
             G == At(was, now, ren, E)
  <1>7. /\ DOMAIN F = Here(was, now, ren, D) /\ DOMAIN G = DOMAIN F
        /\ \A x \in DOMAIN F : F[x] = FieldAt(was, now, D, x) /\ G[x] = FieldAt(was, now, E, x)
        /\ F = [x \in DOMAIN F |-> F[x]] /\ G = [x \in DOMAIN F |-> G[x]]
    BY <1>1 DEF At
  <1> HIDE DEF F, G
  <1>8. MovesField(was, now, F, G, Made(D, c), k, c)
    BY <1>2, <1>5, <1>6, <1>7 DEF MovesField
  <1> QED  BY <1>8 DEF F, G, E

(* When the database accepts an operation in place, by the field alone. *)
Allowed(h, k, g) ==
    CASE k = "ChangeType" -> Converts(h.type, g.type)
      [] k = "ChangeNullability" -> g.nullable => ~h.primaryKey
      [] k = "AddUnique" -> ~h.unique
      [] k = "DropUnique" -> h.unique
      [] k = "AddIndex" -> ~h.index
      [] k = "DropIndex" -> h.index
      [] k = "DropPrimaryKey" -> h.primaryKey
      [] OTHER -> TRUE

LEMMA FieldAllows ==
    ASSUME NEW f \in Field, NEW g \in Field, ValidField(f), ValidField(g),
           NEW K, NEW k, FieldTurn(f, g, K, k)
    PROVE  /\ (k = "ChangeType" => Converts(f.type, g.type)) => Allowed(Mixed(f, g, K), k, g)
           /\ (k = "ChangeType" => Converts(g.type, f.type))
                => Allowed(Mixed(f, g, K \cup {k}), Opposite(k), f)
  <1> USE InPlaceRanks DEF Field, ValidField, FieldTurn, Mixed, Differs, Opposite, Allowed
  <1>1. CASE k = "ChangeType"
    BY <1>1
  <1>2. CASE k = "ChangeNullability"
    <2>1. f.primaryKey /\ ~g.primaryKey => "DropPrimaryKey" \in K
      BY <1>2 DEF InPlace
    <2>2. "AddPrimaryKey" \notin K
      BY <1>2
    <2> QED  BY <1>2, <2>1, <2>2
  <1>3. CASE k = "AddUnique"
    BY <1>3
  <1>4. CASE k = "DropUnique"
    BY <1>4
  <1>5. CASE k = "AddIndex"
    BY <1>5
  <1>6. CASE k = "DropIndex"
    BY <1>6
  <1>7. CASE k = "AddPrimaryKey"
    BY <1>7
  <1>8. CASE k = "DropPrimaryKey"
    BY <1>8
  <1> QED  BY <1>1, <1>2, <1>3, <1>4, <1>5, <1>6, <1>7, <1>8 DEF InPlace

NoKey(F) == \A x \in DOMAIN F : ~F[x].primaryKey

LEMMA RunnableInPlace ==
    ASSUME NEW d, NEW t, NEW tables, t \in DOMAIN tables, NEW c \in DOMAIN tables[t],
           NEW now, NEW k \in InPlace, Allowed(tables[t][c], k, now[c]),
           k = "AddPrimaryKey" => NoKey(tables[t])
    PROVE  Runnable(d, tables, AlterOf(t, now, k, c))
  <1> USE DEF Runnable, AlterOf, Allowed, NoKey, ColumnOp, ChangeType, ChangeNullability
  <1>1. CASE k = "ChangeType"
    BY <1>1
  <1>2. CASE k = "ChangeNullability"
    BY <1>2
  <1>3. CASE k = "AddUnique"
    BY <1>3
  <1>4. CASE k = "DropUnique"
    BY <1>4
  <1>5. CASE k = "AddIndex"
    BY <1>5
  <1>6. CASE k = "DropIndex"
    BY <1>6
  <1>7. CASE k = "AddPrimaryKey"
    BY <1>7
  <1>8. CASE k = "DropPrimaryKey"
    BY <1>8
  <1> QED  BY <1>1, <1>2, <1>3, <1>4, <1>5, <1>6, <1>7, <1>8 DEF InPlace

LEMMA AlteredInPlace ==
    ASSUME NEW t, NEW F, F = [x \in DOMAIN F |-> F[x]], NEW c \in DOMAIN F, F[c] \in Field,
           NEW now, NEW k \in InPlace
    PROVE  Altered(F, AlterOf(t, now, k, c)) = [F EXCEPT ![c] = Effect(F[c], k, now[c])]
  <1> USE DEF Altered, AlterOf, Effect, ColumnOp, ChangeType, ChangeNullability, Field
  <1>1. CASE k = "ChangeType"
    BY <1>1, ZenonT(60)
  <1>2. CASE k = "ChangeNullability"
    BY <1>2
  <1>3. CASE k = "AddUnique"
    BY <1>3
  <1>4. CASE k = "DropUnique"
    BY <1>4
  <1>5. CASE k = "AddIndex"
    BY <1>5
  <1>6. CASE k = "DropIndex"
    BY <1>6
  <1>7. CASE k = "AddPrimaryKey"
    BY <1>7, ZenonT(60)
  <1>8. CASE k = "DropPrimaryKey"
    BY <1>8
  <1> QED  BY <1>1, <1>2, <1>3, <1>4, <1>5, <1>6, <1>7, <1>8 DEF InPlace

LEMMA InvertInPlace ==
    ASSUME NEW t, NEW before, NEW now, NEW k \in InPlace, NEW c
    PROVE  /\ Opposite(k) \in InPlace
           /\ Invert(AlterOf(t, now, k, c), before) = AlterOf(t, before[t].fields, Opposite(k), c)
  <1> USE DEF Invert, AlterOf, Opposite, ColumnOp, ChangeType, ChangeNullability, InPlace
  <1>1. CASE k = "ChangeType"
    BY <1>1
  <1>2. CASE k = "ChangeNullability"
    BY <1>2
  <1>3. CASE k = "AddUnique"
    BY <1>3
  <1>4. CASE k = "DropUnique"
    BY <1>4
  <1>5. CASE k = "AddIndex"
    BY <1>5
  <1>6. CASE k = "DropIndex"
    BY <1>6
  <1>7. CASE k = "AddPrimaryKey"
    BY <1>7
  <1>8. CASE k = "DropPrimaryKey"
    BY <1>8
  <1> QED  BY <1>1, <1>2, <1>3, <1>4, <1>5, <1>6, <1>7, <1>8 DEF InPlace

(* What a turn says of the changes of each kind. *)
PlaceDone(was, now, D, k) ==
    /\ \A l \in InPlace : \A x : <<l, x>> \in D =>
         x \in DOMAIN was \cap DOMAIN now /\ Differs(l, was[x], now[x]) /\ Rank(l) =< Rank(k)
    /\ \A l \in InPlace : \A x \in DOMAIN was \cap DOMAIN now :
         Differs(l, was[x], now[x]) /\ Rank(l) < Rank(k) => <<l, x>> \in D

ColumnsDone(was, now, ren, D, k) ==
    /\ \A x : <<"AddColumn", x>> \in D =>
         x \in DOMAIN now \ DOMAIN was /\ (~\E b \in DOMAIN ren : ren[b] = x) /\ 6 =< Rank(k)
    /\ \A x : <<"DropColumn", x>> \in D =>
         x \in (DOMAIN was \ DOMAIN now) \ DOMAIN ren /\ 3 =< Rank(k)
    /\ \A x : <<"RenameColumn", x>> \in D => x \in DOMAIN ren /\ 3 =< Rank(k)
    /\ 3 < Rank(k) => /\ \A x \in (DOMAIN was \ DOMAIN now) \ DOMAIN ren : <<"DropColumn", x>> \in D
                      /\ \A x \in DOMAIN ren : <<"RenameColumn", x>> \in D
    /\ \A x \in DOMAIN was \cap DOMAIN now :
         <<"DropColumn", x>> \notin D /\ <<"RenameColumn", x>> \notin D

LEMMA TurnFacts ==
    ASSUME NEW was, NEW now, NEW ren, NEW D, NEW k \in Kind, NEW c,
           IsRenaming(was, now, ren), Turn(was, now, ren, D, k, c)
    PROVE  PlaceDone(was, now, D, k) /\ ColumnsDone(was, now, ren, D, k)
  <1>0. /\ InPlace \subseteq Kind /\ "AddColumn" \in Kind /\ "DropColumn" \in Kind /\ "RenameColumn" \in Kind
        /\ "AddColumn" \notin InPlace /\ "DropColumn" \notin InPlace /\ "RenameColumn" \notin InPlace
    BY DEF Kind, InPlace
  <1>1. /\ \A l \in Kind : \A x : <<l, x>> \in D => Steps(was, now, ren, l, x) /\ Rank(l) =< Rank(k)
        /\ \A l \in Kind : \A x : Steps(was, now, ren, l, x) /\ Rank(l) < Rank(k) => <<l, x>> \in D
    BY DEF Turn
  <1>2. ASSUME NEW l \in InPlace, NEW x
        PROVE  /\ <<l, x>> \in D => x \in DOMAIN was \cap DOMAIN now /\ Differs(l, was[x], now[x])
                                      /\ Rank(l) =< Rank(k)
               /\ x \in DOMAIN was \cap DOMAIN now /\ Differs(l, was[x], now[x]) /\ Rank(l) < Rank(k)
                    => <<l, x>> \in D
    BY <1>0, <1>1 DEF Steps
  <1>3. ASSUME NEW x
        PROVE  /\ <<"AddColumn", x>> \in D =>
                    x \in DOMAIN now \ DOMAIN was /\ (~\E b \in DOMAIN ren : ren[b] = x) /\ 6 =< Rank(k)
               /\ <<"DropColumn", x>> \in D => x \in (DOMAIN was \ DOMAIN now) \ DOMAIN ren /\ 3 =< Rank(k)
               /\ <<"RenameColumn", x>> \in D => x \in DOMAIN ren /\ 3 =< Rank(k)
    BY <1>0, <1>1, InPlaceRanks DEF Steps
  <1>4. ASSUME 3 < Rank(k), NEW x
        PROVE  /\ x \in (DOMAIN was \ DOMAIN now) \ DOMAIN ren => <<"DropColumn", x>> \in D
               /\ x \in DOMAIN ren => <<"RenameColumn", x>> \in D
    BY <1>0, <1>1, <1>4, InPlaceRanks DEF Steps
  <1>5. \A x \in DOMAIN was \cap DOMAIN now : <<"DropColumn", x>> \notin D /\ <<"RenameColumn", x>> \notin D
    BY <1>3 DEF IsRenaming
  <1>6. PlaceDone(was, now, D, k)
    BY <1>2 DEF PlaceDone
  <1> QED  BY <1>3, <1>4, <1>5, <1>6 DEF ColumnsDone

(* Before a key is added, the old key is gone. *)
LEMMA NoKeyForward ==
    ASSUME NEW was, NEW now, NEW ren, NEW D, NEW k \in Kind, NEW c \in DOMAIN now,
           IsTable(was), IsTable(now), IsRenaming(was, now, ren), Turn(was, now, ren, D, k, c),
           k \in {"AddPrimaryKey", "AddColumn"}, now[c].primaryKey
    PROVE  NoKey(At(was, now, ren, D))
  <1> DEFINE H == Here(was, now, ren, D)
  <1>0. PlaceDone(was, now, D, k) /\ ColumnsDone(was, now, ren, D, k)
    BY TurnFacts
  <1>1. \A x \in DOMAIN now : now[x].primaryKey => x = c
    BY OneKey
  <1>2. 3 < Rank(k) /\ 2 < Rank(k)
    BY InPlaceRanks
  <1>3. ASSUME NEW x \in H PROVE ~FieldAt(was, now, D, x).primaryKey
    <2>1. CASE x \notin DOMAIN was
      <3>1. x \in DOMAIN now /\ FieldAt(was, now, D, x) = now[x]
        BY <2>1 DEF Here, FieldAt
      <3>2. x # c
        <4>1. CASE k = "AddPrimaryKey"
          BY <2>1, <4>1 DEF Turn, Steps, InPlace
        <4>2. CASE k = "AddColumn"
          BY <2>1, <4>2 DEF Turn, Steps, InPlace, Here
        <4> QED  BY <4>1, <4>2
      <3> QED  BY <3>1, <3>2, <1>1
    <2>2. CASE x \in DOMAIN was /\ x \notin DOMAIN now
      <3>1. <<"DropColumn", x>> \in D \/ <<"RenameColumn", x>> \in D
        BY <2>2, <1>2, <1>0 DEF ColumnsDone
      <3> QED  BY <2>2, <3>1 DEF Here
    <2>3. CASE x \in DOMAIN was \cap DOMAIN now
      <3>0. was[x] \in Field /\ now[x] \in Field
        BY <2>3, OneKey
      <3>1. FieldAt(was, now, D, x) = Mixed(was[x], now[x], Made(D, x))
        BY <2>3 DEF FieldAt
      <3>2. was[x].primaryKey /\ ~now[x].primaryKey => "DropPrimaryKey" \in Made(D, x)
        <4>1. "DropPrimaryKey" \in InPlace
          BY DEF InPlace
        <4>2. ASSUME was[x].primaryKey, ~now[x].primaryKey
              PROVE  <<"DropPrimaryKey", x>> \in D
          <5>1. Differs("DropPrimaryKey", was[x], now[x]) /\ Rank("DropPrimaryKey") < Rank(k)
            BY <4>2, <1>2, InPlaceRanks DEF Differs
          <5> QED  BY <2>3, <4>1, <5>1, <1>0 DEF PlaceDone
        <4> QED  BY <4>1, <4>2 DEF Made
      <3>3. x = c => k = "AddPrimaryKey" /\ ~was[c].primaryKey /\ Made(D, c) \cap {"AddPrimaryKey", "DropPrimaryKey"} = {}
        <4>1. ASSUME x = c PROVE k = "AddPrimaryKey" /\ ~was[c].primaryKey /\ <<"AddPrimaryKey", c>> \notin D
          BY <2>3, <4>1 DEF Turn, Steps, Differs, InPlace
        <4>2. ~was[c].primaryKey => <<"DropPrimaryKey", c>> \notin D
          <5>1. <<"DropPrimaryKey", c>> \in D => Differs("DropPrimaryKey", was[c], now[c])
            BY <1>0 DEF PlaceDone, InPlace
          <5> QED  BY <5>1 DEF Differs
        <4> QED  BY <4>1, <4>2 DEF Made
      <3>4. x # c => ~now[x].primaryKey
        BY <2>3, <1>1
      <3> QED  BY <3>0, <3>1, <3>2, <3>3, <3>4 DEF Mixed, Field
    <2> QED  BY <2>1, <2>2, <2>3
  <1> QED  BY <1>3 DEF NoKey, At

(* Once the old key is dropped, no other is there yet. *)
LEMMA NoKeyBackward ==
    ASSUME NEW was, NEW now, NEW ren, NEW D, NEW k \in Kind, NEW c \in DOMAIN was,
           IsTable(was), IsTable(now), IsRenaming(was, now, ren), Turn(was, now, ren, D, k, c),
           k \in {"DropPrimaryKey", "DropColumn"}, was[c].primaryKey
    PROVE  NoKey(At(was, now, ren, D \cup {<<k, c>>}))
  <1> DEFINE E == D \cup {<<k, c>>}
             H == Here(was, now, ren, E)
  <1>0. PlaceDone(was, now, D, k) /\ ColumnsDone(was, now, ren, D, k)
    BY TurnFacts
  <1>1. \A x \in DOMAIN was : was[x].primaryKey => x = c
    BY OneKey
  <1>2. Rank(k) =< 3
    BY InPlaceRanks
  <1>3. /\ \A x : <<"AddColumn", x>> \notin E
        /\ \A x : <<"AddPrimaryKey", x>> \notin E
    <2>1. \A x : <<"AddColumn", x>> \notin D
      <3>1. ASSUME NEW x, <<"AddColumn", x>> \in D PROVE 6 =< Rank(k)
        BY <3>1, <1>0, Zenon DEF ColumnsDone
      <3>2. ~(6 =< Rank(k))
        BY <1>2, KindsRanked
      <3> QED  BY <3>1, <3>2, Zenon
    <2>2. ASSUME NEW x PROVE <<"AddPrimaryKey", x>> \notin D
      <3>1. <<"AddPrimaryKey", x>> \in D => Rank("AddPrimaryKey") =< Rank(k)
        BY <1>0 DEF PlaceDone, InPlace
      <3> QED  BY <3>1, <1>2, InPlaceRanks, KindsRanked
    <2> QED  BY <2>1, <2>2
  <1>4. ASSUME NEW x \in H PROVE ~FieldAt(was, now, E, x).primaryKey
    <2>1. CASE x \notin DOMAIN was
      <3>1. PICK b \in DOMAIN ren : ren[b] = x
        BY <2>1, <1>3 DEF Here
      <3>2. FieldAt(was, now, E, x) = was[b] /\ ~was[b].primaryKey
        BY <2>1, <3>1 DEF FieldAt, IsRenaming, Constrained
      <3> QED  BY <3>2
    <2>2. CASE x \in DOMAIN was /\ x \notin DOMAIN now
      <3>1. FieldAt(was, now, E, x) = was[x]
        BY <2>2 DEF FieldAt
      <3>2. x # c
        <4>1. CASE k = "DropColumn"
          BY <2>2, <4>1 DEF Here
        <4>2. CASE k = "DropPrimaryKey"
          BY <2>2, <4>2 DEF Turn, Steps, InPlace
        <4> QED  BY <4>1, <4>2
      <3> QED  BY <2>2, <3>1, <3>2, <1>1
    <2>3. CASE x \in DOMAIN was \cap DOMAIN now
      <3>0. was[x] \in Field /\ now[x] \in Field
        BY <2>3, OneKey
      <3>1. FieldAt(was, now, E, x) = Mixed(was[x], now[x], Made(E, x))
        BY <2>3 DEF FieldAt
      <3>2. "AddPrimaryKey" \notin Made(E, x)
        BY <1>3 DEF Made
      <3>3. "DropPrimaryKey" \in Made(E, x) => ~now[x].primaryKey
        <4>1. "DropPrimaryKey" \in InPlace
          BY DEF InPlace
        <4>2. <<"DropPrimaryKey", x>> \in D => Differs("DropPrimaryKey", was[x], now[x])
          BY <4>1, <1>0 DEF PlaceDone
        <4>3. <<"DropPrimaryKey", x>> = <<k, c>> => Differs("DropPrimaryKey", was[x], now[x])
          BY <4>1 DEF Turn, Steps
        <4> QED  BY <4>2, <4>3 DEF Made, Differs
      <3>4. x = c => "DropPrimaryKey" \in Made(E, x)
        <4>1. ASSUME x = c PROVE k = "DropPrimaryKey"
          BY <2>3, <4>1 DEF Turn, Steps, InPlace
        <4> QED  BY <4>1 DEF Made, InPlace
      <3>5. x # c => ~was[x].primaryKey
        BY <2>3, <1>1
      <3>6. FieldAt(was, now, E, x).primaryKey =
              IF "DropPrimaryKey" \in Made(E, x) THEN now[x].primaryKey ELSE was[x].primaryKey
        <4> HIDE DEF E
        <4>1. ASSUME NEW K, "AddPrimaryKey" \notin K
              PROVE  Mixed(was[x], now[x], K).primaryKey =
                       IF "DropPrimaryKey" \in K THEN now[x].primaryKey ELSE was[x].primaryKey
          BY <3>0, <4>1 DEF Mixed, Field
        <4> QED  BY <3>1, <3>2, <4>1
      <3> QED  BY <3>3, <3>4, <3>5, <3>6
    <2> QED  BY <2>1, <2>2, <2>3
  <1> QED  BY <1>4 DEF NoKey, At

(***************************************************************************)
(* One change of a table: the database accepts it, it moves the table on,  *)
(* and its inverse moves the table back.                                   *)
(***************************************************************************)
LEMMA MixedField ==
    ASSUME NEW f \in Field, NEW g \in Field, NEW K
    PROVE  Mixed(f, g, K) \in Field
  BY DEF Mixed, Field

LEMMA TurnField ==
    ASSUME NEW was, NEW now, NEW ren, NEW D, NEW k \in InPlace, NEW c, Turn(was, now, ren, D, k, c)
    PROVE  /\ c \in DOMAIN was \cap DOMAIN now
           /\ FieldTurn(was[c], now[c], Made(D, c), k)
  <1>0. InPlace \subseteq Kind
        /\ "AddColumn" \notin InPlace /\ "DropColumn" \notin InPlace /\ "RenameColumn" \notin InPlace
    BY DEF Kind, InPlace
  <1>1. c \in DOMAIN was \cap DOMAIN now /\ Differs(k, was[c], now[c]) /\ <<k, c>> \notin D
    BY <1>0 DEF Turn, Steps
  <1>2. k \notin Made(D, c)
    BY <1>1 DEF Made
  <1>3. ASSUME NEW l \in Made(D, c)
        PROVE  l \in InPlace /\ Differs(l, was[c], now[c]) /\ Rank(l) =< Rank(k)
    <2>1. l \in InPlace /\ l \in Kind /\ <<l, c>> \in D
      BY <1>0 DEF Made
    <2>2. Steps(was, now, ren, l, c) /\ Rank(l) =< Rank(k)
      BY <2>1 DEF Turn
    <2> QED  BY <1>0, <2>1, <2>2 DEF Steps
  <1>4. ASSUME NEW l \in InPlace, Differs(l, was[c], now[c]), Rank(l) < Rank(k)
        PROVE  l \in Made(D, c)
    <2>1. Steps(was, now, ren, l, c) /\ l \in Kind
      BY <1>0, <1>1, <1>4 DEF Steps
    <2>2. <<l, c>> \in D
      BY <2>1, <1>4 DEF Turn
    <2> QED  BY <2>2 DEF Made
  <1> QED  BY <1>1, <1>2, <1>3, <1>4 DEF FieldTurn

(* Everything but one column stays, in place. *)
LEMMA ExceptIs ==
    ASSUME NEW F, NEW G, NEW c \in DOMAIN F, NEW y,
           F = [x \in DOMAIN F |-> F[x]], G = [x \in DOMAIN F |-> G[x]],
           G[c] = y, \A x \in DOMAIN F : x # c => G[x] = F[x]
    PROVE  [F EXCEPT ![c] = y] = G
  OBVIOUS

LEMMA InPlaceForward ==
    ASSUME NEW d, NEW t, NEW tables, t \in DOMAIN tables,
           NEW was, NEW now, NEW ren, NEW D, NEW k \in InPlace, NEW c,
           IsTable(was), IsTable(now), IsRenaming(was, now, ren), Turn(was, now, ren, D, k, c),
           tables[t] = At(was, now, ren, D), k = "ChangeType" => Converts(was[c].type, now[c].type)
    PROVE  /\ Runnable(d, tables, AlterOf(t, now, k, c))
           /\ Altered(tables[t], AlterOf(t, now, k, c)) = At(was, now, ren, D \cup {<<k, c>>})
  <1> DEFINE F == At(was, now, ren, D)
             G == At(was, now, ren, D \cup {<<k, c>>})
             K == Made(D, c)
  <1>1. c \in DOMAIN was \cap DOMAIN now /\ FieldTurn(was[c], now[c], K, k)
    BY TurnField
  <1>2. was[c] \in Field /\ now[c] \in Field /\ ValidField(was[c]) /\ ValidField(now[c])
    BY <1>1, OneKey
  <1>3. k \in Kind /\ <<"DropColumn", c>> \notin D /\ <<"RenameColumn", c>> \notin D
    <2>1. k \in Kind
      BY DEF Kind
    <2>2. ColumnsDone(was, now, ren, D, k)
      BY <2>1, TurnFacts
    <2> QED  BY <2>1, <2>2, <1>1, Zenon DEF ColumnsDone
  <1>0. MovesField(was, now, F, G, K, k, c)
    BY <1>1, <1>3, AtInPlace
  <1> HIDE DEF F, G, K
  <1>4. /\ c \in DOMAIN F /\ DOMAIN G = DOMAIN F
        /\ F[c] = Mixed(was[c], now[c], K) /\ G[c] = Mixed(was[c], now[c], K \cup {k})
        /\ \A x \in DOMAIN F : x # c => G[x] = F[x]
    BY <1>0 DEF MovesField
  <1>5. F = [x \in DOMAIN F |-> F[x]] /\ G = [x \in DOMAIN F |-> G[x]]
    BY <1>0, <1>4 DEF MovesField
  <1>6. Allowed(F[c], k, now[c])
    BY <1>1, <1>2, <1>4, FieldAllows
  <1>7. k = "AddPrimaryKey" => NoKey(F)
    <2>1. k = "AddPrimaryKey" => now[c].primaryKey
      BY <1>1 DEF FieldTurn, Differs
    <2> QED  BY <2>1, <1>1, <1>3, NoKeyForward DEF F
  <1>8. F[c] \in Field
    BY <1>2, <1>4, MixedField
  <1>9. Effect(F[c], k, now[c]) = G[c]
    BY <1>1, <1>2, <1>4, FieldForward
  <1>10. Runnable(d, tables, AlterOf(t, now, k, c))
    BY <1>4, <1>6, <1>7, RunnableInPlace DEF F
  <1>11. Altered(F, AlterOf(t, now, k, c)) = [F EXCEPT ![c] = Effect(F[c], k, now[c])]
    BY <1>4, <1>5, <1>8, AlteredInPlace
  <1>12. [F EXCEPT ![c] = Effect(F[c], k, now[c])] = G
    BY <1>4, <1>5, <1>9, ExceptIs
  <1> QED  BY <1>10, <1>11, <1>12 DEF F, G

LEMMA InPlaceBackward ==
    ASSUME NEW d, NEW t, NEW tables, t \in DOMAIN tables,
           NEW was, NEW now, NEW ren, NEW D, NEW k \in InPlace, NEW c,
           IsTable(was), IsTable(now), IsRenaming(was, now, ren), Turn(was, now, ren, D, k, c),
           tables[t] = At(was, now, ren, D \cup {<<k, c>>}),
           k = "ChangeType" => Converts(now[c].type, was[c].type)
    PROVE  /\ Runnable(d, tables, AlterOf(t, was, Opposite(k), c))
           /\ Altered(tables[t], AlterOf(t, was, Opposite(k), c)) = At(was, now, ren, D)
  <1> DEFINE F == At(was, now, ren, D)
             G == At(was, now, ren, D \cup {<<k, c>>})
             K == Made(D, c)
  <1>1. c \in DOMAIN was \cap DOMAIN now /\ FieldTurn(was[c], now[c], K, k)
    BY TurnField
  <1>2. was[c] \in Field /\ now[c] \in Field /\ ValidField(was[c]) /\ ValidField(now[c])
    BY <1>1, OneKey
  <1>3. k \in Kind /\ <<"DropColumn", c>> \notin D /\ <<"RenameColumn", c>> \notin D
    <2>1. k \in Kind
      BY DEF Kind
    <2>2. ColumnsDone(was, now, ren, D, k)
      BY <2>1, TurnFacts
    <2> QED  BY <2>1, <2>2, <1>1, Zenon DEF ColumnsDone
  <1>0. MovesField(was, now, F, G, K, k, c)
    BY <1>1, <1>3, AtInPlace
  <1> HIDE DEF F, G, K
  <1>4. /\ c \in DOMAIN F /\ DOMAIN G = DOMAIN F
        /\ F[c] = Mixed(was[c], now[c], K) /\ G[c] = Mixed(was[c], now[c], K \cup {k})
        /\ \A x \in DOMAIN F : x # c => G[x] = F[x]
    BY <1>0 DEF MovesField
  <1>5. F = [x \in DOMAIN G |-> F[x]] /\ G = [x \in DOMAIN G |-> G[x]]
    BY <1>0, <1>4 DEF MovesField
  <1>6. Allowed(G[c], Opposite(k), was[c])
    BY <1>1, <1>2, <1>4, FieldAllows
  <1>7. Opposite(k) = "AddPrimaryKey" => NoKey(G)
    <2>1. Opposite(k) = "AddPrimaryKey" => k = "DropPrimaryKey"
      BY DEF Opposite, InPlace
    <2>2. k = "DropPrimaryKey" => was[c].primaryKey
      BY <1>1 DEF FieldTurn, Differs
    <2> QED  BY <2>1, <2>2, <1>1, <1>3, NoKeyBackward DEF G
  <1>8. G[c] \in Field
    BY <1>2, <1>4, MixedField
  <1>9. Effect(G[c], Opposite(k), was[c]) = F[c]
    BY <1>1, <1>2, <1>4, FieldBackward
  <1>10. Opposite(k) \in InPlace
    BY InvertInPlace
  <1>11. Runnable(d, tables, AlterOf(t, was, Opposite(k), c))
    BY <1>4, <1>6, <1>7, <1>10, RunnableInPlace DEF G
  <1>12. Altered(G, AlterOf(t, was, Opposite(k), c)) = [G EXCEPT ![c] = Effect(G[c], Opposite(k), was[c])]
    BY <1>4, <1>5, <1>8, <1>10, AlteredInPlace
  <1>13. [G EXCEPT ![c] = Effect(G[c], Opposite(k), was[c])] = F
    BY <1>4, <1>5, <1>9, ExceptIs, ZenonT(60)
  <1> QED  BY <1>11, <1>12, <1>13 DEF F, G

(* A column comes; it goes when read backwards. *)
Gains(F, G, c, f) ==
    /\ F = [x \in DOMAIN F |-> F[x]]
    /\ c \notin DOMAIN F
    /\ G = [x \in DOMAIN F \cup {c} |-> IF x = c THEN f ELSE F[x]]

(* A column takes another name. *)
Renames(F, G, c, to) ==
    /\ F = [x \in DOMAIN F |-> F[x]]
    /\ c \in DOMAIN F /\ to \notin DOMAIN F
    /\ G = [x \in (DOMAIN F \ {c}) \cup {to} |-> IF x = to THEN F[c] ELSE F[x]]

LEMMA AtSame ==
    ASSUME NEW was, NEW now, NEW D, NEW E, \A k \in InPlace : \A x : <<k, x>> \in E <=> <<k, x>> \in D
    PROVE  \A x : FieldAt(was, now, E, x) = FieldAt(was, now, D, x)
  <1>1. \A x : Made(E, x) = Made(D, x)
    BY DEF Made
  <1> QED  BY <1>1 DEF FieldAt

LEMMA StepsAre ==
    ASSUME NEW was, NEW now, NEW ren, NEW c
    PROVE  /\ Steps(was, now, ren, "AddColumn", c) <=>
                c \in DOMAIN now \ DOMAIN was /\ ~\E b \in DOMAIN ren : ren[b] = c
           /\ Steps(was, now, ren, "DropColumn", c) <=> c \in (DOMAIN was \ DOMAIN now) \ DOMAIN ren
           /\ Steps(was, now, ren, "RenameColumn", c) <=> c \in DOMAIN ren
           /\ "AddColumn" \notin InPlace /\ "DropColumn" \notin InPlace /\ "RenameColumn" \notin InPlace
  BY DEF Steps, InPlace

LEMMA AtAdd ==
    ASSUME NEW was, NEW now, NEW ren, NEW D, NEW c, Turn(was, now, ren, D, "AddColumn", c)
    PROVE  Gains(At(was, now, ren, D), At(was, now, ren, D \cup {<<"AddColumn", c>>}), c, now[c])
  <1> DEFINE E == D \cup {<<"AddColumn", c>>}
  <1>1. /\ c \in DOMAIN now \ DOMAIN was /\ (~\E b \in DOMAIN ren : ren[b] = c)
        /\ <<"AddColumn", c>> \notin D /\ "AddColumn" \notin InPlace
    BY StepsAre DEF Turn
  <1>2. c \notin Here(was, now, ren, D) /\ Here(was, now, ren, E) = Here(was, now, ren, D) \cup {c}
    BY <1>1 DEF Here
  <1>3. \A x : FieldAt(was, now, E, x) = FieldAt(was, now, D, x)
    <2>1. \A k \in InPlace : \A x : <<k, x>> \in E <=> <<k, x>> \in D
      BY <1>1
    <2> HIDE DEF E
    <2> QED  BY <2>1, AtSame
  <1>4. FieldAt(was, now, E, c) = now[c]
    BY <1>1 DEF FieldAt
  <1> HIDE DEF E
  <1>5. Gains(At(was, now, ren, D), At(was, now, ren, E), c, now[c])
    BY <1>2, <1>3, <1>4 DEF At, Gains
  <1> QED  BY <1>5 DEF E

LEMMA AtDrop ==
    ASSUME NEW was, NEW now, NEW ren, NEW D, NEW c, Turn(was, now, ren, D, "DropColumn", c)
    PROVE  Gains(At(was, now, ren, D \cup {<<"DropColumn", c>>}), At(was, now, ren, D), c, was[c])
  <1> DEFINE E == D \cup {<<"DropColumn", c>>}
  <1>1. /\ c \in (DOMAIN was \ DOMAIN now) \ DOMAIN ren
        /\ <<"DropColumn", c>> \notin D /\ "DropColumn" \notin InPlace
        /\ <<"RenameColumn", c>> \notin D
    BY StepsAre DEF Turn, Kind
  <1>2. c \notin Here(was, now, ren, E) /\ Here(was, now, ren, D) = Here(was, now, ren, E) \cup {c}
    BY <1>1 DEF Here
  <1>3. \A x : FieldAt(was, now, E, x) = FieldAt(was, now, D, x)
    <2>1. \A k \in InPlace : \A x : <<k, x>> \in E <=> <<k, x>> \in D
      BY <1>1
    <2> HIDE DEF E
    <2> QED  BY <2>1, AtSame
  <1>4. FieldAt(was, now, D, c) = was[c]
    BY <1>1 DEF FieldAt
  <1> HIDE DEF E
  <1>5. Gains(At(was, now, ren, E), At(was, now, ren, D), c, was[c])
    BY <1>2, <1>3, <1>4 DEF At, Gains
  <1> QED  BY <1>5 DEF E

LEMMA AtRename ==
    ASSUME NEW was, NEW now, NEW ren, NEW D, NEW c, IsRenaming(was, now, ren),
           Turn(was, now, ren, D, "RenameColumn", c)
    PROVE  LET F == At(was, now, ren, D)
               G == At(was, now, ren, D \cup {<<"RenameColumn", c>>})
           IN Renames(F, G, c, ren[c]) /\ Renames(G, F, ren[c], c)
  <1> DEFINE E == D \cup {<<"RenameColumn", c>>}
             F == At(was, now, ren, D)
             G == At(was, now, ren, E)
             to == ren[c]
  <1>0. c \in DOMAIN ren /\ <<"RenameColumn", c>> \notin D /\ "RenameColumn" \notin InPlace
    BY StepsAre DEF Turn
  <1>1. /\ c \in DOMAIN was \ DOMAIN now /\ to \in DOMAIN now \ DOMAIN was
        /\ was[c] = now[to] /\ \A b \in DOMAIN ren : ren[b] = to => b = c
    BY <1>0 DEF IsRenaming
  <1>2. <<"AddColumn", to>> \notin D /\ <<"DropColumn", c>> \notin D
    <2>1. "AddColumn" \in Kind /\ "DropColumn" \in Kind
      BY DEF Kind
    <2>2. ~Steps(was, now, ren, "AddColumn", to) /\ ~Steps(was, now, ren, "DropColumn", c)
      BY <1>0, StepsAre
    <2> QED  BY <2>1, <2>2 DEF Turn
  <1>3. /\ c \in Here(was, now, ren, D) /\ to \notin Here(was, now, ren, D) /\ c # to
        /\ Here(was, now, ren, E) = (Here(was, now, ren, D) \ {c}) \cup {to}
    BY <1>0, <1>1, <1>2 DEF Here
  <1>4. \A x : FieldAt(was, now, E, x) = FieldAt(was, now, D, x)
    <2>1. \A k \in InPlace : \A x : <<k, x>> \in E <=> <<k, x>> \in D
      BY <1>0
    <2> HIDE DEF E
    <2> QED  BY <2>1, AtSame
  <1>5. FieldAt(was, now, D, c) = was[c] /\ FieldAt(was, now, D, to) = was[c]
    BY <1>1 DEF FieldAt
  <1> HIDE DEF E, to
  <1>6. /\ DOMAIN F = Here(was, now, ren, D) /\ DOMAIN G = (DOMAIN F \ {c}) \cup {to}
        /\ DOMAIN F = (DOMAIN G \ {to}) \cup {c}
        /\ c \in DOMAIN F /\ to \notin DOMAIN F /\ to \in DOMAIN G /\ c \notin DOMAIN G
        /\ F = [x \in DOMAIN F |-> F[x]] /\ G = [x \in DOMAIN G |-> G[x]]
    BY <1>3 DEF At
  <1>7. /\ F[c] = was[c] /\ G[to] = was[c]
        /\ \A x \in DOMAIN F \cap DOMAIN G : F[x] = G[x]
    BY <1>3, <1>4, <1>5 DEF At
  <1> HIDE DEF F, G
  <1>8. Renames(F, G, c, to)
    BY <1>6, <1>7 DEF Renames
  <1>9. Renames(G, F, to, c)
    BY <1>6, <1>7 DEF Renames
  <1> QED  BY <1>8, <1>9 DEF F, G, E, to

(* What the database does with the operations that move columns. *)
LEMMA AddMoves ==
    ASSUME NEW d, NEW t, NEW tables, t \in DOMAIN tables, NEW G, NEW c, NEW f,
           Gains(tables[t], G, c, f), f.primaryKey => NoKey(tables[t])
    PROVE  /\ Runnable(d, tables, AddColumn(t, c, f))
           /\ Altered(tables[t], AddColumn(t, c, f)) = G
  <1> DEFINE op == AddColumn(t, c, f)
  <1>0. op.kind = "AddColumn" /\ op.table = t /\ op.column = c /\ op.field = f
    BY DEF AddColumn
  <1> HIDE DEF op
  <1>1. Runnable(d, tables, op)
    BY <1>0 DEF Runnable, Gains, NoKey
  <1>2. Altered(tables[t], op) = G
    BY <1>0 DEF Altered, Gains
  <1> QED  BY <1>1, <1>2 DEF op

LEMMA DropMoves ==
    ASSUME NEW d, NEW t, NEW tables, t \in DOMAIN tables, NEW F, NEW c, NEW f,
           Gains(F, tables[t], c, f), d = "sqlite" => ~Constrained(f)
    PROVE  /\ Runnable(d, tables, ColumnOp("DropColumn", t, c))
           /\ Altered(tables[t], ColumnOp("DropColumn", t, c)) = F
  <1> DEFINE op == ColumnOp("DropColumn", t, c)
  <1>0. op.kind = "DropColumn" /\ op.table = t /\ op.column = c
    BY DEF ColumnOp
  <1> HIDE DEF op
  <1>1. /\ c \in DOMAIN tables[t] /\ tables[t][c] = f
        /\ DOMAIN tables[t] \ {c} = DOMAIN F
        /\ \A x \in DOMAIN F : tables[t][x] = F[x]
        /\ F = [x \in DOMAIN F |-> F[x]]
    BY DEF Gains
  <1>2. Runnable(d, tables, op)
    BY <1>0, <1>1 DEF Runnable, Constrained
  <1>3. Altered(tables[t], op) = [x \in DOMAIN tables[t] \ {c} |-> tables[t][x]]
    BY <1>0 DEF Altered
  <1>4. Altered(tables[t], op) = F
    BY <1>1, <1>3
  <1> QED  BY <1>2, <1>4 DEF op

LEMMA RenameMoves ==
    ASSUME NEW d, NEW t, NEW tables, t \in DOMAIN tables, NEW G, NEW c, NEW to,
           Renames(tables[t], G, c, to)
    PROVE  /\ Runnable(d, tables, RenameColumn(t, c, to))
           /\ Altered(tables[t], RenameColumn(t, c, to)) = G
  <1> DEFINE op == RenameColumn(t, c, to)
  <1>0. op.kind = "RenameColumn" /\ op.table = t /\ op.column = c /\ op.to = to
    BY DEF RenameColumn
  <1> HIDE DEF op
  <1>1. Runnable(d, tables, op)
    BY <1>0 DEF Runnable, Renames
  <1>2. Altered(tables[t], op) = G
    BY <1>0 DEF Altered, Renames
  <1> QED  BY <1>1, <1>2 DEF op

LEMMA OpOfKinds ==
    ASSUME NEW t, NEW now, NEW ren, NEW c
    PROVE  /\ OpOf(t, now, ren, "AddColumn", c) = AddColumn(t, c, now[c])
           /\ OpOf(t, now, ren, "DropColumn", c) = ColumnOp("DropColumn", t, c)
           /\ OpOf(t, now, ren, "RenameColumn", c) = RenameColumn(t, c, ren[c])
           /\ \A k \in InPlace : OpOf(t, now, ren, k, c) = AlterOf(t, now, k, c)
  BY DEF OpOf, AlterOf, InPlace

LEMMA OpOfInPlace ==
    ASSUME NEW t, NEW now, NEW ren, NEW c, NEW k \in InPlace
    PROVE  OpOf(t, now, ren, k, c) = AlterOf(t, now, k, c)
  BY OpOfKinds

LEMMA InvertAdd ==
    ASSUME NEW t, NEW before, NEW c, NEW f
    PROVE  Invert(AddColumn(t, c, f), before) = ColumnOp("DropColumn", t, c)
  BY DEF Invert, AddColumn

LEMMA InvertDrop ==
    ASSUME NEW t, NEW before, NEW c
    PROVE  Invert(ColumnOp("DropColumn", t, c), before) = AddColumn(t, c, before[t].fields[c])
  BY DEF Invert, ColumnOp

LEMMA InvertRename ==
    ASSUME NEW t, NEW before, NEW c, NEW to
    PROVE  Invert(RenameColumn(t, c, to), before) = RenameColumn(t, to, c)
  BY DEF Invert, RenameColumn

(* A step runs on the table and moves it from F to G. *)
Moves(d, tables, op, G) ==
    op.kind \in Kind /\ Runnable(d, tables, op) /\ Altered(tables[op.table], op) = G

LEMMA StepForward ==
    ASSUME NEW d, NEW t, NEW tables, t \in DOMAIN tables,
           NEW was, NEW now, NEW ren, NEW D, NEW k \in Kind, NEW c,
           IsTable(was), IsTable(now), IsRenaming(was, now, ren), Turn(was, now, ren, D, k, c),
           tables[t] = At(was, now, ren, D), d = "sqlite" => k # "DropColumn",
           k = "ChangeType" => Converts(was[c].type, now[c].type)
    PROVE  Moves(d, tables, OpOf(t, now, ren, k, c), At(was, now, ren, D \cup {<<k, c>>}))
  <1> DEFINE F == At(was, now, ren, D)
             E == D \cup {<<k, c>>}
             G == At(was, now, ren, E)
             op == OpOf(t, now, ren, k, c)
  <1>0. op.table = t /\ op.kind \in Kind
    BY OpOfIs
  <1>1. CASE k \in InPlace
    <2>1. Runnable(d, tables, AlterOf(t, now, k, c)) /\ Altered(tables[t], AlterOf(t, now, k, c)) = G
      BY <1>1, InPlaceForward
    <2>2. op = AlterOf(t, now, k, c)
      BY <1>1, OpOfInPlace
    <2> QED  BY <2>1, <2>2, <1>0 DEF Moves
  <1>2. CASE k = "AddColumn"
    <2>1. Gains(tables[t], G, c, now[c])
      BY <1>2, AtAdd
    <2>2. c \in DOMAIN now /\ (now[c].primaryKey => NoKey(tables[t]))
      <3>1. c \in DOMAIN now
        BY <1>2, StepsAre DEF Turn
      <3> QED  BY <1>2, <3>1, NoKeyForward
    <2> HIDE DEF G
    <2>3. Runnable(d, tables, AddColumn(t, c, now[c])) /\ Altered(tables[t], AddColumn(t, c, now[c])) = G
      BY <2>1, <2>2, AddMoves
    <2>4. op = AddColumn(t, c, now[c])
      BY <1>2, OpOfKinds
    <2> QED  BY <2>3, <2>4, <1>0 DEF Moves, G
  <1>3. CASE k = "DropColumn"
    <2>1. Gains(G, tables[t], c, was[c])
      BY <1>3, AtDrop
    <2> HIDE DEF G
    <2>2. d # "sqlite"
      BY <1>3
    <2>3. /\ Runnable(d, tables, ColumnOp("DropColumn", t, c))
          /\ Altered(tables[t], ColumnOp("DropColumn", t, c)) = G
      BY <2>1, <2>2, DropMoves
    <2>4. op = ColumnOp("DropColumn", t, c)
      BY <1>3, OpOfKinds
    <2> QED  BY <2>3, <2>4, <1>0 DEF Moves, G
  <1>4. CASE k = "RenameColumn"
    <2>1. Renames(tables[t], G, c, ren[c])
      BY <1>4, AtRename
    <2> HIDE DEF G
    <2>2. /\ Runnable(d, tables, RenameColumn(t, c, ren[c]))
          /\ Altered(tables[t], RenameColumn(t, c, ren[c])) = G
      BY <2>1, RenameMoves
    <2>3. op = RenameColumn(t, c, ren[c])
      BY <1>4, OpOfKinds
    <2> QED  BY <2>2, <2>3, <1>0 DEF Moves, G
  <1> QED  BY <1>1, <1>2, <1>3, <1>4 DEF Kind

LEMMA StepBackward ==
    ASSUME NEW d, NEW t, NEW tables, t \in DOMAIN tables, NEW before,
           NEW was, NEW now, NEW ren, NEW D, NEW k \in Kind, NEW c,
           IsTable(was), IsTable(now), IsRenaming(was, now, ren), Turn(was, now, ren, D, k, c),
           before[t].fields = was,
           tables[t] = At(was, now, ren, D \cup {<<k, c>>}),
           d = "sqlite" /\ k = "AddColumn" => ~Constrained(now[c]),
           k = "ChangeType" => Converts(now[c].type, was[c].type)
    PROVE  Moves(d, tables, Invert(OpOf(t, now, ren, k, c), before), At(was, now, ren, D))
  <1> DEFINE F == At(was, now, ren, D)
             E == D \cup {<<k, c>>}
             G == At(was, now, ren, E)
             op == Invert(OpOf(t, now, ren, k, c), before)
  <1>1. CASE k \in InPlace
    <2>1. /\ Runnable(d, tables, AlterOf(t, was, Opposite(k), c))
          /\ Altered(tables[t], AlterOf(t, was, Opposite(k), c)) = F
      BY <1>1, InPlaceBackward
    <2>2. op = AlterOf(t, was, Opposite(k), c) /\ Opposite(k) \in InPlace
      <3>1. OpOf(t, now, ren, k, c) = AlterOf(t, now, k, c)
        BY <1>1, OpOfInPlace
      <3>2. Invert(AlterOf(t, now, k, c), before) = AlterOf(t, was, Opposite(k), c) /\ Opposite(k) \in InPlace
        BY <1>1, InvertInPlace
      <3> QED  BY <3>1, <3>2
    <2>3. op.table = t /\ op.kind \in Kind
      <3>1. Opposite(k) \in Kind \ {"RenameColumn"}
        BY <2>2 DEF Kind, InPlace
      <3> QED  BY <2>2, <3>1, AlterOfIs
    <2> QED  BY <2>1, <2>2, <2>3 DEF Moves
  <1>2. CASE k = "AddColumn"
    <2>1. Gains(F, tables[t], c, now[c])
      BY <1>2, AtAdd
    <2> HIDE DEF F
    <2>2. d = "sqlite" => ~Constrained(now[c])
      BY <1>2
    <2>3. /\ Runnable(d, tables, ColumnOp("DropColumn", t, c))
          /\ Altered(tables[t], ColumnOp("DropColumn", t, c)) = F
      BY <2>1, <2>2, DropMoves
    <2>4. op = ColumnOp("DropColumn", t, c)
      <3>1. OpOf(t, now, ren, k, c) = AddColumn(t, c, now[c])
        BY <1>2, OpOfKinds
      <3>2. Invert(AddColumn(t, c, now[c]), before) = ColumnOp("DropColumn", t, c)
        BY InvertAdd
      <3> QED  BY <3>1, <3>2
    <2>5. op.table = t /\ op.kind \in Kind
      BY <2>4 DEF ColumnOp, Kind
    <2> QED  BY <2>3, <2>4, <2>5 DEF Moves, F
  <1>3. CASE k = "DropColumn"
    <2>1. Gains(tables[t], F, c, was[c])
      BY <1>3, AtDrop
    <2>2. c \in DOMAIN was /\ (was[c].primaryKey => NoKey(tables[t]))
      <3>1. c \in DOMAIN was
        BY <1>3, StepsAre DEF Turn
      <3> QED  BY <1>3, <3>1, NoKeyBackward
    <2> HIDE DEF F
    <2>3. Runnable(d, tables, AddColumn(t, c, was[c])) /\ Altered(tables[t], AddColumn(t, c, was[c])) = F
      BY <2>1, <2>2, AddMoves
    <2>4. op = AddColumn(t, c, was[c])
      <3>1. OpOf(t, now, ren, k, c) = ColumnOp("DropColumn", t, c)
        BY <1>3, OpOfKinds
      <3>2. Invert(ColumnOp("DropColumn", t, c), before) = AddColumn(t, c, was[c])
        BY InvertDrop
      <3> QED  BY <3>1, <3>2
    <2>5. op.table = t /\ op.kind \in Kind
      BY <2>4 DEF AddColumn, Kind
    <2> QED  BY <2>3, <2>4, <2>5 DEF Moves, F
  <1>4. CASE k = "RenameColumn"
    <2>1. Renames(tables[t], F, ren[c], c)
      BY <1>4, AtRename
    <2> HIDE DEF F
    <2>2. /\ Runnable(d, tables, RenameColumn(t, ren[c], c))
          /\ Altered(tables[t], RenameColumn(t, ren[c], c)) = F
      BY <2>1, RenameMoves
    <2>3. op = RenameColumn(t, ren[c], c)
      <3>1. OpOf(t, now, ren, k, c) = RenameColumn(t, c, ren[c])
        BY <1>4, OpOfKinds
      <3>2. Invert(RenameColumn(t, c, ren[c]), before) = RenameColumn(t, ren[c], c)
        BY InvertRename
      <3> QED  BY <3>1, <3>2
    <2>4. op.table = t /\ op.kind \in Kind
      BY <2>3 DEF RenameColumn, Kind
    <2> QED  BY <2>2, <2>3, <2>4 DEF Moves, F
  <1> QED  BY <1>1, <1>2, <1>3, <1>4 DEF Kind

(***************************************************************************)
(* The operations of a migration: what the tables of a set T still need,   *)
(* a table's own in order.                                                 *)
(***************************************************************************)
Both(before, after) == DOMAIN before \cap DOMAIN after

Alterations(t, was, now, ren) ==
    {OpOf(t, now, ren, p[1], p[2]) :
       p \in {q \in Kind \X (DOMAIN was \cup DOMAIN now) : Steps(was, now, ren, q[1], q[2])}}

(* ren[t] renames columns of t. *)
PlanOps(before, after, ren) ==
    {CreateTable(t, after[t].fields) : t \in DOMAIN after \ DOMAIN before}
      \cup {DropTable(t) : t \in DOMAIN before \ DOMAIN after}
      \cup UNION {Alterations(t, before[t].fields, after[t].fields, ren[t]) : t \in Both(before, after)}

Follows(o, p) == Rank(o.kind) =< Rank(p.kind) /\ (o.kind = p.kind => o.column # p.column)

Planned(ops, before, after, ren, T) ==
    /\ ops \in Seq(PlanOps(before, after, ren))
    /\ \A i \in DOMAIN ops : ops[i].table \in T
    /\ \A op \in PlanOps(before, after, ren) : op.table \in T => \E i \in DOMAIN ops : ops[i] = op
    /\ \A i, j \in DOMAIN ops : i < j /\ ops[i].table = ops[j].table =>
         ops[i].table \in Both(before, after) /\ Follows(ops[i], ops[j])

IsSnapshot(s) ==
    /\ IsColumns(DOMAIN s)
    /\ \A t \in DOMAIN s : s[t].module \in Modules /\ IsTable(s[t].fields)

AreRenamings(before, after, ren) ==
    \A t \in Both(before, after) :
        IsRenaming(before[t].fields, after[t].fields, ren[t])

(* An alteration of a table the two snapshots share. *)
Alteration(op, before, after, ren) ==
    /\ op.table \in Both(before, after)
    /\ op.kind \in Kind
    /\ Steps(before[op.table].fields, after[op.table].fields, ren[op.table], op.kind, op.column)
    /\ op = OpOf(op.table, after[op.table].fields, ren[op.table], op.kind, op.column)

LEMMA StepsColumn ==
    ASSUME NEW was, NEW now, NEW ren, NEW k, NEW c, IsRenaming(was, now, ren), Steps(was, now, ren, k, c)
    PROVE  k \in Kind /\ c \in DOMAIN was \cup DOMAIN now
  BY DEF Steps, IsRenaming, Kind

LEMMA PlanOpCases ==
    ASSUME NEW before, NEW after, NEW ren, NEW op \in PlanOps(before, after, ren)
    PROVE  \/ op.table \in DOMAIN after \ DOMAIN before /\ op = CreateTable(op.table, after[op.table].fields)
           \/ op.table \in DOMAIN before \ DOMAIN after /\ op = DropTable(op.table)
           \/ Alteration(op, before, after, ren)
  <1>1. CASE \E t \in DOMAIN after \ DOMAIN before : op = CreateTable(t, after[t].fields)
    BY <1>1 DEF CreateTable
  <1>2. CASE \E t \in DOMAIN before \ DOMAIN after : op = DropTable(t)
    BY <1>2 DEF DropTable
  <1>3. CASE \E t \in Both(before, after) :
               op \in Alterations(t, before[t].fields, after[t].fields, ren[t])
    <2>1. PICK t \in Both(before, after) :
               op \in Alterations(t, before[t].fields, after[t].fields, ren[t])
      BY <1>3
    <2> DEFINE was == before[t].fields
               now == after[t].fields
    <2>2. PICK p \in Kind \X (DOMAIN was \cup DOMAIN now) :
               Steps(was, now, ren[t], p[1], p[2]) /\ op = OpOf(t, now, ren[t], p[1], p[2])
      BY <2>1 DEF Alterations
    <2>3. p[1] \in Kind
      BY <2>2
    <2>4. op.kind = p[1] /\ op.table = t /\ op.column = p[2]
      <3> HIDE DEF was, now
      <3> QED  BY <2>2, <2>3, OpOfIs
    <2> QED  BY <2>1, <2>2, <2>3, <2>4 DEF Alteration
  <1> QED  BY <1>1, <1>2, <1>3 DEF PlanOps

LEMMA AlterationPlanned ==
    ASSUME NEW before, NEW after, NEW ren, NEW t \in Both(before, after), NEW k, NEW c,
           IsRenaming(before[t].fields, after[t].fields, ren[t]),
           Steps(before[t].fields, after[t].fields, ren[t], k, c)
    PROVE  OpOf(t, after[t].fields, ren[t], k, c) \in PlanOps(before, after, ren)
  <1> DEFINE was == before[t].fields
             now == after[t].fields
  <1>1. k \in Kind /\ c \in DOMAIN was \cup DOMAIN now
    BY StepsColumn
  <1>2. OpOf(t, now, ren[t], k, c) \in Alterations(t, was, now, ren[t])
    <2> DEFINE p == <<k, c>>
    <2>1. p \in Kind \X (DOMAIN was \cup DOMAIN now) /\ p[1] = k /\ p[2] = c
      BY <1>1
    <2> HIDE DEF p, was, now
    <2>2. OpOf(t, now, ren[t], k, c) = OpOf(t, now, ren[t], p[1], p[2])
      BY <2>1
    <2>3. Steps(was, now, ren[t], p[1], p[2])
      BY <2>1 DEF was, now
    <2> QED  BY <2>1, <2>2, <2>3 DEF Alterations
  <1> QED  BY <1>2 DEF PlanOps

(* The changes made to a table by the first j operations. *)
Done(ops, j, t) == {<<ops[i].kind, ops[i].column>> : i \in {x \in 1..j : ops[x].table = t}}

LEMMA DoneMore ==
    ASSUME NEW ops, NEW j \in Nat, j # 0
    PROVE  /\ Done(ops, j, ops[j].table) =
                Done(ops, j - 1, ops[j].table) \cup {<<ops[j].kind, ops[j].column>>}
           /\ \A t : t # ops[j].table => Done(ops, j, t) = Done(ops, j - 1, t)
  <1>1. 1..j = (1..(j - 1)) \cup {j}
    OBVIOUS
  <1>2. {x \in 1..j : ops[x].table = ops[j].table} = {x \in 1..(j - 1) : ops[x].table = ops[j].table} \cup {j}
    BY <1>1
  <1>3. \A t : t # ops[j].table => {x \in 1..j : ops[x].table = t} = {x \in 1..(j - 1) : ops[x].table = t}
    BY <1>1
  <1> QED  BY <1>2, <1>3 DEF Done

LEMMA PlannedTurn ==
    ASSUME NEW ops, NEW before, NEW after, NEW ren, NEW T, Planned(ops, before, after, ren, T),
           AreRenamings(before, after, ren), NEW j \in DOMAIN ops,
           ops[j].table \in Both(before, after)
    PROVE  /\ Alteration(ops[j], before, after, ren)
           /\ LET t == ops[j].table
              IN Turn(before[t].fields, after[t].fields, ren[t], Done(ops, j - 1, t),
                      ops[j].kind, ops[j].column)
  <1> DEFINE t == ops[j].table
             was == before[t].fields
             now == after[t].fields
             D == Done(ops, j - 1, t)
             k == ops[j].kind
             c == ops[j].column
  <1>0. /\ DOMAIN ops = 1..Len(ops) /\ Len(ops) \in Nat
        /\ \A i \in DOMAIN ops : ops[i] \in PlanOps(before, after, ren)
    BY DEF Planned
  <1>1. ASSUME NEW i \in DOMAIN ops, ops[i].table = t
        PROVE  /\ Alteration(ops[i], before, after, ren) /\ ops[i].kind \in Kind
               /\ Steps(was, now, ren[t], ops[i].kind, ops[i].column)
    <2>1. Alteration(ops[i], before, after, ren)
      BY <1>0, <1>1, PlanOpCases DEF Both
    <2> QED  BY <2>1, <1>1 DEF Alteration
  <1>2. \A i \in 1..(j - 1) : i \in DOMAIN ops /\ i < j
    BY <1>0
  <1>3. ASSUME NEW i \in 1..(j - 1), ops[i].table = t
        PROVE  Rank(ops[i].kind) =< Rank(k) /\ <<ops[i].kind, ops[i].column>> # <<k, c>>
    BY <1>2, <1>3 DEF Planned, Follows
  <1>4. <<k, c>> \notin D
    BY <1>3 DEF Done
  <1>5. ASSUME NEW l \in Kind, NEW x, <<l, x>> \in D
        PROVE  Steps(was, now, ren[t], l, x) /\ Rank(l) =< Rank(k)
    <2>1. PICK i \in 1..(j - 1) : ops[i].table = t /\ <<l, x>> = <<ops[i].kind, ops[i].column>>
      BY <1>5 DEF Done
    <2>2. l = ops[i].kind /\ x = ops[i].column
      BY <2>1
    <2> HIDE DEF was, now, t, k
    <2> QED  BY <2>1, <2>2, <1>1, <1>2, <1>3
  <1>6. ASSUME NEW l \in Kind, NEW x, Steps(was, now, ren[t], l, x), Rank(l) < Rank(k)
        PROVE  <<l, x>> \in D
    <2> DEFINE op == OpOf(t, now, ren[t], l, x)
    <2>1. op \in PlanOps(before, after, ren)
      BY <1>6, AlterationPlanned DEF AreRenamings
    <2>2. op.kind = l /\ op.column = x /\ op.table = t
      BY OpOfIs
    <2> HIDE DEF op
    <2>3. PICK i \in DOMAIN ops : ops[i] = op
      BY <2>1, <2>2 DEF Planned
    <2>4. ~(j < i)
      <3> SUFFICES ASSUME j < i PROVE FALSE
        OBVIOUS
      <3>1. Rank(k) =< Rank(l)
        BY <2>2, <2>3 DEF Planned, Follows
      <3>2. Rank(k) \in Nat /\ Rank(l) \in Nat
        BY <1>1, KindsRanked
      <3> QED  BY <1>6, <3>1, <3>2
    <2>5. i # j
      <3>1. Rank(k) \in Nat /\ Rank(l) \in Nat
        BY <1>1, KindsRanked
      <3> QED  BY <1>6, <2>2, <2>3, <3>1
    <2>6. i \in 1..(j - 1)
      BY <1>0, <2>4, <2>5
    <2> QED  BY <2>2, <2>3, <2>6 DEF Done
  <1> QED  BY <1>1, <1>4, <1>5, <1>6 DEF Turn

(***************************************************************************)
(* The database while a migration runs: S where it started, T the tables   *)
(* the migration owns, j the operations done.                              *)
(***************************************************************************)
Touched(ops, j) == {ops[i].table : i \in 1..j}

There(ops, before, after, j, t) ==
    \/ t \in Both(before, after)
    \/ t \in DOMAIN after \ DOMAIN before /\ t \in Touched(ops, j)
    \/ t \in DOMAIN before \ DOMAIN after /\ t \notin Touched(ops, j)

TableAt(ops, before, after, ren, j, t) ==
    IF t \in Both(before, after)
    THEN At(before[t].fields, after[t].fields, ren[t], Done(ops, j, t))
    ELSE IF t \in DOMAIN after THEN after[t].fields ELSE before[t].fields

Mid(S, T, ops, before, after, ren, j) ==
    [t \in {x \in DOMAIN S : x \notin T} \cup
           {x \in DOMAIN before \cup DOMAIN after : x \in T /\ There(ops, before, after, j, x)} |->
       IF t \in T THEN TableAt(ops, before, after, ren, j, t) ELSE S[t]]

(* Where it starts, the tables of T are as recorded. *)
Agrees(S, T, before) ==
    /\ S = [t \in DOMAIN S |-> S[t]]
    /\ \A t \in T : (t \in DOMAIN S <=> t \in DOMAIN before)
                     /\ (t \in DOMAIN S => S[t] = before[t].fields)

LEMMA MidStart ==
    ASSUME NEW S, NEW T, NEW ops, NEW before, NEW after, NEW ren,
           IsSnapshot(before), IsSnapshot(after), Agrees(S, T, before)
    PROVE  Mid(S, T, ops, before, after, ren, 0) = S
  <1>1. Touched(ops, 0) = {} /\ \A t : Done(ops, 0, t) = {}
    BY DEF Touched, Done
  <1>2. \A t : There(ops, before, after, 0, t) <=> t \in DOMAIN before
    BY <1>1 DEF There, Both
  <1>3. ASSUME NEW t \in DOMAIN before
        PROVE  TableAt(ops, before, after, ren, 0, t) = before[t].fields
    <2>1. CASE t \in Both(before, after)
      <3>1. IsTable(before[t].fields) /\ IsTable(after[t].fields)
        BY <2>1 DEF IsSnapshot, Both
      <3>2. At(before[t].fields, after[t].fields, ren[t], {}) = before[t].fields
        BY <3>1, AtStart
      <3> QED  BY <2>1, <3>2, <1>1 DEF TableAt
    <2>2. CASE t \notin Both(before, after)
      BY <2>2 DEF TableAt, Both
    <2> QED  BY <2>1, <2>2
  <1>4. {x \in DOMAIN S : x \notin T} \cup
          {x \in DOMAIN before \cup DOMAIN after : x \in T /\ There(ops, before, after, 0, x)} = DOMAIN S
    BY <1>2 DEF Agrees
  <1>5. ASSUME NEW t \in DOMAIN S
        PROVE  (IF t \in T THEN TableAt(ops, before, after, ren, 0, t) ELSE S[t]) = S[t]
    BY <1>3 DEF Agrees
  <1>6. S = [t \in DOMAIN S |-> S[t]]
    BY DEF Agrees
  <1> QED  BY <1>4, <1>5, <1>6 DEF Mid

LEMMA TouchedMore ==
    ASSUME NEW ops, NEW j \in Nat, j # 0
    PROVE  Touched(ops, j) = Touched(ops, j - 1) \cup {ops[j].table}
  <1>1. 1..j = (1..(j - 1)) \cup {j}
    OBVIOUS
  <1> QED  BY <1>1 DEF Touched

LEMMA Retabled ==
    ASSUME NEW M, NEW N
    PROVE  [[ok |-> TRUE, tables |-> M] EXCEPT !.tables = N] = [ok |-> TRUE, tables |-> N]
  <1>1. ASSUME NEW b PROVE [[ok |-> b, tables |-> M] EXCEPT !.tables = N] = [ok |-> b, tables |-> N]
    OBVIOUS
  <1> QED  BY <1>1

(* What the database does with a table that comes or goes. *)
LEMMA ExecCreate ==
    ASSUME NEW d, NEW M, NEW N, NEW t, NEW f, Gains(M, N, t, f)
    PROVE  Exec(d, [ok |-> TRUE, tables |-> M], CreateTable(t, f)) = [ok |-> TRUE, tables |-> N]
  <1> DEFINE op == CreateTable(t, f)
             s == [ok |-> TRUE, tables |-> M]
  <1>0. op.kind = "CreateTable" /\ op.table = t /\ op.fields = f
    BY DEF CreateTable
  <1>1. s.ok = TRUE /\ s.tables = M
    OBVIOUS
  <1> HIDE DEF op
  <1>2. Runnable(d, M, op)
    BY <1>0 DEF Runnable, Gains
  <1>3. [x \in DOMAIN M \cup {op.table} |-> IF x = op.table THEN op.fields ELSE M[x]] = N
    BY <1>0 DEF Gains
  <1>4. Exec(d, s, op) = [s EXCEPT !.tables = N]
    <2> HIDE DEF s
    <2> QED  BY <1>0, <1>1, <1>2, <1>3 DEF Exec
  <1>5. [s EXCEPT !.tables = N] = [ok |-> TRUE, tables |-> N]
    BY Retabled
  <1> QED  BY <1>4, <1>5 DEF op

LEMMA ExecDrop ==
    ASSUME NEW d, NEW M, NEW N, NEW t, NEW f, Gains(M, N, t, f)
    PROVE  Exec(d, [ok |-> TRUE, tables |-> N], DropTable(t)) = [ok |-> TRUE, tables |-> M]
  <1> DEFINE op == DropTable(t)
             s == [ok |-> TRUE, tables |-> N]
  <1>0. op.kind = "DropTable" /\ op.table = t
    BY DEF DropTable
  <1>1. s.ok = TRUE /\ s.tables = N
    OBVIOUS
  <1> HIDE DEF op
  <1>2. Runnable(d, N, op)
    BY <1>0 DEF Runnable, Gains
  <1>3. [x \in DOMAIN N \ {op.table} |-> N[x]] = M
    <2>1. DOMAIN N \ {t} = DOMAIN M /\ \A x \in DOMAIN M : N[x] = M[x]
      BY DEF Gains
    <2>2. M = [x \in DOMAIN M |-> M[x]]
      BY DEF Gains
    <2> QED  BY <1>0, <2>1, <2>2
  <1>4. Exec(d, s, op) = [s EXCEPT !.tables = M]
    <2> HIDE DEF s
    <2> QED  BY <1>0, <1>1, <1>2, <1>3 DEF Exec
  <1>5. [s EXCEPT !.tables = M] = [ok |-> TRUE, tables |-> M]
    BY Retabled
  <1> QED  BY <1>4, <1>5 DEF op

LEMMA ExecAlter ==
    ASSUME NEW d, NEW M, NEW N, NEW op, NEW G, op.table \in DOMAIN M, Moves(d, M, op, G),
           N = [M EXCEPT ![op.table] = G]
    PROVE  Exec(d, [ok |-> TRUE, tables |-> M], op) = [ok |-> TRUE, tables |-> N]
  <1> DEFINE s == [ok |-> TRUE, tables |-> M]
  <1>0. op.kind # "CreateTable" /\ op.kind # "DropTable"
    BY DEF Moves, Kind, InPlace
  <1>1. s.ok = TRUE /\ s.tables = M
    OBVIOUS
  <1>2. Runnable(d, M, op) /\ Altered(M[op.table], op) = G
    BY DEF Moves
  <1>3. [M EXCEPT ![op.table] = Altered(@, op)] = N
    BY <1>2
  <1>4. Exec(d, s, op) = [s EXCEPT !.tables = N]
    <2> HIDE DEF s
    <2> QED  BY <1>0, <1>1, <1>2, <1>3 DEF Exec
  <1>5. [s EXCEPT !.tables = N] = [ok |-> TRUE, tables |-> N]
    BY Retabled
  <1> QED  BY <1>4, <1>5

(* Two databases that differ in one table. *)
Shift(M, N, t) ==
    /\ M = [x \in DOMAIN M |-> M[x]] /\ N = [x \in DOMAIN N |-> N[x]]
    /\ DOMAIN N \ {t} = DOMAIN M \ {t}
    /\ \A x \in DOMAIN N \ {t} : N[x] = M[x]

LEMMA ShiftBack ==
    ASSUME NEW M, NEW N, NEW t, Shift(M, N, t)
    PROVE  Shift(N, M, t)
  BY DEF Shift

LEMMA ShiftGains ==
    ASSUME NEW M, NEW N, NEW t, Shift(M, N, t), t \notin DOMAIN M, t \in DOMAIN N
    PROVE  Gains(M, N, t, N[t])
  <1>1. DOMAIN N = DOMAIN M \cup {t}
    BY DEF Shift
  <1>2. \A x \in DOMAIN N : N[x] = IF x = t THEN N[t] ELSE M[x]
    BY DEF Shift
  <1>3. N = [x \in DOMAIN M \cup {t} |-> IF x = t THEN N[t] ELSE M[x]]
    BY <1>1, <1>2 DEF Shift
  <1> QED  BY <1>3 DEF Shift, Gains

LEMMA ShiftExcept ==
    ASSUME NEW M, NEW N, NEW t, Shift(M, N, t), t \in DOMAIN M, t \in DOMAIN N
    PROVE  N = [M EXCEPT ![t] = N[t]]
  <1>1. DOMAIN N = DOMAIN M
    BY DEF Shift
  <1>2. \A x \in DOMAIN N : N[x] = IF x = t THEN N[t] ELSE M[x]
    BY DEF Shift
  <1>3. [M EXCEPT ![t] = N[t]] = [x \in DOMAIN M |-> IF x = t THEN N[t] ELSE M[x]]
    OBVIOUS
  <1> QED  BY <1>1, <1>2, <1>3 DEF Shift

LEMMA MidIs ==
    ASSUME NEW S, NEW T, NEW ops, NEW before, NEW after, NEW ren, NEW j,
           NEW t \in T
    PROVE  /\ t \in DOMAIN Mid(S, T, ops, before, after, ren, j) <=> There(ops, before, after, j, t)
           /\ There(ops, before, after, j, t) =>
                Mid(S, T, ops, before, after, ren, j)[t] = TableAt(ops, before, after, ren, j, t)
  <1>1. There(ops, before, after, j, t) => t \in DOMAIN before \cup DOMAIN after
    BY DEF There, Both
  <1> QED  BY <1>1 DEF Mid

LEMMA MidShift ==
    ASSUME NEW S, NEW T, NEW ops, NEW before, NEW after, NEW ren, NEW j \in Nat, j # 0
    PROVE  Shift(Mid(S, T, ops, before, after, ren, j - 1), Mid(S, T, ops, before, after, ren, j),
                 ops[j].table)
  <1> DEFINE t == ops[j].table
             M == Mid(S, T, ops, before, after, ren, j - 1)
             N == Mid(S, T, ops, before, after, ren, j)
             i == j - 1
  <1>1. ASSUME NEW x, x # t
        PROVE  /\ There(ops, before, after, j, x) <=> There(ops, before, after, i, x)
               /\ TableAt(ops, before, after, ren, j, x) = TableAt(ops, before, after, ren, i, x)
    <2>1. x \in Touched(ops, j) <=> x \in Touched(ops, i)
      BY <1>1, TouchedMore
    <2>2. Done(ops, j, x) = Done(ops, i, x)
      BY <1>1, DoneMore
    <2> HIDE DEF i
    <2> QED  BY <2>1, <2>2 DEF There, TableAt
  <1>2. M = [x \in DOMAIN M |-> M[x]] /\ N = [x \in DOMAIN N |-> N[x]]
    BY DEF Mid
  <1>3. DOMAIN N \ {t} = DOMAIN M \ {t}
    BY <1>1 DEF Mid
  <1>4. \A x \in DOMAIN N \ {t} : N[x] = M[x]
    <2>1. ASSUME NEW x \in DOMAIN N, x \in DOMAIN M, x # t PROVE N[x] = M[x]
      BY <1>1, <2>1 DEF Mid
    <2> QED  BY <2>1, <1>3
  <1> QED  BY <1>2, <1>3, <1>4 DEF Shift

(* A table that comes or goes has one operation. *)
LEMMA PlannedOnce ==
    ASSUME NEW ops, NEW before, NEW after, NEW ren, NEW T, Planned(ops, before, after, ren, T),
           NEW j \in DOMAIN ops, ops[j].table \notin Both(before, after)
    PROVE  ops[j].table \notin Touched(ops, j - 1) /\ ops[j].table \in Touched(ops, j)
  <1>0. DOMAIN ops = 1..Len(ops) /\ Len(ops) \in Nat
    BY DEF Planned
  <1>1. \A i \in 1..(j - 1) : i \in DOMAIN ops /\ i < j
    BY <1>0
  <1>2. \A i \in 1..(j - 1) : ops[i].table # ops[j].table
    BY <1>1 DEF Planned
  <1>3. j \in 1..j
    BY <1>0
  <1> QED  BY <1>2, <1>3 DEF Touched

LEMMA RendersKind ==
    ASSUME NEW d, NEW op, Renders(d, op)
    PROVE  d = "sqlite" => /\ op.kind # "DropColumn"
                           /\ op.kind = "AddColumn" => ~op.field.primaryKey /\ ~op.field.unique
  BY DEF Renders, SQLiteRenders

LEMMA InvertTables ==
    ASSUME NEW t, NEW before, NEW f
    PROVE  /\ Invert(CreateTable(t, f), before) = DropTable(t)
           /\ Invert(DropTable(t), before) = CreateTable(t, before[t].fields)
  <1>1. Invert(CreateTable(t, f), before) = DropTable(t)
    BY DEF Invert, CreateTable
  <1>2. Invert(DropTable(t), before) = CreateTable(t, before[t].fields)
    BY DEF Invert, DropTable
  <1> QED  BY <1>1, <1>2

(* A change of type that the database converts to, from before and back. *)
WasType(op, before) == before[op.table].fields[op.column].type
Passable(op, before) == op.kind = "ChangeType" => Converts(WasType(op, before), op.type)
Returnable(op, before) == op.kind = "ChangeType" => Converts(op.type, WasType(op, before))

LEMMA RetypeIs ==
    ASSUME NEW t, NEW before, NEW now, NEW ren, NEW k \in Kind, NEW c
    PROVE  LET op == OpOf(t, now, ren, k, c)
           IN /\ Passable(op, before)
                   => (k = "ChangeType" => Converts(before[t].fields[c].type, now[c].type))
              /\ Returnable(op, before)
                   => (k = "ChangeType" => Converts(now[c].type, before[t].fields[c].type))
  <1> DEFINE op == OpOf(t, now, ren, k, c)
  <1>1. CASE k = "ChangeType"
    <2>1. op = AlterOf(t, now, k, c)
      BY <1>1, OpOfInPlace DEF InPlace
    <2>2. AlterOf(t, now, k, c) = ChangeType(t, c, now[c])
      BY <1>1 DEF AlterOf
    <2>3. op.kind = "ChangeType" /\ op.table = t /\ op.column = c /\ op.type = now[c].type
      BY <2>1, <2>2 DEF ChangeType
    <2> HIDE DEF op
    <2>4. WasType(op, before) = before[t].fields[c].type
      BY <2>3 DEF WasType
    <2> QED  BY <2>3, <2>4 DEF Passable, Returnable, op
  <1> QED  BY <1>1

(* An operation moves the database on by one. *)
LEMMA MidForward ==
    ASSUME NEW d, NEW S, NEW T, NEW ops, NEW before, NEW after, NEW ren,
           IsSnapshot(before), IsSnapshot(after), Planned(ops, before, after, ren, T),
           AreRenamings(before, after, ren), NEW j \in DOMAIN ops, Renders(d, ops[j]),
           Passable(ops[j], before)
    PROVE  Exec(d, [ok |-> TRUE, tables |-> Mid(S, T, ops, before, after, ren, j - 1)], ops[j])
             = [ok |-> TRUE, tables |-> Mid(S, T, ops, before, after, ren, j)]
  <1> DEFINE t == ops[j].table
             op == ops[j]
             i == j - 1
             M == Mid(S, T, ops, before, after, ren, i)
             N == Mid(S, T, ops, before, after, ren, j)
  <1>0. j \in Nat /\ j # 0 /\ t \in T /\ op \in PlanOps(before, after, ren)
    BY DEF Planned
  <1>1. Shift(M, N, t)
    BY <1>0, MidShift
  <1>2. /\ t \in DOMAIN M <=> There(ops, before, after, i, t)
        /\ There(ops, before, after, i, t) => M[t] = TableAt(ops, before, after, ren, i, t)
        /\ t \in DOMAIN N <=> There(ops, before, after, j, t)
        /\ There(ops, before, after, j, t) => N[t] = TableAt(ops, before, after, ren, j, t)
    BY <1>0, MidIs
  <1>3. CASE t \in DOMAIN after \ DOMAIN before /\ op = CreateTable(t, after[t].fields)
    <2>1. t \notin Touched(ops, i) /\ t \in Touched(ops, j)
      BY <1>3, PlannedOnce DEF Both
    <2> HIDE DEF M, N, i
    <2>2. t \notin DOMAIN M /\ t \in DOMAIN N /\ N[t] = after[t].fields
      BY <1>2, <1>3, <2>1 DEF There, TableAt, Both
    <2>3. Gains(M, N, t, after[t].fields)
      BY <1>1, <2>2, ShiftGains
    <2>4. Exec(d, [ok |-> TRUE, tables |-> M], CreateTable(t, after[t].fields)) = [ok |-> TRUE, tables |-> N]
      BY <2>3, ExecCreate
    <2> QED  BY <2>4, <1>3 DEF M, N, i
  <1>4. CASE t \in DOMAIN before \ DOMAIN after /\ op = DropTable(t)
    <2>1. t \notin Touched(ops, i) /\ t \in Touched(ops, j)
      BY <1>4, PlannedOnce DEF Both
    <2> HIDE DEF M, N, i
    <2>2. t \in DOMAIN M /\ t \notin DOMAIN N
      BY <1>2, <1>4, <2>1 DEF There, Both
    <2>3. Gains(N, M, t, M[t])
      BY <1>1, <2>2, ShiftGains, ShiftBack
    <2>4. Exec(d, [ok |-> TRUE, tables |-> M], DropTable(t)) = [ok |-> TRUE, tables |-> N]
      BY <2>3, ExecDrop
    <2> QED  BY <2>4, <1>4 DEF M, N, i
  <1>5. CASE Alteration(op, before, after, ren)
    <2> DEFINE was == before[t].fields
               now == after[t].fields
               D == Done(ops, i, t)
               k == op.kind
               c == op.column
    <2>1. t \in Both(before, after) /\ k \in Kind /\ op = OpOf(t, now, ren[t], k, c)
      BY <1>5 DEF Alteration
    <2>2. Turn(was, now, ren[t], D, k, c)
      BY <2>1, PlannedTurn
    <2>3. Done(ops, j, t) = D \cup {<<k, c>>}
      BY <1>0, DoneMore
    <2>4. IsTable(was) /\ IsTable(now) /\ IsRenaming(was, now, ren[t])
      BY <2>1 DEF IsSnapshot, Both, AreRenamings
    <2>5. d = "sqlite" => k # "DropColumn"
      BY RendersKind
    <2>a. k = "ChangeType" => Converts(was[c].type, now[c].type)
      <3>1. Passable(OpOf(t, now, ren[t], k, c), before)
        BY <2>1
      <3> HIDE DEF op, now, k, c, t
      <3> QED  BY <2>1, <3>1, RetypeIs
    <2> DEFINE F == At(was, now, ren[t], D)
               G == At(was, now, ren[t], D \cup {<<k, c>>})
    <2>6. t \in DOMAIN M /\ M[t] = F /\ t \in DOMAIN N /\ N[t] = G
      <3> HIDE DEF M, N, i, was, now, k, c
      <3>1. There(ops, before, after, i, t) /\ There(ops, before, after, j, t)
        BY <2>1 DEF There
      <3>2. /\ TableAt(ops, before, after, ren, i, t) = F
            /\ TableAt(ops, before, after, ren, j, t) = G
        BY <2>1, <2>3 DEF TableAt, was, now
      <3> HIDE DEF F, G
      <3> QED  BY <1>2, <3>1, <3>2
    <2> HIDE DEF M, N, was, now, i
    <2>7. Moves(d, M, OpOf(t, now, ren[t], k, c), G)
      <3> HIDE DEF D, k, c
      <3> QED  BY <2>1, <2>2, <2>4, <2>5, <2>6, <2>a, StepForward
    <2> HIDE DEF F, G, D
    <2>8. Moves(d, M, op, G)
      BY <2>1, <2>7
    <2>9. N = [M EXCEPT ![t] = G]
      BY <1>1, <2>6, ShiftExcept
    <2>10. Exec(d, [ok |-> TRUE, tables |-> M], op) = [ok |-> TRUE, tables |-> N]
      BY <2>6, <2>8, <2>9, ExecAlter
    <2> QED  BY <2>10 DEF M, N, i
  <1> QED  BY <1>0, <1>3, <1>4, <1>5, PlanOpCases

LEMMA InvertTable ==
    ASSUME NEW t, NEW before, NEW now, NEW ren, NEW k \in Kind, NEW c
    PROVE  Invert(OpOf(t, now, ren, k, c), before).table = t
  <1>1. CASE k \in InPlace
    <2>1. OpOf(t, now, ren, k, c) = AlterOf(t, now, k, c)
      BY <1>1, OpOfKinds
    <2>2. /\ Invert(AlterOf(t, now, k, c), before) = AlterOf(t, before[t].fields, Opposite(k), c)
          /\ Opposite(k) \in InPlace
      BY <1>1, InvertInPlace
    <2>3. Opposite(k) \in Kind \ {"RenameColumn"}
      BY <2>2 DEF Kind, InPlace
    <2>4. AlterOf(t, before[t].fields, Opposite(k), c).table = t
      BY <2>3, AlterOfIs
    <2> QED  BY <2>1, <2>2, <2>4
  <1>2. CASE k = "AddColumn"
    <2>1. OpOf(t, now, ren, k, c) = AddColumn(t, c, now[c])
      BY <1>2, OpOfKinds
    <2>2. Invert(AddColumn(t, c, now[c]), before) = ColumnOp("DropColumn", t, c)
      BY InvertAdd
    <2> QED  BY <2>1, <2>2 DEF ColumnOp
  <1>3. CASE k = "DropColumn"
    <2>1. OpOf(t, now, ren, k, c) = ColumnOp("DropColumn", t, c)
      BY <1>3, OpOfKinds
    <2>2. Invert(ColumnOp("DropColumn", t, c), before) = AddColumn(t, c, before[t].fields[c])
      BY InvertDrop
    <2> QED  BY <2>1, <2>2 DEF AddColumn
  <1>4. CASE k = "RenameColumn"
    <2>1. OpOf(t, now, ren, k, c) = RenameColumn(t, c, ren[c])
      BY <1>4, OpOfKinds
    <2>2. Invert(RenameColumn(t, c, ren[c]), before) = RenameColumn(t, ren[c], c)
      BY InvertRename
    <2> QED  BY <2>1, <2>2 DEF RenameColumn
  <1> QED  BY <1>1, <1>2, <1>3, <1>4 DEF Kind


(* Its inverse moves the database back, but for SQLite's own refusal. *)
LEMMA MidBackward ==
    ASSUME NEW d, NEW S, NEW T, NEW ops, NEW before, NEW after, NEW ren,
           IsSnapshot(before), IsSnapshot(after), Planned(ops, before, after, ren, T),
           AreRenamings(before, after, ren), NEW j \in DOMAIN ops, Renders(d, ops[j]),
           d = "sqlite" => ~(ops[j].kind = "AddColumn" /\ ops[j].field.index),
           Returnable(ops[j], before)
    PROVE  Exec(d, [ok |-> TRUE, tables |-> Mid(S, T, ops, before, after, ren, j)], Invert(ops[j], before))
             = [ok |-> TRUE, tables |-> Mid(S, T, ops, before, after, ren, j - 1)]
  <1> DEFINE t == ops[j].table
             op == ops[j]
             i == j - 1
             M == Mid(S, T, ops, before, after, ren, i)
             N == Mid(S, T, ops, before, after, ren, j)
  <1>0. j \in Nat /\ j # 0 /\ t \in T /\ op \in PlanOps(before, after, ren)
    BY DEF Planned
  <1>1. Shift(M, N, t)
    BY <1>0, MidShift
  <1>2. /\ t \in DOMAIN M <=> There(ops, before, after, i, t)
        /\ There(ops, before, after, i, t) => M[t] = TableAt(ops, before, after, ren, i, t)
        /\ t \in DOMAIN N <=> There(ops, before, after, j, t)
        /\ There(ops, before, after, j, t) => N[t] = TableAt(ops, before, after, ren, j, t)
    BY <1>0, MidIs
  <1>3. CASE t \in DOMAIN after \ DOMAIN before /\ op = CreateTable(t, after[t].fields)
    <2>1. t \notin Touched(ops, i) /\ t \in Touched(ops, j)
      BY <1>3, PlannedOnce DEF Both
    <2>2. Invert(op, before) = DropTable(t)
      <3>1. Invert(CreateTable(t, after[t].fields), before) = DropTable(t)
        BY InvertTables
      <3> QED  BY <1>3, <3>1
    <2> HIDE DEF M, N, i
    <2>3. t \notin DOMAIN M /\ t \in DOMAIN N
      BY <1>2, <1>3, <2>1 DEF There, Both
    <2>4. Gains(M, N, t, N[t])
      BY <1>1, <2>3, ShiftGains
    <2>5. Exec(d, [ok |-> TRUE, tables |-> N], DropTable(t)) = [ok |-> TRUE, tables |-> M]
      BY <2>4, ExecDrop
    <2> QED  BY <2>2, <2>5 DEF M, N, i
  <1>4. CASE t \in DOMAIN before \ DOMAIN after /\ op = DropTable(t)
    <2>1. t \notin Touched(ops, i) /\ t \in Touched(ops, j)
      BY <1>4, PlannedOnce DEF Both
    <2>2. Invert(op, before) = CreateTable(t, before[t].fields)
      <3>1. Invert(DropTable(t), before) = CreateTable(t, before[t].fields)
        BY InvertTables
      <3> QED  BY <1>4, <3>1
    <2> HIDE DEF M, N, i
    <2>3. t \in DOMAIN M /\ t \notin DOMAIN N /\ M[t] = before[t].fields
      BY <1>2, <1>4, <2>1 DEF There, TableAt, Both
    <2>4. Gains(N, M, t, before[t].fields)
      BY <1>1, <2>3, ShiftGains, ShiftBack
    <2>5. Exec(d, [ok |-> TRUE, tables |-> N], CreateTable(t, before[t].fields)) = [ok |-> TRUE, tables |-> M]
      BY <2>4, ExecCreate
    <2> QED  BY <2>2, <2>5 DEF M, N, i
  <1>5. CASE Alteration(op, before, after, ren)
    <2> DEFINE was == before[t].fields
               now == after[t].fields
               D == Done(ops, i, t)
               k == op.kind
               c == op.column
               inv == Invert(op, before)
    <2>1. t \in Both(before, after) /\ k \in Kind /\ op = OpOf(t, now, ren[t], k, c)
      BY <1>5 DEF Alteration
    <2>2. Turn(was, now, ren[t], D, k, c)
      BY <2>1, PlannedTurn
    <2>3. Done(ops, j, t) = D \cup {<<k, c>>}
      BY <1>0, DoneMore
    <2>4. IsTable(was) /\ IsTable(now) /\ IsRenaming(was, now, ren[t])
      BY <2>1 DEF IsSnapshot, Both, AreRenamings
    <2>5. d = "sqlite" /\ k = "AddColumn" => ~Constrained(now[c])
      <3>1. k = "AddColumn" => op = AddColumn(t, c, now[c])
        <4> HIDE DEF op, was, now, k, c, t
        <4> QED  BY <2>1, OpOfKinds
      <3>2. k = "AddColumn" => op.field = now[c]
        <4> HIDE DEF op, was, now, k, c, t
        <4> QED  BY <3>1 DEF AddColumn
      <3> QED  BY <3>2, RendersKind DEF Constrained
    <2>a. k = "ChangeType" => Converts(now[c].type, was[c].type)
      <3>1. Returnable(OpOf(t, now, ren[t], k, c), before)
        BY <2>1
      <3> HIDE DEF op, now, k, c, t
      <3> QED  BY <2>1, <3>1, RetypeIs
    <2> DEFINE F == At(was, now, ren[t], D)
               G == At(was, now, ren[t], D \cup {<<k, c>>})
    <2>6. t \in DOMAIN M /\ M[t] = F /\ t \in DOMAIN N /\ N[t] = G
      <3> HIDE DEF M, N, i, was, now, k, c
      <3>1. There(ops, before, after, i, t) /\ There(ops, before, after, j, t)
        BY <2>1 DEF There
      <3>2. /\ TableAt(ops, before, after, ren, i, t) = F
            /\ TableAt(ops, before, after, ren, j, t) = G
        BY <2>1, <2>3 DEF TableAt, was, now
      <3> HIDE DEF F, G
      <3> QED  BY <1>2, <3>1, <3>2
    <2>0. before[t].fields = was
      OBVIOUS
    <2> HIDE DEF M, N, was, now, i
    <2>7. Moves(d, N, Invert(OpOf(t, now, ren[t], k, c), before), F)
      <3> HIDE DEF D, k, c
      <3> QED  BY <2>0, <2>1, <2>2, <2>4, <2>5, <2>6, <2>a, StepBackward
    <2>8. inv.table = t
      <3>1. Invert(OpOf(t, now, ren[t], k, c), before).table = t
        <4> HIDE DEF k, c, t
        <4> QED  BY <2>1, InvertTable
      <3> QED  BY <2>1, <3>1
    <2> HIDE DEF F, G, D
    <2>9. Moves(d, N, inv, F)
      BY <2>1, <2>7
    <2>10. M = [N EXCEPT ![t] = F]
      BY <1>1, <2>6, ShiftExcept, ShiftBack
    <2> HIDE DEF inv
    <2>11. Exec(d, [ok |-> TRUE, tables |-> N], inv) = [ok |-> TRUE, tables |-> M]
      BY <2>6, <2>8, <2>9, <2>10, ExecAlter
    <2> QED  BY <2>11 DEF M, N, i, inv
  <1> QED  BY <1>0, <1>3, <1>4, <1>5, PlanOpCases

(* Once all operations are done, the tables of T are as declared. *)
Final(S, T, after) ==
    [t \in {x \in DOMAIN S : x \notin T} \cup (T \cap DOMAIN after) |->
       IF t \in T THEN after[t].fields ELSE S[t]]

LEMMA AllDone ==
    ASSUME NEW ops, NEW before, NEW after, NEW ren, NEW T, Planned(ops, before, after, ren, T),
           AreRenamings(before, after, ren), NEW t \in T, t \in Both(before, after)
    PROVE  \A k \in Kind : \A c : <<k, c>> \in Done(ops, Len(ops), t) <=>
             Steps(before[t].fields, after[t].fields, ren[t], k, c)
  <1> DEFINE was == before[t].fields
             now == after[t].fields
  <1>0. DOMAIN ops = 1..Len(ops) /\ \A i \in DOMAIN ops : ops[i] \in PlanOps(before, after, ren)
    BY DEF Planned
  <1>1. ASSUME NEW k \in Kind, NEW c, <<k, c>> \in Done(ops, Len(ops), t)
        PROVE  Steps(was, now, ren[t], k, c)
    <2>1. PICK i \in 1..Len(ops) : ops[i].table = t /\ <<k, c>> = <<ops[i].kind, ops[i].column>>
      BY <1>1 DEF Done
    <2>2. k = ops[i].kind /\ c = ops[i].column
      BY <2>1
    <2>3. Alteration(ops[i], before, after, ren)
      BY <1>0, <2>1, PlanOpCases DEF Both
    <2> QED  BY <2>1, <2>2, <2>3 DEF Alteration
  <1>2. ASSUME NEW k \in Kind, NEW c, Steps(was, now, ren[t], k, c)
        PROVE  <<k, c>> \in Done(ops, Len(ops), t)
    <2> DEFINE op == OpOf(t, now, ren[t], k, c)
    <2>1. op \in PlanOps(before, after, ren)
      BY <1>2, AlterationPlanned DEF AreRenamings
    <2>2. op.kind = k /\ op.column = c /\ op.table = t
      BY OpOfIs
    <2> HIDE DEF op
    <2>3. PICK i \in DOMAIN ops : ops[i] = op
      BY <2>1, <2>2 DEF Planned
    <2> QED  BY <1>0, <2>2, <2>3 DEF Done
  <1> QED  BY <1>1, <1>2

LEMMA TablesDone ==
    ASSUME NEW ops, NEW before, NEW after, NEW ren, NEW T, Planned(ops, before, after, ren, T),
           NEW t \in T, t \in (DOMAIN before \cup DOMAIN after) \ Both(before, after)
    PROVE  t \in Touched(ops, Len(ops))
  <1>0. DOMAIN ops = 1..Len(ops)
    BY DEF Planned
  <1>1. CASE t \in DOMAIN after \ DOMAIN before
    <2> DEFINE op == CreateTable(t, after[t].fields)
    <2>1. op \in PlanOps(before, after, ren)
      BY <1>1 DEF PlanOps
    <2>2. op.table = t
      BY DEF CreateTable
    <2> HIDE DEF op
    <2>3. PICK i \in DOMAIN ops : ops[i] = op
      BY <2>1, <2>2 DEF Planned
    <2> QED  BY <1>0, <2>2, <2>3 DEF Touched
  <1>2. CASE t \in DOMAIN before \ DOMAIN after
    <2> DEFINE op == DropTable(t)
    <2>1. op \in PlanOps(before, after, ren)
      BY <1>2 DEF PlanOps
    <2>2. op.table = t
      BY DEF DropTable
    <2> HIDE DEF op
    <2>3. PICK i \in DOMAIN ops : ops[i] = op
      BY <2>1, <2>2 DEF Planned
    <2> QED  BY <1>0, <2>2, <2>3 DEF Touched
  <1> QED  BY <1>1, <1>2 DEF Both

LEMMA MidEnd ==
    ASSUME NEW S, NEW T, NEW ops, NEW before, NEW after, NEW ren,
           IsSnapshot(before), IsSnapshot(after), Planned(ops, before, after, ren, T),
           AreRenamings(before, after, ren)
    PROVE  Mid(S, T, ops, before, after, ren, Len(ops)) = Final(S, T, after)
  <1> DEFINE n == Len(ops)
  <1>1. ASSUME NEW t \in T
        PROVE  /\ There(ops, before, after, n, t) <=> t \in DOMAIN after
               /\ t \in DOMAIN after => TableAt(ops, before, after, ren, n, t) = after[t].fields
    <2>1. CASE t \in Both(before, after)
      <3>1. IsTable(before[t].fields) /\ IsTable(after[t].fields)
            /\ IsRenaming(before[t].fields, after[t].fields, ren[t])
        BY <2>1 DEF IsSnapshot, Both, AreRenamings
      <3>2. At(before[t].fields, after[t].fields, ren[t], Done(ops, n, t)) = after[t].fields
        <4>1. \A k \in Kind : \A c : <<k, c>> \in Done(ops, n, t) <=>
                Steps(before[t].fields, after[t].fields, ren[t], k, c)
          BY <2>1, AllDone
        <4> HIDE DEF n
        <4> QED  BY <3>1, <4>1, AtEnd
      <3> QED  BY <2>1, <3>2 DEF There, TableAt, Both
    <2>2. CASE t \notin Both(before, after) /\ t \in DOMAIN before \cup DOMAIN after
      <3>1. t \in Touched(ops, n)
        BY <2>2, TablesDone
      <3> HIDE DEF n
      <3> QED  BY <2>2, <3>1 DEF There, TableAt, Both
    <2>3. CASE t \notin DOMAIN before \cup DOMAIN after
      BY <2>3 DEF There, Both
    <2> QED  BY <2>1, <2>2, <2>3
  <1> HIDE DEF n
  <1>2. {x \in DOMAIN S : x \notin T} \cup
          {x \in DOMAIN before \cup DOMAIN after : x \in T /\ There(ops, before, after, n, x)}
          = {x \in DOMAIN S : x \notin T} \cup (T \cap DOMAIN after)
    BY <1>1
  <1>3. ASSUME NEW t \in {x \in DOMAIN S : x \notin T} \cup (T \cap DOMAIN after)
        PROVE  (IF t \in T THEN TableAt(ops, before, after, ren, n, t) ELSE S[t])
                 = IF t \in T THEN after[t].fields ELSE S[t]
    BY <1>1
  <1>4. Mid(S, T, ops, before, after, ren, n) = Final(S, T, after)
    BY <1>2, <1>3 DEF Mid, Final
  <1> QED  BY <1>4 DEF n

(* A table the migration does not touch needed nothing. *)
LEMMA UntouchedSame ==
    ASSUME NEW T, NEW ops, NEW before, NEW after, NEW ren,
           IsSnapshot(before), IsSnapshot(after), Planned(ops, before, after, ren, T),
           AreRenamings(before, after, ren), NEW t \in T, t \notin Touched(ops, Len(ops))
    PROVE  /\ t \in DOMAIN before <=> t \in DOMAIN after
           /\ t \in DOMAIN before => before[t].fields = after[t].fields
  <1>1. t \in DOMAIN before <=> t \in DOMAIN after
    BY TablesDone DEF Both
  <1>2. ASSUME t \in DOMAIN before PROVE before[t].fields = after[t].fields
    <2>1. t \in Both(before, after)
      BY <1>1, <1>2 DEF Both
    <2>2. IsTable(before[t].fields) /\ IsTable(after[t].fields)
          /\ IsRenaming(before[t].fields, after[t].fields, ren[t])
      BY <2>1 DEF IsSnapshot, Both, AreRenamings
    <2>3. Done(ops, Len(ops), t) = {}
      BY DEF Done, Touched
    <2>4. \A k \in Kind : \A c : <<k, c>> \in {} <=>
             Steps(before[t].fields, after[t].fields, ren[t], k, c)
      BY <2>1, <2>3, AllDone
    <2>5. At(before[t].fields, after[t].fields, ren[t], {}) = after[t].fields
      BY <2>2, <2>4, AtEnd
    <2>6. At(before[t].fields, after[t].fields, ren[t], {}) = before[t].fields
      BY <2>2, AtStart
    <2> QED  BY <2>5, <2>6
  <1> QED  BY <1>1, <1>2

(* The state recorded beside the migration is the schema it ends in. *)
LEMMA AfterIs ==
    ASSUME NEW T, NEW ops, NEW before, NEW cum, NEW ren,
           IsSnapshot(before), IsSnapshot(declared), Planned(ops, before, declared, ren, T),
           AreRenamings(before, declared, ren), Agrees(Schema(cum), T, before)
    PROVE  Schema(SnapshotAfter(cum, ops)) = Final(Schema(cum), T, declared)
  <1> DEFINE changed == {ops[i].table : i \in DOMAIN ops}
             S == Schema(cum)
             A == SnapshotAfter(cum, ops)
  <1>1. changed = Touched(ops, Len(ops)) /\ changed \subseteq T
    BY DEF Planned, Touched
  <1>2. DOMAIN S = DOMAIN cum /\ \A t \in DOMAIN cum : S[t] = cum[t].fields
    BY DEF Schema
  <1>3. A = [t \in (DOMAIN cum \ changed) \cup (DOMAIN declared \cap changed) |->
               IF t \in changed THEN declared[t] ELSE cum[t]]
    BY DEF SnapshotAfter
  <1>4. ASSUME NEW t \in T, t \notin changed
        PROVE  /\ t \in DOMAIN cum <=> t \in DOMAIN declared
               /\ t \in DOMAIN cum => S[t] = declared[t].fields
    <2>1. /\ t \in DOMAIN before <=> t \in DOMAIN declared
          /\ t \in DOMAIN before => before[t].fields = declared[t].fields
      BY <1>1, <1>4, UntouchedSame
    <2> QED  BY <1>2, <2>1 DEF Agrees
  <1> HIDE DEF changed, S, A
  <1>5. DOMAIN A = {x \in DOMAIN S : x \notin T} \cup (T \cap DOMAIN declared)
    BY <1>1, <1>2, <1>3, <1>4
  <1>6. ASSUME NEW t \in DOMAIN A
        PROVE  A[t].fields = IF t \in T THEN declared[t].fields ELSE S[t]
    <2>1. CASE t \in changed
      BY <1>1, <1>3, <2>1
    <2>2. CASE t \notin changed /\ t \in T
      BY <1>2, <1>3, <1>4, <2>2
    <2>3. CASE t \notin T
      BY <1>1, <1>2, <1>3, <2>3
    <2> QED  BY <2>1, <2>2, <2>3
  <1>7. Schema(A) = [t \in DOMAIN A |-> A[t].fields]
    BY DEF Schema
  <1>8. Schema(A) = Final(S, T, declared)
    BY <1>5, <1>6, <1>7 DEF Final
  <1> QED  BY <1>8 DEF A, S

(* The whole migration, and its rollback. *)
LEMMA PlannedBuilds ==
    ASSUME NEW d, NEW S, NEW T, NEW ops, NEW before, NEW after, NEW ren,
           IsSnapshot(before), IsSnapshot(after), Planned(ops, before, after, ren, T),
           AreRenamings(before, after, ren), Agrees(S, T, before),
           \A i \in DOMAIN ops : Renders(d, ops[i]) /\ Passable(ops[i], before)
    PROVE  ExecAll(d, [ok |-> TRUE, tables |-> S], ops) = [ok |-> TRUE, tables |-> Final(S, T, after)]
  <1> DEFINE n == Len(ops)
             M(j) == Mid(S, T, ops, before, after, ren, j)
             R == [j \in 0..n |-> [ok |-> TRUE, tables |-> M(j)]]
             s == [ok |-> TRUE, tables |-> S]
  <1>0. n \in Nat /\ DOMAIN ops = 1..n /\ ops \in Seq(PlanOps(before, after, ren))
    BY DEF Planned
  <1>1. M(0) = S /\ M(n) = Final(S, T, after)
    BY MidStart, MidEnd
  <1>2. ASSUME NEW j \in 1..n
        PROVE  Exec(d, [ok |-> TRUE, tables |-> M(j - 1)], ops[j]) = [ok |-> TRUE, tables |-> M(j)]
    <2>1. j \in DOMAIN ops /\ Renders(d, ops[j]) /\ Passable(ops[j], before)
      BY <1>0
    <2> QED  BY <2>1, MidForward
  <1> HIDE DEF M, n
  <1>3. R[0] = s /\ R[n] = [ok |-> TRUE, tables |-> Final(S, T, after)]
    <2>1. 0 \in 0..n /\ n \in 0..n
      BY <1>0
    <2> QED  BY <2>1, <1>1
  <1>4. ASSUME NEW j \in 1..n PROVE R[j] = Exec(d, R[j - 1], ops[j])
    <2>1. j \in 0..n /\ j - 1 \in 0..n
      BY <1>0
    <2>2. R[j] = [ok |-> TRUE, tables |-> M(j)] /\ R[j - 1] = [ok |-> TRUE, tables |-> M(j - 1)]
      BY <2>1
    <2> HIDE DEF R
    <2> QED  BY <2>2, <1>2
  <1> HIDE DEF R, s
  <1>5. Passes(d, s, ops, R)
    BY <1>3, <1>4 DEF Passes, n
  <1>6. ExecAll(d, s, ops) = R[Len(ops)]
    BY <1>0, <1>5, ExecAllIs
  <1> QED  BY <1>3, <1>6 DEF n, s

LEMMA PlannedUndoes ==
    ASSUME NEW d, NEW S, NEW T, NEW ops, NEW before, NEW after, NEW ren,
           IsSnapshot(before), IsSnapshot(after), Planned(ops, before, after, ren, T),
           AreRenamings(before, after, ren), Agrees(S, T, before),
           \A i \in DOMAIN ops : Renders(d, ops[i]) /\ Returnable(ops[i], before),
           d = "sqlite" => \A i \in DOMAIN ops : ~(ops[i].kind = "AddColumn" /\ ops[i].field.index)
    PROVE  LET down == [i \in DOMAIN ops |-> Invert(ops[Len(ops) + 1 - i], before)]
           IN ExecAll(d, [ok |-> TRUE, tables |-> Final(S, T, after)], down) = [ok |-> TRUE, tables |-> S]
  <1> DEFINE n == Len(ops)
             M(j) == Mid(S, T, ops, before, after, ren, j)
             R == [j \in 0..n |-> [ok |-> TRUE, tables |-> M(n - j)]]
             down == [i \in DOMAIN ops |-> Invert(ops[n + 1 - i], before)]
             s == [ok |-> TRUE, tables |-> Final(S, T, after)]
             X == {down[i] : i \in 1..n}
  <1>0. n \in Nat /\ DOMAIN ops = 1..n
    BY DEF Planned
  <1>1. M(0) = S /\ M(n) = Final(S, T, after)
    BY MidStart, MidEnd
  <1>2. ASSUME NEW j \in 1..n
        PROVE  Exec(d, [ok |-> TRUE, tables |-> M(j)], Invert(ops[j], before)) = [ok |-> TRUE, tables |-> M(j - 1)]
    <2>1. j \in DOMAIN ops /\ Renders(d, ops[j]) /\ Returnable(ops[j], before)
          /\ (d = "sqlite" => ~(ops[j].kind = "AddColumn" /\ ops[j].field.index))
      BY <1>0
    <2> QED  BY <2>1, MidBackward
  <1> HIDE DEF M, n
  <1>3. R[0] = s /\ R[n] = [ok |-> TRUE, tables |-> S]
    <2>1. 0 \in 0..n /\ n \in 0..n /\ n - 0 = n /\ n - n = 0
      BY <1>0
    <2> QED  BY <2>1, <1>1
  <1>4. ASSUME NEW j \in 1..n PROVE R[j] = Exec(d, R[j - 1], down[j])
    <2>1. j \in 0..n /\ j - 1 \in 0..n /\ n + 1 - j \in 1..n /\ n - (j - 1) = n + 1 - j /\ (n + 1 - j) - 1 = n - j
      BY <1>0
    <2>2. R[j] = [ok |-> TRUE, tables |-> M(n - j)] /\ R[j - 1] = [ok |-> TRUE, tables |-> M(n + 1 - j)]
      BY <2>1
    <2>3. down[j] = Invert(ops[n + 1 - j], before)
      BY <1>0
    <2>4. Exec(d, [ok |-> TRUE, tables |-> M(n + 1 - j)], Invert(ops[n + 1 - j], before))
            = [ok |-> TRUE, tables |-> M(n - j)]
      BY <2>1, <1>2
    <2> HIDE DEF R, down
    <2> QED  BY <2>2, <2>3, <2>4
  <1>5. down \in Seq(X) /\ Len(down) = n
    <2>1. down \in [1..n -> X]
      BY <1>0
    <2> HIDE DEF down, X
    <2> QED  BY <1>0, <2>1
  <1> HIDE DEF R, s, down, X
  <1>6. Passes(d, s, down, R)
    BY <1>3, <1>4, <1>5 DEF Passes
  <1>7. ExecAll(d, s, down) = R[Len(down)]
    BY <1>5, <1>6, ExecAllIs
  <1> QED  BY <1>3, <1>5, <1>7 DEF n, s, down

(***************************************************************************)
(* From Diff to the operations of a run: the renames resolved, and each    *)
(* module's part.                                                          *)
(***************************************************************************)

(* s lists the only members of the parts of K that have one. *)
Picked(s, K, n) ==
    /\ \A x \in DOMAIN s : \E a \in 1..n : K[a] = <<s[x]>>
    /\ \A a \in 1..n : \A y : K[a] = <<y>> => \E x \in DOMAIN s : s[x] = y
    /\ \A x, y \in DOMAIN s : x < y =>
         \E a, c \in 1..n : a < c /\ K[a] = <<s[x]>> /\ K[c] = <<s[y]>>

LEMMA Singleton ==
    ASSUME NEW X, NEW x \in X
    PROVE  <<x>> \in Seq(X)
  OBVIOUS

LEMMA FlattenPicks ==
    ASSUME NEW X, NEW n \in Nat, NEW K, K = [i \in 1..n |-> K[i]],
           \A i \in 1..n : K[i] = <<>> \/ \E x \in X : K[i] = <<x>>
    PROVE  FlattenSeq(K) \in Seq(X) /\ Picked(FlattenSeq(K), K, n)
  <1> DEFINE s == FlattenSeq(K)
  <1>1. ASSUME NEW i \in 1..n PROVE K[i] \in Seq(X)
    <2>1. CASE K[i] = <<>>
      BY <2>1
    <2>2. ASSUME NEW x \in X, K[i] = <<x>> PROVE K[i] \in Seq(X)
      BY <2>2, Singleton, Zenon
    <2> QED  BY <2>1, <2>2
  <1>2. K \in Seq(Seq(X)) /\ Len(K) = n
    <2>1. K \in [1..n -> Seq(X)]
      BY <1>1
    <2> QED  BY <2>1
  <1>3. s \in Seq(X) /\ ListsTo(s, K, n)
    BY <1>2, FlattenLists
  <1> HIDE DEF s
  <1>4. ASSUME NEW a \in 1..n, NEW b \in DOMAIN K[a] PROVE b = 1 /\ K[a] = <<K[a][b]>>
    <2>1. K[a] # <<>>
      OBVIOUS
    <2>2. PICK x \in X : K[a] = <<x>>
      BY <2>1
    <2> QED  BY <2>2
  <1>5. ASSUME NEW x \in DOMAIN s PROVE \E a \in 1..n : K[a] = <<s[x]>>
    <2>1. PICK a \in 1..n : \E b \in DOMAIN K[a] : s[x] = K[a][b]
      BY <1>3 DEF ListsTo
    <2> QED  BY <2>1, <1>4
  <1>6. ASSUME NEW a \in 1..n, NEW y, K[a] = <<y>> PROVE \E x \in DOMAIN s : s[x] = y
    <2>1. 1 \in DOMAIN K[a] /\ K[a][1] = y
      BY <1>6
    <2> QED  BY <2>1, <1>3 DEF ListsTo
  <1>7. ASSUME NEW x \in DOMAIN s, NEW y \in DOMAIN s, x < y
        PROVE  \E a, c \in 1..n : a < c /\ K[a] = <<s[x]>> /\ K[c] = <<s[y]>>
    <2>1. PICK a \in 1..n, c \in 1..n : \E b \in DOMAIN K[a], d \in DOMAIN K[c] :
             s[x] = K[a][b] /\ s[y] = K[c][d] /\ (a < c \/ (a = c /\ b < d))
      BY <1>3, <1>7 DEF ListsTo
    <2>2. PICK b \in DOMAIN K[a], d \in DOMAIN K[c] :
             s[x] = K[a][b] /\ s[y] = K[c][d] /\ (a < c \/ (a = c /\ b < d))
      BY <2>1
    <2>3. b = 1 /\ d = 1 /\ K[a] = <<s[x]>> /\ K[c] = <<s[y]>>
      BY <2>2, <1>4
    <2> QED  BY <2>2, <2>3
  <1>8. Picked(s, K, n)
    BY <1>5, <1>6, <1>7 DEF Picked
  <1> QED  BY <1>3, <1>8 DEF s

(* What DiffIs says of Diff. *)
Differences(ops, before, after) ==
    /\ ops \in Seq(DiffOps(before, after))
    /\ \A op \in DiffOps(before, after) : \E i \in DOMAIN ops : ops[i] = op
    /\ \A i, j \in DOMAIN ops : i < j /\ ops[i].table = ops[j].table =>
         ops[i].table \in DOMAIN after \cap DOMAIN before /\ Precedes(ops[i], ops[j])

LEMMA SnapshotFinite ==
    ASSUME NEW s, IsSnapshot(s)
    PROVE  IsFinite(s)
  BY DEF IsSnapshot, IsFinite, IsTable

LEMMA DiffDiffers ==
    ASSUME NEW before, NEW after, IsSnapshot(before), IsSnapshot(after)
    PROVE  Differences(Diff(before, after), before, after)
  <1>1. IsFinite(before) /\ IsFinite(after)
    BY SnapshotFinite
  <1> QED  BY <1>1, DiffIs DEF Differences

(* An alteration Diff found. *)
Altering(op, before, after) ==
    /\ op.table \in Both(before, after)
    /\ op.kind \in Kind \ {"RenameColumn"}
    /\ Needs(before[op.table].fields, after[op.table].fields, op.kind, op.column)
    /\ op = AlterOf(op.table, after[op.table].fields, op.kind, op.column)

LEMMA DiffOpCases ==
    ASSUME NEW before, NEW after, NEW op \in DiffOps(before, after)
    PROVE  \/ op.table \in DOMAIN after \ DOMAIN before /\ op = CreateTable(op.table, after[op.table].fields)
           \/ op.table \in DOMAIN before \ DOMAIN after /\ op = DropTable(op.table)
           \/ Altering(op, before, after)
  <1>1. CASE \E t \in DOMAIN after \ DOMAIN before : op = CreateTable(t, after[t].fields)
    BY <1>1 DEF CreateTable
  <1>2. CASE \E t \in DOMAIN before \ DOMAIN after : op = DropTable(t)
    BY <1>2 DEF DropTable
  <1>3. CASE \E t \in DOMAIN after \cap DOMAIN before :
               op \in Alters(t, before[t].fields, after[t].fields)
    <2>1. PICK t \in DOMAIN after \cap DOMAIN before :
               op \in Alters(t, before[t].fields, after[t].fields)
      BY <1>3
    <2> DEFINE was == before[t].fields
               now == after[t].fields
    <2>2. PICK k \in Kind \ {"RenameColumn"} : \E c \in DOMAIN was \cup DOMAIN now :
               Needs(was, now, k, c) /\ op = AlterOf(t, now, k, c)
      BY <2>1, AltersAre
    <2>3. PICK c \in DOMAIN was \cup DOMAIN now : Needs(was, now, k, c) /\ op = AlterOf(t, now, k, c)
      BY <2>2
    <2>4. op.kind = k /\ op.table = t /\ op.column = c
      <3> HIDE DEF was, now
      <3> QED  BY <2>3, AlterOfIs
    <2> QED  BY <2>1, <2>3, <2>4 DEF Altering, Both
  <1> QED  BY <1>1, <1>2, <1>3 DEF DiffOps

LEMMA AlteringIn ==
    ASSUME NEW before, NEW after, NEW t \in Both(before, after), NEW k \in Kind \ {"RenameColumn"}, NEW c,
           Needs(before[t].fields, after[t].fields, k, c)
    PROVE  AlterOf(t, after[t].fields, k, c) \in DiffOps(before, after)
  <1> DEFINE was == before[t].fields
             now == after[t].fields
  <1>1. c \in DOMAIN was \cup DOMAIN now
    BY DEF Needs
  <1>2. AlterOf(t, now, k, c) \in Alters(t, was, now)
    BY <1>1, AltersAre
  <1> QED  BY <1>2 DEF DiffOps, Both

(* A table, a kind and a column name one operation of Diff. *)
LEMMA DiffOnce ==
    ASSUME NEW ops, NEW before, NEW after, IsSnapshot(before), IsSnapshot(after),
           Differences(ops, before, after), NEW i \in DOMAIN ops, NEW j \in DOMAIN ops,
           Altering(ops[i], before, after),
           ops[i].table = ops[j].table, ops[i].kind = ops[j].kind, ops[i].column = ops[j].column
    PROVE  i = j
  <1>0. i \in Nat /\ j \in Nat
    BY DEF Differences
  <1>1. ops[i].column \in Nat
    <2> DEFINE t == ops[i].table
    <2>1. ops[i].column \in DOMAIN before[t].fields \cup DOMAIN after[t].fields
      BY DEF Altering, Needs
    <2>2. DOMAIN before[t].fields \subseteq Nat /\ DOMAIN after[t].fields \subseteq Nat
      BY DEF Altering, Both, IsSnapshot, IsTable, IsColumns
    <2> QED  BY <2>1, <2>2
  <1>2. Ranks[ops[i].kind] \in Nat
    <2>1. ops[i].kind \in Kind /\ ops[i].kind # "RenameColumn"
      BY DEF Altering
    <2> QED  BY <2>1, KindsRanked
  <1>3. ~Precedes(ops[i], ops[j]) /\ ~Precedes(ops[j], ops[i])
    BY <1>1, <1>2 DEF Precedes
  <1>4. ~(i < j) /\ ~(j < i)
    BY <1>3 DEF Differences
  <1> QED  BY <1>0, <1>4

(* What the developer accepted: candidates, one to one, none constrained. *)
Answers(ops, before, yes) ==
    /\ yes \in Accepted(Candidates(ops, before))
    /\ \A p \in yes : ~Constrained(before[ops[p[1]].table].fields[ops[p[1]].column])

(* The renames they make of each table. *)
Renamed(ops, yes, t) == {ops[p[1]].column : p \in {q \in yes : ops[q[1]].table = t}}

NameOf(ops, yes, t, c) ==
    ops[(CHOOSE p \in yes : ops[p[1]].table = t /\ ops[p[1]].column = c)[2]].column

RenOf(ops, before, after, yes) ==
    [t \in Both(before, after) |-> [c \in Renamed(ops, yes, t) |-> NameOf(ops, yes, t, c)]]

LEMMA AltersAdd ==
    ASSUME NEW op, NEW before, NEW after, Altering(op, before, after)
    PROVE  LET t == op.table
               c == op.column
           IN /\ op.kind = "AddColumn" =>
                   /\ c \in DOMAIN after[t].fields \ DOMAIN before[t].fields
                   /\ op.field = after[t].fields[c]
              /\ op.kind = "DropColumn" => c \in DOMAIN before[t].fields \ DOMAIN after[t].fields
  <1> DEFINE t == op.table
             c == op.column
  <1>0. "AddColumn" \notin InPlace /\ "DropColumn" \notin InPlace
    BY DEF InPlace
  <1>1. op.kind = "AddColumn" => op = AddColumn(t, c, after[t].fields[c])
    BY DEF Altering, AlterOf
  <1>2. op.kind = "AddColumn" => op.field = after[t].fields[c]
    <2> HIDE DEF t, c
    <2> QED  BY <1>1 DEF AddColumn
  <1> QED  BY <1>0, <1>2 DEF Altering, Needs

(* What an accepted pair says. *)
(* What is known of a pair that was accepted. *)
Answer(p, ops, before, after) ==
    LET i == p[1]
        j == p[2]
        t == ops[i].table
        b == ops[i].column
        c == ops[j].column
    IN /\ i \in DOMAIN ops /\ j \in DOMAIN ops
       /\ ops[i].kind = "DropColumn" /\ ops[j].kind = "AddColumn" /\ ops[j].table = t
       /\ Altering(ops[i], before, after) /\ Altering(ops[j], before, after)
       /\ t \in Both(before, after)
       /\ b \in DOMAIN before[t].fields \ DOMAIN after[t].fields
       /\ c \in DOMAIN after[t].fields \ DOMAIN before[t].fields
       /\ before[t].fields[b] = after[t].fields[c]
       /\ ~Constrained(before[t].fields[b])

LEMMA AnswerIs ==
    ASSUME NEW ops, NEW before, NEW after, Differences(ops, before, after),
           NEW yes, Answers(ops, before, yes), NEW p \in yes
    PROVE  Answer(p, ops, before, after)
  <1> DEFINE i == p[1]
             j == p[2]
             t == ops[i].table
             b == ops[i].column
             c == ops[j].column
  <1>1. /\ i \in DOMAIN ops /\ j \in DOMAIN ops
        /\ ops[i].kind = "DropColumn" /\ ops[j].kind = "AddColumn" /\ ops[j].table = t
        /\ before[t].fields[b] = ops[j].field
        /\ ~Constrained(before[t].fields[b])
    <2>1. p \in Candidates(ops, before)
      BY DEF Answers, Accepted
    <2> QED  BY <2>1 DEF Candidates, RenameCompatible, Answers
  <1> HIDE DEF i, j
  <1>2. ops[i] \in DiffOps(before, after) /\ ops[j] \in DiffOps(before, after)
    BY <1>1 DEF Differences
  <1>3. Altering(ops[i], before, after) /\ Altering(ops[j], before, after)
    <2>1. ASSUME NEW op \in DiffOps(before, after), op.kind = "DropColumn" \/ op.kind = "AddColumn"
          PROVE  Altering(op, before, after)
      BY <2>1, DiffOpCases DEF CreateTable, DropTable
    <2> QED  BY <2>1, <1>1, <1>2
  <1>4. t \in Both(before, after)
    BY <1>3 DEF Altering
  <1>5. b \in DOMAIN before[t].fields \ DOMAIN after[t].fields
    BY <1>1, <1>3, AltersAdd
  <1>6. c \in DOMAIN after[t].fields \ DOMAIN before[t].fields /\ ops[j].field = after[t].fields[c]
    BY <1>1, <1>3, AltersAdd
  <1> QED  BY <1>1, <1>3, <1>4, <1>5, <1>6 DEF i, j, Answer

(* Pairs that share a column are one. *)
LEMMA AnswerOnce ==
    ASSUME NEW ops, NEW before, NEW after, IsSnapshot(before), IsSnapshot(after),
           Differences(ops, before, after), NEW yes, Answers(ops, before, yes), NEW p \in yes, NEW q \in yes,
           ops[p[1]].table = ops[q[1]].table,
           ops[p[1]].column = ops[q[1]].column \/ ops[p[2]].column = ops[q[2]].column
    PROVE  p = q
  <1>1. p[1] = q[1] \/ p[2] = q[2]
    <2>1. CASE ops[p[1]].column = ops[q[1]].column
      <3>1. /\ p[1] \in DOMAIN ops /\ q[1] \in DOMAIN ops /\ Altering(ops[p[1]], before, after)
            /\ ops[p[1]].kind = ops[q[1]].kind
        <4>1. Answer(p, ops, before, after) /\ Answer(q, ops, before, after)
          BY AnswerIs
        <4> QED  BY <4>1 DEF Answer
      <3> QED  BY <2>1, <3>1, DiffOnce
    <2>2. CASE ops[p[2]].column = ops[q[2]].column
      <3>1. /\ p[2] \in DOMAIN ops /\ q[2] \in DOMAIN ops /\ Altering(ops[p[2]], before, after)
            /\ ops[p[2]].kind = ops[q[2]].kind
            /\ ops[p[2]].table = ops[q[2]].table
        <4>1. Answer(p, ops, before, after) /\ Answer(q, ops, before, after)
          BY AnswerIs
        <4> QED  BY <4>1 DEF Answer
      <3> QED  BY <2>2, <3>1, DiffOnce
    <2> QED  BY <2>1, <2>2
  <1> QED  BY <1>1 DEF Answers, Accepted

LEMMA RenOfIs ==
    ASSUME NEW ops, NEW before, NEW after, IsSnapshot(before), IsSnapshot(after),
           Differences(ops, before, after), NEW yes, Answers(ops, before, yes)
    PROVE  LET ren == RenOf(ops, before, after, yes)
           IN /\ \A p \in yes : LET t == ops[p[1]].table
                                    b == ops[p[1]].column
                                IN b \in DOMAIN ren[t] /\ ren[t][b] = ops[p[2]].column
              /\ \A t \in Both(before, after) : \A b \in DOMAIN ren[t] :
                   \E p \in yes : ops[p[1]].table = t /\ ops[p[1]].column = b
                                  /\ ren[t][b] = ops[p[2]].column
              /\ AreRenamings(before, after, ren)
  <1> DEFINE ren == RenOf(ops, before, after, yes)
  <1>1. ASSUME NEW t \in Both(before, after)
        PROVE  ren[t] = [c \in Renamed(ops, yes, t) |-> NameOf(ops, yes, t, c)]
    BY DEF RenOf
  <1> HIDE DEF ren
  <1>0. ASSUME NEW t \in Both(before, after), NEW q \in yes, ops[q[1]].table = t
        PROVE  ops[q[1]].column \in DOMAIN ren[t]
    <2>1. DOMAIN ren[t] = Renamed(ops, yes, t)
      BY <1>1
    <2> QED  BY <1>0, <2>1 DEF Renamed
  <1>2. ASSUME NEW t \in Both(before, after), NEW b \in DOMAIN ren[t]
        PROVE  \E p \in yes : ops[p[1]].table = t /\ ops[p[1]].column = b /\ ren[t][b] = ops[p[2]].column
    <2>1. b \in Renamed(ops, yes, t)
      BY <1>1
    <2>2. PICK q \in yes : ops[q[1]].table = t /\ ops[q[1]].column = b
      BY <2>1 DEF Renamed
    <2> DEFINE p == CHOOSE p \in yes : ops[p[1]].table = t /\ ops[p[1]].column = b
    <2>3. p \in yes /\ ops[p[1]].table = t /\ ops[p[1]].column = b
      BY <2>2
    <2>4. ren[t][b] = ops[p[2]].column
      <3>1. ren[t][b] = NameOf(ops, yes, t, b)
        BY <1>1, <2>1
      <3> QED  BY <3>1, Zenon DEF NameOf
    <2> QED  BY <2>3, <2>4
  <1>3. ASSUME NEW p \in yes
        PROVE  LET t == ops[p[1]].table
                   b == ops[p[1]].column
               IN b \in DOMAIN ren[t] /\ ren[t][b] = ops[p[2]].column
    <2> DEFINE t == ops[p[1]].table
               b == ops[p[1]].column
    <2>1. t \in Both(before, after)
      <3>1. Answer(p, ops, before, after)
        BY AnswerIs
      <3> QED  BY <3>1 DEF Answer
    <2>2. b \in DOMAIN ren[t]
      BY <1>0, <2>1
    <2>3. PICK q \in yes : ops[q[1]].table = t /\ ops[q[1]].column = b /\ ren[t][b] = ops[q[2]].column
      BY <1>2, <2>1, <2>2
    <2>4. q = p
      BY <2>3, AnswerOnce
    <2> QED  BY <2>2, <2>3, <2>4
  <1>4. ASSUME NEW t \in Both(before, after)
        PROVE  IsRenaming(before[t].fields, after[t].fields, ren[t])
    <2> DEFINE was == before[t].fields
               now == after[t].fields
    <2>1. ASSUME NEW b \in DOMAIN ren[t]
          PROVE  /\ b \in DOMAIN was \ DOMAIN now /\ ren[t][b] \in DOMAIN now \ DOMAIN was
                 /\ was[b] = now[ren[t][b]] /\ ~Constrained(was[b])
      <3>1. PICK p \in yes : ops[p[1]].table = t /\ ops[p[1]].column = b /\ ren[t][b] = ops[p[2]].column
        BY <1>2
      <3> QED
        <4>1. Answer(p, ops, before, after)
          BY AnswerIs
        <4> QED  BY <3>1, <4>1 DEF Answer
    <2>2. ASSUME NEW b \in DOMAIN ren[t], NEW c \in DOMAIN ren[t], ren[t][b] = ren[t][c] PROVE b = c
      <3>1. PICK p \in yes : ops[p[1]].table = t /\ ops[p[1]].column = b /\ ren[t][b] = ops[p[2]].column
        BY <1>2
      <3>2. PICK q \in yes : ops[q[1]].table = t /\ ops[q[1]].column = c /\ ren[t][c] = ops[q[2]].column
        BY <1>2
      <3>3. ops[p[1]].table = ops[q[1]].table /\ ops[p[2]].column = ops[q[2]].column
        BY <2>2, <3>1, <3>2
      <3>4. p = q
        BY <3>3, AnswerOnce
      <3> QED  BY <3>1, <3>2, <3>4
    <2> QED  BY <2>1, <2>2 DEF IsRenaming
  <1> QED  BY <1>2, <1>3, <1>4 DEF AreRenamings, ren

(* What Resolved makes of one operation. *)
KeepOf(ops, yes, i) ==
    IF \E p \in yes : p[1] = i
    THEN LET p == CHOOSE p \in yes : p[1] = i
         IN <<RenameColumn(ops[i].table, ops[i].column, ops[p[2]].column)>>
    ELSE IF \E p \in yes : p[2] = i THEN <<>> ELSE <<ops[i]>>

LEMMA ResolvedIs ==
    ASSUME NEW ops, NEW yes
    PROVE  Resolved(ops, yes) = FlattenSeq([i \in DOMAIN ops |-> KeepOf(ops, yes, i)])
  BY DEF Resolved, KeepOf

LEMMA KeepRename ==
    ASSUME NEW ops, NEW before, NEW yes, Answers(ops, before, yes), NEW p \in yes
    PROVE  KeepOf(ops, yes, p[1]) = <<RenameColumn(ops[p[1]].table, ops[p[1]].column, ops[p[2]].column)>>
  <1> DEFINE i == p[1]
             q == CHOOSE r \in yes : r[1] = i
  <1>1. q \in yes /\ q[1] = i
    OBVIOUS
  <1>2. q = p
    BY <1>1 DEF Answers, Accepted
  <1>3. KeepOf(ops, yes, i) = <<RenameColumn(ops[i].table, ops[i].column, ops[q[2]].column)>>
    BY DEF KeepOf
  <1> HIDE DEF q, i
  <1> QED  BY <1>2, <1>3 DEF i

LEMMA KeepPlain ==
    ASSUME NEW ops, NEW yes, NEW i, \A p \in yes : p[1] # i /\ p[2] # i
    PROVE  KeepOf(ops, yes, i) = <<ops[i]>>
  BY DEF KeepOf

LEMMA KeepNone ==
    ASSUME NEW ops, NEW yes, NEW i, \A p \in yes : p[1] # i, \E p \in yes : p[2] = i
    PROVE  KeepOf(ops, yes, i) = <<>>
  BY DEF KeepOf

(* An operation the renames left alone is one that is needed. *)
LEMMA PlainPlanned ==
    ASSUME NEW ops, NEW before, NEW after, IsSnapshot(before), IsSnapshot(after),
           Differences(ops, before, after), NEW yes, Answers(ops, before, yes),
           NEW i \in DOMAIN ops, \A p \in yes : p[1] # i /\ p[2] # i
    PROVE  ops[i] \in PlanOps(before, after, RenOf(ops, before, after, yes))
  <1> DEFINE ren == RenOf(ops, before, after, yes)
             op == ops[i]
             t == op.table
             k == op.kind
             c == op.column
             was == before[t].fields
             now == after[t].fields
  <1>0. op \in DiffOps(before, after)
    BY DEF Differences
  <1>1. CASE t \in DOMAIN after \ DOMAIN before /\ op = CreateTable(t, after[t].fields)
    BY <1>1 DEF PlanOps
  <1>2. CASE t \in DOMAIN before \ DOMAIN after /\ op = DropTable(t)
    BY <1>2 DEF PlanOps
  <1>3. CASE Altering(op, before, after)
    <2>1. /\ t \in Both(before, after) /\ k \in Kind /\ k # "RenameColumn"
          /\ Needs(was, now, k, c) /\ op = AlterOf(t, now, k, c)
      BY <1>3 DEF Altering
    <2>2. ASSUME k = "DropColumn" PROVE c \notin DOMAIN ren[t]
      <3> SUFFICES ASSUME c \in DOMAIN ren[t] PROVE FALSE
        OBVIOUS
      <3>1. PICK p \in yes : ops[p[1]].table = t /\ ops[p[1]].column = c
        BY <2>1, RenOfIs
      <3>2. p[1] \in DOMAIN ops /\ ops[p[1]].kind = "DropColumn"
        <4>1. Answer(p, ops, before, after)
          BY AnswerIs
        <4> QED  BY <4>1 DEF Answer
      <3>3. p[1] = i
        BY <1>3, <2>2, <3>1, <3>2, DiffOnce
      <3> QED  BY <3>3
    <2>3. ASSUME k = "AddColumn" PROVE ~\E b \in DOMAIN ren[t] : ren[t][b] = c
      <3> SUFFICES ASSUME NEW b \in DOMAIN ren[t], ren[t][b] = c PROVE FALSE
        OBVIOUS
      <3>1. PICK p \in yes : ops[p[1]].table = t /\ ren[t][b] = ops[p[2]].column
        BY <2>1, RenOfIs
      <3>2. p[2] \in DOMAIN ops /\ ops[p[2]].kind = "AddColumn" /\ ops[p[2]].table = ops[p[1]].table
        <4>1. Answer(p, ops, before, after)
          BY AnswerIs
        <4> QED  BY <4>1 DEF Answer
      <3>3. p[2] = i
        BY <1>3, <2>3, <3>1, <3>2, DiffOnce
      <3> QED  BY <3>3
    <2> HIDE DEF ren, was, now, t, c, k
    <2>4. Steps(was, now, ren[t], k, c)
      BY <2>1, <2>2, <2>3 DEF Needs, Steps
    <2>5. op = OpOf(t, now, ren[t], k, c)
      BY <2>1 DEF OpOf
    <2>6. IsRenaming(was, now, ren[t])
      BY <2>1, RenOfIs DEF AreRenamings, ren, was, now
    <2>7. OpOf(t, now, ren[t], k, c) \in PlanOps(before, after, ren)
      BY <2>1, <2>4, <2>6, AlterationPlanned DEF was, now
    <2> QED  BY <2>5, <2>7 DEF ren
  <1> QED  BY <1>0, <1>1, <1>2, <1>3, DiffOpCases

LEMMA RenamePlanned ==
    ASSUME NEW ops, NEW before, NEW after, IsSnapshot(before), IsSnapshot(after),
           Differences(ops, before, after), NEW yes, Answers(ops, before, yes), NEW p \in yes
    PROVE  RenameColumn(ops[p[1]].table, ops[p[1]].column, ops[p[2]].column)
             \in PlanOps(before, after, RenOf(ops, before, after, yes))
  <1> DEFINE ren == RenOf(ops, before, after, yes)
             t == ops[p[1]].table
             b == ops[p[1]].column
             was == before[t].fields
             now == after[t].fields
  <1>1. t \in Both(before, after)
    <2>1. Answer(p, ops, before, after)
      BY AnswerIs
    <2> QED  BY <2>1 DEF Answer
  <1>2. b \in DOMAIN ren[t] /\ ren[t][b] = ops[p[2]].column
    BY RenOfIs
  <1>3. IsRenaming(was, now, ren[t])
    BY <1>1, RenOfIs DEF AreRenamings
  <1> HIDE DEF ren, t, b, was, now
  <1>4. Steps(was, now, ren[t], "RenameColumn", b)
    BY <1>2 DEF Steps
  <1>5. OpOf(t, now, ren[t], "RenameColumn", b) \in PlanOps(before, after, ren)
    BY <1>1, <1>3, <1>4, AlterationPlanned DEF was, now
  <1>6. OpOf(t, now, ren[t], "RenameColumn", b) = RenameColumn(t, b, ops[p[2]].column)
    BY <1>2, OpOfKinds
  <1> QED  BY <1>5, <1>6 DEF ren, t, b

(* Which operation of Diff one of Resolved stands for. *)
Stands(r, ops, yes, i) ==
    \/ r = ops[i] /\ \A p \in yes : p[1] # i /\ p[2] # i
    \/ \E p \in yes : p[1] = i /\ r = RenameColumn(ops[i].table, ops[i].column, ops[p[2]].column)

LEMMA KeepStands ==
    ASSUME NEW ops, NEW before, NEW after, Differences(ops, before, after),
           NEW yes, Answers(ops, before, yes), NEW i \in DOMAIN ops
    PROVE  /\ \A r : KeepOf(ops, yes, i) = <<r>> <=> Stands(r, ops, yes, i)
           /\ KeepOf(ops, yes, i) = <<>> \/ \E r : KeepOf(ops, yes, i) = <<r>>
  <1>1. CASE \E p \in yes : p[1] = i
    <2>1. PICK p \in yes : p[1] = i
      BY <1>1
    <2>2. \A q \in yes : q[1] = i => q = p
      BY <2>1 DEF Answers, Accepted
    <2> DEFINE o == RenameColumn(ops[i].table, ops[i].column, ops[p[2]].column)
    <2>3. KeepOf(ops, yes, i) = <<o>>
      BY <2>1, KeepRename
    <2>4. \A r : Stands(r, ops, yes, i) <=> r = o
      BY <2>1, <2>2 DEF Stands
    <2> HIDE DEF o
    <2>5. \A r : <<o>> = <<r>> <=> r = o
      OBVIOUS
    <2> QED  BY <2>3, <2>4, <2>5
  <1>2. CASE (\A p \in yes : p[1] # i) /\ \E p \in yes : p[2] = i
    <2>1. KeepOf(ops, yes, i) = <<>>
      BY <1>2, KeepNone
    <2>2. \A r : ~Stands(r, ops, yes, i)
      BY <1>2 DEF Stands
    <2>3. \A r : <<>> # <<r>>
      OBVIOUS
    <2> QED  BY <2>1, <2>2, <2>3
  <1>3. CASE \A p \in yes : p[1] # i /\ p[2] # i
    <2>1. KeepOf(ops, yes, i) = <<ops[i]>>
      BY <1>3, KeepPlain
    <2>2. \A r : Stands(r, ops, yes, i) <=> r = ops[i]
      BY <1>3 DEF Stands
    <2>3. \A r : <<ops[i]>> = <<r>> <=> r = ops[i]
      OBVIOUS
    <2> QED  BY <2>1, <2>2, <2>3
  <1> QED  BY <1>1, <1>2, <1>3

LEMMA StandsPlanned ==
    ASSUME NEW ops, NEW before, NEW after, IsSnapshot(before), IsSnapshot(after),
           Differences(ops, before, after), NEW yes, Answers(ops, before, yes),
           NEW i \in DOMAIN ops, NEW r, Stands(r, ops, yes, i)
    PROVE  r \in PlanOps(before, after, RenOf(ops, before, after, yes))
  BY PlainPlanned, RenamePlanned DEF Stands

(* Every planned operation stands for one of Diff. *)
LEMMA PlannedStands ==
    ASSUME NEW ops, NEW before, NEW after, IsSnapshot(before), IsSnapshot(after),
           Differences(ops, before, after), NEW yes, Answers(ops, before, yes),
           NEW op \in PlanOps(before, after, RenOf(ops, before, after, yes))
    PROVE  \E i \in DOMAIN ops : Stands(op, ops, yes, i)
  <1> DEFINE ren == RenOf(ops, before, after, yes)
             t == op.table
             k == op.kind
             c == op.column
             was == before[t].fields
             now == after[t].fields
  <1>0. ASSUME NEW i \in DOMAIN ops, ops[i] = op, \A p \in yes : p[1] # i /\ p[2] # i
        PROVE  \E j \in DOMAIN ops : Stands(op, ops, yes, j)
    BY <1>0 DEF Stands
  <1>1. CASE t \in DOMAIN after \ DOMAIN before /\ op = CreateTable(t, after[t].fields)
    <2>1. op \in DiffOps(before, after) /\ k = "CreateTable"
      BY <1>1 DEF DiffOps, CreateTable
    <2>2. PICK i \in DOMAIN ops : ops[i] = op
      BY <2>1 DEF Differences
    <2>3. \A p \in yes : p[1] # i /\ p[2] # i
      <3>1. \A p \in yes : Answer(p, ops, before, after)
        BY AnswerIs
      <3> QED  BY <2>1, <2>2, <3>1 DEF Answer
    <2> QED  BY <2>2, <2>3, <1>0
  <1>2. CASE t \in DOMAIN before \ DOMAIN after /\ op = DropTable(t)
    <2>1. op \in DiffOps(before, after) /\ k = "DropTable"
      BY <1>2 DEF DiffOps, DropTable
    <2>2. PICK i \in DOMAIN ops : ops[i] = op
      BY <2>1 DEF Differences
    <2>3. \A p \in yes : p[1] # i /\ p[2] # i
      <3>1. \A p \in yes : Answer(p, ops, before, after)
        BY AnswerIs
      <3> QED  BY <2>1, <2>2, <3>1 DEF Answer
    <2> QED  BY <2>2, <2>3, <1>0
  <1>3. CASE Alteration(op, before, after, ren)
    <2>1. /\ t \in Both(before, after) /\ k \in Kind
          /\ Steps(was, now, ren[t], k, c) /\ op = OpOf(t, now, ren[t], k, c)
      BY <1>3 DEF Alteration
    <2>2. CASE k = "RenameColumn"
      <3>1. c \in DOMAIN ren[t]
        BY <2>1, <2>2, StepsAre
      <3>2. PICK p \in yes : ops[p[1]].table = t /\ ops[p[1]].column = c /\ ren[t][c] = ops[p[2]].column
        BY <2>1, <3>1, RenOfIs
      <3>3. op = RenameColumn(t, c, ren[t][c])
        BY <2>1, <2>2 DEF OpOf
      <3>4. p[1] \in DOMAIN ops
        <4>1. Answer(p, ops, before, after)
          BY AnswerIs
        <4> QED  BY <4>1 DEF Answer
      <3> HIDE DEF t, c
      <3>5. Stands(op, ops, yes, p[1])
        BY <3>2, <3>3 DEF Stands
      <3> QED  BY <3>4, <3>5
    <2>3. CASE k # "RenameColumn"
      <3>1. op = AlterOf(t, now, k, c) /\ Needs(was, now, k, c)
        BY <2>1, <2>3 DEF OpOf, Steps, Needs
      <3>2. op \in DiffOps(before, after)
        BY <2>1, <2>3, <3>1, AlteringIn
      <3>3. PICK i \in DOMAIN ops : ops[i] = op
        BY <3>2 DEF Differences
      <3>4. ASSUME NEW p \in yes PROVE p[1] # i
        <4> SUFFICES ASSUME p[1] = i PROVE FALSE
          OBVIOUS
        <4>1. k = "DropColumn"
          <5>1. Answer(p, ops, before, after)
            BY AnswerIs
          <5> QED  BY <3>3, <5>1 DEF Answer
        <4>2. c \in DOMAIN ren[t]
          BY <3>3, RenOfIs
        <4> QED  BY <2>1, <4>1, <4>2, StepsAre
      <3>5. ASSUME NEW p \in yes PROVE p[2] # i
        <4> SUFFICES ASSUME p[2] = i PROVE FALSE
          OBVIOUS
        <4>1. k = "AddColumn" /\ ops[p[1]].table = t
          <5>1. Answer(p, ops, before, after)
            BY AnswerIs
          <5> QED  BY <3>3, <5>1 DEF Answer
        <4>2. ops[p[1]].column \in DOMAIN ren[t] /\ ren[t][ops[p[1]].column] = c
          BY <3>3, <4>1, RenOfIs
        <4> QED  BY <2>1, <4>1, <4>2, StepsAre
      <3> QED  BY <3>3, <3>4, <3>5, <1>0
    <2> QED  BY <2>2, <2>3
  <1> QED  BY <1>1, <1>2, <1>3, PlanOpCases

LEMMA StandsAs ==
    ASSUME NEW ops, NEW before, NEW after, Differences(ops, before, after),
           NEW yes, Answers(ops, before, yes), NEW i \in DOMAIN ops, NEW r, Stands(r, ops, yes, i)
    PROVE  /\ r.table = ops[i].table
           /\ Altering(ops[i], before, after) =>
                /\ r.column = ops[i].column
                /\ Rank(r.kind) = Ranks[ops[i].kind]
                /\ r.kind # ops[i].kind => r.kind = "RenameColumn" /\ ops[i].kind = "DropColumn"
                /\ ops[i].kind # "RenameColumn"
  <1>1. CASE r = ops[i]
    <2>1. Altering(ops[i], before, after) => r.kind # "RenameColumn"
      BY <1>1 DEF Altering
    <2> QED  BY <1>1, <2>1 DEF Rank
  <1>2. CASE \E p \in yes : p[1] = i /\ r = RenameColumn(ops[i].table, ops[i].column, ops[p[2]].column)
    <2>1. PICK p \in yes : p[1] = i /\ r = RenameColumn(ops[i].table, ops[i].column, ops[p[2]].column)
      BY <1>2
    <2>2. r.table = ops[i].table /\ r.column = ops[i].column /\ r.kind = "RenameColumn"
      BY <2>1 DEF RenameColumn
    <2>3. ops[i].kind = "DropColumn"
      <3>1. Answer(p, ops, before, after)
        BY AnswerIs
      <3> QED  BY <2>1, <3>1 DEF Answer
    <2>4. Rank("RenameColumn") = 3 /\ Ranks["DropColumn"] = 3
      BY DEF Rank, Ranks
    <2> QED  BY <2>2, <2>3, <2>4
  <1> QED  BY <1>1, <1>2 DEF Stands

LEMMA StandsFollow ==
    ASSUME NEW ops, NEW before, NEW after, IsSnapshot(before), IsSnapshot(after),
           Differences(ops, before, after), NEW yes, Answers(ops, before, yes),
           NEW a \in DOMAIN ops, NEW c \in DOMAIN ops, a < c,
           NEW o, NEW r, Stands(o, ops, yes, a), Stands(r, ops, yes, c), o.table = r.table
    PROVE  o.table \in Both(before, after) /\ Follows(o, r)
  <1>1. ops[a].table = ops[c].table /\ o.table = ops[a].table
    BY StandsAs
  <1>2. o.table \in Both(before, after) /\ Precedes(ops[a], ops[c])
    BY <1>1 DEF Differences, Both
  <1>3. Altering(ops[a], before, after) /\ Altering(ops[c], before, after)
    <2>1. ops[a] \in DiffOps(before, after) /\ ops[c] \in DiffOps(before, after)
      BY DEF Differences
    <2> QED  BY <1>1, <1>2, <2>1, DiffOpCases DEF Both
  <1>4. /\ o.column = ops[a].column /\ Rank(o.kind) = Ranks[ops[a].kind] /\ ops[a].kind # "RenameColumn"
        /\ o.kind # ops[a].kind => o.kind = "RenameColumn" /\ ops[a].kind = "DropColumn"
    BY <1>3, StandsAs
  <1>5. /\ r.column = ops[c].column /\ Rank(r.kind) = Ranks[ops[c].kind] /\ ops[c].kind # "RenameColumn"
        /\ r.kind # ops[c].kind => r.kind = "RenameColumn" /\ ops[c].kind = "DropColumn"
    BY <1>3, StandsAs
  <1>6. Ranks[ops[a].kind] \in Nat /\ Ranks[ops[c].kind] \in Nat
    BY <1>3, KindsRanked DEF Altering
  <1>7. ops[a].column \in Nat /\ ops[c].column \in Nat
    <2>1. ASSUME NEW op, Altering(op, before, after) PROVE op.column \in Nat
      <3>1. op.column \in DOMAIN before[op.table].fields \cup DOMAIN after[op.table].fields
        BY <2>1 DEF Altering, Needs
      <3>2. DOMAIN before[op.table].fields \subseteq Nat /\ DOMAIN after[op.table].fields \subseteq Nat
        BY <2>1 DEF Altering, Both, IsSnapshot, IsTable, IsColumns
      <3> QED  BY <3>1, <3>2
    <2> QED  BY <1>3, <2>1
  <1>8. Rank(o.kind) =< Rank(r.kind)
    BY <1>2, <1>4, <1>5, <1>6 DEF Precedes
  <1>9. o.kind = r.kind => ops[a].kind = ops[c].kind
    BY <1>4, <1>5
  <1>10. ops[a].kind = ops[c].kind => ops[a].column < ops[c].column
    BY <1>2, <1>6 DEF Precedes
  <1>11. o.kind = r.kind => o.column # r.column
    BY <1>4, <1>5, <1>7, <1>9, <1>10
  <1> QED  BY <1>2, <1>8, <1>11 DEF Follows

(* Resolved plans every table. *)
LEMMA ResolvedPlanned ==
    ASSUME NEW ops, NEW before, NEW after, IsSnapshot(before), IsSnapshot(after),
           Differences(ops, before, after), NEW yes, Answers(ops, before, yes)
    PROVE  Planned(Resolved(ops, yes), before, after, RenOf(ops, before, after, yes),
                   DOMAIN before \cup DOMAIN after)
  <1> DEFINE X == PlanOps(before, after, RenOf(ops, before, after, yes))
             n == Len(ops)
             K == [i \in 1..n |-> KeepOf(ops, yes, i)]
             s == Resolved(ops, yes)
  <1>0. n \in Nat /\ DOMAIN ops = 1..n
    BY DEF Differences
  <1>1. s = FlattenSeq(K)
    BY <1>0, ResolvedIs
  <1>2. \A i \in 1..n : K[i] = KeepOf(ops, yes, i)
    OBVIOUS
  <1>3. K = [i \in 1..n |-> K[i]]
    OBVIOUS
  <1> HIDE DEF K, n, s
  <1>4. \A i \in 1..n : \A r : K[i] = <<r>> <=> Stands(r, ops, yes, i)
    BY <1>0, <1>2, KeepStands
  <1>5. ASSUME NEW i \in 1..n PROVE K[i] = <<>> \/ \E x \in X : K[i] = <<x>>
    <2>1. K[i] = <<>> \/ \E r : K[i] = <<r>>
      BY <1>0, <1>2, KeepStands
    <2>2. ASSUME NEW r, K[i] = <<r>> PROVE r \in X
      BY <1>0, <1>4, <2>2, StandsPlanned
    <2> HIDE DEF X
    <2> QED  BY <2>1, <2>2
  <1>6. s \in Seq(X) /\ Picked(s, K, n)
    <2> HIDE DEF X
    <2> QED  BY <1>0, <1>1, <1>3, <1>5, FlattenPicks
  <1>7. ASSUME NEW x \in DOMAIN s PROVE s[x].table \in DOMAIN before \cup DOMAIN after
    <2>1. s[x] \in X
      <3> HIDE DEF X
      <3> QED  BY <1>6
    <2> QED  BY <2>1, PlanOpCases DEF Alteration, Both
  <1>8. ASSUME NEW op \in X PROVE \E x \in DOMAIN s : s[x] = op
    <2>1. PICK i \in DOMAIN ops : Stands(op, ops, yes, i)
      BY PlannedStands
    <2>2. K[i] = <<op>> /\ i \in 1..n
      BY <1>0, <1>4, <2>1
    <2> QED  BY <1>6, <2>2 DEF Picked
  <1>9. ASSUME NEW x \in DOMAIN s, NEW y \in DOMAIN s, x < y, s[x].table = s[y].table
        PROVE  s[x].table \in Both(before, after) /\ Follows(s[x], s[y])
    <2>1. PICK a \in 1..n, c \in 1..n : a < c /\ K[a] = <<s[x]>> /\ K[c] = <<s[y]>>
      BY <1>6, <1>9 DEF Picked
    <2>2. Stands(s[x], ops, yes, a) /\ Stands(s[y], ops, yes, c)
      BY <1>4, <2>1
    <2> QED  BY <1>0, <1>9, <2>1, <2>2, StandsFollow
  <1> QED  BY <1>6, <1>7, <1>8, <1>9 DEF Planned, s

(* A module's part of it plans the tables it owns. *)
LEMMA ByModulePlanned ==
    ASSUME NEW ops, NEW before, NEW after, NEW ren, NEW T, Planned(ops, before, after, ren, T), NEW m
    PROVE  Planned(ByModule(ops, before, m), before, after, ren, {t \in T : OwnerOf(t, before) = m})
  <1> DEFINE X == PlanOps(before, after, ren)
             n == Len(ops)
             K == [i \in 1..n |-> IF OwnerOf(ops[i].table, before) = m THEN <<ops[i]>> ELSE <<>>]
             s == ByModule(ops, before, m)
             U == {t \in T : OwnerOf(t, before) = m}
  <1>0. n \in Nat /\ DOMAIN ops = 1..n /\ \A i \in 1..n : ops[i] \in X /\ ops[i].table \in T
    BY DEF Planned
  <1>1. s = FlattenSeq(K)
    BY <1>0 DEF ByModule
  <1>2. \A i \in 1..n : K[i] = IF OwnerOf(ops[i].table, before) = m THEN <<ops[i]>> ELSE <<>>
    OBVIOUS
  <1>3. K = [i \in 1..n |-> K[i]]
    OBVIOUS
  <1> HIDE DEF K, n, s, X
  <1>4. ASSUME NEW i \in 1..n, NEW r
        PROVE  K[i] = <<r>> <=> r = ops[i] /\ OwnerOf(ops[i].table, before) = m
    <2>1. <<ops[i]>> = <<r>> <=> r = ops[i]
      OBVIOUS
    <2>2. <<>> # <<r>>
      OBVIOUS
    <2> QED  BY <1>2, <2>1, <2>2
  <1>5. \A i \in 1..n : K[i] = <<>> \/ \E x \in X : K[i] = <<x>>
    BY <1>0, <1>2
  <1>6. s \in Seq(X) /\ Picked(s, K, n)
    BY <1>0, <1>1, <1>3, <1>5, FlattenPicks
  <1>7. ASSUME NEW x \in DOMAIN s PROVE s[x].table \in U
    <2>1. PICK a \in 1..n : K[a] = <<s[x]>>
      BY <1>6 DEF Picked
    <2> QED  BY <2>1, <1>0, <1>4
  <1>8. ASSUME NEW op \in X, op.table \in U PROVE \E x \in DOMAIN s : s[x] = op
    <2>1. PICK i \in DOMAIN ops : ops[i] = op
      BY <1>8 DEF Planned, X
    <2>2. K[i] = <<op>> /\ i \in 1..n
      BY <1>0, <1>4, <1>8, <2>1
    <2> QED  BY <1>6, <2>2 DEF Picked
  <1>9. ASSUME NEW x \in DOMAIN s, NEW y \in DOMAIN s, x < y, s[x].table = s[y].table
        PROVE  s[x].table \in Both(before, after) /\ Follows(s[x], s[y])
    <2>1. PICK a \in 1..n, c \in 1..n : a < c /\ K[a] = <<s[x]>> /\ K[c] = <<s[y]>>
      BY <1>6, <1>9 DEF Picked
    <2>2. s[x] = ops[a] /\ s[y] = ops[c] /\ a \in DOMAIN ops /\ c \in DOMAIN ops
      BY <1>0, <1>4, <2>1
    <2> QED  BY <1>9, <2>1, <2>2 DEF Planned
  <1> QED  BY <1>6, <1>7, <1>8, <1>9 DEF Planned, X, s

(***************************************************************************)
(* The chain: G the generated entries, fs the files, sch the schema each   *)
(* state file records.                                                     *)
(***************************************************************************)
IsSeq(s) == s \in Seq(ToSet(s))

VersionsOf(G) == {r[2].version : r \in G}
ChainOf(G) == Sorted(VersionsOf(G))
BaseOf(r) == Base(r[1], r[2])
EntryAt(G, v) == CHOOSE q \in G : q[2].version = v
BaseAt(G, i) == BaseOf(EntryAt(G, ChainOf(G)[i]))

(* The entries have versions of their own. *)
IsChain(G) ==
    /\ IsFiniteSet(G)
    /\ \A r \in G : r[2].version \in Nat
    /\ \A r, q \in G : r[2].version = q[2].version => r = q

Kept(G, fs, sch) == \A r \in G : BaseOf(r) \in DOMAIN fs /\ BaseOf(r) \in DOMAIN sch

(* A migration takes schema S to schema R and back, but for what the        *)
(* database refuses.                                                        *)
Carries(d, S, ops, R) == ExecAll(d, Holds(S), ops) = Holds(R)

Turns(d, S, f, R) ==
    /\ Carries(d, S, f.up, R) \/ NoWayOn(S, f.up)
    /\ \/ Carries(d, R, f.down, S)
       \/ d = "sqlite" /\ AddsIndexed(f.up)
       \/ NoWayBack(S, f.up)

SchemaOf(G, sch, k) == IF k = 0 THEN Empty ELSE sch[BaseAt(G, k)]

Turning(d, G, fs, sch) ==
    \A k \in DOMAIN ChainOf(G) :
        Turns(d, SchemaOf(G, sch, k - 1), fs[BaseAt(G, k)], SchemaOf(G, sch, k))

LEMMA ChainIs ==
    ASSUME NEW G, IsChain(G)
    PROVE  /\ IsFiniteSet(VersionsOf(G)) /\ VersionsOf(G) \in SUBSET Nat
           /\ ChainOf(G) \in Seq(Nat) /\ ToSet(ChainOf(G)) = VersionsOf(G)
           /\ \A i, j \in DOMAIN ChainOf(G) : i < j => ChainOf(G)[i] < ChainOf(G)[j]
           /\ \A i \in DOMAIN ChainOf(G) :
                EntryAt(G, ChainOf(G)[i]) \in G /\ EntryAt(G, ChainOf(G)[i])[2].version = ChainOf(G)[i]
  <1>1. IsFiniteSet(VersionsOf(G))
    <2> DEFINE V == VersionsOf(G)
               f == [r \in G |-> r[2].version]
    <2>1. f \in Surjection(G, V)
      BY DEF Surjection, VersionsOf
    <2> HIDE DEF f, V
    <2>2. IsFiniteSet(G)
      BY DEF IsChain
    <2>3. IsFiniteSet(V)
      BY <2>1, <2>2, FS_Surjection
    <2> QED  BY <2>3 DEF V
  <1>2. VersionsOf(G) \in SUBSET Nat
    BY DEF IsChain, VersionsOf
  <1>3. Ascends(ChainOf(G), VersionsOf(G))
    BY <1>1, <1>2, SortedAscends DEF ChainOf
  <1>4. \A i \in DOMAIN ChainOf(G) : ChainOf(G)[i] \in VersionsOf(G)
    BY <1>3 DEF Ascends, ToSet
  <1>5. ASSUME NEW v \in VersionsOf(G) PROVE EntryAt(G, v) \in G /\ EntryAt(G, v)[2].version = v
    <2>1. \E q \in G : q[2].version = v
      BY DEF VersionsOf
    <2> QED  BY <2>1 DEF EntryAt
  <1> QED  BY <1>1, <1>2, <1>3, <1>4, <1>5 DEF Ascends

LEMMA EntryIs ==
    ASSUME NEW G, IsChain(G), NEW r \in G
    PROVE  EntryAt(G, r[2].version) = r
  <1>1. EntryAt(G, r[2].version) \in G /\ EntryAt(G, r[2].version)[2].version = r[2].version
    BY DEF EntryAt
  <1> QED  BY <1>1 DEF IsChain

(* Other files may come and go. *)
LEMMA ChainStable ==
    ASSUME NEW d, NEW G, IsChain(G), NEW fs, NEW sch, NEW fs2, NEW sch2,
           Kept(G, fs, sch), Turning(d, G, fs, sch),
           \A r \in G : /\ BaseOf(r) \in DOMAIN fs2 /\ fs2[BaseOf(r)] = fs[BaseOf(r)]
                        /\ BaseOf(r) \in DOMAIN sch2 /\ sch2[BaseOf(r)] = sch[BaseOf(r)]
    PROVE  Kept(G, fs2, sch2) /\ Turning(d, G, fs2, sch2)
  <1>1. Kept(G, fs2, sch2)
    BY DEF Kept
  <1>2. ASSUME NEW i \in DOMAIN ChainOf(G)
        PROVE  fs2[BaseAt(G, i)] = fs[BaseAt(G, i)] /\ sch2[BaseAt(G, i)] = sch[BaseAt(G, i)]
    <2>1. EntryAt(G, ChainOf(G)[i]) \in G
      BY ChainIs
    <2> QED  BY <2>1 DEF BaseAt
  <1>3. ASSUME NEW k \in DOMAIN ChainOf(G)
        PROVE  /\ SchemaOf(G, sch2, k) = SchemaOf(G, sch, k)
               /\ SchemaOf(G, sch2, k - 1) = SchemaOf(G, sch, k - 1)
    <2>1. ChainOf(G) \in Seq(Nat)
      BY ChainIs
    <2>2. k - 1 = 0 \/ k - 1 \in DOMAIN ChainOf(G)
      BY <2>1
    <2> QED  BY <1>2, <2>2 DEF SchemaOf
  <1>4. Turning(d, G, fs2, sch2)
    BY <1>2, <1>3 DEF Turning
  <1> QED  BY <1>1, <1>4

(* A new entry, above all, comes last. *)
LEMMA ChainGrows ==
    ASSUME NEW G, IsChain(G), NEW m, NEW e, e.version \in Nat,
           \A r \in G : r[2].version < e.version, NEW H, H = G \cup {<<m, e>>}
    PROVE  /\ IsChain(H)
           /\ ChainOf(H) = Append(ChainOf(G), e.version)
           /\ \A i \in DOMAIN ChainOf(G) : BaseAt(H, i) = BaseAt(G, i)
           /\ BaseAt(H, Len(ChainOf(G)) + 1) = Base(m, e)
  <1> DEFINE x == <<m, e>>
             v == e.version
             n == Len(ChainOf(G))
  <1>0. x[1] = m /\ x[2] = e /\ x \in H /\ H = G \cup {x}
    OBVIOUS
  <1> HIDE DEF x
  <1>1. IsChain(H)
    <2>1. IsFiniteSet(H)
      BY <1>0, FS_AddElement DEF IsChain
    <2>2. \A r \in H : r[2].version \in Nat
      BY <1>0 DEF IsChain
    <2>3. ASSUME NEW r \in H, NEW q \in H, r[2].version = q[2].version PROVE r = q
      <3>1. CASE r \in G /\ q \in G
        BY <2>3, <3>1 DEF IsChain
      <3>2. CASE r = x /\ q \in G
        BY <2>2, <2>3, <3>2, <1>0
      <3>3. CASE r \in G /\ q = x
        BY <2>2, <2>3, <3>3, <1>0
      <3>4. CASE r = x /\ q = x
        BY <3>4
      <3> QED  BY <1>0, <3>1, <3>2, <3>3, <3>4
    <2> QED  BY <2>1, <2>2, <2>3 DEF IsChain
  <1>2. VersionsOf(H) = VersionsOf(G) \cup {v}
    BY <1>0 DEF VersionsOf
  <1>3. ChainOf(H) = Append(ChainOf(G), v)
    <2>1. IsFiniteSet(VersionsOf(G)) /\ VersionsOf(G) \in SUBSET Nat
      BY ChainIs
    <2>2. \A w \in VersionsOf(G) : w < v
      BY DEF VersionsOf
    <2>3. Sorted(VersionsOf(G) \cup {v}) = Append(Sorted(VersionsOf(G)), v)
      BY <2>1, <2>2, SortedAppend
    <2> QED  BY <1>2, <2>3 DEF ChainOf
  <1>4. ChainOf(G) \in Seq(Nat) /\ n \in Nat /\ DOMAIN ChainOf(G) = 1..n
    <2>1. ChainOf(G) \in Seq(Nat)
      BY ChainIs
    <2> QED  BY <2>1
  <1>5. ASSUME NEW i \in DOMAIN ChainOf(G) PROVE BaseAt(H, i) = BaseAt(G, i)
    <2> DEFINE r == EntryAt(G, ChainOf(G)[i])
    <2>1. r \in G /\ r[2].version = ChainOf(G)[i]
      BY ChainIs
    <2>0. \A s \in Seq(Nat) : \A j \in DOMAIN s : Append(s, v)[j] = s[j]
      BY <1>0, AppendProperties
    <2>2. ChainOf(H)[i] = ChainOf(G)[i]
      <3> HIDE DEF n, v
      <3> QED  BY <1>3, <1>4, <2>0
    <2> HIDE DEF r
    <2>3. r \in H
      BY <2>1
    <2>4. EntryAt(H, r[2].version) = r
      BY <1>1, <2>3, EntryIs
    <2> QED  BY <2>1, <2>2, <2>4 DEF BaseAt, r
  <1>6. BaseAt(H, n + 1) = Base(m, e)
    <2>1. ChainOf(H)[n + 1] = v
      BY <1>3, <1>4
    <2>2. EntryAt(H, x[2].version) = x
      BY <1>0, <1>1, EntryIs
    <2>3. x[2].version = v
      BY <1>0
    <2> QED  BY <1>0, <2>1, <2>2, <2>3 DEF BaseAt, BaseOf
  <1> QED  BY <1>1, <1>3, <1>5, <1>6 DEF x

(***************************************************************************)
(* The working tree: man the manifests, fs and sts the files.              *)
(***************************************************************************)
ListedIn(man) == UNION {{<<m, e>> : e \in ToSet(man[m])} : m \in Modules}
GenOf(man) == {r \in ListedIn(man) : r[2].state}

Parsed(st) ==
    IF st.v # 0 THEN st.models
    ELSE [t \in DOMAIN st.models |->
            [st.models[t] EXCEPT !.fields = [c \in DOMAIN @ |->
               [@[c] EXCEPT !.nullable = ~st.models[t].fields[c].primaryKey]]]]
Schemas(sts) == [b \in DOMAIN sts |-> Schema(Parsed(sts[b]))]

Newest(G) == CHOOSE r \in G : \A q \in G : q[2].version =< r[2].version
Replay(man, sts) == IF GenOf(man) = {} THEN Empty ELSE Parsed(sts[BaseOf(Newest(GenOf(man)))])

Twice(man) ==
    \E m, n \in Modules : \E i \in DOMAIN man[m], j \in DOMAIN man[n] :
        <<m, i>> # <<n, j>> /\ man[m][i].version = man[n][j].version
Legible(man, sts) ==
    \A r \in GenOf(man) : BaseOf(r) \in DOMAIN sts /\ sts[BaseOf(r)].v \in {0, 1}

(* The manifests list entries, and no version runs away from the clocks. *)
Near(v, n) == \E c \in Clocks \cup {1} : v =< c + n

IsEntry(e) == e.version \in Nat /\ e.state \in BOOLEAN /\ (e.state => e.slug # <<>>)

Books(man) ==
    /\ man = [m \in Modules |-> man[m]]
    /\ \A m \in Modules : IsSeq(man[m])
    /\ IsFiniteSet(ListedIn(man))
    /\ \A r \in ListedIn(man) : IsEntry(r[2]) /\ Near(r[2].version, Cardinality(ListedIn(man)))

(* The chain of the generated ones builds, undoes and records snapshots. *)
Sound(d, man, fs, sts) ==
    /\ IsChain(GenOf(man))
    /\ Kept(GenOf(man), fs, Schemas(sts))
    /\ Turning(d, GenOf(man), fs, Schemas(sts))
    /\ \A r \in GenOf(man) : IsSnapshot(Parsed(sts[BaseOf(r)]))

(***************************************************************************)
(* A run, r: the schema is a blend of the recorded one and the declared    *)
(* one, dec, by what it has still to do.                                   *)
(***************************************************************************)
OwnerIn(t, before, after) == IF t \in DOMAIN after THEN after[t].module ELSE before[t].module
Owned(before, after, M) ==
    {t \in DOMAIN before \cup DOMAIN after : OwnerIn(t, before, after) \in M}

Blend(before, after, U) ==
    [t \in (DOMAIN before \cap U) \cup {x \in DOMAIN after : x \notin U} |->
       IF t \in U THEN before[t].fields ELSE after[t].fields]

RunSteps == {"module", "go", "state", "manifest", "all"}

(* The modules not yet in the cumulative state, and not yet on the books. *)
Unmerged(r) == ToSet(IF r.pc = "module" THEN r.todo ELSE Tail(r.todo))
Unlisted(r) == ToSet(IF r.pc = "all" THEN Tail(r.todo) ELSE r.todo)

OpsIn(r) == r.ops[Head(r.todo)]
EntryIn(r) == Entry(r.version, [i \in DOMAIN OpsIn(r) |-> Describe(OpsIn(r)[i])], TRUE)
BaseIn(r) == Base(Head(r.todo), EntryIn(r))
DownIn(r) == [i \in DOMAIN OpsIn(r) |-> Invert(OpsIn(r)[Len(OpsIn(r)) + 1 - i], r.before)]

Shaped(r) ==
    /\ DOMAIN r = {"pc", "out", "todo", "ops", "before", "cumulative", "version", "loaded"}
    /\ r.pc \in RunSteps /\ r.out = "none"
    /\ r.todo \in Seq(Nat) /\ r.todo # <<>>
    /\ \A i, j \in DOMAIN r.todo : i < j => r.todo[i] < r.todo[j]
    /\ ToSet(r.todo) \subseteq DOMAIN r.ops
    /\ DOMAIN r.ops \subseteq Modules
    /\ \A m \in DOMAIN r.ops : r.ops[m] # <<>>
    /\ IsSnapshot(r.before) /\ IsSnapshot(r.cumulative)

Plans(r, dec) ==
    \E ren : /\ AreRenamings(r.before, dec, ren)
             /\ \A m \in DOMAIN r.ops :
                  Planned(r.ops[m], r.before, dec, ren, Owned(r.before, dec, {m}))

Blends(r, dec, man, sts) ==
    /\ Schema(r.cumulative) = Blend(r.before, dec, Owned(r.before, dec, Unmerged(r)))
    /\ Schema(Replay(man, sts)) = Blend(r.before, dec, Owned(r.before, dec, Unlisted(r)))

Counts(r, man) ==
    LET n == Cardinality(ListedIn(man))
        k == IF r.pc = "all" THEN 0 ELSE 1
    IN /\ r.version \in Nat
       /\ \A x \in ListedIn(man) : x[2].version + k =< r.version
       /\ Near(r.version, n + k)
       /\ n + Len(r.todo) + k =< MaxEntries + Cardinality(Modules)

Writes(r, d, fs, sts) ==
    /\ r.pc \in {"go", "state", "manifest"} => \A i \in DOMAIN OpsIn(r) : Renders(d, OpsIn(r)[i])
    /\ r.pc \in {"state", "manifest"} =>
         BaseIn(r) \in DOMAIN fs /\ fs[BaseIn(r)] = [up |-> OpsIn(r), down |-> DownIn(r)]
    /\ r.pc = "manifest" =>
         BaseIn(r) \in DOMAIN sts /\ sts[BaseIn(r)] = [v |-> 1, models |-> r.cumulative]

Runs(r, d, dec, man, fs, sts) ==
    /\ Shaped(r)
    /\ Plans(r, dec)
    /\ Blends(r, dec, man, sts)
    /\ Counts(r, man)
    /\ Writes(r, d, fs, sts)
    /\ r.loaded = man
    /\ ~Twice(man) /\ Legible(man, sts)

Formed(sts) == \A b \in DOMAIN sts : DOMAIN sts[b] = {"v", "models"}

(* Between runs, after one that ended well. *)
Current(dec, man, sts) ==
    ~Twice(man) /\ Legible(man, sts) /\ Schema(Replay(man, sts)) = Schema(dec)

Inv ==
    /\ registered = Modules
    /\ IsSnapshot(declared)
    /\ Books(manifest)
    /\ Sound(dialect, manifest, files, states)
    /\ Formed(states)
    /\ run.pc = "idle" /\ run.out \in {"done", "nochange"} => Current(declared, manifest, states)
    /\ run.pc # "idle" => Runs(run, dialect, declared, manifest, files, states)

(***************************************************************************)
(* A new entry above all: the chain builds and undoes when its last        *)
(* migration does.                                                         *)
(***************************************************************************)
LEMMA SeqWithin ==
    ASSUME NEW A, NEW X, A \subseteq X, NEW s \in Seq(A)
    PROVE  s \in Seq(X)
  OBVIOUS

LEMMA ChainAppend ==
    ASSUME NEW d, NEW G, IsChain(G), NEW m, NEW e, e.version \in Nat,
           \A r \in G : r[2].version < e.version,
           NEW H, H = G \cup {<<m, e>>}, NEW fs, NEW sch,
           Turning(d, G, fs, sch), NEW b, b = Base(m, e),
           Turns(d, SchemaOf(G, sch, Len(ChainOf(G))), fs[b], sch[b])
    PROVE  IsChain(H) /\ Turning(d, H, fs, sch)
  <1> DEFINE n == Len(ChainOf(G))
             D == DOMAIN ChainOf(H)
  <1>1. ChainOf(G) \in Seq(Nat) /\ n \in Nat /\ DOMAIN ChainOf(G) = 1..n
    <2>1. ChainOf(G) \in Seq(Nat)
      BY ChainIs
    <2> QED  BY <2>1
  <1>2. /\ IsChain(H) /\ ChainOf(H) = Append(ChainOf(G), e.version)
        /\ (\A i \in 1..n : BaseAt(H, i) = BaseAt(G, i)) /\ BaseAt(H, n + 1) = b
    <2>0. IsChain(H) /\ ChainOf(H) = Append(ChainOf(G), e.version)
      BY ONLY IsChain(G), e.version \in Nat, \A r \in G : r[2].version < e.version,
              H = G \cup {<<m, e>>}, ChainGrows
    <2>1. /\ \A i \in DOMAIN ChainOf(G) : BaseAt(H, i) = BaseAt(G, i)
          /\ BaseAt(H, Len(ChainOf(G)) + 1) = Base(m, e)
      BY ONLY IsChain(G), e.version \in Nat, \A r \in G : r[2].version < e.version,
              H = G \cup {<<m, e>>}, ChainGrows
    <2> QED  BY <1>1, <2>0, <2>1
  <1>3. D = 1..(n + 1)
    <2> HIDE DEF n
    <2> QED  BY <1>1, <1>2
  <1> HIDE DEF n, D
  <1>4. ASSUME NEW k \in 0..n PROVE SchemaOf(H, sch, k) = SchemaOf(G, sch, k)
    <2>1. k = 0 \/ k \in 1..n
      BY <1>1
    <2> QED  BY <1>2, <2>1 DEF SchemaOf
  <1>5. SchemaOf(H, sch, n + 1) = sch[b]
    <2>1. n + 1 # 0
      BY <1>1
    <2> QED  BY <1>2, <2>1 DEF SchemaOf
  <1>6. \A k \in D : k \in 1..n \/ k = n + 1
    BY <1>1, <1>3
  <1> SUFFICES ASSUME NEW k \in D
               PROVE  Turns(d, SchemaOf(H, sch, k - 1), fs[BaseAt(H, k)], SchemaOf(H, sch, k))
    BY <1>2 DEF Turning, D
  <1>7. CASE k \in 1..n
    <2>1. k \in 0..n /\ k - 1 \in 0..n
      BY <1>1, <1>7
    <2>2. Turns(d, SchemaOf(G, sch, k - 1), fs[BaseAt(G, k)], SchemaOf(G, sch, k))
      BY <1>1, <1>7 DEF Turning
    <2>3. /\ SchemaOf(H, sch, k) = SchemaOf(G, sch, k) /\ BaseAt(H, k) = BaseAt(G, k)
          /\ SchemaOf(H, sch, k - 1) = SchemaOf(G, sch, k - 1)
      BY <1>2, <1>4, <1>7, <2>1
    <2> QED  BY <2>2, <2>3
  <1>8. CASE k = n + 1
    <2>1. k - 1 = n /\ n \in 0..n
      BY <1>1, <1>8
    <2>2. SchemaOf(H, sch, k - 1) = SchemaOf(G, sch, n)
      BY <1>4, <2>1
    <2>3. Turns(d, SchemaOf(G, sch, n), fs[b], sch[b])
      BY DEF n
    <2>4. BaseAt(H, k) = b /\ SchemaOf(H, sch, k) = sch[b]
      BY <1>2, <1>5, <1>8
    <2> QED  BY <2>2, <2>3, <2>4
  <1> QED  BY <1>6, <1>7, <1>8

(***************************************************************************)
(* One more entry in a manifest.                                           *)
(***************************************************************************)
LEMMA ToSetAppend ==
    ASSUME NEW s, IsSeq(s), NEW e
    PROVE  /\ IsSeq(Append(s, e)) /\ ToSet(Append(s, e)) = ToSet(s) \cup {e}
           /\ Len(s) \in Nat /\ DOMAIN s = 1..Len(s) /\ DOMAIN Append(s, e) = 1..(Len(s) + 1)
           /\ (\A i \in 1..Len(s) : Append(s, e)[i] = s[i]) /\ Append(s, e)[Len(s) + 1] = e
  <1> DEFINE X == ToSet(s) \cup {e}
             n == Len(s)
             a == Append(s, e)
  <1>1. s \in Seq(X) /\ e \in X
    <2>1. s \in Seq(ToSet(s)) /\ ToSet(s) \subseteq X
      BY DEF IsSeq
    <2> HIDE DEF X
    <2>2. s \in Seq(X)
      BY <2>1, SeqWithin
    <2> QED  BY <2>2 DEF X
  <1>2. ToSet(s) = {s[i] : i \in DOMAIN s}
    BY DEF ToSet
  <1>3. \A x \in X : x \in ToSet(s) \/ x = e
    OBVIOUS
  <1> HIDE DEF X
  <1>4. /\ a \in Seq(X) /\ n \in Nat /\ DOMAIN s = 1..n /\ DOMAIN a = 1..(n + 1)
        /\ (\A i \in 1..n : a[i] = s[i]) /\ a[n + 1] = e
    BY <1>1
  <1> HIDE DEF a, n
  <1>5. ToSet(a) = {a[i] : i \in DOMAIN a}
    BY DEF ToSet
  <1>6. \A i \in 1..(n + 1) : i \in 1..n \/ i = n + 1
    BY <1>4
  <1>7. \A i \in 1..n : i \in 1..(n + 1)
    BY <1>4
  <1>8. n + 1 \in 1..(n + 1)
    BY <1>4
  <1>9. ToSet(a) = ToSet(s) \cup {e}
    BY <1>2, <1>4, <1>5, <1>6, <1>7, <1>8
  <1>10. IsSeq(a)
    BY <1>4, <1>9 DEF IsSeq, X
  <1> QED  BY <1>4, <1>9, <1>10 DEF a, n

Extended(man, man2, m, e) ==
    /\ man2 = [n \in Modules |-> man2[n]]
    /\ man2[m] = Append(man[m], e)
    /\ \A n \in Modules \ {m} : man2[n] = man[n]

LEMMA ExtendedIs ==
    ASSUME NEW man, Books(man), NEW m \in Modules, NEW e
    PROVE  Extended(man, [man EXCEPT ![m] = Append(man[m], e)], m, e)
  <1>1. DOMAIN man = Modules
    BY DEF Books
  <1> QED  BY <1>1 DEF Extended

LEMMA ListedMore ==
    ASSUME NEW man, Books(man), NEW m \in Modules, NEW e, NEW man2, Extended(man, man2, m, e)
    PROVE  /\ ListedIn(man2) = ListedIn(man) \cup {<<m, e>>}
           /\ \A n \in Modules : IsSeq(man2[n]) /\ ToSet(man[n]) \subseteq ToSet(man2[n])
  <1>1. IsSeq(man[m]) /\ ToSet(man2[m]) = ToSet(man[m]) \cup {e} /\ IsSeq(man2[m])
    <2>1. IsSeq(man[m]) /\ man2[m] = Append(man[m], e)
      BY DEF Books, Extended
    <2>2. IsSeq(Append(man[m], e)) /\ ToSet(Append(man[m], e)) = ToSet(man[m]) \cup {e}
      BY <2>1, ToSetAppend
    <2> QED  BY <2>1, <2>2
  <1>2. \A n \in Modules : n # m => man2[n] = man[n]
    BY DEF Extended
  <1>3. \A n \in Modules : IsSeq(man[n])
    BY DEF Books
  <1>4. \A n \in Modules : ToSet(man2[n]) = ToSet(man[n]) \cup {x \in {e} : n = m}
    BY <1>1, <1>2
  <1>5. ListedIn(man2) = ListedIn(man) \cup {<<m, e>>}
    BY <1>4 DEF ListedIn
  <1> QED  BY <1>1, <1>2, <1>3, <1>5

(* The migration an entry names left a state file. *)
Stateful(e) == e.state = TRUE

LEMMA GenMore ==
    ASSUME NEW man, Books(man), NEW m \in Modules, NEW e, NEW man2, Extended(man, man2, m, e),
           Stateful(e)
    PROVE  GenOf(man2) = GenOf(man) \cup {<<m, e>>}
  <1>1. ListedIn(man2) = ListedIn(man) \cup {<<m, e>>}
    BY ListedMore
  <1>2. <<m, e>>[2] = e
    OBVIOUS
  <1> QED  BY <1>1, <1>2 DEF GenOf, Stateful

LEMMA GenSame ==
    ASSUME NEW man, Books(man), NEW m \in Modules, NEW e, NEW man2, Extended(man, man2, m, e),
           e.state = FALSE
    PROVE  GenOf(man2) = GenOf(man)
  <1>1. ListedIn(man2) = ListedIn(man) \cup {<<m, e>>}
    BY ListedMore
  <1>2. <<m, e>>[2] = e
    OBVIOUS
  <1> QED  BY <1>1, <1>2 DEF GenOf

LEMMA NearMore ==
    ASSUME NEW v \in Nat, NEW n \in Nat, NEW k \in Nat, n =< k, Near(v, n)
    PROVE  Near(v, k)
  <1>1. PICK c \in Clocks \cup {1} : v =< c + n
    BY DEF Near
  <1>2. c \in Nat
    BY VersionsAreNumbers
  <1>3. v =< c + k
    BY <1>1, <1>2
  <1> QED  BY <1>3 DEF Near

LEMMA BooksMore ==
    ASSUME NEW man, Books(man), NEW m \in Modules, NEW e, IsEntry(e), NEW man2, Extended(man, man2, m, e),
           Near(e.version, Cardinality(ListedIn(man2)))
    PROVE  /\ Books(man2)
           /\ Cardinality(ListedIn(man)) \in Nat
           /\ Cardinality(ListedIn(man2)) =
                IF <<m, e>> \in ListedIn(man) THEN Cardinality(ListedIn(man))
                ELSE Cardinality(ListedIn(man)) + 1
  <1> DEFINE L == ListedIn(man)
             K == ListedIn(man2)
             x == <<m, e>>
  <1>1. K = L \cup {x} /\ x[2] = e
    BY ListedMore
  <1>2. IsFiniteSet(L) /\ Cardinality(L) \in Nat
    BY FS_CardinalityType DEF Books
  <1> HIDE DEF x, L, K
  <1>3. IsFiniteSet(K) /\ Cardinality(K) = IF x \in L THEN Cardinality(L) ELSE Cardinality(L) + 1
    BY <1>1, <1>2, FS_AddElement
  <1>4. Cardinality(K) \in Nat /\ Cardinality(L) =< Cardinality(K)
    BY <1>2, <1>3
  <1>5. \A r \in L : IsEntry(r[2]) /\ Near(r[2].version, Cardinality(L)) /\ r[2].version \in Nat
    BY DEF Books, L, IsEntry
  <1>6. \A r \in L : IsEntry(r[2]) /\ Near(r[2].version, Cardinality(K))
    BY <1>2, <1>4, <1>5, NearMore
  <1>7. \A r \in K : IsEntry(r[2]) /\ Near(r[2].version, Cardinality(K))
    BY <1>1, <1>6 DEF K
  <1>8. \A n \in Modules : IsSeq(man2[n])
    BY ListedMore
  <1>9. Books(man2)
    BY <1>3, <1>7, <1>8 DEF Books, Extended, K
  <1> QED  BY <1>2, <1>3, <1>9 DEF L, K, x

LEMMA ListedAt ==
    ASSUME NEW man, NEW n \in Modules, NEW i \in DOMAIN man[n]
    PROVE  \E r \in ListedIn(man) : r[1] = n /\ r[2] = man[n][i]
  <1>1. man[n][i] \in ToSet(man[n])
    BY DEF ToSet
  <1>2. <<n, man[n][i]>> \in ListedIn(man)
    BY <1>1 DEF ListedIn
  <1> QED  BY <1>2

(* A version above all is no duplicate. *)
LEMMA TwiceMore ==
    ASSUME NEW man, Books(man), ~Twice(man), NEW m \in Modules, NEW e, e.version \in Nat,
           \A r \in ListedIn(man) : r[2].version < e.version,
           NEW man2, Extended(man, man2, m, e)
    PROVE  ~Twice(man2)
  <1> DEFINE N == Len(man[m]) + 1
  <1>1. /\ Len(man[m]) \in Nat /\ DOMAIN man[m] = 1..Len(man[m]) /\ DOMAIN man2[m] = 1..N
        /\ (\A i \in 1..Len(man[m]) : man2[m][i] = man[m][i]) /\ man2[m][N] = e
    BY ToSetAppend DEF Books, Extended
  <1> HIDE DEF N
  <1>2. ASSUME NEW n \in Modules, NEW i \in DOMAIN man2[n]
        PROVE  \/ i \in DOMAIN man[n] /\ man2[n][i] = man[n][i]
               \/ n = m /\ i = N /\ man2[n][i] = e
    <2>1. CASE n = m
      <3>1. i \in 1..Len(man[m]) \/ i = N
        BY <1>1, <1>2, <2>1 DEF N
      <3> QED  BY <1>1, <2>1, <3>1
    <2>2. CASE n # m
      BY <2>2 DEF Extended
    <2> QED  BY <2>1, <2>2
  <1>3. ASSUME NEW n \in Modules, NEW i \in DOMAIN man[n] PROVE man[n][i].version # e.version
    <2>1. PICK r \in ListedIn(man) : r[2] = man[n][i]
      BY ListedAt
    <2>2. r[2].version \in Nat /\ r[2].version < e.version
      BY DEF Books, IsEntry
    <2> QED  BY <2>1, <2>2
  <1>4. ASSUME NEW n \in Modules, NEW p \in Modules, NEW i \in DOMAIN man2[n], NEW j \in DOMAIN man2[p],
               <<n, i>> # <<p, j>>, man2[n][i].version = man2[p][j].version
        PROVE  FALSE
    <2>1. CASE /\ i \in DOMAIN man[n] /\ man2[n][i] = man[n][i]
               /\ j \in DOMAIN man[p] /\ man2[p][j] = man[p][j]
      BY <1>4, <2>1 DEF Twice
    <2>2. CASE i \in DOMAIN man[n] /\ man2[n][i] = man[n][i] /\ man2[p][j] = e
      BY <1>3, <1>4, <2>2
    <2>3. CASE j \in DOMAIN man[p] /\ man2[p][j] = man[p][j] /\ man2[n][i] = e
      BY <1>3, <1>4, <2>3
    <2>4. CASE n = m /\ i = N /\ p = m /\ j = N
      BY <1>4, <2>4
    <2> QED  BY <1>2, <2>1, <2>2, <2>3, <2>4
  <1> QED  BY <1>4 DEF Twice

(***************************************************************************)
(* The newest entry, and what a replay yields.                             *)
(***************************************************************************)
LEMMA NewestIs ==
    ASSUME NEW G, IsChain(G), NEW x \in G, \A q \in G : q[2].version =< x[2].version
    PROVE  Newest(G) = x
  <1>1. Newest(G) \in G /\ \A q \in G : q[2].version =< Newest(G)[2].version
    BY DEF Newest
  <1>2. x[2].version =< Newest(G)[2].version /\ Newest(G)[2].version =< x[2].version
        /\ x[2].version \in Nat /\ Newest(G)[2].version \in Nat
    BY <1>1 DEF IsChain
  <1>3. x[2].version = Newest(G)[2].version
    BY <1>2
  <1> QED  BY <1>1, <1>3 DEF IsChain

LEMMA NewestMore ==
    ASSUME NEW G, NEW H, IsChain(H), NEW x, H = G \cup {x}, \A r \in G : r[2].version < x[2].version
    PROVE  Newest(H) = x
  <1>1. \A q \in H : q[2].version \in Nat
    BY DEF IsChain
  <1>2. \A q \in H : q[2].version =< x[2].version
    BY <1>1
  <1> QED  BY <1>2, NewestIs

LEMMA NewestLast ==
    ASSUME NEW G, IsChain(G), G # {}
    PROVE  /\ Len(ChainOf(G)) \in DOMAIN ChainOf(G)
           /\ BaseAt(G, Len(ChainOf(G))) = BaseOf(Newest(G)) /\ Newest(G) \in G
  <1> DEFINE s == ChainOf(G)
             n == Len(s)
             x == EntryAt(G, s[n])
  <1>1. /\ s \in Seq(Nat) /\ ToSet(s) = VersionsOf(G)
        /\ \A i, j \in DOMAIN s : i < j => s[i] < s[j]
        /\ \A i \in DOMAIN s : EntryAt(G, s[i]) \in G /\ EntryAt(G, s[i])[2].version = s[i]
    BY ChainIs
  <1>2. ToSet(s) = {s[i] : i \in DOMAIN s}
    BY DEF ToSet
  <1> HIDE DEF s
  <1>3. n \in Nat /\ DOMAIN s = 1..n /\ \A i \in 1..n : s[i] \in Nat
    BY <1>1
  <1>4. n # 0
    <2>1. PICK r \in G : TRUE
      OBVIOUS
    <2>2. r[2].version \in ToSet(s)
      BY <1>1 DEF VersionsOf
    <2> QED  BY <1>2, <1>3, <2>2
  <1>5. n \in DOMAIN s
    BY <1>3, <1>4
  <1>6. x \in G /\ x[2].version = s[n]
    BY <1>1, <1>5
  <1> HIDE DEF x
  <1>7. ASSUME NEW q \in G PROVE q[2].version =< x[2].version
    <2>1. PICK i \in DOMAIN s : q[2].version = s[i]
      BY <1>1, <1>2 DEF VersionsOf
    <2>2. i = n \/ i < n
      BY <1>3
    <2>3. s[i] = s[n] \/ s[i] < s[n]
      BY <1>1, <1>5, <2>2
    <2>4. s[i] \in Nat /\ s[n] \in Nat
      BY <1>3, <1>5
    <2> QED  BY <1>6, <2>1, <2>3, <2>4
  <1>8. Newest(G) = x
    BY <1>6, <1>7, NewestIs
  <1> QED  BY <1>5, <1>6, <1>8 DEF BaseAt, s, x

LEMMA EmptyIs == DOMAIN Empty = {} /\ Schema(Empty) = Empty /\ IsSnapshot(Empty)
  <1>1. DOMAIN Empty = {}
    BY DEF Empty
  <1>2. Schema(Empty) = Empty
    BY <1>1 DEF Schema, Empty
  <1>3. IsFiniteSet({})
    BY FS_EmptySet
  <1>4. IsSnapshot(Empty)
    BY <1>1, <1>3 DEF IsSnapshot, IsColumns
  <1> QED  BY <1>1, <1>2, <1>4

(* The last schema of the chain is the one a replay recovers. *)
LEMMA ReplayBuilt ==
    ASSUME NEW d, NEW man, NEW fs, NEW sts, Sound(d, man, fs, sts)
    PROVE  /\ SchemaOf(GenOf(man), Schemas(sts), Len(ChainOf(GenOf(man)))) = Schema(Replay(man, sts))
           /\ IsSnapshot(Replay(man, sts))
  <1> DEFINE G == GenOf(man)
             n == Len(ChainOf(G))
  <1>0. IsChain(G)
    BY DEF Sound
  <1>1. CASE G = {}
    <2>1. VersionsOf(G) = {} /\ {} \in SUBSET Nat /\ IsFiniteSet({})
      BY <1>1, FS_EmptySet DEF VersionsOf
    <2>2. ToSet(ChainOf(G)) = {} /\ ChainOf(G) \in Seq(Nat)
      BY <1>0, <2>1, ChainIs
    <2>3. n = 0
      <3>1. \A s \in Seq(Nat) : s # <<>> => s[1] \in ToSet(s)
        BY DEF ToSet
      <3> QED  BY <2>2, <3>1
    <2>4. Replay(man, sts) = Empty
      BY <1>1 DEF Replay
    <2> QED  BY <2>3, <2>4, EmptyIs DEF SchemaOf
  <1>2. CASE G # {}
    <2>1. n \in DOMAIN ChainOf(G) /\ BaseAt(G, n) = BaseOf(Newest(G)) /\ Newest(G) \in G
      BY <1>0, <1>2, NewestLast
    <2>2. n # 0
      <3>1. ChainOf(G) \in Seq(Nat)
        BY <1>0, ChainIs
      <3> QED  BY <2>1, <3>1
    <2>3. BaseOf(Newest(G)) \in DOMAIN sts
      BY <2>1 DEF Sound, Kept, Schemas
    <2>4. Replay(man, sts) = Parsed(sts[BaseOf(Newest(G))])
      BY <1>2 DEF Replay
    <2>5. Schemas(sts)[BaseOf(Newest(G))] = Schema(Parsed(sts[BaseOf(Newest(G))]))
      BY <2>3 DEF Schemas
    <2>6. IsSnapshot(Replay(man, sts))
      BY <2>1, <2>4 DEF Sound
    <2> QED  BY <2>1, <2>2, <2>4, <2>5, <2>6 DEF SchemaOf
  <1> QED  BY <1>1, <1>2

(***************************************************************************)
(* Files that come and go beside the chain.                                *)
(***************************************************************************)
LEMMA PutThere ==
    ASSUME NEW f, NEW x, NEW y
    PROVE  x \in DOMAIN Put(f, x, y) /\ Put(f, x, y)[x] = y
  BY DEF Put

LEMMA PutKeeps ==
    ASSUME NEW f, NEW x, NEW y, NEW z \in DOMAIN f, z # x
    PROVE  z \in DOMAIN Put(f, x, y) /\ Put(f, x, y)[z] = f[z]
  BY DEF Put

LEMMA BasesDiffer ==
    ASSUME NEW r, NEW m, NEW e, r[2].version # e.version \/ r[2].slug # e.slug
    PROVE  BaseOf(r) # Base(m, e)
  BY DEF BaseOf, Base

SameFiles(G, fs, fs2) == \A r \in G : BaseOf(r) \in DOMAIN fs2 /\ fs2[BaseOf(r)] = fs[BaseOf(r)]
SameStates(G, sts, sts2) ==
    \A r \in G : BaseOf(r) \in DOMAIN sts2 /\ Parsed(sts2[BaseOf(r)]) = Parsed(sts[BaseOf(r)])

LEMMA SoundStable ==
    ASSUME NEW d, NEW man, NEW fs, NEW sts, Sound(d, man, fs, sts),
           NEW man2, GenOf(man2) = GenOf(man), NEW fs2, SameFiles(GenOf(man), fs, fs2),
           NEW sts2, SameStates(GenOf(man), sts, sts2)
    PROVE  Sound(d, man2, fs2, sts2) /\ Replay(man2, sts2) = Replay(man, sts)
  <1> DEFINE G == GenOf(man)
             sch == Schemas(sts)
             sch2 == Schemas(sts2)
  <1>1. IsChain(G) /\ Kept(G, fs, sch) /\ Turning(d, G, fs, sch)
    BY DEF Sound
  <1>2. ASSUME NEW r \in G
        PROVE  /\ BaseOf(r) \in DOMAIN fs2 /\ fs2[BaseOf(r)] = fs[BaseOf(r)]
               /\ BaseOf(r) \in DOMAIN sch2 /\ sch2[BaseOf(r)] = sch[BaseOf(r)]
    <2>1. BaseOf(r) \in DOMAIN sts
      BY <1>1 DEF Kept, Schemas
    <2> QED  BY <2>1 DEF SameFiles, SameStates, Schemas
  <1>3. Kept(G, fs2, sch2) /\ Turning(d, G, fs2, sch2)
    <2> HIDE DEF G, sch, sch2
    <2> QED  BY <1>1, <1>2, ChainStable
  <1>4. \A r \in G : IsSnapshot(Parsed(sts2[BaseOf(r)]))
    BY DEF Sound, SameStates
  <1>5. Sound(d, man2, fs2, sts2)
    BY <1>1, <1>3, <1>4 DEF Sound
  <1>6. Replay(man2, sts2) = Replay(man, sts)
    <2>1. CASE G = {}
      BY <2>1 DEF Replay
    <2>2. CASE G # {}
      <3>1. Newest(G) \in G
        BY <1>1, <2>2, NewestLast
      <3> QED  BY <2>2, <3>1 DEF Replay, SameStates
    <2> QED  BY <2>1, <2>2
  <1> QED  BY <1>5, <1>6

LEMMA SameRefl ==
    ASSUME NEW d, NEW man, NEW fs, NEW sts, Sound(d, man, fs, sts)
    PROVE  SameFiles(GenOf(man), fs, fs) /\ SameStates(GenOf(man), sts, sts)
  BY DEF Sound, Kept, Schemas, SameFiles, SameStates

(***************************************************************************)
(* Blends.                                                                 *)
(***************************************************************************)
LEMMA BlendAgrees ==
    ASSUME NEW before, NEW after, NEW U, NEW T, T \subseteq U
    PROVE  Agrees(Blend(before, after, U), T, before)
  <1>1. DOMAIN Blend(before, after, U) = (DOMAIN before \cap U) \cup {x \in DOMAIN after : x \notin U}
    BY DEF Blend
  <1>2. \A t \in DOMAIN Blend(before, after, U) :
          t \in U => Blend(before, after, U)[t] = before[t].fields
    BY DEF Blend
  <1>3. Blend(before, after, U) = [t \in DOMAIN Blend(before, after, U) |-> Blend(before, after, U)[t]]
    BY DEF Blend
  <1> QED  BY <1>1, <1>2, <1>3 DEF Agrees

LEMMA BlendFinal ==
    ASSUME NEW before, NEW after, NEW U, NEW T, T \subseteq U, NEW W, W = U \ T
    PROVE  Final(Blend(before, after, U), T, after) = Blend(before, after, W)
  <1> DEFINE B == Blend(before, after, U)
             D == (DOMAIN before \cap U) \cup {x \in DOMAIN after : x \notin U}
             E == {x \in DOMAIN B : x \notin T} \cup (T \cap DOMAIN after)
             C == (DOMAIN before \cap W) \cup {x \in DOMAIN after : x \notin W}
  <1>1. DOMAIN B = D /\ \A t \in D : B[t] = IF t \in U THEN before[t].fields ELSE after[t].fields
    BY DEF Blend
  <1>2. Final(B, T, after) = [t \in E |-> IF t \in T THEN after[t].fields ELSE B[t]]
    BY DEF Final
  <1>3. Blend(before, after, W) = [t \in C |-> IF t \in W THEN before[t].fields ELSE after[t].fields]
    BY DEF Blend
  <1> HIDE DEF B
  <1>4. E = C
    BY <1>1
  <1>5. \A t \in C : (IF t \in T THEN after[t].fields ELSE B[t])
                       = IF t \in W THEN before[t].fields ELSE after[t].fields
    BY <1>1, <1>4
  <1> HIDE DEF D, E, C
  <1>6. Final(B, T, after) = Blend(before, after, W)
    BY <1>2, <1>3, <1>4, <1>5
  <1> QED  BY <1>6 DEF B

LEMMA BlendNone ==
    ASSUME NEW before, NEW after
    PROVE  Blend(before, after, Owned(before, after, {})) = Schema(after)
  <1>1. Owned(before, after, {}) = {}
    BY DEF Owned
  <1> QED  BY <1>1 DEF Blend, Schema

(* The modules a queue holds. *)
LEMMA QueueIs ==
    ASSUME NEW q \in Seq(Nat), q # <<>>, \A i, j \in DOMAIN q : i < j => q[i] < q[j]
    PROVE  /\ Head(q) \in ToSet(q) /\ ToSet(Tail(q)) = ToSet(q) \ {Head(q)}
           /\ Tail(q) \in Seq(Nat) /\ Len(Tail(q)) = Len(q) - 1 /\ Len(q) \in Nat
           /\ \A i, j \in DOMAIN Tail(q) : i < j => Tail(q)[i] < Tail(q)[j]
           /\ (Len(q) = 1 => ToSet(Tail(q)) = {}) /\ (Len(q) # 1 => Tail(q) # <<>>)
  <1> DEFINE n == Len(q)
             p == Tail(q)
  <1>1. /\ n \in Nat /\ n # 0 /\ DOMAIN q = 1..n /\ Head(q) = q[1]
        /\ p \in Seq(Nat) /\ Len(p) = n - 1 /\ DOMAIN p = 1..(n - 1)
        /\ \A i \in 1..(n - 1) : p[i] = q[i + 1]
    OBVIOUS
  <1>2. ToSet(q) = {q[i] : i \in DOMAIN q} /\ ToSet(p) = {p[i] : i \in DOMAIN p}
    BY DEF ToSet
  <1>3. \A i \in 1..n : q[i] \in Nat
    OBVIOUS
  <1> HIDE DEF n, p
  <1>4. 1 \in DOMAIN q
    BY <1>1
  <1>5. ASSUME NEW i \in 1..(n - 1)
        PROVE  i + 1 \in 1..n /\ p[i] \in ToSet(q) /\ q[1] < p[i] /\ p[i] # q[1]
    <2>1. i + 1 \in DOMAIN q /\ 1 < i + 1
      BY <1>1
    <2>2. q[1] < q[i + 1] /\ q[1] \in Nat /\ q[i + 1] \in Nat
      BY <1>1, <1>3, <1>4, <2>1
    <2>3. p[i] = q[i + 1]
      BY <1>1
    <2>4. i + 1 \in 1..n /\ q[i + 1] \in ToSet(q)
      BY <1>1, <1>2, <2>1
    <2>5. q[1] # q[i + 1]
      BY <2>2
    <2> QED  BY <2>2, <2>3, <2>4, <2>5
  <1>6. ASSUME NEW x \in ToSet(q), x # Head(q) PROVE x \in ToSet(p)
    <2>1. PICK i \in 1..n : x = q[i]
      BY <1>1, <1>2
    <2>2. i # 1 /\ i - 1 \in 1..(n - 1) /\ (i - 1) + 1 = i
      BY <1>1, <1>6, <2>1
    <2>3. p[i - 1] = x
      BY <1>1, <2>1, <2>2
    <2> QED  BY <1>1, <1>2, <2>2, <2>3
  <1>7. ToSet(p) = ToSet(q) \ {Head(q)}
    <2>1. ASSUME NEW x \in ToSet(p) PROVE x \in ToSet(q) /\ x # Head(q)
      <3>1. PICK i \in 1..(n - 1) : x = p[i]
        BY <1>1, <1>2
      <3> QED  BY <1>1, <1>5, <3>1
    <2> QED  BY <1>6, <2>1
  <1>8. ASSUME NEW i \in DOMAIN p, NEW j \in DOMAIN p, i < j PROVE p[i] < p[j]
    <2>1. i + 1 \in DOMAIN q /\ j + 1 \in DOMAIN q /\ i + 1 < j + 1
      <3>1. n \in Nat /\ i \in 1..(n - 1) /\ j \in 1..(n - 1)
        BY <1>1, <1>8
      <3>2. i + 1 \in 1..n /\ j + 1 \in 1..n /\ i + 1 < j + 1
        BY ONLY <3>1, i < j
      <3> QED  BY <1>1, <3>2
    <2>2. p[i] = q[i + 1] /\ p[j] = q[j + 1]
      BY <1>1
    <2> QED  BY <2>1, <2>2
  <1>9. n = 1 => ToSet(p) = {}
    BY <1>1, <1>2
  <1>10. n # 1 => p # <<>>
    BY <1>1
  <1>11. Head(q) \in ToSet(q)
    BY <1>1, <1>2, <1>4
  <1> QED  BY <1>1, <1>7, <1>8, <1>9, <1>10, <1>11 DEF n, p

LEMMA OwnedRest ==
    ASSUME NEW before, NEW after, NEW q \in Seq(Nat), q # <<>>,
           \A i, j \in DOMAIN q : i < j => q[i] < q[j]
    PROVE  /\ Owned(before, after, {Head(q)}) \subseteq Owned(before, after, ToSet(q))
           /\ Owned(before, after, ToSet(Tail(q)))
                = Owned(before, after, ToSet(q)) \ Owned(before, after, {Head(q)})
  <1>1. Head(q) \in ToSet(q) /\ ToSet(Tail(q)) = ToSet(q) \ {Head(q)}
    BY QueueIs
  <1> QED  BY <1>1 DEF Owned

(* What a migration records is a snapshot. *)
LEMMA AfterSnapshot ==
    ASSUME NEW cum, NEW ops, IsSnapshot(cum), IsSnapshot(declared)
    PROVE  IsSnapshot(SnapshotAfter(cum, ops))
  <1> DEFINE A == SnapshotAfter(cum, ops)
  <1>1. DOMAIN A \subseteq DOMAIN cum \cup DOMAIN declared
    BY DEF SnapshotAfter
  <1>2. \A t \in DOMAIN A : (t \in DOMAIN declared /\ A[t] = declared[t]) \/ (t \in DOMAIN cum /\ A[t] = cum[t])
    BY DEF SnapshotAfter
  <1> HIDE DEF A
  <1>3. IsFiniteSet(DOMAIN cum \cup DOMAIN declared) /\ DOMAIN cum \cup DOMAIN declared \in SUBSET Nat
    BY FS_Union DEF IsSnapshot, IsColumns
  <1>4. IsFiniteSet(DOMAIN A) /\ DOMAIN A \in SUBSET Nat
    BY <1>1, <1>3, FS_Subset
  <1>5. \A t \in DOMAIN A : A[t].module \in Modules /\ IsTable(A[t].fields)
    BY <1>2 DEF IsSnapshot
  <1> QED  BY <1>4, <1>5 DEF IsSnapshot, IsColumns, A

(***************************************************************************)
(* The same in the words of the specification.                             *)
(***************************************************************************)
LEMMA ListedIs == Listed = ListedIn(manifest) /\ Generated = GenOf(manifest)
  BY DEF Listed, ListedIn, Generated, GenOf

LEMMA ParsedIs == \A b : ParseSnapshot(b) = Parsed(states[b])
  BY DEF ParseSnapshot, Parsed

LEMMA RecordedIs ==
    ASSUME registered = Modules
    PROVE  Recorded = GenOf(manifest)
  <1> DEFINE A(m) == {<<m, e>> : e \in {d \in ToSet(manifest[m]) : d.state}}
             B(m) == {r \in {<<m, e>> : e \in ToSet(manifest[m])} : r[2].state}
  <1>1. \A m : A(m) = B(m)
    OBVIOUS
  <1>2. Recorded = UNION {A(m) : m \in Modules}
    BY DEF Recorded
  <1>3. GenOf(manifest) = UNION {B(m) : m \in Modules}
    BY DEF GenOf, ListedIn
  <1> QED  BY <1>1, <1>2, <1>3

LEMMA ReplayIs ==
    ASSUME registered = Modules, torn = {}
    PROVE  /\ ReplayState = Replay(manifest, states)
           /\ ReplayFails <=> Twice(manifest) \/ ~Legible(manifest, states)
  <1> DEFINE G == GenOf(manifest)
  <1>1. Recorded = G
    BY RecordedIs
  <1>2. ReplayState = Replay(manifest, states)
    <2>1. CASE G = {}
      BY <1>1, <2>1 DEF ReplayState, Replay
    <2>2. CASE G # {}
      <3>1. Newest(G) = CHOOSE r \in Recorded : \A q \in Recorded : q[2].version =< r[2].version
        BY <1>1 DEF Newest
      <3>2. ReplayState = ParseSnapshot(BaseOf(Newest(G)))
        BY <1>1, <2>2, <3>1 DEF ReplayState, BaseOf
      <3> QED  BY <2>2, <3>2, ParsedIs DEF Replay
    <2> QED  BY <2>1, <2>2
  <1>3. DuplicateVersion <=> Twice(manifest)
    BY DEF DuplicateVersion, Twice
  <1>4. (\E r \in Recorded : Base(r[1], r[2]) \notin DOMAIN states \/ ~Readable(Base(r[1], r[2])))
          <=> ~Legible(manifest, states)
    BY <1>1 DEF Legible, Readable, BaseOf
  <1> QED  BY <1>2, <1>3, <1>4 DEF ReplayFails

LEMMA OwnerIs == \A t, before : OwnerOf(t, before) = OwnerIn(t, before, declared)
  BY DEF OwnerOf, OwnerIn

LEMMA ChainIsOf ==
    /\ Chain = ChainOf(GenOf(manifest))
    /\ \A k : FileAt(Chain[k]) = BaseAt(GenOf(manifest), k)
  <1> DEFINE G == GenOf(manifest)
  <1>0. Generated = G
    BY ListedIs
  <1>1. Chain = ChainOf(G)
    BY <1>0 DEF Chain, ChainOf, VersionsOf
  <1>2. \A v : FileAt(v) = BaseOf(EntryAt(G, v))
    BY <1>0 DEF FileAt, BaseOf, EntryAt
  <1>3. \A k : FileAt(Chain[k]) = BaseAt(G, k)
    BY <1>1, <1>2 DEF BaseAt
  <1> QED  BY <1>1, <1>3

LEMMA SchemaIsOf ==
    ASSUME Sound(dialect, manifest, files, states), NEW k \in Nat, k =< Len(Chain)
    PROVE  SchemaAt(k) = SchemaOf(GenOf(manifest), Schemas(states), k)
  <1> DEFINE G == GenOf(manifest)
  <1>0. IsChain(G) /\ Kept(G, files, Schemas(states))
    BY DEF Sound
  <1>1. CASE k = 0
    BY <1>1 DEF SchemaAt, SchemaOf
  <1>2. CASE k # 0
    <2>1. Chain = ChainOf(G) /\ FileAt(Chain[k]) = BaseAt(G, k)
      BY ChainIsOf
    <2>2. ChainOf(G) \in Seq(Nat)
      BY <1>0, ChainIs
    <2>3. k \in DOMAIN ChainOf(G)
      BY <1>2, <2>1, <2>2
    <2>4. EntryAt(G, ChainOf(G)[k]) \in G
      BY <1>0, <2>3, ChainIs
    <2>5. BaseAt(G, k) \in DOMAIN states
      BY <1>0, <2>4 DEF BaseAt, Kept, Schemas
    <2>6. Schemas(states)[BaseAt(G, k)] = Schema(Parsed(states[BaseAt(G, k)]))
      BY <2>5 DEF Schemas
    <2>7. SchemaAt(k) = Schema(ParseSnapshot(BaseAt(G, k)))
      BY <1>2, <2>1 DEF SchemaAt
    <2>8. SchemaOf(G, Schemas(states), k) = Schemas(states)[BaseAt(G, k)]
      BY <1>2 DEF SchemaOf
    <2> QED  BY <2>6, <2>7, <2>8, ParsedIs
  <1> QED  BY <1>1, <1>2

LEMMA InvImplies ==
    ASSUME Inv, torn = {}
    PROVE  ChainBuilds /\ DownRestores /\ ReplayIsCurrent
  <1> DEFINE G == GenOf(manifest)
  <1>0. Generated = G /\ Chain = ChainOf(G) /\ Sound(dialect, manifest, files, states)
    BY ListedIs, ChainIsOf DEF Inv
  <1>1. /\ IsChain(G) /\ Kept(G, files, Schemas(states))
        /\ Turning(dialect, G, files, Schemas(states))
    BY <1>0 DEF Sound
  <1>2. ASSUME NEW k \in DOMAIN Chain
        PROVE  Turns(dialect, SchemaAt(k - 1), files[FileAt(Chain[k])], SchemaAt(k))
    <2>1. ChainOf(G) \in Seq(Nat)
      BY <1>1, ChainIs
    <2>2. k \in Nat /\ k =< Len(Chain) /\ k - 1 \in Nat /\ k - 1 =< Len(Chain)
      BY <1>0, <2>1
    <2>3. /\ SchemaAt(k) = SchemaOf(G, Schemas(states), k)
          /\ SchemaAt(k - 1) = SchemaOf(G, Schemas(states), k - 1)
      BY <1>0, <2>2, SchemaIsOf
    <2>4. FileAt(Chain[k]) = BaseAt(G, k)
      BY ChainIsOf
    <2>5. Turns(dialect, SchemaOf(G, Schemas(states), k - 1), files[BaseAt(G, k)],
                SchemaOf(G, Schemas(states), k))
      BY <1>0, <1>1 DEF Turning
    <2> QED  BY <2>3, <2>4, <2>5
  <1>3. ChainBuilds
    <2>1. \A r, q \in Generated : r[2].version = q[2].version => r = q
      BY <1>0, <1>1 DEF IsChain
    <2>2. \A r \in Generated : Base(r[1], r[2]) \in DOMAIN files \cap DOMAIN states
      BY <1>0, <1>1 DEF Kept, Schemas, BaseOf
    <2>3. ASSUME NEW k \in DOMAIN Chain
          PROVE  \/ ExecAll(dialect, Holds(SchemaAt(k - 1)), files[FileAt(Chain[k])].up)
                      = Holds(SchemaAt(k))
                 \/ NoWayOn(SchemaAt(k - 1), files[FileAt(Chain[k])].up)
      BY <1>2 DEF Turns, Carries
    <2> HIDE DEF G
    <2> QED  BY <2>1, <2>2, <2>3 DEF ChainBuilds
  <1>4. DownRestores
    <2>1. ASSUME NEW k \in DOMAIN Chain
          PROVE  \/ ExecAll(dialect, Holds(SchemaAt(k)), files[FileAt(Chain[k])].down)
                      = Holds(SchemaAt(k - 1))
                 \/ dialect = "sqlite" /\ AddsIndexed(files[FileAt(Chain[k])].up)
                 \/ NoWayBack(SchemaAt(k - 1), files[FileAt(Chain[k])].up)
      BY <1>2 DEF Turns, Carries
    <2> HIDE DEF G
    <2> QED  BY <2>1 DEF DownRestores
  <1>5. ReplayIsCurrent
    <2> SUFFICES ASSUME run.out \in {"done", "nochange"}
                 PROVE  ~ReplayFails /\ Schema(ReplayState) = Schema(declared)
      BY DEF ReplayIsCurrent
    <2>1. run.pc = "idle"
      BY DEF Inv, Runs, Shaped
    <2>2. Current(declared, manifest, states) /\ registered = Modules
      BY <2>1 DEF Inv
    <2> QED  BY <2>2, ReplayIs DEF Current
  <1> QED  BY <1>3, <1>4, <1>5

LEMMA EntriesAre ==
    ASSUME NEW man, Books(man)
    PROVE  Entries(man) = {r[2] : r \in ListedIn(man)}
  <1>1. DOMAIN man = Modules
    BY DEF Books
  <1>2. Entries(man) = UNION {ToSet(man[m]) : m \in Modules}
    BY <1>1 DEF Entries
  <1>3. ASSUME NEW m \in Modules, NEW e \in ToSet(man[m]) PROVE \E r \in ListedIn(man) : e = r[2]
    <2>1. <<m, e>> \in ListedIn(man) /\ <<m, e>>[2] = e
      BY DEF ListedIn
    <2> QED  BY <2>1
  <1>4. ASSUME NEW r \in ListedIn(man) PROVE \E m \in Modules : r[2] \in ToSet(man[m])
    BY DEF ListedIn
  <1> QED  BY <1>2, <1>3, <1>4

(* nextVersion is above every listed version, and near the clocks. *)
LEMMA HighestIs ==
    ASSUME NEW man, Books(man)
    PROVE  LET n == Cardinality(ListedIn(man))
           IN /\ n \in Nat /\ Highest(man) \in Nat /\ Near(Highest(man), n)
              /\ \A r \in ListedIn(man) : r[2].version =< Highest(man)
  <1> DEFINE L == ListedIn(man)
             V == {e.version : e \in Entries(man)}
             n == Cardinality(L)
  <1>1. IsFiniteSet(L) /\ n \in Nat
    BY FS_CardinalityType DEF Books
  <1>2. Entries(man) = {r[2] : r \in L}
    BY EntriesAre
  <1>3. \A r \in L : r[2].version \in Nat /\ Near(r[2].version, n)
    BY DEF Books, IsEntry
  <1> HIDE DEF L, n
  <1>4. CASE L = {}
    <2>1. Highest(man) = 0
      BY <1>2, <1>4 DEF Highest
    <2>2. 1 \in Clocks \cup {1} /\ 0 =< 1 + n
      BY <1>1
    <2>3. Near(0, n)
      BY <2>2 DEF Near
    <2> QED  BY <1>1, <1>4, <2>1, <2>3 DEF L, n
  <1>5. CASE L # {}
    <2>1. V = VersionsOf(L) /\ V # {} /\ Entries(man) # {} /\ V \in SUBSET Nat
      BY <1>2, <1>3, <1>5 DEF VersionsOf
    <2>2. IsFiniteSet(V)
      <3> DEFINE f == [r \in L |-> r[2].version]
      <3>1. f \in Surjection(L, VersionsOf(L))
        BY DEF Surjection, VersionsOf
      <3> HIDE DEF f
      <3>2. IsFiniteSet(VersionsOf(L))
        BY <1>1, <3>1, FS_Surjection
      <3> QED  BY <2>1, <3>2
    <2> HIDE DEF V
    <2>3. PICK b \in Nat : \A v \in V : v =< b
      BY <2>1, <2>2, FiniteIsBounded
    <2>4. PICK w \in V : \A v \in V : v =< w
      BY <2>1, <2>3, GreatestNatural
    <2>5. Highest(man) = CHOOSE v \in V : \A e \in Entries(man) : e.version =< v
      BY <2>1 DEF Highest, V
    <2>6. \A e \in Entries(man) : e.version =< w
      BY <2>4 DEF V
    <2>7. Highest(man) \in V /\ \A e \in Entries(man) : e.version =< Highest(man)
      BY <2>5, <2>6
    <2>8. PICK r \in L : r[2].version = Highest(man)
      BY <1>2, <2>7 DEF V
    <2>9. \A r2 \in L : r2[2].version =< Highest(man)
      BY <1>2, <2>7
    <2> QED  BY <1>1, <1>3, <2>8, <2>9 DEF L, n
  <1> QED  BY <1>4, <1>5

LEMMA NextVersionIs ==
    ASSUME NEW man, Books(man), NEW now \in Clocks, ~(NextVersion(man, now) =< Highest(man))
    PROVE  LET n == Cardinality(ListedIn(man))
               v == NextVersion(man, now)
           IN v \in Nat /\ Near(v, n + 1) /\ \A r \in ListedIn(man) : r[2].version + 1 =< v
  <1> DEFINE n == Cardinality(ListedIn(man))
             v == NextVersion(man, now)
             h == Highest(man)
  <1>1. n \in Nat /\ h \in Nat /\ Near(h, n) /\ \A r \in ListedIn(man) : r[2].version =< h
    BY HighestIs
  <1>2. now \in Nat /\ Top \in Nat
    BY VersionsAreNumbers
  <1>3. v = (IF h >= now THEN Successor(h) ELSE now) /\ Successor(h) = IF h >= Top THEN 0 ELSE h + 1
    BY DEF NextVersion, Successor
  <1>4. \A r \in ListedIn(man) : r[2].version \in Nat
    BY DEF Books, IsEntry
  <1> HIDE DEF n, v, h
  <1>5. v \in Nat /\ ~(v =< h) /\ (v = h + 1 \/ v = now)
    BY <1>1, <1>2, <1>3 DEF v, h
  <1>6. \A r \in ListedIn(man) : r[2].version + 1 =< v
    BY <1>1, <1>4, <1>5
  <1>7. Near(v, n + 1)
    <2>1. CASE v = h + 1
      <3>1. PICK c \in Clocks \cup {1} : h =< c + n
        BY <1>1 DEF Near
      <3>2. c \in Nat
        BY VersionsAreNumbers
      <3>3. v =< c + (n + 1)
        BY <1>1, <2>1, <3>1, <3>2
      <3> QED  BY <3>3 DEF Near
    <2>2. CASE v = now
      <3>1. now \in Clocks \cup {1} /\ v =< now + (n + 1)
        BY <1>1, <1>2, <2>2
      <3> QED  BY <3>1 DEF Near
    <2> QED  BY <1>5, <2>1, <2>2
  <1> QED  BY <1>5, <1>6, <1>7 DEF n, v

(***************************************************************************)
(* A generated entry joins the books.                                      *)
(***************************************************************************)
LEMMA CountMore ==
    ASSUME NEW man, Books(man), NEW m \in Modules, NEW e, NEW man2, Extended(man, man2, m, e)
    PROVE  /\ Cardinality(ListedIn(man)) \in Nat /\ Cardinality(ListedIn(man2)) \in Nat
           /\ Cardinality(ListedIn(man2)) =
                IF <<m, e>> \in ListedIn(man) THEN Cardinality(ListedIn(man))
                ELSE Cardinality(ListedIn(man)) + 1
  <1> DEFINE L == ListedIn(man)
             K == ListedIn(man2)
             x == <<m, e>>
  <1>1. K = L \cup {x}
    BY ListedMore
  <1>2. IsFiniteSet(L) /\ Cardinality(L) \in Nat
    BY FS_CardinalityType DEF Books
  <1> HIDE DEF x, L, K
  <1>3. Cardinality(K) = IF x \in L THEN Cardinality(L) ELSE Cardinality(L) + 1
    BY <1>1, <1>2, FS_AddElement
  <1>4. Cardinality(K) \in Nat
    BY <1>2, <1>3
  <1> QED  BY <1>2, <1>3, <1>4 DEF L, K, x


LEMMA SoundMore ==
    ASSUME NEW d, NEW man, NEW fs, NEW sts, Sound(d, man, fs, sts), Books(man),
           NEW m \in Modules, NEW e, e.version \in Nat, Stateful(e),
           \A r \in ListedIn(man) : r[2].version < e.version,
           NEW man2, Extended(man, man2, m, e), NEW b, b = Base(m, e),
           b \in DOMAIN fs, b \in DOMAIN sts, IsSnapshot(Parsed(sts[b])),
           Turns(d, Schema(Replay(man, sts)), fs[b], Schema(Parsed(sts[b])))
    PROVE  Sound(d, man2, fs, sts) /\ Replay(man2, sts) = Parsed(sts[b])
  <1> DEFINE G == GenOf(man)
             H == GenOf(man2)
             sch == Schemas(sts)
             s == SchemaOf(G, sch, Len(ChainOf(G)))
             x == <<m, e>>
  <1>1. H = G \cup {<<m, e>>}
    BY GenMore
  <1>2. IsChain(G) /\ Kept(G, fs, sch) /\ Turning(d, G, fs, sch)
    BY DEF Sound
  <1>3. \A r \in G : r[2].version < e.version
    BY DEF GenOf
  <1>4. s = Schema(Replay(man, sts))
    BY ReplayBuilt
  <1>5. sch[b] = Schema(Parsed(sts[b])) /\ b \in DOMAIN sch
    BY DEF Schemas
  <1>6. Turns(d, s, fs[b], sch[b])
    BY <1>4, <1>5
  <1>7. BaseOf(x) = b
    BY DEF BaseOf
  <1> HIDE DEF G, H, sch, s, x
  <1>8. Kept(H, fs, sch)
    <2>1. \A r \in H : r \in G \/ r = x
      BY <1>1 DEF x
    <2> QED  BY <1>2, <1>5, <1>7, <2>1 DEF Kept
  <1>9. IsChain(H) /\ Turning(d, H, fs, sch)
    <2>1. Turns(d, SchemaOf(G, sch, Len(ChainOf(G))), fs[b], sch[b])
      BY <1>6 DEF s
    <2>2. e.version \in Nat /\ b = Base(m, e)
      OBVIOUS
    <2> QED  BY ONLY <1>1, <1>2, <1>3, <2>1, <2>2, ChainAppend
  <1>10. Newest(H) = x /\ H # {}
    <2>1. H = G \cup {x} /\ x[2] = e
      BY <1>1 DEF x
    <2>2. Newest(H) = x
      BY <1>3, <1>9, <2>1, NewestMore
    <2> QED  BY <2>1, <2>2
  <1>11. Replay(man2, sts) = Parsed(sts[b])
    BY <1>7, <1>10 DEF Replay, H
  <1>12. \A r \in H : IsSnapshot(Parsed(sts[BaseOf(r)]))
    <2>1. \A r \in G : IsSnapshot(Parsed(sts[BaseOf(r)]))
      BY DEF Sound, G
    <2>2. \A r \in H : r \in G \/ r = x
      BY <1>1 DEF x
    <2> QED  BY <1>7, <2>1, <2>2
  <1>13. Sound(d, man2, fs, sts)
    BY <1>8, <1>9, <1>12 DEF Sound, H, sch
  <1> QED  BY <1>11, <1>13

(***************************************************************************)
(* The first states.                                                       *)
(***************************************************************************)
LEMMA NoneListed ==
    ASSUME NEW d, NEW man, man = [m \in Modules |-> <<>>], NEW fs, NEW sts
    PROVE  Books(man) /\ Sound(d, man, fs, sts) /\ ListedIn(man) = {} /\ Replay(man, sts) = Empty
  <1>1. ToSet(<<>>) = {} /\ IsSeq(<<>>)
    BY DEF ToSet, IsSeq
  <1>2. \A m \in Modules : man[m] = <<>>
    OBVIOUS
  <1>3. ListedIn(man) = {} /\ GenOf(man) = {}
    BY <1>1, <1>2 DEF ListedIn, GenOf
  <1>4. IsFiniteSet({})
    BY FS_EmptySet
  <1>5. Books(man)
    BY <1>1, <1>2, <1>3, <1>4 DEF Books
  <1>6. IsChain({})
    BY <1>4 DEF IsChain
  <1>7. DOMAIN ChainOf({}) = {}
    <2>1. ToSet(ChainOf({})) = VersionsOf({})
      BY <1>6, ChainIs
    <2> QED  BY <2>1 DEF VersionsOf, ToSet
  <1>8. Sound(d, man, fs, sts)
    BY <1>3, <1>6, <1>7 DEF Sound, Kept, Turning
  <1> QED  BY <1>3, <1>5, <1>8 DEF Replay

LEMMA ExecAllOne ==
    ASSUME NEW d, NEW s, NEW op
    PROVE  ExecAll(d, s, <<op>>) = Exec(d, s, op)
  <1> DEFINE q == <<op>>
             R == [k \in {0, 1} |-> IF k = 0 THEN s ELSE Exec(d, s, op)]
  <1>1. q \in Seq({op}) /\ Len(q) = 1 /\ q[1] = op
    OBVIOUS
  <1>2. R[0] = s /\ R[1] = Exec(d, s, op)
    OBVIOUS
  <1> HIDE DEF R, q
  <1>3. Passes(d, s, q, R)
    BY <1>1, <1>2 DEF Passes
  <1>4. ExecAll(d, s, q) = R[Len(q)]
    BY <1>1, <1>3, ExecAllIs
  <1> QED  BY <1>1, <1>2, <1>4 DEF q

Legacy == [t \in {1} |-> [module |-> 1, fields |-> LegacyTable]]

LEMMA PlainIs ==
    ASSUME NEW k
    PROVE  /\ Plain(k).type = "int" /\ Plain(k).maxLen = 0 /\ Plain(k).nullable = FALSE
           /\ Plain(k).primaryKey = k /\ Plain(k).unique = FALSE /\ Plain(k).index = FALSE
           /\ DOMAIN Plain(k) = {"type", "maxLen", "nullable", "primaryKey", "unique", "index"}
  BY DEF Plain

LEMMA IntField ==
    ASSUME NEW n \in BOOLEAN, NEW k \in BOOLEAN, NEW u \in BOOLEAN, NEW i \in BOOLEAN
    PROVE  [type |-> "int", maxLen |-> 0, nullable |-> n, primaryKey |-> k,
            unique |-> u, index |-> i] \in Field
  BY DEF Field

LEMMA LegacyField ==
    ASSUME NEW k \in BOOLEAN, NEW n \in BOOLEAN, k => ~n, NEW f, f = [Plain(k) EXCEPT !.nullable = n]
    PROVE  f \in Field /\ ValidField(f) /\ f.primaryKey = k
  <1>1. f = [type |-> "int", maxLen |-> 0, nullable |-> n, primaryKey |-> k,
             unique |-> FALSE, index |-> FALSE]
    BY DEF Plain
  <1>2. f \in Field
    <2>1. FALSE \in BOOLEAN
      OBVIOUS
    <2> QED  BY <1>1, <2>1, IntField
  <1>3. f.maxLen = 0 /\ f.nullable = n /\ f.primaryKey = k /\ f.unique = FALSE /\ f.index = FALSE
    BY <1>1
  <1>4. ValidField(f)
    BY <1>3 DEF ValidField
  <1> QED  BY <1>2, <1>3, <1>4

LEMMA LegacyIs == IsTable(LegacyTable) /\ IsSnapshot(Legacy)
  <1>1. DOMAIN LegacyTable = {1, 2} /\ LegacyTable = [c \in {1, 2} |-> LegacyTable[c]]
    BY DEF LegacyTable
  <1>2. \A c \in {1, 2} : LegacyTable[c] = [Plain(c = 1) EXCEPT !.nullable = (c # 1)]
    BY DEF LegacyTable
  <1>3. \A c \in {1, 2} : /\ LegacyTable[c] \in Field /\ ValidField(LegacyTable[c])
                          /\ LegacyTable[c].primaryKey = (c = 1)
    <2> TAKE c \in {1, 2}
    <2>1. (c = 1) \in BOOLEAN /\ (c # 1) \in BOOLEAN /\ (c = 1 => ~(c # 1))
      OBVIOUS
    <2> QED  BY <1>2, <2>1, LegacyField
  <1>4. {c \in {1, 2} : LegacyTable[c].primaryKey} = {1}
    BY <1>3
  <1>5. IsFiniteSet({1, 2}) /\ IsFiniteSet({1}) /\ Cardinality({1}) = 1
    <2>1. IsFiniteSet({1}) /\ Cardinality({1}) = 1
      BY FS_Singleton
    <2>2. {1, 2} = {1} \cup {2}
      OBVIOUS
    <2>3. IsFiniteSet({1} \cup {2})
      BY <2>1, FS_AddElement
    <2> QED  BY <2>1, <2>2, <2>3
  <1>6. LegacyTable \in [DOMAIN LegacyTable -> Field]
    BY <1>1, <1>3
  <1>7. Valid(LegacyTable)
    BY <1>1, <1>3, <1>4, <1>5 DEF Valid
  <1>8. IsTable(LegacyTable)
    BY <1>1, <1>5, <1>6, <1>7 DEF IsTable, IsColumns
  <1>9. DOMAIN Legacy = {1} /\ Legacy[1].module = 1 /\ Legacy[1].fields = LegacyTable
    BY DEF Legacy
  <1>10. 1 \in Modules
    BY ModulesAreOrdered
  <1> HIDE DEF Legacy
  <1> QED  BY <1>5, <1>8, <1>9, <1>10 DEF IsSnapshot, IsColumns

(* Parsed, the state of format 0 is the table its SQL made. *)
LEMMA LegacyParsed ==
    ASSUME NEW st, st = [v |-> 0, models |-> LegacyState]
    PROVE  Parsed(st) = Legacy
  <1> DEFINE F == [c \in {1, 2} |-> Plain(c = 1)]
             M == [module |-> 1, fields |-> F]
             P == [c \in {1, 2} |-> [F[c] EXCEPT !.nullable = ~F[c].primaryKey]]
  <1>1. st.v = 0 /\ st.models = LegacyState
    OBVIOUS
  <1>2. DOMAIN LegacyState = {1} /\ LegacyState[1] = M
    BY DEF LegacyState
  <1>3. M.fields = F /\ DOMAIN F = {1, 2}
    OBVIOUS
  <1>4. P = LegacyTable
    <2>1. \A c \in {1, 2} : F[c] = Plain(c = 1)
      OBVIOUS
    <2> HIDE DEF F
    <2>2. ASSUME NEW k
          PROVE  [Plain(k) EXCEPT !.nullable = ~Plain(k).primaryKey] = [Plain(k) EXCEPT !.nullable = ~k]
      <3>1. Plain(k).primaryKey = k
        BY PlainIs
      <3> QED  BY <3>1
    <2>3. ASSUME NEW c \in {1, 2}
          PROVE  [F[c] EXCEPT !.nullable = ~F[c].primaryKey] = [Plain(c = 1) EXCEPT !.nullable = (c # 1)]
      <3>1. [Plain(c = 1) EXCEPT !.nullable = ~Plain(c = 1).primaryKey]
              = [Plain(c = 1) EXCEPT !.nullable = ~(c = 1)]
        BY <2>2
      <3> QED  BY <2>1, <3>1
    <2> QED  BY <2>3 DEF LegacyTable
  <1>5. [M EXCEPT !.fields = P] = [module |-> 1, fields |-> P]
    <2> HIDE DEF P, F
    <2> QED  OBVIOUS
  <1>6. Parsed(st) = [t \in {1} |->
            [LegacyState[t] EXCEPT !.fields = [c \in DOMAIN LegacyState[t].fields |->
               [LegacyState[t].fields[c] EXCEPT !.nullable = ~LegacyState[t].fields[c].primaryKey]]]]
    BY <1>1, <1>2 DEF Parsed
  <1>7. [LegacyState[1] EXCEPT !.fields = [c \in DOMAIN LegacyState[1].fields |->
           [LegacyState[1].fields[c] EXCEPT !.nullable = ~LegacyState[1].fields[c].primaryKey]]]
           = [module |-> 1, fields |-> LegacyTable]
    <2> HIDE DEF F
    <2>1. LegacyState[1].fields = F
      BY <1>2, <1>3
    <2>2. [c \in DOMAIN LegacyState[1].fields |->
           [LegacyState[1].fields[c] EXCEPT !.nullable = ~LegacyState[1].fields[c].primaryKey]] = P
      BY <1>3, <2>1
    <2> HIDE DEF P, M
    <2> QED  BY <1>2, <1>4, <1>5, <2>2
  <1>8. Parsed(st) = [t \in {1} |-> [module |-> 1, fields |-> LegacyTable]]
    <2> DEFINE Q(t) == [LegacyState[t] EXCEPT !.fields = [c \in DOMAIN LegacyState[t].fields |->
               [LegacyState[t].fields[c] EXCEPT !.nullable = ~LegacyState[t].fields[c].primaryKey]]]
    <2>1. Parsed(st) = [t \in {1} |-> Q(t)] /\ Q(1) = [module |-> 1, fields |-> LegacyTable]
      BY <1>6, <1>7
    <2> HIDE DEF Q
    <2> QED  BY <2>1
  <1> QED  BY <1>8 DEF Legacy

LEMMA LegacyTurns ==
    ASSUME NEW d, NEW f, f = [up |-> <<CreateTable(1, LegacyTable)>>, down |-> <<DropTable(1)>>]
    PROVE  Turns(d, Schema(Empty), f, Schema(Legacy))
  <1> DEFINE N == [t \in {1} |-> LegacyTable]
  <1>1. f.up = <<CreateTable(1, LegacyTable)>> /\ f.down = <<DropTable(1)>>
    OBVIOUS
  <1>2. Schema(Legacy) = N /\ Schema(Empty) = Empty
    BY EmptyIs DEF Schema, Legacy
  <1>3. Gains(Empty, N, 1, LegacyTable)
    BY EmptyIs DEF Gains, Empty
  <1> HIDE DEF N
  <1>4. Exec(d, [ok |-> TRUE, tables |-> Empty], CreateTable(1, LegacyTable)) = [ok |-> TRUE, tables |-> N]
    BY <1>3, ExecCreate
  <1>5. Exec(d, [ok |-> TRUE, tables |-> N], DropTable(1)) = [ok |-> TRUE, tables |-> Empty]
    BY <1>3, ExecDrop
  <1> QED  BY <1>1, <1>2, <1>4, <1>5, ExecAllOne DEF Turns, Carries, Holds

LEMMA InitInv == ASSUME Init PROVE Inv
  <1>0. registered = Modules /\ run.pc = "idle" /\ run.out = "none"
    BY DEF Init, Idle
  <1>1. CASE /\ declared = Empty
             /\ manifest = [m \in Modules |-> <<>>]
             /\ states = Empty
    <2>0. Formed(states)
      BY <1>1, EmptyIs DEF Formed
    <2>1. Books(manifest) /\ Sound(dialect, manifest, files, states)
      BY <1>1, NoneListed
    <2> QED  BY <1>0, <1>1, <2>0, <2>1, EmptyIs DEF Inv
  <1>2. CASE /\ declared = [t \in {1} |-> [module |-> 1, fields |-> LegacyTable]]
             /\ manifest = [m \in Modules |-> IF m = 1 THEN <<LegacyEntry>> ELSE <<>>]
             /\ files = [b \in {Base(1, LegacyEntry)} |->
                           [up |-> <<CreateTable(1, LegacyTable)>>, down |-> <<DropTable(1)>>]]
             /\ states = [b \in {Base(1, LegacyEntry)} |-> [v |-> 0, models |-> LegacyState]]
    <2> DEFINE man == [m \in Modules |-> <<>>]
               e == LegacyEntry
               b == Base(1, e)
    <2>1. /\ Books(man) /\ Sound(dialect, man, files, states)
          /\ ListedIn(man) = {} /\ Replay(man, states) = Empty
      BY NoneListed
    <2>2. 1 \in Modules
      BY ModulesAreOrdered
    <2>3. Extended(man, manifest, 1, e)
      <3>1. Append(<<>>, e) = <<e>>
        OBVIOUS
      <3>2. man[1] = <<>> /\ manifest[1] = <<e>> /\ \A n \in Modules \ {1} : manifest[n] = man[n]
        BY <1>2, <2>2
      <3>3. manifest = [m \in Modules |-> manifest[m]]
        BY <1>2
      <3> HIDE DEF man
      <3> QED  BY <3>1, <3>2, <3>3 DEF Extended
    <2>4. e.version = 1 /\ e.state = TRUE /\ Stateful(e) /\ e.slug # <<>>
      BY DEF LegacyEntry, Entry, Stateful
    <2>0. Formed(states)
      BY <1>2 DEF Formed
    <2>5. b \in DOMAIN files /\ b \in DOMAIN states /\ states[b] = [v |-> 0, models |-> LegacyState]
          /\ files[b] = [up |-> <<CreateTable(1, LegacyTable)>>, down |-> <<DropTable(1)>>]
      BY <1>2
    <2> HIDE DEF man, e, b
    <2>6. Parsed(states[b]) = Legacy
      BY <2>5, LegacyParsed
    <2>7. Turns(dialect, Schema(Empty), files[b], Schema(Legacy))
      BY <2>5, LegacyTurns
    <2>8. IsSnapshot(Legacy) /\ declared = Legacy
      BY <1>2, LegacyIs DEF Legacy
    <2>9. Sound(dialect, manifest, files, states)
      <3>1. \A r \in ListedIn(man) : r[2].version < e.version
        BY <2>1
      <3>2. e.version \in Nat /\ IsSnapshot(Parsed(states[b]))
            /\ Turns(dialect, Schema(Replay(man, states)), files[b], Schema(Parsed(states[b])))
        BY <2>1, <2>4, <2>6, <2>7, <2>8
      <3> QED  BY <2>1, <2>2, <2>3, <2>4, <2>5, <3>1, <3>2, SoundMore DEF b
    <2>10. Books(manifest)
      <3>1. Cardinality(ListedIn(manifest)) \in Nat
        BY <2>1, <2>2, <2>3, CountMore
      <3>2. 1 =< 1 + Cardinality(ListedIn(manifest)) /\ 1 \in Clocks \cup {1}
        BY <3>1
      <3>3. Near(e.version, Cardinality(ListedIn(manifest)))
        BY <2>4, <3>2 DEF Near
      <3>4. IsEntry(e)
        <4>1. e.version \in Nat
          BY <2>4
        <4>2. e.state \in BOOLEAN
          BY <2>4, Zenon
        <4> QED  BY <2>4, <4>1, <4>2 DEF IsEntry
      <3> QED  BY <2>1, <2>2, <2>3, <3>3, <3>4, BooksMore
    <2> QED  BY <1>0, <2>0, <2>8, <2>9, <2>10 DEF Inv
  <1> QED  BY <1>1, <1>2 DEF Init

(***************************************************************************)
(* The steps between runs.                                                 *)
(***************************************************************************)
LEMMA IdleInv ==
    ASSUME NEW o, run' = Idle(o), o \notin {"done", "nochange"}, registered' = Modules,
           IsSnapshot(declared'), Books(manifest'), Sound(dialect', manifest', files', states'),
           Formed(states')
    PROVE  Inv'
  <1>1. run'.pc = "idle" /\ run'.out = o
    BY DEF Idle
  <1> QED  BY <1>1 DEF Inv

LEMMA EndInv ==
    ASSUME Inv, NEW o, run' = Idle(o), o \notin {"done", "nochange"},
           UNCHANGED <<dialect, registered, declared, tree>>
    PROVE  Inv'
  <1>1. /\ dialect' = dialect /\ registered' = registered /\ declared' = declared
        /\ manifest' = manifest /\ files' = files /\ states' = states
    BY DEF tree
  <1>2. /\ registered = Modules /\ IsSnapshot(declared) /\ Books(manifest)
        /\ Sound(dialect, manifest, files, states) /\ Formed(states)
    BY DEF Inv
  <1>3. /\ registered' = Modules /\ IsSnapshot(declared') /\ Books(manifest')
        /\ Sound(dialect', manifest', files', states') /\ Formed(states')
    BY <1>1, <1>2
  <1> QED  BY <1>3, IdleInv

LEMMA DeclaredIs ==
    ASSUME NEW d \in Declarations
    PROVE  IsSnapshot(d)
  <1>1. /\ ValidSnapshot(d) /\ DOMAIN d \subseteq Nat /\ IsFiniteSet(DOMAIN d)
        /\ \A t \in DOMAIN d :
             /\ d[t].module \in Modules
             /\ d[t].fields \in [DOMAIN d[t].fields -> Field]
             /\ DOMAIN d[t].fields \subseteq Nat /\ IsFiniteSet(DOMAIN d[t].fields)
    BY DeclarationsAreValid
  <1> QED  BY <1>1 DEF IsSnapshot, IsTable, IsColumns, ValidSnapshot

LEMMA DeclareInv == ASSUME Inv, NEW d \in Declarations, Declare(d) PROVE Inv'
  <1>1. /\ run' = Idle("none") /\ declared' = d /\ registered' = Modules /\ dialect' = dialect
        /\ manifest' = manifest /\ files' = files /\ states' = states
    BY DEF Declare, Inv, tree
  <1>2. IsSnapshot(declared')
    BY <1>1, DeclaredIs
  <1>3. Books(manifest) /\ Sound(dialect, manifest, files, states) /\ Formed(states)
    BY DEF Inv
  <1>4. Books(manifest') /\ Sound(dialect', manifest', files', states') /\ Formed(states')
    BY <1>1, <1>3
  <1>5. "none" \notin {"done", "nochange"}
    OBVIOUS
  <1> QED  BY <1>1, <1>2, <1>4, <1>5, IdleInv

LEMMA HandWriteExtends ==
    ASSUME Inv, NEW m \in registered, NEW v \in Clocks, HandWrite(m, v)
    PROVE  Extended(manifest, manifest', m, Entry(v, <<>>, FALSE)) /\ m \in Modules
  <1>1. m \in Modules /\ Books(manifest)
    BY DEF Inv
  <1>2. manifest' = [manifest EXCEPT ![m] = Append(manifest[m], Entry(v, <<>>, FALSE))]
    BY DEF HandWrite
  <1> QED  BY <1>1, <1>2, ExtendedIs

LEMMA HandWriteInv ==
    ASSUME Inv, NEW m \in registered, NEW v \in Clocks, HandWrite(m, v)
    PROVE  Inv'
  <1> DEFINE e == Entry(v, <<>>, FALSE)
             b == Base(m, e)
  <1>1. /\ run' = Idle("none") /\ declared' = declared /\ registered' = Modules /\ dialect' = dialect
        /\ states' = states /\ files' = Put(files, b, [up |-> <<>>, down |-> <<>>])
    BY DEF HandWrite, Inv
  <1>2. Extended(manifest, manifest', m, e) /\ m \in Modules
    BY HandWriteExtends
  <1>3. e.version = v /\ e.state = FALSE /\ e.slug = <<>>
    BY DEF Entry
  <1>4. IsSnapshot(declared) /\ Books(manifest) /\ Sound(dialect, manifest, files, states)
    BY DEF Inv
  <1> HIDE DEF e
  <1>5. v \in Nat /\ IsEntry(e)
    BY <1>3, VersionsAreNumbers DEF IsEntry
  <1>6. Books(manifest')
    <2>1. Cardinality(ListedIn(manifest')) \in Nat
      BY <1>2, <1>4, CountMore
    <2>2. v =< v + Cardinality(ListedIn(manifest')) /\ v \in Clocks \cup {1}
      BY <1>5, <2>1
    <2>3. Near(e.version, Cardinality(ListedIn(manifest')))
      BY <1>3, <2>2 DEF Near
    <2> QED  BY <1>2, <1>4, <1>5, <2>3, BooksMore
  <1>7. GenOf(manifest') = GenOf(manifest)
    BY <1>2, <1>3, <1>4, GenSame
  <1>8. SameFiles(GenOf(manifest), files, files')
    <2> SUFFICES ASSUME NEW r \in GenOf(manifest)
                 PROVE  BaseOf(r) \in DOMAIN files' /\ files'[BaseOf(r)] = files[BaseOf(r)]
      BY DEF SameFiles
    <2>1. r[2].slug # e.slug
      BY <1>3, <1>4 DEF Books, IsEntry, GenOf
    <2>2. BaseOf(r) # b
      BY <2>1, BasesDiffer
    <2>3. BaseOf(r) \in DOMAIN files
      BY <1>4 DEF Sound, Kept
    <2> DEFINE w == [up |-> <<>>, down |-> <<>>]
    <2>4. files' = Put(files, b, w)
      BY <1>1
    <2> HIDE DEF b, w
    <2> QED  BY <2>2, <2>3, <2>4, PutKeeps
  <1>9. SameStates(GenOf(manifest), states, states')
    BY <1>1, <1>4, SameRefl
  <1>10. Sound(dialect', manifest', files', states')
    BY <1>1, <1>4, <1>7, <1>8, <1>9, SoundStable
  <1>11. "none" \notin {"done", "nochange"}
    OBVIOUS
  <1>12. Formed(states')
    BY <1>1 DEF Inv
  <1> QED  BY <1>1, <1>4, <1>6, <1>10, <1>11, <1>12, IdleInv

LEMMA NewerFormatInv ==
    ASSUME Inv, NEW b \in DOMAIN states, NewerFormat(b)
    PROVE  Inv'
  <1>1. /\ run' = Idle("none") /\ declared' = declared /\ registered' = Modules /\ dialect' = dialect
        /\ manifest' = manifest /\ files' = files /\ states[b].v = 1
        /\ states' = [states EXCEPT ![b] = [states[b] EXCEPT !.v = 2]]
    BY DEF NewerFormat, Inv
  <1>2. IsSnapshot(declared) /\ Books(manifest) /\ Sound(dialect, manifest, files, states)
        /\ Formed(states)
    BY DEF Inv
  <1>0. Formed(states')
    BY <1>1, <1>2 DEF Formed
  <1>3. ASSUME NEW x \in DOMAIN states PROVE x \in DOMAIN states' /\ Parsed(states'[x]) = Parsed(states[x])
    <2>1. CASE x # b
      BY <1>1, <2>1
    <2>2. CASE x = b
      <3>1. states'[b] = [states[b] EXCEPT !.v = 2]
        BY <1>1
      <3>2. states'[b].v # 0 /\ states'[b].models = states[b].models /\ states[b].v # 0
        BY <1>1, <1>2, <3>1 DEF Formed
      <3> QED  BY <1>1, <2>2, <3>2 DEF Parsed
    <2> QED  BY <2>1, <2>2
  <1>4. SameStates(GenOf(manifest), states, states') /\ SameFiles(GenOf(manifest), files, files')
    BY <1>1, <1>2, <1>3, SameRefl DEF SameStates, Sound, Kept, Schemas
  <1>5. Sound(dialect', manifest', files', states')
    BY <1>1, <1>2, <1>4, SoundStable
  <1>6. "none" \notin {"done", "nochange"}
    OBVIOUS
  <1> QED  BY <1>0, <1>1, <1>2, <1>5, <1>6, IdleInv

(***************************************************************************)
(* The plan of a run.                                                      *)
(***************************************************************************)
LEMMA PlanOpTable ==
    ASSUME NEW before, NEW after, NEW ren, NEW op \in PlanOps(before, after, ren)
    PROVE  op.table \in DOMAIN before \cup DOMAIN after
  BY PlanOpCases DEF Alteration, Both

(* Renames never leave nothing to do. *)
LEMMA ResolvedSome ==
    ASSUME NEW ops, NEW before, NEW after, IsSnapshot(before), IsSnapshot(after),
           Differences(ops, before, after), NEW yes, Answers(ops, before, yes), ops # <<>>
    PROVE  DOMAIN Resolved(ops, yes) # {}
  <1> DEFINE ren == RenOf(ops, before, after, yes)
  <1>1. 1 \in DOMAIN ops
    <2>1. ops \in Seq(DiffOps(before, after))
      BY DEF Differences
    <2> QED  BY <2>1
  <1>2. \E i \in DOMAIN ops : \E r : Stands(r, ops, yes, i)
    <2>1. CASE yes = {}
      BY <1>1, <2>1 DEF Stands
    <2>2. CASE yes # {}
      <3>1. PICK p \in yes : TRUE
        BY <2>2
      <3>2. p[1] \in DOMAIN ops
        <4>1. Answer(p, ops, before, after)
          BY AnswerIs
        <4> QED  BY <4>1 DEF Answer
      <3> QED  BY <3>2 DEF Stands
    <2> QED  BY <2>1, <2>2
  <1>3. PICK i \in DOMAIN ops : \E r : Stands(r, ops, yes, i)
    BY <1>2
  <1>4. PICK r : Stands(r, ops, yes, i)
    BY <1>3
  <1>5. r \in PlanOps(before, after, ren)
    BY <1>4, StandsPlanned
  <1>6. Planned(Resolved(ops, yes), before, after, ren, DOMAIN before \cup DOMAIN after)
    BY ResolvedPlanned
  <1> HIDE DEF ren
  <1>7. r.table \in DOMAIN before \cup DOMAIN after
    BY <1>5, PlanOpTable
  <1> QED  BY <1>5, <1>6, <1>7 DEF Planned

(* No difference, no change. *)
LEMMA NoDiff ==
    ASSUME NEW before, NEW after, IsSnapshot(before), IsSnapshot(after), Diff(before, after) = <<>>
    PROVE  Schema(before) = Schema(after)
  <1> DEFINE T == DOMAIN before \cup DOMAIN after
             ren == RenOf(<<>>, before, after, {})
  <1>1. Differences(<<>>, before, after)
    BY DiffDiffers
  <1>2. Answers(<<>>, before, {})
    BY DEF Answers, Accepted
  <1>3. Planned(Resolved(<<>>, {}), before, after, ren, T) /\ AreRenamings(before, after, ren)
    BY <1>1, <1>2, ResolvedPlanned, RenOfIs
  <1>4. Resolved(<<>>, {}) = <<>>
    <2>1. [i \in DOMAIN <<>> |-> KeepOf(<<>>, {}, i)] = <<>>
      OBVIOUS
    <2>2. FlattenSeq(<<>>) = <<>>
      BY DEF FlattenSeq
    <2> QED  BY <2>1, <2>2, ResolvedIs
  <1>5. Touched(<<>>, Len(<<>>)) = {}
    BY DEF Touched
  <1>6. Planned(<<>>, before, after, ren, T)
    BY <1>3, <1>4
  <1>7. ASSUME NEW t \in T
        PROVE  /\ t \in DOMAIN before <=> t \in DOMAIN after
               /\ t \in DOMAIN before => before[t].fields = after[t].fields
    <2> HIDE DEF T, ren
    <2> QED  BY <1>3, <1>5, <1>6, UntouchedSame
  <1> QED  BY <1>7 DEF Schema

(* What no owner's plan touches is as declared already. *)
LEMMA BlendStart ==
    ASSUME NEW ops, NEW before, NEW ren, IsSnapshot(before), IsSnapshot(declared),
           Planned(ops, before, declared, ren, DOMAIN before \cup DOMAIN declared),
           AreRenamings(before, declared, ren),
           NEW M, M = {OwnerOf(ops[i].table, before) : i \in DOMAIN ops}
    PROVE  Schema(before) = Blend(before, declared, Owned(before, declared, M))
  <1> DEFINE T == DOMAIN before \cup DOMAIN declared
             U == Owned(before, declared, M)
  <1>1. ASSUME NEW t \in T, t \notin U
        PROVE  /\ t \in DOMAIN before <=> t \in DOMAIN declared
               /\ t \in DOMAIN before => before[t].fields = declared[t].fields
    <2>1. DOMAIN ops = 1..Len(ops)
      BY DEF Planned
    <2>2. t \notin Touched(ops, Len(ops))
      BY <1>1, <2>1, OwnerIs DEF Touched, Owned
    <2> QED  BY <2>2, UntouchedSame
  <1>2. U \subseteq T
    BY DEF Owned
  <1> HIDE DEF U
  <1>3. DOMAIN before = (DOMAIN before \cap U) \cup {x \in DOMAIN declared : x \notin U}
    BY <1>1, <1>2
  <1>4. \A t \in DOMAIN before : before[t].fields = IF t \in U THEN before[t].fields ELSE declared[t].fields
    BY <1>1
  <1>5. Schema(before) = Blend(before, declared, U)
    BY <1>3, <1>4 DEF Schema, Blend
  <1> QED  BY <1>5 DEF U

LEMMA OwnersAre ==
    ASSUME NEW ops, NEW before, NEW ren, NEW T, IsSnapshot(before), IsSnapshot(declared),
           Planned(ops, before, declared, ren, T), T = DOMAIN before \cup DOMAIN declared,
           NEW M, M = {OwnerOf(ops[i].table, before) : i \in DOMAIN ops}
    PROVE  /\ M \in SUBSET Modules
           /\ \A m \in M : /\ ByModule(ops, before, m) # <<>>
                           /\ Planned(ByModule(ops, before, m), before, declared, ren,
                                      Owned(before, declared, {m}))
  <1>1. \A i \in DOMAIN ops : ops[i].table \in T /\ ops[i] \in PlanOps(before, declared, ren)
    BY DEF Planned
  <1>2. M \in SUBSET Modules
    BY <1>1 DEF OwnerOf, IsSnapshot
  <1>3. ASSUME NEW m \in M
        PROVE  /\ ByModule(ops, before, m) # <<>>
               /\ Planned(ByModule(ops, before, m), before, declared, ren, Owned(before, declared, {m}))
    <2> DEFINE U == Owned(before, declared, {m})
               s == ByModule(ops, before, m)
    <2>1. {t \in T : OwnerOf(t, before) = m} = U
      BY OwnerIs DEF Owned
    <2>2. Planned(s, before, declared, ren, {t \in T : OwnerOf(t, before) = m})
      BY ByModulePlanned
    <2>3. PICK i \in DOMAIN ops : OwnerOf(ops[i].table, before) = m
      OBVIOUS
    <2>4. ops[i].table \in U
      BY <1>1, <2>1, <2>3
    <2> HIDE DEF U, s
    <2>5. Planned(s, before, declared, ren, U)
      BY <2>1, <2>2
    <2>6. \E x \in DOMAIN s : s[x] = ops[i]
      BY <1>1, <2>4, <2>5 DEF Planned
    <2>7. s # <<>>
      BY <2>6
    <2> QED  BY <2>5, <2>7 DEF U, s
  <1> QED  BY <1>2, <1>3

LEMMA PlanFields ==
    ASSUME NEW ops, NEW before, NEW now, NEW r, r = Plan(ops, before, now),
           NEW M, M = {OwnerOf(ops[i].table, before) : i \in DOMAIN ops}
    PROVE  /\ DOMAIN r = {"pc", "out", "todo", "ops", "before", "cumulative", "version", "loaded"}
           /\ r.pc = "module" /\ r.out = "none" /\ r.todo = Sorted(M)
           /\ DOMAIN r.ops = M /\ \A m \in M : r.ops[m] = ByModule(ops, before, m)
           /\ r.before = before /\ r.cumulative = before
           /\ r.version = NextVersion(Loaded, now) /\ r.loaded = Loaded
  BY DEF Plan

LEMMA LoadedIs ==
    ASSUME registered = Modules, Books(manifest)
    PROVE  Loaded = manifest
  BY DEF Loaded, Books

LEMMA PlanRuns ==
    ASSUME Inv, torn = {}, ~ReplayFails, NEW now \in Clocks, NEW before, before = ReplayState,
           NEW ops, ops = Diff(before, declared), ops # <<>>, NEW yes, Answers(ops, before, yes),
           ~(NextVersion(Loaded, now) =< Highest(Loaded)), Cardinality(Listed) < MaxEntries,
           NEW r, r = Plan(Resolved(ops, yes), before, now)
    PROVE  Runs(r, dialect, declared, manifest, files, states)
  <1> DEFINE R == Resolved(ops, yes)
             T == DOMAIN before \cup DOMAIN declared
             ren == RenOf(ops, before, declared, yes)
             M == {OwnerOf(R[i].table, before) : i \in DOMAIN R}
  <1>0. /\ registered = Modules /\ IsSnapshot(declared) /\ Books(manifest)
        /\ Sound(dialect, manifest, files, states)
    BY DEF Inv
  <1>1. /\ before = Replay(manifest, states) /\ IsSnapshot(before)
        /\ ~Twice(manifest) /\ Legible(manifest, states)
    BY <1>0, ReplayIs, ReplayBuilt
  <1>2. Loaded = manifest
    BY <1>0, LoadedIs
  <1>3. Differences(ops, before, declared)
    BY <1>0, <1>1, DiffDiffers
  <1>4. Planned(R, before, declared, ren, T) /\ AreRenamings(before, declared, ren)
    BY <1>0, <1>1, <1>3, ResolvedPlanned, RenOfIs
  <1>5. DOMAIN R # {}
    BY <1>0, <1>1, <1>3, ResolvedSome
  <1>6. M # {}
    BY <1>5
  <1> HIDE DEF R, T, ren
  <1>7. /\ DOMAIN r = {"pc", "out", "todo", "ops", "before", "cumulative", "version", "loaded"}
        /\ r.pc = "module" /\ r.out = "none" /\ r.todo = Sorted(M)
        /\ DOMAIN r.ops = M /\ (\A m \in M : r.ops[m] = ByModule(R, before, m))
        /\ r.before = before /\ r.cumulative = before
        /\ r.version = NextVersion(manifest, now) /\ r.loaded = manifest
    <2>1. M = {OwnerOf(R[i].table, before) : i \in DOMAIN R} /\ r = Plan(R, before, now)
      BY DEF R
    <2> HIDE DEF M
    <2> DEFINE Conclusion ==
          /\ DOMAIN r = {"pc", "out", "todo", "ops", "before", "cumulative", "version", "loaded"}
          /\ r.pc = "module" /\ r.out = "none" /\ r.todo = Sorted(M)
          /\ DOMAIN r.ops = M /\ (\A m \in M : r.ops[m] = ByModule(R, before, m))
          /\ r.before = before /\ r.cumulative = before
          /\ r.version = NextVersion(Loaded, now) /\ r.loaded = Loaded
    <2>2. Conclusion
      BY ONLY <2>1, PlanFields
    <2> QED  BY <1>2, <2>2
  <1>8. /\ M \in SUBSET Modules
        /\ \A m \in M : /\ ByModule(R, before, m) # <<>>
                        /\ Planned(ByModule(R, before, m), before, declared, ren,
                                   Owned(before, declared, {m}))
    BY <1>0, <1>1, <1>4, OwnersAre DEF T
  <1>9. Schema(before) = Blend(before, declared, Owned(before, declared, M))
    BY <1>0, <1>1, <1>4, BlendStart DEF T
  <1> HIDE DEF M
  <1>10. Modules \in SUBSET Nat /\ IsFiniteSet(Modules) /\ IsFiniteSet(M) /\ M \in SUBSET Nat
    BY <1>8, ModulesAreOrdered, FS_Subset
  <1>11. Ascends(Sorted(M), M) /\ Len(Sorted(M)) =< Cardinality(Modules)
    BY <1>8, <1>10, SortedAscends, SortedLength
  <1>12. r.todo \in Seq(Nat) /\ ToSet(r.todo) = M /\ r.todo # <<>>
         /\ \A i, j \in DOMAIN r.todo : i < j => r.todo[i] < r.todo[j]
    <2>1. ToSet(<<>>) = {}
      BY DEF ToSet
    <2> QED  BY <1>6, <1>7, <1>11, <2>1 DEF Ascends
  <1>13. Shaped(r)
    BY <1>1, <1>7, <1>8, <1>12 DEF Shaped, RunSteps
  <1>14. Plans(r, declared)
    BY <1>4, <1>7, <1>8 DEF Plans
  <1>15. Blends(r, declared, manifest, states)
    <2>1. Unmerged(r) = M /\ Unlisted(r) = M
      BY <1>7, <1>12 DEF Unmerged, Unlisted
    <2> QED  BY <1>1, <1>7, <1>9, <2>1 DEF Blends
  <1>16. Counts(r, manifest)
    <2> DEFINE n == Cardinality(ListedIn(manifest))
               k == IF r.pc = "all" THEN 0 ELSE 1
    <2>1. k = 1
      BY <1>7
    <2>2. n \in Nat /\ n < MaxEntries
      BY <1>0, HighestIs, ListedIs
    <2>3. r.version \in Nat /\ Near(r.version, n + 1)
          /\ \A x \in ListedIn(manifest) : x[2].version + 1 =< r.version
      BY <1>0, <1>2, <1>7, NextVersionIs
    <2>4. Cardinality(Modules) \in Nat /\ MaxEntries \in Nat
      BY <1>10, FS_CardinalityType, VersionsAreNumbers
    <2>5. Len(r.todo) \in Nat /\ Len(r.todo) =< Cardinality(Modules)
      BY <1>7, <1>11, <1>12
    <2>6. n + Len(r.todo) + 1 =< MaxEntries + Cardinality(Modules)
      <3> HIDE DEF n
      <3> QED  BY <2>2, <2>4, <2>5
    <2> QED  BY <2>1, <2>3, <2>6 DEF Counts
  <1>17. Writes(r, dialect, files, states)
    BY <1>7 DEF Writes
  <1> QED  BY <1>1, <1>7, <1>13, <1>14, <1>15, <1>16, <1>17 DEF Runs

LEMMA StartInv ==
    ASSUME Inv, torn = {}, NEW interactive \in BOOLEAN, NEW now \in Clocks, Start(interactive, now)
    PROVE  Inv'
  <1> DEFINE before == ReplayState
             ops == Diff(before, declared)
             cands == Candidates(ops, before)
  <1>0. /\ registered = Modules /\ IsSnapshot(declared) /\ Books(manifest)
        /\ Sound(dialect, manifest, files, states) /\ Formed(states)
    BY DEF Inv
  <1>1. UNCHANGED <<dialect, registered, declared, tree>> /\ ~ReplayFails
    BY DEF Start
  <1>2. /\ dialect' = dialect /\ registered' = registered /\ declared' = declared
        /\ manifest' = manifest /\ files' = files /\ states' = states
    BY <1>1 DEF tree
  <1>3. \/ ops = <<>> /\ run' = Idle("nochange")
        \/ run' = Idle("refused")
        \/ /\ ops # <<>>
           /\ \E yes \in Accepted(cands) :
                /\ \A p \in yes : ~Constrained(before[ops[p[1]].table].fields[ops[p[1]].column])
                /\ ~(NextVersion(Loaded, now) =< Highest(Loaded))
                /\ Cardinality(Listed) < MaxEntries
                /\ run' = Plan(Resolved(ops, yes), before, now)
    BY DEF Start
  <1>4. CASE run' = Idle("refused")
    <2>1. "refused" \notin {"done", "nochange"}
      OBVIOUS
    <2> QED  BY <1>1, <1>4, <2>1, EndInv
  <1>5. CASE ops = <<>> /\ run' = Idle("nochange")
    <2>1. run'.pc = "idle"
      BY <1>5 DEF Idle
    <2>2. /\ before = Replay(manifest, states) /\ IsSnapshot(before)
          /\ ~Twice(manifest) /\ Legible(manifest, states)
      BY <1>0, <1>1, ReplayIs, ReplayBuilt
    <2>3. Schema(before) = Schema(declared)
      BY <1>0, <1>5, <2>2, NoDiff
    <2>4. Current(declared, manifest, states)
      BY <2>2, <2>3 DEF Current
    <2>5. Current(declared', manifest', states')
      BY <1>2, <2>4
    <2> QED  BY <1>0, <1>2, <2>1, <2>5 DEF Inv
  <1>6. CASE /\ ops # <<>>
             /\ \E yes \in Accepted(cands) :
                  /\ \A p \in yes : ~Constrained(before[ops[p[1]].table].fields[ops[p[1]].column])
                  /\ ~(NextVersion(Loaded, now) =< Highest(Loaded))
                  /\ Cardinality(Listed) < MaxEntries
                  /\ run' = Plan(Resolved(ops, yes), before, now)
    <2>1. PICK yes \in Accepted(cands) :
             /\ \A p \in yes : ~Constrained(before[ops[p[1]].table].fields[ops[p[1]].column])
             /\ ~(NextVersion(Loaded, now) =< Highest(Loaded))
             /\ Cardinality(Listed) < MaxEntries
             /\ run' = Plan(Resolved(ops, yes), before, now)
      BY <1>6
    <2>2. Answers(ops, before, yes) /\ ops # <<>>
      BY <1>6, <2>1 DEF Answers
    <2> HIDE DEF ops, before, cands
    <2>3. Runs(run', dialect, declared, manifest, files, states)
      BY <1>1, <2>1, <2>2, PlanRuns DEF ops, before
    <2>4. Runs(run', dialect', declared', manifest', files', states')
      BY <1>2, <2>3
    <2>5. run'.pc # "idle"
      BY <2>3 DEF Runs, Shaped, RunSteps
    <2> QED  BY <1>0, <1>2, <2>4, <2>5 DEF Inv
  <1> QED  BY <1>3, <1>4, <1>5, <1>6

(***************************************************************************)
(* The steps of a run.                                                     *)
(***************************************************************************)
LEMMA RunIs ==
    ASSUME Inv, run.pc # "idle"
    PROVE  /\ registered = Modules /\ IsSnapshot(declared) /\ Books(manifest)
           /\ Sound(dialect, manifest, files, states) /\ Formed(states)
           /\ Shaped(run) /\ Plans(run, declared) /\ Blends(run, declared, manifest, states)
           /\ Counts(run, manifest) /\ Writes(run, dialect, files, states)
           /\ run.loaded = manifest /\ ~Twice(manifest) /\ Legible(manifest, states)
  BY DEF Inv, Runs

LEMMA InIs ==
    Module = Head(run.todo) /\ Ops = OpsIn(run) /\ ThisEntry = EntryIn(run)
    /\ ThisBase = BaseIn(run) /\ Down = DownIn(run)
  <1>1. Module = Head(run.todo)
    BY DEF Module
  <1>2. Ops = OpsIn(run)
    BY <1>1 DEF Ops, OpsIn
  <1>3. ThisEntry = EntryIn(run)
    BY <1>2 DEF ThisEntry, EntryIn
  <1>4. Down = DownIn(run)
    BY <1>2 DEF Down, DownIn
  <1> QED  BY <1>1, <1>2, <1>3, <1>4 DEF ThisBase, BaseIn

(* A step that leaves the task at hand. *)
SameTask(r, r2) == r2.todo = r.todo /\ r2.ops = r.ops /\ r2.before = r.before /\ r2.version = r.version

LEMMA TaskSame ==
    ASSUME NEW r, NEW r2, SameTask(r, r2)
    PROVE  OpsIn(r2) = OpsIn(r) /\ EntryIn(r2) = EntryIn(r) /\ BaseIn(r2) = BaseIn(r) /\ DownIn(r2) = DownIn(r)
  <1>1. r2.todo = r.todo /\ r2.ops = r.ops /\ r2.before = r.before /\ r2.version = r.version
    BY DEF SameTask
  <1>2. OpsIn(r2) = OpsIn(r)
    BY <1>1 DEF OpsIn
  <1>3. EntryIn(r2) = EntryIn(r)
    BY <1>1, <1>2 DEF EntryIn
  <1>4. DownIn(r2) = DownIn(r)
    BY <1>1, <1>2 DEF DownIn
  <1> QED  BY <1>1, <1>2, <1>3, <1>4 DEF BaseIn

LEMMA TaskCounts ==
    ASSUME NEW r, NEW r2, SameTask(r, r2), r.pc # "all", r2.pc # "all", NEW man, Counts(r, man)
    PROVE  Counts(r2, man)
  BY DEF SameTask, Counts

LEMMA TaskPlans ==
    ASSUME NEW r, NEW r2, SameTask(r, r2), NEW dec, Plans(r, dec)
    PROVE  Plans(r2, dec)
  BY DEF SameTask, Plans

LEMMA SlugSome ==
    ASSUME NEW X, NEW s \in Seq(X), s # <<>>
    PROVE  [i \in DOMAIN s |-> Describe(s[i])] # <<>>
  <1>1. 1 \in DOMAIN s
    OBVIOUS
  <1>2. DOMAIN [i \in DOMAIN s |-> Describe(s[i])] = DOMAIN s /\ DOMAIN <<>> = {}
    OBVIOUS
  <1> QED  BY <1>1, <1>2

(* The entry at hand is above every listed one. *)
LEMMA EntryAbove ==
    ASSUME NEW r, NEW man, Books(man), Shaped(r), r.pc # "all", Counts(r, man), NEW dec, Plans(r, dec)
    PROVE  /\ EntryIn(r).version = r.version /\ r.version \in Nat
           /\ EntryIn(r).state = TRUE /\ EntryIn(r).slug # <<>>
           /\ \A x \in ListedIn(man) : x[2].version < r.version /\ BaseOf(x) # BaseIn(r)
           /\ Head(r.todo) \in Modules
  <1>1. EntryIn(r).version = r.version /\ EntryIn(r).state = TRUE
        /\ EntryIn(r).slug = [i \in DOMAIN OpsIn(r) |-> Describe(OpsIn(r)[i])]
    BY DEF EntryIn, Entry
  <1>2. r.version \in Nat /\ \A x \in ListedIn(man) : x[2].version + 1 =< r.version
    BY DEF Counts
  <1>3. \A x \in ListedIn(man) : x[2].version \in Nat
    BY DEF Books, IsEntry
  <1>4. \A x \in ListedIn(man) : x[2].version < r.version
    BY <1>2, <1>3
  <1>5. \A x \in ListedIn(man) : BaseOf(x) # BaseIn(r)
    <2> TAKE x \in ListedIn(man)
    <2>1. x[2].version # EntryIn(r).version
      BY <1>1, <1>2, <1>3, <1>4
    <2> QED  BY <2>1, BasesDiffer DEF BaseIn
  <1>6. Head(r.todo) \in ToSet(r.todo)
    BY QueueIs DEF Shaped
  <1>7. Head(r.todo) \in Modules /\ OpsIn(r) # <<>>
    BY <1>6 DEF Shaped, OpsIn
  <1>8. \E X : OpsIn(r) \in Seq(X)
    <2>1. Head(r.todo) \in DOMAIN r.ops
      BY <1>6 DEF Shaped
    <2> QED  BY <2>1 DEF Plans, Planned, OpsIn
  <1>9. EntryIn(r).slug # <<>>
    BY <1>1, <1>7, <1>8, SlugSome
  <1> QED  BY <1>1, <1>2, <1>4, <1>5, <1>7, <1>9

LEMMA RenderInv == ASSUME Inv, Render PROVE Inv'
  <1>0. /\ run.pc = "module" /\ run.pc # "idle"
        /\ dialect' = dialect /\ registered' = registered /\ declared' = declared
        /\ manifest' = manifest /\ files' = files /\ states' = states
    BY DEF Render, tree
  <1>1. /\ registered = Modules /\ IsSnapshot(declared) /\ Books(manifest)
        /\ Sound(dialect, manifest, files, states) /\ Formed(states)
        /\ Shaped(run) /\ Plans(run, declared) /\ Blends(run, declared, manifest, states)
        /\ Counts(run, manifest) /\ Writes(run, dialect, files, states)
        /\ run.loaded = manifest /\ ~Twice(manifest) /\ Legible(manifest, states)
    BY <1>0, RunIs
  <1>2. CASE run' = Idle("refused")
    <2>1. "refused" \notin {"done", "nochange"} /\ UNCHANGED <<dialect, registered, declared, tree>>
      BY DEF Render
    <2> QED  BY <1>2, <2>1, EndInv
  <1>3. CASE Rendered /\ run' = [run EXCEPT !.pc = "go", !.cumulative = SnapshotAfter(@, Ops)]
    <2> DEFINE r == run
               r2 == run'
               cum == SnapshotAfter(run.cumulative, Ops)
               H == Owned(run.before, declared, {Head(run.todo)})
               U == Owned(run.before, declared, ToSet(run.todo))
               W == Owned(run.before, declared, ToSet(Tail(run.todo)))
    <2>1. DOMAIN run = {"pc", "out", "todo", "ops", "before", "cumulative", "version", "loaded"}
      BY <1>1 DEF Shaped
    <2>2. /\ DOMAIN run' = DOMAIN run /\ run'.pc = "go" /\ run'.out = run.out /\ run'.todo = run.todo
          /\ run'.ops = run.ops /\ run'.before = run.before /\ run'.version = run.version
          /\ run'.loaded = run.loaded /\ run'.cumulative = cum
      BY <1>3, <2>1
    <2> HIDE DEF cum
    <2>3. SameTask(run, run')
      BY <2>2 DEF SameTask
    <2>4. IsSnapshot(cum)
      BY <1>1, AfterSnapshot DEF cum, Shaped
    <2>5. Shaped(run')
      BY <1>1, <2>2, <2>4 DEF Shaped, RunSteps
    <2>6. Plans(run', declared) /\ Counts(run', manifest)
      BY <1>0, <1>1, <2>2, <2>3, TaskPlans, TaskCounts
    <2>7. H \subseteq U /\ W = U \ H
      BY <1>1, OwnedRest DEF Shaped
    <2>8. /\ Schema(run.cumulative) = Blend(run.before, declared, U)
          /\ Schema(Replay(manifest, states)) = Blend(run.before, declared, U)
      BY <1>0, <1>1 DEF Blends, Unmerged, Unlisted
    <2>9. PICK ren : AreRenamings(run.before, declared, ren)
                     /\ \A m \in DOMAIN run.ops : Planned(run.ops[m], run.before, declared, ren,
                                                          Owned(run.before, declared, {m}))
      BY <1>1 DEF Plans
    <2>10. Head(run.todo) \in DOMAIN run.ops
      BY <1>1, QueueIs DEF Shaped
    <2>11. Planned(Ops, run.before, declared, ren, H)
      BY <2>9, <2>10, InIs DEF OpsIn
    <2> HIDE DEF H, U, W
    <2>12. Agrees(Blend(run.before, declared, U), H, run.before)
           /\ Final(Blend(run.before, declared, U), H, declared) = Blend(run.before, declared, W)
      BY <2>7, BlendAgrees, BlendFinal
    <2>13. Schema(cum) = Blend(run.before, declared, W)
      <3>1. Schema(cum) = Final(Schema(run.cumulative), H, declared)
        BY <1>1, <2>8, <2>9, <2>11, <2>12, AfterIs DEF cum, Shaped
      <3> QED  BY <2>8, <2>12, <3>1
    <2>14. Blends(run', declared, manifest, states)
      <3>1. Unmerged(run') = ToSet(Tail(run.todo)) /\ Unlisted(run') = ToSet(run.todo)
        BY <2>2 DEF Unmerged, Unlisted
      <3> QED  BY <2>2, <2>8, <2>13, <3>1 DEF Blends, U, W
    <2>15. Writes(run', dialect, files, states)
      <3>1. \A i \in DOMAIN OpsIn(run') : Renders(dialect, OpsIn(run')[i])
        BY <1>3, <2>3, TaskSame, InIs DEF Rendered
      <3> QED  BY <2>2, <3>1 DEF Writes
    <2>16. Runs(run', dialect, declared, manifest, files, states)
      BY <1>1, <2>2, <2>5, <2>6, <2>14, <2>15 DEF Runs
    <2>17. Runs(run', dialect', declared', manifest', files', states')
      BY <1>0, <2>16
    <2> QED  BY <1>0, <1>1, <2>2, <2>17 DEF Inv
  <1> QED  BY <1>2, <1>3 DEF Render

LEMMA WriteGoInv == ASSUME Inv, WriteGo PROVE Inv'
  <1> DEFINE w == [up |-> Ops, down |-> Down]
  <1>0. /\ run.pc = "go" /\ run.pc # "idle" /\ run.pc # "all" /\ run' = [run EXCEPT !.pc = "state"]
        /\ files' = Put(files, ThisBase, w)
        /\ dialect' = dialect /\ registered' = registered /\ declared' = declared
        /\ manifest' = manifest /\ states' = states
    BY DEF WriteGo
  <1>1. /\ registered = Modules /\ IsSnapshot(declared) /\ Books(manifest)
        /\ Sound(dialect, manifest, files, states) /\ Formed(states)
        /\ Shaped(run) /\ Plans(run, declared) /\ Blends(run, declared, manifest, states)
        /\ Counts(run, manifest) /\ Writes(run, dialect, files, states)
        /\ run.loaded = manifest /\ ~Twice(manifest) /\ Legible(manifest, states)
    BY <1>0, RunIs
  <1>2. DOMAIN run = {"pc", "out", "todo", "ops", "before", "cumulative", "version", "loaded"}
    BY <1>1 DEF Shaped
  <1>3. /\ DOMAIN run' = DOMAIN run /\ run'.pc = "state" /\ run'.out = run.out /\ run'.todo = run.todo
        /\ run'.ops = run.ops /\ run'.before = run.before /\ run'.version = run.version
        /\ run'.loaded = run.loaded /\ run'.cumulative = run.cumulative
    BY <1>0, <1>2
  <1>4. SameTask(run, run')
    BY <1>3 DEF SameTask
  <1>5. Shaped(run')
    BY <1>1, <1>3 DEF Shaped, RunSteps
  <1>6. Plans(run', declared) /\ Counts(run', manifest)
    BY <1>0, <1>1, <1>3, <1>4, TaskPlans, TaskCounts
  <1>7. w = [up |-> OpsIn(run), down |-> DownIn(run)] /\ ThisBase = BaseIn(run)
    BY InIs
  <1> HIDE DEF w
  <1>8. SameFiles(GenOf(manifest), files, files')
    <2> SUFFICES ASSUME NEW x \in GenOf(manifest)
                 PROVE  BaseOf(x) \in DOMAIN files' /\ files'[BaseOf(x)] = files[BaseOf(x)]
      BY DEF SameFiles
    <2>1. BaseOf(x) # BaseIn(run)
      BY <1>0, <1>1, EntryAbove DEF GenOf
    <2>2. BaseOf(x) \in DOMAIN files
      BY <1>1 DEF Sound, Kept
    <2>3. files' = Put(files, BaseIn(run), w)
      BY <1>0, <1>7
    <2> QED  BY <2>1, <2>2, <2>3, PutKeeps
  <1>9. SameStates(GenOf(manifest), states, states')
    BY <1>0, <1>1, SameRefl
  <1>10. Sound(dialect, manifest, files', states)
    BY <1>0, <1>1, <1>8, <1>9, SoundStable
  <1>11. Blends(run', declared, manifest, states)
    <2>1. Unmerged(run') = Unmerged(run) /\ Unlisted(run') = Unlisted(run)
      BY <1>0, <1>3 DEF Unmerged, Unlisted
    <2> QED  BY <1>1, <1>3, <2>1 DEF Blends
  <1>12. Writes(run', dialect, files', states)
    <2>1. OpsIn(run') = OpsIn(run) /\ BaseIn(run') = BaseIn(run) /\ DownIn(run') = DownIn(run)
      BY <1>4, TaskSame
    <2>2. \A i \in DOMAIN OpsIn(run') : Renders(dialect, OpsIn(run')[i])
      BY <1>0, <1>1, <2>1 DEF Writes
    <2>3. BaseIn(run) \in DOMAIN files' /\ files'[BaseIn(run)] = w
      BY <1>0, <1>7, PutThere
    <2> QED  BY <1>3, <1>7, <2>1, <2>2, <2>3 DEF Writes
  <1>13. Runs(run', dialect, declared, manifest, files', states)
    BY <1>1, <1>3, <1>5, <1>6, <1>11, <1>12 DEF Runs
  <1>14. Runs(run', dialect', declared', manifest', files', states')
         /\ Sound(dialect', manifest', files', states')
    BY <1>0, <1>10, <1>13
  <1> QED  BY <1>0, <1>1, <1>3, <1>14 DEF Inv

LEMMA WriteStateInv == ASSUME Inv, WriteState PROVE Inv'
  <1> DEFINE w == [v |-> 1, models |-> run.cumulative]
  <1>0. /\ run.pc = "state" /\ run.pc # "idle" /\ run.pc # "all" /\ run' = [run EXCEPT !.pc = "manifest"]
        /\ states' = Put(states, ThisBase, w)
        /\ dialect' = dialect /\ registered' = registered /\ declared' = declared
        /\ manifest' = manifest /\ files' = files
    BY DEF WriteState
  <1>1. /\ registered = Modules /\ IsSnapshot(declared) /\ Books(manifest)
        /\ Sound(dialect, manifest, files, states) /\ Formed(states)
        /\ Shaped(run) /\ Plans(run, declared) /\ Blends(run, declared, manifest, states)
        /\ Counts(run, manifest) /\ Writes(run, dialect, files, states)
        /\ run.loaded = manifest /\ ~Twice(manifest) /\ Legible(manifest, states)
    BY <1>0, RunIs
  <1>2. DOMAIN run = {"pc", "out", "todo", "ops", "before", "cumulative", "version", "loaded"}
    BY <1>1 DEF Shaped
  <1>3. /\ DOMAIN run' = DOMAIN run /\ run'.pc = "manifest" /\ run'.out = run.out /\ run'.todo = run.todo
        /\ run'.ops = run.ops /\ run'.before = run.before /\ run'.version = run.version
        /\ run'.loaded = run.loaded /\ run'.cumulative = run.cumulative
    BY <1>0, <1>2
  <1>4. SameTask(run, run')
    BY <1>3 DEF SameTask
  <1>5. Shaped(run')
    BY <1>1, <1>3 DEF Shaped, RunSteps
  <1>6. Plans(run', declared) /\ Counts(run', manifest)
    BY <1>0, <1>1, <1>3, <1>4, TaskPlans, TaskCounts
  <1>7. ThisBase = BaseIn(run) /\ DOMAIN w = {"v", "models"}
    BY InIs
  <1> HIDE DEF w
  <1>8. ASSUME NEW x \in GenOf(manifest)
        PROVE  BaseOf(x) \in DOMAIN states' /\ states'[BaseOf(x)] = states[BaseOf(x)]
    <2>1. BaseOf(x) # BaseIn(run)
      BY <1>0, <1>1, EntryAbove DEF GenOf
    <2>2. BaseOf(x) \in DOMAIN states
      BY <1>1 DEF Legible
    <2>3. states' = Put(states, BaseIn(run), w)
      BY <1>0, <1>7
    <2> QED  BY <2>1, <2>2, <2>3, PutKeeps
  <1>9. SameStates(GenOf(manifest), states, states') /\ Legible(manifest, states')
    BY <1>1, <1>8 DEF SameStates, Legible
  <1>10. Sound(dialect, manifest, files, states') /\ Replay(manifest, states') = Replay(manifest, states)
    BY <1>1, <1>9, SameRefl, SoundStable
  <1>11. Blends(run', declared, manifest, states')
    <2>1. Unmerged(run') = Unmerged(run) /\ Unlisted(run') = Unlisted(run)
      BY <1>0, <1>3 DEF Unmerged, Unlisted
    <2> QED  BY <1>1, <1>3, <1>10, <2>1 DEF Blends
  <1>12. Writes(run', dialect, files, states')
    <2>1. OpsIn(run') = OpsIn(run) /\ BaseIn(run') = BaseIn(run) /\ DownIn(run') = DownIn(run)
      BY <1>4, TaskSame
    <2>2. /\ \A i \in DOMAIN OpsIn(run') : Renders(dialect, OpsIn(run')[i])
          /\ BaseIn(run') \in DOMAIN files
          /\ files[BaseIn(run')] = [up |-> OpsIn(run'), down |-> DownIn(run')]
      BY <1>0, <1>1, <2>1 DEF Writes
    <2>3. BaseIn(run) \in DOMAIN states' /\ states'[BaseIn(run)] = w
      BY <1>0, <1>7, PutThere
    <2>4. w = [v |-> 1, models |-> run'.cumulative]
      BY <1>3 DEF w
    <2> QED  BY <2>1, <2>2, <2>3, <2>4 DEF Writes
  <1>13. Formed(states')
    <2>1. DOMAIN states' = DOMAIN states \cup {ThisBase} /\ states'[ThisBase] = w
          /\ \A z \in DOMAIN states : z # ThisBase => states'[z] = states[z]
      BY <1>0 DEF Put
    <2> QED  BY <1>1, <1>7, <2>1 DEF Formed
  <1>14. Runs(run', dialect, declared, manifest, files, states')
    BY <1>1, <1>3, <1>5, <1>6, <1>9, <1>11, <1>12 DEF Runs
  <1>15. Runs(run', dialect', declared', manifest', files', states')
         /\ Sound(dialect', manifest', files', states')
    BY <1>0, <1>10, <1>14
  <1> QED  BY <1>0, <1>1, <1>3, <1>13, <1>15 DEF Inv

LEMMA PlannedReverts ==
    ASSUME NEW d, NEW S, NEW T, NEW ops, NEW before, NEW after, NEW ren,
           IsSnapshot(before), IsSnapshot(after), Planned(ops, before, after, ren, T),
           AreRenamings(before, after, ren), Agrees(S, T, before),
           \A i \in DOMAIN ops : Renders(d, ops[i]) /\ Returnable(ops[i], before),
           d = "sqlite" => \A i \in DOMAIN ops : ~(ops[i].kind = "AddColumn" /\ ops[i].field.index),
           NEW down, down = [i \in DOMAIN ops |-> Invert(ops[Len(ops) + 1 - i], before)]
    PROVE  ExecAll(d, [ok |-> TRUE, tables |-> Final(S, T, after)], down) = [ok |-> TRUE, tables |-> S]
  BY PlannedUndoes

(* The changes of type the database sees are those of the recorded columns. *)
LEMMA RetypedIs ==
    ASSUME NEW S, NEW T, NEW ops, NEW before, NEW after, NEW ren,
           Planned(ops, before, after, ren, T), Agrees(S, T, before),
           NEW i \in DOMAIN ops, ops[i].kind = "ChangeType"
    PROVE  <<WasType(ops[i], before), ops[i].type>> \in Retyped(S, ops)
  <1> DEFINE op == ops[i]
  <1>1. op \in PlanOps(before, after, ren) /\ op.table \in T /\ op.kind = "ChangeType"
    BY DEF Planned
  <1> HIDE DEF op
  <1>2. op # CreateTable(op.table, after[op.table].fields) /\ op # DropTable(op.table)
    BY <1>1 DEF CreateTable, DropTable
  <1>3. op.table \in DOMAIN before
    BY <1>1, <1>2, PlanOpCases DEF Alteration, Both
  <1>4. S[op.table] = before[op.table].fields
    BY <1>1, <1>3 DEF Agrees
  <1>5. WasType(op, before) = S[op.table][op.column].type
    BY <1>4 DEF WasType
  <1> QED  BY <1>5 DEF Retyped, op

LEMMA Unrefused ==
    ASSUME NEW S, NEW T, NEW ops, NEW before, NEW after, NEW ren,
           Planned(ops, before, after, ren, T), Agrees(S, T, before)
    PROVE  /\ ~NoWayOn(S, ops) => \A i \in DOMAIN ops : Passable(ops[i], before)
           /\ ~NoWayBack(S, ops) => \A i \in DOMAIN ops : Returnable(ops[i], before)
  <1> SUFFICES ASSUME NEW i \in DOMAIN ops
               PROVE  /\ ~NoWayOn(S, ops) => Passable(ops[i], before)
                      /\ ~NoWayBack(S, ops) => Returnable(ops[i], before)
    OBVIOUS
  <1> DEFINE p == <<WasType(ops[i], before), ops[i].type>>
  <1>1. CASE ops[i].kind = "ChangeType"
    <2>1. p \in Retyped(S, ops)
      BY <1>1, RetypedIs
    <2>2. p[1] = WasType(ops[i], before) /\ p[2] = ops[i].type
      OBVIOUS
    <2> HIDE DEF p
    <2>3. ~NoWayOn(S, ops) => Converts(p[1], p[2])
      BY <2>1 DEF NoWayOn
    <2>4. ~NoWayBack(S, ops) => Converts(p[2], p[1])
      BY <2>1 DEF NoWayBack
    <2> QED  BY <2>2, <2>3, <2>4 DEF Passable, Returnable
  <1>2. CASE ops[i].kind # "ChangeType"
    BY <1>2 DEF Passable, Returnable
  <1> QED  BY <1>1, <1>2

(* The migration at hand can be run from what is recorded, and back. *)
LEMMA RunTurns ==
    ASSUME Inv, run.pc = "manifest"
    PROVE  /\ Turns(dialect, Schema(Replay(manifest, states)), files[BaseIn(run)], Schema(run.cumulative))
           /\ BaseIn(run) \in DOMAIN files /\ BaseIn(run) \in DOMAIN states
           /\ states[BaseIn(run)] = [v |-> 1, models |-> run.cumulative]
           /\ Parsed(states[BaseIn(run)]) = run.cumulative
           /\ Schema(run.cumulative)
                = Blend(run.before, declared, Owned(run.before, declared, ToSet(Tail(run.todo))))
  <1> DEFINE H == Owned(run.before, declared, {Head(run.todo)})
             U == Owned(run.before, declared, ToSet(run.todo))
             W == Owned(run.before, declared, ToSet(Tail(run.todo)))
             ops == OpsIn(run)
             f == files[BaseIn(run)]
             S == Blend(run.before, declared, U)
             R == Blend(run.before, declared, W)
             down == [i \in DOMAIN ops |-> Invert(ops[Len(ops) + 1 - i], run.before)]
  <1>0. run.pc # "idle" /\ run.pc # "module" /\ run.pc # "all" /\ run.pc \in {"go", "state", "manifest"}
        /\ run.pc \in {"state", "manifest"}
    OBVIOUS
  <1>1. /\ IsSnapshot(declared) /\ Shaped(run) /\ Plans(run, declared)
        /\ Blends(run, declared, manifest, states) /\ Writes(run, dialect, files, states)
    BY <1>0, RunIs
  <1>2. H \subseteq U /\ W = U \ H
    BY <1>1, OwnedRest, ZenonT(60) DEF Shaped
  <1>3. Schema(run.cumulative) = R /\ Schema(Replay(manifest, states)) = S
    BY <1>0, <1>1 DEF Blends, Unmerged, Unlisted
  <1>4. PICK ren : AreRenamings(run.before, declared, ren)
                   /\ \A m \in DOMAIN run.ops : Planned(run.ops[m], run.before, declared, ren,
                                                        Owned(run.before, declared, {m}))
    BY <1>1 DEF Plans
  <1>5. Head(run.todo) \in DOMAIN run.ops
    BY <1>1, QueueIs DEF Shaped
  <1>6. Planned(ops, run.before, declared, ren, H)
    BY <1>4, <1>5 DEF OpsIn
  <1>7. /\ \A i \in DOMAIN ops : Renders(dialect, ops[i])
        /\ BaseIn(run) \in DOMAIN files /\ f = [up |-> ops, down |-> DownIn(run)]
        /\ BaseIn(run) \in DOMAIN states /\ states[BaseIn(run)] = [v |-> 1, models |-> run.cumulative]
    BY <1>0, <1>1 DEF Writes
  <1>8. f.up = ops /\ f.down = down
    <2>1. DownIn(run) = down
      BY DEF DownIn
    <2> HIDE DEF f, ops, down
    <2> QED  BY <1>7, <2>1
  <1>9. IsSnapshot(run.before)
    BY <1>1 DEF Shaped
  <1> HIDE DEF H, U, W, ops, f
  <1>11. Agrees(S, H, run.before) /\ Final(S, H, declared) = R
    BY <1>2, BlendAgrees, BlendFinal
  <1> HIDE DEF S, R, down
  <1>10. /\ IsSnapshot(run.before) /\ IsSnapshot(declared)
         /\ Planned(ops, run.before, declared, ren, H)
         /\ AreRenamings(run.before, declared, ren) /\ Agrees(S, H, run.before)
         /\ \A i \in DOMAIN ops : Renders(dialect, ops[i])
    BY <1>1, <1>4, <1>6, <1>7, <1>9, <1>11
  <1>12. Carries(dialect, S, ops, R) \/ NoWayOn(S, ops)
    <2> SUFFICES ASSUME ~NoWayOn(S, ops) PROVE Carries(dialect, S, ops, R)
      OBVIOUS
    <2>1. \A i \in DOMAIN ops : Passable(ops[i], run.before)
      BY <1>10, Unrefused
    <2>2. \A i \in DOMAIN ops : Renders(dialect, ops[i]) /\ Passable(ops[i], run.before)
      BY <1>10, <2>1
    <2>3. ExecAll(dialect, [ok |-> TRUE, tables |-> S], ops)
            = [ok |-> TRUE, tables |-> Final(S, H, declared)]
      BY <1>10, <2>2, PlannedBuilds
    <2> QED  BY <1>11, <2>3 DEF Carries, Holds
  <1>13. \/ Carries(dialect, R, down, S)
         \/ dialect = "sqlite" /\ AddsIndexed(ops)
         \/ NoWayBack(S, ops)
    <2> SUFFICES ASSUME ~(dialect = "sqlite" /\ AddsIndexed(ops)), ~NoWayBack(S, ops)
                 PROVE  Carries(dialect, R, down, S)
      OBVIOUS
    <2>1. dialect = "sqlite" => \A i \in DOMAIN ops : ~(ops[i].kind = "AddColumn" /\ ops[i].field.index)
      BY DEF AddsIndexed
    <2>2. \A i \in DOMAIN ops : Returnable(ops[i], run.before)
      BY <1>10, Unrefused
    <2>3. \A i \in DOMAIN ops : Renders(dialect, ops[i]) /\ Returnable(ops[i], run.before)
      BY <1>10, <2>2
    <2>4. down = [i \in DOMAIN ops |-> Invert(ops[Len(ops) + 1 - i], run.before)]
      BY DEF down
    <2>5. ExecAll(dialect, [ok |-> TRUE, tables |-> Final(S, H, declared)], down)
            = [ok |-> TRUE, tables |-> S]
      BY <1>10, <2>1, <2>3, <2>4, PlannedReverts
    <2> QED  BY <1>11, <2>5 DEF Carries, Holds
  <1>14. Turns(dialect, S, f, R)
    BY <1>8, <1>12, <1>13 DEF Turns
  <1>15. Parsed(states[BaseIn(run)]) = run.cumulative
    BY <1>7 DEF Parsed
  <1> QED  BY <1>3, <1>7, <1>14, <1>15 DEF f, R, W

(* writeManifest adds the entry at hand to what is on the books. *)
LEMMA ManifestExtends ==
    ASSUME Inv, WriteManifest
    PROVE  /\ Extended(manifest, manifest', Head(run.todo), EntryIn(run)) /\ Head(run.todo) \in Modules
           /\ WithEntry(Module) = manifest'[Module]
           /\ \A x \in ListedIn(manifest) : x[2].version < EntryIn(run).version
           /\ EntryIn(run).version = run.version /\ run.version \in Nat
  <1> DEFINE m == Head(run.todo)
             e == EntryIn(run)
  <1>0. run.pc = "manifest" /\ run.pc # "idle" /\ run.pc # "all"
        /\ manifest' = [manifest EXCEPT ![Module] = WithEntry(Module)]
    BY DEF WriteManifest
  <1>1. Books(manifest) /\ Shaped(run) /\ Plans(run, declared) /\ Counts(run, manifest)
        /\ run.loaded = manifest
    BY <1>0, RunIs
  <1>2. m \in Modules /\ e.version = run.version /\ run.version \in Nat
        /\ \A x \in ListedIn(manifest) : x[2].version < run.version
    BY <1>0, <1>1, EntryAbove
  <1>3. Module = m /\ ThisEntry = e
    BY InIs
  <1>4. DOMAIN manifest = Modules
    BY <1>1 DEF Books
  <1> HIDE DEF m, e
  <1>5. WithEntry(m) = Append(manifest[m], e)
    BY <1>1, <1>2, <1>3, <1>4 DEF WithEntry
  <1>6. manifest' = [manifest EXCEPT ![m] = Append(manifest[m], e)]
    BY <1>0, <1>3, <1>5
  <1>7. Extended(manifest, manifest', m, e)
    BY <1>1, <1>2, <1>6, ExtendedIs
  <1>8. WithEntry(Module) = manifest'[Module]
    BY <1>2, <1>3, <1>4, <1>5, <1>6
  <1> QED  BY <1>2, <1>7, <1>8 DEF m, e

LEMMA WriteManifestInv == ASSUME Inv, WriteManifest PROVE Inv'
  <1> DEFINE m == Head(run.todo)
             e == EntryIn(run)
             b == BaseIn(run)
             n == Cardinality(ListedIn(manifest))
             n2 == Cardinality(ListedIn(manifest'))
  <1>0. /\ run.pc = "manifest" /\ run.pc # "idle" /\ run.pc # "all"
        /\ run' = [run EXCEPT !.pc = "all", !.loaded = Put(@, Module, WithEntry(Module))]
        /\ dialect' = dialect /\ registered' = registered /\ declared' = declared
        /\ files' = files /\ states' = states
    BY DEF WriteManifest
  <1>1. /\ registered = Modules /\ IsSnapshot(declared) /\ Books(manifest)
        /\ Sound(dialect, manifest, files, states) /\ Formed(states)
        /\ Shaped(run) /\ Plans(run, declared) /\ Blends(run, declared, manifest, states)
        /\ Counts(run, manifest)
        /\ run.loaded = manifest /\ ~Twice(manifest) /\ Legible(manifest, states)
    BY <1>0, RunIs
  <1>2. DOMAIN run = {"pc", "out", "todo", "ops", "before", "cumulative", "version", "loaded"}
    BY <1>1 DEF Shaped
  <1>3. /\ DOMAIN run' = DOMAIN run /\ run'.pc = "all" /\ run'.out = run.out /\ run'.todo = run.todo
        /\ run'.ops = run.ops /\ run'.before = run.before /\ run'.version = run.version
        /\ run'.cumulative = run.cumulative /\ run'.loaded = Put(run.loaded, Module, WithEntry(Module))
    BY <1>0, <1>2
  <1>4. /\ Extended(manifest, manifest', m, e) /\ m \in Modules
        /\ WithEntry(Module) = manifest'[Module]
        /\ (\A x \in ListedIn(manifest) : x[2].version < e.version)
        /\ e.version = run.version /\ run.version \in Nat
    BY ManifestExtends
  <1>5. Module = m /\ e.state = TRUE /\ e.slug # <<>> /\ b = Base(m, e)
    BY <1>0, <1>1, InIs, EntryAbove DEF BaseIn
  <1>6. run'.loaded = manifest'
    <2>1. DOMAIN manifest = Modules /\ manifest' = [k \in Modules |-> manifest'[k]]
      BY <1>1, <1>4 DEF Books, Extended
    <2>2. Put(manifest, m, manifest'[m]) = [k \in Modules |-> IF k = m THEN manifest'[m] ELSE manifest[k]]
      BY <1>4, <2>1 DEF Put
    <2>3. \A k \in Modules : manifest'[k] = IF k = m THEN manifest'[m] ELSE manifest[k]
      BY <1>4 DEF Extended
    <2> HIDE DEF m
    <2>4. run'.loaded = Put(manifest, m, manifest'[m])
      BY <1>1, <1>3, <1>4, <1>5
    <2> QED  BY <2>1, <2>2, <2>3, <2>4
  <1>7. /\ Turns(dialect, Schema(Replay(manifest, states)), files[b], Schema(run.cumulative))
        /\ b \in DOMAIN files /\ b \in DOMAIN states
        /\ states[b] = [v |-> 1, models |-> run.cumulative]
        /\ Parsed(states[b]) = run.cumulative
        /\ Schema(run.cumulative)
             = Blend(run.before, declared, Owned(run.before, declared, ToSet(Tail(run.todo))))
    BY <1>0, RunTurns
  <1>8. IsSnapshot(run.cumulative)
    BY <1>1 DEF Shaped
  <1> HIDE DEF m, e, b
  <1>9. Sound(dialect, manifest', files, states) /\ Replay(manifest', states) = run.cumulative
    <2>1. Turns(dialect, Schema(Replay(manifest, states)), files[b], Schema(Parsed(states[b])))
          /\ IsSnapshot(Parsed(states[b])) /\ e.version \in Nat
      BY <1>4, <1>7, <1>8
    <2>2. Sound(dialect, manifest', files, states) /\ Replay(manifest', states) = Parsed(states[b])
      <3>1. Sound(dialect, manifest, files, states)
        BY <1>1
      <3>2. Books(manifest)
        BY <1>1
      <3>3. m \in Modules
        BY <1>4
      <3>4. e.version \in Nat
        BY <2>1
      <3>5. Stateful(e)
        BY <1>5 DEF Stateful
      <3>6. \A x \in ListedIn(manifest) : x[2].version < e.version
        BY <1>4
      <3>7. Extended(manifest, manifest', m, e)
        BY <1>4
      <3>8. b = Base(m, e)
        BY <1>5
      <3>9. b \in DOMAIN files /\ b \in DOMAIN states
        BY <1>7
      <3>10. IsSnapshot(Parsed(states[b]))
        BY <2>1
      <3>11. Turns(dialect, Schema(Replay(manifest, states)), files[b], Schema(Parsed(states[b])))
        BY <2>1
      <3> QED  BY ONLY <3>1, <3>2, <3>3, <3>4, <3>5, <3>6, <3>7, <3>8, <3>9, <3>10, <3>11, SoundMore
    <2> QED  BY <1>7, <2>2
  <1>10. n \in Nat /\ n2 = n + 1
    <2>1. <<m, e>> \notin ListedIn(manifest)
      <3>1. <<m, e>>[2] = e
        OBVIOUS
      <3>2. ~(e.version < e.version)
        BY <1>4
      <3> QED  BY <1>4, <3>1, <3>2
    <2>2. n \in Nat /\ n2 = IF <<m, e>> \in ListedIn(manifest) THEN n ELSE n + 1
      BY <1>1, <1>4, CountMore
    <2> QED  BY <2>1, <2>2
  <1>11. /\ (\A x \in ListedIn(manifest) : x[2].version + 1 =< run.version)
         /\ Near(run.version, n + 1)
         /\ n + Len(run.todo) + 1 =< MaxEntries + Cardinality(Modules)
    BY <1>0, <1>1 DEF Counts
  <1>12. Near(e.version, n2)
    BY <1>4, <1>10, <1>11
  <1>13. Books(manifest')
    <2>1. IsEntry(e)
      <3>1. e.version \in Nat
        BY <1>4
      <3>2. e.state \in BOOLEAN
        BY <1>5, Zenon
      <3> QED  BY <1>5, <3>1, <3>2 DEF IsEntry
    <2> QED  BY <1>1, <1>4, <1>12, <2>1, BooksMore
  <1>14. ~Twice(manifest')
    BY <1>1, <1>4, TwiceMore
  <1>15. GenOf(manifest') = GenOf(manifest) \cup {<<m, e>>}
    <2>1. Books(manifest)
      BY <1>1
    <2>2. m \in Modules
      BY <1>4
    <2>3. Stateful(e)
      BY <1>5 DEF Stateful
    <2>4. Extended(manifest, manifest', m, e)
      BY <1>4
    <2> QED  BY ONLY <2>1, <2>2, <2>3, <2>4, GenMore
  <1>16. Legible(manifest', states)
    <2>1. BaseOf(<<m, e>>) = b
      BY <1>5 DEF BaseOf
    <2>2. b \in DOMAIN states /\ states[b].v \in {0, 1}
      BY <1>7
    <2> QED  BY <1>1, <1>15, <2>1, <2>2 DEF Legible
  <1>17. Shaped(run')
    BY <1>1, <1>3 DEF Shaped, RunSteps
  <1>18. Plans(run', declared)
    <2>1. SameTask(run, run')
      BY <1>3 DEF SameTask
    <2> QED  BY <1>1, <2>1, TaskPlans
  <1>19. Blends(run', declared, manifest', states)
    <2>1. Unmerged(run') = ToSet(Tail(run.todo)) /\ Unlisted(run') = ToSet(Tail(run.todo))
      BY <1>3 DEF Unmerged, Unlisted
    <2> QED  BY <1>3, <1>7, <1>9, <2>1 DEF Blends
  <1>20. Counts(run', manifest')
    <2>1. ListedIn(manifest') = ListedIn(manifest) \cup {<<m, e>>}
      BY <1>1, <1>4, ListedMore
    <2>2. \A x \in ListedIn(manifest) : x[2].version \in Nat
      BY <1>1 DEF Books, IsEntry
    <2>3. \A x \in ListedIn(manifest) : x[2].version =< run.version /\ x[2].version + 0 = x[2].version
      BY <1>4, <1>11, <2>2
    <2>4. <<m, e>>[2].version =< run.version /\ <<m, e>>[2].version + 0 = <<m, e>>[2].version
      BY <1>4
    <2>5. \A x \in ListedIn(manifest') : x[2].version + 0 =< run'.version
      BY <1>3, <2>1, <2>3, <2>4
    <2>6. Len(run.todo) \in Nat
      BY <1>1 DEF Shaped
    <2>7. Cardinality(Modules) \in Nat /\ MaxEntries \in Nat
      BY ModulesAreOrdered, FS_CardinalityType, VersionsAreNumbers
    <2>8. n2 + Len(run'.todo) + 0 =< MaxEntries + Cardinality(Modules) /\ n2 + 0 = n2
      <3> HIDE DEF n, n2
      <3> QED  BY <1>3, <1>10, <1>11, <2>6, <2>7
    <2>9. Near(run'.version, n2 + 0)
      BY <1>3, <1>4, <1>12, <2>8
    <2>10. (IF run'.pc = "all" THEN 0 ELSE 1) = 0
      BY <1>3
    <2>11. run'.version \in Nat
      BY <1>3, <1>4
    <2> QED  BY <2>5, <2>8, <2>9, <2>10, <2>11 DEF Counts
  <1>21. Writes(run', dialect, files, states)
    BY <1>3 DEF Writes
  <1>22. Runs(run', dialect, declared, manifest', files, states)
    BY <1>6, <1>14, <1>16, <1>17, <1>18, <1>19, <1>20, <1>21 DEF Runs
  <1>23. Runs(run', dialect', declared', manifest', files', states')
         /\ Sound(dialect', manifest', files', states')
    BY <1>0, <1>9, <1>22
  <1> QED  BY <1>0, <1>1, <1>3, <1>13, <1>23 DEF Inv

LEMMA WriteAllInv == ASSUME Inv, WriteAll PROVE Inv'
  <1>0. /\ run.pc = "all" /\ run.pc # "idle"
        /\ dialect' = dialect /\ registered' = registered /\ declared' = declared
        /\ manifest' = manifest /\ files' = files /\ states' = states
    BY DEF WriteAll
  <1>1. /\ registered = Modules /\ IsSnapshot(declared) /\ Books(manifest)
        /\ Sound(dialect, manifest, files, states) /\ Formed(states)
        /\ Shaped(run) /\ Plans(run, declared) /\ Blends(run, declared, manifest, states)
        /\ Counts(run, manifest)
        /\ run.loaded = manifest /\ ~Twice(manifest) /\ Legible(manifest, states)
    BY <1>0, RunIs
  <1> DEFINE q == Tail(run.todo)
             W == Owned(run.before, declared, ToSet(q))
  <1>2. /\ ToSet(q) = ToSet(run.todo) \ {Head(run.todo)} /\ q \in Seq(Nat)
        /\ Len(q) = Len(run.todo) - 1 /\ Len(run.todo) \in Nat
        /\ (\A i, j \in DOMAIN q : i < j => q[i] < q[j])
        /\ (Len(run.todo) = 1 => ToSet(q) = {}) /\ (Len(run.todo) # 1 => q # <<>>)
    BY <1>1, QueueIs DEF Shaped
  <1>3. /\ Schema(run.cumulative) = Blend(run.before, declared, W)
        /\ Schema(Replay(manifest, states)) = Blend(run.before, declared, W)
    BY <1>0, <1>1 DEF Blends, Unmerged, Unlisted
  <1>4. CASE Len(run.todo) = 1 /\ run' = Idle("done")
    <2>1. run'.pc = "idle"
      BY <1>4 DEF Idle
    <2>2. Schema(Replay(manifest, states)) = Schema(declared)
      BY <1>2, <1>3, <1>4, BlendNone
    <2>3. Current(declared', manifest', states')
      BY <1>0, <1>1, <2>2 DEF Current
    <2> QED  BY <1>0, <1>1, <2>1, <2>3 DEF Inv
  <1>5. CASE /\ Len(run.todo) # 1
             /\ run' = [run EXCEPT !.pc = "module", !.todo = Tail(@), !.version = Successor(@)]
    <2>1. DOMAIN run = {"pc", "out", "todo", "ops", "before", "cumulative", "version", "loaded"}
      BY <1>1 DEF Shaped
    <2>2. /\ DOMAIN run' = DOMAIN run /\ run'.pc = "module" /\ run'.out = run.out /\ run'.todo = q
          /\ run'.ops = run.ops /\ run'.before = run.before /\ run'.version = Successor(run.version)
          /\ run'.loaded = run.loaded /\ run'.cumulative = run.cumulative
      BY <1>5, <2>1
    <2> HIDE DEF q
    <2>3. Shaped(run')
      <3>1. ToSet(q) \subseteq DOMAIN run.ops
        BY <1>1, <1>2 DEF Shaped
      <3>2. q # <<>>
        BY <1>2, <1>5
      <3> QED  BY <1>1, <1>2, <2>2, <3>1, <3>2 DEF Shaped, RunSteps
    <2>4. Plans(run', declared)
      BY <1>1, <2>2 DEF Plans
    <2>5. Blends(run', declared, manifest, states)
      <3>1. Unmerged(run') = ToSet(q) /\ Unlisted(run') = ToSet(q)
        BY <2>2 DEF Unmerged, Unlisted
      <3> QED  BY <1>3, <2>2, <3>1 DEF Blends
    <2>6. Counts(run', manifest)
      <3> DEFINE n == Cardinality(ListedIn(manifest))
                 v == run.version
      <3>1. /\ v \in Nat /\ (\A x \in ListedIn(manifest) : x[2].version + 0 =< v)
            /\ Near(v, n + 0) /\ n + Len(run.todo) + 0 =< MaxEntries + Cardinality(Modules)
        BY <1>0, <1>1 DEF Counts
      <3>2. n \in Nat
        BY <1>1, HighestIs
      <3>3. Cardinality(Modules) \in Nat /\ MaxEntries \in Nat /\ Top \in Nat
        BY ModulesAreOrdered, FS_CardinalityType, VersionsAreNumbers
      <3>4. \A x \in ListedIn(manifest) : x[2].version \in Nat
        BY <1>1 DEF Books, IsEntry
      <3> HIDE DEF n, v
      <3>5. PICK c \in Clocks \cup {1} : v =< c + (n + 0)
        BY <3>1 DEF Near
      <3>6. c \in Nat /\ c + MaxEntries + Cardinality(Modules) =< Top
        BY TopIsFarOff, VersionsAreNumbers
      <3>7. Len(run.todo) >= 2
        BY <1>1, <1>2, <1>5 DEF Shaped
      <3>8. v < Top
        BY <1>2, <3>1, <3>2, <3>3, <3>5, <3>6, <3>7
      <3>9. run'.version = v + 1
        BY <2>2, <3>1, <3>3, <3>8 DEF Successor, v
      <3>10. v + 1 =< c + (n + 1) /\ v + 1 \in Nat
        BY <3>1, <3>2, <3>5, <3>6
      <3>11. Near(run'.version, n + 1) /\ run'.version \in Nat
        BY <3>9, <3>10 DEF Near
      <3>12. \A x \in ListedIn(manifest) : x[2].version + 1 =< run'.version
        BY <3>1, <3>4, <3>9
      <3>13. n + Len(run'.todo) + 1 =< MaxEntries + Cardinality(Modules)
        BY <1>2, <2>2, <3>1, <3>2, <3>3
      <3>14. (IF run'.pc = "all" THEN 0 ELSE 1) = 1
        BY <2>2
      <3> QED  BY <3>11, <3>12, <3>13, <3>14 DEF Counts, n
    <2>7. Writes(run', dialect, files, states)
      BY <2>2 DEF Writes
    <2>8. Runs(run', dialect, declared, manifest, files, states)
      BY <1>1, <2>2, <2>3, <2>4, <2>5, <2>6, <2>7 DEF Runs
    <2>9. Runs(run', dialect', declared', manifest', files', states')
      BY <1>0, <2>8
    <2> QED  BY <1>0, <1>1, <2>2, <2>9 DEF Inv
  <1> QED  BY <1>4, <1>5 DEF WriteAll

LEMMA RefuseInv == ASSUME Inv, NEW unusable \in BOOLEAN, Refuse(unusable) PROVE Inv'
  <1>1. run' = Idle("refused") /\ UNCHANGED <<dialect, registered, declared, tree>>
    BY DEF Refuse
  <1>2. "refused" \notin {"done", "nochange"}
    OBVIOUS
  <1> QED  BY ONLY Inv, <1>1, <1>2, EndInv

(* A run ends; the tree has changed beside the chain at most. *)
LEMMA BesideInv ==
    ASSUME Inv, run' = Idle("failed"), UNCHANGED <<dialect, registered, declared, manifest>>,
           SameFiles(GenOf(manifest), files, files'), SameStates(GenOf(manifest), states, states'),
           Formed(states')
    PROVE  Inv'
  <1>1. dialect' = dialect /\ registered' = registered /\ declared' = declared /\ manifest' = manifest
    OBVIOUS
  <1>2. /\ registered = Modules /\ IsSnapshot(declared) /\ Books(manifest)
        /\ Sound(dialect, manifest, files, states)
    BY DEF Inv
  <1>3. Sound(dialect, manifest', files', states')
    BY <1>1, <1>2, SoundStable
  <1>4. "failed" \notin {"done", "nochange"}
    OBVIOUS
  <1> QED  BY <1>1, <1>2, <1>3, <1>4, IdleInv

(* A write fails before or while its file is written, and no manifest is    *)
(* cut short.                                                               *)
LEMMA FailInv == ASSUME Inv, Fail, torn' = {} PROVE Inv'
  <1>0. /\ run.pc # "idle" /\ run' = Idle("failed")
        /\ dialect' = dialect /\ registered' = registered /\ declared' = declared
    BY DEF Fail
  <1>1. /\ Books(manifest) /\ Sound(dialect, manifest, files, states) /\ Formed(states)
        /\ Shaped(run) /\ Plans(run, declared) /\ Counts(run, manifest)
    BY <1>0, RunIs
  <1>2. SameFiles(GenOf(manifest), files, files) /\ SameStates(GenOf(manifest), states, states)
    BY <1>1, SameRefl
  <1>3. run.pc # "all" => \A x \in GenOf(manifest) : BaseOf(x) # ThisBase
    <2>1. run.pc # "all" => \A x \in ListedIn(manifest) : BaseOf(x) # BaseIn(run)
      BY <1>1, EntryAbove
    <2> QED  BY <2>1, InIs DEF GenOf
  <1>4. CASE manifest' = manifest /\ files' = files /\ states' = states
    BY <1>0, <1>1, <1>2, <1>4, BesideInv
  <1>5. CASE run.pc = "go" /\ files' = Put(files, ThisBase, Cut) /\ manifest' = manifest /\ states' = states
    <2>1. SameFiles(GenOf(manifest), files, files')
      <3> SUFFICES ASSUME NEW x \in GenOf(manifest)
                   PROVE  BaseOf(x) \in DOMAIN files' /\ files'[BaseOf(x)] = files[BaseOf(x)]
        BY DEF SameFiles
      <3>1. BaseOf(x) \in DOMAIN files /\ BaseOf(x) # ThisBase
        BY <1>1, <1>3, <1>5 DEF Sound, Kept
      <3> QED  BY <1>5, <3>1, PutKeeps
    <2> QED  BY <1>0, <1>1, <1>2, <1>5, <2>1, BesideInv
  <1>6. CASE /\ run.pc = "state" /\ manifest' = manifest /\ files' = files
             /\ states' = Put(states, ThisBase, [v |-> 2, models |-> Empty])
    <2> DEFINE w == [v |-> 2, models |-> Empty]
    <2>0. states' = Put(states, ThisBase, w) /\ DOMAIN w = {"v", "models"}
      BY <1>6
    <2> HIDE DEF w
    <2>1. SameStates(GenOf(manifest), states, states')
      <3> SUFFICES ASSUME NEW x \in GenOf(manifest)
                   PROVE  BaseOf(x) \in DOMAIN states' /\ states'[BaseOf(x)] = states[BaseOf(x)]
        BY DEF SameStates
      <3>1. BaseOf(x) \in DOMAIN states /\ BaseOf(x) # ThisBase
        BY <1>1, <1>3, <1>6 DEF Sound, Kept, Schemas
      <3> QED  BY <2>0, <3>1, PutKeeps
    <2>2. Formed(states')
      <3>1. DOMAIN states' = DOMAIN states \cup {ThisBase} /\ states'[ThisBase] = w
            /\ \A z \in DOMAIN states : z # ThisBase => states'[z] = states[z]
        BY <2>0 DEF Put
      <3> QED  BY <1>1, <2>0, <3>1 DEF Formed
    <2> QED  BY <1>0, <1>2, <1>6, <2>1, <2>2, BesideInv
  <1>7. \/ manifest' = manifest /\ files' = files /\ states' = states
        \/ run.pc = "go" /\ files' = Put(files, ThisBase, Cut) /\ manifest' = manifest /\ states' = states
        \/ /\ run.pc = "state" /\ manifest' = manifest /\ files' = files
           /\ states' = Put(states, ThisBase, [v |-> 2, models |-> Empty])
    <2>1. torn' # torn \cup {Module}
      OBVIOUS
    <2> QED  BY <2>1 DEF Fail, Tear, tree
  <1> QED  BY <1>4, <1>5, <1>6, <1>7

LEMMA StutterInv == ASSUME Inv, UNCHANGED vars PROVE Inv'
  <1>1. /\ dialect' = dialect /\ registered' = registered /\ declared' = declared
        /\ manifest' = manifest /\ files' = files /\ states' = states /\ run' = run
    BY DEF vars
  <1> QED  BY <1>1 DEF Inv

LEMMA NextInv == ASSUME Inv, torn = {}, torn' = {}, [Next]_vars PROVE Inv'
  <1>1. ASSUME NEW d \in Declarations, Declare(d) PROVE Inv'
    BY <1>1, DeclareInv
  <1>2. ASSUME NEW m \in registered, NEW v \in Clocks, HandWrite(m, v) PROVE Inv'
    BY <1>2, HandWriteInv
  <1>3. ASSUME NEW b \in DOMAIN states, NewerFormat(b) PROVE Inv'
    BY <1>3, NewerFormatInv
  <1>4. ASSUME NEW unusable \in BOOLEAN, Refuse(unusable) PROVE Inv'
    BY <1>4, RefuseInv
  <1>5. ASSUME NEW interactive \in BOOLEAN, NEW now \in Clocks, Start(interactive, now) PROVE Inv'
    BY <1>5, StartInv
  <1>6. CASE Render
    BY <1>6, RenderInv
  <1>7. CASE WriteGo
    BY <1>7, WriteGoInv
  <1>8. CASE WriteState
    BY <1>8, WriteStateInv
  <1>9. CASE WriteManifest
    BY <1>9, WriteManifestInv
  <1>10. CASE WriteAll
    BY <1>10, WriteAllInv
  <1>11. CASE Fail
    BY <1>11, FailInv
  <1>12. CASE UNCHANGED vars
    BY <1>12, StutterInv
  <1> QED  BY <1>1, <1>2, <1>3, <1>4, <1>5, <1>6, <1>7, <1>8, <1>9, <1>10, <1>11, <1>12 DEF Next

(***************************************************************************)
(* A tree with a manifest cut short: until the file is restored no run     *)
(* reads past it, and none is under way.                                   *)
(***************************************************************************)
Broken(r, man) ==
    /\ r.pc = "idle" /\ r.out \notin {"done", "nochange"}
    /\ man = [m \in Modules |-> man[m]]
    /\ \A m \in Modules : IsSeq(man[m])

TreeInv ==
    /\ registered = Modules /\ torn \subseteq Modules
    /\ torn = {} => Inv
    /\ torn # {} => Broken(run, manifest)

LEMMA RegisteredSame == ASSUME [Next]_vars PROVE registered' = registered
  <1>1. ASSUME NEW d \in Declarations, Declare(d) PROVE registered' = registered
    BY <1>1 DEF Declare
  <1>2. ASSUME NEW m \in registered, NEW v \in Clocks, HandWrite(m, v) PROVE registered' = registered
    BY <1>2 DEF HandWrite
  <1>3. ASSUME NEW b \in DOMAIN states, NewerFormat(b) PROVE registered' = registered
    BY <1>3 DEF NewerFormat
  <1>4. ASSUME NEW unusable \in BOOLEAN, Refuse(unusable) PROVE registered' = registered
    BY <1>4 DEF Refuse
  <1>5. ASSUME NEW interactive \in BOOLEAN, NEW now \in Clocks, Start(interactive, now)
        PROVE  registered' = registered
    BY <1>5 DEF Start
  <1>6. Render \/ WriteGo \/ WriteState \/ WriteManifest \/ WriteAll \/ Fail => registered' = registered
    BY DEF Render, WriteGo, WriteState, WriteManifest, WriteAll, Fail
  <1> QED  BY <1>1, <1>2, <1>3, <1>4, <1>5, <1>6 DEF Next, vars

(* What a step does to the manifests and to those cut short. *)
Torn == /\ Fail /\ run.pc = "manifest" /\ torn' = torn \cup {Module}
        /\ manifest' = [manifest EXCEPT ![Module] = <<>>]
Adds == \E m \in registered, v \in Clocks : HandWrite(m, v) /\ run.pc = "idle"

LEMMA ManifestChanges ==
    ASSUME [Next]_vars
    PROVE  \/ manifest' = manifest /\ torn' = torn
           \/ Adds /\ torn' = torn
           \/ WriteManifest /\ torn' = torn \ {Module}
           \/ Torn
  <1>1. ASSUME NEW d \in Declarations, Declare(d) PROVE manifest' = manifest /\ torn' = torn
    BY <1>1 DEF Declare, tree
  <1>2. ASSUME NEW m \in registered, NEW v \in Clocks, HandWrite(m, v) PROVE Adds /\ torn' = torn
    <2>1. run.pc = "idle" /\ torn' = torn
      BY <1>2 DEF HandWrite, Editing
    <2> QED  BY <1>2, <2>1 DEF Adds
  <1>3. ASSUME NEW b \in DOMAIN states, NewerFormat(b) PROVE manifest' = manifest /\ torn' = torn
    BY <1>3 DEF NewerFormat
  <1>4. ASSUME NEW unusable \in BOOLEAN, Refuse(unusable) PROVE manifest' = manifest /\ torn' = torn
    BY <1>4 DEF Refuse, tree
  <1>5. ASSUME NEW interactive \in BOOLEAN, NEW now \in Clocks, Start(interactive, now)
        PROVE  manifest' = manifest /\ torn' = torn
    BY <1>5 DEF Start, tree
  <1>6. Render \/ WriteGo \/ WriteState \/ WriteAll => manifest' = manifest /\ torn' = torn
    BY DEF Render, WriteGo, WriteState, WriteAll, tree
  <1>7. WriteManifest => torn' = torn \ {Module}
    BY DEF WriteManifest
  <1>8. Fail => (manifest' = manifest /\ torn' = torn) \/ Torn
    BY DEF Fail, Tear, Torn, tree
  <1>9. UNCHANGED vars => manifest' = manifest /\ torn' = torn
    BY DEF vars
  <1> QED  BY <1>1, <1>2, <1>3, <1>4, <1>5, <1>6, <1>7, <1>8, <1>9 DEF Next

(* What a person adds, adds to. *)
LEMMA AddsExtends ==
    ASSUME registered = Modules, manifest = [m \in Modules |-> manifest[m]],
           \A m \in Modules : IsSeq(manifest[m]), Adds
    PROVE  /\ manifest' = [m \in Modules |-> manifest'[m]]
           /\ \A m \in Modules : IsSeq(manifest'[m]) /\ ToSet(manifest[m]) \subseteq ToSet(manifest'[m])
  <1>1. PICK m \in Modules, v \in Clocks : HandWrite(m, v)
    BY DEF Adds
  <1> DEFINE e == Entry(v, <<>>, FALSE)
  <1>2. manifest' = [manifest EXCEPT ![m] = Append(manifest[m], e)]
    BY <1>1 DEF HandWrite
  <1> HIDE DEF e
  <1>3. IsSeq(Append(manifest[m], e)) /\ ToSet(Append(manifest[m], e)) = ToSet(manifest[m]) \cup {e}
    BY ToSetAppend
  <1>4. /\ DOMAIN manifest' = Modules /\ manifest'[m] = Append(manifest[m], e)
        /\ \A n \in Modules : n # m => manifest'[n] = manifest[n]
    BY <1>2
  <1>5. manifest' = [n \in Modules |-> manifest'[n]]
    BY <1>2
  <1> QED  BY <1>3, <1>4, <1>5

LEMMA TornModule ==
    ASSUME Inv, run.pc # "idle"
    PROVE  Module \in Modules
  <1>1. Shaped(run)
    BY RunIs
  <1>2. Head(run.todo) \in DOMAIN run.ops
    BY <1>1, QueueIs DEF Shaped
  <1> QED  BY <1>1, <1>2 DEF Shaped, Module

LEMMA TreeNext == ASSUME TreeInv, [Next]_vars PROVE TreeInv'
  <1>0. registered = Modules /\ registered' = Modules /\ torn \subseteq Modules
    BY RegisteredSame DEF TreeInv
  <1>1. CASE torn = {}
    <2>0. Inv
      BY <1>1 DEF TreeInv
    <2>1. CASE torn' = {}
      <3>1. Inv'
        BY <1>1, <2>0, <2>1, NextInv
      <3> QED  BY <1>0, <2>1, <3>1 DEF TreeInv
    <2>2. CASE torn' # {}
      <3>1. Torn
        BY <1>1, <2>2, ManifestChanges
      <3>2. run.pc # "idle" /\ torn' = {Module} /\ manifest' = [manifest EXCEPT ![Module] = <<>>]
        BY <1>1, <3>1 DEF Torn
      <3>3. Module \in Modules
        BY <2>0, <3>2, TornModule
      <3>4. run'.pc = "idle" /\ run'.out \notin {"done", "nochange"}
        BY <3>1 DEF Torn, Fail, Idle
      <3>5. manifest = [m \in Modules |-> manifest[m]] /\ \A m \in Modules : IsSeq(manifest[m])
        BY <2>0 DEF Inv, Books
      <3>6. IsSeq(<<>>)
        BY DEF IsSeq
      <3>7. /\ manifest' = [m \in Modules |-> manifest'[m]]
            /\ \A m \in Modules : IsSeq(manifest'[m])
        <4>1. DOMAIN manifest' = Modules /\ manifest' = [m \in Modules |-> manifest'[m]]
          BY <3>2, <3>5
        <4>2. \A m \in Modules : manifest'[m] = IF m = Module THEN <<>> ELSE manifest[m]
          BY <3>2, <3>5
        <4> QED  BY <3>5, <3>6, <4>1, <4>2
      <3>8. Broken(run', manifest')
        BY <3>4, <3>7 DEF Broken
      <3> QED  BY <1>0, <2>2, <3>2, <3>3, <3>8 DEF TreeInv
    <2> QED  BY <2>1, <2>2
  <1>2. CASE torn # {}
    <2>0. Broken(run, manifest)
      BY <1>2 DEF TreeInv
    <2>1. run.pc = "idle"
      BY <2>0 DEF Broken
    <2>2. torn' = torn /\ (manifest' = manifest \/ Adds)
      BY <2>1, ManifestChanges DEF WriteManifest, Torn
    <2>3. run'.pc = "idle" /\ run'.out \notin {"done", "nochange"}
      <3>0. ReplayFails
        BY <1>0, <1>2 DEF ReplayFails
      <3>1. ASSUME NEW d \in Declarations, Declare(d) PROVE run' = Idle("none")
        BY <3>1 DEF Declare
      <3>2. ASSUME NEW m \in registered, NEW v \in Clocks, HandWrite(m, v) PROVE run' = Idle("none")
        BY <3>2 DEF HandWrite
      <3>3. ASSUME NEW b \in DOMAIN states, NewerFormat(b) PROVE run' = Idle("none")
        BY <3>3 DEF NewerFormat
      <3>4. ASSUME NEW unusable \in BOOLEAN, Refuse(unusable) PROVE run' = Idle("refused")
        BY <3>4 DEF Refuse
      <3>5. ASSUME NEW interactive \in BOOLEAN, NEW now \in Clocks, Start(interactive, now) PROVE FALSE
        BY <3>0, <3>5 DEF Start
      <3>6. ~(Render \/ WriteGo \/ WriteState \/ WriteManifest \/ WriteAll \/ Fail)
        BY <2>1 DEF Render, WriteGo, WriteState, WriteManifest, WriteAll, Fail
      <3>7. run' = Idle("none") \/ run' = Idle("refused") \/ run' = run
        BY <3>1, <3>2, <3>3, <3>4, <3>5, <3>6 DEF Next, vars
      <3> QED  BY <2>0, <3>7 DEF Broken, Idle
    <2>4. /\ manifest' = [m \in Modules |-> manifest'[m]]
          /\ \A m \in Modules : IsSeq(manifest'[m])
      <3>1. CASE manifest' = manifest
        BY <2>0, <3>1 DEF Broken
      <3>2. CASE Adds
        BY <1>0, <2>0, <3>2, AddsExtends DEF Broken
      <3> QED  BY <2>2, <3>1, <3>2
    <2>5. Broken(run', manifest')
      BY <2>3, <2>4 DEF Broken
    <2> QED  BY <1>0, <1>2, <2>2, <2>5 DEF TreeInv
  <1> QED  BY <1>1, <1>2

(***************************************************************************)
(* The theorems.                                                           *)
(***************************************************************************)

(* Between any two steps of any run, after any failed write or death that   *)
(* leaves the manifests whole, what is on the books is a chain whose        *)
(* migrations turn one recorded schema into the next and back, but for what *)
(* the database refuses, and a run in progress has recorded the blend of    *)
(* the old and the declared schema that the modules it has not come to      *)
(* leave; a manifest cut short ends all runs (runMakemigrations as a        *)
(* whole).                                                                  *)
THEOREM InvIsInvariant == Spec => []TreeInv
  <1>1. Init => TreeInv
    <2> SUFFICES ASSUME Init PROVE TreeInv
      OBVIOUS
    <2>1. registered = Modules /\ torn = {}
      BY DEF Init
    <2>2. Inv
      BY InitInv
    <2> QED  BY <2>1, <2>2 DEF TreeInv
  <1>2. TreeInv /\ [Next]_vars => TreeInv'
    BY TreeNext
  <1> QED  BY <1>1, <1>2, PTL DEF Spec

(* Whatever failed or died in between, the migrations the manifests list    *)
(* run one after the other from an empty database, and each takes the       *)
(* schema before it to exactly the schema its state file records, but for   *)
(* a change of type that PostgreSQL refuses without USING                   *)
(* (runMakemigrations, Diff, resolveRenames, snapshotAfterOperations,       *)
(* ParseSnapshot).                                                          *)
THEOREM ChainAlwaysBuilds == Spec => []ChainBuilds
  <1>1. TreeInv => ChainBuilds
    BY InvImplies DEF TreeInv, ChainBuilds
  <1> QED  BY <1>1, InvIsInvariant, PTL

(* Each migration's Down, run right after it, restores the schema before    *)
(* it, but for the DROP COLUMN of an indexed column that SQLite refuses and *)
(* the way back to a type that PostgreSQL does not convert to (invert,      *)
(* rawInverse and the reversed groups of runMakemigrations).                *)
THEOREM DownAlwaysRestores == Spec => []DownRestores
  <1>1. TreeInv => DownRestores
    BY InvImplies DEF TreeInv, DownRestores
  <1> QED  BY <1>1, InvIsInvariant, PTL

(* A run that ends well, or finds nothing to do, leaves a recorded state    *)
(* that replays to the declared schema (replayRecordedState after           *)
(* runMakemigrations).                                                      *)
THEOREM ReplayAlwaysCurrent == Spec => []ReplayIsCurrent
  <1>1. TreeInv => ReplayIsCurrent
    BY InvImplies DEF TreeInv, Broken, ReplayIsCurrent
  <1> QED  BY <1>1, InvIsInvariant, PTL

LEMMA EntriesKept ==
    ASSUME TreeInv, [Next]_vars
    PROVE  /\ torn \subseteq torn'
           /\ \A m \in Modules \ torn' : ToSet(manifest[m]) \subseteq ToSet(manifest'[m])
  <1>0. /\ registered = Modules /\ manifest = [m \in Modules |-> manifest[m]]
        /\ \A m \in Modules : IsSeq(manifest[m])
    BY DEF TreeInv, Inv, Books, Broken
  <1>1. CASE manifest' = manifest /\ torn' = torn
    BY <1>1
  <1>2. CASE WriteManifest /\ torn' = torn \ {Module}
    <2>1. torn = {} /\ Inv
      BY <1>2 DEF TreeInv, Broken, WriteManifest
    <2>2. Extended(manifest, manifest', Head(run.todo), EntryIn(run)) /\ Head(run.todo) \in Modules
      BY <1>2, <2>1, ManifestExtends
    <2>3. Books(manifest)
      BY <2>1 DEF Inv
    <2>4. \A m \in Modules : ToSet(manifest[m]) \subseteq ToSet(manifest'[m])
      BY ONLY <2>2, <2>3, ListedMore
    <2> QED  BY <2>1, <2>4
  <1>3. CASE Adds /\ torn' = torn
    BY <1>0, <1>3, AddsExtends
  <1>4. CASE Torn
    <2>1. torn' = torn \cup {Module} /\ manifest' = [manifest EXCEPT ![Module] = <<>>]
      BY <1>4 DEF Torn
    <2>2. \A m \in Modules \ torn' : manifest'[m] = manifest[m]
      BY <1>0, <2>1
    <2> QED  BY <2>1, <2>2
  <1> QED  BY <1>1, <1>2, <1>3, <1>4, ManifestChanges

(* While every module stays in main, no run takes an entry out of a         *)
(* manifest it can read, and one that a failed write cut short is never     *)
(* written over as if it had been empty: no run follows until the file is   *)
(* restored (loadManifest, writeManifest).                                  *)
THEOREM ManifestsAlwaysKeepEntries == Spec => ManifestsKeepEntries
  <1>1. TreeInv /\ [Next]_vars
          => [/\ torn \subseteq torn'
              /\ \A m \in Modules \ torn' : ToSet(manifest[m]) \subseteq ToSet(manifest'[m])]_vars
    BY EntriesKept
  <1> QED  BY <1>1, InvIsInvariant, PTL DEF Spec, ManifestsKeepEntries

LEMMA NewEntriesAbove ==
    ASSUME TreeInv, [Next]_vars, run.pc = "manifest", manifest' # manifest
    PROVE  \A e \in Entries(manifest') \ Entries(manifest), d \in Entries(manifest) :
               e.version > d.version
  <1>0. torn = {} /\ Inv
    BY DEF TreeInv, Broken
  <1>1. CASE Torn
    <2>1. manifest = [m \in Modules |-> manifest[m]] /\ manifest' = [manifest EXCEPT ![Module] = <<>>]
      BY <1>0, <1>1 DEF Torn, Inv, Books
    <2>2. ToSet(<<>>) = {}
      BY DEF ToSet
    <2>3. DOMAIN manifest' = DOMAIN manifest
          /\ \A m \in DOMAIN manifest' : manifest'[m] = manifest[m] \/ manifest'[m] = <<>>
      BY <2>1
    <2>4. Entries(manifest') \subseteq Entries(manifest)
      BY <2>2, <2>3 DEF Entries
    <2> QED  BY <2>4
  <1>2. CASE WriteManifest /\ torn' = torn \ {Module}
    <2>0. torn' = {} /\ WriteManifest
      BY <1>0, <1>2
    <2>1. Books(manifest) /\ Books(manifest')
      <3>1. Inv'
        BY <1>0, <2>0, NextInv
      <3> QED  BY <1>0, <3>1 DEF Inv
    <2> DEFINE m == Head(run.todo)
               n == EntryIn(run)
    <2>2. /\ Extended(manifest, manifest', m, n) /\ m \in Modules
          /\ \A x \in ListedIn(manifest) : x[2].version < n.version
      BY <1>0, <2>0, ManifestExtends
    <2> HIDE DEF m, n
    <2>3. ListedIn(manifest') = ListedIn(manifest) \cup {<<m, n>>}
      BY ONLY <2>1, <2>2, ListedMore
    <2>4. Entries(manifest) = {r[2] : r \in ListedIn(manifest)}
      BY ONLY <2>1, EntriesAre
    <2>5. Entries(manifest') = {r[2] : r \in ListedIn(manifest')}
      BY ONLY <2>1, EntriesAre
    <2> SUFFICES ASSUME NEW e \in Entries(manifest'), e \notin Entries(manifest),
                        NEW d \in Entries(manifest)
                 PROVE  e.version > d.version
      OBVIOUS
    <2>6. PICK x \in ListedIn(manifest) : d = x[2]
      BY <2>4
    <2>7. PICK y \in ListedIn(manifest') : e = y[2]
      BY <2>5
    <2>8. y \notin ListedIn(manifest)
      BY <2>4, <2>7
    <2>9. e = n
      BY <2>3, <2>7, <2>8
    <2>10. d.version < n.version
      BY <2>2, <2>6
    <2> QED  BY <2>9, <2>10
  <1>3. ~Adds
    BY DEF Adds
  <1> QED  BY <1>1, <1>2, <1>3, ManifestChanges

(* A generated version is above every version on the books when its entry   *)
(* is written, though clocks differ, hand-written versions come from        *)
(* anywhere and one run writes several (nextVersion, bumpVersion).          *)
THEOREM VersionsAlwaysAscend == Spec => VersionsAscend
  <1>1. TreeInv /\ [Next]_vars
          => [run.pc = "manifest" /\ manifest' # manifest =>
                \A e \in Entries(manifest') \ Entries(manifest), d \in Entries(manifest) :
                    e.version > d.version]_vars
    BY NewEntriesAbove
  <1> QED  BY <1>1, InvIsInvariant, PTL DEF Spec, VersionsAscend
=============================================================================
