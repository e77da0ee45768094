--------------------------- MODULE DomTreeProofs ----------------------------
(***************************************************************************)
(* DomBuilder implements Document: the tree the parser returns is the      *)
(* document that was read, for every document and every moment the client  *)
(* gives up.                                                               *)
(*                                                                         *)
(* The argument takes a reading of the heap as trees.  Nothing holds       *)
(* itself (Acyclic), so every set of blocks has one that holds none of the *)
(* set (HasSink), and a least number stands in for an induction over       *)
(* trees: TreeOf is what its definition says (TreesExist), and a set of    *)
(* blocks that keeps what it holds keeps its trees (SameTrees).  Whatever  *)
(* is complete stays as it is (DoneTrees), a container that is being       *)
(* filled shows a hole where the next one hangs, and a step changes the    *)
(* top of that stack as it changes the document.                           *)
(***************************************************************************)
EXTENDS DomTree, DomBuilderProofs

-----------------------------------------------------------------------------
(* Trees *)

(* Any set of blocks has one that holds none of the set: a least set that  *)
(* had none would lose a block that nothing in it holds.                   *)
Sinks == \A S \in (SUBSET Blocks) \ {{}} : \E b \in S : Contents(b) \cap S = {}

LEMMA HasSink == Acyclic => Sinks
<1> SUFFICES ASSUME Acyclic
             PROVE  Sinks
  OBVIOUS
<1> DEFINE Endless(S) == S # {} /\ \A b \in S : Contents(b) \cap S # {}
           Sizes == {Cardinality(S) : S \in {T \in SUBSET Blocks : Endless(T)}}
<1>1. \A S \in SUBSET Blocks : IsFiniteSet(S) /\ Cardinality(S) \in Nat
  BY FiniteConstants, FS_Subset, FS_CardinalityType
<1>2. ASSUME NEW S \in SUBSET Blocks, Endless(S)
      PROVE  \E T \in SUBSET Blocks : Endless(T) /\ Cardinality(T) < Cardinality(S)
  <2>1. PICK r \in S : \A d \in S : r \notin Contents(d)
    BY <1>2 DEF Acyclic
  <2>2. Endless(S \ {r})
    BY <1>2, <2>1
  <2>3. Cardinality(S \ {r}) < Cardinality(S)
    <3>1. Cardinality(S) \in Nat /\ Cardinality(S \ {r}) = Cardinality(S) - 1
      BY <1>1, <2>1, FS_RemoveElement
    <3> QED
      BY <3>1
  <2> QED
    BY <2>2, <2>3
<1>3. ASSUME NEW S \in SUBSET Blocks, Endless(S)
      PROVE  FALSE
  <2>1. Sizes \in SUBSET Nat /\ Sizes # {}
    BY <1>1, <1>3
  <2>2. PICK n \in Sizes : \A m \in Sizes : n <= m
    BY <2>1, HasLeast
  <2>3. PICK T \in SUBSET Blocks : Endless(T) /\ Cardinality(T) = n
    BY <2>2
  <2>4. PICK U \in SUBSET Blocks : Endless(U) /\ Cardinality(U) < n
    BY <1>2, <2>3
  <2>5. Cardinality(U) \in Sizes /\ Cardinality(U) \in Nat /\ n \in Nat
    BY <1>1, <2>1, <2>4
  <2> QED
    BY <2>2, <2>4, <2>5
<1> QED
  BY <1>3 DEF Sinks

(* What containers hold is among their contents.                           *)
LEMMA ItemsHeld ==
  ASSUME TypeOK, WellFormed, Packed, NEW b \in Blocks, Container(b)
  PROVE  /\ \A i \in DOMAIN Items(b) : Items(b)[i] \in Contents(b) /\ Items(b)[i] \in Values
         /\ Items(b) = [i \in DOMAIN Items(b) |-> Items(b)[i]]
<1>1. CASE kind[b] = "array"
  <2>1. DOMAIN Items(b) = 1 .. size[b] /\ \A i \in 1 .. size[b] : Items(b)[i] = elem[<<b, i - 1>>]
    BY <1>1 DEF Items
  <2>2. ASSUME NEW i \in 1 .. size[b]
        PROVE  elem[<<b, i - 1>>] \in Contents(b) /\ elem[<<b, i - 1>>] \in Values
    <3>1. i - 1 \in 0 .. size[b] - 1 /\ <<b, i - 1>> \in Cells
      BY MaxSizeAssumption DEF TypeOK, Cells, Index
    <3>2. elem[<<b, i - 1>>] # None /\ elem[<<b, i - 1>>] \in Values \cup {None}
      BY <1>1, <3>1 DEF Packed, TypeOK
    <3> QED
      BY <3>1, <3>2 DEF Contents
  <2>3. Items(b) = [i \in DOMAIN Items(b) |-> Items(b)[i]]
    BY <1>1 DEF Items
  <2> QED
    BY <2>1, <2>2, <2>3
<1>2. CASE kind[b] = "object"
  <2>1. /\ DOMAIN Items(b) = {m \in Names : keyOf[<<b, m>>] # None}
        /\ \A n \in DOMAIN Items(b) : Items(b)[n] = value[<<b, n>>]
        /\ Items(b) = [i \in DOMAIN Items(b) |-> Items(b)[i]]
    BY <1>2 DEF Items
  <2>2. ASSUME NEW n \in Names, keyOf[<<b, n>>] # None
        PROVE  value[<<b, n>>] \in Contents(b) /\ value[<<b, n>>] \in Values
    <3>1. value[<<b, n>>] # None
      BY <1>2, <2>2 DEF WellFormed
    <3> QED
      BY <3>1 DEF TypeOK, Members, Contents
  <2> QED
    BY <2>1, <2>2
<1> QED
  BY <1>1, <1>2 DEF Container, Is

(* TreeBy says what f is at v.                                             *)
Tells(f, v) == f[v] = TreeBy(f, v)
Trees == CHOOSE f : f = [v \in Values |-> TreeBy(f, v)]

LEMMA TreeByAgrees ==
  ASSUME NEW v, NEW f, NEW g,
         Container(v) => \A i \in DOMAIN Items(v) : f[Items(v)[i]] = g[Items(v)[i]]
  PROVE  TreeBy(f, v) = TreeBy(g, v)
<1>1. CASE Container(v)
  <2>1. [i \in DOMAIN Items(v) |-> f[Items(v)[i]]] = [i \in DOMAIN Items(v) |-> g[Items(v)[i]]]
    BY <1>1
  <2> QED
    BY <1>1, <2>1 DEF TreeBy
<1> QED
  BY <1>1 DEF TreeBy

(* The least number of blocks left out by a function that tells the trees  *)
(* of a closed set is 0.                                                   *)
LEMMA TreesExist ==
  ASSUME IInv, Packed
  PROVE  Trees = [v \in Values |-> TreeBy(Trees, v)]
<1>0. TypeOK /\ WellFormed /\ Sinks
  BY HasSink DEF IInv
<1> DEFINE Told(S, f) == Closed(S) /\ f = [v \in Values |-> f[v]] /\ \A v \in S \cup {Const} : Tells(f, v)
           Sets == {S \in SUBSET Blocks : \E f : Told(S, f)}
           Left == {Cardinality(Blocks \ S) : S \in Sets}
<1>1. \A S \in SUBSET Blocks :
        IsFiniteSet(Blocks \ S) /\ Cardinality(Blocks \ S) \in Nat
  BY FiniteConstants, FS_Subset, FS_CardinalityType
<1>2. {} \in Sets
  <2> DEFINE f == [v \in Values |-> Docs!Leaf(Const)]
  <2>1. Closed({}) /\ f = [v \in Values |-> f[v]] /\ f[Const] = Docs!Leaf(Const)
    BY DEF Closed, Values
  <2>2. TreeBy(f, Const) = Docs!Leaf(Const)
    BY ConstsDiffer DEF TreeBy, Container, Is
  <2> HIDE DEF f
  <2>3. Told({}, f)
    BY <2>1, <2>2 DEF Tells
  <2> QED
    BY <2>3
<1>3. ASSUME NEW S \in Sets, Blocks \ S # {}
      PROVE  \E T \in Sets : Cardinality(Blocks \ T) < Cardinality(Blocks \ S)
  <2>1. PICK f : Told(S, f)
    BY <1>3
  <2>2. PICK b \in Blocks \ S : Contents(b) \cap (Blocks \ S) = {}
    BY <1>0, <1>3 DEF Sinks
  <2> DEFINE g == [v \in Values |-> IF v = b THEN TreeBy(f, b) ELSE f[v]]
             T == S \cup {b}
  <2>3. Closed(T)
    BY <2>1, <2>2 DEF Closed
  <2>4. \A v \in Values : g[v] = IF v = b THEN TreeBy(f, b) ELSE f[v]
    OBVIOUS
  <2>5. g = [v \in Values |-> g[v]] /\ b \in Values /\ Const \in Values /\ b # Const /\ S \subseteq Values
    BY ConstsDiffer DEF Values
  <2> HIDE DEF g
  <2>6. ASSUME NEW v \in T \cup {Const}
        PROVE  Tells(g, v)
    <3>1. ASSUME Container(v), NEW i \in DOMAIN Items(v)
          PROVE  f[Items(v)[i]] = g[Items(v)[i]]
      <4>1. v \in Blocks
        BY <3>1 DEF Container, Is
      <4>2. Items(v)[i] \in Contents(v) /\ Items(v)[i] \in Values
        BY <1>0, <3>1, <4>1, ItemsHeld
      <4>3. Items(v)[i] # b
        BY <2>1, <2>2, <4>1, <4>2, ConstsDiffer DEF Closed
      <4> QED
        BY <2>4, <4>2, <4>3
    <3>2. TreeBy(f, v) = TreeBy(g, v)
      BY <3>1, TreeByAgrees
    <3>3. g[v] = TreeBy(f, v)
      BY <2>1, <2>2, <2>4, <2>5 DEF Tells
    <3> QED
      BY <3>2, <3>3 DEF Tells
  <2>7. T \in Sets
    BY <2>3, <2>5, <2>6
  <2>8. Cardinality(Blocks \ T) < Cardinality(Blocks \ S)
    <3>1. Cardinality((Blocks \ S) \ {b}) = Cardinality(Blocks \ S) - 1
      BY <1>1, <2>2, FS_RemoveElement
    <3>2. (Blocks \ S) \ {b} = Blocks \ T /\ Cardinality(Blocks \ S) \in Nat
      BY <1>1
    <3> HIDE DEF T
    <3> QED
      BY <3>1, <3>2
  <2> HIDE DEF T, Sets
  <2> QED
    BY <2>7, <2>8
<1>4. Left \in SUBSET Nat /\ Left # {}
  BY <1>1, <1>2
<1>5. PICK n \in Left : \A m \in Left : n <= m
  BY <1>4, HasLeast
<1>6. PICK S \in Sets : Cardinality(Blocks \ S) = n
  BY <1>5
<1>7. Blocks \ S = {}
  <2> SUFFICES ASSUME Blocks \ S # {}
               PROVE  FALSE
    OBVIOUS
  <2>1. PICK T \in Sets : Cardinality(Blocks \ T) < n
    <3> HIDE DEF Sets
    <3> QED
      BY <1>3, <1>6
  <2>2. PICK m \in Left : m < n /\ m \in Nat /\ n \in Nat
    BY <1>1, <1>4, <2>1
  <2> HIDE DEF Left
  <2> QED
    BY <1>5, <2>2
<1>8. PICK f : Told(S, f)
  BY <1>6
<1>9. \A v \in Values : f[v] = TreeBy(f, v)
  BY <1>7, <1>8 DEF Tells, Values
<1>10. f = [v \in Values |-> TreeBy(f, v)]
  BY <1>8, <1>9
<1> QED
  BY <1>10 DEF Trees

LEMMA TreeIs ==
  ASSUME IInv, Packed, NEW v \in Values
  PROVE  TreeOf(v) = TreeBy(Trees, v) /\ Trees[v] = TreeBy(Trees, v)
<1>1. TreeOf(v) = Trees[v]
  BY DEF TreeOf, Trees
<1>2. Trees = [w \in Values |-> TreeBy(Trees, w)]
  BY TreesExist
<1> HIDE DEF Trees
<1> QED
  BY <1>1, <1>2
-----------------------------------------------------------------------------
(* What a step leaves of the trees.                                        *)

TreesTell ==
  \A v \in Values : TreeOf(v) = TreeBy(Trees, v) /\ Trees[v] = TreeBy(Trees, v)

LEMMA TreesNow == IInv /\ Packed => TreesTell
BY TreeIs DEF TreesTell

LEMMA TreesNext == IInv' /\ Packed' => TreesTell'
BY TreesNow, PTL

(* A block holds what it held, in its place.                               *)
Rests(b) ==
  /\ size'[b] = size[b]
  /\ \A i \in 0 .. size[b] - 1 : elem'[<<b, i>>] = elem[<<b, i>>]
  /\ \A n \in Names : keyOf'[<<b, n>>] = keyOf[<<b, n>>] /\ value'[<<b, n>>] = value[<<b, n>>]

Stays(b) == kind[b] \in Live /\ kind'[b] \in Live

LEMMA RestsHold ==
  ASSUME TypeOK, NEW b \in Blocks, Rests(b)
  PROVE  /\ Contents(b)' = Contents(b)
         /\ kind'[b] = kind[b] => Items(b)' = Items(b)
<1>1. Contents(b)' = Contents(b)
  BY DEF Rests, Contents
<1>2. ASSUME kind'[b] = kind[b]
      PROVE  Items(b)' = Items(b)
  <2>1. CASE kind[b] = "array"
    <3>1. \A i \in 1 .. size[b] : i - 1 \in 0 .. size[b] - 1
      BY MaxSizeAssumption DEF TypeOK
    <3> QED
      BY <1>2, <2>1, <3>1 DEF Rests, Items
  <2>2. CASE kind[b] # "array"
    <3>1. {m \in Names : keyOf'[<<b, m>>] # None} = {m \in Names : keyOf[<<b, m>>] # None}
      BY DEF Rests
    <3>2. [n \in {m \in Names : keyOf'[<<b, m>>] # None} |-> value'[<<b, n>>]]
          = [n \in {m \in Names : keyOf[<<b, m>>] # None} |-> value[<<b, n>>]]
      BY <3>1 DEF Rests
    <3> QED
      BY <1>2, <2>2, <3>2 DEF Items
  <2> QED
    BY <2>1, <2>2
<1> QED
  BY <1>1, <1>2

(* Whatever a block holds is alive.                                        *)
ContentsLive == \A b, c \in Blocks : c \in Contents(b) => kind[c] \in Live

LEMMA ContentsLiveNow == IInv => ContentsLive
<1> SUFFICES ASSUME IInv, NEW b \in Blocks, NEW c \in Blocks, c \in Contents(b)
             PROVE  kind[c] \in Live
  BY DEF ContentsLive
<1>1. Holds(b, c)
  BY ContentsHeld DEF IInv, ContentsHold
<1>2. LiveRefs
  BY Referenced DEF IInv
<1>3. ~Unreferenced(c)
  BY <1>1 DEF Holds, Unreferenced, Cells, Members
<1> QED
  BY <1>2, <1>3 DEF LiveRefs

LEMMA ContentsLiveNext == IInv' => ContentsLive'
BY ContentsLiveNow, PTL

(* The trees of a closed set that rests are what they were: the set of the *)
(* others would have no block that holds none of them.                     *)
LEMMA SameTrees ==
  ASSUME IInv, IInv', [Call]_vars, Packed, Packed',
         NEW S \in SUBSET Blocks, Closed(S), \A b \in S : Stays(b) /\ Rests(b)
  PROVE  \A v \in S \cup {Const} : TreeOf(v)' = TreeOf(v)
<1>0. TypeOK /\ WellFormed /\ Sinks /\ TreesTell /\ TreesTell' /\ Const \in Values /\ S \subseteq Values
  BY HasSink, TreesNow, TreesNext DEF IInv, Values
<1>1. \A b \in S : kind'[b] = kind[b] /\ text'[b] = text[b]
  BY KindKept DEF Stays
<1>2. Trees'[Const] = Docs!Leaf(Const) /\ Trees[Const] = Docs!Leaf(Const)
  <2>1. ~Container(Const) /\ ~Container(Const)'
    BY ConstsDiffer DEF Container, Is
  <2>2. Trees[Const] = TreeBy(Trees, Const) /\ Trees'[Const] = TreeBy(Trees, Const)'
    BY <1>0 DEF TreesTell
  <2> QED
    BY <2>1, <2>2 DEF TreeBy
<1> DEFINE Bad == {b \in S : Trees'[b] # Trees[b]}
<1>3. ASSUME NEW b \in S, Contents(b) \cap Bad = {}
      PROVE  TreeBy(Trees, b)' = TreeBy(Trees, b)
  <2>1. Items(b)' = Items(b) /\ Container(b)' = Container(b) /\ b # Const
    BY <1>0, <1>1, RestsHold, ConstsDiffer DEF Container, Is
  <2>2. CASE Container(b)
    <3>1. ASSUME NEW i \in DOMAIN Items(b)
          PROVE  Trees'[Items(b)[i]] = Trees[Items(b)[i]]
      <4>1. Items(b)[i] \in Contents(b) /\ Items(b)[i] \in Values
        BY <1>0, <2>2, ItemsHeld
      <4>2. Items(b)[i] = Const \/ Items(b)[i] \in S \ Bad
        BY <1>3, <4>1 DEF Values, Closed
      <4> QED
        BY <1>2, <4>2
    <3>2. [i \in DOMAIN Items(b) |-> Trees'[Items(b)[i]]] = [i \in DOMAIN Items(b) |-> Trees[Items(b)[i]]]
      BY <3>1
    <3> HIDE DEF Bad
    <3> QED
      BY <1>1, <2>1, <2>2, <3>2 DEF TreeBy
  <2>3. CASE ~Container(b)
    BY <1>1, <2>1, <2>3 DEF TreeBy
  <2> QED
    BY <2>2, <2>3
<1>4. Bad = {}
  <2> SUFFICES ASSUME Bad # {}
               PROVE  FALSE
    OBVIOUS
  <2>1. PICK b \in Bad : Contents(b) \cap Bad = {}
    BY <1>0 DEF Sinks
  <2>2. TreeBy(Trees, b)' = TreeBy(Trees, b)
    BY <1>3, <2>1
  <2>3. b \in Values /\ b \in S /\ Trees'[b] # Trees[b]
    BY <1>0, <2>1
  <2>4. Trees[b] = TreeBy(Trees, b) /\ Trees'[b] = TreeBy(Trees, b)'
    BY <1>0, <2>3 DEF TreesTell
  <2> QED
    BY <2>2, <2>3, <2>4
<1>5. ASSUME NEW v \in S \cup {Const}
      PROVE  TreeOf(v)' = TreeOf(v)
  <2>1. v \in Values /\ Trees'[v] = Trees[v]
    BY <1>0, <1>2, <1>4
  <2>2. /\ TreeOf(v) = Trees[v]
        /\ TreeOf(v)' = Trees'[v]
    BY <1>0, <2>1 DEF TreesTell
  <2> QED
    BY <2>1, <2>2
<1> QED
  BY <1>5

(* The containers being filled, and everything that is complete.           *)
Filling == {Held(d) : d \in 0 .. Depth - 1}
Done == {b \in Blocks : kind[b] \in Live} \ Filling

LEMMA DoneClosed ==
  ASSUME IInv, DomInv, Chained, NEW b \in Done, NEW c \in Blocks, c \in Contents(b)
  PROVE  c \in Done
<1>1. kind[c] \in Live
  BY ContentsLiveNow DEF ContentsLive, Done
<1>2. ASSUME NEW d \in 0 .. Depth - 1, c = Held(d)
      PROVE  FALSE
  <2>1. d > 0 /\ b = Held(d - 1)
    BY <1>2 DEF Chained, Done
  <2>2. d - 1 \in 0 .. Depth - 1
    BY <2>1, DepthRange DEF DomInv
  <2> QED
    BY <2>1, <2>2 DEF Done, Filling
<1> QED
  BY <1>1, <1>2 DEF Done, Filling

DoneRests == \A b \in Done : kind'[b] \in Live => Rests(b)

LEMMA DoneTrees ==
  ASSUME Step, Packed, Packed', Chained, DoneRests
  PROVE  /\ \A b \in Done : kind'[b] \in Live => TreeOf(b)' = TreeOf(b)
         /\ TreeOf(Const)' = TreeOf(Const)
<1> DEFINE S == {b \in Done : kind'[b] \in Live}
<1>0. IInv /\ IInv' /\ [Call]_vars /\ DomInv /\ TypeOK /\ S \in SUBSET Blocks
  BY DEF Step, IInv, Done
<1>1. Closed(S)
  <2> SUFFICES ASSUME NEW b \in S, NEW c \in Contents(b) \cap Blocks
               PROVE  c \in S
    BY DEF Closed
  <2>1. c \in Done
    BY <1>0, DoneClosed
  <2>2. Contents(b)' = Contents(b)
    BY <1>0, RestsHold DEF DoneRests
  <2>3. kind'[c] \in Live
    BY <1>0, <2>2, ContentsLiveNext DEF ContentsLive
  <2> QED
    BY <2>1, <2>3
<1>2. \A b \in S : Stays(b) /\ Rests(b)
  BY DEF DoneRests, Done, Stays
<1>3. \A v \in S \cup {Const} : TreeOf(v)' = TreeOf(v)
  BY <1>0, <1>1, <1>2, SameTrees
<1> QED
  BY <1>3
-----------------------------------------------------------------------------
(* What the containers being filled hold.                                  *)

OpenTells ==
  /\ \A b \in Blocks : Container(b) =>
       /\ \A hole : OpenItems(b, hole) =
            [i \in DOMAIN Items(b) |-> IF Items(b)[i] = hole THEN Docs!Hole ELSE Trees[Items(b)[i]]]
       /\ TreeOf(b) = Docs!Tree(kind[b], None, OpenItems(b, None))
  /\ \A v \in Values : TreeOf(v) = Trees[v] /\ Trees[v] # Docs!Hole

LEMMA OpenNow == IInv /\ Packed => OpenTells
<1> SUFFICES ASSUME IInv, Packed
             PROVE  OpenTells
  OBVIOUS
<1>0. TypeOK /\ WellFormed /\ TreesTell
  BY TreesNow DEF IInv
<1>1. ASSUME NEW b \in Blocks, Container(b), NEW hole
      PROVE  OpenItems(b, hole) =
               [i \in DOMAIN Items(b) |-> IF Items(b)[i] = hole THEN Docs!Hole ELSE Trees[Items(b)[i]]]
  <2>1. \A i \in DOMAIN Items(b) : TreeOf(Items(b)[i]) = Trees[Items(b)[i]]
    BY <1>0, <1>1, ItemsHeld DEF TreesTell
  <2> QED
    BY <2>1 DEF OpenItems
<1>2. ASSUME NEW b \in Blocks, Container(b)
      PROVE  TreeOf(b) = Docs!Tree(kind[b], None, OpenItems(b, None))
  <2>1. \A i \in DOMAIN Items(b) : Items(b)[i] # None
    BY <1>0, <1>2, ItemsHeld, ConstsDiffer DEF Values
  <2>2. [i \in DOMAIN Items(b) |-> IF Items(b)[i] = None THEN Docs!Hole ELSE Trees[Items(b)[i]]]
        = [i \in DOMAIN Items(b) |-> Trees[Items(b)[i]]]
    BY <2>1
  <2>3. TreeOf(b) = TreeBy(Trees, b)
    BY <1>0 DEF TreesTell, Values
  <2>4. OpenItems(b, None) = [i \in DOMAIN Items(b) |-> Trees[Items(b)[i]]]
    BY <1>1, <1>2, <2>2
  <2> QED
    BY <1>2, <2>3, <2>4 DEF TreeBy
<1>3. ASSUME NEW v \in Values
      PROVE  TreeOf(v) = Trees[v] /\ Trees[v] # Docs!Hole
  <2>1. TreeOf(v) = Trees[v] /\ Trees[v] = TreeBy(Trees, v)
    BY <1>0 DEF TreesTell
  <2>2. TreeBy(Trees, v).kind # "open"
    BY DEF TreeBy, Container, Is, Docs!Tree, Docs!Leaf
  <2>3. Docs!Hole.kind = "open"
    BY DEF Docs!Hole, Docs!Tree
  <2> QED
    BY <2>1, <2>2, <2>3
<1> QED
  BY <1>1, <1>2, <1>3 DEF OpenTells

LEMMA OpenNext == IInv' /\ Packed' => OpenTells'
BY OpenNow, PTL

LEMMA FilledHere ==
  ASSUME DomInv, NEW d \in 0 .. Depth - 1
  PROVE  /\ d \in Nat /\ d \in Levels
         /\ mValue[d] # None /\ mValue[d] \in Handles
         /\ Held(d) \in Blocks /\ Container(Held(d)) /\ Held(d) \in Filling
         /\ \A e \in 0 .. Depth - 1 : Held(d) = Held(e) => d = e
<1>1. Depth \in Nat /\ Depth <= MaxDepth /\ Filled(Depth) /\ MaxDepth \in Nat
  BY DepthIs, DomAssumption
<1>2. d \in Nat /\ d \in Levels
  BY <1>1 DEF Levels
<1>3. mValue[d] # None /\ Held(d) \in Blocks /\ kind[Held(d)] \in {"object", "array"}
  BY <1>1 DEF Filled
<1>4. \A e \in 0 .. Depth - 1 : Held(d) = Held(e) => d = e
  BY <1>1 DEF Filled
<1> QED
  BY <1>2, <1>3, <1>4, ValuesHeld DEF DomInv, Container, Is, Filling

LevelsFilled ==
  \A d \in 0 .. Depth - 1 : mValue[d] # None /\ Held(d) \in Blocks /\ Container(Held(d))

LEMMA FilledNow == DomInv => LevelsFilled
BY FilledHere DEF LevelsFilled

LEMMA FilledNext == DomInv' => LevelsFilled'
BY FilledNow, PTL

(* An item is complete, unless it is the next container.                   *)
LEMMA ItemDone ==
  ASSUME IInv, DomInv, Packed, Chained, NEW d \in 0 .. Depth - 1,
         NEW b \in Blocks, b = Held(d), NEW i \in DOMAIN Items(b)
  PROVE  /\ Items(b)[i] \in Values /\ Items(b)[i] \in Contents(b) /\ Items(b)[i] # None
         /\ Items(b)[i] = Const \/ Items(b)[i] \in Done \/ Items(b)[i] = Inner(d)
<1>0. TypeOK /\ WellFormed /\ Container(b) /\ d \in Nat
  BY FilledHere DEF IInv
<1>1. Items(b)[i] \in Values /\ Items(b)[i] \in Contents(b)
  BY <1>0, ItemsHeld
<1>2. PICK v \in Values : v = Items(b)[i]
  BY <1>1
<1>3. ASSUME v \in Blocks, v \in Filling
      PROVE  v = Inner(d)
  <2>1. PICK e \in 0 .. Depth - 1 : v = Held(e)
    BY <1>3 DEF Filling
  <2>2. e > 0 /\ b = Held(e - 1)
    BY <1>1, <1>2, <2>1 DEF Chained
  <2>3. e - 1 \in 0 .. Depth - 1 /\ Depth \in Nat
    BY <2>2, DepthRange DEF DomInv
  <2>4. d = e - 1
    BY <2>2, <2>3, FilledHere
  <2>5. d + 1 = e /\ d + 1 < Depth
    BY <1>0, <2>1, <2>2, <2>3, <2>4
  <2> QED
    BY <2>1, <2>5 DEF Inner
<1>4. v \in Blocks => kind[v] \in Live
  BY <1>1, <1>2, ContentsLiveNow DEF ContentsLive
<1> QED
  BY <1>1, <1>2, <1>3, <1>4, ConstsDiffer DEF Values, Done

(* The items that a container keeps have the trees they had.               *)
LEMMA ItemKept ==
  ASSUME Step, Packed, Packed', Chained, DoneRests, NEW v \in Values,
         v = Const \/ v \in Done, v \in Blocks => kind'[v] \in Live
  PROVE  Trees'[v] = Trees[v]
<1>0. OpenTells /\ OpenTells' /\ (v \in Done => v \in Blocks)
  BY OpenNow, OpenNext DEF Step, Done
<1>1. TreeOf(v)' = TreeOf(v)
  BY <1>0, DoneTrees
<1>2. TreeOf(v)' = Trees'[v] /\ TreeOf(v) = Trees[v]
  BY <1>0 DEF OpenTells
<1> QED
  BY <1>1, <1>2

LEMMA OpenItemsSame ==
  ASSUME Step, Packed, Packed', Chained, DoneRests, NEW d \in 0 .. Depth - 1,
         NEW b \in Blocks, b = Held(d), NEW hole, hole = Inner(d), kind'[b] \in Live, Rests(b)
  PROVE  OpenItems(b, hole)' = OpenItems(b, hole) /\ kind'[b] = kind[b]
<1>0. /\ IInv /\ IInv' /\ DomInv /\ TypeOK /\ Container(b) /\ [Call]_vars
      /\ OpenTells /\ OpenTells'
  BY FilledHere, OpenNow, OpenNext DEF Step, IInv
<1>1. kind[b] \in Live
  BY <1>0 DEF Container, Is, Live
<1>2. kind'[b] = kind[b] /\ Container(b)'
  BY <1>0, <1>1, KindKept DEF Container, Is
<1>3. Items(b)' = Items(b) /\ Contents(b)' = Contents(b)
  BY <1>0, <1>2, RestsHold
<1>4. ASSUME NEW i \in DOMAIN Items(b)
      PROVE  Items(b)[i] = hole \/ Trees'[Items(b)[i]] = Trees[Items(b)[i]]
  <2>1. PICK v \in Values : v = Items(b)[i] /\ v \in Contents(b) /\ (v = Const \/ v \in Done \/ v = hole)
    BY <1>0, ItemDone
  <2>2. v \in Blocks => kind'[v] \in Live
    BY <1>0, <1>3, <2>1, ContentsLiveNext DEF ContentsLive
  <2> QED
    BY <2>1, <2>2, ItemKept
<1>5. OpenItems(b, hole) =
        [i \in DOMAIN Items(b) |-> IF Items(b)[i] = hole THEN Docs!Hole ELSE Trees[Items(b)[i]]]
  BY <1>0 DEF OpenTells
<1>6. OpenItems(b, hole)' =
        [i \in DOMAIN Items(b)' |-> IF Items(b)'[i] = hole THEN Docs!Hole ELSE Trees'[Items(b)'[i]]]
  BY <1>0, <1>2 DEF OpenTells
<1> QED
  BY <1>2, <1>3, <1>4, <1>5, <1>6
-----------------------------------------------------------------------------
(* The document after a step, by the blocks that its containers are then.  *)

LEMMA ContainerNow ==
  ASSUME NEW d, NEW b, NEW hole, b = Held(d), hole = Inner(d)
  PROVE  OpenContainer(d) = Docs!Frame(kind[b], OpenItems(b, hole), PendingKey(d))
BY DEF OpenContainer

LEMMA ContainerNext ==
  ASSUME NEW d, NEW b, NEW hole, Held(d)' = b, Inner(d)' = hole
  PROVE  OpenContainer(d)' = Docs!Frame(kind'[b], OpenItems(b, hole)', PendingKey(d)')
BY DEF OpenContainer, OpenItems, Items, TreeOf

LEMMA BuiltNext ==
  ASSUME NEW v, Held(0)' = v
  PROVE  Built' = IF Building' /\ context' = 0 /\ mValue'[0] # None THEN TreeOf(v)' ELSE Docs!Nothing
BY DEF Built, TreeOf

-----------------------------------------------------------------------------
(* Steps that put nothing anywhere.                                        *)

Soft == UNCHANGED <<size, elem, keyOf, value>> \/ Releasing

LEMMA NoRevival ==
  ASSUME IInv, [Call]_vars, NEW b \in Blocks, kind'[b] \in Live, kind[b] \notin Live
  PROVE  kind[b] = "free" /\ ~Releasing
<1>0. TypeOK
  BY DEF IInv
<1>1. CASE Releasing
  <2>1. ASSUME NEW v, Unref(v)
        PROVE  FALSE
    BY <1>0, <2>1 DEF Unref, Live
  <2>2. ASSUME NEW d \in Blocks, Free(d)
        PROVE  FALSE
    BY <1>0, <2>2 DEF Free, TypeOK, Live
  <2> QED
    BY <1>1, <2>1, <2>2 DEF Releasing, ReleaseLocal, ReleaseElem, ReleaseKey, ReleaseValue
<1>2. CASE HandleCall
  <2>1. ASSUME NEW h \in Handles, NEW c \in Blocks, NEW k, NEW n, Create(h, c, k, n)
        PROVE  kind[b] = "free"
    BY <1>0, <2>1 DEF Create, Alloc, TypeOK
  <2>2. CASE \E h \in Handles : TakeConst(h) \/ Release(h)
    BY <2>2 DEF TakeConst, Release
  <2>3. CASE \E v \in Values, h \in Handles : Copy(v, h) \/ LookupKey(v, h)
    BY <2>3 DEF Copy, LookupKey, Share
  <2> QED
    BY <1>1, <1>2, <2>1, <2>2, <2>3 DEF HandleCall, CreateString, CreateObject, CreateArray
<1>3. CASE ObjectCall
  <2>1. ASSUME NEW o, NEW c \in Blocks, NEW n \in Names, NEW v, ObjectSet(o, n, v, c)
        PROVE  kind[b] = "free"
    BY <1>0, <2>1 DEF ObjectSet, Alloc, TypeOK
  <2> QED
    BY <1>1, <1>3, <2>1 DEF ObjectCall, ObjectPut, ObjectSet2, ObjectRemove
<1>4. CASE ArrayCall
  BY <1>1, <1>4 DEF ArrayCall, ArrayPut, ArraySet, ArrayAppend, ArrayInsert, ArrayRemove
<1>5. CASE UNCHANGED vars
  BY <1>1, <1>5 DEF vars
<1> QED
  BY <1>1, <1>2, <1>3, <1>4, <1>5 DEF Call

(* What a block that stays alive holds is never released.                  *)
LEMMA ReleasingRests ==
  ASSUME IInv, Releasing, NEW b \in Blocks, kind[b] \in Live
  PROVE  Rests(b)
<1>0. TypeOK /\ kind[b] # "dying"
  BY DEF IInv, Live
<1>1. \A i \in 0 .. size[b] - 1 : <<b, i>> \in Cells
  BY <1>0, MaxSizeAssumption DEF TypeOK, Cells, Index
<1>2. ASSUME NEW d \in Blocks, ReleaseElem(d)
      PROVE  Rests(b)
  <2>1. d # b /\ size'[b] = size[b] /\ UNCHANGED <<keyOf, value>>
    BY <1>0, <1>2 DEF ReleaseElem, TypeOK
  <2>2. \A i \in 0 .. size[b] - 1 : elem'[<<b, i>>] = elem[<<b, i>>]
    BY <1>0, <1>1, <1>2, <2>1 DEF ReleaseElem, TypeOK
  <2> QED
    BY <2>1, <2>2 DEF Rests
<1>3. ASSUME NEW d \in Blocks, NEW n \in Names, ReleaseKey(d, n)
      PROVE  Rests(b)
  <2>1. d # b /\ UNCHANGED <<size, elem, value>>
    BY <1>0, <1>3 DEF ReleaseKey
  <2>2. \A m \in Names : keyOf'[<<b, m>>] = keyOf[<<b, m>>]
    BY <1>0, <1>3, <2>1 DEF ReleaseKey, TypeOK, Members
  <2> QED
    BY <2>1, <2>2 DEF Rests
<1>4. ASSUME NEW d \in Blocks, NEW n \in Names, ReleaseValue(d, n)
      PROVE  Rests(b)
  <2>1. d # b /\ UNCHANGED <<size, elem, keyOf>>
    BY <1>0, <1>4 DEF ReleaseValue
  <2>2. \A m \in Names : value'[<<b, m>>] = value[<<b, m>>]
    BY <1>0, <1>4, <2>1 DEF ReleaseValue, TypeOK, Members
  <2> QED
    BY <2>1, <2>2 DEF Rests
<1>5. CASE (\E k \in Locals : ReleaseLocal(k)) \/ (\E d \in Blocks : Free(d))
  <2>1. UNCHANGED <<size, elem, keyOf, value>>
    BY <1>5 DEF ReleaseLocal, Free, containers
  <2> QED
    BY <2>1 DEF Rests
<1> QED
  BY <1>2, <1>3, <1>4, <1>5 DEF Releasing

LEMMA ReleasingEdges ==
  ASSUME IInv, IInv', Releasing, NEW b \in Blocks, NEW c \in Blocks, c \in Contents(b)'
  PROVE  c \in Contents(b)
<1>0. TypeOK /\ WellFormed /\ TypeOK' /\ c # None
  BY ConstsDiffer DEF IInv
<1>1. Holds(b, c)'
  BY <1>0, ContentsHeldNext DEF ContentsHold
<1>2. \A p : elem'[p] = c /\ p \in Cells => elem[p] = c
  BY <1>0, <1>1 DEF Releasing, ReleaseLocal, ReleaseElem, ReleaseKey, ReleaseValue, Free, containers, TypeOK
<1>3. \A p : keyOf'[p] = c /\ p \in Members => keyOf[p] = c
  BY <1>0, <1>1 DEF Releasing, ReleaseLocal, ReleaseElem, ReleaseKey, ReleaseValue, Free, containers, TypeOK
<1>4. \A p : value'[p] = c /\ p \in Members => value[p] = c
  BY <1>0, <1>1 DEF Releasing, ReleaseLocal, ReleaseElem, ReleaseKey, ReleaseValue, Free, containers, TypeOK
<1>5. Holds(b, c)
  BY <1>1, <1>2, <1>3, <1>4 DEF Holds, Cells, Members
<1> QED
  BY <1>0, <1>5, HeldContents

LEMMA SoftRests ==
  ASSUME Step, Soft
  PROVE  /\ \A b \in Blocks : Stays(b) => Rests(b)
         /\ \A b, c \in Blocks : c \in Contents(b)' => c \in Contents(b)
         /\ Packed => Packed'
<1>0. IInv /\ IInv' /\ [Call]_vars /\ TypeOK /\ WellFormed
  BY DEF Step, IInv
<1>1. ASSUME NEW b \in Blocks, Stays(b)
      PROVE  Rests(b)
  BY <1>0, <1>1, ReleasingRests DEF Soft, Stays, Rests
<1>2. ASSUME NEW b \in Blocks, NEW c \in Blocks, c \in Contents(b)'
      PROVE  c \in Contents(b)
  BY <1>0, <1>2, ReleasingEdges, ContentsSame DEF Soft
<1>3. ASSUME Packed, NEW b \in Blocks, kind'[b] = "array", NEW i \in 0 .. size'[b] - 1
      PROVE  elem'[<<b, i>>] # None
  <2>1. CASE kind[b] \in Live
    <3>1. Rests(b) /\ kind[b] = "array"
      BY <1>0, <1>1, <1>3, <2>1, KindKept DEF Stays, Live
    <3> QED
      BY <1>3, <3>1 DEF Rests, Packed
  <2>2. CASE kind[b] \notin Live
    <3>1. kind[b] = "free" /\ ~Releasing
      BY <1>0, <1>3, <2>2, NoRevival DEF Live
    <3>2. size'[b] = size[b] /\ ~(size[b] > 0) /\ size[b] \in Nat
      BY <1>0, <3>1, MaxSizeAssumption DEF Soft, WellFormed, TypeOK
    <3> QED
      BY <3>2
  <2> QED
    BY <2>1, <2>2
<1> QED
  BY <1>1, <1>2, <1>3 DEF Packed

(* The containers that stay where they are.                                *)
Remain(m) == \A d \in 0 .. m - 1 : d < Depth /\ Held(d)' = Held(d)

LEMMA ChainedStep ==
  ASSUME Step, DomInv', Chained, NEW m \in Nat, Depth' = m, Remain(m),
         \A b, c \in Blocks : c \in Contents(b)' => c \in Contents(b) \/ kind'[c] = "string",
         pc' \in {"copy", "attach"} => \A b \in Blocks : handle'[fresh'] \notin Contents(b)'
  PROVE  Chained'
<1>1. ASSUME NEW d \in 0 .. m - 1, NEW b \in Blocks, Held(d)' \in Contents(b)'
      PROVE  d > 0 /\ b = Held(d - 1)'
  <2>1. PICK c : c = Held(d)
    OBVIOUS
  <2>2. Held(d)' = c /\ d < Depth /\ Depth \in Nat /\ d \in 0 .. Depth - 1
    BY <2>1, DepthRange DEF Remain, Step, DomInv
  <2>3. c \in Blocks /\ kind'[c] # "string"
    <3>1. Held(d)' \in Blocks /\ Container(Held(d))'
      BY FilledNext DEF LevelsFilled
    <3> QED
      BY <2>2, <3>1 DEF Container, Is
  <2>4. c \in Contents(b)
    BY <1>1, <2>2, <2>3
  <2>5. d > 0 /\ b = Held(d - 1)
    BY <2>1, <2>2, <2>4 DEF Chained
  <2>6. d - 1 \in 0 .. m - 1
    BY <2>5
  <2> QED
    BY <2>5, <2>6 DEF Remain
<1> QED
  BY <1>1 DEF Chained

(* A step of which the document shows nothing.                             *)
Unseen ==
  /\ UNCHANGED <<mValue, given>> /\ Depth' = Depth /\ (context' = 0 <=> context = 0)
  /\ Building /\ Building'
  /\ \A d \in Levels : mValue[d] # None => handle'[mValue[d]] = handle[mValue[d]]

LEMMA UnseenLevels ==
  ASSUME Step, DomInv', Unseen
  PROVE  /\ Depth \in Nat /\ Remain(Depth)
         /\ \A d \in Levels : mValue[d] # None => Held(d)' = Held(d)
         /\ \A d \in 0 .. Depth - 1 :
              /\ Held(d) \in Blocks /\ kind'[Held(d)] \in Live
              /\ Inner(d)' = Inner(d) /\ PendingKey(d)' = PendingKey(d)
<1>1. Depth \in Nat
  BY DepthRange DEF Step, DomInv
<1>2. \A d \in Levels : mValue[d] # None => Held(d)' = Held(d)
  BY DEF Unseen, Held
<1>3. ASSUME NEW d \in 0 .. Depth - 1
      PROVE  d < Depth /\ Held(d)' = Held(d) /\ Held(d) \in Blocks /\ kind'[Held(d)] \in Live
  <2>1. d \in Levels /\ mValue[d] # None /\ Held(d) \in Blocks
    BY FilledHere DEF Step
  <2>2. Held(d)' = Held(d) /\ d < Depth
    BY <1>1, <1>2, <2>1
  <2>3. Container(Held(d))'
    BY FilledNext DEF LevelsFilled, Unseen
  <2> QED
    BY <2>1, <2>2, <2>3 DEF Container, Is, Live
<1>4. Remain(Depth)
  BY <1>3 DEF Remain
<1>5. ASSUME NEW d \in 0 .. Depth - 1
      PROVE  Inner(d)' = Inner(d)
  <2>1. CASE d + 1 < Depth
    <3>1. d + 1 \in 0 .. Depth - 1
      BY <1>1, <2>1
    <3> QED
      BY <1>3, <2>1, <3>1 DEF Inner, Unseen
  <2>2. CASE ~(d + 1 < Depth)
    BY <2>2 DEF Inner, Unseen
  <2> QED
    BY <2>1, <2>2
<1>6. ASSUME NEW d \in 0 .. Depth - 1
      PROVE  PendingKey(d)' = PendingKey(d)
  BY DEF PendingKey, Unseen
<1> QED
  BY <1>1, <1>2, <1>3, <1>4, <1>5, <1>6

(* The value at the top, when there is one, is complete.                   *)
LEMMA TopValue ==
  ASSUME IInv, DomInv, Building, context = 0, mValue[0] # None
  PROVE  /\ mValue[0] \in Handles /\ Held(0) \in Values /\ Depth = 0
         /\ Held(0) = Const \/ Held(0) \in Done
<1>1. 0 \in Levels /\ mValue[0] \in Handles /\ At(0) = mValue[0] /\ 0 \in Vars
  BY ValuesHeld, VarsAre, DomAssumption DEF DomInv, Levels, At
<1>2. Held(0) \in Values
  BY <1>1 DEF DomInv, Slots, Held, IInv, TypeOK
<1>3. Depth = 0
  BY DEF DomInv, Phase, Depth
<1>4. 0 .. 0 - 1 = {}
  OBVIOUS
<1>5. Held(0) \in Blocks => kind[Held(0)] \in Live
  BY <1>1, HandleLive DEF Held
<1> QED
  BY <1>1, <1>2, <1>3, <1>4, <1>5 DEF Values, Done, Filling

LEMMA UnseenStep ==
  ASSUME Step, DomInv', TreeInv, Soft, Unseen
  PROVE  Packed' /\ Open' = Open /\ Built' = Built
<1>0. /\ IInv /\ IInv' /\ DomInv /\ Packed /\ Packed' /\ Chained /\ DoneRests
      /\ Depth \in Nat /\ OpenTells /\ OpenTells'
  BY SoftRests, UnseenLevels, OpenNow, OpenNext DEF Step, TreeInv, DoneRests, Done, Stays
<1>1. ASSUME NEW d \in 0 .. Depth - 1
      PROVE  OpenContainer(d)' = OpenContainer(d)
  <2>1. PICK b \in Blocks : b = Held(d) /\ b = Held(d)' /\ kind'[b] \in Live
    BY UnseenLevels DEF Remain
  <2>2. PICK hole : hole = Inner(d) /\ hole = Inner(d)'
    BY UnseenLevels
  <2>3. kind[b] \in Live
    BY <1>0, <2>1, FilledHere DEF Container, Is, Live
  <2>4. Rests(b)
    BY <2>1, <2>3, SoftRests DEF Stays
  <2>5. OpenItems(b, hole)' = OpenItems(b, hole) /\ kind'[b] = kind[b]
    BY <1>0, <2>1, <2>2, <2>4, OpenItemsSame
  <2>6. PendingKey(d)' = PendingKey(d)
    BY UnseenLevels
  <2>7. OpenContainer(d) = Docs!Frame(kind[b], OpenItems(b, hole), PendingKey(d))
    BY <2>1, <2>2, ContainerNow
  <2>8. OpenContainer(d)' = Docs!Frame(kind'[b], OpenItems(b, hole)', PendingKey(d)')
    BY <2>1, <2>2, ContainerNext
  <2> QED
    BY <2>5, <2>6, <2>7, <2>8
<1>2. Open' = Open
  <2>1. Building /\ Building' /\ Depth' = Depth
    BY DEF Unseen
  <2>2. \A i \in 1 .. Depth : i - 1 \in 0 .. Depth - 1
    BY <1>0
  <2>3. \A i \in 1 .. Depth : OpenContainer(i - 1)' = OpenContainer(i - 1)
    BY <1>1, <2>2
  <2> QED
    BY <2>1, <2>3 DEF Open
<1>3. Built' = Built
  <2>1. CASE context = 0 /\ mValue[0] # None
    <3>1. PICK v \in Values : v = Held(0) /\ (v = Const \/ v \in Done) /\ mValue[0] \in Handles
      BY <1>0, <2>1, TopValue DEF Unseen
    <3>2. Held(0)' = v
      BY <2>1, <3>1, DomAssumption DEF Unseen, Held, Levels
    <3>3. v \in Blocks => kind'[v] \in Live
      <4>1. handle'[mValue[0]] = v
        BY <2>1, <3>2 DEF Unseen, Held
      <4> QED
        BY <1>0, <3>1, <4>1, HandlesLiveNext DEF HandlesLive
    <3>4. Trees'[v] = Trees[v]
      BY <1>0, <3>1, <3>3, ItemKept
    <3>5. TreeOf(v)' = TreeOf(v)
      BY <1>0, <3>4 DEF OpenTells
    <3>6. Built = TreeOf(v)
      BY <2>1, <3>1 DEF Built, Unseen
    <3>7. Built' = TreeOf(v)'
      BY <2>1, <3>2, BuiltNext DEF Unseen
    <3> QED
      BY <3>5, <3>6, <3>7
  <2>2. CASE ~(context = 0 /\ mValue[0] # None)
    BY <2>2 DEF Built, Unseen
  <2> QED
    BY <2>1, <2>2
<1> QED
  BY <1>0, <1>2, <1>3

(* The pending key is a string.                                            *)
LEMMA KeyThere ==
  ASSUME DomInv, Building, Depth > 0, mValue[Depth] # None
  PROVE  UnderKey(Depth) /\ Depth \in Levels /\ mValue[Depth] \in Handles /\ Held(Depth) \in Blocks
<1>0. /\ DomTypeOK /\ Phase /\ Grammar /\ Depth \in Levels
      /\ pc \in {"feed", "place", "copy", "attach"} /\ context \in Nat
  BY DepthIs DEF DomInv, Building, DomTypeOK, Levels
<1>1. pc \in {"feed", "place"} => Depth = context
  BY DEF Depth
<1>2. pc \in {"copy", "attach"} => Depth = context - 1
  BY DEF Depth
<1>3. UnderKey(Depth)
  BY <1>0, <1>1, <1>2 DEF Phase, Grammar, Room, InArray, AtTop
<1> QED
  BY <1>0, <1>3, ValuesHeld DEF UnderKey, Is

LEMMA UnseenInv ==
  ASSUME Step, DomInv', TreeInv, Soft, Unseen,
         pc' = "place" /\ handle'[fresh'] \in Blocks => text'[handle'[fresh']] = Text,
         pc' \in {"copy", "attach"} => \A b \in Blocks : handle'[fresh'] \notin Contents(b)'
  PROVE  TreeInv'
<1>0. IInv /\ IInv' /\ [Call]_vars /\ DomInv /\ Chained /\ TokensKept /\ Packed' /\ Depth' = Depth
  BY UnseenStep DEF Step, TreeInv, Unseen
<1>1. Chained'
  <2>1. PICK m \in Nat : m = Depth /\ Depth' = m /\ Remain(m)
    BY <1>0, UnseenLevels
  <2> QED
    BY <1>0, <2>1, SoftRests, ChainedStep
<1>2. ASSUME Depth > 0, mValue[Depth] # None
      PROVE  given \in Keys /\ Held(Depth)' = Held(Depth) /\ text'[Held(Depth)] = given
  <2>1. given \in Keys /\ text[Held(Depth)] = given
    BY <1>0, <1>2 DEF TokensKept, Unseen
  <2>2. Depth \in Levels /\ mValue[Depth] \in Handles /\ Held(Depth) \in Blocks
    BY <1>0, <1>2, KeyThere DEF Unseen
  <2>3. handle'[mValue[Depth]] = handle[mValue[Depth]]
    BY <1>2, <2>2 DEF Unseen
  <2>4. text'[Held(Depth)] = text[Held(Depth)]
    BY <1>0, <2>2, <2>3, HandleKept DEF Held
  <2>5. Held(Depth)' = Held(Depth)
    BY <1>0, <2>3 DEF Held, Unseen
  <2> QED
    BY <2>1, <2>4, <2>5
<1>3. TokensKept'
  BY <1>0, <1>2 DEF TokensKept, Unseen
<1> QED
  BY <1>0, <1>1, <1>3 DEF TreeInv

Stutter == Open' = Open /\ Built' = Built

LEMMA TakesSoft ==
  ASSUME Step, NEW h \in Handles, NEW x, Takes1(h, x)
  PROVE  /\ Soft /\ handle'[h] = x
         /\ \A g \in Handles : handle[g] # None => handle'[g] = handle[g]
         /\ \A d \in Levels : mValue[d] # None => handle'[mValue[d]] = handle[mValue[d]]
         /\ \A b : Contents(b)' = Contents(b)
BY TakesApart DEF Takes1, Soft

LEMMA MakeLeafTree ==
  ASSUME Step, DomInv', TreeInv, NEW h \in Handles, MakeLeaf(h)
  PROVE  TreeInv' /\ Stutter
<1>0. TypeOK /\ pc = "feed" /\ pc' = "place" /\ fresh' = h /\ UNCHANGED <<context, mValue, given>>
  BY DEF MakeLeaf, ValueAllowed, Step, IInv
<1>1. \E x : Takes1(h, x) /\ (x \in Blocks => text'[x] = Text)
  <2>1. CASE TakeConst(h)
    BY <2>1, ConstsDiffer DEF TakeConst, Takes1, containers
  <2>2. ASSUME NEW b \in Blocks, CreateString(h, b, Text)
        PROVE  Takes1(h, b) /\ text'[b] = Text
    BY <1>0, <2>2, ConstsDiffer DEF CreateString, Create, Alloc, Takes1, TypeOK
  <2> QED
    BY <2>1, <2>2 DEF MakeLeaf
<1>2. PICK x : Takes1(h, x) /\ (x \in Blocks => text'[x] = Text)
  BY <1>1
<1>3. Soft /\ Unseen /\ handle'[h] = x
  BY <1>0, <1>2, TakesSoft DEF Unseen, Building, Depth
<1> QED
  BY <1>0, <1>2, <1>3, UnseenStep, UnseenInv DEF Stutter

LEMMA StartNestedTree ==
  ASSUME Step, DomInv', TreeInv, NEW k \in {"object", "array"}, NEW h \in Handles, NEW b \in Blocks,
         Start(k, h, b), context > 0
  PROVE  TreeInv' /\ Stutter
<1>0. /\ IInv /\ pc = "feed" /\ pc' = "copy" /\ fresh' = h /\ UNCHANGED <<mValue, given>>
      /\ context' = context + 1 /\ context \in Nat
  BY DEF Start, ValueAllowed, Step, DomInv, DomTypeOK, Levels
<1>1. Takes1(h, b) /\ kind[b] = "free"
  BY StartEffect
<1>2. /\ Soft /\ handle'[h] = b /\ \A c : Contents(c)' = Contents(c)
      /\ \A d \in Levels : mValue[d] # None => handle'[mValue[d]] = handle[mValue[d]]
  BY <1>1, TakesSoft
<1>3. Unseen
  <2>1. Depth' = Depth /\ (context' = 0 <=> context = 0)
    BY <1>0 DEF Depth
  <2> QED
    BY <1>0, <1>2, <2>1 DEF Unseen, Building
<1>4. \A c \in Blocks : b \notin Contents(c)
  BY <1>0, <1>1, ContentsLiveNow DEF ContentsLive, Live
<1> QED
  BY <1>0, <1>2, <1>3, <1>4, UnseenStep, UnseenInv DEF Stutter

LEMMA CopyContainerTree ==
  ASSUME Step, DomInv', TreeInv, NEW h \in Handles, CopyContainer(h)
  PROVE  TreeInv' /\ Stutter
<1>0. /\ pc = "copy" /\ pc' = "attach" /\ UNCHANGED <<context, mValue, given, fresh>>
      /\ Copy(handle[fresh], h)
  BY DEF CopyContainer, Improper, DomInv, Kept
<1>1. fresh \in Handles /\ handle[fresh] \in Blocks
  BY <1>0 DEF Step, DomInv, Phase, DomTypeOK
<1>2. Takes1(h, handle[fresh])
  BY <1>0, <1>1, ConstsDiffer DEF Copy, Share, Takes1, containers
<1>3. /\ Soft /\ handle'[fresh] = handle[fresh] /\ \A c : Contents(c)' = Contents(c)
      /\ \A d \in Levels : mValue[d] # None => handle'[mValue[d]] = handle[mValue[d]]
  BY <1>1, <1>2, TakesSoft, ConstsDiffer
<1>4. Unseen
  BY <1>0, <1>3 DEF Unseen, Building, Depth
<1>5. \A c \in Blocks : handle[fresh] \notin Contents(c)
  BY <1>0 DEF TreeInv, Chained
<1> QED
  BY <1>0, <1>3, <1>4, <1>5, UnseenStep, UnseenInv DEF Stutter

LEMMA GetResultTree ==
  ASSUME Step, DomInv', TreeInv, NEW h \in Handles, GetResult(h)
  PROVE  TreeInv' /\ Stutter
<1>0. pc = "feed" /\ pc' = "feed" /\ UNCHANGED <<context, mValue, given>> /\ Copy(Held(0), h)
  BY DEF GetResult, InClient
<1>1. Held(0) # None
  BY <1>0, DomAssumption, VisibleLive, ConstsDiffer DEF Copy, Visible, Owned, Contents, Step, IInv
<1>2. Takes1(h, Held(0))
  BY <1>0, <1>1 DEF Copy, Share, Takes1, containers
<1>3. /\ Soft
      /\ \A d \in Levels : mValue[d] # None => handle'[mValue[d]] = handle[mValue[d]]
  BY <1>2, TakesSoft
<1>4. Unseen
  BY <1>0, <1>3 DEF Unseen, Building, Depth
<1> QED
  BY <1>0, <1>3, <1>4, UnseenStep, UnseenInv DEF Stutter

LEMMA ReleasesApart ==
  ASSUME Step, NEW h \in results, Release(h)
  PROVE  /\ Soft
         /\ \A d \in Levels : mValue[d] # None => handle'[mValue[d]] = handle[mValue[d]]
         /\ \A v \in Vars : At(v) # None => handle'[At(v)] = handle[At(v)]
<1>0. TypeOK /\ DomTypeOK /\ Slots
  BY DEF Step, IInv, DomInv
<1>1. Soft /\ handle' = [handle EXCEPT ![h] = None]
  BY DEF Release, Soft, containers
<1>2. ASSUME NEW v \in Vars, At(v) # None
      PROVE  handle'[At(v)] = handle[At(v)]
  <2>1. At(v) # h /\ At(v) \in Handles
    BY <1>0, <1>2, VarsAre DEF Slots, At, DomTypeOK
  <2> QED
    BY <1>0, <1>1, <2>1 DEF TypeOK
<1>3. \A d \in Levels : At(d) = mValue[d] /\ d \in Vars
  BY VarsAre DEF At
<1> QED
  BY <1>1, <1>2, <1>3

LEMMA ReleaseResultTree ==
  ASSUME Step, DomInv', TreeInv, NEW h \in Handles, ReleaseResult(h), Building
  PROVE  TreeInv' /\ Stutter
<1>0. pc = "feed" /\ pc' = "feed" /\ UNCHANGED <<context, mValue, given>> /\ Release(h) /\ h \in results
  BY DEF ReleaseResult, InClient, Building
<1>1. /\ Soft
      /\ \A d \in Levels : mValue[d] # None => handle'[mValue[d]] = handle[mValue[d]]
  BY <1>0, ReleasesApart
<1>2. Unseen
  BY <1>0, <1>1 DEF Unseen, Building, Depth
<1> QED
  BY <1>0, <1>1, <1>2, UnseenStep, UnseenInv DEF Stutter

LEMMA ReleasingHandles == Releasing => handle' = handle
BY DEF Releasing, ReleaseLocal, ReleaseElem, ReleaseKey, ReleaseValue, Free

(* j_release, and steps that do nothing.                                   *)
LEMMA RestTree ==
  ASSUME Step, DomInv', TreeInv, UNCHANGED vars \/ Releasing,
         UNCHANGED <<context, mValue, given, fresh>>, pc' = pc, Building
  PROVE  TreeInv' /\ Stutter
<1>0. IInv /\ IInv' /\ [Call]_vars /\ TokensKept /\ Chained /\ DomInv
  BY DEF Step, TreeInv
<1>1. Soft /\ handle' = handle
  BY ReleasingHandles DEF Soft, vars
<1>2. Unseen
  BY <1>1 DEF Unseen, Building, Depth
<1>3. ASSUME pc' = "place", handle'[fresh'] \in Blocks
      PROVE  text'[handle'[fresh']] = Text
  <2>1. fresh \in Handles /\ handle[fresh] \in Blocks /\ text[handle[fresh]] = Text
    BY <1>0, <1>1, <1>3 DEF DomInv, Phase, DomTypeOK, TokensKept
  <2>2. text'[handle[fresh]] = text[handle[fresh]]
    BY <1>0, <1>1, <2>1, HandleKept
  <2> QED
    BY <1>1, <2>1, <2>2
<1>4. ASSUME pc' \in {"copy", "attach"}
      PROVE  \A b \in Blocks : handle'[fresh'] \notin Contents(b)'
  <2>1. handle[fresh] \in Blocks /\ \A b \in Blocks : handle[fresh] \notin Contents(b)
    BY <1>0, <1>4 DEF DomInv, Phase, Chained
  <2> QED
    BY <1>1, <2>1, SoftRests
<1> QED
  BY <1>1, <1>2, <1>3, <1>4, UnseenStep, UnseenInv DEF Stutter

LEMMA HiddenNow == ~Building => Open = <<>> /\ Built = Docs!Nothing
<1>1. 1 .. 0 = {}
  OBVIOUS
<1> QED
  BY <1>1 DEF Open, Built

LEMMA HiddenNext == ~Building' => Open' = <<>> /\ Built' = Docs!Nothing
<1>1. 1 .. 0 = {}
  OBVIOUS
<1> QED
  BY <1>1 DEF Open, Built

(* The document is gone.                                                   *)
LEMMA HiddenStep ==
  ASSUME Step, DomInv', TreeInv, Soft, ~Building', NEW m \in Nat, Depth' = m, Remain(m)
  PROVE  TreeInv' /\ Open' = <<>> /\ Built' = Docs!Nothing
<1>0. pc' \notin {"place", "copy", "attach"}
  BY DEF Building, DomInv, DomTypeOK
<1>1. Chained'
  BY <1>0, SoftRests, ChainedStep DEF TreeInv
<1>2. Packed' /\ TokensKept'
  BY <1>0, SoftRests DEF TreeInv, TokensKept
<1> QED
  BY <1>1, <1>2, HiddenNext DEF TreeInv

LEMMA HiddenRests ==
  ASSUME Step, DomInv', TreeInv, Soft, ~Building, UNCHANGED <<pc, context, mValue>>,
         \A d \in Levels : mValue[d] # None => handle'[mValue[d]] = handle[mValue[d]]
  PROVE  TreeInv' /\ Stutter
<1>1. PICK m \in Nat : m = Depth /\ Depth' = m
  BY DepthRange DEF Step, DomInv, Depth
<1>2. Remain(m)
  BY <1>1, FilledHere DEF Remain, Held, Step
<1>3. ~Building'
  BY DEF Building
<1> QED
  BY <1>1, <1>2, <1>3, HiddenStep, HiddenNow DEF Stutter

LEMMA CleanupTree ==
  ASSUME Step, DomInv', TreeInv, Cleanup
  PROVE  TreeInv' /\ Stutter
<1>0. /\ pc = "cleanup" /\ pc' \in {"none", "cleanup"} /\ DomTypeOK /\ Slots /\ TypeOK /\ DomInv
      /\ context \in Levels /\ context \in Nat
  BY DEF Cleanup, Step, DomInv, DomTypeOK, Levels, IInv
<1>1. Soft /\ ~Building /\ ~Building'
  BY <1>0 DEF Cleanup, Release, Soft, containers, vars, Building
<1>2. Depth = context /\ Depth' = context'
  BY <1>0 DEF Depth
<1>3. PICK m \in Nat : context' = m /\ m <= context /\ (context > 0 => m < context)
  BY <1>0 DEF Cleanup
<1>4. ASSUME NEW d \in 0 .. m - 1
      PROVE  d < Depth /\ Held(d)' = Held(d)
  <2>1. d \in 0 .. Depth - 1 /\ d < Depth /\ d # context
    BY <1>0, <1>2, <1>3
  <2>2. d \in Levels /\ mValue[d] \in Handles /\ mValue[d] # None
    BY <1>0, <2>1, FilledHere
  <2>3. mValue'[d] = mValue[d]
    BY <1>0, <2>1, <2>2 DEF Cleanup, DomTypeOK
  <2>4. mValue[d] # mValue[context]
    BY <1>0, <2>1, <2>2, VarsAre DEF Slots, At
  <2>5. handle'[mValue[d]] = handle[mValue[d]]
    BY <1>0, <2>2, <2>4 DEF Cleanup, Release, vars, TypeOK
  <2> QED
    BY <2>1, <2>3, <2>5 DEF Held
<1>5. Remain(m)
  BY <1>4 DEF Remain
<1> QED
  BY <1>1, <1>2, <1>3, <1>5, HiddenStep, HiddenNow DEF Stutter

(* jdomparser_init: an empty document.                                     *)
LEMMA InitTree ==
  ASSUME Step, DomInv', TreeInv, InitParser
  PROVE  TreeInv' /\ Stutter
<1>0. /\ pc = "none" /\ pc' = "feed" /\ UNCHANGED <<vars, context, mValue, given>>
      /\ context = 0 /\ mValue[0] = None
  BY DEF InitParser, Step, DomInv, Phase
<1>1. Depth = 0 /\ Depth' = 0 /\ Soft
  BY <1>0 DEF Depth, Soft, vars
<1>2. Open' = <<>> /\ Built' = Docs!Nothing
  <2>1. 1 .. 0 = {}
    OBVIOUS
  <2> QED
    BY <1>0, <1>1, <2>1 DEF Open, Built
<1>3. Packed'
  BY <1>1, SoftRests DEF TreeInv
<1>4. Chained'
  <2>1. Remain(0)
    BY DEF Remain
  <2> QED
    BY <1>0, <1>1, <2>1, SoftRests, ChainedStep DEF TreeInv
<1>5. TokensKept'
  BY <1>0, <1>1 DEF TokensKept
<1>6. ~Building
  BY <1>0 DEF Building
<1> QED
  BY <1>2, <1>3, <1>4, <1>5, <1>6, HiddenNow DEF Stutter, TreeInv

(* jdomparser_deinit: the document is discarded.                           *)
LEMMA DeinitTree ==
  ASSUME Step, DomInv', TreeInv, Deinit
  PROVE  TreeInv' /\ Abstract!Discard
<1>0. pc = "feed" /\ pc' = "cleanup" /\ UNCHANGED <<vars, context, mValue>>
  BY DEF Deinit, InClient
<1>1. Soft /\ ~Building' /\ handle' = handle
  BY <1>0 DEF Soft, vars, Building
<1>2. PICK m \in Nat : m = Depth /\ Depth' = m
  BY <1>0, DepthRange DEF Step, DomInv, Depth
<1>3. Remain(m)
  BY <1>0, <1>1, <1>2 DEF Remain, Held
<1>4. TreeInv' /\ Open' = <<>> /\ Built' = Docs!Nothing
  BY <1>1, <1>2, <1>3, HiddenStep
<1> QED
  BY <1>4 DEF Abstract!Discard, Abstract!Nothing, Abstract!Tree, Docs!Nothing, Docs!Tree
-----------------------------------------------------------------------------
(* Sequences by their entries.                                             *)

Row(s, n) == s = [i \in 1 .. n |-> s[i]]

LEMMA RowIs ==
  ASSUME NEW n \in Nat, NEW s, Row(s, n)
  PROVE  /\ s \in Seq({s[i] : i \in 1 .. n}) /\ Len(s) = n /\ Last(s) = s[n]
         /\ s = <<>> <=> n = 0
<1> DEFINE R == {s[i] : i \in 1 .. n}
<1>1. s \in [1 .. n -> R]
  BY DEF Row
<1>2. s \in Seq(R) /\ Len(s) = n
  BY <1>1
<1> QED
  BY <1>2 DEF Last

LEMMA RowAppended ==
  ASSUME NEW n \in Nat, NEW s, NEW t, Row(s, n), Row(t, n + 1), \A i \in 1 .. n : t[i] = s[i]
  PROVE  t = Append(s, t[n + 1])
<1> DEFINE R == {t[i] : i \in 1 .. n + 1}
<1>0. n + 1 \in Nat
  OBVIOUS
<1>1. t \in Seq(R) /\ Len(t) = n + 1 /\ Len(s) = n
  BY <1>0, RowIs
<1>2. s \in Seq(R)
  <2>1. \A i \in 1 .. n : s[i] \in R
    OBVIOUS
  <2>2. s \in [1 .. n -> R]
    BY <2>1 DEF Row
  <2> QED
    BY <2>2
<1>3. t[n + 1] \in R
  OBVIOUS
<1> HIDE DEF R
<1>4. /\ Append(s, t[n + 1]) \in Seq(R) /\ Len(Append(s, t[n + 1])) = n + 1
      /\ \A i \in 1 .. n : Append(s, t[n + 1])[i] = s[i]
      /\ Append(s, t[n + 1])[n + 1] = t[n + 1]
  BY <1>1, <1>2, <1>3, AppendProperties
<1>5. \A i \in 1 .. n + 1 : Append(s, t[n + 1])[i] = t[i]
  BY <1>4
<1> QED
  BY <1>1, <1>4, <1>5, SeqEqual

LEMMA RowFront ==
  ASSUME NEW n \in Nat, NEW s, Row(s, n + 1)
  PROVE  Row(Front(s), n) /\ \A i \in 1 .. n : Front(s)[i] = s[i]
<1> DEFINE R == {s[i] : i \in 1 .. n + 1}
<1>1. s \in Seq(R) /\ Len(s) = n + 1
  BY RowIs
<1>2. Front(s) = SubSeq(s, 1, n)
  BY <1>1 DEF Front
<1>3. SubSeq(s, 1, n) = [i \in 1 .. n |-> s[i]]
  BY <1>1
<1> QED
  BY <1>2, <1>3 DEF Row

(* The last entry changes.                                                 *)
LEMMA LastChanged ==
  ASSUME NEW n \in Nat, NEW s, NEW t, Row(s, n + 1), Row(t, n + 1), \A i \in 1 .. n : t[i] = s[i]
  PROVE  s # <<>> /\ Last(s) = s[n + 1] /\ t = Append(Front(s), t[n + 1])
<1>1. Row(Front(s), n) /\ \A i \in 1 .. n : Front(s)[i] = s[i]
  BY RowFront
<1>2. t = Append(Front(s), t[n + 1])
  BY <1>1, RowAppended
<1>3. n + 1 \in Nat /\ n + 1 # 0
  OBVIOUS
<1> QED
  BY <1>2, <1>3, RowIs

(* The last entry changes, and there is one more.                          *)
LEMMA OnePushed ==
  ASSUME NEW n \in Nat, NEW s, NEW t, Row(s, n + 1), Row(t, n + 2), \A i \in 1 .. n : t[i] = s[i]
  PROVE  s # <<>> /\ Last(s) = s[n + 1] /\ t = Front(s) \o <<t[n + 1], t[n + 2]>>
<1> DEFINE R == {t[i] : i \in 1 .. n + 2}
           f == Front(s)
           p == <<t[n + 1], t[n + 2]>>
<1>0. n + 1 \in Nat /\ n + 1 # 0 /\ n + 2 \in Nat
  OBVIOUS
<1>1. Row(f, n) /\ \A i \in 1 .. n : f[i] = t[i]
  BY RowFront
<1>2. t \in Seq(R) /\ Len(t) = n + 2 /\ Len(f) = n
  BY <1>0, <1>1, RowIs
<1>3. f \in Seq(R) /\ p \in Seq(R) /\ Len(p) = 2 /\ p[1] = t[n + 1] /\ p[2] = t[n + 2]
  <2>1. \A i \in 1 .. n : f[i] \in R
    BY <1>1
  <2>2. f \in [1 .. n -> R]
    BY <1>1, <2>1 DEF Row
  <2>3. t[n + 1] \in R /\ t[n + 2] \in R
    OBVIOUS
  <2> HIDE DEF R, f
  <2> QED
    BY <2>2, <2>3
<1> HIDE DEF R, f, p
<1>4. /\ f \o p \in Seq(R) /\ Len(f \o p) = n + 2
      /\ \A i \in 1 .. n + 2 : (f \o p)[i] = IF i <= n THEN f[i] ELSE p[i - n]
  <2>1. /\ f \o p \in Seq(R) /\ Len(f \o p) = Len(f) + Len(p)
        /\ \A i \in 1 .. Len(f) + Len(p) :
             (f \o p)[i] = IF i <= Len(f) THEN f[i] ELSE p[i - Len(f)]
    BY <1>3, ConcatProperties
  <2> QED
    BY <1>2, <1>3, <2>1
<1>5. \A i \in 1 .. n + 2 : (f \o p)[i] = t[i]
  <2> TAKE i \in 1 .. n + 2
  <2>1. i \in 1 .. n \/ i = n + 1 \/ i = n + 2
    OBVIOUS
  <2>2. n + 1 - n = 1 /\ n + 2 - n = 2
    OBVIOUS
  <2> QED
    BY <1>1, <1>3, <1>4, <2>1, <2>2
<1>6. t = f \o p
  BY <1>2, <1>4, <1>5, SeqEqual
<1>7. s # <<>> /\ Last(s) = s[n + 1]
  BY <1>0, RowIs
<1> QED
  BY <1>6, <1>7 DEF f, p

(* The last entry goes, and the one before changes.                        *)
LEMMA OnePopped ==
  ASSUME NEW n \in Nat, NEW s, NEW t, Row(s, n + 2), Row(t, n + 1), \A i \in 1 .. n : t[i] = s[i]
  PROVE  /\ s # <<>> /\ Len(s) = n + 2 /\ Last(s) = s[n + 2]
         /\ Last(Front(s)) = s[n + 1] /\ t = Append(Front(Front(s)), t[n + 1])
<1>0. n + 2 = (n + 1) + 1 /\ n + 1 \in Nat /\ n + 2 \in Nat /\ n + 2 # 0 /\ n + 1 \in 1 .. n + 1
  OBVIOUS
<1>1. Row(Front(s), n + 1) /\ \A i \in 1 .. n + 1 : Front(s)[i] = s[i]
  BY <1>0, RowFront
<1>2. \A i \in 1 .. n : t[i] = Front(s)[i]
  BY <1>1
<1>3. Last(Front(s)) = Front(s)[n + 1] /\ t = Append(Front(Front(s)), t[n + 1])
  BY <1>1, <1>2, LastChanged
<1> QED
  BY <1>0, <1>1, <1>3, RowIs

LEMMA OpenRow ==
  /\ Building /\ Depth \in Nat =>
       Row(Open, Depth) /\ \A i \in 1 .. Depth : Open[i] = OpenContainer(i - 1)
  /\ Building' /\ Depth' \in Nat =>
       Row(Open', Depth') /\ \A i \in 1 .. Depth' : Open'[i] = OpenContainer(i - 1)'
BY DEF Open, Row
-----------------------------------------------------------------------------
(* A value goes into the innermost container.                              *)

(* jarray_append and jobject_put of v, when they do what they should.      *)
Appended(a, v) ==
  /\ size'[a] = size[a] + 1 /\ elem'[<<a, size[a]>>] = v
  /\ \A i \in 0 .. size[a] - 1 : elem'[<<a, i>>] = elem[<<a, i>>]

PutAt(o, n, k, v) ==
  \A m \in Names :
    /\ keyOf'[<<o, m>>] = IF m = n THEN k ELSE keyOf[<<o, m>>]
    /\ value'[<<o, m>>] = IF m = n THEN v ELSE value[<<o, m>>]

Grows(a, v) ==
  /\ a \in Blocks /\ v \in Values /\ UNCHANGED <<kind, text>>
  /\ \A b \in Blocks \ {a} : Rests(b)
  /\ \/ kind[a] = "array" /\ Appended(a, v) /\ UNCHANGED <<keyOf, value>>
     \/ /\ kind[a] = "object" /\ given \in Names
        /\ \E k \in Blocks : kind[k] = "string" /\ PutAt(a, given, k, v)
        /\ UNCHANGED <<size, elem>>

LEMMA GrownEdges ==
  ASSUME Step, NEW a, NEW v, Grows(a, v), NEW b \in Blocks, NEW c \in Blocks, c \in Contents(b)'
  PROVE  c \in Contents(b) \/ (b = a /\ c = v) \/ kind'[c] = "string"
<1>0. TypeOK /\ WellFormed /\ TypeOK' /\ c # None
  BY ConstsDiffer DEF Step, IInv
<1>1. CASE b # a
  BY <1>0, <1>1, RestsHold DEF Grows
<1>2. CASE b = a /\ kind[a] = "array"
  <2>1. Appended(a, v) /\ UNCHANGED <<keyOf, value>>
    BY <1>2 DEF Grows
  <2>2. CASE \E i \in 0 .. size'[a] - 1 : elem'[<<a, i>>] = c
    <3>1. PICK i \in 0 .. size'[a] - 1 : elem'[<<a, i>>] = c
      BY <2>2
    <3>2. i = size[a] \/ i \in 0 .. size[a] - 1
      BY <1>0, <1>2, <2>1, MaxSizeAssumption DEF Appended, TypeOK, Grows
    <3> QED
      BY <1>0, <1>2, <2>1, <3>1, <3>2 DEF Appended, Contents
  <2> QED
    BY <1>0, <1>2, <2>1, <2>2 DEF Contents
<1>3. CASE b = a /\ kind[a] # "array"
  <2>1. PICK k \in Blocks : kind[k] = "string" /\ PutAt(a, given, k, v)
    BY <1>3 DEF Grows
  <2>2. UNCHANGED <<size, elem, kind>>
    BY <1>3 DEF Grows
  <2> QED
    BY <1>0, <1>3, <2>1, <2>2 DEF PutAt, Contents
<1> QED
  BY <1>1, <1>2, <1>3

LEMMA GrownPacked ==
  ASSUME Step, NEW a, NEW v, Grows(a, v), Packed
  PROVE  Packed'
<1> SUFFICES ASSUME NEW b \in Blocks, kind'[b] = "array", NEW i \in 0 .. size'[b] - 1
             PROVE  elem'[<<b, i>>] # None
  BY DEF Packed
<1>0. TypeOK /\ kind[b] = "array"
  BY DEF Step, IInv, Grows
<1>1. CASE b # a
  BY <1>0, <1>1 DEF Grows, Rests, Packed
<1>2. CASE b = a
  <2>1. Appended(a, v) /\ v # None
    BY <1>0, <1>2, ConstsDiffer DEF Grows, Values
  <2>2. i = size[a] \/ i \in 0 .. size[a] - 1
    BY <1>0, <1>2, <2>1, MaxSizeAssumption DEF Appended, TypeOK, Grows
  <2> QED
    BY <1>0, <1>2, <2>1, <2>2 DEF Appended, Packed
<1> QED
  BY <1>1, <1>2

LEMMA GrownDone ==
  ASSUME NEW a \in Filling, NEW v, Grows(a, v)
  PROVE  DoneRests
BY DEF DoneRests, Done, Grows

(* The container has the items that it had, and one more or another.       *)
Gained(a, hole, x) ==
  \/ /\ kind[a] = "array"
     /\ OpenItems(a, hole)' = Append(OpenItems(a, None), x)
  \/ /\ kind[a] = "object"
     /\ OpenItems(a, hole)' =
          [m \in DOMAIN OpenItems(a, None) \cup {given} |->
             IF m = given THEN x ELSE OpenItems(a, None)[m]]

LEMMA GrownItems ==
  ASSUME Step, Packed, Packed', Chained, NEW n \in Nat, Depth = n + 1,
         NEW a, a = Held(n), NEW v, Grows(a, v),
         NEW hole, \A i \in DOMAIN Items(a) : Items(a)[i] # hole
  PROVE  Gained(a, hole, IF v = hole THEN Docs!Hole ELSE Trees'[v])
<1> DEFINE x == IF v = hole THEN Docs!Hole ELSE Trees'[v]
           old == OpenItems(a, None)
           new == OpenItems(a, hole)'
<1>0. /\ IInv /\ IInv' /\ DomInv /\ TypeOK /\ OpenTells /\ OpenTells' /\ n \in 0 .. Depth - 1
      /\ a \in Blocks /\ kind' = kind /\ v \in Values
  BY OpenNow, OpenNext DEF Step, IInv, Grows
<1>1. Container(a) /\ Container(a)' /\ DoneRests
  BY <1>0, FilledHere, GrownDone DEF Container, Is
<1>2. Inner(n) = None
  BY DEF Inner
<1>3. ASSUME NEW i \in DOMAIN Items(a)
      PROVE  Items(a)[i] # None /\ Items(a)[i] # hole /\ Trees'[Items(a)[i]] = Trees[Items(a)[i]]
  <2>1. PICK w \in Values : w = Items(a)[i] /\ w # None /\ (w = Const \/ w \in Done)
    BY <1>0, <1>2, ItemDone
  <2>2. w \in Blocks => kind'[w] \in Live
    BY <1>0, <2>1, ConstsDiffer DEF Done
  <2>3. Trees'[w] = Trees[w]
    BY <1>1, <2>1, <2>2, ItemKept
  <2> QED
    BY <2>1, <2>3
<1>4. old = [i \in DOMAIN Items(a) |-> Trees[Items(a)[i]]]
  <2>1. old = [i \in DOMAIN Items(a) |-> IF Items(a)[i] = None THEN Docs!Hole ELSE Trees[Items(a)[i]]]
    BY <1>0, <1>1 DEF OpenTells
  <2> HIDE DEF old
  <2> QED
    BY <1>3, <2>1
<1>5. new = [i \in DOMAIN Items(a)' |->
               IF Items(a)'[i] = hole THEN Docs!Hole ELSE Trees'[Items(a)'[i]]]
  BY <1>0, <1>1 DEF OpenTells
<1> HIDE DEF old, new
<1>6. CASE kind[a] = "array"
  <2>1. PICK s \in Nat : s = size[a] /\ Appended(a, v)
    BY <1>0, <1>6, MaxSizeAssumption DEF TypeOK, Grows
  <2>2. Items(a) = [i \in 1 .. s |-> elem[<<a, i - 1>>]]
    BY <1>6, <2>1 DEF Items
  <2>3. Items(a)' = [i \in 1 .. s + 1 |-> elem'[<<a, i - 1>>]]
    BY <1>0, <1>6, <2>1 DEF Items, Appended
  <2>4. \A i \in 1 .. s : i - 1 \in 0 .. s - 1 /\ i \in 1 .. s + 1 /\ Items(a)'[i] = Items(a)[i]
    BY <2>1, <2>2, <2>3 DEF Appended
  <2>5. Items(a)'[s + 1] = v
    BY <2>1, <2>3 DEF Appended
  <2>6. Row(old, s) /\ \A i \in 1 .. s : old[i] = Trees[Items(a)[i]]
    BY <1>4, <2>2 DEF Row
  <2>7. Row(new, s + 1) /\ \A i \in 1 .. s + 1 : new[i] = IF Items(a)'[i] = hole THEN Docs!Hole ELSE Trees'[Items(a)'[i]]
    BY <1>5, <2>3 DEF Row
  <2>8. \A i \in 1 .. s : new[i] = old[i]
    <3> TAKE i \in 1 .. s
    <3>1. i \in DOMAIN Items(a)
      BY <2>2
    <3>2. Items(a)[i] # hole /\ Trees'[Items(a)[i]] = Trees[Items(a)[i]]
      BY <1>3, <3>1
    <3>3. new[i] = (IF Items(a)'[i] = hole THEN Docs!Hole ELSE Trees'[Items(a)'[i]])
      BY <2>4, <2>7
    <3>4. Items(a)'[i] = Items(a)[i] /\ old[i] = Trees[Items(a)[i]]
      BY <2>4, <2>6
    <3> QED
      BY <3>2, <3>3, <3>4
  <2>9. new[s + 1] = x
    BY <2>5, <2>7
  <2>10. new = Append(old, x)
    BY <2>6, <2>7, <2>8, <2>9, RowAppended
  <2> QED
    BY <1>6, <2>10 DEF old, new, Gained
<1>7. CASE kind[a] # "array"
  <2>1. PICK k \in Blocks : given \in Names /\ PutAt(a, given, k, v)
    BY <1>7 DEF Grows
  <2>2. k # None
    BY ConstsDiffer
  <2>3. Items(a) = [m \in {l \in Names : keyOf[<<a, l>>] # None} |-> value[<<a, m>>]]
    BY <1>7 DEF Items
  <2>4. Items(a)' = [m \in {l \in Names : keyOf'[<<a, l>>] # None} |-> value'[<<a, m>>]]
    BY <1>0, <1>7 DEF Items
  <2>5. DOMAIN Items(a)' = DOMAIN Items(a) \cup {given}
    BY <2>1, <2>2, <2>3, <2>4 DEF PutAt
  <2>6. \A m \in DOMAIN Items(a)' : Items(a)'[m] = IF m = given THEN v ELSE Items(a)[m]
    BY <2>1, <2>3, <2>4, <2>5 DEF PutAt
  <2>7. \A m \in DOMAIN Items(a)' :
          (IF Items(a)'[m] = hole THEN Docs!Hole ELSE Trees'[Items(a)'[m]])
            = IF m = given THEN x ELSE old[m]
    BY <1>3, <1>4, <2>5, <2>6
  <2>8. new = [m \in DOMAIN Items(a) \cup {given} |-> IF m = given THEN x ELSE old[m]]
    BY <1>5, <2>5, <2>7
  <2>9. DOMAIN old = DOMAIN Items(a)
    BY <1>4
  <2> QED
    BY <1>1, <1>7, <2>8, <2>9 DEF old, new, Container, Is, Gained
<1> QED
  BY <1>6, <1>7

LEMMA AppendGrows ==
  ASSUME IInv, NEW a \in Blocks, NEW v \in Handles, ArrayAppend(a, v),
         kind[a] = "array", InsertSane(a, handle[v])
  PROVE  Grows(a, handle[v])
<1>0. TypeOK
  BY DEF IInv
<1>1. /\ handle[v] # None /\ size[a] < MaxSize /\ PutElem(a, size[a], handle[v])
      /\ UNCHANGED <<kind, text, keyOf, value>>
  BY DEF ArrayAppend, Is
<1>2. size[a] \in 0 .. MaxSize /\ <<a, size[a]>> \in Cells
  BY <1>0, <1>1, MaxSizeAssumption DEF TypeOK, Cells, Index
<1>3. elem' = [elem EXCEPT ![<<a, size[a]>>] = handle[v]] /\ size' = [size EXCEPT ![a] = size[a] + 1]
  <2>1. size[a] >= size[a] /\ size[a] \in Index /\ ~(size[a] < size[a])
    BY <1>1, <1>2, MaxSizeAssumption DEF Index
  <2>2. elem[<<a, size[a]>>] = None
    BY <2>1 DEF IInv, WellFormed
  <2> QED
    BY <1>1, <2>1, <2>2 DEF PutElem
<1>4. \A b \in Blocks : \A i \in 0 .. size[b] - 1 :
        <<b, i>> \in Cells /\ (<<b, i>> # <<a, size[a]>>)
  BY <1>0, MaxSizeAssumption DEF TypeOK, Cells, Index
<1>5. \A b \in Blocks : \A i \in 0 .. size[b] - 1 : elem'[<<b, i>>] = elem[<<b, i>>]
  BY <1>0, <1>3, <1>4 DEF TypeOK
<1>6. Appended(a, handle[v])
  BY <1>0, <1>2, <1>3, <1>5 DEF TypeOK, Appended
<1>7. \A b \in Blocks \ {a} : Rests(b)
  BY <1>0, <1>1, <1>3, <1>5 DEF TypeOK, Rests
<1>8. handle[v] \in Values
  BY <1>0, <1>1 DEF TypeOK
<1> QED
  BY <1>1, <1>6, <1>7, <1>8 DEF Grows

LEMMA PutGrows ==
  ASSUME IInv, NEW o \in Blocks, NEW k \in Handles, NEW v \in Handles, ObjectPut(o, k, v),
         kind[o] = "object", Is(handle[k], "string"), text[handle[k]] = given, given \in Names,
         InsertSane(o, handle[v])
  PROVE  Grows(o, handle[v])
<1>0. TypeOK
  BY DEF IInv
<1>1. /\ handle[v] # None /\ PutMember(o, given, handle[k], handle[v])
      /\ UNCHANGED <<kind, text, size, elem>>
  BY ConstsDiffer DEF ObjectPut, Spells, Is
<1>2. /\ keyOf' = [keyOf EXCEPT ![<<o, given>>] = handle[k]]
      /\ value' = [value EXCEPT ![<<o, given>>] = handle[v]]
  BY <1>1 DEF PutMember, Replace, Is
<1>3. PutAt(o, given, handle[k], handle[v])
  BY <1>0, <1>2 DEF TypeOK, Members, PutAt
<1>4. \A b \in Blocks \ {o} : Rests(b)
  BY <1>0, <1>1, <1>2 DEF TypeOK, Members, Rests
<1>5. handle[v] \in Values /\ handle[k] \in Blocks /\ kind[handle[k]] = "string"
  BY <1>0, <1>1 DEF TypeOK, Is
<1> QED
  BY <1>1, <1>3, <1>4, <1>5 DEF Grows

(* The containers further out look as they did.                            *)
LEMMA LowerSame ==
  ASSUME Step, DomInv', Packed, Packed', Chained, DoneRests,
         NEW n \in Nat, NEW p \in Nat, Depth = p, n < p, NEW q \in Nat, Depth' = q, n < q,
         \A d \in 0 .. n : Held(d)' = Held(d),
         \A d \in 0 .. n - 1 : \A b \in Blocks : b = Held(d) => Rests(b)
  PROVE  \A d \in 0 .. n - 1 : OpenContainer(d)' = OpenContainer(d)
<1> SUFFICES ASSUME NEW d \in 0 .. n - 1
             PROVE  OpenContainer(d)' = OpenContainer(d)
  OBVIOUS
<1>0. /\ d \in 0 .. n /\ d + 1 \in 0 .. n /\ d + 1 < p /\ d + 1 < q
      /\ d \in 0 .. p - 1 /\ d \in 0 .. q - 1
  OBVIOUS
<1>1. PICK b \in Blocks : b = Held(d)
  BY <1>0, FilledHere DEF Step
<1>2. Held(d)' = b /\ Rests(b)
  BY <1>0, <1>1
<1>3. kind'[b] \in Live
  <2>1. Container(Held(d))'
    BY <1>0, FilledNext DEF LevelsFilled
  <2> QED
    BY <1>2, <2>1 DEF Container, Is, Live
<1>4. PICK hole : hole = Held(d + 1)
  OBVIOUS
<1>5. Inner(d) = hole /\ PendingKey(d) = None
  BY <1>0, <1>4 DEF Inner, PendingKey
<1>6. Inner(d)' = hole /\ PendingKey(d)' = None
  <2>1. Held(d + 1)' = hole
    BY <1>0, <1>4
  <2> QED
    BY <1>0, <2>1 DEF Inner, PendingKey
<1>7. OpenItems(b, hole)' = OpenItems(b, hole) /\ kind'[b] = kind[b]
  BY <1>0, <1>1, <1>2, <1>3, <1>5, OpenItemsSame
<1>8. OpenContainer(d) = Docs!Frame(kind[b], OpenItems(b, hole), None)
  BY <1>1, <1>5, ContainerNow
<1>9. OpenContainer(d)' = Docs!Frame(kind'[b], OpenItems(b, hole)', None)
  BY <1>2, <1>6, ContainerNext
<1> QED
  BY <1>7, <1>8, <1>9

(* The innermost container takes the value as the document does.           *)
LEMMA PutThere ==
  ASSUME Step, Packed, Packed', Chained, NEW n \in Nat, Depth = n + 1,
         NEW a, a = Held(n), Held(n)' = a, NEW v, Grows(a, v),
         NEW hole, Inner(n)' = hole, \A i \in DOMAIN Items(a) : Items(a)[i] # hole,
         PendingKey(n)' = None, PendingKey(n) = IF kind[a] = "array" THEN None ELSE given
  PROVE  /\ Docs!Accepts(OpenContainer(n))
         /\ OpenContainer(n)' =
              Docs!Put(OpenContainer(n), IF v = hole THEN Docs!Hole ELSE Trees'[v])
<1> DEFINE x == IF v = hole THEN Docs!Hole ELSE Trees'[v]
           old == OpenItems(a, None)
           new == OpenItems(a, hole)'
<1>1. \/ kind[a] = "array" /\ new = Append(old, x)
      \/ /\ kind[a] = "object"
         /\ new = [m \in DOMAIN old \cup {given} |-> IF m = given THEN x ELSE old[m]]
  <2>1. Gained(a, hole, IF v = hole THEN Docs!Hole ELSE Trees'[v])
    BY GrownItems
  <2> QED
    BY <2>1 DEF Gained
<1>2. Inner(n) = None
  BY DEF Inner
<1>3. OpenContainer(n) = Docs!Frame(kind[a], old, PendingKey(n))
  BY <1>2, ContainerNow
<1>4. OpenContainer(n)' = Docs!Frame(kind[a], new, None)
  BY ContainerNext DEF Grows
<1>5. kind[a] = "object" => given # None
  BY ConstsDiffer, NamesAssumption DEF Grows
<1> HIDE DEF x, old, new
<1>6. Docs!Accepts(OpenContainer(n)) /\ OpenContainer(n)' = Docs!Put(OpenContainer(n), x)
  <2>1. CASE kind[a] = "array"
    BY <1>1, <1>3, <1>4, <2>1 DEF Docs!Accepts, Docs!Put, Docs!Frame
  <2>2. CASE kind[a] = "object"
    BY <1>1, <1>3, <1>4, <1>5, <2>2 DEF Docs!Accepts, Docs!Put, Docs!Frame
  <2> QED
    BY <1>1, <2>1, <2>2
<1> QED
  BY <1>6 DEF x

LEMMA LeafTree ==
  ASSUME IInv', Packed', NEW v \in Values, v \in Blocks => kind'[v] = "string" /\ text'[v] = Text
  PROVE  \E w \in {Const, Text} : Trees'[v] = Docs!Leaf(w) /\ TreeOf(v)' = Docs!Leaf(w)
<1>1. TreeOf(v)' = TreeBy(Trees, v)' /\ Trees'[v] = TreeBy(Trees, v)'
  BY TreesNext DEF TreesTell
<1>2. TreeBy(Trees, v)' = Docs!Leaf(IF v = Const THEN Const ELSE text'[v])
  BY ConstsDiffer DEF TreeBy, Container, Is
<1> QED
  BY <1>1, <1>2 DEF Values

(* dom_null ... dom_string of a document that is nothing else.             *)
LEMMA PlaceTopTree ==
  ASSUME Step, DomInv', TreeInv, PlaceLeaf, context = 0
  PROVE  TreeInv' /\ \E w \in {Const, Text} : Abstract!Value(w)
<1>0. /\ IInv /\ IInv' /\ TypeOK /\ DomTypeOK /\ Phase /\ TokensKept /\ pc = "place" /\ 0 \in Levels
  BY DomAssumption DEF Step, IInv, DomInv, PlaceLeaf, TreeInv, Levels
<1>1. AtTop /\ fresh # None /\ fresh \in Handles
  BY <1>0 DEF Phase, Room, InArray, UnderKey, DomTypeOK
<1>2. /\ pc' = "feed" /\ mValue' = [mValue EXCEPT ![0] = fresh] /\ UNCHANGED <<vars, context>>
  BY <1>1 DEF PlaceLeaf, AtTop, InArray, UnderKey, Proceed
<1>3. Depth = 0 /\ Depth' = 0 /\ Soft /\ Building /\ Building'
  BY <1>0, <1>2 DEF Depth, Soft, vars, Building
<1>4. Packed' /\ Chained' /\ TokensKept'
  <2>1. 0 .. 0 - 1 = {}
    OBVIOUS
  <2>2. Packed'
    BY <1>3, SoftRests DEF TreeInv
  <2> QED
    BY <1>2, <1>3, <2>1, <2>2 DEF Chained, TokensKept
<1>5. PICK v \in Values : v = handle[fresh] /\ (v \in Blocks => kind[v] = "string" /\ text[v] = Text)
  <2>1. handle[fresh] \in Values /\ (handle[fresh] \in Blocks => kind[handle[fresh]] = "string")
    BY <1>0, <1>1, ConstsDiffer DEF Phase, Is, Values
  <2> QED
    BY <1>0, <2>1 DEF TokensKept
<1>6. Held(0)' = v /\ mValue'[0] # None
  BY <1>0, <1>1, <1>2, <1>5 DEF Held, DomTypeOK, vars
<1>7. Open = <<>> /\ Open' = <<>> /\ Built = Docs!Nothing /\ Built' = TreeOf(v)'
  <2>1. 1 .. 0 = {}
    OBVIOUS
  <2>2. Open = <<>> /\ Open' = <<>>
    BY <1>3, <2>1 DEF Open
  <2>3. Built = Docs!Nothing
    BY <1>1 DEF Built, AtTop
  <2>4. Built' = TreeOf(v)'
    BY <1>2, <1>3, <1>6, BuiltNext
  <2> QED
    BY <2>2, <2>3, <2>4
<1>8. PICK w \in {Const, Text} : TreeOf(v)' = Docs!Leaf(w)
  <2>1. v \in Blocks => kind'[v] = "string" /\ text'[v] = Text
    BY <1>2, <1>5 DEF vars
  <2> QED
    BY <1>0, <1>4, <2>1, LeafTree
<1>9. Abstract!Value(w)
  BY <1>7, <1>8 DEF Abstract!Value, Abstract!Leaf, Abstract!Nothing, Abstract!Tree,
                    Docs!Leaf, Docs!Nothing, Docs!Tree
<1> QED
  BY <1>4, <1>8, <1>9 DEF TreeInv

(* The innermost container changes, and no other.                          *)
LEMMA OpenLast ==
  ASSUME Building, Building', NEW n \in Nat, Depth = n + 1, Depth' = n + 1,
         \A d \in 0 .. n - 1 : OpenContainer(d)' = OpenContainer(d)
  PROVE  /\ Open # <<>> /\ Last(Open) = OpenContainer(n)
         /\ Open' = Append(Front(Open), OpenContainer(n)')
<1>1. PICK s : s = Open
  OBVIOUS
<1>2. PICK t : t = Open'
  OBVIOUS
<1>3. Row(s, n + 1) /\ \A i \in 1 .. n + 1 : s[i] = OpenContainer(i - 1)
  BY <1>1, OpenRow
<1>4. Row(t, n + 1) /\ \A i \in 1 .. n + 1 : t[i] = OpenContainer(i - 1)'
  BY <1>2, OpenRow
<1>5. \A i \in 1 .. n : i \in 1 .. n + 1 /\ i - 1 \in 0 .. n - 1
  OBVIOUS
<1>6. \A i \in 1 .. n : t[i] = s[i]
  BY <1>3, <1>4, <1>5
<1>7. s # <<>> /\ Last(s) = s[n + 1] /\ t = Append(Front(s), t[n + 1])
  BY <1>3, <1>4, <1>6, LastChanged
<1>8. n + 1 \in 1 .. n + 1 /\ n + 1 - 1 = n
  OBVIOUS
<1>9. t[n + 1] = OpenContainer(n + 1 - 1)' /\ s[n + 1] = OpenContainer(n + 1 - 1)
  BY <1>3, <1>4, <1>8
<1>10. t[n + 1] = OpenContainer(n)' /\ s[n + 1] = OpenContainer(n)
  BY <1>8, <1>9
<1> QED
  BY <1>1, <1>2, <1>7, <1>10

(* ... and inside a container, once the call has done its part.            *)
LEMMA PlacedTree ==
  ASSUME Step, DomInv', TreeInv, PlaceLeaf, NEW n \in Nat, context = n + 1,
         NEW a, a = Held(n), NEW v, v = handle[fresh], Grows(a, v),
         \A d \in 0 .. n : mValue'[d] = mValue[d] /\ handle'[mValue[d]] = handle[mValue[d]],
         mValue'[n + 1] = None, pc' = "feed",
         PendingKey(n) = IF kind[a] = "array" THEN None ELSE given
  PROVE  TreeInv' /\ \E w \in {Const, Text} : Abstract!Value(w)
<1>0. /\ IInv /\ IInv' /\ DomInv /\ Packed /\ Chained /\ TokensKept /\ Phase /\ DomTypeOK
      /\ pc = "place" /\ context' = context
  BY DEF Step, DomInv, TreeInv, PlaceLeaf
<1>1. /\ Depth = n + 1 /\ Depth' = n + 1 /\ Building /\ Building' /\ n + 1 \in Nat /\ n < n + 1
      /\ n \in 0 .. n + 1 - 1 /\ 0 .. n + 1 - 1 = 0 .. n
  BY <1>0 DEF Depth, Building
<1>2. \A d \in 0 .. n : Held(d)' = Held(d) /\ d < n + 1
  BY DEF Held
<1>3. /\ v \in Values /\ v # None /\ v = handle[fresh]
      /\ v \in Blocks => kind'[v] = "string" /\ text'[v] = Text
  <2>1. v \in Values /\ v # None /\ UNCHANGED <<kind, text>>
    BY ConstsDiffer DEF Grows, Values
  <2>2. v \in Blocks => kind[v] = "string"
    BY <1>0, ConstsDiffer DEF Phase, Is
  <2> QED
    BY <1>0, <2>1, <2>2 DEF TokensKept
<1>4. Packed'
  BY <1>0, GrownPacked
<1>5. Chained'
  <2>1. Remain(n + 1)
    BY <1>1, <1>2 DEF Remain
  <2>2. \A b, c \in Blocks : c \in Contents(b)' => c \in Contents(b) \/ kind'[c] = "string"
    BY <1>3, GrownEdges
  <2> QED
    BY <1>0, <1>1, <2>1, <2>2, ChainedStep
<1>6. TokensKept'
  BY <1>1 DEF TokensKept
<1>7. a \in Blocks /\ a \in Filling /\ DoneRests
  BY <1>0, <1>1, FilledHere, GrownDone
<1>8. \A d \in 0 .. n - 1 : OpenContainer(d)' = OpenContainer(d)
  <2>1. \A d \in 0 .. n - 1 : \A b \in Blocks : b = Held(d) => Rests(b)
    <3>1. \A d \in 0 .. n - 1 : d \in 0 .. Depth - 1 /\ d # n
      BY <1>1
    <3>2. \A d \in 0 .. n - 1 : Held(d) # a
      BY <1>0, <1>1, <3>1, FilledHere
    <3> QED
      BY <3>2 DEF Grows
  <2> QED
    BY <1>0, <1>1, <1>2, <1>4, <1>7, <2>1, LowerSame
<1>9. PICK w \in {Const, Text} : Trees'[v] = Docs!Leaf(w)
  BY <1>0, <1>3, <1>4, LeafTree
<1>10. /\ Docs!Accepts(OpenContainer(n))
       /\ OpenContainer(n)' = Docs!Put(OpenContainer(n), Docs!Leaf(w))
  <2>1. Inner(n)' = None /\ PendingKey(n)' = None
    BY <1>1 DEF Inner, PendingKey
  <2>2. \A i \in DOMAIN Items(a) : Items(a)[i] # None
    BY <1>0, <1>1, <1>7, ItemDone
  <2>3. n \in 0 .. n /\ Held(n)' = a
    BY <1>2
  <2>4. /\ Docs!Accepts(OpenContainer(n))
        /\ OpenContainer(n)' =
             Docs!Put(OpenContainer(n), IF v = None THEN Docs!Hole ELSE Trees'[v])
    BY <1>0, <1>1, <1>4, <2>1, <2>2, <2>3, PutThere
  <2> QED
    BY <1>3, <1>9, <2>4
<1>11. /\ Open # <<>> /\ Last(Open) = OpenContainer(n)
       /\ Open' = Append(Front(Open), OpenContainer(n)')
  BY <1>1, <1>8, OpenLast
<1>12. Built' = Built
  BY <1>0 DEF Built
<1>13. Abstract!Value(w)
  BY <1>10, <1>11, <1>12 DEF Abstract!Value, Abstract!Leaf, Abstract!Tree, Abstract!Accepts,
       Abstract!Last, Abstract!Front, Last, Front, Abstract!Put, Abstract!Frame, Docs!Leaf, Docs!Tree, Docs!Accepts, Docs!Put, Docs!Frame
<1> QED
  BY <1>4, <1>5, <1>6, <1>13 DEF TreeInv

LEMMA PlaceArrayTree ==
  ASSUME Step, DomInv', TreeInv, PlaceLeaf, InArray(context)
  PROVE  TreeInv' /\ \E w \in {Const, Text} : Abstract!Value(w)
<1>0. /\ IInv /\ TypeOK /\ DomInv /\ DomTypeOK /\ Slots /\ Phase /\ pc = "place" /\ WellFormed
  BY DEF Step, IInv, DomInv, PlaceLeaf
<1>1. PICK n \in Nat : context = n + 1
  <2>1. context \in Nat /\ context > 0
    BY <1>0 DEF DomTypeOK, Levels, InArray
  <2>2. context - 1 \in Nat /\ context = (context - 1) + 1
    BY <2>1
  <2> QED
    BY <2>2
<1>2. /\ context - 1 = n /\ Depth = n + 1 /\ n \in Levels /\ n + 1 \in Levels
      /\ n \in 0 .. Depth - 1 /\ 0 .. Depth - 1 = 0 .. n
  BY <1>0, <1>1, DomAssumption DEF DomTypeOK, Levels, Depth
<1>3. PICK a \in Blocks : a = Held(n) /\ kind[a] = "array"
  BY <1>0, <1>2 DEF InArray, Is
<1>4. /\ mValue[n + 1] = None /\ ArrayAppend(a, fresh) /\ pc' = "feed" /\ mValue' = mValue
  <2>1. mValue[context] = None /\ Is(Held(context - 1), "array")
    BY DEF InArray
  <2>2. ArrayAppend(Parent, fresh) /\ pc' = "feed" /\ mValue' = mValue
    BY <1>1, <2>1 DEF PlaceLeaf, AtTop, UnderKey, Proceed
  <2> QED
    BY <1>1, <1>2, <1>3, <2>1, <2>2 DEF Parent
<1>5. fresh # None /\ fresh \in Handles /\ (Is(handle[fresh], "string") \/ handle[fresh] = Const)
  BY <1>0 DEF Phase, DomTypeOK
<1>6. InsertSane(a, handle[fresh])
  <2>1. handle[fresh] # a /\ (handle[fresh] \in Blocks => kind[handle[fresh]] = "string")
    BY <1>3, <1>5, ConstsDiffer DEF Is
  <2>2. handle[fresh] \in Blocks => Contents(handle[fresh]) = {}
    BY <1>0, <2>1, LeafEmpty
  <2> QED
    BY <2>1, <2>2, FreshSane
<1>7. handle' = [handle EXCEPT ![fresh] = None] /\ Grows(a, handle[fresh])
  BY <1>0, <1>3, <1>4, <1>5, <1>6, AppendEffect, AppendGrows
<1>8. \A d \in 0 .. n : mValue'[d] = mValue[d] /\ handle'[mValue[d]] = handle[mValue[d]]
  <2> TAKE d \in 0 .. n
  <2>1. d \in Levels /\ mValue[d] # None /\ mValue[d] \in Handles
    BY <1>0, <1>2, FilledHere
  <2>2. -2 \in Vars /\ d \in Vars /\ At(-2) = fresh /\ At(d) = mValue[d] /\ d # -2
    BY <2>1, VarsAre DEF At
  <2>3. mValue[d] # fresh
    BY <1>0, <2>1, <2>2 DEF Slots
  <2> QED
    BY <1>0, <1>4, <1>7, <2>1, <2>3 DEF TypeOK
<1>9. PendingKey(n) = IF kind[a] = "array" THEN None ELSE given
  BY <1>3, <1>4 DEF PendingKey
<1>10. mValue'[n + 1] = None
  BY <1>4
<1> QED
  BY <1>1, <1>3, <1>4, <1>7, <1>8, <1>9, <1>10, PlacedTree

LEMMA PlaceKeyTree ==
  ASSUME Step, DomInv', TreeInv, PlaceLeaf, UnderKey(context)
  PROVE  TreeInv' /\ \E w \in {Const, Text} : Abstract!Value(w)
<1>0. /\ IInv /\ TypeOK /\ DomInv /\ DomTypeOK /\ Slots /\ Phase /\ pc = "place" /\ WellFormed /\ TokensKept
  BY DEF Step, IInv, DomInv, PlaceLeaf, TreeInv
<1>1. PICK n \in Nat : context = n + 1
  <2>1. context \in Nat /\ context > 0
    BY <1>0 DEF DomTypeOK, Levels, UnderKey
  <2>2. context - 1 \in Nat /\ context = (context - 1) + 1
    BY <2>1
  <2> QED
    BY <2>2
<1>2. /\ context - 1 = n /\ Depth = n + 1 /\ n \in Levels /\ n + 1 \in Levels
      /\ n \in 0 .. Depth - 1 /\ 0 .. Depth - 1 = 0 .. n /\ Depth > 0 /\ Building
  BY <1>0, <1>1, DomAssumption DEF DomTypeOK, Levels, Depth, Building
<1>3. PICK a \in Blocks : a = Held(n) /\ kind[a] = "object"
  BY <1>0, <1>2 DEF UnderKey, Is
<1>4. PICK k \in Handles : k = mValue[n + 1]
  BY <1>0, <1>1, <1>2, ValuesHeld DEF UnderKey
<1>5. /\ k # None /\ Is(handle[k], "string") /\ text[handle[k]] = given /\ given \in Keys
      /\ mValue[context] # None
  <2>1. mValue[n + 1] # None /\ Is(Held(n + 1), "string")
    BY <1>1 DEF UnderKey
  <2>2. Held(n + 1) = handle[k]
    BY <1>4 DEF Held
  <2>3. text[Held(n + 1)] = given /\ given \in Keys
    BY <1>0, <1>2, <2>1 DEF TokensKept
  <2> QED
    BY <1>1, <1>4, <2>1, <2>2, <2>3
<1>6. ObjectPut(a, k, fresh) /\ pc' = "feed" /\ mValue' = [mValue EXCEPT ![n + 1] = None]
  <2>1. ~AtTop /\ ~InArray(context)
    BY <1>1, <1>5 DEF AtTop, InArray
  <2>2. /\ ObjectPut(Parent, mValue[context], fresh) /\ pc' = "feed"
        /\ mValue' = [mValue EXCEPT ![context] = None]
    BY <2>1 DEF PlaceLeaf, Proceed
  <2> QED
    BY <1>1, <1>2, <1>3, <1>4, <2>2 DEF Parent
<1>7. fresh # None /\ fresh \in Handles /\ (Is(handle[fresh], "string") \/ handle[fresh] = Const)
  BY <1>0 DEF Phase, DomTypeOK
<1>8. InsertSane(a, handle[fresh])
  <2>1. handle[fresh] # a /\ (handle[fresh] \in Blocks => kind[handle[fresh]] = "string")
    BY <1>3, <1>7, ConstsDiffer DEF Is
  <2>2. handle[fresh] \in Blocks => Contents(handle[fresh]) = {}
    BY <1>0, <2>1, LeafEmpty
  <2> QED
    BY <2>1, <2>2, FreshSane
<1>9. handle' = [handle EXCEPT ![k] = None, ![fresh] = None] /\ Grows(a, handle[fresh])
  BY <1>0, <1>3, <1>5, <1>6, <1>7, <1>8, PutEffect, PutGrows DEF Keys
<1>10. \A d \in 0 .. n : mValue'[d] = mValue[d] /\ handle'[mValue[d]] = handle[mValue[d]]
  <2> TAKE d \in 0 .. n
  <2>1. d \in Levels /\ mValue[d] # None /\ mValue[d] \in Handles /\ d # n + 1
    BY <1>0, <1>2, FilledHere
  <2>2. /\ -2 \in Vars /\ d \in Vars /\ n + 1 \in Vars /\ d # -2
        /\ At(-2) = fresh /\ At(d) = mValue[d] /\ At(n + 1) = k
    BY <1>2, <1>4, <2>1, VarsAre DEF At
  <2>3. mValue[d] # fresh /\ mValue[d] # k
    BY <1>0, <2>1, <2>2 DEF Slots
  <2> QED
    BY <1>0, <1>6, <1>9, <2>1, <2>3 DEF TypeOK, DomTypeOK
<1>11. PendingKey(n) = IF kind[a] = "array" THEN None ELSE given
  BY <1>2, <1>3, <1>4, <1>5 DEF PendingKey
<1>12. mValue'[n + 1] = None
  BY <1>0, <1>2, <1>6 DEF DomTypeOK
<1> QED
  BY <1>1, <1>3, <1>6, <1>9, <1>10, <1>11, <1>12, PlacedTree

LEMMA PlaceLeafTree ==
  ASSUME Step, DomInv', TreeInv, PlaceLeaf
  PROVE  TreeInv' /\ \E w \in {Const, Text} : Abstract!Value(w)
<1>1. AtTop \/ Room(context)
  BY DEF Step, DomInv, Phase, PlaceLeaf
<1> QED
  BY <1>1, PlaceTopTree, PlaceArrayTree, PlaceKeyTree DEF AtTop, Room

(* A container that holds nothing.                                         *)
EmptyTells == \A b \in Blocks : Container(b) /\ Contents(b) = {} => OpenItems(b, None) = <<>>

LEMMA EmptyFunction ==
  ASSUME NEW f, f = [i \in {} |-> f[i]]
  PROVE  f = <<>>
<1>1. 1 .. 0 = {}
  OBVIOUS
<1>2. Row(f, 0)
  BY <1>1 DEF Row
<1> QED
  BY <1>2, RowIs

LEMMA EmptyNow == IInv /\ Packed => EmptyTells
<1> SUFFICES ASSUME IInv, Packed, NEW b \in Blocks, Container(b), Contents(b) = {}
             PROVE  OpenItems(b, None) = <<>>
  BY DEF EmptyTells
<1>1. DOMAIN Items(b) = {}
  BY ItemsHeld DEF IInv
<1>2. PICK f : f = OpenItems(b, None)
  OBVIOUS
<1>3. f = [i \in DOMAIN Items(b) |-> IF Items(b)[i] = None THEN Docs!Hole ELSE Trees[Items(b)[i]]]
  BY <1>2, OpenNow DEF OpenTells
<1>4. f = [i \in {} |-> f[i]]
  BY <1>1, <1>3
<1> QED
  BY <1>2, <1>4, EmptyFunction

LEMMA EmptyNext == IInv' /\ Packed' => EmptyTells'
BY EmptyNow, PTL

(* One container more, and the one around it changes.                      *)
LEMMA OpenTwo ==
  ASSUME Building, Building', NEW n \in Nat, Depth = n + 1, Depth' = n + 2,
         \A d \in 0 .. n - 1 : OpenContainer(d)' = OpenContainer(d)
  PROVE  /\ Open # <<>> /\ Last(Open) = OpenContainer(n)
         /\ Open' = Front(Open) \o <<OpenContainer(n)', OpenContainer(n + 1)'>>
<1>1. PICK s : s = Open
  OBVIOUS
<1>2. PICK t : t = Open'
  OBVIOUS
<1>3. Row(s, n + 1) /\ \A i \in 1 .. n + 1 : s[i] = OpenContainer(i - 1)
  BY <1>1, OpenRow
<1>4. Row(t, n + 2) /\ \A i \in 1 .. n + 2 : t[i] = OpenContainer(i - 1)'
  BY <1>2, OpenRow
<1>5. \A i \in 1 .. n : i \in 1 .. n + 1 /\ i \in 1 .. n + 2 /\ i - 1 \in 0 .. n - 1
  OBVIOUS
<1>6. \A i \in 1 .. n : t[i] = s[i]
  BY <1>3, <1>4, <1>5
<1>7. s # <<>> /\ Last(s) = s[n + 1] /\ t = Front(s) \o <<t[n + 1], t[n + 2]>>
  BY <1>3, <1>4, <1>6, OnePushed
<1>8. /\ n + 1 \in 1 .. n + 1 /\ n + 1 \in 1 .. n + 2 /\ n + 2 \in 1 .. n + 2
      /\ n + 1 - 1 = n /\ n + 2 - 1 = n + 1
  OBVIOUS
<1>9. /\ t[n + 1] = OpenContainer(n + 1 - 1)' /\ t[n + 2] = OpenContainer(n + 2 - 1)'
      /\ s[n + 1] = OpenContainer(n + 1 - 1)
  BY <1>3, <1>4, <1>8
<1>10. t[n + 1] = OpenContainer(n)' /\ t[n + 2] = OpenContainer(n + 1)' /\ s[n + 1] = OpenContainer(n)
  BY <1>8, <1>9
<1> QED
  BY <1>1, <1>2, <1>7, <1>10

(* One container less.                                                     *)
LEMMA OpenBack ==
  ASSUME Building, Building', NEW n \in Nat, Depth = n + 2, Depth' = n + 1,
         \A d \in 0 .. n - 1 : OpenContainer(d)' = OpenContainer(d)
  PROVE  /\ Open # <<>> /\ Len(Open) > 1 /\ Last(Open) = OpenContainer(n + 1)
         /\ Last(Front(Open)) = OpenContainer(n)
         /\ Open' = Append(Front(Front(Open)), OpenContainer(n)')
<1>1. PICK s : s = Open
  OBVIOUS
<1>2. PICK t : t = Open'
  OBVIOUS
<1>3. Row(s, n + 2) /\ \A i \in 1 .. n + 2 : s[i] = OpenContainer(i - 1)
  BY <1>1, OpenRow
<1>4. Row(t, n + 1) /\ \A i \in 1 .. n + 1 : t[i] = OpenContainer(i - 1)'
  BY <1>2, OpenRow
<1>5. \A i \in 1 .. n : i \in 1 .. n + 1 /\ i \in 1 .. n + 2 /\ i - 1 \in 0 .. n - 1
  OBVIOUS
<1>6. \A i \in 1 .. n : t[i] = s[i]
  BY <1>3, <1>4, <1>5
<1>7. /\ s # <<>> /\ Len(s) = n + 2 /\ Last(s) = s[n + 2]
      /\ Last(Front(s)) = s[n + 1] /\ t = Append(Front(Front(s)), t[n + 1])
  BY <1>3, <1>4, <1>6, OnePopped
<1>8. /\ n + 1 \in 1 .. n + 1 /\ n + 1 \in 1 .. n + 2 /\ n + 2 \in 1 .. n + 2
      /\ n + 1 - 1 = n /\ n + 2 - 1 = n + 1 /\ n + 2 > 1
  OBVIOUS
<1>9. /\ t[n + 1] = OpenContainer(n + 1 - 1)' /\ s[n + 2] = OpenContainer(n + 2 - 1)
      /\ s[n + 1] = OpenContainer(n + 1 - 1)
  BY <1>3, <1>4, <1>8
<1>10. t[n + 1] = OpenContainer(n)' /\ s[n + 2] = OpenContainer(n + 1) /\ s[n + 1] = OpenContainer(n)
  BY <1>8, <1>9
<1> QED
  BY <1>1, <1>2, <1>7, <1>8, <1>10

(* dom_object_start and dom_array_start of the whole document.             *)
LEMMA StartTopTree ==
  ASSUME Step, DomInv', TreeInv, NEW k \in {"object", "array"}, NEW h \in Handles, NEW b \in Blocks,
         Start(k, h, b), context = 0
  PROVE  TreeInv' /\ Abstract!Open(k)
<1>0. /\ IInv /\ IInv' /\ DomInv /\ DomTypeOK /\ Frames /\ pc = "feed" /\ Packed
  BY DEF Step, DomInv, Start, ValueAllowed, TreeInv
<1>1. /\ Takes1(h, b) /\ kind'[b] = k /\ kind[b] = "free" /\ Contents(b)' = {} /\ h # None
      /\ context' = 1 /\ 1 \in Levels /\ 0 \in Levels
  BY StartEffect, DomAssumption DEF Levels
<1>2. mValue[0] = None /\ Depth = 0
  BY <1>0, PlaceThere DEF Start
<1>3. mValue' = [mValue EXCEPT ![0] = h] /\ pc' = "feed" /\ Depth' = 1
  BY <1>1 DEF Start, Depth
<1>4. mValue'[0] = h /\ mValue'[1] = None
  BY <1>0, <1>1, <1>2, <1>3 DEF DomTypeOK, Frames
<1>5. Soft /\ handle'[h] = b /\ \A c : Contents(c)' = Contents(c)
  BY <1>1, TakesSoft
<1>6. Packed'
  BY <1>0, <1>5, SoftRests
<1>7. Chained'
  <2>1. \A c \in Blocks : b \notin Contents(c)
    BY <1>0, <1>1, ContentsLiveNow DEF ContentsLive, Live
  <2>2. 0 .. 1 - 1 = {0} /\ Held(0)' = b
    BY <1>4, <1>5 DEF Held
  <2> QED
    BY <1>3, <1>5, <2>1, <2>2 DEF Chained
<1>8. TokensKept'
  BY <1>3, <1>4 DEF TokensKept
<1>9. OpenContainer(0)' = Docs!Frame(k, <<>>, None)
  <2>1. Held(0)' = b /\ Inner(0)' = None /\ PendingKey(0)' = None
    BY <1>3, <1>4, <1>5 DEF Held, Inner, PendingKey
  <2>2. OpenItems(b, None)' = <<>>
    BY <1>0, <1>1, <1>6, EmptyNext DEF EmptyTells, Container, Is
  <2> QED
    BY <1>1, <2>1, <2>2, ContainerNext
<1>10. Open = <<>> /\ Built = Docs!Nothing /\ Built' = Docs!Nothing
  <2>1. 1 .. 0 = {}
    OBVIOUS
  <2> QED
    BY <1>1, <1>2, <2>1 DEF Open, Built
<1>11. Open' = <<Docs!Frame(k, <<>>, None)>>
  <2>1. PICK t : t = Open'
    OBVIOUS
  <2>2. Row(t, 1) /\ t[1] = OpenContainer(1 - 1)'
    BY <1>3, <2>1, OpenRow DEF Building
  <2>3. t[1] = Docs!Frame(k, <<>>, None)
    BY <1>9, <2>2
  <2>4. t = <<t[1]>>
    <3>1. PICK s : s = [i \in 1 .. 0 |-> 0]
      OBVIOUS
    <3>2. Row(s, 0) /\ \A i \in 1 .. 0 : t[i] = s[i]
      BY <3>1 DEF Row
    <3>3. 0 \in Nat /\ 0 + 1 = 1
      OBVIOUS
    <3>4. t = Append(s, t[0 + 1]) /\ s = <<>>
      BY <2>2, <3>2, <3>3, RowAppended, RowIs
    <3> QED
      BY <3>3, <3>4
  <2> QED
    BY <2>1, <2>3, <2>4
<1>12. Abstract!Open(k)
  BY <1>10, <1>11 DEF Abstract!Open, Abstract!Frame, Abstract!Nothing, Abstract!Tree,
                      Docs!Frame, Docs!Nothing, Docs!Tree
<1> QED
  BY <1>6, <1>7, <1>8, <1>12 DEF TreeInv

(* The new container goes into the one around it, which shows the place.   *)
LEMMA AttachedTree ==
  ASSUME Step, DomInv', TreeInv, Attach, NEW n \in Nat, context = n + 2,
         NEW a, a = Held(n), NEW f, f = handle[fresh], Grows(a, f),
         \A d \in 0 .. n : mValue'[d] = mValue[d] /\ handle'[mValue[d]] = handle[mValue[d]],
         mValue'[n + 1] = fresh, handle'[fresh] = f, mValue'[n + 2] = None,
         PendingKey(n) = IF kind[a] = "array" THEN None ELSE given
  PROVE  TreeInv' /\ \E k \in {"object", "array"} : Abstract!Open(k)
<1>0. /\ IInv /\ IInv' /\ DomInv /\ Packed /\ Chained /\ TokensKept /\ Phase /\ DomTypeOK
      /\ pc = "attach" /\ pc' = "feed" /\ context' = context
  BY DEF Step, DomInv, TreeInv, Attach
<1>1. /\ Depth = n + 1 /\ Depth' = n + 2 /\ Building /\ Building'
      /\ n + 1 \in Nat /\ n + 2 \in Nat /\ n < n + 1 /\ n < n + 2
      /\ n \in 0 .. n /\ 0 .. n + 1 - 1 = 0 .. n /\ n + 2 - 1 = n + 1
      /\ \A d \in 0 .. n + 1 : d = n + 1 \/ d \in 0 .. n
  BY <1>0 DEF Depth, Building
<1>2. \A d \in 0 .. n : Held(d)' = Held(d)
  BY DEF Held
<1>3. Held(n + 1)' = f
  BY DEF Held
<1>4. /\ f \in Blocks /\ kind[f] \in {"object", "array"} /\ Contents(f) = {}
      /\ \A d \in 0 .. n : f # Held(d)
      /\ \A b \in Blocks : f \notin Contents(b)
  <2>1. handle[fresh] \in Blocks /\ kind[handle[fresh]] \in {"object", "array"} /\ Contents(handle[fresh]) = {}
    BY <1>0 DEF Phase
  <2>2. \A d \in 0 .. context - 2 : handle[fresh] # Held(d)
    BY <1>0 DEF Phase
  <2>3. context - 2 = n
    OBVIOUS
  <2>4. \A b \in Blocks : handle[fresh] \notin Contents(b)
    BY <1>0 DEF Chained
  <2> QED
    BY <2>1, <2>2, <2>3, <2>4
<1>5. UNCHANGED kind /\ f \in Values /\ a \in Blocks /\ f # a
  BY <1>1, <1>4 DEF Grows
<1>6. Packed'
  BY <1>0, GrownPacked
<1>7. a \in Filling /\ DoneRests
  BY <1>0, <1>1, FilledHere, GrownDone
<1>8. Chained'
  <2>1. ASSUME NEW d \in 0 .. n + 1, NEW b \in Blocks, Held(d)' \in Contents(b)'
        PROVE  d > 0 /\ b = Held(d - 1)'
    <3>1. PICK c \in Blocks : c = Held(d)' /\ kind'[c] # "string"
      <4>1. d \in 0 .. Depth' - 1
        BY <1>1
      <4> QED
        BY <1>0, <4>1, FilledNext DEF LevelsFilled, Container, Is
    <3>2. c \in Contents(b) \/ (b = a /\ c = f)
      BY <2>1, <3>1, GrownEdges
    <3>3. CASE d \in 0 .. n
      <4>1. c = Held(d) /\ c # f /\ d \in 0 .. Depth - 1
        BY <1>1, <1>2, <1>4, <3>1, <3>3
      <4>2. d > 0 /\ b = Held(d - 1)
        BY <1>0, <3>2, <4>1 DEF Chained
      <4>3. d - 1 \in 0 .. n
        BY <3>3, <4>2
      <4> QED
        BY <1>2, <4>2, <4>3
    <3>4. CASE d = n + 1
      <4>1. c = f /\ b = a
        BY <1>3, <1>4, <3>1, <3>2, <3>4
      <4>2. d > 0 /\ d - 1 = n /\ Held(n)' = a
        BY <1>1, <1>2, <3>4
      <4> QED
        BY <4>1, <4>2
    <3> QED
      BY <1>1, <3>3, <3>4
  <2> QED
    BY <1>0, <1>1, <2>1 DEF Chained
<1>9. TokensKept'
  BY <1>0, <1>1 DEF TokensKept
<1>10. \A d \in 0 .. n - 1 : OpenContainer(d)' = OpenContainer(d)
  <2>1. \A d \in 0 .. n - 1 : \A b \in Blocks : b = Held(d) => Rests(b)
    <3>1. \A d \in 0 .. n - 1 : d \in 0 .. Depth - 1 /\ d # n /\ n \in 0 .. Depth - 1
      BY <1>1
    <3>2. \A d \in 0 .. n - 1 : Held(d) # a
      BY <1>0, <3>1, FilledHere
    <3> QED
      BY <3>2 DEF Grows
  <2> QED
    BY <1>0, <1>1, <1>2, <1>6, <1>7, <2>1, LowerSame
<1>11. /\ Docs!Accepts(OpenContainer(n))
       /\ OpenContainer(n)' = Docs!Put(OpenContainer(n), Docs!Hole)
  <2>1. Inner(n)' = f /\ PendingKey(n)' = None
    BY <1>1, <1>3 DEF Inner, PendingKey
  <2>2. \A i \in DOMAIN Items(a) : Items(a)[i] # f
    <3>1. n \in 0 .. Depth - 1
      BY <1>1
    <3>2. \A i \in DOMAIN Items(a) : Items(a)[i] \in Contents(a)
      BY <1>0, <1>5, <3>1, ItemDone
    <3> QED
      BY <1>4, <1>5, <3>2
  <2>3. Held(n)' = a
    BY <1>1, <1>2
  <2>4. /\ Docs!Accepts(OpenContainer(n))
        /\ OpenContainer(n)' =
             Docs!Put(OpenContainer(n), IF f = f THEN Docs!Hole ELSE Trees'[f])
    BY <1>0, <1>1, <1>6, <2>1, <2>2, <2>3, PutThere
  <2> QED
    BY <2>4
<1>12. OpenContainer(n + 1)' = Docs!Frame(kind[f], <<>>, None)
  <2>1. Inner(n + 1)' = None /\ PendingKey(n + 1)' = None
    <3>1. n + 1 + 1 = n + 2
      OBVIOUS
    <3> QED
      BY <1>1, <3>1 DEF Inner, PendingKey
  <2>2. Contents(f)' = {}
    BY <1>0, <1>4, <1>5, RestsHold DEF Grows, IInv
  <2>3. OpenItems(f, None)' = <<>>
    BY <1>0, <1>4, <1>5, <1>6, <2>2, EmptyNext DEF EmptyTells, Container, Is
  <2>4. OpenContainer(n + 1)' = Docs!Frame(kind'[f], OpenItems(f, None)', None)
    BY <1>3, <2>1, ContainerNext
  <2> QED
    BY <1>5, <2>3, <2>4
<1>13. /\ Open # <<>> /\ Last(Open) = OpenContainer(n)
       /\ Open' = Front(Open) \o <<OpenContainer(n)', OpenContainer(n + 1)'>>
  BY <1>1, <1>10, OpenTwo
<1>14. Built' = Built
  BY <1>0 DEF Built
<1>15. Abstract!Open(kind[f])
  BY <1>11, <1>12, <1>13, <1>14 DEF Abstract!Open, Abstract!Hole, Abstract!Tree, Abstract!Accepts,
       Abstract!Last, Abstract!Front, Last, Front, Abstract!Put, Abstract!Frame,
       Docs!Hole, Docs!Tree, Docs!Accepts, Docs!Put, Docs!Frame
<1> QED
  BY <1>4, <1>6, <1>8, <1>9, <1>15 DEF TreeInv

(* Which levels the reference of the new container and a pending key spare. *)
LEMMA AttachApart ==
  ASSUME Step, pc = "attach", NEW n \in Nat, context = n + 2
  PROVE  /\ n + 1 \in Levels /\ n + 2 \in Levels /\ n \in 0 .. Depth - 1 /\ Depth = n + 1
         /\ 0 .. Depth - 1 = 0 .. n /\ mValue[n + 2] = None
         /\ fresh # None /\ fresh \in Handles /\ copied # None /\ copied \in Handles
         /\ handle[copied] = handle[fresh] /\ fresh # copied /\ fresh # mValue[n + 1]
         /\ \A d \in 0 .. n :
              /\ d \in Levels /\ d # n + 1 /\ mValue[d] \in Handles /\ mValue[d] # None
              /\ mValue[d] # copied /\ mValue[d] # mValue[n + 1]
<1>0. DomInv /\ DomTypeOK /\ Slots /\ Frames /\ Phase
  BY DEF Step, DomInv
<1>1. Depth = n + 1 /\ n + 1 \in Levels /\ n + 2 \in Levels /\ 0 .. Depth - 1 = 0 .. n /\ n \in 0 .. Depth - 1
  BY <1>0, DomAssumption DEF DomTypeOK, Levels, Depth
<1>2. mValue[n + 2] = None
  BY <1>0, <1>1 DEF Frames
<1>3. /\ fresh # None /\ fresh \in Handles /\ copied # None /\ copied \in Handles
      /\ handle[copied] = handle[fresh]
  BY <1>0 DEF Phase, DomTypeOK
<1>4. /\ -2 \in Vars /\ -1 \in Vars /\ n + 1 \in Vars /\ At(-2) = fresh /\ At(-1) = copied
      /\ At(n + 1) = mValue[n + 1] /\ n + 1 # -2
  BY <1>1, VarsAre DEF At
<1>5. fresh # copied /\ fresh # mValue[n + 1]
  BY <1>0, <1>3, <1>4 DEF Slots
<1>6. ASSUME NEW d \in 0 .. n
      PROVE  /\ d \in Levels /\ d # n + 1 /\ mValue[d] \in Handles /\ mValue[d] # None
             /\ mValue[d] # copied /\ mValue[d] # mValue[n + 1]
  <2>1. d \in Levels /\ mValue[d] # None /\ mValue[d] \in Handles /\ d # n + 1
    BY <1>0, <1>1, FilledHere
  <2>2. d \in Vars /\ d # -1 /\ At(d) = mValue[d]
    BY <2>1, VarsAre DEF At
  <2> QED
    BY <1>0, <1>4, <2>1, <2>2 DEF Slots
<1> QED
  BY <1>1, <1>2, <1>3, <1>5, <1>6

LEMMA AttachArrayTree ==
  ASSUME Step, DomInv', TreeInv, Attach, InArray(context - 1)
  PROVE  TreeInv' /\ \E k \in {"object", "array"} : Abstract!Open(k)
<1>0. IInv /\ TypeOK /\ DomInv /\ DomTypeOK /\ Phase /\ pc = "attach"
  BY DEF Step, IInv, DomInv, Attach
<1>1. PICK n \in Nat : context = n + 2 /\ context - 1 = n + 1 /\ context - 2 = n /\ context - 1 - 1 = n
  <2>1. context \in Nat /\ context > 1
    BY <1>0 DEF DomTypeOK, Levels, Phase
  <2>2. context - 2 \in Nat /\ context = (context - 2) + 2
    BY <2>1
  <2> QED
    BY <2>2
<1>2. /\ n + 1 \in Levels /\ n + 2 \in Levels /\ n \in 0 .. Depth - 1 /\ Depth = n + 1
      /\ mValue[n + 2] = None /\ n \in 0 .. n
      /\ fresh # None /\ fresh \in Handles /\ copied # None /\ copied \in Handles
      /\ handle[copied] = handle[fresh] /\ fresh # copied
      /\ \A d \in 0 .. n :
           d \in Levels /\ d # n + 1 /\ mValue[d] \in Handles /\ mValue[d] # None /\ mValue[d] # copied
  BY <1>0, <1>1, AttachApart
<1>3. PICK a \in Blocks : a = Held(n) /\ kind[a] = "array"
  BY <1>1 DEF InArray, Is
<1>4. mValue[n + 1] = None /\ ArrayAppend(a, copied) /\ mValue' = [mValue EXCEPT ![n + 1] = fresh]
  BY <1>1, <1>3 DEF Attach, InArray, UnderKey
<1>5. InsertSane(a, handle[copied])
  <2>1. handle[fresh] # Held(n) /\ Contents(handle[fresh]) = {}
    BY <1>0, <1>1, <1>2 DEF Phase
  <2> QED
    BY <1>2, <1>3, <2>1, FreshSane
<1>6. handle' = [handle EXCEPT ![copied] = None] /\ Grows(a, handle[fresh])
  BY <1>0, <1>2, <1>3, <1>4, <1>5, AppendEffect, AppendGrows
<1>7. \A d \in 0 .. n : mValue'[d] = mValue[d] /\ handle'[mValue[d]] = handle[mValue[d]]
  BY <1>0, <1>2, <1>4, <1>6 DEF TypeOK, DomTypeOK
<1>8. /\ mValue'[n + 1] = fresh /\ handle'[fresh] = handle[fresh] /\ mValue'[n + 2] = None
      /\ PendingKey(n) = IF kind[a] = "array" THEN None ELSE given
  BY <1>0, <1>2, <1>3, <1>4, <1>6 DEF TypeOK, DomTypeOK, PendingKey
<1> QED
  BY <1>1, <1>3, <1>6, <1>7, <1>8, AttachedTree

LEMMA AttachKeyTree ==
  ASSUME Step, DomInv', TreeInv, Attach, UnderKey(context - 1)
  PROVE  TreeInv' /\ \E k \in {"object", "array"} : Abstract!Open(k)
<1>0. IInv /\ TypeOK /\ DomInv /\ DomTypeOK /\ Phase /\ pc = "attach" /\ TokensKept /\ Building
  BY DEF Step, IInv, DomInv, Attach, TreeInv, Building
<1>1. PICK n \in Nat : context = n + 2 /\ context - 1 = n + 1 /\ context - 2 = n /\ context - 1 - 1 = n
  <2>1. context \in Nat /\ context > 1
    BY <1>0 DEF DomTypeOK, Levels, Phase
  <2>2. context - 2 \in Nat /\ context = (context - 2) + 2
    BY <2>1
  <2> QED
    BY <2>2
<1>2. /\ n + 1 \in Levels /\ n + 2 \in Levels /\ n \in 0 .. Depth - 1 /\ Depth = n + 1
      /\ mValue[n + 2] = None /\ n \in 0 .. n /\ Depth > 0
      /\ fresh # None /\ fresh \in Handles /\ copied # None /\ copied \in Handles
      /\ handle[copied] = handle[fresh] /\ fresh # copied /\ fresh # mValue[n + 1]
      /\ \A d \in 0 .. n :
           /\ d \in Levels /\ d # n + 1 /\ mValue[d] \in Handles /\ mValue[d] # None
           /\ mValue[d] # copied /\ mValue[d] # mValue[n + 1]
  BY <1>0, <1>1, AttachApart
<1>3. PICK a \in Blocks : a = Held(n) /\ kind[a] = "object"
  BY <1>1 DEF UnderKey, Is
<1>4. PICK k \in Handles : k = mValue[n + 1]
  BY <1>0, <1>1, <1>2, ValuesHeld DEF UnderKey
<1>5. k # None /\ Is(handle[k], "string") /\ text[handle[k]] = given /\ given \in Keys
  <2>1. mValue[n + 1] # None /\ Is(Held(n + 1), "string")
    BY <1>1 DEF UnderKey
  <2>2. Held(n + 1) = handle[k]
    BY <1>4 DEF Held
  <2>3. text[Held(n + 1)] = given /\ given \in Keys
    BY <1>0, <1>2, <2>1 DEF TokensKept
  <2> QED
    BY <1>4, <2>1, <2>2, <2>3
<1>6. ObjectPut(a, k, copied) /\ mValue' = [mValue EXCEPT ![n + 1] = fresh]
  <2>1. ~InArray(context - 1)
    BY <1>1, <1>4, <1>5 DEF InArray
  <2> QED
    BY <1>1, <1>3, <1>4, <2>1 DEF Attach
<1>7. InsertSane(a, handle[copied])
  <2>1. handle[fresh] # Held(n) /\ Contents(handle[fresh]) = {}
    BY <1>0, <1>1, <1>2 DEF Phase
  <2> QED
    BY <1>2, <1>3, <2>1, FreshSane
<1>8. handle' = [handle EXCEPT ![k] = None, ![copied] = None] /\ Grows(a, handle[fresh])
  BY <1>0, <1>2, <1>3, <1>5, <1>6, <1>7, PutEffect, PutGrows DEF Keys
<1>9. \A d \in 0 .. n : mValue'[d] = mValue[d] /\ handle'[mValue[d]] = handle[mValue[d]]
  BY <1>0, <1>2, <1>4, <1>6, <1>8 DEF TypeOK, DomTypeOK
<1>10. /\ mValue'[n + 1] = fresh /\ handle'[fresh] = handle[fresh] /\ mValue'[n + 2] = None
       /\ PendingKey(n) = IF kind[a] = "array" THEN None ELSE given
  BY <1>0, <1>2, <1>3, <1>4, <1>5, <1>6, <1>8 DEF TypeOK, DomTypeOK, PendingKey
<1> QED
  BY <1>1, <1>3, <1>8, <1>9, <1>10, AttachedTree

LEMMA AttachTree ==
  ASSUME Step, DomInv', TreeInv, Attach
  PROVE  TreeInv' /\ \E k \in {"object", "array"} : Abstract!Open(k)
BY AttachArrayTree, AttachKeyTree DEF Attach

(* dom_object_key, for the text and for defaults.                          *)
LEMMA KeyTree ==
  ASSUME Step, DomInv', TreeInv, NEW n \in Keys, NEW h \in Handles, KeyAllowed, Takes(h), Key(n, h),
         context' = context
  PROVE  TreeInv' /\ Abstract!Key(n)
<1>0. /\ IInv /\ IInv' /\ TypeOK /\ DomInv /\ DomTypeOK /\ Frames /\ Phase /\ Grammar /\ Kept
      /\ Packed /\ Chained /\ TokensKept /\ DomInv'
      /\ pc = "feed" /\ status = "reading" /\ handle[h] = None /\ h # None
      /\ yajl \in Seq(Entries) /\ yajl # <<>> /\ yajl[Len(yajl)] = "key"
  BY DomAssumption DEF Step, IInv, DomInv, KeyAllowed, Takes, DomTypeOK, Entries, Last, TreeInv
<1>1. PICK m \in Nat : m + 1 = Len(yajl)
  <2>1. Len(yajl) \in Nat /\ Len(yajl) > 0
    BY <1>0, FrontEntries
  <2>2. Len(yajl) - 1 \in Nat /\ Len(yajl) - 1 + 1 = Len(yajl)
    BY <2>1
  <2> QED
    BY <2>2
<1>2. /\ context = m + 1 /\ Depth = m + 1 /\ context - 1 = m /\ m + 1 \in Levels /\ m \in Levels
      /\ m + 1 \in Nat /\ m < m + 1
      /\ m \in 0 .. m /\ 0 .. Depth - 1 = 0 .. m /\ 0 .. m + 1 - 1 = 0 .. m /\ m + 1 \in 1 .. Depth
  <2>1. context = m + 1 /\ Depth = m + 1
    BY <1>0, <1>1 DEF Grammar, Depth
  <2>2. m + 1 \in Levels /\ m \in Levels
    BY <1>0, <2>1, DomAssumption DEF DomTypeOK, Levels
  <2>3. m + 1 - 1 = m /\ m + 1 \in Nat /\ m < m + 1 /\ m \in 0 .. m /\ m + 1 \in 1 .. m + 1
    OBVIOUS
  <2> QED
    BY <2>1, <2>2, <2>3
<1>3. mValue[m + 1] = None
  BY <1>0, <1>1, <1>2 DEF Grammar
<1>4. PICK a \in Blocks : a = Held(m) /\ kind[a] = "object"
  <2>1. Held(m) \in Blocks /\ Container(Held(m))
    BY <1>0, <1>2, FilledHere
  <2>2. kind[Held(m + 1 - 1)] = "array" <=> yajl[m + 1] = "array"
    BY <1>0, <1>2 DEF Grammar
  <2>3. m + 1 - 1 = m
    OBVIOUS
  <2> QED
    BY <1>0, <1>1, <2>1, <2>2, <2>3 DEF Container, Is
<1>5. /\ Lookup(n, h) /\ mValue' = [mValue EXCEPT ![m + 1] = h] /\ given' = n
      /\ pc' = "feed"
  BY <1>2, <1>3, <1>4 DEF Key, TakesKey, Parent, Is, Proceed
<1>6. PICK x \in Blocks : Takes1(h, x) /\ text'[x] = n
  <2>1. ASSUME NEW b \in Interned(n), LookupKey(b, h)
        PROVE  b \in Blocks /\ Takes1(h, b) /\ text'[b] = n
    BY <1>0, <2>1, ConstsDiffer DEF Interned, LookupKey, Share, Is, Takes1, containers
  <2>2. ASSUME NEW b \in Blocks, CreateString(h, b, n)
        PROVE  Takes1(h, b) /\ text'[b] = n
    BY <1>0, <2>2, ConstsDiffer DEF CreateString, Create, Alloc, Takes1, TypeOK
  <2> QED
    BY <1>5, <2>1, <2>2 DEF Lookup
<1>7. /\ Soft /\ handle'[h] = x
      /\ \A d \in Levels : mValue[d] # None => handle'[mValue[d]] = handle[mValue[d]]
  BY <1>6, TakesSoft
<1>8. mValue'[m + 1] = h /\ \A d \in Levels : d # m + 1 => mValue'[d] = mValue[d]
  BY <1>0, <1>2, <1>5 DEF DomTypeOK
<1>9. \A d \in 0 .. m : d \in Levels /\ d # m + 1 /\ mValue[d] # None /\ Held(d)' = Held(d) /\ d < m + 1
  <2> TAKE d \in 0 .. m
  <2>1. d \in Levels /\ d # m + 1 /\ mValue[d] # None /\ d < m + 1
    BY <1>0, <1>2, FilledHere
  <2> QED
    BY <1>7, <1>8, <2>1 DEF Held
<1>10. Depth' = m + 1 /\ Building /\ Building'
  BY <1>0, <1>2, <1>5 DEF Depth, Building
<1>11. Packed' /\ DoneRests
  BY <1>0, <1>7, SoftRests DEF DoneRests, Done, Stays
<1>12. Chained'
  <2>1. Remain(m + 1)
    BY <1>2, <1>9 DEF Remain
  <2> QED
    BY <1>0, <1>2, <1>5, <1>7, <1>10, <2>1, SoftRests, ChainedStep
<1>13. TokensKept'
  <2>1. Held(m + 1)' = x
    BY <1>7, <1>8 DEF Held
  <2>2. Held(Depth)' = x
    BY <1>10, <2>1 DEF Held
  <2> QED
    BY <1>5, <1>6, <2>2 DEF TokensKept
<1>14. \A d \in 0 .. m : \A b \in Blocks : b = Held(d) => kind'[b] \in Live /\ Rests(b)
  <2> TAKE d \in 0 .. m
  <2>1. Container(Held(d)) /\ Container(Held(d))' /\ Held(d)' = Held(d)
    BY <1>0, <1>2, <1>9, <1>10, FilledHere, FilledNext DEF LevelsFilled
  <2>2. \A b \in Blocks : b = Held(d) => kind[b] \in Live /\ kind'[b] \in Live
    BY <2>1 DEF Container, Is, Live
  <2> QED
    BY <1>7, <2>2, SoftRests DEF Stays
<1>15. \A d \in 0 .. m - 1 : OpenContainer(d)' = OpenContainer(d)
  <2>1. \A d \in 0 .. m - 1 : \A b \in Blocks : b = Held(d) => Rests(b)
    BY <1>14
  <2> QED
    BY <1>0, <1>2, <1>9, <1>10, <1>11, <2>1, LowerSame
<1>16. /\ OpenContainer(m) = Docs!Frame("object", OpenItems(a, None), None)
       /\ OpenContainer(m)' = Docs!Frame("object", OpenItems(a, None), n)
  <2>1. Inner(m) = None /\ Inner(m)' = None
    BY <1>2, <1>10 DEF Inner
  <2>2. PendingKey(m) = None /\ PendingKey(m)' = n
    BY <1>0, <1>2, <1>3, <1>5, <1>8, <1>10 DEF PendingKey
  <2>3. Held(m)' = a
    BY <1>2, <1>4, <1>9
  <2>4. OpenItems(a, None)' = OpenItems(a, None) /\ kind'[a] = kind[a]
    BY <1>0, <1>2, <1>4, <1>11, <1>14, <2>1, OpenItemsSame
  <2>5. OpenContainer(m) = Docs!Frame(kind[a], OpenItems(a, None), PendingKey(m))
    BY <1>4, <2>1, ContainerNow
  <2>6. OpenContainer(m)' = Docs!Frame(kind'[a], OpenItems(a, None)', PendingKey(m)')
    BY <2>1, <2>3, ContainerNext
  <2> QED
    BY <1>4, <2>2, <2>4, <2>5, <2>6
<1>17. /\ Open # <<>> /\ Last(Open) = OpenContainer(m)
       /\ Open' = Append(Front(Open), OpenContainer(m)')
  BY <1>2, <1>10, <1>15, OpenLast
<1>18. Built' = Built
  BY <1>2 DEF Built
<1>19. Abstract!Key(n)
  BY <1>16, <1>17, <1>18 DEF Abstract!Key, Abstract!Last, Abstract!Front, Last, Front, Docs!Frame
<1> QED
  BY <1>11, <1>12, <1>13, <1>19 DEF TreeInv

(* dom_object_end and dom_array_end of the whole document.                 *)
LEMMA EndTopTree ==
  ASSUME Step, DomInv', TreeInv, UNCHANGED <<vars, mValue>>, pc = "feed", pc' = "feed",
         context = 1, context' = 0, mValue[1] = None
  PROVE  TreeInv' /\ Abstract!Close
<1>0. /\ IInv /\ IInv' /\ DomInv /\ Packed /\ Chained
      /\ Depth = 1 /\ Depth' = 0 /\ Building /\ Building' /\ 0 \in 0 .. Depth - 1 /\ 0 .. 0 - 1 = {}
  BY DEF Step, TreeInv, Depth, Building
<1>1. Soft /\ handle' = handle /\ kind' = kind
  BY DEF Soft, vars
<1>2. Packed' /\ DoneRests
  BY <1>0, <1>1, SoftRests DEF DoneRests, Done, Stays
<1>3. Chained' /\ TokensKept'
  BY <1>0 DEF Chained, TokensKept
<1>4. PICK a \in Blocks : a = Held(0) /\ Container(a) /\ mValue[0] # None
  BY <1>0, FilledHere
<1>5. Held(0)' = a /\ mValue'[0] # None /\ Rests(a) /\ kind'[a] \in Live /\ kind[a] \in Live
  BY <1>1, <1>4, SoftRests DEF Held, Container, Is, Live, Stays
<1>6. Inner(0) = None /\ PendingKey(0) = None
  BY <1>0 DEF Inner, PendingKey
<1>7. OpenContainer(0) = Docs!Frame(kind[a], OpenItems(a, None), None)
  BY <1>4, <1>6, ContainerNow
<1>8. OpenItems(a, None)' = OpenItems(a, None) /\ kind'[a] = kind[a]
  BY <1>0, <1>2, <1>4, <1>5, <1>6, OpenItemsSame
<1>9. Built' = Docs!Tree(kind[a], None, OpenItems(a, None))
  <2>1. Built' = TreeOf(a)'
    BY <1>0, <1>5, BuiltNext
  <2>2. TreeOf(a)' = Docs!Tree(kind'[a], None, OpenItems(a, None)')
    <3>1. OpenTells' /\ Container(a)'
      BY <1>0, <1>1, <1>2, <1>4, OpenNext DEF Container, Is
    <3> QED
      BY <3>1 DEF OpenTells
  <2> QED
    BY <1>8, <2>1, <2>2
<1>10. Open # <<>> /\ Len(Open) = 1 /\ Last(Open) = OpenContainer(0) /\ Open' = <<>>
  <2>1. PICK s : s = Open
    OBVIOUS
  <2>2. Row(s, 1) /\ s[1] = OpenContainer(1 - 1)
    BY <1>0, <2>1, OpenRow
  <2>3. s # <<>> /\ Len(s) = 1 /\ Last(s) = s[1]
    <3>1. 1 \in Nat /\ 1 # 0
      OBVIOUS
    <3> QED
      BY <2>2, <3>1, RowIs
  <2>4. s[1] = OpenContainer(0)
    <3>1. 1 - 1 = 0
      OBVIOUS
    <3> QED
      BY <2>2, <3>1
  <2>5. Open' = <<>>
    <3>1. 1 .. 0 = {}
      OBVIOUS
    <3> QED
      BY <1>0, <3>1 DEF Open
  <2> QED
    BY <2>1, <2>3, <2>4, <2>5
<1>11. Abstract!Close
  BY <1>7, <1>9, <1>10 DEF Abstract!Close, Abstract!Last, Last, Abstract!Whole, Abstract!Tree,
                           Docs!Frame, Docs!Tree
<1> QED
  BY <1>2, <1>3, <1>11 DEF TreeInv

(* ... and of a container inside another: its hole is filled.              *)
LEMMA EndNestedTree ==
  ASSUME Step, DomInv', TreeInv, pc = "feed", pc' = "feed", NEW n \in Nat,
         context = n + 2, context' = n + 1, mValue[n + 2] = None,
         Release(mValue[n + 1]), mValue' = [mValue EXCEPT ![n + 1] = None]
  PROVE  TreeInv' /\ Abstract!Close
<1>0. IInv /\ IInv' /\ TypeOK /\ DomInv /\ DomTypeOK /\ Slots /\ Packed /\ Chained
  BY DEF Step, IInv, DomInv, TreeInv
<1>1. Depth = n + 2 /\ Depth' = n + 1 /\ Building /\ Building'
  BY DEF Depth, Building
<1>2. /\ n + 1 \in Nat /\ n + 2 \in Nat /\ n < n + 1 /\ n < n + 2 /\ n + 1 < n + 2
      /\ n + 1 + 1 = n + 2 /\ n \in 0 .. n /\ 0 .. n + 2 - 1 = 0 .. n + 1 /\ n + 1 - 1 = n
      /\ n \in 0 .. n + 1 /\ n + 1 \in 0 .. n + 1 /\ n # n + 1
      /\ \A d \in 0 .. n : d \in 0 .. n + 1 /\ d # n + 1 /\ d < n + 2
  OBVIOUS
<1>3. /\ \A d \in 0 .. n + 1 : /\ d \in Levels /\ mValue[d] # None /\ mValue[d] \in Handles
                               /\ Held(d) \in Blocks /\ Container(Held(d))
      /\ Held(n) # Held(n + 1)
  BY <1>0, <1>1, <1>2, FilledHere
<1>4. PICK a \in Blocks : a = Held(n) /\ Container(a)
  BY <1>2, <1>3
<1>5. PICK c \in Blocks : c = Held(n + 1) /\ Container(c) /\ c # a
  BY <1>2, <1>3, <1>4
<1>6. Soft /\ handle' = [handle EXCEPT ![mValue[n + 1]] = None] /\ kind' = kind
  BY DEF Release, Soft, containers
<1>7. \A d \in 0 .. n : Held(d)' = Held(d)
  <2> TAKE d \in 0 .. n
  <2>1. /\ d \in Levels /\ n + 1 \in Levels /\ d # n + 1
        /\ mValue[d] # None /\ mValue[d] \in Handles /\ mValue[n + 1] # None
    BY <1>2, <1>3
  <2>2. mValue[d] # mValue[n + 1]
    BY <1>0, <2>1, VarsAre DEF Slots, At
  <2>3. mValue'[d] = mValue[d]
    BY <1>0, <2>1 DEF DomTypeOK
  <2>4. handle'[mValue[d]] = handle[mValue[d]]
    BY <1>0, <1>6, <2>1, <2>2 DEF TypeOK
  <2> QED
    BY <2>3, <2>4 DEF Held
<1>8. mValue'[n + 1] = None
  BY <1>0, <1>2, <1>3 DEF DomTypeOK
<1>9. \A b \in Blocks : Container(b) => Rests(b) /\ kind'[b] = kind[b] /\ kind'[b] \in Live
  BY <1>6, SoftRests DEF Container, Is, Live, Stays
<1>10. Packed' /\ DoneRests
  BY <1>0, <1>6, SoftRests DEF DoneRests, Done, Stays
<1>11. Chained'
  <2>1. Remain(n + 1)
    BY <1>1, <1>2, <1>7 DEF Remain
  <2> QED
    BY <1>0, <1>1, <1>2, <1>6, <2>1, SoftRests, ChainedStep
<1>12. TokensKept'
  BY <1>1, <1>8 DEF TokensKept
<1>13. \A d \in 0 .. n - 1 : OpenContainer(d)' = OpenContainer(d)
  <2>1. \A d \in 0 .. n - 1 : \A b \in Blocks : b = Held(d) => Rests(b)
    <3>1. \A d \in 0 .. n - 1 : d \in 0 .. n + 1
      OBVIOUS
    <3> QED
      BY <1>3, <1>9, <3>1
  <2> QED
    BY <1>0, <1>1, <1>2, <1>7, <1>10, <2>1, LowerSame
<1>14. OpenContainer(n + 1) = Docs!Frame(kind[c], OpenItems(c, None), None)
  <2>1. Inner(n + 1) = None /\ PendingKey(n + 1) = None
    BY <1>1, <1>2 DEF Inner, PendingKey
  <2> QED
    BY <1>5, <2>1, ContainerNow
<1>15. OpenContainer(n) = Docs!Frame(kind[a], OpenItems(a, c), None)
  <2>1. Inner(n) = c /\ PendingKey(n) = None
    BY <1>1, <1>2, <1>5 DEF Inner, PendingKey
  <2> QED
    BY <1>4, <2>1, ContainerNow
<1>16. OpenContainer(n)' = Docs!Frame(kind[a], OpenItems(a, None)', None)
  <2>1. Inner(n)' = None /\ PendingKey(n)' = None
    BY <1>1, <1>2, <1>8 DEF Inner, PendingKey
  <2>2. Held(n)' = a
    BY <1>2, <1>4, <1>7
  <2> QED
    BY <1>6, <2>1, <2>2, ContainerNext
<1>17. Trees'[c] = Docs!Tree(kind[c], None, OpenItems(c, None))
  <2>1. Inner(n + 1) = None /\ n + 1 \in 0 .. Depth - 1
    BY <1>1, <1>2 DEF Inner
  <2>2. OpenItems(c, None)' = OpenItems(c, None)
    BY <1>0, <1>5, <1>9, <1>10, <2>1, OpenItemsSame
  <2>3. OpenTells' /\ Container(c)' /\ c \in Values
    BY <1>0, <1>5, <1>6, <1>10, OpenNext DEF Container, Is, Values
  <2>4. TreeOf(c)' = Docs!Tree(kind'[c], None, OpenItems(c, None)') /\ TreeOf(c)' = Trees'[c]
    BY <2>3 DEF OpenTells
  <2> QED
    BY <1>6, <2>2, <2>4
<1>18. OpenItems(a, None)' =
         [i \in DOMAIN OpenItems(a, c) |->
            IF OpenItems(a, c)[i] = Docs!Hole THEN Trees'[c] ELSE OpenItems(a, c)[i]]
  <2>1. OpenTells /\ OpenTells' /\ Container(a)' /\ n \in 0 .. Depth - 1
    BY <1>0, <1>1, <1>2, <1>4, <1>6, <1>10, OpenNow, OpenNext DEF Container, Is
  <2>2. Items(a)' = Items(a) /\ Contents(a)' = Contents(a)
    BY <1>0, <1>4, <1>6, <1>9, RestsHold
  <2>3. OpenItems(a, c) =
          [i \in DOMAIN Items(a) |-> IF Items(a)[i] = c THEN Docs!Hole ELSE Trees[Items(a)[i]]]
    BY <1>4, <2>1 DEF OpenTells
  <2>4. OpenItems(a, None)' =
          [i \in DOMAIN Items(a)' |-> IF Items(a)'[i] = None THEN Docs!Hole ELSE Trees'[Items(a)'[i]]]
    BY <2>1 DEF OpenTells
  <2>5. ASSUME NEW i \in DOMAIN Items(a)
        PROVE  /\ Items(a)[i] # None
               /\ Items(a)[i] # c =>
                    Trees'[Items(a)[i]] = Trees[Items(a)[i]] /\ Trees[Items(a)[i]] # Docs!Hole
    <3>1. Inner(n) = c
      BY <1>1, <1>2, <1>5 DEF Inner
    <3>2. PICK v \in Values : /\ v = Items(a)[i] /\ v \in Contents(a) /\ v # None
                              /\ (v = Const \/ v \in Done \/ v = c)
      BY <1>0, <1>4, <2>1, <3>1, ItemDone
    <3>3. v \in Blocks => kind'[v] \in Live
      BY <1>0, <1>4, <2>2, <3>2, ContentsLiveNext DEF ContentsLive
    <3>4. v # c => Trees'[v] = Trees[v]
      BY <1>0, <1>10, <3>2, <3>3, ItemKept
    <3>5. Trees[v] # Docs!Hole
      BY <2>1 DEF OpenTells
    <3> QED
      BY <3>2, <3>4, <3>5
  <2>6. DOMAIN OpenItems(a, c) = DOMAIN Items(a)
    BY <2>3
  <2>7. \A i \in DOMAIN Items(a) :
          OpenItems(a, c)[i] = IF Items(a)[i] = c THEN Docs!Hole ELSE Trees[Items(a)[i]]
    BY <2>3
  <2>8. \A i \in DOMAIN Items(a) :
          (IF Items(a)[i] = None THEN Docs!Hole ELSE Trees'[Items(a)[i]])
          = IF OpenItems(a, c)[i] = Docs!Hole THEN Trees'[c] ELSE OpenItems(a, c)[i]
    BY <2>5, <2>7
  <2> QED
    BY <2>2, <2>4, <2>6, <2>8
<1>19. Docs!Fill(OpenContainer(n), Docs!Whole(OpenContainer(n + 1))) = OpenContainer(n)'
  <2>1. Docs!Whole(OpenContainer(n + 1)) = Trees'[c]
    BY <1>14, <1>17 DEF Docs!Whole, Docs!Frame
  <2>2. ASSUME NEW k, NEW its, NEW tree
        PROVE  Docs!Fill(Docs!Frame(k, its, None), tree)
               = Docs!Frame(k, [i \in DOMAIN its |-> IF its[i] = Docs!Hole THEN tree ELSE its[i]], None)
    BY DEF Docs!Fill, Docs!Frame
  <2> QED
    BY <1>15, <1>16, <1>18, <2>1, <2>2
<1>20. /\ Open # <<>> /\ Len(Open) > 1 /\ Last(Open) = OpenContainer(n + 1)
       /\ Last(Front(Open)) = OpenContainer(n)
       /\ Open' = Append(Front(Front(Open)), OpenContainer(n)')
  BY <1>1, <1>13, OpenBack
<1>21. Built' = Built
  BY <1>2 DEF Built
<1>22. OpenContainer(n + 1).key = None
  BY <1>14 DEF Docs!Frame
<1>23. Abstract!Close
  BY <1>19, <1>20, <1>21, <1>22 DEF Abstract!Close, Abstract!Last, Abstract!Front, Last, Front,
       Abstract!Fill, Abstract!Whole, Abstract!Hole, Abstract!Tree, Docs!Fill, Docs!Whole,
       Docs!Hole, Docs!Tree
<1> QED
  BY <1>10, <1>11, <1>12, <1>23 DEF TreeInv

LEMMA EndTree ==
  ASSUME Step, DomInv', TreeInv, NEW k \in {"object", "array"}, End(k)
  PROVE  TreeInv' /\ Abstract!Close
<1>0. pc = "feed" /\ pc' = "feed"
  BY DEF End, Closes
<1>1. PICK m \in Nat :
        /\ m + 1 = context /\ mValue[m + 1] = None /\ context' = m
        /\ (m = 0 /\ UNCHANGED <<vars, mValue>>)
           \/ (m > 0 /\ Release(mValue[m]) /\ mValue' = [mValue EXCEPT ![m] = None])
  BY EndEffect
<1>2. CASE m = 0
  <2>1. context = 1 /\ context' = 0 /\ mValue[1] = None /\ UNCHANGED <<vars, mValue>>
    BY <1>1, <1>2
  <2> QED
    BY <1>0, <2>1, EndTopTree
<1>3. CASE m > 0
  <2>1. PICK n \in Nat : n + 1 = m /\ n + 2 = m + 1
    <3>1. m - 1 \in Nat /\ m - 1 + 1 = m /\ m - 1 + 2 = m + 1
      BY <1>3
    <3> QED
      BY <3>1
  <2>2. /\ context = n + 2 /\ context' = n + 1 /\ mValue[n + 2] = None
        /\ Release(mValue[n + 1]) /\ mValue' = [mValue EXCEPT ![n + 1] = None]
    BY <1>1, <1>3, <2>1
  <2> QED
    BY <1>0, <2>2, EndNestedTree
<1> QED
  BY <1>2, <1>3
-----------------------------------------------------------------------------
(* Every step, and what follows.                                           *)

(* A callback does what the document does, or nothing that shows.          *)
LEMMA CallbackTree ==
  ASSUME Step, DomInv', TreeInv, Callback
  PROVE  TreeInv' /\ (Abstract!Next \/ Stutter)
<1>1. CASE PlaceLeaf
  <2>1. TreeInv' /\ \E w \in {Const, Text} : Abstract!Value(w)
    BY <1>1, PlaceLeafTree
  <2> QED
    BY <2>1 DEF Abstract!Next
<1>2. CASE Attach
  <2>1. TreeInv' /\ \E k \in {"object", "array"} : Abstract!Open(k)
    BY <1>2, AttachTree
  <2> QED
    BY <2>1 DEF Abstract!Next
<1>3. CASE \E h \in Handles : MakeLeaf(h) \/ CopyContainer(h)
  BY <1>3, MakeLeafTree, CopyContainerTree
<1>4. ASSUME NEW k \in {"object", "array"}, NEW h \in Handles, NEW b \in Blocks, Start(k, h, b)
      PROVE  TreeInv' /\ (Abstract!Next \/ Stutter)
  <2>1. context = 0 \/ context > 0
    BY DEF Step, DomInv, DomTypeOK, Levels
  <2>2. CASE context = 0
    <3>1. TreeInv' /\ Abstract!Open(k)
      BY <1>4, <2>2, StartTopTree
    <3> QED
      BY <3>1 DEF Abstract!Next
  <2>3. CASE context > 0
    BY <1>4, <2>3, StartNestedTree
  <2> QED
    BY <2>1, <2>2, <2>3
<1>5. ASSUME NEW n \in Keys, NEW h \in Handles, ObjectKey(n, h) \/ DefaultProperty(n, h)
      PROVE  TreeInv' /\ (Abstract!Next \/ Stutter)
  <2>1. KeyAllowed /\ Takes(h) /\ Key(n, h) /\ context' = context
    BY <1>5 DEF ObjectKey, DefaultProperty
  <2>2. TreeInv' /\ Abstract!Key(n)
    BY <2>1, KeyTree
  <2> QED
    BY <2>2 DEF Abstract!Next
<1>6. ASSUME NEW k \in {"object", "array"}, End(k)
      PROVE  TreeInv' /\ (Abstract!Next \/ Stutter)
  <2>1. TreeInv' /\ Abstract!Close
    BY <1>6, EndTree
  <2> QED
    BY <2>1 DEF Abstract!Next
<1> QED
  BY <1>1, <1>2, <1>3, <1>4, <1>5, <1>6 DEF Callback

(* A syntax error, the end of the input, j_release, or nothing at all.     *)
LEMMA IdleTree ==
  ASSUME Step, DomInv', TreeInv, UNCHANGED vars \/ Releasing,
         UNCHANGED <<pc, context, mValue, given, fresh>>
  PROVE  TreeInv' /\ Stutter
<1>1. CASE Building
  BY <1>1, RestTree
<1>2. CASE ~Building
  <2>1. Soft /\ handle' = handle
    BY ReleasingHandles DEF Soft, vars
  <2> QED
    BY <1>2, <2>1, HiddenRests
<1> QED
  BY <1>1, <1>2

LEMMA ClientTree ==
  ASSUME Step, DomInv', TreeInv, Client
  PROVE  TreeInv' /\ (Abstract!Next \/ Stutter)
<1>1. CASE InitParser
  BY <1>1, InitTree
<1>2. CASE ParseError \/ EndOfInput
  BY <1>2, IdleTree DEF ParseError, EndOfInput
<1>3. CASE Deinit
  <2>1. TreeInv' /\ Abstract!Discard
    BY <1>3, DeinitTree
  <2> QED
    BY <2>1 DEF Abstract!Next
<1>4. CASE Cleanup
  BY <1>4, CleanupTree
<1>5. ASSUME NEW h \in Handles, GetResult(h)
      PROVE  TreeInv' /\ Stutter
  BY <1>5, GetResultTree
<1>6. ASSUME NEW h \in Handles, ReleaseResult(h)
      PROVE  TreeInv' /\ Stutter
  <2>1. CASE Building
    BY <1>6, <2>1, ReleaseResultTree
  <2>2. CASE ~Building
    <3>1. h \in results /\ Release(h) /\ UNCHANGED <<pc, context, mValue>>
      BY <1>6 DEF ReleaseResult
    <3>2. /\ Soft
          /\ \A d \in Levels : mValue[d] # None => handle'[mValue[d]] = handle[mValue[d]]
      BY <3>1, ReleasesApart
    <3> QED
      BY <2>2, <3>1, <3>2, HiddenRests
  <2> QED
    BY <2>1, <2>2
<1> QED
  BY <1>1, <1>2, <1>3, <1>4, <1>5, <1>6 DEF Client

LEMMA TreeStep ==
  ASSUME IInv, DomInv, TreeInv, [DomNext]_<<vars, domVars>>
  PROVE  TreeInv' /\ (Abstract!Next \/ Stutter)
<1>0. Step /\ DomInv'
  BY DomInductive, StepIsCall DEF Step
<1>1. CASE Callback
  BY <1>0, <1>1, CallbackTree
<1>2. CASE Client
  BY <1>0, <1>2, ClientTree
<1>3. CASE (Releasing /\ UNCHANGED domVars) \/ UNCHANGED <<vars, domVars>>
  <2>1. (UNCHANGED vars \/ Releasing) /\ UNCHANGED <<pc, context, mValue, given, fresh>>
    BY <1>3 DEF domVars
  <2> QED
    BY <1>0, <2>1, IdleTree
<1> QED
  BY <1>1, <1>2, <1>3 DEF DomNext

LEMMA TreeInitially == DomInit => TreeInv /\ Abstract!Init
<1> SUFFICES ASSUME DomInit
             PROVE  TreeInv /\ Abstract!Init
  OBVIOUS
<1>0. pc = "none" /\ context = 0 /\ Depth = 0 /\ ~Building /\ kind = [b \in Blocks |-> "free"]
  BY DEF DomInit, Init, Depth, Building
<1>1. TreeInv
  BY <1>0 DEF TreeInv, Packed, Chained, TokensKept
<1> QED
  BY <1>0, <1>1, HiddenNow DEF Abstract!Init, Abstract!Nothing, Abstract!Tree, Docs!Nothing, Docs!Tree

(* In every state of the parser the containers being filled hang where the *)
(* document has them and nowhere else, arrays have no gaps, and a key that *)
(* waits for its value is the one that the text had.                       *)
THEOREM TreeInvariance == DomSpec => []TreeInv
<1>1. IInv /\ DomInv /\ TreeInv /\ [DomNext]_<<vars, domVars>> => TreeInv'
  BY TreeStep
<1> QED
  BY <1>1, TreeInitially, DomInvariance, PTL DEF DomSpec

(* DomBuilder implements Document: whatever is shared, replaced, inserted  *)
(* or released on the way, the tree under construction is what the tokens  *)
(* so far denote, and the finished one is the document.                    *)
THEOREM DocumentBuilt == DomSpec => ImplementsDocument
<1>1. DomInit => TreeInv /\ Abstract!Init
  BY TreeInitially
<1>2. IInv /\ DomInv /\ TreeInv /\ [DomNext]_<<vars, domVars>> => [Abstract!Next]_(Abstract!vars)
  BY TreeStep DEF Abstract!vars, Stutter
<1> QED
  BY <1>1, <1>2, DomInvariance, TreeInvariance, PTL DEF DomSpec, ImplementsDocument, Abstract!Spec
=============================================================================
