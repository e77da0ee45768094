---------------------------- MODULE ProofLemmas ------------------------------
(***************************************************************************)
(* Facts that the proofs of several components rest on: counting places,   *)
(* and the least number of a set, which is how the proofs do induction.    *)
(***************************************************************************)
EXTENDS Integers, FiniteSets, FiniteSetTheorems, WellFoundedInduction, TLAPS

-----------------------------------------------------------------------------
(* Counting the places of D at which f holds a reference to b.             *)

Count(f, D, b) == Cardinality({x \in D : f[x] = b})

Same(u, v) == IF u = v THEN 1 ELSE 0

LEMMA CountZero ==
  ASSUME NEW D, IsFiniteSet(D), NEW f, NEW b
  PROVE  /\ Count(f, D, b) \in Nat
         /\ Count(f, D, b) = 0 <=> \A x \in D : f[x] # b
<1> DEFINE A == {x \in D : f[x] = b}
<1>1. IsFiniteSet(A)
  BY FS_Subset
<1>2. Cardinality(A) \in Nat
  BY <1>1, FS_CardinalityType
<1>3. Cardinality(A) = 0 <=> A = {}
  BY <1>1, FS_EmptySet
<1> QED
  BY <1>2, <1>3 DEF Count

LEMMA CountSame ==
  ASSUME NEW D, NEW f, NEW g, NEW b, \A x \in D : g[x] = f[x]
  PROVE  Count(g, D, b) = Count(f, D, b)
<1>1. {x \in D : g[x] = b} = {x \in D : f[x] = b}
  OBVIOUS
<1> QED
  BY <1>1 DEF Count

(* g is f with v at the place p of D.                                      *)
Update(f, g, D, p, v) ==
  /\ p \in D /\ g[p] = v
  /\ \A x \in D \ {p} : g[x] = f[x]

LEMMA CountPut ==
  ASSUME NEW D, IsFiniteSet(D), NEW f, NEW g, NEW p, NEW v, Update(f, g, D, p, v)
  PROVE  \A b : Count(g, D, b) = Count(f, D, b) - Same(f[p], b) + Same(v, b)
<1> TAKE b
<1>0. p \in D /\ g[p] = v /\ \A x \in D \ {p} : g[x] = f[x]
  BY DEF Update
<1> DEFINE R == {x \in D \ {p} : f[x] = b}
<1>1. IsFiniteSet(R) /\ p \notin R
  BY FS_Subset
<1>2. Cardinality(R) \in Nat /\ Cardinality(R \cup {p}) = Cardinality(R) + 1
  BY <1>0, <1>1, FS_CardinalityType, FS_AddElement
<1>3. Count(f, D, b) = Cardinality(R) + Same(f[p], b)
  <2>1. CASE f[p] = b
    <3>1. {x \in D : f[x] = b} = R \cup {p}
      BY <1>0, <2>1
    <3> QED
      BY <1>2, <2>1, <3>1 DEF Count, Same
  <2>2. CASE f[p] # b
    <3>1. {x \in D : f[x] = b} = R
      BY <1>0, <2>2
    <3> QED
      BY <1>2, <2>2, <3>1 DEF Count, Same
  <2> QED
    BY <2>1, <2>2
<1>4. Count(g, D, b) = Cardinality(R) + Same(g[p], b)
  <2>1. CASE g[p] = b
    <3>1. {x \in D : g[x] = b} = R \cup {p}
      BY <1>0, <2>1
    <3> QED
      BY <1>2, <2>1, <3>1 DEF Count, Same
  <2>2. CASE g[p] # b
    <3>1. {x \in D : g[x] = b} = R
      BY <1>0, <2>2
    <3> QED
      BY <1>2, <2>2, <3>1 DEF Count, Same
  <2> QED
    BY <2>1, <2>2
<1> QED
  BY <1>0, <1>2, <1>3, <1>4 DEF Same

(* Shifting references to other slots does not change how many there are.  *)
LEMMA CountMove ==
  ASSUME NEW D, IsFiniteSet(D), NEW f, NEW g, NEW b,
         NEW pi \in [D -> D], NEW inv \in [D -> D],
         \A x \in D : inv[pi[x]] = x /\ pi[inv[x]] = x,
         \A x \in D : g[x] = f[pi[x]]
  PROVE  Count(g, D, b) = Count(f, D, b)
<1> DEFINE A == {x \in D : f[x] = b}
           B == {x \in D : g[x] = b}
           h == [x \in B |-> pi[x]]
<1>1. IsFiniteSet(B)
  BY FS_Subset
<1>2. h \in [B -> A]
  OBVIOUS
<1>3. \A x, y \in B : h[x] = h[y] => x = y
  OBVIOUS
<1>4. \A y \in A : inv[y] \in B /\ h[inv[y]] = y
  OBVIOUS
<1>5. h \in Bijection(B, A)
  BY <1>2, <1>3, <1>4 DEF Bijection, Injection, Surjection, IsInjective
<1>6. Cardinality(A) = Cardinality(B)
  BY <1>1, <1>5, FS_Bijection DEF ExistsBijection
<1> QED
  BY <1>6 DEF Count

-----------------------------------------------------------------------------
(* Induction                                                               *)

LEMMA HasLeast ==
  ASSUME NEW S \in SUBSET Nat, S # {}
  PROVE  \E n \in S : \A m \in S : n <= m
<1> DEFINE Less == {ss \in Nat \X Nat : ss[1] < ss[2]}
<1>1. IsWellFoundedOn(Less, Nat)
  BY NatLessThanWellFounded, Zenon DEF OpToRel
<1>2. PICK x \in S : \A y \in S : ~(<<y, x>> \in Less)
  BY <1>1, WFMin
<1> HIDE DEF Less
<1>3. ASSUME NEW y \in Nat, NEW z \in Nat, y < z PROVE <<y, z>> \in Less
  BY <1>3 DEF Less
<1>4. \A y \in S : x <= y
  <2> TAKE y \in S
  <2>1. x \in Nat /\ y \in Nat
    OBVIOUS
  <2>2. ~(<<y, x>> \in Less)
    BY <1>2
  <2>3. ~(y < x)
    BY <1>3, <2>1, <2>2, Zenon
  <2>4. QED
    BY <2>1, <2>3
<1>5. QED
  BY <1>4

=============================================================================
