----------------------------- MODULE JValueProofs -----------------------------
(***************************************************************************)
(* Theorems about two things that clients ask of values: how they compare, *)
(* and their texts.                                                        *)
(***************************************************************************)
EXTENDS JValueOrder, GenStream, ProofLemmas, SequenceTheorems

-----------------------------------------------------------------------------
(***************************************************************************)
(* The order of values, for any values: jvalue_compare is an order and     *)
(* jvalue_equal agrees with it.  Containers are compared like words of a   *)
(* dictionary (Lexicographic), whose laws follow from those of the letters *)
(* (LexOpposite, LexTransitive); what a container holds has a smaller      *)
(* number, so there is no least value at which a law could fail.           *)
(***************************************************************************)

-----------------------------------------------------------------------------
(* Words                                                                   *)

LEMMA LexAt ==
  ASSUME NEW r, NEW n \in Nat, NEW m \in Nat,
         NEW i \in 1..Lesser(n, m), r[i] # 0,
         \A j \in 1..Lesser(n, m) : j < i => r[j] = 0
  PROVE  Lexicographic(r, n, m) = r[i]
<1> DEFINE differ == {j \in 1..Lesser(n, m) : r[j] # 0}
           first == CHOOSE j \in differ : \A k \in differ : j <= k
<1>1. i \in differ /\ Lesser(n, m) \in Nat
  BY DEF Lesser
<1>2. \A k \in differ : i <= k
  BY <1>1
<1>3. first \in differ /\ \A k \in differ : first <= k
  BY <1>1, <1>2
<1>4. first = i
  BY <1>1, <1>2, <1>3
<1> QED
  BY <1>1, <1>4 DEF Lexicographic

LEMMA LexNone ==
  ASSUME NEW r, NEW n \in Nat, NEW m \in Nat, \A j \in 1..Lesser(n, m) : r[j] = 0
  PROVE  Lexicographic(r, n, m) = n - m
BY DEF Lexicographic

LEMMA LexCases ==
  ASSUME NEW r, NEW n \in Nat, NEW m \in Nat
  PROVE  \/ \E i \in 1..Lesser(n, m) : r[i] # 0 /\ \A j \in 1..Lesser(n, m) : j < i => r[j] = 0
         \/ \A j \in 1..Lesser(n, m) : r[j] = 0
<1> DEFINE differ == {j \in 1..Lesser(n, m) : r[j] # 0}
<1>1. SUFFICES ASSUME differ # {}
               PROVE  \E i \in 1..Lesser(n, m) :
                        r[i] # 0 /\ \A j \in 1..Lesser(n, m) : j < i => r[j] = 0
  OBVIOUS
<1>2. Lesser(n, m) \in Nat /\ differ \in SUBSET Nat
  BY DEF Lesser
<1>3. PICK i \in differ : \A j \in differ : i <= j
  <2> HIDE DEF differ
  <2> QED
    BY <1>1, <1>2, HasLeast
<1> QED
  BY <1>2, <1>3

(* The answer is an integer if those for the letters are.                  *)
LEMMA LexInt ==
  ASSUME NEW r, NEW n \in Nat, NEW m \in Nat, \A i \in 1..Lesser(n, m) : r[i] \in Int
  PROVE  Lexicographic(r, n, m) \in Int
<1>1. CASE \A j \in 1..Lesser(n, m) : r[j] = 0
  BY <1>1, LexNone
<1>2. ASSUME NEW i \in 1..Lesser(n, m), r[i] # 0, \A j \in 1..Lesser(n, m) : j < i => r[j] = 0
      PROVE  Lexicographic(r, n, m) \in Int
  BY <1>2, LexAt
<1> QED
  BY <1>1, <1>2, LexCases

(* Words are equal if they are equally long and so are all their letters.  *)
LEMMA LexZero ==
  ASSUME NEW r, NEW n \in Nat, NEW m \in Nat
  PROVE  Lexicographic(r, n, m) = 0 <=> n = m /\ \A i \in 1..Lesser(n, m) : r[i] = 0
<1>1. CASE \A j \in 1..Lesser(n, m) : r[j] = 0
  BY <1>1, LexNone, SMTT(30)
<1>2. ASSUME NEW i \in 1..Lesser(n, m), r[i] # 0, \A j \in 1..Lesser(n, m) : j < i => r[j] = 0
      PROVE  Lexicographic(r, n, m) # 0
  BY <1>2, LexAt
<1> QED
  BY <1>1, <1>2, LexCases

(* Answers the opposite way                                                *)
Opposite(u, v) == (u < 0 <=> v > 0) /\ (u > 0 <=> v < 0)

LEMMA LexOpposite ==
  ASSUME NEW r, NEW q, NEW n \in Nat, NEW m \in Nat,
         \A i \in 1..Lesser(n, m) : r[i] \in Int /\ q[i] \in Int /\ Opposite(r[i], q[i])
  PROVE  Opposite(Lexicographic(r, n, m), Lexicographic(q, m, n))
<1>1. Lesser(m, n) = Lesser(n, m)
  BY DEF Lesser
<1>2. \A i \in 1..Lesser(n, m) : r[i] = 0 <=> q[i] = 0
  BY DEF Opposite
<1>3. CASE \A j \in 1..Lesser(n, m) : r[j] = 0
  <2>1. Lexicographic(r, n, m) = n - m /\ Lexicographic(q, m, n) = m - n
    BY <1>1, <1>2, <1>3, LexNone
  <2> QED
    BY <2>1 DEF Opposite
<1>4. ASSUME NEW i \in 1..Lesser(n, m), r[i] # 0, \A j \in 1..Lesser(n, m) : j < i => r[j] = 0
      PROVE  Opposite(Lexicographic(r, n, m), Lexicographic(q, m, n))
  <2>1. Lexicographic(r, n, m) = r[i]
    BY <1>4, LexAt
  <2>2. Lexicographic(q, m, n) = q[i]
    BY <1>1, <1>2, <1>4, LexAt
  <2> QED
    BY <2>1, <2>2
<1> QED
  BY <1>3, <1>4, LexCases

(* u, v and w are answers for a first and a second, the second and a       *)
(* third, and the first and the third, in an order.                        *)
Follows(u, v, w) == u <= 0 /\ v <= 0 => w <= 0 /\ (w = 0 <=> u = 0 /\ v = 0)

LEMMA LexTransitive ==
  ASSUME NEW r, NEW q, NEW p, NEW n \in Nat, NEW m \in Nat, NEW k \in Nat,
         \A i \in 1..Lesser(n, m) : r[i] \in Int,
         \A i \in 1..Lesser(m, k) : q[i] \in Int,
         \A i \in 1..Lesser(n, k) : p[i] \in Int,
         \A i \in 1..Lesser(n, m) : i <= k => Follows(r[i], q[i], p[i])
  PROVE  Follows(Lexicographic(r, n, m), Lexicographic(q, m, k), Lexicographic(p, n, k))
<1> SUFFICES ASSUME Lexicographic(r, n, m) <= 0, Lexicographic(q, m, k) <= 0
             PROVE  /\ Lexicographic(p, n, k) <= 0
                    /\ Lexicographic(p, n, k) = 0
                         <=> Lexicographic(r, n, m) = 0 /\ Lexicographic(q, m, k) = 0
  BY DEF Follows
<1> DEFINE First(s, i, x, y) == s[i] # 0 /\ \A j \in 1..Lesser(x, y) : j < i => s[j] = 0
<1>0. \A x, y \in Nat, i \in Int :
        i \in 1..Lesser(x, y) <=> 1 <= i /\ i <= x /\ i <= y
  BY DEF Lesser
<1>1. ASSUME NEW i \in 1..Lesser(n, m), First(r, i, n, m), NEW j \in 1..Lesser(m, k), First(q, j, m, k)
      PROVE  Lexicographic(p, n, k) < 0 /\ Lexicographic(r, n, m) < 0
  <2>1. Lexicographic(r, n, m) = r[i] /\ Lexicographic(q, m, k) = q[j]
    BY <1>1, LexAt
  <2>2. r[i] < 0 /\ q[j] < 0
    BY <1>1, <2>1
  <2>3. CASE i <= j
    <3>1. i \in 1..Lesser(n, k) /\ i \in 1..Lesser(m, k) /\ q[i] <= 0
      BY <1>0, <1>1, <2>2, <2>3
    <3>2. p[i] < 0
      BY <1>0, <1>1, <2>2, <3>1 DEF Follows
    <3>3. ASSUME NEW l \in 1..Lesser(n, k), l < i PROVE p[l] = 0
      <4>1. r[l] = 0 /\ q[l] = 0 /\ l \in 1..Lesser(n, m)
        BY <1>0, <1>1, <2>3, <3>3
      <4> QED
        BY <1>0, <3>3, <4>1 DEF Follows
    <3>4. p[i] # 0 /\ Lexicographic(p, n, k) = p[i]
      BY <3>1, <3>2, <3>3, LexAt
    <3> QED
      BY <2>1, <2>2, <3>2, <3>4
  <2>4. CASE j < i
    <3>1. j \in 1..Lesser(n, k) /\ j \in 1..Lesser(n, m) /\ r[j] = 0
      BY <1>0, <1>1, <2>4
    <3>2. p[j] < 0
      BY <1>0, <1>1, <2>2, <3>1 DEF Follows
    <3>3. ASSUME NEW l \in 1..Lesser(n, k), l < j PROVE p[l] = 0
      <4>1. r[l] = 0 /\ q[l] = 0 /\ l \in 1..Lesser(n, m)
        BY <1>0, <1>1, <2>4, <3>3
      <4> QED
        BY <1>0, <3>3, <4>1 DEF Follows
    <3>4. p[j] # 0 /\ Lexicographic(p, n, k) = p[j]
      BY <3>1, <3>2, <3>3, LexAt
    <3> QED
      BY <2>1, <2>2, <3>2, <3>4
  <2> QED
    BY <2>3, <2>4
<1>2. ASSUME NEW i \in 1..Lesser(n, m), First(r, i, n, m), \A j \in 1..Lesser(m, k) : q[j] = 0
      PROVE  Lexicographic(p, n, k) < 0 /\ Lexicographic(r, n, m) < 0
  <2>1. Lexicographic(r, n, m) = r[i] /\ Lexicographic(q, m, k) = m - k
    BY <1>2, LexAt, LexNone
  <2>2. r[i] < 0 /\ m <= k
    BY <1>2, <2>1
  <2>3. i \in 1..Lesser(n, k) /\ i \in 1..Lesser(m, k)
    BY <1>0, <2>2
  <2>4. p[i] < 0
    BY <1>0, <1>2, <2>2, <2>3 DEF Follows
  <2>5. ASSUME NEW l \in 1..Lesser(n, k), l < i PROVE p[l] = 0
    <3>1. l \in 1..Lesser(n, m) /\ l \in 1..Lesser(m, k)
      BY <1>0, <2>2, <2>5
    <3>2. r[l] = 0 /\ q[l] = 0
      BY <1>2, <2>5, <3>1
    <3> QED
      BY <1>0, <3>1, <3>2 DEF Follows
  <2>6. p[i] # 0 /\ Lexicographic(p, n, k) = p[i]
    BY <2>3, <2>4, <2>5, LexAt
  <2> QED
    BY <2>1, <2>2, <2>4, <2>6
<1>3. ASSUME \A j \in 1..Lesser(n, m) : r[j] = 0, NEW j \in 1..Lesser(m, k), First(q, j, m, k)
      PROVE  Lexicographic(p, n, k) < 0 /\ Lexicographic(q, m, k) < 0
  <2>1. Lexicographic(r, n, m) = n - m /\ Lexicographic(q, m, k) = q[j]
    BY <1>3, LexAt, LexNone
  <2>2. q[j] < 0 /\ n <= m
    BY <1>3, <2>1
  <2>3. ASSUME NEW l \in 1..Lesser(n, k), l < j PROVE p[l] = 0
    <3>1. l \in 1..Lesser(n, m) /\ l \in 1..Lesser(m, k)
      BY <1>0, <2>2, <2>3
    <3>2. r[l] = 0 /\ q[l] = 0
      BY <1>3, <2>3, <3>1
    <3> QED
      BY <1>0, <3>1, <3>2 DEF Follows
  <2>4. CASE j <= n
    <3>1. j \in 1..Lesser(n, k) /\ j \in 1..Lesser(n, m) /\ r[j] = 0
      BY <1>0, <1>3, <2>4
    <3>2. p[j] < 0
      BY <1>0, <2>2, <3>1 DEF Follows
    <3>3. p[j] # 0 /\ Lexicographic(p, n, k) = p[j]
      BY <2>3, <3>1, <3>2, LexAt
    <3> QED
      BY <2>1, <2>2, <3>2, <3>3
  <2>5. CASE j > n
    <3>1. n < k /\ \A l \in 1..Lesser(n, k) : l < j
      BY <1>0, <2>5
    <3>2. Lexicographic(p, n, k) = n - k
      BY <2>3, <3>1, LexNone
    <3> QED
      BY <2>1, <2>2, <3>1, <3>2
  <2> QED
    BY <1>0, <2>4, <2>5
<1>4. ASSUME \A j \in 1..Lesser(n, m) : r[j] = 0, \A j \in 1..Lesser(m, k) : q[j] = 0
      PROVE  Lexicographic(p, n, k) <= 0
               /\ (Lexicographic(p, n, k) = 0
                     <=> Lexicographic(r, n, m) = 0 /\ Lexicographic(q, m, k) = 0)
  <2>1. Lexicographic(r, n, m) = n - m /\ Lexicographic(q, m, k) = m - k
    BY <1>4, LexNone
  <2>2. n <= m /\ m <= k
    BY <2>1
  <2>3. ASSUME NEW l \in 1..Lesser(n, k) PROVE p[l] = 0
    <3>1. l \in 1..Lesser(n, m) /\ l \in 1..Lesser(m, k)
      BY <1>0, <2>2, <2>3
    <3>2. r[l] = 0 /\ q[l] = 0
      BY <1>4, <3>1
    <3> QED
      BY <1>0, <3>1, <3>2 DEF Follows
  <2>4. Lexicographic(p, n, k) = n - k
    BY <2>3, LexNone
  <2> QED
    BY <2>1, <2>2, <2>4
<1>5. \/ \E i \in 1..Lesser(n, m) : First(r, i, n, m)
      \/ \A j \in 1..Lesser(n, m) : r[j] = 0
  BY LexCases
<1>6. \/ \E j \in 1..Lesser(m, k) : First(q, j, m, k)
      \/ \A j \in 1..Lesser(m, k) : q[j] = 0
  BY LexCases
<1> HIDE DEF First
<1>7. Lexicographic(p, n, k) < 0 => Lexicographic(p, n, k) # 0 /\ Lexicographic(p, n, k) <= 0
  BY LexInt
<1> QED
  BY <1>1, <1>2, <1>3, <1>4, <1>5, <1>6, <1>7

-----------------------------------------------------------------------------
(* The sorted keys                                                         *)

IsSorted(s, keys, n) ==
  /\ s \in [1..n -> keys]
  /\ \A i, j \in 1..n : i < j => s[i] < s[j]
  /\ \A k \in keys : \E i \in 1..n : s[i] = k

(* A finite set of integers that is not empty has a greatest one.          *)
LEMMA HasGreatest ==
  ASSUME NEW n \in Nat
  PROVE  \A K \in SUBSET Int : IsFiniteSet(K) /\ Cardinality(K) = n + 1 =>
           \E g \in K : \A k \in K : k <= g
<1> DEFINE Good(m) == \A K \in SUBSET Int : IsFiniteSet(K) /\ Cardinality(K) = m + 1 =>
                        \E g \in K : \A k \in K : k <= g
           Bad == {m \in Nat : ~Good(m)}
<1>1. SUFFICES ASSUME Bad # {} PROVE FALSE
  OBVIOUS
<1> HIDE DEF Good
<1>2. Bad \in SUBSET Nat
  OBVIOUS
<1>3. PICK m \in Bad : \A l \in Bad : m <= l
  <2> HIDE DEF Bad
  <2> QED
    BY <1>1, <1>2, HasLeast
<1>4. SUFFICES ASSUME NEW K \in SUBSET Int, IsFiniteSet(K), Cardinality(K) = m + 1
               PROVE  \E g \in K : \A k \in K : k <= g
  BY DEF Good
<1>5. K # {}
  BY <1>4, FS_EmptySet
<1>6. PICK x \in K : TRUE
  BY <1>5
<1>7. IsFiniteSet(K \ {x}) /\ Cardinality(K \ {x}) = m
  BY <1>4, FS_RemoveElement
<1>8. CASE m = 0
  <2>1. K \ {x} = {}
    BY <1>7, <1>8, FS_EmptySet
  <2> QED
    BY <2>1
<1>9. CASE m # 0
  <2>1. m - 1 \in Nat /\ Good(m - 1) /\ (m - 1) + 1 = m
    BY <1>3, <1>9
  <2>2. PICK g \in K \ {x} : \A k \in K \ {x} : k <= g
    BY <1>7, <2>1 DEF Good
  <2>3. CASE x <= g
    BY <2>2, <2>3
  <2>4. CASE g < x
    BY <2>2, <2>4
  <2> QED
    BY <2>3, <2>4
<1> QED
  BY <1>8, <1>9

LEMMA SortedExists ==
  ASSUME NEW n \in Nat
  PROVE  \A K \in SUBSET Int : IsFiniteSet(K) /\ Cardinality(K) = n =>
           \E s : IsSorted(s, K, n)
<1> DEFINE Good(m) == \A K \in SUBSET Int : IsFiniteSet(K) /\ Cardinality(K) = m =>
                        \E s : IsSorted(s, K, m)
           Bad == {m \in Nat : ~Good(m)}
<1>1. SUFFICES ASSUME Bad # {} PROVE FALSE
  OBVIOUS
<1> HIDE DEF Good
<1>2. Bad \in SUBSET Nat
  OBVIOUS
<1>3. PICK m \in Bad : \A l \in Bad : m <= l
  <2> HIDE DEF Bad
  <2> QED
    BY <1>1, <1>2, HasLeast
<1>4. SUFFICES ASSUME NEW K \in SUBSET Int, IsFiniteSet(K), Cardinality(K) = m
               PROVE  \E s : IsSorted(s, K, m)
  BY DEF Good
<1>5. CASE m = 0
  <2>1. K = {}
    BY <1>4, <1>5, FS_EmptySet
  <2>2. IsSorted([i \in 1..0 |-> 0], K, 0)
    BY <2>1 DEF IsSorted
  <2> QED
    BY <1>5, <2>2
<1>6. CASE m # 0
  <2>1. m - 1 \in Nat /\ Good(m - 1) /\ (m - 1) + 1 = m
    BY <1>3, <1>6
  <2>2. PICK g \in K : \A k \in K : k <= g
    BY <1>4, <2>1, HasGreatest
  <2>3. IsFiniteSet(K \ {g}) /\ Cardinality(K \ {g}) = m - 1
    BY <1>4, FS_RemoveElement
  <2>4. PICK s : IsSorted(s, K \ {g}, m - 1)
    BY <2>1, <2>3 DEF Good
  <2> DEFINE t == [i \in 1..m |-> IF i = m THEN g ELSE s[i]]
  <2>5. t \in [1..m -> K] /\ \A i \in 1..(m - 1) : s[i] \in K /\ s[i] < g
    <3>1. \A i \in 1..(m - 1) : s[i] \in K \ {g}
      BY <2>4 DEF IsSorted
    <3>2. \A i \in 1..m : i = m \/ i \in 1..(m - 1)
      BY <2>1
    <3>3. \A i \in 1..(m - 1) : s[i] \in Int /\ s[i] <= g /\ s[i] # g
      BY <2>2, <3>1
    <3> QED
      BY <2>2, <3>1, <3>2, <3>3
  <2>6. \A i, j \in 1..m : i < j => t[i] < t[j]
    BY <2>4, <2>5 DEF IsSorted
  <2>7. \A k \in K : \E i \in 1..m : t[i] = k
    <3> TAKE k \in K
    <3>1. CASE k = g
      <4>1. m \in 1..m /\ t[m] = k
        BY <2>1, <3>1
      <4> QED
        BY <4>1
    <3>2. CASE k # g
      <4>1. PICK i \in 1..(m - 1) : s[i] = k
        BY <2>4, <3>2 DEF IsSorted
      <4>2. i \in 1..m /\ t[i] = k
        BY <2>1, <4>1
      <4> QED
        BY <4>2
    <3> QED
      BY <3>1, <3>2
  <2>8. IsSorted(t, K, m)
    BY <2>5, <2>6, <2>7 DEF IsSorted
  <2> QED
    BY <2>8
<1> QED
  BY <1>5, <1>6

LEMMA SortedAre ==
  ASSUME NEW keys \in SUBSET Int, IsFiniteSet(keys)
  PROVE  IsSorted(SortedKeys(keys), keys, Cardinality(keys))
<1>1. Cardinality(keys) \in Nat
  BY FS_CardinalityType
<1>2. \E s : IsSorted(s, keys, Cardinality(keys))
  BY <1>1, SortedExists
<1> QED
  BY <1>2 DEF SortedKeys, IsSorted

-----------------------------------------------------------------------------
(* What a container holds                                                  *)

LEMMA ItemsAre ==
  ASSUME IsTable(vals)
  PROVE  /\ Len(vals) \in Nat /\ Values \in SUBSET Nat
         /\ \A x \in Values :
              /\ vals[x].type \in 0..5 /\ vals[x].rank \in Int /\ vals[x].at \in 0..x
              /\ DOMAIN vals[x].items \in SUBSET Int /\ IsFiniteSet(DOMAIN vals[x].items)
              /\ ItemCount(x) \in Nat
              /\ \A k \in DOMAIN vals[x].items :
                   vals[x].items[k] \in Values /\ vals[x].items[k] < x
              /\ vals[x].type = JV_ARRAY => DOMAIN vals[x].items = 1..ItemCount(x)
<1>1. Len(vals) \in Nat
  BY DEF IsTable
<1>2. ASSUME NEW x \in Values
      PROVE  /\ vals[x].type \in 0..5 /\ vals[x].rank \in Int /\ vals[x].at \in 0..x
             /\ DOMAIN vals[x].items \in SUBSET Int /\ IsFiniteSet(DOMAIN vals[x].items)
             /\ ItemCount(x) \in Nat
             /\ \A k \in DOMAIN vals[x].items :
                  vals[x].items[k] \in Values /\ vals[x].items[k] < x
             /\ vals[x].type = JV_ARRAY => DOMAIN vals[x].items = 1..ItemCount(x)
  <2>1. x \in Nat /\ x >= 1 /\ x <= Len(vals) /\ IsNode(vals[x], x)
    BY <1>1 DEF IsTable, Values
  <2>2. /\ vals[x].type \in 0..5 /\ vals[x].rank \in Int /\ vals[x].at \in 0..x
        /\ DOMAIN vals[x].items \in SUBSET Int /\ IsFiniteSet(DOMAIN vals[x].items)
    BY <2>1 DEF IsNode, JV_NULL, JV_OBJECT
  <2>3. ItemCount(x) \in Nat
    BY <2>2, FS_CardinalityType DEF ItemCount
  <2>4. \A k \in DOMAIN vals[x].items : vals[x].items[k] \in 1..(x - 1)
    BY <2>1 DEF IsNode
  <2>5. ASSUME vals[x].type = JV_ARRAY PROVE DOMAIN vals[x].items = 1..ItemCount(x)
    <3>1. PICK size \in 0..(x - 1) : DOMAIN vals[x].items = 1..size
      BY <2>1, <2>5 DEF IsNode
    <3>2. size \in Nat
      BY <2>1, <3>1
    <3>3. Cardinality(1..size) = IF 1 > size THEN 0 ELSE size - 1 + 1
      BY <3>2, FS_Interval
    <3>4. Cardinality(1..size) = size
      BY <3>2, <3>3
    <3> QED
      BY <3>1, <3>4 DEF ItemCount
  <2>6. \A k \in DOMAIN vals[x].items : vals[x].items[k] \in Values /\ vals[x].items[k] < x
    BY <1>1, <2>1, <2>4 DEF Values
  <2> QED
    BY <2>2, <2>3, <2>5, <2>6
<1> QED
  BY <1>1, <1>2 DEF Values

LEMMA LeastValue ==
  ASSUME IsTable(vals), NEW S \in SUBSET Values, S # {}
  PROVE  \E a \in S : a \in Values /\ a \in Nat /\ \A x \in Values : x < a => x \notin S
<1>1. S \in SUBSET Nat
  BY ItemsAre
<1>2. PICK a \in S : \A x \in S : a <= x
  BY <1>1, HasLeast
<1>3. \A x \in S : ~(x < a)
  BY <1>1, <1>2
<1> QED
  BY <1>1, <1>3

(* The i-th key of an object when they are sorted                          *)
Key(x, i) == SortedKeys(DOMAIN vals[x].items)[i]

LEMMA PairsAre ==
  ASSUME IsTable(vals), NEW a \in Values, NEW b \in Values
  PROVE  /\ vals[a].type = JV_ARRAY /\ vals[b].type = JV_ARRAY =>
              \A i \in 1..Lesser(ItemCount(a), ItemCount(b)) :
                /\ i \in DOMAIN vals[a].items /\ i \in DOMAIN vals[b].items
                /\ vals[a].items[i] \in Values /\ vals[a].items[i] < a
                /\ vals[b].items[i] \in Values /\ vals[b].items[i] < b
         /\ \A i \in 1..Lesser(ItemCount(a), ItemCount(b)) :
              /\ Key(a, i) \in DOMAIN vals[a].items /\ Key(b, i) \in DOMAIN vals[b].items
              /\ Key(a, i) \in Int /\ Key(b, i) \in Int
              /\ vals[a].items[Key(a, i)] \in Values /\ vals[a].items[Key(a, i)] < a
              /\ vals[b].items[Key(b, i)] \in Values /\ vals[b].items[Key(b, i)] < b
<1>1. \A i \in 1..Lesser(ItemCount(a), ItemCount(b)) : i \in 1..ItemCount(a) /\ i \in 1..ItemCount(b)
  BY ItemsAre DEF Lesser
<1>2. IsSorted(SortedKeys(DOMAIN vals[a].items), DOMAIN vals[a].items, ItemCount(a))
  BY ItemsAre, SortedAre DEF ItemCount
<1>3. IsSorted(SortedKeys(DOMAIN vals[b].items), DOMAIN vals[b].items, ItemCount(b))
  BY ItemsAre, SortedAre DEF ItemCount
<1>4. \A i \in 1..Lesser(ItemCount(a), ItemCount(b)) :
        Key(a, i) \in DOMAIN vals[a].items /\ Key(b, i) \in DOMAIN vals[b].items
  BY <1>1, <1>2, <1>3 DEF IsSorted, Key
<1> QED
  BY <1>1, <1>4, ItemsAre

-----------------------------------------------------------------------------
(* jvalue_compare asks itself about smaller values only.                *)

LEMMA CompareLocal ==
  ASSUME IsTable(vals), NEW a \in Values, NEW b \in Values, NEW f, NEW g,
         \A x, y \in Values : x < a /\ y < b => f[<<x, y>>] = g[<<x, y>>]
  PROVE  CompareBy(f, a, b) = CompareBy(g, a, b)
<1>1. ASSUME vals[a].type = JV_ARRAY, vals[b].type = JV_ARRAY
      PROVE  CompareArrays(f, a, b) = CompareArrays(g, a, b)
  <2>1. \A i \in 1..Lesser(ItemCount(a), ItemCount(b)) :
          f[<<vals[a].items[i], vals[b].items[i]>>] = g[<<vals[a].items[i], vals[b].items[i]>>]
    BY <1>1, PairsAre
  <2> QED
    BY <2>1, Zenon DEF CompareArrays
<1>2. CompareObjects(f, a, b) = CompareObjects(g, a, b)
  <2>1. \A i \in 1..Lesser(ItemCount(a), ItemCount(b)) :
          f[<<vals[a].items[Key(a, i)], vals[b].items[Key(b, i)]>>]
            = g[<<vals[a].items[Key(a, i)], vals[b].items[Key(b, i)]>>]
    BY PairsAre
  <2> QED
    BY <2>1, Zenon DEF CompareObjects, Key
<1> QED
  BY <1>1, <1>2 DEF CompareBy

LEMMA CompareExists ==
  ASSUME IsTable(vals)
  PROVE  \E f : f = [ab \in Values \X Values |-> CompareBy(f, ab[1], ab[2])]
<1> DEFINE Good(n) == \E f : f = [ab \in (1..n) \X (1..n) |-> CompareBy(f, ab[1], ab[2])]
           Bad == {n \in 0..Len(vals) : ~Good(n)}
<1>0. Len(vals) \in Nat
  BY ItemsAre
<1>1. SUFFICES ASSUME Bad # {} PROVE FALSE
  <2>1. CASE Good(Len(vals))
    BY <2>1, Zenon DEF Values
  <2>2. CASE ~Good(Len(vals))
    <3> HIDE DEF Good
    <3>1. Len(vals) \in Bad
      BY <1>0, <2>2
    <3> QED
      BY <3>1
  <2> QED
    BY <2>1, <2>2
<1> HIDE DEF Good
<1>2. Bad \in SUBSET Nat
  BY <1>0
<1>3. PICK n \in Bad : \A m \in Bad : n <= m
  <2> HIDE DEF Bad
  <2> QED
    BY <1>1, <1>2, HasLeast
<1>4. n # 0
  <2>1. Good(0)
    <3> DEFINE f == [ab \in (1..0) \X (1..0) |-> 0]
    <3>1. f = [ab \in (1..0) \X (1..0) |-> CompareBy(f, ab[1], ab[2])]
      OBVIOUS
    <3> QED
      BY <3>1 DEF Good
  <2> QED
    BY <2>1
<1>5. n - 1 \in Nat /\ n \in Nat /\ n <= Len(vals) /\ Good(n - 1)
  BY <1>0, <1>3, <1>4
<1>6. PICK f : f = [ab \in (1..(n - 1)) \X (1..(n - 1)) |-> CompareBy(f, ab[1], ab[2])]
  BY <1>5 DEF Good
<1> DEFINE g == [ab \in (1..n) \X (1..n) |-> CompareBy(f, ab[1], ab[2])]
<1>7. \A x, y \in 1..(n - 1) : f[<<x, y>>] = g[<<x, y>>]
  <2> TAKE x, y \in 1..(n - 1)
  <2>1. f[<<x, y>>] = CompareBy(f, x, y)
    BY <1>6
  <2>2. <<x, y>> \in (1..n) \X (1..n)
    BY <1>5
  <2> QED
    BY <2>1, <2>2
<1>8. \A a, b \in 1..n : g[<<a, b>>] = CompareBy(g, a, b)
  <2> TAKE a, b \in 1..n
  <2>1. a \in Values /\ b \in Values
    BY <1>0, <1>5 DEF Values
  <2>2. g[<<a, b>>] = CompareBy(f, a, b)
    OBVIOUS
  <2> HIDE DEF g
  <2>3. \A x, y \in Values : x < a /\ y < b => f[<<x, y>>] = g[<<x, y>>]
    BY <1>0, <1>5, <1>7 DEF Values
  <2>4. CompareBy(f, a, b) = CompareBy(g, a, b)
    BY <2>1, <2>3, CompareLocal
  <2> QED
    BY <2>2, <2>4
<1>9. g = [ab \in (1..n) \X (1..n) |-> CompareBy(g, ab[1], ab[2])]
  <2>1. \A ab \in (1..n) \X (1..n) : g[ab] = CompareBy(g, ab[1], ab[2])
    <3> TAKE ab \in (1..n) \X (1..n)
    <3>1. ab = <<ab[1], ab[2]>> /\ ab[1] \in 1..n /\ ab[2] \in 1..n
      OBVIOUS
    <3> HIDE DEF g
    <3> QED
      BY <1>8, <3>1
  <2> QED
    BY <2>1
<1>10. Good(n)
  BY <1>9 DEF Good
<1> QED
  BY <1>3, <1>10

LEMMA CompareIs ==
  ASSUME IsTable(vals)
  PROVE  \A a, b \in Values : CompareValues[<<a, b>>] = CompareBy(CompareValues, a, b)
<1>1. CompareValues = [ab \in Values \X Values |-> CompareBy(CompareValues, ab[1], ab[2])]
  BY CompareExists DEF CompareValues
<1> QED
  BY <1>1


-----------------------------------------------------------------------------
(* jvalue_equal asks itself about smaller values only.                  *)

LEMMA EqualLocal ==
  ASSUME IsTable(vals), NEW a \in Values, NEW b \in Values, NEW f, NEW g,
         \A x, y \in Values : x < a /\ y < b => f[<<x, y>>] = g[<<x, y>>]
  PROVE  EqualBy(f, a, b) = EqualBy(g, a, b)
<1>1. ASSUME vals[a].type = JV_ARRAY, vals[b].type = JV_ARRAY
      PROVE  EqualArrays(f, a, b) <=> EqualArrays(g, a, b)
  <2>1. ASSUME ItemCount(a) = ItemCount(b), NEW i \in 1..ItemCount(a)
        PROVE  f[<<vals[a].items[i], vals[b].items[i]>>] = g[<<vals[a].items[i], vals[b].items[i]>>]
    <3>1. i \in 1..Lesser(ItemCount(a), ItemCount(b))
      BY <2>1 DEF Lesser
    <3> QED
      BY <1>1, <3>1, PairsAre
  <2> QED
    BY <2>1 DEF EqualArrays
<1>2. EqualObjects(f, a, b) <=> EqualObjects(g, a, b)
  <2>1. ASSUME NEW k \in DOMAIN vals[a].items, k \in DOMAIN vals[b].items
        PROVE  f[<<vals[a].items[k], vals[b].items[k]>>] = g[<<vals[a].items[k], vals[b].items[k]>>]
    BY <2>1, ItemsAre
  <2> QED
    BY <2>1 DEF EqualObjects
<1> QED
  BY <1>1, <1>2 DEF EqualBy

LEMMA EqualExists ==
  ASSUME IsTable(vals)
  PROVE  \E f : f = [ab \in Values \X Values |-> EqualBy(f, ab[1], ab[2])]
<1> DEFINE Good(n) == \E f : f = [ab \in (1..n) \X (1..n) |-> EqualBy(f, ab[1], ab[2])]
           Bad == {n \in 0..Len(vals) : ~Good(n)}
<1>0. Len(vals) \in Nat
  BY ItemsAre
<1>1. SUFFICES ASSUME Bad # {} PROVE FALSE
  <2>1. CASE Good(Len(vals))
    BY <2>1, Zenon DEF Values
  <2>2. CASE ~Good(Len(vals))
    <3> HIDE DEF Good
    <3>1. Len(vals) \in Bad
      BY <1>0, <2>2
    <3> QED
      BY <3>1
  <2> QED
    BY <2>1, <2>2
<1> HIDE DEF Good
<1>2. Bad \in SUBSET Nat
  BY <1>0
<1>3. PICK n \in Bad : \A m \in Bad : n <= m
  <2> HIDE DEF Bad
  <2> QED
    BY <1>1, <1>2, HasLeast
<1>4. n # 0
  <2>1. Good(0)
    <3> DEFINE f == [ab \in (1..0) \X (1..0) |-> 0]
    <3>1. f = [ab \in (1..0) \X (1..0) |-> EqualBy(f, ab[1], ab[2])]
      OBVIOUS
    <3> QED
      BY <3>1 DEF Good
  <2> QED
    BY <2>1
<1>5. n - 1 \in Nat /\ n \in Nat /\ n <= Len(vals) /\ Good(n - 1)
  BY <1>0, <1>3, <1>4
<1>6. PICK f : f = [ab \in (1..(n - 1)) \X (1..(n - 1)) |-> EqualBy(f, ab[1], ab[2])]
  BY <1>5 DEF Good
<1> DEFINE g == [ab \in (1..n) \X (1..n) |-> EqualBy(f, ab[1], ab[2])]
<1>7. \A x, y \in 1..(n - 1) : f[<<x, y>>] = g[<<x, y>>]
  <2> TAKE x, y \in 1..(n - 1)
  <2>1. f[<<x, y>>] = EqualBy(f, x, y)
    BY <1>6
  <2>2. <<x, y>> \in (1..n) \X (1..n)
    BY <1>5
  <2> QED
    BY <2>1, <2>2
<1>8. \A a, b \in 1..n : g[<<a, b>>] = EqualBy(g, a, b)
  <2> TAKE a, b \in 1..n
  <2>1. a \in Values /\ b \in Values
    BY <1>0, <1>5 DEF Values
  <2>2. g[<<a, b>>] = EqualBy(f, a, b)
    OBVIOUS
  <2> HIDE DEF g
  <2>3. \A x, y \in Values : x < a /\ y < b => f[<<x, y>>] = g[<<x, y>>]
    BY <1>0, <1>5, <1>7 DEF Values
  <2>4. EqualBy(f, a, b) = EqualBy(g, a, b)
    BY <2>1, <2>3, EqualLocal
  <2> QED
    BY <2>2, <2>4
<1>9. g = [ab \in (1..n) \X (1..n) |-> EqualBy(g, ab[1], ab[2])]
  <2>1. \A ab \in (1..n) \X (1..n) : g[ab] = EqualBy(g, ab[1], ab[2])
    <3> TAKE ab \in (1..n) \X (1..n)
    <3>1. ab = <<ab[1], ab[2]>> /\ ab[1] \in 1..n /\ ab[2] \in 1..n
      OBVIOUS
    <3> HIDE DEF g
    <3> QED
      BY <1>8, <3>1
  <2> QED
    BY <2>1
<1>10. Good(n)
  BY <1>9 DEF Good
<1> QED
  BY <1>3, <1>10

LEMMA EqualIs ==
  ASSUME IsTable(vals)
  PROVE  \A a, b \in Values : EqualValues[<<a, b>>] = EqualBy(EqualValues, a, b)
<1>1. EqualValues = [ab \in Values \X Values |-> EqualBy(EqualValues, ab[1], ab[2])]
  BY EqualExists DEF EqualValues
<1> QED
  BY <1>1

-----------------------------------------------------------------------------
(* The laws, from those for what containers hold                           *)

ArrayResult(a, b) ==
  [i \in 1..Lesser(ItemCount(a), ItemCount(b)) |-> CompareValues[<<vals[a].items[i], vals[b].items[i]>>]]

ObjectResult(a, b) ==
  [i \in 1..Lesser(ItemCount(a), ItemCount(b)) |->
     IF Key(a, i) - Key(b, i) # 0 THEN Key(a, i) - Key(b, i)
     ELSE CompareValues[<<vals[a].items[Key(a, i)], vals[b].items[Key(b, i)]>>]]

LEMMA CompareCases ==
  ASSUME IsTable(vals), NEW a \in Values, NEW b \in Values
  PROVE  /\ a = b => CompareValues[<<a, b>>] = 0
         /\ a # b =>
              /\ vals[a].type # vals[b].type =>
                   CompareValues[<<a, b>>] = vals[a].type - vals[b].type
              /\ vals[a].type = vals[b].type =>
                   /\ vals[a].type = JV_NUM =>
                        CompareValues[<<a, b>>] = CompareNumbers(vals[a], vals[b])
                   /\ vals[a].type = JV_ARRAY =>
                        CompareValues[<<a, b>>] = Lexicographic(ArrayResult(a, b), ItemCount(a), ItemCount(b))
                   /\ vals[a].type = JV_OBJECT =>
                        CompareValues[<<a, b>>] = Lexicographic(ObjectResult(a, b), ItemCount(a), ItemCount(b))
                   /\ vals[a].type \notin {JV_NUM, JV_ARRAY, JV_OBJECT} =>
                        CompareValues[<<a, b>>] = vals[a].rank - vals[b].rank
<1>1. CompareValues[<<a, b>>] = CompareBy(CompareValues, a, b)
  BY CompareIs
<1>2. CompareArrays(CompareValues, a, b) = Lexicographic(ArrayResult(a, b), ItemCount(a), ItemCount(b))
  BY Zenon DEF CompareArrays, ArrayResult
<1>3. CompareObjects(CompareValues, a, b) = Lexicographic(ObjectResult(a, b), ItemCount(a), ItemCount(b))
  BY Zenon DEF CompareObjects, ObjectResult, CompareStrings, Key
<1> QED
  BY <1>1, <1>2, <1>3 DEF CompareBy, CompareStrings, JV_NUM, JV_ARRAY, JV_OBJECT

LEMMA NumbersAre ==
  ASSUME IsTable(vals), NEW a \in Values, vals[a].type = JV_NUM
  PROVE  /\ vals[a].rank \in Ranks /\ vals[a].rank \in Int /\ vals[a].float \in BOOLEAN
         /\ AsDouble[vals[a].rank] \in Int
         /\ vals[a].float => AsDouble[vals[a].rank] = vals[a].rank
<1>1. a \in 1..Len(vals) /\ IsNode(vals[a], a)
  BY DEF IsTable, Values
<1>2. vals[a].rank \in Ranks /\ vals[a].float \in BOOLEAN
      /\ (vals[a].float => AsDouble[vals[a].rank] = vals[a].rank)
  BY <1>1 DEF IsNode
<1> QED
  BY <1>2, RoundingAssumption

(* Numbers compare one way or the other, and as they are unless blurred:   *)
(* rounding is monotone and leaves doubles alone.                          *)
LEMMA NumbersCompare ==
  ASSUME IsTable(vals), NEW a \in Values, NEW b \in Values,
         vals[a].type = JV_NUM, vals[b].type = JV_NUM
  PROVE  /\ CompareNumbers(vals[a], vals[b]) \in Int
         /\ Opposite(CompareNumbers(vals[a], vals[b]), CompareNumbers(vals[b], vals[a]))
         /\ ~Blurred(a, b) =>
              CompareNumbers(vals[a], vals[b]) = CompareRanks(vals[a].rank, vals[b].rank)
<1> DEFINE m == vals[a].rank
           n == vals[b].rank
<1>1. /\ m \in Ranks /\ m \in Int /\ AsDouble[m] \in Int /\ vals[a].float \in BOOLEAN
      /\ n \in Ranks /\ n \in Int /\ AsDouble[n] \in Int /\ vals[b].float \in BOOLEAN
      /\ vals[a].float => AsDouble[m] = m
      /\ vals[b].float => AsDouble[n] = n
  BY NumbersAre
<1>2. CASE vals[a].float = vals[b].float
  <2>1. /\ CompareNumbers(vals[a], vals[b]) = CompareRanks(m, n)
        /\ CompareNumbers(vals[b], vals[a]) = CompareRanks(n, m)
    BY <1>2 DEF CompareNumbers
  <2> QED
    BY <1>1, <2>1 DEF CompareRanks, Opposite
<1>3. CASE vals[a].float # vals[b].float
  <2>1. /\ CompareNumbers(vals[a], vals[b]) = CompareRanks(AsDouble[m], AsDouble[n])
        /\ CompareNumbers(vals[b], vals[a]) = CompareRanks(AsDouble[n], AsDouble[m])
    BY <1>3 DEF CompareNumbers
  <2>2. /\ m <= n => AsDouble[m] <= AsDouble[n]
        /\ n <= m => AsDouble[n] <= AsDouble[m]
    BY <1>1, RoundingAssumption
  <2>3. ~Blurred(a, b) => m = n \/ AsDouble[m] # AsDouble[n]
    BY <1>1, <2>1 DEF Blurred, CompareRanks
  <2>4. /\ CompareRanks(AsDouble[m], AsDouble[n]) \in Int
        /\ Opposite(CompareRanks(AsDouble[m], AsDouble[n]), CompareRanks(AsDouble[n], AsDouble[m]))
    BY <1>1 DEF CompareRanks, Opposite
  <2>5. ~Blurred(a, b) => CompareRanks(AsDouble[m], AsDouble[n]) = CompareRanks(m, n)
    BY <1>1, <2>2, <2>3 DEF CompareRanks
  <2> QED
    BY <2>1, <2>4, <2>5
<1> QED
  BY <1>2, <1>3

LEMMA CompareInt ==
  ASSUME IsTable(vals)
  PROVE  \A a, b \in Values : CompareValues[<<a, b>>] \in Int
<1> DEFINE Bad == {a \in Values : \E b \in Values : CompareValues[<<a, b>>] \notin Int}
<1>1. SUFFICES ASSUME Bad # {} PROVE FALSE
  OBVIOUS
<1>2. Bad \in SUBSET Values
  OBVIOUS
<1>3. PICK a \in Bad : a \in Values /\ a \in Nat /\ \A x \in Values : x < a => x \notin Bad
  <2> HIDE DEF Bad
  <2> QED
    BY <1>1, <1>2, LeastValue
<1>4. PICK b \in Values : CompareValues[<<a, b>>] \notin Int
  OBVIOUS
<1>5. a \in Values /\ a \in Nat
  BY <1>3
<1>6. \A x, y \in Values : x < a => CompareValues[<<x, y>>] \in Int
  BY <1>3
<1> HIDE DEF Bad
<1>7. CASE a # b /\ vals[a].type = vals[b].type /\ vals[a].type = JV_ARRAY
  <2>1. \A i \in 1..Lesser(ItemCount(a), ItemCount(b)) : ArrayResult(a, b)[i] \in Int
    BY <1>5, <1>6, <1>7, PairsAre DEF ArrayResult
  <2>2. Lexicographic(ArrayResult(a, b), ItemCount(a), ItemCount(b)) \in Int
    BY <1>5, <2>1, ItemsAre, LexInt
  <2> QED
    BY <1>4, <1>5, <1>7, <2>2, CompareCases
<1>8. CASE a # b /\ vals[a].type = vals[b].type /\ vals[a].type = JV_OBJECT
  <2>1. ASSUME NEW i \in 1..Lesser(ItemCount(a), ItemCount(b)) PROVE ObjectResult(a, b)[i] \in Int
    <3>1. /\ Key(a, i) \in Int /\ Key(b, i) \in Int
          /\ CompareValues[<<vals[a].items[Key(a, i)], vals[b].items[Key(b, i)]>>] \in Int
      BY <1>5, <1>6, PairsAre
    <3> QED
      BY <3>1 DEF ObjectResult
  <2>2. Lexicographic(ObjectResult(a, b), ItemCount(a), ItemCount(b)) \in Int
    BY <1>5, <2>1, ItemsAre, LexInt
  <2> QED
    BY <1>4, <1>5, <1>8, <2>2, CompareCases
<1>9. CASE a = b
  BY <1>4, <1>5, <1>9, CompareCases
<1>10. CASE a # b /\ vals[a].type # vals[b].type
  <2>1. CompareValues[<<a, b>>] = vals[a].type - vals[b].type
    BY <1>5, <1>10, CompareCases
  <2>2. vals[a].type \in 0..5 /\ vals[b].type \in 0..5
    BY <1>5, ItemsAre
  <2> QED
    BY <1>4, <2>1, <2>2
<1>11. CASE a # b /\ vals[a].type = vals[b].type /\ vals[a].type \notin {JV_ARRAY, JV_OBJECT}
  <2>1. CASE vals[a].type = JV_NUM
    BY <1>4, <1>5, <1>11, <2>1, CompareCases, NumbersCompare
  <2>2. CASE vals[a].type # JV_NUM
    <3>1. CompareValues[<<a, b>>] = vals[a].rank - vals[b].rank
      BY <1>5, <1>11, <2>2, CompareCases
    <3>2. vals[a].rank \in Int /\ vals[b].rank \in Int
      BY <1>5, ItemsAre
    <3> QED
      BY <1>4, <3>1, <3>2
  <2> QED
    BY <2>1, <2>2
<1> QED
  BY <1>7, <1>8, <1>9, <1>10, <1>11

LEMMA Antisymmetric ==
  ASSUME IsTable(vals)
  PROVE  \A a, b \in Values : Opposite(CompareValues[<<a, b>>], CompareValues[<<b, a>>])
<1> DEFINE Bad == {a \in Values : \E b \in Values : ~Opposite(CompareValues[<<a, b>>], CompareValues[<<b, a>>])}
<1>1. SUFFICES ASSUME Bad # {} PROVE FALSE
  OBVIOUS
<1>2. Bad \in SUBSET Values
  OBVIOUS
<1>3. PICK a \in Bad : a \in Values /\ a \in Nat /\ \A x \in Values : x < a => x \notin Bad
  <2> HIDE DEF Bad
  <2> QED
    BY <1>1, <1>2, LeastValue
<1>4. PICK b \in Values : ~Opposite(CompareValues[<<a, b>>], CompareValues[<<b, a>>])
  OBVIOUS
<1>5. a \in Values /\ a \in Nat
  BY <1>3
<1>6. \A x, y \in Values : x < a => Opposite(CompareValues[<<x, y>>], CompareValues[<<y, x>>])
  BY <1>3
<1> HIDE DEF Bad
<1>7. Lesser(ItemCount(b), ItemCount(a)) = Lesser(ItemCount(a), ItemCount(b))
  BY <1>5, ItemsAre DEF Lesser
<1>8. CASE a # b /\ vals[a].type = vals[b].type /\ vals[a].type = JV_ARRAY
  <2>1. \A i \in 1..Lesser(ItemCount(a), ItemCount(b)) :
          /\ ArrayResult(a, b)[i] \in Int /\ ArrayResult(b, a)[i] \in Int
          /\ Opposite(ArrayResult(a, b)[i], ArrayResult(b, a)[i])
    BY <1>5, <1>6, <1>7, <1>8, PairsAre, CompareInt DEF ArrayResult
  <2>2. Opposite(Lexicographic(ArrayResult(a, b), ItemCount(a), ItemCount(b)),
                 Lexicographic(ArrayResult(b, a), ItemCount(b), ItemCount(a)))
    BY <1>5, <2>1, ItemsAre, LexOpposite
  <2> QED
    BY <1>4, <1>5, <1>8, <2>2, CompareCases
<1>9. CASE a # b /\ vals[a].type = vals[b].type /\ vals[a].type = JV_OBJECT
  <2>1. ASSUME NEW i \in 1..Lesser(ItemCount(a), ItemCount(b))
        PROVE  /\ ObjectResult(a, b)[i] \in Int /\ ObjectResult(b, a)[i] \in Int
               /\ Opposite(ObjectResult(a, b)[i], ObjectResult(b, a)[i])
    <3>1. /\ Key(a, i) \in Int /\ Key(b, i) \in Int
          /\ vals[a].items[Key(a, i)] \in Values /\ vals[a].items[Key(a, i)] < a
          /\ vals[b].items[Key(b, i)] \in Values
      BY <1>5, PairsAre
    <3>2. PICK x, y : x = vals[a].items[Key(a, i)] /\ y = vals[b].items[Key(b, i)]
      OBVIOUS
    <3>3. /\ CompareValues[<<x, y>>] \in Int /\ CompareValues[<<y, x>>] \in Int
          /\ Opposite(CompareValues[<<x, y>>], CompareValues[<<y, x>>])
      BY <1>6, <3>1, <3>2, CompareInt
    <3>4. /\ ObjectResult(a, b)[i] = IF Key(a, i) - Key(b, i) # 0 THEN Key(a, i) - Key(b, i)
                                     ELSE CompareValues[<<x, y>>]
          /\ ObjectResult(b, a)[i] = IF Key(b, i) - Key(a, i) # 0 THEN Key(b, i) - Key(a, i)
                                     ELSE CompareValues[<<y, x>>]
      BY <1>7, <3>2 DEF ObjectResult
    <3> QED
      BY <3>1, <3>3, <3>4 DEF Opposite
  <2>2. Opposite(Lexicographic(ObjectResult(a, b), ItemCount(a), ItemCount(b)),
                 Lexicographic(ObjectResult(b, a), ItemCount(b), ItemCount(a)))
    BY <1>5, <2>1, ItemsAre, LexOpposite
  <2> QED
    BY <1>4, <1>5, <1>9, <2>2, CompareCases
<1>10. CASE a = b
  BY <1>4, <1>5, <1>10, CompareCases DEF Opposite
<1>11. CASE a # b /\ vals[a].type # vals[b].type
  <2>1. /\ CompareValues[<<a, b>>] = vals[a].type - vals[b].type
        /\ CompareValues[<<b, a>>] = vals[b].type - vals[a].type
    BY <1>5, <1>11, CompareCases
  <2>2. vals[a].type \in 0..5 /\ vals[b].type \in 0..5
    BY <1>5, ItemsAre
  <2> QED
    BY <1>4, <2>1, <2>2 DEF Opposite
<1>12. CASE a # b /\ vals[a].type = vals[b].type /\ vals[a].type \notin {JV_ARRAY, JV_OBJECT}
  <2>1. CASE vals[a].type = JV_NUM
    <3>1. /\ CompareValues[<<a, b>>] = CompareNumbers(vals[a], vals[b])
          /\ CompareValues[<<b, a>>] = CompareNumbers(vals[b], vals[a])
      BY <1>5, <1>12, <2>1, CompareCases
    <3> QED
      BY <1>4, <1>5, <1>12, <2>1, <3>1, NumbersCompare
  <2>2. CASE vals[a].type # JV_NUM
    <3>1. /\ CompareValues[<<a, b>>] = vals[a].rank - vals[b].rank
          /\ CompareValues[<<b, a>>] = vals[b].rank - vals[a].rank
      BY <1>5, <1>12, <2>2, CompareCases
    <3>2. vals[a].rank \in Int /\ vals[b].rank \in Int
      BY <1>5, ItemsAre
    <3> QED
      BY <1>4, <3>1, <3>2 DEF Opposite
  <2> QED
    BY <2>1, <2>2
<1> QED
  BY <1>8, <1>9, <1>10, <1>11, <1>12

-----------------------------------------------------------------------------
(* What can be reached                                                     *)

BelowBy(f, x) == {x} \cup UNION {f[y] : y \in HeldBy(x)}

LEMMA HeldAre ==
  ASSUME IsTable(vals)
  PROVE  \A x \in Values : \A y \in HeldBy(x) : y \in Values /\ y < x
BY ItemsAre DEF HeldBy

LEMMA BelowLocal ==
  ASSUME IsTable(vals), NEW x \in Values, NEW f, NEW g,
         \A y \in Values : y < x => f[y] = g[y]
  PROVE  BelowBy(f, x) = BelowBy(g, x)
<1>1. \A y \in HeldBy(x) : f[y] = g[y]
  BY HeldAre
<1> QED
  BY <1>1 DEF BelowBy

LEMMA BelowExists ==
  ASSUME IsTable(vals)
  PROVE  \E f : f = [x \in Values |-> BelowBy(f, x)]
<1> DEFINE Good(n) == \E f : f = [x \in 1..n |-> BelowBy(f, x)]
           Bad == {n \in 0..Len(vals) : ~Good(n)}
<1>0. Len(vals) \in Nat
  BY ItemsAre
<1>1. SUFFICES ASSUME Bad # {} PROVE FALSE
  <2>1. CASE Good(Len(vals))
    BY <2>1, Zenon DEF Values
  <2>2. CASE ~Good(Len(vals))
    <3> HIDE DEF Good
    <3>1. Len(vals) \in Bad
      BY <1>0, <2>2
    <3> QED
      BY <3>1
  <2> QED
    BY <2>1, <2>2
<1> HIDE DEF Good
<1>2. Bad \in SUBSET Nat
  BY <1>0
<1>3. PICK n \in Bad : \A m \in Bad : n <= m
  <2> HIDE DEF Bad
  <2> QED
    BY <1>1, <1>2, HasLeast
<1>4. n # 0
  <2>1. Good(0)
    <3> DEFINE f == [x \in 1..0 |-> 0]
    <3>1. f = [x \in 1..0 |-> BelowBy(f, x)]
      OBVIOUS
    <3> QED
      BY <3>1 DEF Good
  <2> QED
    BY <2>1
<1>5. n - 1 \in Nat /\ n \in Nat /\ n <= Len(vals) /\ Good(n - 1)
  BY <1>0, <1>3, <1>4
<1>6. PICK f : f = [x \in 1..(n - 1) |-> BelowBy(f, x)]
  BY <1>5 DEF Good
<1> DEFINE g == [x \in 1..n |-> BelowBy(f, x)]
<1>7. \A y \in 1..(n - 1) : f[y] = g[y]
  <2> TAKE y \in 1..(n - 1)
  <2>1. f[y] = BelowBy(f, y)
    BY <1>6
  <2>2. y \in 1..n
    BY <1>5
  <2> QED
    BY <2>1, <2>2
<1>8. \A x \in 1..n : g[x] = BelowBy(g, x)
  <2> TAKE x \in 1..n
  <2>1. x \in Values
    BY <1>0, <1>5 DEF Values
  <2>2. g[x] = BelowBy(f, x)
    OBVIOUS
  <2> HIDE DEF g
  <2>3. \A y \in Values : y < x => f[y] = g[y]
    BY <1>0, <1>5, <1>7 DEF Values
  <2>4. BelowBy(f, x) = BelowBy(g, x)
    BY <2>1, <2>3, BelowLocal
  <2> QED
    BY <2>2, <2>4
<1>9. g = [x \in 1..n |-> BelowBy(g, x)]
  BY <1>8
<1>10. Good(n)
  BY <1>9 DEF Good
<1> QED
  BY <1>3, <1>10

LEMMA BelowIs ==
  ASSUME IsTable(vals)
  PROVE  \A x \in Values : Below[x] = {x} \cup UNION {Below[y] : y \in HeldBy(x)}
<1>1. \E f : f = [x \in Values |-> {x} \cup UNION {f[y] : y \in HeldBy(x)}]
  BY BelowExists DEF BelowBy
<1>2. Below = [x \in Values |-> {x} \cup UNION {Below[y] : y \in HeldBy(x)}]
  BY <1>1 DEF Below
<1> QED
  BY <1>2

(* What is reached from x is there, x among it, and is closed: it holds    *)
(* nothing that is not reached as well.                                    *)
LEMMA BelowClosed ==
  ASSUME IsTable(vals)
  PROVE  \A x \in Values :
           /\ x \in Below[x] /\ Below[x] \in SUBSET (1..x)
           /\ \A y \in HeldBy(x) : Below[y] \in SUBSET Below[x]
           /\ \A y \in Below[x] : HeldBy(y) \in SUBSET Below[x]
<1> DEFINE Good(x) == /\ Below[x] \in SUBSET (1..x)
                      /\ \A y \in Below[x] : HeldBy(y) \in SUBSET Below[x]
           Bad == {x \in Values : ~Good(x)}
<1>0. \A x \in Values : x \in Below[x] /\ \A y \in HeldBy(x) : Below[y] \in SUBSET Below[x]
  BY BelowIs
<1>1. SUFFICES ASSUME Bad # {} PROVE FALSE
  BY <1>0
<1>2. Bad \in SUBSET Values
  OBVIOUS
<1> HIDE DEF Good
<1>3. PICK x \in Bad : x \in Values /\ x \in Nat /\ \A y \in Values : y < x => y \notin Bad
  <2> HIDE DEF Bad
  <2> QED
    BY <1>1, <1>2, LeastValue
<1>4. x \in Values /\ x \in Nat /\ x >= 1 /\ \A y \in HeldBy(x) : y \in Values /\ y \in Nat /\ y < x /\ Good(y)
  BY <1>3, HeldAre, ItemsAre DEF Values
<1>5. \A z \in Below[x] : z = x \/ \E y \in HeldBy(x) : z \in Below[y]
  BY <1>4, BelowIs
<1>6. Below[x] \in SUBSET (1..x)
  <2> SUFFICES ASSUME NEW z \in Below[x] PROVE z \in 1..x
    OBVIOUS
  <2>1. CASE z = x
    BY <1>4, <2>1
  <2>2. ASSUME NEW y \in HeldBy(x), z \in Below[y] PROVE z \in 1..x
    BY <1>4, <2>2 DEF Good
  <2> QED
    BY <1>5, <2>1, <2>2
<1>7. ASSUME NEW z \in Below[x] PROVE HeldBy(z) \in SUBSET Below[x]
  <2>1. CASE z = x
    BY <1>0, <1>4, <2>1
  <2>2. ASSUME NEW y \in HeldBy(x), z \in Below[y] PROVE HeldBy(z) \in SUBSET Below[x]
    BY <1>0, <1>4, <2>2 DEF Good
  <2> QED
    BY <1>5, <1>7, <2>1, <2>2
<1> QED
  BY <1>3, <1>6, <1>7 DEF Good

-----------------------------------------------------------------------------
(* The order of what is not blurred                                        *)

AllSharp(a, b, c) == Sharp(Below[a] \cup Below[b] \cup Below[c])

LEMMA SharpHeld ==
  ASSUME IsTable(vals), NEW a \in Values, NEW b \in Values, NEW c \in Values, AllSharp(a, b, c)
  PROVE  /\ ~Blurred(a, b) /\ ~Blurred(b, c) /\ ~Blurred(a, c)
         /\ \A x \in HeldBy(a), y \in HeldBy(b), z \in HeldBy(c) : AllSharp(x, y, z)
<1>1. a \in Below[a] /\ b \in Below[b] /\ c \in Below[c]
  BY BelowClosed
<1>2. ASSUME NEW x \in HeldBy(a), NEW y \in HeldBy(b), NEW z \in HeldBy(c)
      PROVE  AllSharp(x, y, z)
  <2>1. /\ Below[x] \in SUBSET Below[a] /\ Below[y] \in SUBSET Below[b]
        /\ Below[z] \in SUBSET Below[c]
    BY BelowClosed
  <2> QED
    BY <2>1 DEF AllSharp, Sharp
<1> QED
  BY <1>1, <1>2 DEF AllSharp, Sharp

LEMMA Transitive ==
  ASSUME IsTable(vals)
  PROVE  \A a, b, c \in Values :
           AllSharp(a, b, c) =>
             Follows(CompareValues[<<a, b>>], CompareValues[<<b, c>>], CompareValues[<<a, c>>])
<1> DEFINE Holds(a, b, c) == AllSharp(a, b, c) => Follows(CompareValues[<<a, b>>], CompareValues[<<b, c>>], CompareValues[<<a, c>>])
           Bad == {a \in Values : \E b, c \in Values : ~Holds(a, b, c)}
<1>1. SUFFICES ASSUME Bad # {} PROVE FALSE
  OBVIOUS
<1>2. Bad \in SUBSET Values
  OBVIOUS
<1>3. PICK a \in Bad : a \in Values /\ a \in Nat /\ \A x \in Values : x < a => x \notin Bad
  <2> HIDE DEF Bad
  <2> QED
    BY <1>1, <1>2, LeastValue
<1>4. PICK b \in Values, c \in Values : ~Holds(a, b, c)
  OBVIOUS
<1>5. a \in Values
  BY <1>3
<1>6. \A x, y, z \in Values : x < a /\ AllSharp(x, y, z) =>
        Follows(CompareValues[<<x, y>>], CompareValues[<<y, z>>], CompareValues[<<x, z>>])
  BY <1>3
<1>0. /\ ~Follows(CompareValues[<<a, b>>], CompareValues[<<b, c>>], CompareValues[<<a, c>>])
      /\ ~Blurred(a, b) /\ ~Blurred(b, c) /\ ~Blurred(a, c)
      /\ \A x \in HeldBy(a), y \in HeldBy(b), z \in HeldBy(c) : AllSharp(x, y, z)
  BY <1>4, <1>5, SharpHeld
<1> HIDE DEF Bad
<1>7. /\ CompareValues[<<a, b>>] \in Int /\ CompareValues[<<b, c>>] \in Int /\ CompareValues[<<a, c>>] \in Int
      /\ CompareValues[<<b, a>>] \in Int
  BY <1>5, CompareInt
<1>8. CASE a = b \/ b = c \/ a = c
  <2>1. CompareValues[<<a, a>>] = 0 /\ CompareValues[<<b, b>>] = 0
    BY <1>5, CompareCases
  <2>2. Opposite(CompareValues[<<a, b>>], CompareValues[<<b, a>>])
    BY <1>5, Antisymmetric
  <2>3. CASE a = b
    BY <1>0, <1>7, <2>1, <2>3 DEF Follows
  <2>4. CASE b = c
    BY <1>0, <1>7, <2>1, <2>4 DEF Follows
  <2>5. CASE a = c
    BY <1>0, <1>7, <2>1, <2>2, <2>5 DEF Follows, Opposite
  <2> QED
    BY <1>8, <2>3, <2>4, <2>5
<1>9. /\ vals[a].type \in 0..5 /\ vals[b].type \in 0..5 /\ vals[c].type \in 0..5
      /\ vals[a].rank \in Int /\ vals[b].rank \in Int /\ vals[c].rank \in Int
      /\ ItemCount(a) \in Nat /\ ItemCount(b) \in Nat /\ ItemCount(c) \in Nat
  BY <1>5, ItemsAre
<1>10. CASE /\ a # b /\ b # c /\ a # c
            /\ ~(vals[a].type = vals[b].type /\ vals[b].type = vals[c].type)
  <2>1. /\ vals[a].type # vals[b].type => CompareValues[<<a, b>>] = vals[a].type - vals[b].type
        /\ vals[b].type # vals[c].type => CompareValues[<<b, c>>] = vals[b].type - vals[c].type
        /\ vals[a].type # vals[c].type => CompareValues[<<a, c>>] = vals[a].type - vals[c].type
    BY <1>5, <1>10, CompareCases
  <2> QED
    BY <1>0, <1>9, <1>10, <2>1 DEF Follows
<1>11. CASE /\ a # b /\ b # c /\ a # c
            /\ vals[a].type = vals[b].type /\ vals[b].type = vals[c].type
            /\ vals[a].type \notin {JV_ARRAY, JV_OBJECT}
  <2>1. CASE vals[a].type = JV_NUM
    <3>1. /\ CompareValues[<<a, b>>] = CompareRanks(vals[a].rank, vals[b].rank)
          /\ CompareValues[<<b, c>>] = CompareRanks(vals[b].rank, vals[c].rank)
          /\ CompareValues[<<a, c>>] = CompareRanks(vals[a].rank, vals[c].rank)
      BY <1>0, <1>5, <1>11, <2>1, CompareCases, NumbersCompare
    <3> QED
      BY <1>0, <1>9, <3>1 DEF Follows, CompareRanks
  <2>2. CASE vals[a].type # JV_NUM
    <3>1. /\ CompareValues[<<a, b>>] = vals[a].rank - vals[b].rank
          /\ CompareValues[<<b, c>>] = vals[b].rank - vals[c].rank
          /\ CompareValues[<<a, c>>] = vals[a].rank - vals[c].rank
      BY <1>5, <1>11, <2>2, CompareCases
    <3> QED
      BY <1>0, <1>9, <3>1 DEF Follows
  <2> QED
    BY <2>1, <2>2
<1>12. CASE /\ a # b /\ b # c /\ a # c
            /\ vals[a].type = vals[b].type /\ vals[b].type = vals[c].type
            /\ vals[a].type = JV_ARRAY
  <2>1. /\ \A i \in 1..Lesser(ItemCount(a), ItemCount(b)) : ArrayResult(a, b)[i] \in Int
        /\ \A i \in 1..Lesser(ItemCount(b), ItemCount(c)) : ArrayResult(b, c)[i] \in Int
        /\ \A i \in 1..Lesser(ItemCount(a), ItemCount(c)) : ArrayResult(a, c)[i] \in Int
    BY <1>5, <1>12, PairsAre, CompareInt DEF ArrayResult
  <2>2. ASSUME NEW i \in 1..Lesser(ItemCount(a), ItemCount(b)), i <= ItemCount(c)
        PROVE  Follows(ArrayResult(a, b)[i], ArrayResult(b, c)[i], ArrayResult(a, c)[i])
    <3>1. i \in 1..Lesser(ItemCount(b), ItemCount(c)) /\ i \in 1..Lesser(ItemCount(a), ItemCount(c))
      BY <1>9, <2>2 DEF Lesser
    <3>2. /\ vals[a].items[i] \in Values /\ vals[a].items[i] < a
          /\ vals[b].items[i] \in Values /\ vals[c].items[i] \in Values
      BY <1>5, <1>12, <3>1, PairsAre
    <3>3. AllSharp(vals[a].items[i], vals[b].items[i], vals[c].items[i])
      <4>1. i \in DOMAIN vals[a].items /\ i \in DOMAIN vals[b].items /\ i \in DOMAIN vals[c].items
        BY <1>5, <1>12, <3>1, PairsAre
      <4> QED
        BY <1>0, <4>1 DEF HeldBy
    <3> QED
      BY <1>6, <3>1, <3>2, <3>3 DEF ArrayResult
  <2>3. Follows(Lexicographic(ArrayResult(a, b), ItemCount(a), ItemCount(b)),
                Lexicographic(ArrayResult(b, c), ItemCount(b), ItemCount(c)),
                Lexicographic(ArrayResult(a, c), ItemCount(a), ItemCount(c)))
    BY <1>9, <2>1, <2>2, LexTransitive
  <2> QED
    BY <1>0, <1>5, <1>12, <2>3, CompareCases
<1>13. CASE /\ a # b /\ b # c /\ a # c
            /\ vals[a].type = vals[b].type /\ vals[b].type = vals[c].type
            /\ vals[a].type = JV_OBJECT
  <2>1. \A x, y \in Values : \A i \in 1..Lesser(ItemCount(x), ItemCount(y)) : ObjectResult(x, y)[i] \in Int
    <3> TAKE x, y \in Values
    <3> TAKE i \in 1..Lesser(ItemCount(x), ItemCount(y))
    <3>1. /\ Key(x, i) \in Int /\ Key(y, i) \in Int
          /\ CompareValues[<<vals[x].items[Key(x, i)], vals[y].items[Key(y, i)]>>] \in Int
      BY PairsAre, CompareInt
    <3> QED
      BY <3>1 DEF ObjectResult
  <2>2. ASSUME NEW i \in 1..Lesser(ItemCount(a), ItemCount(b)), i <= ItemCount(c)
        PROVE  Follows(ObjectResult(a, b)[i], ObjectResult(b, c)[i], ObjectResult(a, c)[i])
    <3>1. i \in 1..Lesser(ItemCount(b), ItemCount(c)) /\ i \in 1..Lesser(ItemCount(a), ItemCount(c))
      BY <1>9, <2>2 DEF Lesser
    <3>2. PICK x, y, z : /\ x = vals[a].items[Key(a, i)] /\ y = vals[b].items[Key(b, i)]
                         /\ z = vals[c].items[Key(c, i)]
      OBVIOUS
    <3>3. /\ x \in Values /\ x < a /\ y \in Values /\ z \in Values
          /\ Key(a, i) \in Int /\ Key(b, i) \in Int /\ Key(c, i) \in Int
      BY <1>5, <3>1, <3>2, PairsAre
    <3>6. AllSharp(x, y, z)
      <4>1. /\ Key(a, i) \in DOMAIN vals[a].items /\ Key(b, i) \in DOMAIN vals[b].items
            /\ Key(c, i) \in DOMAIN vals[c].items
        BY <1>5, <3>1, PairsAre
      <4> QED
        BY <1>0, <3>2, <4>1 DEF HeldBy
    <3>4. /\ Follows(CompareValues[<<x, y>>], CompareValues[<<y, z>>], CompareValues[<<x, z>>])
          /\ CompareValues[<<x, y>>] \in Int /\ CompareValues[<<y, z>>] \in Int /\ CompareValues[<<x, z>>] \in Int
      BY <1>6, <3>3, <3>6, CompareInt
    <3>5. /\ ObjectResult(a, b)[i] = IF Key(a, i) - Key(b, i) # 0 THEN Key(a, i) - Key(b, i)
                                     ELSE CompareValues[<<x, y>>]
          /\ ObjectResult(b, c)[i] = IF Key(b, i) - Key(c, i) # 0 THEN Key(b, i) - Key(c, i)
                                     ELSE CompareValues[<<y, z>>]
          /\ ObjectResult(a, c)[i] = IF Key(a, i) - Key(c, i) # 0 THEN Key(a, i) - Key(c, i)
                                     ELSE CompareValues[<<x, z>>]
      BY <3>1, <3>2 DEF ObjectResult
    <3> QED
      BY <3>3, <3>4, <3>5 DEF Follows
  <2>3. Follows(Lexicographic(ObjectResult(a, b), ItemCount(a), ItemCount(b)),
                Lexicographic(ObjectResult(b, c), ItemCount(b), ItemCount(c)),
                Lexicographic(ObjectResult(a, c), ItemCount(a), ItemCount(c)))
    BY <1>5, <1>9, <2>1, <2>2, LexTransitive
  <2> QED
    BY <1>0, <1>5, <1>13, <2>3, CompareCases
<1> QED
  BY <1>8, <1>10, <1>11, <1>12, <1>13

LEMMA OrderedIs == IsTable(vals) => Ordered
<1> SUFFICES ASSUME IsTable(vals) PROVE Ordered
  OBVIOUS
<1>1. \A a, b \in Values : CompareValues[<<a, b>>] < 0 <=> CompareValues[<<b, a>>] > 0
  BY Antisymmetric DEF Opposite
<1>2. \A a, b, c \in Values :
        CompareValues[<<a, b>>] <= 0 /\ CompareValues[<<b, c>>] <= 0 /\ CompareValues[<<a, c>>] > 0 =>
          ~Sharp(Below[a] \cup Below[b] \cup Below[c])
  <2> TAKE a, b, c \in Values
  <2>1. CompareValues[<<a, c>>] \in Int
    BY CompareInt
  <2> QED
    BY <2>1, Transitive DEF Follows, AllSharp
<1> QED
  BY <1>1, <1>2 DEF Ordered

-----------------------------------------------------------------------------
(* Equality                                                                *)

(* What compares as equal is equal.                                        *)
LEMMA ZeroEqual ==
  ASSUME IsTable(vals)
  PROVE  \A a, b \in Values : CompareValues[<<a, b>>] = 0 => EqualValues[<<a, b>>]
<1> DEFINE Bad == {a \in Values : \E b \in Values : CompareValues[<<a, b>>] = 0 /\ ~EqualValues[<<a, b>>]}
<1>1. SUFFICES ASSUME Bad # {} PROVE FALSE
  OBVIOUS
<1>2. Bad \in SUBSET Values
  OBVIOUS
<1>3. PICK a \in Bad : a \in Values /\ a \in Nat /\ \A x \in Values : x < a => x \notin Bad
  <2> HIDE DEF Bad
  <2> QED
    BY <1>1, <1>2, LeastValue
<1>4. PICK b \in Values : CompareValues[<<a, b>>] = 0 /\ ~EqualValues[<<a, b>>]
  OBVIOUS
<1>5. a \in Values /\ a \in Nat
  BY <1>3
<1>6. \A x, y \in Values : x < a /\ CompareValues[<<x, y>>] = 0 => EqualValues[<<x, y>>]
  BY <1>3
<1> HIDE DEF Bad
<1>7. ~EqualBy(EqualValues, a, b)
  BY <1>4, <1>5, EqualIs
<1>8. a # b
  BY <1>7 DEF EqualBy
<1>9. /\ vals[a].type \in 0..5 /\ vals[b].type \in 0..5
      /\ vals[a].rank \in Int /\ vals[b].rank \in Int
      /\ ItemCount(a) \in Nat /\ ItemCount(b) \in Nat
  BY <1>5, ItemsAre
<1>10. vals[a].type = vals[b].type
  <2>1. vals[a].type # vals[b].type => CompareValues[<<a, b>>] = vals[a].type - vals[b].type
    BY <1>5, <1>8, CompareCases
  <2> QED
    BY <1>4, <1>9, <2>1
<1>11. CASE vals[a].type = JV_ARRAY
  <2>1. Lexicographic(ArrayResult(a, b), ItemCount(a), ItemCount(b)) = 0
    BY <1>4, <1>5, <1>8, <1>10, <1>11, CompareCases
  <2>2. ItemCount(a) = ItemCount(b) /\ \A i \in 1..Lesser(ItemCount(a), ItemCount(b)) : ArrayResult(a, b)[i] = 0
    <3>1. PICK r, n, m : r = ArrayResult(a, b) /\ n = ItemCount(a) /\ m = ItemCount(b)
      OBVIOUS
    <3>2. n \in Nat /\ m \in Nat /\ Lexicographic(r, n, m) = 0
      BY <1>9, <2>1, <3>1
    <3>3. n = m /\ \A i \in 1..Lesser(n, m) : r[i] = 0
      BY <3>2, LexZero, ZenonT(60)
    <3> QED
      BY <3>1, <3>3
  <2>3. ASSUME NEW i \in 1..ItemCount(a)
        PROVE  EqualValues[<<vals[a].items[i], vals[b].items[i]>>]
    <3>1. i \in 1..Lesser(ItemCount(a), ItemCount(b))
      BY <2>2, <2>3 DEF Lesser
    <3>2. vals[a].items[i] \in Values /\ vals[a].items[i] < a /\ vals[b].items[i] \in Values
      BY <1>5, <1>10, <1>11, <3>1, PairsAre
    <3>3. CompareValues[<<vals[a].items[i], vals[b].items[i]>>] = 0
      BY <2>2, <3>1 DEF ArrayResult
    <3> QED
      BY <1>6, <3>2, <3>3
  <2> QED
    BY <1>7, <1>10, <1>11, <2>2, <2>3 DEF EqualBy, EqualArrays
<1>12. CASE vals[a].type = JV_OBJECT
  <2>1. Lexicographic(ObjectResult(a, b), ItemCount(a), ItemCount(b)) = 0
    BY <1>4, <1>5, <1>8, <1>10, <1>12, CompareCases
  <2>2. ItemCount(a) = ItemCount(b) /\ \A i \in 1..Lesser(ItemCount(a), ItemCount(b)) : ObjectResult(a, b)[i] = 0
    <3>1. PICK r, n, m : r = ObjectResult(a, b) /\ n = ItemCount(a) /\ m = ItemCount(b)
      OBVIOUS
    <3>2. n \in Nat /\ m \in Nat /\ Lexicographic(r, n, m) = 0
      BY <1>9, <2>1, <3>1
    <3>3. n = m /\ \A i \in 1..Lesser(n, m) : r[i] = 0
      BY <3>2, LexZero, ZenonT(60)
    <3> QED
      BY <3>1, <3>3
  <2>3. ASSUME NEW k \in DOMAIN vals[a].items
        PROVE  k \in DOMAIN vals[b].items /\ EqualValues[<<vals[a].items[k], vals[b].items[k]>>]
    <3>1. PICK i \in 1..ItemCount(a) : Key(a, i) = k
      <4>1. IsSorted(SortedKeys(DOMAIN vals[a].items), DOMAIN vals[a].items, ItemCount(a))
        BY <1>5, ItemsAre, SortedAre DEF ItemCount
      <4> QED
        BY <2>3, <4>1 DEF IsSorted, Key
    <3>2. i \in 1..Lesser(ItemCount(a), ItemCount(b))
      BY <2>2, <3>1 DEF Lesser
    <3>3. /\ Key(a, i) \in Int /\ Key(b, i) \in Int /\ Key(b, i) \in DOMAIN vals[b].items
          /\ vals[a].items[Key(a, i)] \in Values /\ vals[a].items[Key(a, i)] < a
          /\ vals[b].items[Key(b, i)] \in Values
      BY <1>5, <3>2, PairsAre
    <3>4. Key(a, i) = Key(b, i)
          /\ CompareValues[<<vals[a].items[Key(a, i)], vals[b].items[Key(b, i)]>>] = 0
      <4>1. ObjectResult(a, b)[i] = 0
        BY <2>2, <3>2
      <4> QED
        BY <3>2, <3>3, <4>1 DEF ObjectResult
    <3> QED
      BY <1>6, <3>1, <3>3, <3>4
  <2> QED
    BY <1>7, <1>10, <1>12, <2>2, <2>3 DEF EqualBy, EqualObjects
<1>13. CASE vals[a].type = JV_NUM
  <2>1. CompareNumbers(vals[a], vals[b]) = 0
    BY <1>4, <1>5, <1>8, <1>10, <1>13, CompareCases
  <2> QED
    BY <1>7, <1>10, <1>13, <2>1 DEF EqualBy
<1>14. CASE vals[a].type \notin {JV_NUM, JV_ARRAY, JV_OBJECT}
  <2>1. vals[a].rank - vals[b].rank = 0
    BY <1>4, <1>5, <1>8, <1>10, <1>14, CompareCases
  <2>2. vals[a].rank = vals[b].rank
    BY <1>9, <2>1
  <2>3. vals[a].type \in {JV_NULL, JV_BOOL, JV_STR}
    BY <1>9, <1>14 DEF JV_NULL, JV_BOOL, JV_NUM, JV_STR, JV_ARRAY, JV_OBJECT
  <2> QED
    BY <1>7, <1>10, <2>2, <2>3 DEF EqualBy, EqualStrings
<1> QED
  BY <1>11, <1>12, <1>13, <1>14

(* a and b hold nothing that jvalue_equal confuses.                        *)
Clear(a, b) == \A x \in Below[a], y \in Below[b] : ~Confused(x, y)

LEMMA EqualZero ==
  ASSUME IsTable(vals)
  PROVE  \A a, b \in Values : EqualValues[<<a, b>>] /\ Clear(a, b) => CompareValues[<<a, b>>] = 0
<1> DEFINE Bad == {a \in Values : \E b \in Values :
                     EqualValues[<<a, b>>] /\ Clear(a, b) /\ CompareValues[<<a, b>>] # 0}
<1>1. SUFFICES ASSUME Bad # {} PROVE FALSE
  OBVIOUS
<1>2. Bad \in SUBSET Values
  OBVIOUS
<1>3. PICK a \in Bad : a \in Values /\ a \in Nat /\ \A x \in Values : x < a => x \notin Bad
  <2> HIDE DEF Bad
  <2> QED
    BY <1>1, <1>2, LeastValue
<1>4. PICK b \in Values : EqualValues[<<a, b>>] /\ Clear(a, b) /\ CompareValues[<<a, b>>] # 0
  OBVIOUS
<1>5. a \in Values /\ a \in Nat
  BY <1>3
<1>6. \A x, y \in Values : x < a /\ EqualValues[<<x, y>>] /\ Clear(x, y) => CompareValues[<<x, y>>] = 0
  BY <1>3
<1> HIDE DEF Bad
<1>7. EqualBy(EqualValues, a, b)
  BY <1>4, <1>5, EqualIs
<1>8. a # b
  BY <1>4, <1>5, CompareCases
<1>9. /\ vals[a].type \in 0..5 /\ vals[b].type \in 0..5
      /\ vals[a].rank \in Int /\ vals[b].rank \in Int
      /\ ItemCount(a) \in Nat /\ ItemCount(b) \in Nat
  BY <1>5, ItemsAre
<1>10. vals[a].type = vals[b].type
  BY <1>7, <1>8 DEF EqualBy
<1>11. ASSUME NEW i \in DOMAIN vals[a].items, NEW j \in DOMAIN vals[b].items
       PROVE  Clear(vals[a].items[i], vals[b].items[j])
  <2>1. vals[a].items[i] \in HeldBy(a) /\ vals[b].items[j] \in HeldBy(b)
    BY DEF HeldBy
  <2>2. Below[vals[a].items[i]] \in SUBSET Below[a] /\ Below[vals[b].items[j]] \in SUBSET Below[b]
    BY <1>5, <2>1, BelowClosed
  <2> QED
    BY <1>4, <2>2 DEF Clear
<1>12. CASE vals[a].type = JV_ARRAY
  <2>1. EqualArrays(EqualValues, a, b)
    BY <1>7, <1>8, <1>12 DEF EqualBy, JV_NULL, JV_BOOL, JV_NUM, JV_STR, JV_ARRAY, JV_OBJECT
  <2>2. ASSUME NEW i \in 1..Lesser(ItemCount(a), ItemCount(b)) PROVE ArrayResult(a, b)[i] = 0
    <3>1. /\ i \in DOMAIN vals[a].items /\ i \in DOMAIN vals[b].items
          /\ vals[a].items[i] \in Values /\ vals[a].items[i] < a /\ vals[b].items[i] \in Values
      BY <1>5, <1>10, <1>12, PairsAre
    <3>2. i \in 1..ItemCount(a)
      BY <1>9, <2>2 DEF Lesser
    <3>3. EqualValues[<<vals[a].items[i], vals[b].items[i]>>]
      BY <2>1, <3>2 DEF EqualArrays
    <3>4. CompareValues[<<vals[a].items[i], vals[b].items[i]>>] = 0
      BY <1>6, <1>11, <3>1, <3>3
    <3> QED
      BY <3>4 DEF ArrayResult
  <2>3. Lexicographic(ArrayResult(a, b), ItemCount(a), ItemCount(b)) = 0
    BY <1>9, <2>1, <2>2, LexZero DEF EqualArrays
  <2> QED
    BY <1>4, <1>5, <1>8, <1>10, <1>12, <2>3, CompareCases
<1>13. CASE vals[a].type = JV_OBJECT
  <2>1. EqualObjects(EqualValues, a, b)
    BY <1>7, <1>8, <1>13 DEF EqualBy, JV_NULL, JV_BOOL, JV_NUM, JV_STR, JV_ARRAY, JV_OBJECT
  <2>2. DOMAIN vals[a].items = DOMAIN vals[b].items
    <3>1. DOMAIN vals[a].items \in SUBSET DOMAIN vals[b].items
      BY <2>1 DEF EqualObjects
    <3>2. Cardinality(DOMAIN vals[b].items) = Cardinality(DOMAIN vals[a].items)
      BY <2>1 DEF EqualObjects, ItemCount
    <3>3. IsFiniteSet(DOMAIN vals[b].items)
      BY ItemsAre
    <3> QED
      BY <3>1, <3>2, <3>3, FS_Subset
  <2>3. ASSUME NEW i \in 1..Lesser(ItemCount(a), ItemCount(b)) PROVE ObjectResult(a, b)[i] = 0
    <3>1. PICK k : k = Key(a, i) /\ k = Key(b, i)
      BY <2>2 DEF Key
    <3>2. /\ k \in Int /\ k \in DOMAIN vals[a].items /\ k \in DOMAIN vals[b].items
          /\ vals[a].items[k] \in Values /\ vals[a].items[k] < a /\ vals[b].items[k] \in Values
      BY <1>5, <3>1, PairsAre
    <3>3. EqualValues[<<vals[a].items[k], vals[b].items[k]>>]
      BY <2>1, <3>2 DEF EqualObjects
    <3>4. CompareValues[<<vals[a].items[k], vals[b].items[k]>>] = 0
      BY <1>6, <1>11, <3>2, <3>3
    <3>5. ObjectResult(a, b)[i] = IF k - k # 0 THEN k - k
                                 ELSE CompareValues[<<vals[a].items[k], vals[b].items[k]>>]
      BY <3>1, Zenon DEF ObjectResult
    <3>6. k - k = 0
      BY <3>2
    <3> QED
      BY <3>4, <3>5, <3>6
  <2>4. Lexicographic(ObjectResult(a, b), ItemCount(a), ItemCount(b)) = 0
    BY <1>9, <2>1, <2>3, LexZero DEF EqualObjects
  <2> QED
    BY <1>4, <1>5, <1>8, <1>10, <1>13, <2>4, CompareCases
<1>14. CASE vals[a].type = JV_NUM
  <2>1. CompareNumbers(vals[a], vals[b]) = 0
    BY <1>7, <1>8, <1>14 DEF EqualBy, JV_NULL, JV_BOOL, JV_NUM, JV_STR, JV_ARRAY, JV_OBJECT
  <2> QED
    BY <1>4, <1>5, <1>8, <1>10, <1>14, <2>1, CompareCases
<1>15. CASE vals[a].type \notin {JV_NUM, JV_ARRAY, JV_OBJECT}
  <2>1. ~Confused(a, b)
    BY <1>4, <1>5, BelowClosed DEF Clear
  <2>2. vals[a].rank = vals[b].rank
    BY <1>7, <1>8, <1>10, <1>15, <2>1 DEF EqualBy, EqualStrings, Confused
  <2>3. CompareValues[<<a, b>>] = vals[a].rank - vals[b].rank
    BY <1>5, <1>8, <1>10, <1>15, CompareCases
  <2> QED
    BY <1>4, <1>9, <2>2, <2>3
<1> QED
  BY <1>12, <1>13, <1>14, <1>15

LEMMA EqualsAgreeIs == IsTable(vals) => EqualsAgree
<1> SUFFICES ASSUME IsTable(vals) PROVE EqualsAgree
  OBVIOUS
<1>1. \A a, b \in Values : CompareValues[<<a, b>>] = 0 => EqualValues[<<a, b>>]
  BY ZeroEqual
<1>2. \A a, b \in Values : EqualValues[<<a, b>>] =>
        \/ CompareValues[<<a, b>>] = 0
        \/ \E x \in Below[a], y \in Below[b] : Confused(x, y)
  BY EqualZero DEF Clear
<1> QED
  BY <1>1, <1>2 DEF EqualsAgree

-----------------------------------------------------------------------------
(* Duplicates                                                              *)

LEMMA ConstHoldsNothing ==
  ASSUME IsTable(vals), NEW x \in Values, IsConst(x)
  PROVE  HeldBy(x) = {} /\ Below[x] = {x}
<1>1. vals[x].type \notin {JV_ARRAY, JV_OBJECT}
  BY DEF IsConst, JV_NULL, JV_BOOL, JV_STR, JV_ARRAY, JV_OBJECT
<1>2. DOMAIN vals[x].items = {}
  BY <1>1 DEF IsTable, IsNode, Values
<1>3. HeldBy(x) = {}
  BY <1>2 DEF HeldBy
<1> QED
  BY <1>3, BelowIs

LEMMA CopiedIs ==
  ASSUME NEW x, NEW n
  PROVE  /\ CopiedNode(x, n).type = vals[x].type
         /\ CopiedNode(x, n).rank = vals[x].rank
         /\ CopiedNode(x, n).float = vals[x].float
         /\ CopiedNode(x, n).at = n + x
         /\ DOMAIN CopiedNode(x, n).items = DOMAIN vals[x].items
         /\ \A i \in DOMAIN vals[x].items : CopiedNode(x, n).items[i] = CopyOf(vals[x].items[i], n)
         /\ CopiedNode(x, n) = [type |-> CopiedNode(x, n).type, rank |-> CopiedNode(x, n).rank,
                            float |-> CopiedNode(x, n).float, at |-> CopiedNode(x, n).at, items |-> CopiedNode(x, n).items]
BY DEF CopiedNode

(* The copy of what the original holds compares as equal to it, and holds  *)
(* nothing of before but constants.                                        *)
LEMMA MirrorStands ==
  ASSUME IsTable(vals), NEW c, Mirrors(c)
  PROVE  \A a \in Below[c.of] :
           /\ CopyOf(a, c.before) \in Values
           /\ CompareValues[<<a, CopyOf(a, c.before)>>] = 0
           /\ \A x \in Below[CopyOf(a, c.before)] : x > c.before \/ IsConst(x)
<1> DEFINE n == c.before
           Good(a) == /\ CopyOf(a, n) \in Values
                      /\ CompareValues[<<a, CopyOf(a, n)>>] = 0
                      /\ \A x \in Below[CopyOf(a, n)] : x > n \/ IsConst(x)
           Bad == {a \in Below[c.of] : ~Good(a)}
<1>0. n \in Nat /\ n >= 1 /\ c.of \in Values /\ Below[c.of] \in SUBSET Values
  <2>1. n \in Nat /\ n <= Len(vals) /\ c.of \in 1..n /\ Len(vals) \in Nat
    BY ItemsAre DEF Mirrors
  <2>2. c.of \in Values
    BY <2>1 DEF Values
  <2>3. Below[c.of] \in SUBSET (1..c.of)
    BY <2>2, BelowClosed
  <2> QED
    BY <2>1, <2>2, <2>3 DEF Values
<1>1. SUFFICES ASSUME Bad # {} PROVE FALSE
  OBVIOUS
<1>2. Bad \in SUBSET Values
  BY <1>0
<1> HIDE DEF Good
<1>3. PICK a \in Bad : a \in Values /\ a \in Nat /\ \A x \in Values : x < a => x \notin Bad
  <2> HIDE DEF Bad
  <2> QED
    BY <1>1, <1>2, LeastValue
<1>4. a \in Values /\ a \in Nat /\ a >= 1 /\ a \in Below[c.of]
  BY <1>3 DEF Values
<1>5. \A y \in HeldBy(a) : y \in Values /\ Good(y)
  <2> TAKE y \in HeldBy(a)
  <2>1. y \in Values /\ y < a /\ y \in Below[c.of]
    BY <1>0, <1>4, HeldAre, BelowClosed
  <2> QED
    BY <1>3, <2>1
<1>6. CASE IsConst(a)
  <2>1. CopyOf(a, n) = a
    BY <1>6 DEF CopyOf
  <2>2. CompareValues[<<a, a>>] = 0
    BY <1>4, CompareCases
  <2>3. Below[a] = {a}
    BY <1>4, <1>6, ConstHoldsNothing
  <2>4. Good(a)
    BY <1>4, <1>6, <2>1, <2>2, <2>3 DEF Good
  <2> QED
    BY <1>3, <2>4
<1>7. CASE ~IsConst(a)
  <2> DEFINE b == n + a
  <2>1. CopyOf(a, n) = b /\ b \in Values /\ vals[b] = CopiedNode(a, n)
    BY <1>4, <1>7 DEF Mirrors, CopyOf
  <2>2. b > n /\ a # b
    BY <1>0, <1>4
  <2> HIDE DEF b
  <2>3. /\ vals[b].type = vals[a].type /\ vals[b].rank = vals[a].rank /\ vals[b].float = vals[a].float
        /\ DOMAIN vals[b].items = DOMAIN vals[a].items
        /\ \A i \in DOMAIN vals[a].items : vals[b].items[i] = CopyOf(vals[a].items[i], n)
    BY <2>1, CopiedIs
  <2>4. ItemCount(b) = ItemCount(a) /\ ItemCount(a) \in Nat /\ vals[a].rank \in Int /\ vals[a].type \in 0..5
    BY <1>4, <2>3, ItemsAre DEF ItemCount
  <2>5. \A i \in DOMAIN vals[a].items :
          /\ CompareValues[<<vals[a].items[i], vals[b].items[i]>>] = 0
          /\ \A x \in Below[vals[b].items[i]] : x > n \/ IsConst(x)
    BY <1>5, <2>3 DEF HeldBy, Good
  <2>6. CompareValues[<<a, b>>] = 0
    <3>1. CASE vals[a].type = JV_ARRAY
      <4>1. \A i \in 1..Lesser(ItemCount(a), ItemCount(b)) : ArrayResult(a, b)[i] = 0
        BY <1>4, <2>1, <2>3, <2>5, <3>1, PairsAre DEF ArrayResult
      <4>2. Lexicographic(ArrayResult(a, b), ItemCount(a), ItemCount(b)) = 0
        BY <2>4, <4>1, LexZero
      <4> QED
        BY <1>4, <2>1, <2>2, <2>3, <3>1, <4>2, CompareCases
    <3>2. CASE vals[a].type = JV_OBJECT
      <4>1. ASSUME NEW i \in 1..Lesser(ItemCount(a), ItemCount(b)) PROVE ObjectResult(a, b)[i] = 0
        <5>1. PICK k : k = Key(a, i) /\ k = Key(b, i)
          BY <2>3 DEF Key
        <5>2. k \in Int /\ k \in DOMAIN vals[a].items
          BY <1>4, <2>1, <5>1, PairsAre
        <5>3. ObjectResult(a, b)[i] = IF k - k # 0 THEN k - k
                                     ELSE CompareValues[<<vals[a].items[k], vals[b].items[k]>>]
          BY <5>1, Zenon DEF ObjectResult
        <5>4. k - k = 0
          BY <5>2
        <5> QED
          BY <2>5, <5>2, <5>3, <5>4
      <4>2. Lexicographic(ObjectResult(a, b), ItemCount(a), ItemCount(b)) = 0
        BY <2>4, <4>1, LexZero
      <4> QED
        BY <1>4, <2>1, <2>2, <2>3, <3>2, <4>2, CompareCases
    <3>3. CASE vals[a].type = JV_NUM
      <4>1. CompareValues[<<a, b>>] = CompareNumbers(vals[a], vals[b])
        BY <1>4, <2>1, <2>2, <2>3, <3>3, CompareCases
      <4> QED
        BY <2>3, <2>4, <4>1 DEF CompareNumbers, CompareRanks
    <3>4. CASE vals[a].type \notin {JV_NUM, JV_ARRAY, JV_OBJECT}
      <4>1. CompareValues[<<a, b>>] = vals[a].rank - vals[a].rank
        BY <1>4, <2>1, <2>2, <2>3, <3>4, CompareCases
      <4> QED
        BY <2>4, <4>1
    <3> QED
      BY <3>1, <3>2, <3>3, <3>4
  <2>7. ASSUME NEW x \in Below[b] PROVE x > n \/ IsConst(x)
    <3>1. x = b \/ \E z \in HeldBy(b) : x \in Below[z]
      BY <2>1, BelowIs
    <3>2. ASSUME NEW z \in HeldBy(b), x \in Below[z] PROVE x > n \/ IsConst(x)
      <4>1. PICK i \in DOMAIN vals[a].items : z = vals[b].items[i]
        BY <2>3 DEF HeldBy
      <4> QED
        BY <2>5, <3>2, <4>1
    <3> QED
      BY <2>2, <3>1, <3>2
  <2>8. Good(a)
    BY <2>1, <2>6, <2>7 DEF Good
  <2> QED
    BY <1>3, <2>8
<1> QED
  BY <1>6, <1>7

LEMMA CopiesStandIs == OrderIInv => CopiesStand
<1> SUFFICES ASSUME OrderIInv, NEW c \in copies
             PROVE  /\ CompareValues[<<c.of, c.by>>] = 0 /\ EqualValues[<<c.of, c.by>>]
                    /\ \A x \in Below[c.by] : x > c.before \/ IsConst(x)
  BY DEF CopiesStand
<1>1. IsTable(vals) /\ Mirrors(c) /\ c.by = CopyOf(c.of, c.before)
  BY DEF OrderIInv, Mirrors
<1>2. c.of \in Values
  BY <1>1, ItemsAre DEF Mirrors, Values
<1>3. c.of \in Below[c.of]
  BY <1>1, <1>2, BelowClosed
<1>4. /\ c.by \in Values /\ CompareValues[<<c.of, c.by>>] = 0
      /\ \A x \in Below[c.by] : x > c.before \/ IsConst(x)
  BY <1>1, <1>3, MirrorStands
<1> QED
  BY <1>1, <1>2, <1>4, ZeroEqual

-----------------------------------------------------------------------------
(* Steps                                                                   *)

(* Values that were there stay as they are, and so what is reached from    *)
(* them.                                                                   *)
Grows ==
  /\ Values \in SUBSET Values'
  /\ \A x \in Values : vals'[x] = vals[x]

LEMMA BelowNow ==
  IsTable(vals) => \A x \in Values : Below[x] = {x} \cup UNION {Below[y] : y \in HeldBy(x)}
BY BelowIs

LEMMA BelowNext ==
  (IsTable(vals) => \A x \in Values : Below[x] = {x} \cup UNION {Below[y] : y \in HeldBy(x)})'
BY BelowNow, PTL

LEMMA GrowsBelow ==
  ASSUME IsTable(vals), IsTable(vals'), Grows
  PROVE  \A x \in Values : Below'[x] = Below[x]
<1> DEFINE Bad == {x \in Values : Below'[x] # Below[x]}
<1>1. SUFFICES ASSUME Bad # {} PROVE FALSE
  OBVIOUS
<1>2. Bad \in SUBSET Values
  OBVIOUS
<1>3. PICK x \in Bad : x \in Values /\ x \in Nat /\ \A y \in Values : y < x => y \notin Bad
  <2> HIDE DEF Bad
  <2> QED
    BY <1>1, <1>2, LeastValue
<1>4. HeldBy(x)' = HeldBy(x)
  BY DEF Grows, HeldBy
<1>5. \A y \in HeldBy(x) : Below'[y] = Below[y]
  BY <1>3, HeldAre
<1>6. Below[x] = {x} \cup UNION {Below[y] : y \in HeldBy(x)}
  BY <1>3, BelowIs
<1>7. Below'[x] = {x} \cup UNION {Below'[y] : y \in HeldBy(x)'}
  <2>1. x \in Values'
    BY <1>3 DEF Grows
  <2> QED
    BY <2>1, BelowNext
<1>8. {Below'[y] : y \in HeldBy(x)} = {Below[y] : y \in HeldBy(x)}
  BY <1>5
<1> QED
  BY <1>3, <1>4, <1>6, <1>7, <1>8

(* The length of a table that is given by its entries                      *)
LEMMA LenOf ==
  ASSUME NEW t, NEW m \in Nat, t = [y \in 1..m |-> t[y]]
  PROVE  Len(t) = m
<1> DEFINE S == {t[y] : y \in 1..m}
<1>1. t \in [1..m -> S]
  OBVIOUS
<1>2. t \in Seq(S)
  BY <1>1, SeqDef
<1>3. Len(t) \in Nat /\ DOMAIN t = 1..Len(t)
  BY <1>2, LenProperties
<1>4. 1..Len(t) = 1..m
  BY <1>1, <1>3
<1> QED
  BY <1>3, <1>4

(* What jvalue_duplicate makes is a table again, in which the copies are   *)
(* where they were promised.                                               *)
LEMMA DuplicateGrows ==
  ASSUME IsTable(vals), NEW x \in Values, Duplicate(x), ~IsConst(x)
  PROVE  /\ IsTable(vals') /\ Grows /\ Len(vals') = Len(vals) + x
         /\ \A y \in Below[x] : ~IsConst(y) => vals'[Len(vals) + y] = CopiedNode(y, Len(vals))
<1> DEFINE n == Len(vals)
<1>0. n \in Nat /\ x \in Nat /\ x >= 1 /\ x <= n /\ n + x \in Nat
  BY ItemsAre DEF Values
<1>1. vals' = [y \in 1..(n + x) |->
                 IF y <= n THEN vals[y]
                 ELSE IF y - n \in Below[x] /\ ~IsConst(y - n) THEN CopiedNode(y - n, n)
                 ELSE Unused]
  BY DEF Duplicate
<1>2. vals' = [y \in 1..(n + x) |-> vals'[y]]
  BY <1>1
<1>3. Len(vals') = n + x
  BY <1>0, <1>2, LenOf
<1>4. Grows
  BY <1>0, <1>1, <1>3 DEF Grows, Values
<1>5. Below[x] \in SUBSET (1..x)
  BY BelowClosed
<1>6. \A y \in Below[x] : ~IsConst(y) => vals'[n + y] = CopiedNode(y, n)
  <2> SUFFICES ASSUME NEW y \in Below[x], ~IsConst(y) PROVE vals'[n + y] = CopiedNode(y, n)
    OBVIOUS
  <2>1. y \in Nat /\ y >= 1 /\ y <= x
    BY <1>0, <1>5
  <2>2. n + y \in 1..(n + x) /\ ~(n + y <= n) /\ (n + y) - n = y
    BY <1>0, <2>1
  <2>3. vals'[n + y] = IF n + y <= n THEN vals[n + y]
                       ELSE IF (n + y) - n \in Below[x] /\ ~IsConst((n + y) - n)
                            THEN CopiedNode((n + y) - n, n)
                       ELSE Unused
    BY <1>1, <2>2
  <2> QED
    BY <2>2, <2>3
<1>7. ASSUME NEW y \in 1..(n + x) PROVE IsNode(vals'[y], y)
  <2>1. CASE y <= n
    BY <1>0, <1>1, <2>1 DEF IsTable
  <2>2. CASE ~(y <= n) /\ y - n \in Below[x] /\ ~IsConst(y - n)
    <3> DEFINE z == y - n
    <3>1. z \in Values /\ z \in Nat /\ z >= 1 /\ n + z = y /\ z <= y
      BY <1>0, <1>5, <2>2 DEF Values
    <3>2. vals'[y] = CopiedNode(z, n)
      BY <1>1, <2>2
    <3> HIDE DEF z
    <3>3. /\ vals'[y].type = vals[z].type /\ vals'[y].rank = vals[z].rank
          /\ vals'[y].float = vals[z].float
          /\ vals'[y].at = y
          /\ DOMAIN vals'[y].items = DOMAIN vals[z].items
          /\ \A i \in DOMAIN vals[z].items : vals'[y].items[i] = CopyOf(vals[z].items[i], n)
          /\ vals'[y] = [type |-> vals'[y].type, rank |-> vals'[y].rank,
                         float |-> vals'[y].float, at |-> vals'[y].at, items |-> vals'[y].items]
      BY <3>1, <3>2, CopiedIs
    <3>4. /\ vals[z].type \in JV_NULL..JV_OBJECT /\ vals[z].rank \in Int
          /\ vals[z].float \in BOOLEAN
          /\ vals[z].type = JV_NUM =>
               vals[z].rank \in Ranks /\ (vals[z].float => AsDouble[vals[z].rank] = vals[z].rank)
          /\ DOMAIN vals[z].items \in SUBSET Int /\ IsFiniteSet(DOMAIN vals[z].items)
          /\ vals[z].type = JV_ARRAY => \E size \in 0..(z - 1) : DOMAIN vals[z].items = 1..size
          /\ vals[z].type \notin {JV_ARRAY, JV_OBJECT} => DOMAIN vals[z].items = {}
          /\ \A i \in DOMAIN vals[z].items : vals[z].items[i] \in 1..(z - 1)
      BY <3>1 DEF IsTable, IsNode, Values
    <3>5. \A i \in DOMAIN vals[z].items : vals'[y].items[i] \in 1..(y - 1)
      <4> TAKE i \in DOMAIN vals[z].items
      <4>1. PICK w : w = vals[z].items[i] /\ w \in 1..(z - 1)
        BY <3>4
      <4>2. vals'[y].items[i] = w \/ vals'[y].items[i] = n + w
        BY <3>3, <4>1 DEF CopyOf
      <4>3. w \in 1..(y - 1) /\ n + w \in 1..(y - 1)
        BY <1>0, <3>1, <4>1
      <4> QED
        BY <4>2, <4>3
    <3>6. vals'[y].items \in [DOMAIN vals[z].items -> 1..(y - 1)]
      <4>1. vals'[y].items = [i \in DOMAIN vals[z].items |-> CopyOf(vals[z].items[i], n)]
        BY <3>2 DEF CopiedNode
      <4> QED
        BY <3>3, <3>5, <4>1
    <3>7. vals[z].type = JV_ARRAY => \E size \in 0..(y - 1) : DOMAIN vals[z].items = 1..size
      <4> SUFFICES ASSUME vals[z].type = JV_ARRAY
                   PROVE  \E size \in 0..(y - 1) : DOMAIN vals[z].items = 1..size
        OBVIOUS
      <4>1. PICK size \in 0..(z - 1) : DOMAIN vals[z].items = 1..size
        BY <3>4
      <4>2. size \in 0..(y - 1)
        BY <3>1, <4>1
      <4> QED
        BY <4>1, <4>2
    <3>8. vals'[y].at \in 0..y
      BY <3>1, <3>3
    <3> QED
      BY <3>3, <3>4, <3>6, <3>7, <3>8 DEF IsNode
  <2>3. CASE ~(y <= n) /\ ~(y - n \in Below[x] /\ ~IsConst(y - n))
    <3>1. vals'[y] = Unused
      BY <1>1, <2>3
    <3>2. IsFiniteSet({})
      BY FS_EmptySet
    <3>3. y \in Nat
      OBVIOUS
    <3> QED
      BY <3>1, <3>2, <3>3 DEF IsNode, Unused, JV_NULL, JV_NUM, JV_ARRAY, JV_OBJECT
  <2> QED
    BY <2>1, <2>2, <2>3
<1>8. IsTable(vals')
  BY <1>0, <1>2, <1>3, <1>7 DEF IsTable
<1> QED
  BY <1>3, <1>4, <1>6, <1>8

(* What is copied, and how, does not change.                               *)
LEMMA GrowsCopies ==
  ASSUME IsTable(vals), Grows, NEW n
  PROVE  \A y \in Values :
           /\ IsConst(y)' <=> IsConst(y)
           /\ CopyOf(y, n)' = CopyOf(y, n)
           /\ CopiedNode(y, n)' = CopiedNode(y, n)
<1>1. \A y \in Values : IsConst(y)' <=> IsConst(y)
  BY DEF Grows, IsConst
<1>2. \A y \in Values : CopyOf(y, n)' = CopyOf(y, n)
  BY <1>1 DEF CopyOf
<1>3. ASSUME NEW y \in Values PROVE CopiedNode(y, n)' = CopiedNode(y, n)
  <2>1. vals'[y] = vals[y]
    BY DEF Grows
  <2>2. \A i \in DOMAIN vals[y].items : CopyOf(vals[y].items[i], n)' = CopyOf(vals[y].items[i], n)
    <3> TAKE i \in DOMAIN vals[y].items
    <3>1. vals[y].items[i] \in Values
      BY ItemsAre
    <3>2. vals'[y].items[i] = vals[y].items[i]
      BY <2>1
    <3> QED
      BY <1>1, <3>1, <3>2 DEF CopyOf
  <2>3. [i \in DOMAIN vals'[y].items |-> CopyOf(vals[y].items[i], n)']
          = [i \in DOMAIN vals[y].items |-> CopyOf(vals[y].items[i], n)]
    BY <2>1, <2>2
  <2> QED
    BY <2>1, <2>3 DEF CopiedNode
<1> QED
  BY <1>1, <1>2, <1>3

(* The copies made before mirror their originals still.                    *)
LEMMA MirrorsKept ==
  ASSUME IsTable(vals), IsTable(vals'), Grows, Len(vals) <= Len(vals'), NEW c, Mirrors(c)
  PROVE  Mirrors(c)'
<1> DEFINE n == c.before
<1>1. /\ n \in Nat /\ n <= Len(vals) /\ c.of \in 1..n /\ c.by = CopyOf(c.of, n)
      /\ Len(vals) \in Nat /\ Len(vals') \in Nat
  BY ItemsAre DEF Mirrors, IsTable
<1>2. c.of \in Values
  BY <1>1 DEF Values
<1>3. \A y \in Below[c.of] : y \in Values
  <2>1. Below[c.of] \in SUBSET (1..c.of)
    BY <1>2, BelowClosed
  <2> QED
    BY <1>1, <2>1 DEF Values
<1>4. \A y \in Values : /\ IsConst(y)' <=> IsConst(y)
                        /\ CopyOf(y, n)' = CopyOf(y, n)
                        /\ CopiedNode(y, n)' = CopiedNode(y, n)
  BY GrowsCopies
<1>5. Below'[c.of] = Below[c.of]
  BY <1>2, GrowsBelow
<1>6. ASSUME NEW y \in Below[c.of], ~IsConst(y)
      PROVE  n + y \in Values' /\ vals'[n + y] = CopiedNode(y, n)'
  <2>1. n + y \in Values /\ vals[n + y] = CopiedNode(y, n)
    BY <1>6 DEF Mirrors
  <2> QED
    BY <1>3, <1>4, <1>6, <2>1 DEF Grows
<1>7. n <= Len(vals')
  BY <1>1
<1> QED
  BY <1>1, <1>2, <1>3, <1>4, <1>5, <1>6, <1>7 DEF Mirrors

LEMMA DuplicateKeeps ==
  ASSUME OrderIInv, NEW x \in Values, Duplicate(x)
  PROVE  OrderIInv'
<1>1. PICK n, new : n = Len(vals) /\ new = [of |-> x, by |-> CopyOf(x, n), before |-> n]
  OBVIOUS
<1>2. /\ IsTable(vals) /\ \A c \in copies : Mirrors(c)
      /\ copies' = copies \cup {new}
  BY <1>1 DEF OrderIInv, Duplicate
<1>3. n \in Nat /\ x \in 1..n /\ x \in Nat /\ n + x \in Nat /\ Below[x] \in SUBSET (1..x)
  <2>1. n \in Nat /\ x \in 1..n
    BY <1>1, <1>2, ItemsAre DEF Values
  <2>2. Below[x] \in SUBSET (1..x)
    BY <1>2, BelowClosed
  <2> QED
    BY <2>1, <2>2
<1>4. IsTable(vals') /\ Grows /\ n <= Len(vals')
  <2>1. CASE IsConst(x)
    <3>1. vals' = vals
      BY <2>1 DEF Duplicate
    <3> QED
      BY <1>1, <1>2, <1>3, <3>1 DEF Grows, Values
  <2>2. CASE ~IsConst(x)
    <3>1. IsTable(vals') /\ Grows /\ Len(vals') = n + x
      BY <1>1, <1>2, <2>2, DuplicateGrows
    <3> QED
      BY <1>3, <3>1
  <2> QED
    BY <2>1, <2>2
<1>5. Below'[x] = Below[x]
  BY <1>2, <1>4, GrowsBelow
<1>6. \A y \in Values : /\ IsConst(y)' <=> IsConst(y)
                        /\ CopyOf(y, n)' = CopyOf(y, n)
                        /\ CopiedNode(y, n)' = CopiedNode(y, n)
  BY <1>2, <1>4, GrowsCopies
<1>7. ASSUME NEW y \in Below[x], ~IsConst(y)
      PROVE  n + y \in Values' /\ vals'[n + y] = CopiedNode(y, n)'
  <2>1. ~IsConst(x)
    <3>1. CASE IsConst(x)
      BY <1>2, <1>7, <3>1, ConstHoldsNothing
    <3> QED
      BY <3>1
  <2>2. Len(vals') = n + x /\ vals'[n + y] = CopiedNode(y, n)
    BY <1>1, <1>2, <1>7, <2>1, DuplicateGrows
  <2>3. y \in Values /\ n + y \in 1..(n + x)
    BY <1>1, <1>3 DEF Values
  <2> QED
    BY <1>6, <2>2, <2>3 DEF Values
<1>8. Mirrors(new)'
  <2>1. new.before = n /\ new.of = x /\ new.by = CopyOf(x, n)
    BY <1>1
  <2>2. \A y \in Below[x] : y \in Values
    BY <1>1, <1>3 DEF Values
  <2>3. n <= Len(vals') /\ n \in Nat /\ x \in 1..n
    BY <1>3, <1>4
  <2>4. new.by = CopyOf(x, n)'
    BY <1>6, <2>1
  <2>5. \A y \in Below'[x] : IsConst(y)' \/ (n + y \in Values' /\ vals'[n + y] = CopiedNode(y, n)')
    BY <1>5, <1>6, <1>7, <2>2
  <2> QED
    BY <2>1, <2>3, <2>4, <2>5 DEF Mirrors
<1>9. \A c \in copies : Mirrors(c)'
  BY <1>1, <1>2, <1>4, MirrorsKept
<1> QED
  <2>1. ASSUME NEW c \in copies' PROVE Mirrors(c)'
    BY <1>2, <1>8, <1>9, <2>1
  <2> QED
    BY <1>4, <2>1 DEF OrderIInv

(* The table of values stays one, and every duplicate mirrors what it was  *)
(* made of, however often jvalue_duplicate is called.                      *)
THEOREM OrderInductive == OrderSpec => []OrderIInv
<1>1. InitOrder => OrderIInv
  BY TablesAssumption DEF InitOrder, OrderIInv
<1>2. OrderIInv /\ [OrderNext]_orderVars => OrderIInv'
  <2> SUFFICES ASSUME OrderIInv, [OrderNext]_orderVars PROVE OrderIInv'
    OBVIOUS
  <2>1. ASSUME NEW x \in Values, Duplicate(x) PROVE OrderIInv'
    BY <2>1, DuplicateKeeps
  <2>2. CASE UNCHANGED orderVars
    <3>1. vals' = vals /\ copies' = copies
      BY <2>2 DEF orderVars
    <3>2. IsTable(vals') /\ Grows /\ Len(vals) <= Len(vals')
      BY <3>1, ItemsAre DEF OrderIInv, Grows, Values
    <3> QED
      BY <3>1, <3>2, MirrorsKept DEF OrderIInv
  <2> QED
    BY <2>1, <2>2 DEF OrderNext, AskOrder
<1> QED
  BY <1>1, <1>2, PTL DEF OrderSpec

(* jvalue_compare orders all values there can be, jvalue_equal agrees with *)
(* it but for what Confused names, and every duplicate is equal to its     *)
(* original and holds nothing of it but constants.                         *)
THEOREM ValuesAreOrdered == OrderSpec => []ValuesOrdered
<1>1. OrderIInv => ValuesOrdered
  BY OrderedIs, EqualsAgreeIs, CopiesStandIs DEF ValuesOrdered, OrderIInv
<1> QED
  BY <1>1, OrderInductive, PTL


-----------------------------------------------------------------------------
(***************************************************************************)
(* The texts of values, for any values and threads.  What a thread has     *)
(* left to tell is a chain of calls (Chain), each of which leads from the  *)
(* states of the generator, and whatever may still be written, to those    *)
(* after it (Link); so the text so far, with any of what may follow, says  *)
(* the value (Walk), and each callback keeps it so (WalkOn).  Of texts     *)
(* already given: a destructor is set for a text of the value's own, and   *)
(* each text has one (StringsInv).                                         *)
(***************************************************************************)
-----------------------------------------------------------------------------
(* What TextsOf has for a value                                            *)

Nodes == DOMAIN GenValues

(* Values hold each other less and less deep.                              *)
Nests(depth) ==
  /\ depth \in [Nodes -> 0 .. YajlMaxDepth - 1]
  /\ \A v \in Nodes : IsContainer(v) => \A i \in DOMAIN Items(v) :
       Items(v)[i].value \in Nodes /\ depth[Items(v)[i].value] < depth[v]

LEMMA ValuesNest == \E depth : Nests(depth)
<1>1. PICK depth \in [DOMAIN GenValues -> 0 .. YajlMaxDepth - 1] :
       \A v \in DOMAIN GenValues :
         IsContainer(v) =>
           /\ depth[v] > 0
           /\ \A i \in DOMAIN Items(v) :
                Items(v)[i].value \in DOMAIN GenValues /\ depth[Items(v)[i].value] < depth[v]
  BY GenValuesAssumption
<1> QED
  BY <1>1 DEF Nests, Nodes

(* A law that fails of a value fails of one whose items obey it.           *)
LEMMA LeastNode ==
  ASSUME NEW Bad \in SUBSET Nodes, Bad # {}
  PROVE  \E v \in Bad : IsContainer(v) => \A i \in DOMAIN Items(v) :
           Items(v)[i].value \in Nodes \ Bad
<1>1. PICK depth : Nests(depth)
  BY ValuesNest
<1> DEFINE D == {depth[v] : v \in Bad}
<1>2. D \in SUBSET Nat /\ D # {}
  BY <1>1 DEF Nests
<1>3. PICK n \in D : \A m \in D : n <= m
  BY <1>2, HasLeast
<1>4. PICK v \in Bad : depth[v] = n
  <2> QED
    BY <1>3
<1>5. ASSUME IsContainer(v), NEW i \in DOMAIN Items(v)
      PROVE  Items(v)[i].value \in Nodes \ Bad
  <2> DEFINE w == Items(v)[i].value
  <2>1. w \in Nodes /\ depth[w] < depth[v] /\ depth[w] \in Nat /\ depth[v] \in Nat
    BY <1>1, <1>5 DEF Nests
  <2> HIDE DEF w
  <2>2. w \notin Bad
    BY <1>3, <1>4, <2>1
  <2> QED
    BY <2>1, <2>2 DEF w
<1> QED
  BY <1>5

LEMMA ItemsAreSequences ==
  ASSUME NEW v \in Nodes, IsContainer(v)
  PROVE  Len(Items(v)) \in Nat /\ DOMAIN Items(v) = 1 .. Len(Items(v))
<1> DEFINE S == {Items(v)[i] : i \in DOMAIN Items(v)}
<1>1. Items(v) \in Seq(S)
  BY GenValuesAssumption DEF Nodes
<1> HIDE DEF S
<1> QED
  BY <1>1, LenProperties

LEMMA OrderIs ==
  ASSUME NEW v \in Nodes, IsContainer(v), NEW order \in Orders(v)
  PROVE  order \in [DOMAIN Items(v) -> DOMAIN Items(v)]
BY DEF Orders

LEMMA TextsByAgrees ==
  ASSUME NEW v \in Nodes, NEW f, NEW g,
         IsContainer(v) => \A i \in DOMAIN Items(v) : f[Items(v)[i].value] = g[Items(v)[i].value]
  PROVE  TextsBy(f, v) = TextsBy(g, v)
<1>1. CASE IsContainer(v)
  <2>1. ASSUME NEW order \in Orders(v)
        PROVE  Pieces(f, v, order) = Pieces(g, v, order)
    <3>1. \A n \in DOMAIN Items(v) :
            f[Items(v)[order[n]].value] = g[Items(v)[order[n]].value]
      BY <1>1, OrderIs
    <3> QED
      BY <3>1 DEF Pieces
  <2> QED
    BY <2>1 DEF TextsBy
<1> QED
  BY <1>1 DEF TextsBy

(* Values of small depth have their texts, and then those one deeper.      *)
LEMMA TextsExist == \E f : f = [v \in Nodes |-> TextsBy(f, v)]
<1>1. PICK depth : Nests(depth)
  BY ValuesNest
<1> DEFINE Shallow(n) == {v \in Nodes : depth[v] < n}
           Good(n) == \E f : \A v \in Shallow(n) : f[v] = TextsBy(f, v)
           Bad == {n \in Nat : ~Good(n)}
<1>2. ASSUME Good(YajlMaxDepth)
      PROVE  \E f : f = [v \in Nodes |-> TextsBy(f, v)]
  <2>1. PICK f : \A v \in Shallow(YajlMaxDepth) : f[v] = TextsBy(f, v)
    BY <1>2
  <2>2. \A v \in Nodes : v \in Shallow(YajlMaxDepth)
    BY <1>1, GenValuesAssumption DEF Nests
  <2> DEFINE g == [v \in Nodes |-> TextsBy(f, v)]
  <2>3. \A v \in Nodes : g[v] = f[v]
    BY <2>1, <2>2
  <2> HIDE DEF g
  <2>4. \A v \in Nodes : TextsBy(g, v) = TextsBy(f, v)
    BY <1>1, <2>3, TextsByAgrees DEF Nests
  <2>5. g = [v \in Nodes |-> TextsBy(g, v)]
    BY <2>4 DEF g
  <2> QED
    BY <2>5
<1>3. SUFFICES ASSUME Bad # {} PROVE FALSE
  <2> HIDE DEF Good
  <2> QED
    BY <1>2, GenValuesAssumption
<1>4. Good(0)
  BY <1>1 DEF Nests
<1> HIDE DEF Good
<1>5. PICK n \in Bad : \A m \in Bad : n <= m
  <2>1. Bad \in SUBSET Nat
    OBVIOUS
  <2> HIDE DEF Bad
  <2> QED
    BY <1>3, <2>1, HasLeast
<1>6. n \in Nat /\ n - 1 \in Nat /\ Good(n - 1)
  BY <1>4, <1>5
<1>7. PICK f : \A v \in Shallow(n - 1) : f[v] = TextsBy(f, v)
  BY <1>6 DEF Good
<1> DEFINE g == [v \in Nodes |-> TextsBy(f, v)]
<1>8. \A v \in Shallow(n - 1) : g[v] = f[v]
  BY <1>7
<1> HIDE DEF g
<1>9. ASSUME NEW v \in Shallow(n)
      PROVE  g[v] = TextsBy(g, v)
  <2>1. ASSUME IsContainer(v), NEW i \in DOMAIN Items(v)
        PROVE  g[Items(v)[i].value] = f[Items(v)[i].value]
    <3>1. Items(v)[i].value \in Shallow(n - 1)
      BY <1>1, <1>6, <1>9, <2>1 DEF Nests
    <3> HIDE DEF Shallow
    <3> QED
      BY <1>8, <3>1
  <2>2. TextsBy(g, v) = TextsBy(f, v)
    BY <2>1, TextsByAgrees
  <2> QED
    BY <2>2 DEF g
<1>10. Good(n)
  BY <1>9 DEF Good
<1> QED
  BY <1>5, <1>10

LEMMA TextsAre == \A v \in Nodes : TextsOf[v] = TextsBy(TextsOf, v)
<1>1. TextsOf = [v \in Nodes |-> TextsBy(TextsOf, v)]
  BY TextsExist DEF TextsOf, Nodes
<1> QED
  BY <1>1

LEMMA ListsExist ==
  ASSUME NEW pieces, Len(pieces) \in Nat
  PROVE  \E l : l = [n \in 0 .. Len(pieces) |-> ListsBy(l, pieces, n)]
<1> DEFINE Good(k) == \E l : l = [n \in 0 .. k |-> ListsBy(l, pieces, n)]
           Bad == {k \in 0 .. Len(pieces) : ~Good(k)}
<1>1. SUFFICES ASSUME Bad # {} PROVE FALSE
  <2>1. Good(Len(pieces)) \/ Len(pieces) \in Bad
    <3> HIDE DEF Good
    <3> QED
      OBVIOUS
  <2> HIDE DEF Bad
  <2> QED
    BY <2>1
<1>2. Good(0)
  <2> DEFINE l == [n \in 0 .. 0 |-> {<<>>}]
  <2>1. \A n \in 0 .. 0 : ListsBy(l, pieces, n) = {<<>>}
    BY DEF ListsBy
  <2>2. l = [n \in 0 .. 0 |-> ListsBy(l, pieces, n)]
    BY <2>1
  <2> QED
    BY <2>2
<1>3. PICK k \in Bad : \A m \in Bad : k <= m
  <2> HIDE DEF Good
  <2>1. Bad \in SUBSET Nat
    OBVIOUS
  <2> HIDE DEF Bad
  <2> QED
    BY <1>1, <2>1, HasLeast
<1>4. k \in Nat /\ k - 1 \in Nat /\ k <= Len(pieces) /\ Good(k - 1)
  <2> HIDE DEF Good
  <2> QED
    BY <1>2, <1>3
<1>5. PICK l : l = [n \in 0 .. k - 1 |-> ListsBy(l, pieces, n)]
  BY <1>4
<1> DEFINE g == [n \in 0 .. k |-> ListsBy(l, pieces, n)]
<1>6. \A n \in 0 .. k - 1 : g[n] = l[n]
  BY <1>4, <1>5
<1>7. \A n \in 0 .. k : g[n] = ListsBy(l, pieces, n)
  OBVIOUS
<1>8. g = [n \in 0 .. k |-> g[n]]
  OBVIOUS
<1> HIDE DEF g
<1>9. ASSUME NEW n \in 0 .. k
      PROVE  ListsBy(l, pieces, n) = ListsBy(g, pieces, n)
  <2>1. CASE n = 0
    BY <2>1 DEF ListsBy
  <2>2. CASE n # 0
    <3>1. n - 1 \in 0 .. k - 1
      BY <1>4, <2>2
    <3>2. g[n - 1] = l[n - 1]
      BY <1>6, <3>1
    <3> QED
      BY <3>2 DEF ListsBy
  <2> QED
    BY <2>1, <2>2
<1>10. g = [n \in 0 .. k |-> ListsBy(g, pieces, n)]
  BY <1>7, <1>8, <1>9
<1>11. Good(k)
  BY <1>10
<1> HIDE DEF Good
<1> QED
  BY <1>3, <1>11

(* A list with one piece more, a piece with its label, a list within its   *)
(* brackets: names that keep the provers from looking inside.              *)
Longer(before, n, piece) == before \o Comma(n) \o piece
Labelled(v, item, text) == Label(v, item) \o text
Within(v, list) == <<Opening(v)>> \o list \o <<Closing(v)>>

LEMMA ListsByHas ==
  ASSUME NEW l, NEW pieces, NEW n \in Nat \ {0}
  PROVE  \A list : list \in ListsBy(l, pieces, n) <=>
           \E before \in l[n - 1] : \E piece \in pieces[n] : list = Longer(before, n, piece)
<1>1. ListsBy(l, pieces, n) = {Longer(before, n, piece) : before \in l[n - 1], piece \in pieces[n]}
  BY SMT DEF ListsBy, Longer
<1> QED
  BY <1>1

LEMMA ListsAre ==
  ASSUME NEW pieces, Len(pieces) \in Nat
  PROVE  /\ Lists(pieces)[0] = {<<>>}
         /\ \A n \in 1 .. Len(pieces) : \A list : list \in Lists(pieces)[n] <=>
              \E before \in Lists(pieces)[n - 1] : \E piece \in pieces[n] :
                list = Longer(before, n, piece)
<1> DEFINE L == Lists(pieces)
<1>1. \E l : l = [n \in 0 .. Len(pieces) |-> ListsBy(l, pieces, n)]
  BY ListsExist
<1>2. L = CHOOSE l : l = [n \in 0 .. Len(pieces) |-> ListsBy(l, pieces, n)]
  BY Zenon DEF Lists
<1> HIDE DEF L
<1>3. L = [n \in 0 .. Len(pieces) |-> ListsBy(L, pieces, n)]
  BY <1>1, <1>2
<1>4. \A n \in 0 .. Len(pieces) : L[n] = ListsBy(L, pieces, n)
  BY <1>3
<1>5. ListsBy(L, pieces, 0) = {<<>>}
  BY DEF ListsBy
<1>6. ASSUME NEW n \in 1 .. Len(pieces)
      PROVE  \A list : list \in L[n] <=>
               \E before \in L[n - 1] : \E piece \in pieces[n] : list = Longer(before, n, piece)
  <2>1. n \in Nat \ {0} /\ L[n] = ListsBy(L, pieces, n)
    BY <1>4
  <2>2. \A list : list \in ListsBy(L, pieces, n) <=>
          \E before \in L[n - 1] : \E piece \in pieces[n] : list = Longer(before, n, piece)
    BY <2>1, ListsByHas
  <2> QED
    BY <2>1, <2>2
<1>7. L[0] = {<<>>}
  BY <1>4, <1>5
<1> QED
  BY <1>6, <1>7 DEF L

-----------------------------------------------------------------------------
(* Tokens: what a text may be made of, and joining texts                   *)

Words ==
  {"{", "}", "[", "]", ",", ":"} \cup {GenValues[v].text : v \in Nodes}
    \cup UNION {{Items(v)[i].key : i \in DOMAIN Items(v)} :
                  v \in {u \in Nodes : Kind(u) = "object"}}

Tokens == Seq(Words)

LEMMA Joined ==
  ASSUME NEW x \in Tokens, NEW y \in Tokens
  PROVE  x \o y \in Tokens
BY ConcatProperties DEF Tokens

LEMMA Apart ==
  ASSUME NEW x \in Tokens, NEW y \in Tokens, NEW z \in Tokens
  PROVE  (x \o y) \o z = x \o (y \o z)
BY ConcatAssociative DEF Tokens

LEMMA Nothing ==
  /\ <<>> \in Tokens
  /\ \A x \in Tokens : x \o <<>> = x /\ <<>> \o x = x
<1>1. <<>> \in Tokens
  BY DEF Tokens
<1> QED
  BY <1>1, ConcatEmptySeq DEF Tokens

LEMMA TwoWords ==
  ASSUME NEW x \in Words, NEW y \in Words
  PROVE  <<x>> \in Tokens /\ <<x, y>> \in Tokens /\ <<x>> \o <<y>> = <<x, y>>
<1> DEFINE s == <<x>>
           t == <<y>>
           u == <<x, y>>
<1>1. /\ s \in Tokens /\ Len(s) = 1 /\ s[1] = x
      /\ t \in Tokens /\ Len(t) = 1 /\ t[1] = y
      /\ u \in Tokens /\ Len(u) = 2 /\ u[1] = x /\ u[2] = y
  BY DEF Tokens
<1> HIDE DEF s, t, u
<1>2. s \o t \in Tokens /\ Len(s \o t) = 2 /\ (s \o t)[1] = x /\ (s \o t)[2] = y
  BY <1>1, ConcatProperties DEF Tokens
<1>3. s \o t = u
  BY <1>1, <1>2, SeqEqual DEF Tokens
<1> QED
  BY <1>1, <1>3 DEF s, t, u

LEMMA OneWord ==
  /\ <<"{">> \in Tokens /\ <<"}">> \in Tokens /\ <<"[">> \in Tokens /\ <<"]">> \in Tokens
  /\ <<",">> \in Tokens /\ <<":">> \in Tokens
  /\ \A w \in Words : <<w>> \in Tokens /\ <<w, ":">> \in Tokens /\ <<w>> \o <<":">> = <<w, ":">>
<1>1. /\ "{" \in Words /\ "}" \in Words /\ "[" \in Words /\ "]" \in Words
      /\ "," \in Words /\ ":" \in Words
  BY DEF Words
<1> QED
  BY <1>1, TwoWords

LEMMA WordsHave ==
  /\ \A v \in Nodes : GenValues[v].text \in Words
  /\ \A v \in Nodes : Kind(v) = "object" => \A i \in DOMAIN Items(v) : Items(v)[i].key \in Words
<1>1. \A v \in Nodes : GenValues[v].text \in Words
  BY DEF Words
<1>2. ASSUME NEW v \in Nodes, Kind(v) = "object", NEW i \in DOMAIN Items(v)
      PROVE  Items(v)[i].key \in Words
  <2>1. Items(v)[i].key \in {Items(v)[k].key : k \in DOMAIN Items(v)}
    OBVIOUS
  <2>2. v \in {u \in Nodes : Kind(u) = "object"}
    BY <1>2
  <2> QED
    BY <2>1, <2>2 DEF Words
<1> QED
  BY <1>1, <1>2

LEMMA PartsAreTokens ==
  /\ \A n : Comma(n) \in Tokens
  /\ \A v \in Nodes : <<Opening(v)>> \in Tokens /\ <<Closing(v)>> \in Tokens
  /\ \A v \in Nodes : IsContainer(v) => \A i \in DOMAIN Items(v) : Label(v, Items(v)[i]) \in Tokens
<1>1. \A n : Comma(n) \in Tokens
  BY OneWord, Nothing DEF Comma
<1>2. \A v \in Nodes : <<Opening(v)>> \in Tokens /\ <<Closing(v)>> \in Tokens
  BY OneWord DEF Opening, Closing
<1>3. \A v \in Nodes : IsContainer(v) => \A i \in DOMAIN Items(v) : Label(v, Items(v)[i]) \in Tokens
  BY OneWord, Nothing, WordsHave DEF Label
<1> QED
  BY <1>1, <1>2, <1>3

LEMMA ListsAreTokens ==
  ASSUME NEW pieces, Len(pieces) \in Nat,
         \A n \in 1 .. Len(pieces) : pieces[n] \subseteq Tokens
  PROVE  \A n \in 0 .. Len(pieces) : Lists(pieces)[n] \subseteq Tokens
<1> DEFINE Bad == {n \in 0 .. Len(pieces) : ~(Lists(pieces)[n] \subseteq Tokens)}
<1>1. SUFFICES ASSUME Bad # {} PROVE FALSE
  OBVIOUS
<1>2. PICK k \in Bad : \A m \in Bad : k <= m
  <2>1. Bad \in SUBSET Nat
    OBVIOUS
  <2> HIDE DEF Bad
  <2> QED
    BY <1>1, <2>1, HasLeast
<1>3. k # 0
  BY <1>2, ListsAre, Nothing
<1>4. k \in 1 .. Len(pieces) /\ k - 1 \in 0 .. Len(pieces) /\ k - 1 \notin Bad
  BY <1>2, <1>3
<1>5. ASSUME NEW list \in Lists(pieces)[k]
      PROVE  list \in Tokens
  <2>1. PICK before \in Lists(pieces)[k - 1] : \E piece \in pieces[k] : list = Longer(before, k, piece)
    BY <1>4, ListsAre
  <2>2. PICK piece \in pieces[k] : list = Longer(before, k, piece)
    BY <2>1
  <2>3. before \in Tokens /\ piece \in Tokens
    BY <1>4
  <2>4. before \o Comma(k) \in Tokens
    BY <2>3, PartsAreTokens, Joined
  <2> QED
    BY <2>2, <2>3, <2>4, Joined DEF Longer
<1> QED
  BY <1>2, <1>5

(* What may stand for v up to its n-th item.                               *)
ListsOf(v, order, n) == Lists(Pieces(TextsOf, v, order))[n]

(* The item of v that is told n-th.                                        *)
ItemAt(v, order, n) == Items(v)[order[n]]

LEMMA PiecesAre ==
  ASSUME NEW v \in Nodes, IsContainer(v), NEW order \in Orders(v)
  PROVE  /\ Len(Pieces(TextsOf, v, order)) = Len(Items(v))
         /\ \A n \in 1 .. Len(Items(v)) :
              /\ order[n] \in DOMAIN Items(v)
              /\ \A piece : piece \in Pieces(TextsOf, v, order)[n] <=>
                   \E text \in TextsOf[ItemAt(v, order, n).value] :
                     piece = Labelled(v, ItemAt(v, order, n), text)
<1>1. Len(Items(v)) \in Nat /\ DOMAIN Items(v) = 1 .. Len(Items(v))
  BY ItemsAreSequences
<1>2. order \in [DOMAIN Items(v) -> DOMAIN Items(v)]
  BY OrderIs
<1>3. Len(Pieces(TextsOf, v, order)) = Len(Items(v))
  BY <1>1 DEF Pieces
<1>4. \A n \in 1 .. Len(Items(v)) : Pieces(TextsOf, v, order)[n] =
        {Labelled(v, ItemAt(v, order, n), text) : text \in TextsOf[ItemAt(v, order, n).value]}
  BY <1>1 DEF Pieces, ItemAt, Labelled
<1> QED
  BY <1>1, <1>2, <1>3, <1>4

LEMMA ListsOfAre ==
  ASSUME NEW v \in Nodes, IsContainer(v), NEW order \in Orders(v)
  PROVE  /\ ListsOf(v, order, 0) = {<<>>}
         /\ \A n \in 1 .. Len(Items(v)) : \A list : list \in ListsOf(v, order, n) <=>
              \E before \in ListsOf(v, order, n - 1) :
                \E text \in TextsOf[ItemAt(v, order, n).value] :
                  list = Longer(before, n, Labelled(v, ItemAt(v, order, n), text))
<1> DEFINE pieces == Pieces(TextsOf, v, order)
<1>1. Len(pieces) = Len(Items(v)) /\ Len(Items(v)) \in Nat
  BY PiecesAre, ItemsAreSequences
<1>2. \A n \in 1 .. Len(Items(v)) : \A piece : piece \in pieces[n] <=>
        \E text \in TextsOf[ItemAt(v, order, n).value] :
          piece = Labelled(v, ItemAt(v, order, n), text)
  BY PiecesAre
<1> HIDE DEF pieces
<1>3. Lists(pieces)[0] = {<<>>}
  BY <1>1, ListsAre
<1>4. \A n \in 1 .. Len(Items(v)) : \A list : list \in Lists(pieces)[n] <=>
        \E before \in Lists(pieces)[n - 1] : \E piece \in pieces[n] :
          list = Longer(before, n, piece)
  BY <1>1, ListsAre
<1>5. ASSUME NEW n \in 1 .. Len(Items(v))
      PROVE  \A list : list \in Lists(pieces)[n] <=>
              \E before \in Lists(pieces)[n - 1] :
                \E text \in TextsOf[ItemAt(v, order, n).value] :
                  list = Longer(before, n, Labelled(v, ItemAt(v, order, n), text))
  <2>1. \A piece : piece \in pieces[n] <=>
          \E text \in TextsOf[ItemAt(v, order, n).value] :
            piece = Labelled(v, ItemAt(v, order, n), text)
    BY <1>2
  <2>2. \A list : list \in Lists(pieces)[n] <=>
          \E before \in Lists(pieces)[n - 1] : \E piece \in pieces[n] :
            list = Longer(before, n, piece)
    BY <1>1, <1>4
  <2> QED
    <3> DEFINE P == pieces[n]
               L == Lists(pieces)[n]
               B == Lists(pieces)[n - 1]
               T == TextsOf[ItemAt(v, order, n).value]
               W(text) == Labelled(v, ItemAt(v, order, n), text)
    <3>1. \A piece : piece \in P <=> \E text \in T : piece = W(text)
      BY <2>1
    <3>2. \A list : list \in L <=>
            \E before \in B : \E piece \in P : list = Longer(before, n, piece)
      BY <2>2
    <3> HIDE DEF P, L, B, T, W
    <3>3. \A list : list \in L <=>
            \E before \in B : \E text \in T : list = Longer(before, n, W(text))
      BY <3>1, <3>2
    <3> QED
      BY <3>3, Zenon DEF P, L, B, T, W
<1> QED
  BY <1>3, <1>5 DEF ListsOf, pieces

LEMMA TextsHave ==
  ASSUME NEW v \in Nodes, IsContainer(v)
  PROVE  \A text : text \in TextsOf[v] <=>
           \E order \in Orders(v) : \E list \in ListsOf(v, order, Len(Items(v))) :
             text = Within(v, list)
<1>1. TextsBy(TextsOf, v) =
        UNION {{Within(v, list) : list \in ListsOf(v, order, Len(Items(v)))} : order \in Orders(v)}
  BY SMT DEF TextsBy, ListsOf, Within
<1>2. \A text : text \in TextsBy(TextsOf, v) <=>
        \E order \in Orders(v) : \E list \in ListsOf(v, order, Len(Items(v))) : text = Within(v, list)
  BY <1>1
<1> QED
  BY <1>2, TextsAre

LEMMA TextsAreTokens == \A v \in Nodes : TextsOf[v] \subseteq Tokens
<1> DEFINE Bad == {v \in Nodes : ~(TextsOf[v] \subseteq Tokens)}
<1>1. SUFFICES ASSUME Bad # {} PROVE FALSE
  OBVIOUS
<1>2. PICK v \in Bad : IsContainer(v) => \A i \in DOMAIN Items(v) : Items(v)[i].value \in Nodes \ Bad
  <2>1. Bad \in SUBSET Nodes
    OBVIOUS
  <2> HIDE DEF Bad
  <2> QED
    BY <1>1, <2>1, LeastNode
<1>3. v \in Nodes /\ TextsOf[v] = TextsBy(TextsOf, v)
  BY TextsAre
<1>4. CASE ~IsContainer(v)
  BY <1>2, <1>3, <1>4, OneWord, WordsHave DEF TextsBy
<1>5. CASE IsContainer(v)
  <2>1. ASSUME NEW order \in Orders(v)
        PROVE  ListsOf(v, order, Len(Items(v))) \subseteq Tokens
    <3> DEFINE pieces == Pieces(TextsOf, v, order)
    <3>1. Len(pieces) = Len(Items(v)) /\ Len(pieces) \in Nat
      BY <1>5, PiecesAre, ItemsAreSequences
    <3>2. ASSUME NEW n \in 1 .. Len(pieces), NEW piece \in pieces[n]
          PROVE  piece \in Tokens
      <4>1. order[n] \in DOMAIN Items(v)
        BY <1>5, <3>1, PiecesAre
      <4>2. \E text \in TextsOf[ItemAt(v, order, n).value] :
              piece = Labelled(v, ItemAt(v, order, n), text)
        BY <1>3, <1>5, <3>1, <3>2, PiecesAre
      <4>3. PICK text \in TextsOf[ItemAt(v, order, n).value] :
              piece = Labelled(v, ItemAt(v, order, n), text)
        BY <4>2
      <4>4. text \in Tokens
        BY <1>2, <1>5, <4>1 DEF ItemAt
      <4>5. Label(v, ItemAt(v, order, n)) \in Tokens
        BY <1>5, <4>1, PartsAreTokens DEF ItemAt
      <4> QED
        BY <4>3, <4>4, <4>5, Joined DEF Labelled
    <3> HIDE DEF pieces
    <3>3. Lists(pieces)[Len(pieces)] \subseteq Tokens
      BY <3>1, <3>2, ListsAreTokens
    <3> QED
      BY <3>1, <3>3 DEF pieces, ListsOf
  <2>2. ASSUME NEW text \in TextsOf[v]
        PROVE  text \in Tokens
    <3>1. PICK order \in Orders(v) : \E list \in ListsOf(v, order, Len(Items(v))) :
            text = Within(v, list)
      BY <1>3, <1>5, <2>2, TextsHave
    <3>2. PICK list \in ListsOf(v, order, Len(Items(v))) :
            text = Within(v, list)
      BY <3>1
    <3>3. list \in Tokens /\ <<Opening(v)>> \in Tokens /\ <<Closing(v)>> \in Tokens
      BY <1>3, <2>1, PartsAreTokens
    <3> QED
      BY <3>2, <3>3, Joined DEF Within
  <2> QED
    BY <2>2
<1> QED
  BY <1>4, <1>5

-----------------------------------------------------------------------------
(* What the rest of a walk comes to                                        *)

GeneratorStates ==
  {"start", "complete", "map_start", "map_val", "map_key", "array_start", "in_array"}

Stacks == Seq(GeneratorStates) \ {<<>>}

Members ==
  UNION {{Items(v)[i] : i \in DOMAIN Items(v)} : v \in {u \in Nodes : Kind(u) = "object"}}

Tells == [what : {"value", "member", "end object", "end array"}, of : Nodes \cup Members]

(* What the generator in states s writes for text, and the rest after it.  *)
Told(s, text, rest) == Separator(Head(s)) \o text \o rest

(* A call of the walk takes the states s to s2; and whatever may come      *)
(* after it, one of a2, may come after what it tells before that, as one   *)
(* of a.  Of a container this counts the calls for its items, too.         *)
Link(tell, s, a, s2, a2) ==
  \/ /\ tell.what = "value" /\ tell.of \in Nodes
     /\ Head(s) \in {"start", "map_val", "array_start", "in_array"} /\ s2 = Moved(s)
     /\ \A text \in TextsOf[tell.of], rest \in a2 : Told(s, text, rest) \in a
  \/ /\ tell.what = "member" /\ tell.of.value \in Nodes /\ tell.of.key \in Words
     /\ Head(s) \in {"map_start", "map_key"} /\ s2 = <<"map_key">> \o Tail(s)
     /\ \A text \in TextsOf[tell.of.value], rest \in a2 :
          Told(s, <<tell.of.key, ":">> \o text, rest) \in a
  \/ /\ tell.what \in {"end object", "end array"} /\ Tail(s) # <<>> /\ s2 = Moved(Tail(s))
     /\ \A rest \in a2 :
          <<IF tell.what = "end object" THEN "}" ELSE "]">> \o rest \in a

Chain(todo, S, A) ==
  /\ S \in [1 .. Len(todo) + 1 -> Stacks]
  /\ A \in [1 .. Len(todo) + 1 -> SUBSET Tokens]
  /\ \A k \in 1 .. Len(todo) : Link(todo[k], S[k], A[k], S[k + 1], A[k + 1])

(* What is left to tell comes, from the states s, to one of a.             *)
Leads(todo, s, a) ==
  \E S, A : Chain(todo, S, A) /\ S[1] = s /\ A[1] = a /\ <<>> \in A[Len(todo) + 1]

(* At its end, one link along it, and with a chain put in front of it.     *)
LEMMA LeadsNowhere ==
  ASSUME NEW s, NEW a, Leads(<<>>, s, a)
  PROVE  <<>> \in a
<1>1. PICK S, A : A[1] = a /\ <<>> \in A[Len(<<>>) + 1]
  BY DEF Leads
<1>2. Len(<<>>) + 1 = 1
  OBVIOUS
<1> QED
  BY <1>1, <1>2

LEMMA LeadsOneOn ==
  ASSUME NEW todo \in Seq(Tells), todo # <<>>, NEW s, NEW a, Leads(todo, s, a)
  PROVE  \E s2 \in Stacks, a2 \in SUBSET Tokens :
           Link(Head(todo), s, a, s2, a2) /\ Leads(Tail(todo), s2, a2)
<1>1. PICK S, A : Chain(todo, S, A) /\ S[1] = s /\ A[1] = a /\ <<>> \in A[Len(todo) + 1]
  BY DEF Leads
<1> DEFINE rest == Tail(todo)
           n == Len(todo)
           S2 == [k \in 1 .. n |-> S[k + 1]]
           A2 == [k \in 1 .. n |-> A[k + 1]]
<1>2. /\ rest \in Seq(Tells) /\ Len(rest) = n - 1 /\ n \in Nat /\ n >= 1
      /\ Head(todo) = todo[1] /\ \A k \in 1 .. n - 1 : rest[k] = todo[k + 1]
  BY HeadTailProperties
<1> HIDE DEF rest, n
<1>3. /\ S \in [1 .. n + 1 -> Stacks] /\ A \in [1 .. n + 1 -> SUBSET Tokens]
      /\ \A k \in 1 .. n : Link(todo[k], S[k], A[k], S[k + 1], A[k + 1])
  BY <1>1 DEF Chain, n
<1>4. Link(Head(todo), s, a, S[2], A[2])
  BY <1>1, <1>2, <1>3
<1>5. S2 \in [1 .. Len(rest) + 1 -> Stacks] /\ A2 \in [1 .. Len(rest) + 1 -> SUBSET Tokens]
  BY <1>2, <1>3
<1>6. ASSUME NEW k \in 1 .. Len(rest)
      PROVE  Link(rest[k], S2[k], A2[k], S2[k + 1], A2[k + 1])
  <2>1. k + 1 \in 1 .. n /\ k \in 1 .. n /\ rest[k] = todo[k + 1]
    BY <1>2
  <2>2. S2[k] = S[k + 1] /\ A2[k] = A[k + 1] /\ S2[k + 1] = S[k + 2] /\ A2[k + 1] = A[k + 2]
    BY <2>1
  <2>3. Link(todo[k + 1], S[k + 1], A[k + 1], S[k + 2], A[k + 2])
    BY <1>3, <2>1
  <2> QED
    BY <2>1, <2>2, <2>3
<1>7. /\ S2[1] = S[2] /\ A2[1] = A[2] /\ A2[Len(rest) + 1] = A[n + 1]
      /\ S[2] \in Stacks /\ A[2] \in SUBSET Tokens
  BY <1>2, <1>3
<1> HIDE DEF S2, A2
<1>8. Leads(rest, S[2], A[2])
  BY <1>1, <1>5, <1>6, <1>7 DEF Leads, Chain, n
<1> QED
  BY <1>4, <1>7, <1>8 DEF rest

LEMMA LeadsOn ==
  ASSUME NEW deeper \in Seq(Tells), NEW rest \in Seq(Tells), NEW S, NEW A,
         Chain(deeper, S, A), Leads(rest, S[Len(deeper) + 1], A[Len(deeper) + 1])
  PROVE  Leads(deeper \o rest, S[1], A[1])
<1>1. PICK R, B : /\ Chain(rest, R, B) /\ R[1] = S[Len(deeper) + 1] /\ B[1] = A[Len(deeper) + 1]
                  /\ <<>> \in B[Len(rest) + 1]
  BY DEF Leads
<1> DEFINE d == Len(deeper)
           n == Len(rest)
           todo == deeper \o rest
           S2 == [k \in 1 .. d + n + 1 |-> IF k <= d THEN S[k] ELSE R[k - d]]
           A2 == [k \in 1 .. d + n + 1 |-> IF k <= d THEN A[k] ELSE B[k - d]]
<1>2. /\ todo \in Seq(Tells) /\ Len(todo) = d + n /\ d \in Nat /\ n \in Nat
      /\ \A k \in 1 .. d + n : todo[k] = IF k <= d THEN deeper[k] ELSE rest[k - d]
  BY ConcatProperties
<1>3. /\ S \in [1 .. d + 1 -> Stacks] /\ A \in [1 .. d + 1 -> SUBSET Tokens]
      /\ \A k \in 1 .. d : Link(deeper[k], S[k], A[k], S[k + 1], A[k + 1])
      /\ R \in [1 .. n + 1 -> Stacks] /\ B \in [1 .. n + 1 -> SUBSET Tokens]
      /\ \A k \in 1 .. n : Link(rest[k], R[k], B[k], R[k + 1], B[k + 1])
      /\ R[1] = S[d + 1] /\ B[1] = A[d + 1] /\ <<>> \in B[n + 1]
  BY <1>1 DEF Chain
<1> HIDE DEF d, n, todo
<1>4. S2 \in [1 .. d + n + 1 -> Stacks] /\ A2 \in [1 .. d + n + 1 -> SUBSET Tokens]
  <2>1. ASSUME NEW k \in 1 .. d + n + 1
        PROVE  S2[k] \in Stacks /\ A2[k] \in SUBSET Tokens
    <3>1. CASE k <= d
      BY <1>2, <1>3, <3>1
    <3>2. CASE ~(k <= d)
      <4>1. k - d \in 1 .. n + 1
        BY <1>2, <3>2
      <4> QED
        BY <1>3, <3>2, <4>1
    <3> QED
      BY <3>1, <3>2
  <2> QED
    BY <2>1
<1>5. \A k \in 1 .. d + 1 : S2[k] = S[k] /\ A2[k] = A[k]
  BY <1>2, <1>3
<1>6. \A k \in 1 .. n + 1 : S2[d + k] = R[k] /\ A2[d + k] = B[k]
  BY <1>2, <1>3
<1> HIDE DEF S2, A2
<1>7. ASSUME NEW k \in 1 .. d + n
      PROVE  Link(todo[k], S2[k], A2[k], S2[k + 1], A2[k + 1])
  <2>1. CASE k <= d
    <3>1. k \in 1 .. d /\ k \in 1 .. d + 1 /\ k + 1 \in 1 .. d + 1 /\ todo[k] = deeper[k]
      BY <1>2, <2>1
    <3> QED
      BY <1>3, <1>5, <3>1
  <2>2. CASE ~(k <= d)
    <3> DEFINE j == k - d
    <3>1. j \in 1 .. n /\ j \in 1 .. n + 1 /\ j + 1 \in 1 .. n + 1 /\ todo[k] = rest[j]
      BY <1>2, <2>2
    <3>2. k = d + j /\ k + 1 = d + (j + 1)
      BY <1>2
    <3> HIDE DEF j
    <3>3. S2[k] = R[j] /\ A2[k] = B[j] /\ S2[k + 1] = R[j + 1] /\ A2[k + 1] = B[j + 1]
      BY <1>6, <3>1, <3>2
    <3> QED
      BY <1>3, <3>1, <3>3
  <2> QED
    BY <2>1, <2>2
<1>8. S2[1] = S[1] /\ A2[1] = A[1] /\ <<>> \in A2[d + n + 1]
  <2>1. d + n + 1 = d + (n + 1) /\ 1 \in 1 .. d + 1 /\ n + 1 \in 1 .. n + 1
    BY <1>2
  <2> QED
    BY <1>3, <1>5, <1>6, <2>1
<1>9. Chain(todo, S2, A2)
  BY <1>2, <1>4, <1>7 DEF Chain
<1> QED
  BY <1>2, <1>8, <1>9 DEF Leads, todo

(* One state on top of a stack.                                            *)
LEMMA Pushed ==
  ASSUME NEW x \in GeneratorStates, NEW s \in Seq(GeneratorStates)
  PROVE  <<x>> \o s \in Stacks /\ Head(<<x>> \o s) = x /\ Tail(<<x>> \o s) = s
<1> DEFINE t == <<x>> \o s
<1>1. /\ t \in Seq(GeneratorStates) /\ Len(t) = 1 + Len(s) /\ Len(s) \in Nat
      /\ \A i \in 1 .. 1 + Len(s) : t[i] = IF i <= 1 THEN x ELSE s[i - 1]
  <2>1. /\ <<x>> \in Seq(GeneratorStates) /\ Len(<<x>>) = 1 /\ <<x>>[1] = x
        /\ \A i \in 1 .. 1 : <<x>>[i] = x
    OBVIOUS
  <2>2. Len(s) \in Nat
    OBVIOUS
  <2> QED
    BY <2>1, <2>2, ConcatProperties
<1> HIDE DEF t
<1>2. t # <<>>
  BY <1>1
<1>3. Head(t) = x
  BY <1>1, <1>2
<1>4. /\ Tail(t) \in Seq(GeneratorStates) /\ Len(Tail(t)) = Len(s)
      /\ \A i \in 1 .. Len(s) : Tail(t)[i] = s[i]
  BY <1>1, <1>2, HeadTailProperties
<1>5. Tail(t) = s
  BY <1>4, SeqEqual
<1> QED
  BY <1>1, <1>2, <1>3, <1>5 DEF t, Stacks

LEMMA StackIs ==
  ASSUME NEW s \in Stacks
  PROVE  Head(s) \in GeneratorStates /\ Tail(s) \in Seq(GeneratorStates)
BY HeadTailProperties DEF Stacks

LEMMA AfterIs ==
  /\ \A x \in GeneratorStates : After[x] \in GeneratorStates
  /\ After["map_val"] = "map_key" /\ After["map_key"] = "map_val" /\ After["map_start"] = "map_val"
  /\ After["array_start"] = "in_array" /\ After["in_array"] = "in_array"
  /\ After["start"] = "complete"
BY DEF After, GeneratorStates

LEMMA SeparatorIs ==
  /\ \A x \in GeneratorStates : Separator(x) \in Tokens
  /\ Separator("map_val") = <<":">> /\ Separator("map_key") = <<",">> /\ Separator("map_start") = <<>>
  /\ Separator("array_start") = <<>> /\ Separator("in_array") = <<",">> /\ Separator("start") = <<>>
<1>1. \A x : Separator(x) = IF x \in {"map_key", "in_array"} THEN <<",">>
                           ELSE IF x = "map_val" THEN <<":">> ELSE <<>>
  BY DEF Separator
<1> QED
  BY <1>1, OneWord, Nothing

LEMMA MovedIs ==
  ASSUME NEW s \in Stacks
  PROVE  Moved(s) \in Stacks /\ Head(Moved(s)) = After[Head(s)] /\ Tail(Moved(s)) = Tail(s)
BY StackIs, AfterIs, Pushed DEF Moved

(* Joining, by a name of its own for longer texts.                         *)
Glued(x, y) == x \o y

LEMMA Glue ==
  /\ \A x, y \in Tokens : Glued(x, y) \in Tokens
  /\ \A x, y, z \in Tokens : Glued(Glued(x, y), z) = Glued(x, Glued(y, z))
BY Joined, Apart DEF Glued

LEMMA RegroupLonger ==
  ASSUME NEW p \in Tokens, NEW o \in Tokens, NEW l \in Tokens, NEW c \in Tokens,
         NEW x \in Tokens, NEW r \in Tokens
  PROVE  Glued(Glued(p, Glued(o, l)), Glued(Glued(c, x), r))
           = Glued(Glued(p, Glued(o, Glued(Glued(l, c), x))), r)
<1>1. PICK cx \in Tokens : cx = Glued(c, x)
  BY Glue
<1>2. PICK ol \in Tokens : ol = Glued(o, l)
  BY Glue
<1>3. PICK pol \in Tokens : pol = Glued(p, ol)
  BY Glue
<1>4. Glued(pol, Glued(cx, r)) = Glued(Glued(pol, cx), r)
  BY Glue
<1>5. Glued(pol, cx) = Glued(p, Glued(ol, cx))
  BY <1>3, Glue
<1>6. Glued(ol, cx) = Glued(o, Glued(l, cx))
  BY <1>2, Glue
<1>7. Glued(l, cx) = Glued(Glued(l, c), x)
  BY <1>1, Glue
<1> QED
  BY <1>1, <1>2, <1>3, <1>4, <1>5, <1>6, <1>7

LEMMA RegroupClosed ==
  ASSUME NEW p \in Tokens, NEW o \in Tokens, NEW l \in Tokens, NEW c \in Tokens, NEW r \in Tokens
  PROVE  Glued(Glued(p, Glued(o, l)), Glued(c, r)) = Glued(Glued(p, Glued(Glued(o, l), c)), r)
<1>1. PICK ol \in Tokens : ol = Glued(o, l)
  BY Glue
<1>2. PICK pol \in Tokens : pol = Glued(p, ol)
  BY Glue
<1>3. Glued(pol, Glued(c, r)) = Glued(Glued(pol, c), r)
  BY Glue
<1>4. Glued(pol, c) = Glued(p, Glued(ol, c))
  BY <1>2, Glue
<1> QED
  BY <1>1, <1>2, <1>3, <1>4

LEMMA ToldIsTokens ==
  ASSUME NEW s \in Stacks, NEW x \in Tokens, NEW r \in Tokens
  PROVE  Told(s, x, r) \in Tokens
<1>1. Separator(Head(s)) \in Tokens
  BY StackIs, SeparatorIs
<1>2. Separator(Head(s)) \o x \in Tokens
  BY <1>1, Joined
<1> QED
  BY <1>2, Joined DEF Told

(* A container that is open, with a list in it and one item more.          *)
LEMMA ToldLonger ==
  ASSUME NEW s \in Stacks, NEW s2 \in Stacks, NEW n, Separator(Head(s2)) = Comma(n),
         NEW open \in Tokens, NEW list \in Tokens, NEW piece \in Tokens, NEW r \in Tokens
  PROVE  /\ Told(s, open \o list, Told(s2, piece, r)) = Told(s, open \o Longer(list, n, piece), r)
         /\ open \o list \in Tokens /\ Longer(list, n, piece) \in Tokens
<1>1. Separator(Head(s)) \in Tokens /\ Comma(n) \in Tokens
  BY StackIs, SeparatorIs, PartsAreTokens
<1>2. Glued(Glued(Separator(Head(s)), Glued(open, list)), Glued(Glued(Comma(n), piece), r))
        = Glued(Glued(Separator(Head(s)), Glued(open, Glued(Glued(list, Comma(n)), piece))), r)
  BY <1>1, RegroupLonger
<1>3. Told(s, open \o list, Told(s2, piece, r)) = Told(s, open \o Longer(list, n, piece), r)
  BY <1>2, Zenon DEF Told, Longer, Glued
<1>4. list \o Comma(n) \in Tokens /\ open \o list \in Tokens
  BY <1>1, Joined
<1> QED
  BY <1>3, <1>4, Joined DEF Longer

(* And with its end.                                                       *)
LEMMA ToldClosed ==
  ASSUME NEW s \in Stacks, NEW v \in Nodes, NEW list \in Tokens, NEW r \in Tokens
  PROVE  Told(s, <<Opening(v)>> \o list, <<Closing(v)>> \o r) = Told(s, Within(v, list), r)
<1>1. Separator(Head(s)) \in Tokens /\ <<Opening(v)>> \in Tokens /\ <<Closing(v)>> \in Tokens
  BY StackIs, SeparatorIs, PartsAreTokens
<1>2. Glued(Glued(Separator(Head(s)), Glued(<<Opening(v)>>, list)), Glued(<<Closing(v)>>, r))
        = Glued(Glued(Separator(Head(s)), Glued(Glued(<<Opening(v)>>, list), <<Closing(v)>>)), r)
  BY <1>1, RegroupClosed
<1> QED
  BY <1>2, Zenon DEF Told, Within, Glued

-----------------------------------------------------------------------------
(* A container that is being told                                          *)

(* The states when n items of v are told, and what may come then.          *)
StateAt(v, n) ==
  IF Kind(v) = "object" THEN IF n = 0 THEN "map_start" ELSE "map_key"
  ELSE IF n = 0 THEN "array_start" ELSE "in_array"

StackAt(v, s, n) == <<StateAt(v, n)>> \o s

RestsAt(v, order, s, a, n) ==
  {r \in Tokens : \A list \in ListsOf(v, order, n) : Told(s, <<Opening(v)>> \o list, r) \in a}

LEMMA StackAtIs ==
  ASSUME NEW v \in Nodes, IsContainer(v), NEW s \in Stacks, NEW n \in Nat
  PROVE  /\ StackAt(v, s, n) \in Stacks /\ Head(StackAt(v, s, n)) = StateAt(v, n)
         /\ Tail(StackAt(v, s, n)) = s
         /\ Separator(StateAt(v, n)) = Comma(n + 1)
         /\ Kind(v) = "object" => StateAt(v, n) \in {"map_start", "map_key"}
         /\ Kind(v) = "array" => /\ StateAt(v, n) \in {"array_start", "in_array"}
                                 /\ After[StateAt(v, n)] = StateAt(v, n + 1)
<1>1. s \in Seq(GeneratorStates)
  BY DEF Stacks
<1>2. StateAt(v, n) \in GeneratorStates
  BY DEF StateAt, GeneratorStates
<1>3. /\ StackAt(v, s, n) \in Stacks /\ Head(StackAt(v, s, n)) = StateAt(v, n)
      /\ Tail(StackAt(v, s, n)) = s
  BY <1>1, <1>2, Pushed DEF StackAt
<1>4. Separator(StateAt(v, n)) = Comma(n + 1)
  <2>1. CASE n = 0
    <3>1. Comma(n + 1) = <<>>
      BY <2>1 DEF Comma
    <3>2. StateAt(v, n) \in {"map_start", "array_start"}
      BY <2>1 DEF StateAt
    <3> QED
      BY <3>1, <3>2, SeparatorIs
  <2>2. CASE n # 0
    <3> DEFINE m == n + 1
    <3>0. m # 1
      BY <2>2
    <3> HIDE DEF m
    <3>1. Comma(m) = <<",">>
      BY <3>0, Zenon DEF Comma
    <3>2. StateAt(v, n) \in {"map_key", "in_array"}
      BY <2>2 DEF StateAt
    <3> QED
      BY <3>1, <3>2, SeparatorIs DEF m
  <2> QED
    BY <2>1, <2>2
<1>5. Kind(v) = "object" => StateAt(v, n) \in {"map_start", "map_key"}
  BY DEF StateAt
<1>6. Kind(v) = "array" => /\ StateAt(v, n) \in {"array_start", "in_array"}
                           /\ After[StateAt(v, n)] = StateAt(v, n + 1)
  BY AfterIs DEF StateAt
<1> QED
  BY <1>3, <1>4, <1>5, <1>6

LEMMA ListsOfAreTokens ==
  ASSUME NEW v \in Nodes, IsContainer(v), NEW order \in Orders(v)
  PROVE  \A n \in 0 .. Len(Items(v)) : ListsOf(v, order, n) \subseteq Tokens
<1> DEFINE pieces == Pieces(TextsOf, v, order)
<1>1. Len(pieces) = Len(Items(v)) /\ Len(pieces) \in Nat
  BY PiecesAre, ItemsAreSequences
<1>2. ASSUME NEW n \in 1 .. Len(pieces), NEW piece \in pieces[n]
      PROVE  piece \in Tokens
  <2>1. order[n] \in DOMAIN Items(v)
    BY <1>1, PiecesAre
  <2>2. \E text \in TextsOf[ItemAt(v, order, n).value] :
          piece = Labelled(v, ItemAt(v, order, n), text)
    BY <1>1, <1>2, PiecesAre
  <2>3. PICK text \in TextsOf[ItemAt(v, order, n).value] :
          piece = Labelled(v, ItemAt(v, order, n), text)
    BY <2>2
  <2>4. ItemAt(v, order, n).value \in Nodes
    BY <2>1, ValuesNest DEF Nests, ItemAt
  <2>5. text \in Tokens
    BY <2>4, TextsAreTokens
  <2>6. Label(v, ItemAt(v, order, n)) \in Tokens
    BY <2>1, PartsAreTokens DEF ItemAt
  <2> QED
    BY <2>3, <2>5, <2>6, Joined DEF Labelled
<1> HIDE DEF pieces
<1>3. \A n \in 0 .. Len(pieces) : Lists(pieces)[n] \subseteq Tokens
  BY <1>1, <1>2, ListsAreTokens
<1> QED
  BY <1>1, <1>3 DEF pieces, ListsOf

(* An item more in front of what may come, and the end.                    *)
LEMMA ItemTold ==
  ASSUME NEW v \in Nodes, IsContainer(v), NEW order \in Orders(v), NEW s \in Stacks,
         NEW a \in SUBSET Tokens, NEW n \in 1 .. Len(Items(v)),
         NEW text \in TextsOf[ItemAt(v, order, n).value], NEW r \in RestsAt(v, order, s, a, n)
  PROVE  Told(StackAt(v, s, n - 1), Labelled(v, ItemAt(v, order, n), text), r)
           \in RestsAt(v, order, s, a, n - 1)
<1> DEFINE s2 == StackAt(v, s, n - 1)
           piece == Labelled(v, ItemAt(v, order, n), text)
           open == <<Opening(v)>>
<1>1. n \in Nat /\ n - 1 \in Nat /\ (n - 1) + 1 = n /\ n - 1 \in 0 .. Len(Items(v))
  BY ItemsAreSequences
<1>2. s2 \in Stacks /\ Separator(Head(s2)) = Comma(n)
  BY <1>1, StackAtIs
<1>3. order[n] \in DOMAIN Items(v) /\ ItemAt(v, order, n).value \in Nodes
  BY PiecesAre, ValuesNest DEF Nests, ItemAt
<1>4. text \in Tokens /\ Label(v, ItemAt(v, order, n)) \in Tokens
  BY <1>3, TextsAreTokens, PartsAreTokens DEF ItemAt
<1>5. piece \in Tokens
  BY <1>4, Joined DEF Labelled
<1>6. open \in Tokens
  BY PartsAreTokens
<1>7. r \in Tokens /\ \A list \in ListsOf(v, order, n) : Told(s, open \o list, r) \in a
  BY DEF RestsAt
<1>8. \A list \in ListsOf(v, order, n - 1) : Longer(list, n, piece) \in ListsOf(v, order, n)
  BY ListsOfAre
<1>9. ListsOf(v, order, n - 1) \subseteq Tokens
  BY <1>1, ListsOfAreTokens
<1> HIDE DEF s2, piece, open
<1>10. Told(s2, piece, r) \in Tokens
  BY <1>2, <1>5, <1>7, ToldIsTokens
<1>11. ASSUME NEW list \in ListsOf(v, order, n - 1)
       PROVE  Told(s, open \o list, Told(s2, piece, r)) \in a
  <2>1. list \in Tokens
    BY <1>9
  <2>2. Told(s, open \o list, Told(s2, piece, r)) = Told(s, open \o Longer(list, n, piece), r)
    BY <1>2, <1>5, <1>6, <1>7, <2>1, ToldLonger
  <2>3. Told(s, open \o Longer(list, n, piece), r) \in a
    BY <1>7, <1>8
  <2> QED
    BY <2>2, <2>3
<1> QED
  BY <1>10, <1>11 DEF RestsAt, s2, piece, open

LEMMA EndTold ==
  ASSUME NEW v \in Nodes, IsContainer(v), NEW order \in Orders(v), NEW s \in Stacks,
         NEW a \in SUBSET Tokens, NEW r \in Tokens,
         \A text \in TextsOf[v] : Told(s, text, r) \in a
  PROVE  <<Closing(v)>> \o r \in RestsAt(v, order, s, a, Len(Items(v)))
<1>1. Len(Items(v)) \in 0 .. Len(Items(v))
  BY ItemsAreSequences
<1>2. ListsOf(v, order, Len(Items(v))) \subseteq Tokens
  BY <1>1, ListsOfAreTokens
<1>3. <<Closing(v)>> \o r \in Tokens
  BY PartsAreTokens, Joined
<1>4. ASSUME NEW list \in ListsOf(v, order, Len(Items(v)))
      PROVE  Told(s, <<Opening(v)>> \o list, <<Closing(v)>> \o r) \in a
  <2>1. Within(v, list) \in TextsOf[v]
    BY TextsHave
  <2>2. list \in Tokens
    BY <1>2
  <2>3. Told(s, <<Opening(v)>> \o list, <<Closing(v)>> \o r) = Told(s, Within(v, list), r)
    BY <2>2, ToldClosed
  <2>4. Told(s, Within(v, list), r) \in a
    BY <2>1
  <2> QED
    BY <2>3, <2>4
<1> QED
  BY <1>3, <1>4 DEF RestsAt

(* What is told of a container: its items in some order, and its end.      *)
ItemTell(v, order, k) ==
  IF Kind(v) = "object" THEN Tell("member", ItemAt(v, order, k))
  ELSE Tell("value", ItemAt(v, order, k).value)

EndTell(v) == Tell(IF Kind(v) = "object" THEN "end object" ELSE "end array", v)

LEMMA TellsAre ==
  ASSUME NEW v \in Nodes, IsContainer(v), NEW order \in Orders(v)
  PROVE  /\ \A k \in 1 .. Len(Items(v)) : ItemTell(v, order, k) \in Tells
         /\ EndTell(v) \in Tells
<1>1. ASSUME NEW k \in 1 .. Len(Items(v))
      PROVE  ItemTell(v, order, k) \in Tells
  <2>1. order[k] \in DOMAIN Items(v)
    BY PiecesAre
  <2>2. ItemAt(v, order, k).value \in Nodes
    BY <2>1, ValuesNest DEF Nests, ItemAt
  <2>3. Kind(v) = "object" => ItemAt(v, order, k) \in Members
    BY <2>1 DEF ItemAt, Members
  <2> QED
    BY <2>2, <2>3 DEF ItemTell, Tells, Tell
<1>2. EndTell(v) \in Tells
  BY DEF EndTell, Tells, Tell
<1> QED
  BY <1>1, <1>2

LEMMA ListThenEnd ==
  ASSUME NEW N \in Nat, NEW f, NEW e \in Tells, \A k \in 1 .. N : f[k] \in Tells,
         f = [k \in 1 .. N |-> f[k]]
  PROVE  /\ f \o <<e>> \in Seq(Tells) /\ Len(f \o <<e>>) = N + 1
         /\ \A k \in 1 .. N : (f \o <<e>>)[k] = f[k]
         /\ (f \o <<e>>)[N + 1] = e
<1> DEFINE t == <<e>>
<1>1. f \in [1 .. N -> Tells]
  BY Zenon
<1>2. f \in Seq(Tells) /\ Len(f) = N
  <2>1. f \in Seq(Tells)
    BY <1>1, IsASeq
  <2>2. DOMAIN f = 1 .. N
    BY <1>1
  <2> QED
    BY <2>1, <2>2, LenProperties
<1>3. t \in Seq(Tells) /\ Len(t) = 1 /\ t[1] = e
  OBVIOUS
<1> HIDE DEF t
<1>4. /\ f \o t \in Seq(Tells) /\ Len(f \o t) = Len(f) + Len(t)
      /\ \A i \in 1 .. Len(f) + Len(t) : (f \o t)[i] = IF i <= Len(f) THEN f[i] ELSE t[i - Len(f)]
  BY <1>2, <1>3, ConcatProperties
<1>5. \A k \in 1 .. N : (f \o t)[k] = f[k]
  BY <1>2, <1>3, <1>4
<1>6. (f \o t)[N + 1] = e
  <2>1. N + 1 \in 1 .. N + 1 /\ ~(N + 1 <= N) /\ (N + 1) - N = 1
    OBVIOUS
  <2> QED
    BY <1>2, <1>3, <1>4, <2>1
<1>7. Len(f \o t) = N + 1
  BY <1>2, <1>3, <1>4
<1> QED
  BY <1>4, <1>5, <1>6, <1>7 DEF t

LEMMA DeeperIs ==
  ASSUME NEW v \in Nodes, IsContainer(v), NEW deeper \in Deeper(Tell("value", v))
  PROVE  \E order \in Orders(v) :
           /\ deeper \in Seq(Tells) /\ Len(deeper) = Len(Items(v)) + 1
           /\ \A k \in 1 .. Len(Items(v)) : deeper[k] = ItemTell(v, order, k)
           /\ deeper[Len(Items(v)) + 1] = EndTell(v)
<1>1. Len(Items(v)) \in Nat /\ DOMAIN Items(v) = 1 .. Len(Items(v))
  BY ItemsAreSequences
<1>2. \E order \in Orders(v) :
        deeper = [k \in 1 .. Len(Items(v)) |-> ItemTell(v, order, k)] \o <<EndTell(v)>>
  <2>1. CASE Kind(v) = "array"
    <3>1. deeper = TraverseArray(v)
      BY <2>1 DEF Deeper, Tell
    <3> DEFINE order == [i \in DOMAIN Items(v) |-> i]
    <3>2. order \in Orders(v)
      BY <2>1 DEF Orders
    <3>3. \A k \in 1 .. Len(Items(v)) : ItemTell(v, order, k) = Tell("value", Items(v)[k].value)
      BY <1>1, <2>1 DEF ItemTell, ItemAt
    <3>4. EndTell(v) = Tell("end array", v)
      BY <2>1 DEF EndTell
    <3> HIDE DEF order
    <3>5. TraverseArray(v) =
            [k \in 1 .. Len(Items(v)) |-> Tell("value", Items(v)[k].value)] \o <<Tell("end array", v)>>
      BY <1>1, Zenon DEF TraverseArray
    <3>6. [k \in 1 .. Len(Items(v)) |-> Tell("value", Items(v)[k].value)]
            = [k \in 1 .. Len(Items(v)) |-> ItemTell(v, order, k)]
      BY <3>3, Zenon
    <3> QED
      BY <3>1, <3>2, <3>4, <3>5, <3>6, Zenon
  <2>2. CASE Kind(v) = "object"
    <3>1. Deeper(Tell("value", v)) = {TraverseObject(v, order) : order \in Orders(v)}
      BY <2>2 DEF Deeper, Tell, IsContainer
    <3>2. PICK order \in Orders(v) : deeper = TraverseObject(v, order)
      BY <3>1, Zenon
    <3>3. \A k \in 1 .. Len(Items(v)) : ItemTell(v, order, k) = Tell("member", Items(v)[order[k]])
      BY <2>2 DEF ItemTell, ItemAt
    <3>4. EndTell(v) = Tell("end object", v)
      BY <2>2 DEF EndTell
    <3>5. TraverseObject(v, order) =
            [k \in 1 .. Len(Items(v)) |-> Tell("member", Items(v)[order[k]])] \o <<Tell("end object", v)>>
      BY <1>1, Zenon DEF TraverseObject, KeyValue
    <3>6. [k \in 1 .. Len(Items(v)) |-> Tell("member", Items(v)[order[k]])]
            = [k \in 1 .. Len(Items(v)) |-> ItemTell(v, order, k)]
      BY <3>3, Zenon
    <3> QED
      BY <3>2, <3>4, <3>5, <3>6, Zenon
  <2> QED
    BY <2>1, <2>2 DEF IsContainer
<1>3. PICK order \in Orders(v) :
        deeper = [k \in 1 .. Len(Items(v)) |-> ItemTell(v, order, k)] \o <<EndTell(v)>>
  BY <1>2
<1> DEFINE f == [k \in 1 .. Len(Items(v)) |-> ItemTell(v, order, k)]
           N == Len(Items(v))
<1>4. EndTell(v) \in Tells /\ \A k \in 1 .. N : f[k] \in Tells /\ f[k] = ItemTell(v, order, k)
  BY TellsAre
<1>5. f = [k \in 1 .. N |-> f[k]]
  OBVIOUS
<1>6. deeper = f \o <<EndTell(v)>> /\ N \in Nat
  BY <1>1, <1>3
<1> HIDE DEF f, N
<1>7. /\ f \o <<EndTell(v)>> \in Seq(Tells) /\ Len(f \o <<EndTell(v)>>) = N + 1
      /\ \A k \in 1 .. N : (f \o <<EndTell(v)>>)[k] = f[k]
      /\ (f \o <<EndTell(v)>>)[N + 1] = EndTell(v)
  BY <1>4, <1>5, <1>6, ListThenEnd
<1>8. /\ deeper \in Seq(Tells) /\ Len(deeper) = N + 1
      /\ \A k \in 1 .. N : deeper[k] = ItemTell(v, order, k)
      /\ deeper[N + 1] = EndTell(v)
  BY <1>4, <1>6, <1>7, Zenon
<1> QED
  BY <1>8, Zenon DEF N

LEMMA ItemLink ==
  ASSUME NEW v \in Nodes, IsContainer(v), NEW order \in Orders(v), NEW s \in Stacks,
         NEW a \in SUBSET Tokens, NEW n \in 1 .. Len(Items(v))
  PROVE  Link(ItemTell(v, order, n), StackAt(v, s, n - 1), RestsAt(v, order, s, a, n - 1),
              StackAt(v, s, n), RestsAt(v, order, s, a, n))
<1> DEFINE item == ItemAt(v, order, n)
           s1 == StackAt(v, s, n - 1)
           s2 == StackAt(v, s, n)
           a1 == RestsAt(v, order, s, a, n - 1)
           a2 == RestsAt(v, order, s, a, n)
<1>1. n \in Nat /\ n - 1 \in Nat /\ (n - 1) + 1 = n /\ n # 0
  BY ItemsAreSequences
<1>2. order[n] \in DOMAIN Items(v) /\ item.value \in Nodes
  BY PiecesAre, ValuesNest DEF Nests, ItemAt
<1>3. \A text \in TextsOf[item.value], r \in a2 : Told(s1, Labelled(v, item, text), r) \in a1
  BY ItemTold
<1>4. /\ s1 \in Stacks /\ Head(s1) = StateAt(v, n - 1) /\ Tail(s1) = s
      /\ Kind(v) = "object" => StateAt(v, n - 1) \in {"map_start", "map_key"}
      /\ Kind(v) = "array" => /\ StateAt(v, n - 1) \in {"array_start", "in_array"}
                              /\ After[StateAt(v, n - 1)] = StateAt(v, n)
  <2> DEFINE m == n - 1
  <2>1. m \in Nat /\ m + 1 = n
    BY <1>1
  <2> HIDE DEF m
  <2>2. /\ StackAt(v, s, m) \in Stacks /\ Head(StackAt(v, s, m)) = StateAt(v, m)
        /\ Tail(StackAt(v, s, m)) = s
        /\ Kind(v) = "object" => StateAt(v, m) \in {"map_start", "map_key"}
        /\ Kind(v) = "array" => /\ StateAt(v, m) \in {"array_start", "in_array"}
                                /\ After[StateAt(v, m)] = StateAt(v, m + 1)
    BY <2>1, StackAtIs
  <2> QED
    BY <2>1, <2>2, Zenon DEF m
<1>5. s2 = <<StateAt(v, n)>> \o s
  BY DEF StackAt
<1> HIDE DEF s1, s2, a1, a2
<1>6. CASE Kind(v) = "object"
  <2>1. item.key \in Words
    BY <1>2, <1>6, WordsHave DEF ItemAt
  <2>2. \A text : Labelled(v, item, text) = <<item.key, ":">> \o text
    BY <1>6, Zenon DEF Labelled, Label
  <2>3. s2 = <<"map_key">> \o Tail(s1)
    <3>1. StateAt(v, n) = "map_key"
      BY <1>1, <1>6 DEF StateAt
    <3> QED
      BY <1>4, <1>5, <3>1, Zenon
  <2> HIDE DEF item
  <2>4. \A text \in TextsOf[item.value], r \in a2 : Told(s1, <<item.key, ":">> \o text, r) \in a1
    BY <1>3, <2>2, Zenon
  <2> DEFINE tell == Tell("member", item)
  <2>5. tell.what = "member" /\ tell.of = item
    BY DEF Tell
  <2> HIDE DEF tell
  <2>6. Head(s1) \in {"map_start", "map_key"}
    BY <1>4, <1>6
  <2>7. Link(tell, s1, a1, s2, a2)
    BY <1>2, <2>1, <2>3, <2>4, <2>5, <2>6, Zenon DEF Link
  <2> QED
    BY <1>6, <2>7, Zenon DEF ItemTell, tell, item, s1, s2, a1, a2
<1>7. CASE Kind(v) = "array"
  <2>1. \A text \in TextsOf[item.value] : Labelled(v, item, text) = text
    <3>1. \A text \in TextsOf[item.value] : text \in Tokens
      BY <1>2, TextsAreTokens
    <3>2. Label(v, item) = <<>>
      BY <1>7 DEF Label
    <3> QED
      BY <3>1, <3>2, Nothing DEF Labelled
  <2>2. s2 = Moved(s1)
    BY <1>4, <1>5, <1>7, Zenon DEF Moved
  <2> HIDE DEF item
  <2>4. \A text \in TextsOf[item.value], r \in a2 : Told(s1, text, r) \in a1
    BY <1>3, <2>1
  <2> DEFINE tell == Tell("value", item.value)
  <2>5. tell.what = "value" /\ tell.of = item.value
    BY DEF Tell
  <2> HIDE DEF tell
  <2>6. Head(s1) \in {"start", "map_val", "array_start", "in_array"}
    BY <1>4, <1>7
  <2>7. Link(tell, s1, a1, s2, a2)
    BY <1>2, <2>2, <2>4, <2>5, <2>6, Zenon DEF Link
  <2>8. ItemTell(v, order, n) = tell
    BY <1>7 DEF ItemTell, tell, item
  <2> QED
    BY <2>7, <2>8, Zenon DEF s1, s2, a1, a2
<1> QED
  BY <1>6, <1>7 DEF IsContainer

LEMMA EndLink ==
  ASSUME NEW v \in Nodes, IsContainer(v), NEW order \in Orders(v), NEW s \in Stacks,
         NEW a \in SUBSET Tokens, NEW a2 \in SUBSET Tokens,
         \A text \in TextsOf[v], r \in a2 : Told(s, text, r) \in a
  PROVE  Link(EndTell(v), StackAt(v, s, Len(Items(v))), RestsAt(v, order, s, a, Len(Items(v))),
              Moved(s), a2)
<1> DEFINE s1 == StackAt(v, s, Len(Items(v)))
           a1 == RestsAt(v, order, s, a, Len(Items(v)))
<1>1. Tail(s1) = s /\ s # <<>>
  BY ItemsAreSequences, StackAtIs DEF Stacks
<1>2. \A r \in a2 : <<Closing(v)>> \o r \in a1
  BY EndTold
<1>3. /\ EndTell(v).what \in {"end object", "end array"}
      /\ Closing(v) = IF EndTell(v).what = "end object" THEN "}" ELSE "]"
  BY DEF EndTell, Closing, Tell
<1> HIDE DEF s1, a1
<1>4. Link(EndTell(v), s1, a1, Moved(s), a2)
  BY <1>1, <1>2, <1>3, Zenon DEF Link
<1> QED
  BY <1>4 DEF s1, a1

(* The callbacks for what a container holds lead where its texts lead.     *)
LEMMA ContainerLeads ==
  ASSUME NEW v \in Nodes, IsContainer(v), NEW deeper \in Deeper(Tell("value", v)),
         NEW s \in Stacks, NEW a \in SUBSET Tokens, NEW a2 \in SUBSET Tokens,
         \A text \in TextsOf[v], r \in a2 : Told(s, text, r) \in a,
         NEW rest \in Seq(Tells), Leads(rest, Moved(s), a2)
  PROVE  /\ deeper \in Seq(Tells)
         /\ \E order \in Orders(v) : Leads(deeper \o rest, StackAt(v, s, 0), RestsAt(v, order, s, a, 0))
<1> DEFINE N == Len(Items(v))
<1>1. PICK order \in Orders(v) :
        /\ deeper \in Seq(Tells) /\ Len(deeper) = N + 1
        /\ \A k \in 1 .. N : deeper[k] = ItemTell(v, order, k)
        /\ deeper[N + 1] = EndTell(v)
  BY DeeperIs
<1> DEFINE S == [k \in 1 .. N + 2 |-> IF k <= N + 1 THEN StackAt(v, s, k - 1) ELSE Moved(s)]
           A == [k \in 1 .. N + 2 |-> IF k <= N + 1 THEN RestsAt(v, order, s, a, k - 1) ELSE a2]
<1>2. N \in Nat
  BY ItemsAreSequences
<1>3. /\ \A k \in 1 .. N + 1 : S[k] = StackAt(v, s, k - 1) /\ A[k] = RestsAt(v, order, s, a, k - 1)
      /\ S[N + 2] = Moved(s) /\ A[N + 2] = a2
  BY <1>2
<1>4. S \in [1 .. N + 2 -> Stacks] /\ A \in [1 .. N + 2 -> SUBSET Tokens]
  <2>1. \A k \in 1 .. N + 2 : k - 1 \in Nat
    BY <1>2
  <2>2. \A k \in 1 .. N + 2 : StackAt(v, s, k - 1) \in Stacks
    BY <2>1, StackAtIs
  <2>3. \A n : RestsAt(v, order, s, a, n) \in SUBSET Tokens
    BY DEF RestsAt
  <2>4. Moved(s) \in Stacks
    BY MovedIs
  <2> QED
    BY <2>2, <2>3, <2>4
<1>5. \A k \in 1 .. N : Link(ItemTell(v, order, k), StackAt(v, s, k - 1), RestsAt(v, order, s, a, k - 1),
                             StackAt(v, s, k), RestsAt(v, order, s, a, k))
  BY ItemLink
<1>6. Link(EndTell(v), StackAt(v, s, N), RestsAt(v, order, s, a, N), Moved(s), a2)
  BY EndLink
<1> HIDE DEF N, S, A
<1>7. ASSUME NEW k \in 1 .. N + 1
      PROVE  Link(deeper[k], S[k], A[k], S[k + 1], A[k + 1])
  <2>1. CASE k = N + 1
    <3>1. k \in 1 .. N + 1 /\ k - 1 = N /\ k + 1 = N + 2
      BY <1>2, <2>1
    <3>2. S[k] = StackAt(v, s, N) /\ A[k] = RestsAt(v, order, s, a, N)
      BY <1>3, <3>1
    <3> QED
      BY <1>1, <1>3, <1>6, <2>1, <3>1, <3>2, Zenon
  <2>2. CASE k # N + 1
    <3>1. k \in 1 .. N /\ k \in 1 .. N + 1 /\ k + 1 \in 1 .. N + 1 /\ (k + 1) - 1 = k
      BY <1>2, <2>2
    <3>2. /\ S[k] = StackAt(v, s, k - 1) /\ A[k] = RestsAt(v, order, s, a, k - 1)
          /\ S[k + 1] = StackAt(v, s, (k + 1) - 1) /\ A[k + 1] = RestsAt(v, order, s, a, (k + 1) - 1)
      BY <1>3, <3>1, Zenon
    <3>3. S[k + 1] = StackAt(v, s, k) /\ A[k + 1] = RestsAt(v, order, s, a, k)
      BY <3>1, <3>2, Zenon
    <3> QED
      BY <1>1, <1>5, <3>1, <3>2, <3>3, Zenon
  <2> QED
    BY <2>1, <2>2
<1>8. Len(deeper) + 1 = N + 2 /\ 1 \in 1 .. N + 1 /\ 1 - 1 = 0
  BY <1>1, <1>2
<1>9. Chain(deeper, S, A)
  <2>1. Len(deeper) = N + 1
    BY <1>1
  <2> QED
    BY <1>4, <1>7, <1>8, <2>1, Zenon DEF Chain
<1>10. S[Len(deeper) + 1] = Moved(s) /\ A[Len(deeper) + 1] = a2
  BY <1>3, <1>8
<1>11. Leads(deeper \o rest, S[1], A[1])
  BY <1>1, <1>9, <1>10, LeadsOn
<1>12. S[1] = StackAt(v, s, 0) /\ A[1] = RestsAt(v, order, s, a, 0)
  BY <1>3, <1>8
<1> QED
  BY <1>1, <1>11, <1>12

-----------------------------------------------------------------------------
(* A walk: what a thread has told and has left to tell says v              *)

Generators == [states : Stacks, tokens : Tokens]

Walk(todo, g, v) ==
  /\ todo \in Seq(Tells) /\ g \in Generators
  /\ \E a \in SUBSET Tokens :
       Leads(todo, g.states, a) /\ \A r \in a : g.tokens \o r \in TextsOf[v]

(* What comes first may be said apart from the rest.                       *)
LEMMA Regroup ==
  ASSUME NEW p \in Tokens, NEW q \in Tokens, NEW x \in Tokens, NEW r \in Tokens
  PROVE  /\ Glued(Glued(p, q), x) \in Tokens
         /\ Glued(Glued(Glued(p, q), x), r) = Glued(p, Glued(Glued(q, x), r))
<1>1. Glued(Glued(p, q), x) \in Tokens
  BY Glue
<1>2. Glued(Glued(Glued(p, q), x), r) = Glued(p, Glued(Glued(q, x), r))
  <2>1. PICK y \in Tokens : y = Glued(q, x)
    BY Glue
  <2>2. Glued(Glued(p, q), x) = Glued(p, y)
    BY <2>1, Glue
  <2>3. Glued(Glued(p, y), r) = Glued(p, Glued(y, r))
    BY <2>1, Glue
  <2> QED
    BY <2>1, <2>2, <2>3
<1> QED
  BY <1>1, <1>2

(* What g has written when k is told.                                      *)
Says(g, k) == g.tokens \o Separator(Head(g.states)) \o k

LEMMA SayOn ==
  ASSUME NEW g \in Generators, NEW k \in Tokens, NEW a, NEW a2 \in SUBSET Tokens, NEW v,
         \A r \in a : g.tokens \o r \in TextsOf[v],
         \A r \in a2 : Told(g.states, k, r) \in a
  PROVE  Says(g, k) \in Tokens /\ \A r \in a2 : Says(g, k) \o r \in TextsOf[v]
<1>1. g.states \in Stacks /\ g.tokens \in Tokens
  BY DEF Generators
<1>2. Separator(Head(g.states)) \in Tokens
  BY <1>1, StackIs, SeparatorIs
<1>3. Says(g, k) \in Tokens
  <2>1. Glued(Glued(g.tokens, Separator(Head(g.states))), k) \in Tokens
    BY <1>1, <1>2, Regroup
  <2> QED
    BY <2>1, Zenon DEF Says, Glued
<1>4. ASSUME NEW r \in a2
      PROVE  Says(g, k) \o r \in TextsOf[v]
  <2>1. Says(g, k) \o r = g.tokens \o Told(g.states, k, r)
    <3>1. PICK t \in Tokens : t = g.tokens
      BY <1>1
    <3>2. PICK p \in Tokens : p = Separator(Head(g.states))
      BY <1>2
    <3>0. r \in Tokens
      OBVIOUS
    <3>3. Glued(Glued(Glued(t, p), k), r) = Glued(t, Glued(Glued(p, k), r))
      BY <3>0, Regroup
    <3> QED
      BY <3>1, <3>2, <3>3, Zenon DEF Says, Told, Glued
  <2> QED
    BY <2>1
<1> QED
  BY <1>3, <1>4

(* The four kinds of callbacks: a scalar, the start of a container, a key, *)
(* the end of a container.                                                 *)
LEMMA WalkScalar ==
  ASSUME NEW g \in Generators, NEW u \in Nodes, ~IsContainer(u), NEW v,
         NEW a \in SUBSET Tokens, NEW a2 \in SUBSET Tokens, NEW rest \in Seq(Tells),
         Head(g.states) \in {"start", "map_val", "array_start", "in_array"},
         \A text \in TextsOf[u], r \in a2 : Told(g.states, text, r) \in a,
         Leads(rest, Moved(g.states), a2),
         \A r \in a : g.tokens \o r \in TextsOf[v]
  PROVE  Walk(rest, Val(g, u), v)
<1> DEFINE k == <<GenValues[u].text>>
           h == Val(g, u)
<1>1. k \in Tokens /\ TextsOf[u] = {k}
  BY OneWord, WordsHave, TextsAre DEF TextsBy
<1> HIDE DEF k
<1>2. Says(g, k) \in Tokens /\ \A r \in a2 : Says(g, k) \o r \in TextsOf[v]
  BY <1>1, SayOn
<1>3. Accepts(g, Kind(u) = "string")
  BY DEF Accepts
<1>4. h = [states |-> Moved(g.states), tokens |-> Says(g, k)]
  BY <1>3, Zenon DEF Val, Atom, Says, k
<1>5. Moved(g.states) \in Stacks
  BY MovedIs DEF Generators
<1> HIDE DEF h
<1>6. h \in Generators /\ h.states = Moved(g.states) /\ h.tokens = Says(g, k)
  BY <1>2, <1>4, <1>5 DEF Generators
<1>7. Walk(rest, h, v)
  BY <1>2, <1>6 DEF Walk
<1> QED
  BY <1>7 DEF h

LEMMA WalkContainer ==
  ASSUME NEW g \in Generators, NEW u \in Nodes, IsContainer(u), NEW v,
         NEW deeper \in Deeper(Tell("value", u)),
         NEW a \in SUBSET Tokens, NEW a2 \in SUBSET Tokens, NEW rest \in Seq(Tells),
         Head(g.states) \in {"start", "map_val", "array_start", "in_array"},
         \A text \in TextsOf[u], r \in a2 : Told(g.states, text, r) \in a,
         Leads(rest, Moved(g.states), a2),
         \A r \in a : g.tokens \o r \in TextsOf[v]
  PROVE  Walk(deeper \o rest, ValueCallback(g, u), v)
<1> DEFINE k == <<Opening(u)>>
           h == ValueCallback(g, u)
<1>0. g.states \in Stacks
  BY DEF Generators
<1>1. /\ deeper \in Seq(Tells)
      /\ \E order \in Orders(u) :
           Leads(deeper \o rest, StackAt(u, g.states, 0), RestsAt(u, order, g.states, a, 0))
  BY <1>0, ContainerLeads
<1>2. PICK order \in Orders(u) :
        Leads(deeper \o rest, StackAt(u, g.states, 0), RestsAt(u, order, g.states, a, 0))
  BY <1>1
<1> DEFINE b == RestsAt(u, order, g.states, a, 0)
<1>3. ListsOf(u, order, 0) = {<<>>} /\ k \in Tokens
  BY ListsOfAre, PartsAreTokens
<1>4. k \o <<>> = k
  BY <1>3, Nothing
<1>5. b \in SUBSET Tokens /\ \A r \in b : Told(g.states, k, r) \in a
  BY <1>3, <1>4 DEF RestsAt
<1>6. deeper \o rest \in Seq(Tells)
  BY <1>1, ConcatProperties
<1>7. h = OpenWith(g, StateAt(u, 0), Opening(u))
  BY DEF ValueCallback, BeginObject, BeginArray, StateAt, Opening, IsContainer
<1>8. Accepts(g, FALSE)
  BY DEF Accepts
<1>9. h = [states |-> StackAt(u, g.states, 0), tokens |-> Says(g, k)]
  BY <1>7, <1>8, Zenon DEF OpenWith, Says, StackAt
<1>10. StackAt(u, g.states, 0) \in Stacks
  BY <1>0, StackAtIs
<1> HIDE DEF k, h, b
<1>11. Says(g, k) \in Tokens /\ \A r \in b : Says(g, k) \o r \in TextsOf[v]
  BY <1>3, <1>5, SayOn
<1>12. /\ h \in Generators /\ h.states = StackAt(u, g.states, 0) /\ h.tokens = Says(g, k)
       /\ Leads(deeper \o rest, h.states, b)
  <2>1. h \in Generators /\ h.states = StackAt(u, g.states, 0) /\ h.tokens = Says(g, k)
    BY <1>9, <1>10, <1>11 DEF Generators
  <2> QED
    BY <1>2, <2>1, Zenon DEF b
<1>13. Walk(deeper \o rest, h, v)
  BY <1>5, <1>6, <1>11, <1>12 DEF Walk
<1> QED
  BY <1>13 DEF h

LEMMA WalkMember ==
  ASSUME NEW g \in Generators, NEW item, item.value \in Nodes, item.key \in Words, NEW v,
         NEW a \in SUBSET Tokens, NEW a2 \in SUBSET Tokens, NEW rest \in Seq(Tells),
         Head(g.states) \in {"map_start", "map_key"},
         \A text \in TextsOf[item.value], r \in a2 :
           Told(g.states, <<item.key, ":">> \o text, r) \in a,
         Leads(rest, <<"map_key">> \o Tail(g.states), a2),
         \A r \in a : g.tokens \o r \in TextsOf[v]
  PROVE  Walk(<<Tell("value", item.value)>> \o rest, KeyObject(g, item.key), v)
<1> DEFINE k == <<item.key>>
           h == KeyObject(g, item.key)
           s == g.states
           s2 == <<"map_key">> \o Tail(s)
           m == Moved(s)
           b == {r \in Tokens : Told(s, k, r) \in a}
           tell == Tell("value", item.value)
           one == <<tell>>
           S == <<m, s2>>
           A == <<b, a2>>
<1>1. s \in Stacks /\ Tail(s) \in Seq(GeneratorStates)
  BY StackIs DEF Generators
<1>2. m \in Stacks /\ Head(m) = "map_val" /\ Tail(m) = Tail(s)
  BY <1>1, MovedIs, AfterIs
<1>3. Moved(m) = s2
  BY <1>2, AfterIs DEF Moved
<1>4. s2 \in Stacks
  BY <1>1, Pushed DEF GeneratorStates
<1>5. k \in Tokens /\ <<":">> \in Tokens /\ <<item.key, ":">> = k \o <<":">>
  BY OneWord
<1>6. ASSUME NEW text \in TextsOf[item.value], NEW r \in a2
      PROVE  Told(m, text, r) \in b
  <2>1. text \in Tokens /\ r \in Tokens
    BY TextsAreTokens
  <2>2. Separator(Head(s)) \in Tokens
    BY <1>1, StackIs, SeparatorIs
  <2>3. Told(m, text, r) = Glued(Glued(<<":">>, text), r)
    BY <1>2, SeparatorIs, Zenon DEF Told, Glued
  <2>4. Told(m, text, r) \in Tokens
    BY <1>5, <2>1, <2>3, Glue
  <2>5. Told(s, <<item.key, ":">> \o text, r)
          = Glued(Glued(Separator(Head(s)), Glued(Glued(k, <<":">>), text)), r)
    BY <1>5, Zenon DEF Told, Glued
  <2>6. Told(s, k, Told(m, text, r))
          = Glued(Glued(Separator(Head(s)), k), Glued(Glued(<<":">>, text), r))
    BY <2>3, Zenon DEF Told, Glued
  <2> HIDE DEF m, s, k
  <2>7. Glued(Glued(Separator(Head(s)), k), Glued(Glued(<<":">>, text), r))
          = Glued(Glued(Separator(Head(s)), Glued(Glued(k, <<":">>), text)), r)
    <3>1. PICK c : c = <<":">> /\ c \in Tokens
      BY <1>5
    <3>2. PICK p : p = Separator(Head(s)) /\ p \in Tokens
      BY <2>2
    <3>3. Glued(c, text) \in Tokens /\ Glued(p, k) \in Tokens
      BY <1>5, <2>1, <3>1, <3>2, Glue
    <3>4. Glued(Glued(p, k), Glued(Glued(c, text), r)) = Glued(Glued(Glued(p, k), Glued(c, text)), r)
      BY <2>1, <3>3, Glue
    <3>5. Glued(Glued(p, k), Glued(c, text)) = Glued(p, Glued(k, Glued(c, text)))
      BY <1>5, <3>2, <3>3, Glue
    <3>6. Glued(k, Glued(c, text)) = Glued(Glued(k, c), text)
      BY <1>5, <2>1, <3>1, Glue
    <3> QED
      BY <3>1, <3>2, <3>4, <3>5, <3>6
  <2>8. Told(s, <<item.key, ":">> \o text, r) \in a
    BY DEF s
  <2>9. Told(s, k, Told(m, text, r)) \in a
    BY <2>5, <2>6, <2>7, <2>8, Zenon
  <2> QED
    BY <2>4, <2>9
<1>7. b \in SUBSET Tokens /\ \A r \in b : Told(s, k, r) \in a
  OBVIOUS
<1>8. tell.what = "value" /\ tell.of = item.value /\ tell \in Tells
  BY DEF Tell, Tells
<1>9. Accepts(g, TRUE)
  BY DEF Accepts
<1>10. h = [states |-> m, tokens |-> Says(g, k)]
  BY <1>9, Zenon DEF KeyObject, Atom, Says
<1> HIDE DEF k, h, s, s2, m, b, tell
<1>11. Link(tell, m, b, s2, a2)
  BY <1>2, <1>3, <1>6, <1>8 DEF Link
<1>12. one \in Seq(Tells) /\ Len(one) = 1 /\ one[1] = tell
  BY <1>8
<1>13. /\ S[1] = m /\ S[2] = s2 /\ A[1] = b /\ A[2] = a2
       /\ S \in [1 .. 2 -> Stacks] /\ A \in [1 .. 2 -> SUBSET Tokens]
  <2>1. S[1] = m /\ S[2] = s2 /\ A[1] = b /\ A[2] = a2
    OBVIOUS
  <2>2. S \in [1 .. 2 -> Stacks]
    BY <1>2, <1>4
  <2>3. A \in [1 .. 2 -> SUBSET Tokens]
    BY <1>7
  <2> QED
    BY <2>1, <2>2, <2>3
<1> HIDE DEF S, A, one
<1>14. Chain(one, S, A)
  <2>1. Len(one) + 1 = 2 /\ 1 .. Len(one) = {1} /\ 1 + 1 = 2
    BY <1>12
  <2> QED
    BY <1>11, <1>12, <1>13, <2>1 DEF Chain
<1>15. Leads(rest, S[Len(one) + 1], A[Len(one) + 1])
  <2>1. Len(one) + 1 = 2
    BY <1>12
  <2> QED
    BY <1>13, <2>1 DEF s2, s
<1>16. Leads(one \o rest, m, b)
  BY <1>12, <1>13, <1>14, <1>15, LeadsOn
<1>17. Says(g, k) \in Tokens /\ \A r \in b : Says(g, k) \o r \in TextsOf[v]
  BY <1>5, <1>7, SayOn DEF s
<1>18. h \in Generators /\ h.states = m /\ h.tokens = Says(g, k)
  BY <1>2, <1>10, <1>17 DEF Generators
<1>19. one \o rest \in Seq(Tells)
  BY <1>12, ConcatProperties
<1>20. Walk(one \o rest, h, v)
  BY <1>7, <1>16, <1>17, <1>18, <1>19 DEF Walk
<1> QED
  BY <1>20, Zenon DEF one, tell, h

LEMMA WalkEnd ==
  ASSUME NEW g \in Generators, NEW w \in {"}", "]"}, NEW v,
         NEW a \in SUBSET Tokens, NEW a2 \in SUBSET Tokens, NEW rest \in Seq(Tells),
         Tail(g.states) # <<>>, \A r \in a2 : <<w>> \o r \in a,
         Leads(rest, Moved(Tail(g.states)), a2),
         \A r \in a : g.tokens \o r \in TextsOf[v]
  PROVE  Walk(rest, CloseWith(g, w), v)
<1> DEFINE k == <<w>>
           h == CloseWith(g, w)
           m == Moved(Tail(g.states))
<1>1. k \in Tokens /\ g.tokens \in Tokens /\ Tail(g.states) \in Stacks
  BY OneWord, StackIs DEF Generators, Stacks
<1>2. m \in Stacks
  BY <1>1, MovedIs
<1>3. Append(g.tokens, w) = g.tokens \o k
  <2>1. w \in Words
    BY DEF Words
  <2>2. PICK t \in Seq(Words) : t = g.tokens
    BY <1>1 DEF Tokens
  <2>3. Append(t, w) = t \o <<w>>
    BY <2>1, AppendIsConcat
  <2> QED
    BY <2>2, <2>3
<1>4. h = [states |-> m, tokens |-> g.tokens \o k]
  BY <1>3, Zenon DEF CloseWith
<1>5. g.tokens \o k \in Tokens
  BY <1>1, Joined
<1> HIDE DEF k, h, m
<1>6. ASSUME NEW r \in a2
      PROVE  (g.tokens \o k) \o r \in TextsOf[v]
  <2>1. (g.tokens \o k) \o r = g.tokens \o (k \o r)
    BY <1>1, Apart
  <2>2. k \o r \in a
    BY DEF k
  <2> QED
    BY <2>1, <2>2
<1>7. h \in Generators /\ h.states = m /\ h.tokens = g.tokens \o k
  BY <1>2, <1>4, <1>5 DEF Generators
<1>8. Walk(rest, h, v)
  BY <1>6, <1>7 DEF Walk, m
<1> QED
  BY <1>8 DEF h

LEMMA CallbackIs ==
  ASSUME NEW g, NEW tell
  PROVE  /\ tell.what = "member" => Callback(g, tell) = KeyObject(g, tell.of.key)
         /\ tell.what = "value" => Callback(g, tell) = ValueCallback(g, tell.of)
         /\ tell.what = "end object" => Callback(g, tell) = CloseWith(g, "}")
         /\ tell.what = "end array" => Callback(g, tell) = CloseWith(g, "]")
BY DEF Callback, EndObject, EndArray

(* Each callback leaves a walk that says v.                                *)
LEMMA WalkOn ==
  ASSUME NEW todo, todo # <<>>, NEW g, NEW v, Walk(todo, g, v), NEW deeper \in Deeper(Head(todo))
  PROVE  Walk(deeper \o Tail(todo), Callback(g, Head(todo)), v)
<1> DEFINE tell == Head(todo)
           rest == Tail(todo)
           s == g.states
<1>1. todo \in Seq(Tells) /\ g \in Generators
  BY DEF Walk
<1>2. PICK a \in SUBSET Tokens : Leads(todo, s, a) /\ \A r \in a : g.tokens \o r \in TextsOf[v]
  BY DEF Walk
<1>3. PICK s2 \in Stacks : \E a2 \in SUBSET Tokens : Link(tell, s, a, s2, a2) /\ Leads(rest, s2, a2)
  BY <1>1, <1>2, LeadsOneOn
<1>4. PICK a2 \in SUBSET Tokens : Link(tell, s, a, s2, a2) /\ Leads(rest, s2, a2)
  BY <1>3
<1>5. tell \in Tells /\ rest \in Seq(Tells)
  BY <1>1, HeadTailProperties
<1>6. tell.what \in {"value", "member", "end object", "end array"}
  BY <1>5 DEF Tells
<1>13. tell = Tell(tell.what, tell.of)
  BY <1>5 DEF Tells, Tell
<1>7. deeper \in Deeper(tell)
  OBVIOUS
<1> SUFFICES Walk(deeper \o rest, Callback(g, tell), v)
  OBVIOUS
<1> HIDE DEF tell, rest
<1>8. <<>> \o rest = rest
  BY <1>5, ConcatEmptySeq
<1>9. CASE tell.what = "value"
  <2> DEFINE u == tell.of
  <2>1. /\ u \in Nodes /\ Head(s) \in {"start", "map_val", "array_start", "in_array"} /\ s2 = Moved(s)
        /\ \A text \in TextsOf[u], r \in a2 : Told(s, text, r) \in a
    BY <1>4, <1>9 DEF Link
  <2>2. Callback(g, tell) = ValueCallback(g, u)
    BY <1>6, <1>9, CallbackIs
  <2>3. deeper \in Deeper(Tell("value", u))
    BY <1>13, <1>7, <1>9, Zenon
  <2> HIDE DEF u
  <2>4. CASE IsContainer(u)
    <3>0. Leads(rest, Moved(g.states), a2)
      BY <1>4, <2>1
    <3>1. Walk(deeper \o rest, ValueCallback(g, u), v)
      BY <1>1, <1>2, <1>5, <2>1, <2>3, <2>4, <3>0, WalkContainer, Zenon
    <3> QED
      BY <2>2, <3>1
  <2>5. CASE ~IsContainer(u)
    <3>1. deeper = <<>>
      BY <2>3, <2>5 DEF Deeper, Tell
    <3>2. ValueCallback(g, u) = Val(g, u)
      BY <2>5 DEF ValueCallback, IsContainer
    <3>0. Leads(rest, Moved(g.states), a2)
      BY <1>4, <2>1
    <3>3. Walk(rest, Val(g, u), v)
      BY <1>1, <1>2, <1>5, <2>1, <2>5, <3>0, WalkScalar, Zenon
    <3> QED
      BY <1>8, <2>2, <3>1, <3>2, <3>3
  <2> QED
    BY <2>4, <2>5
<1>10. CASE tell.what = "member"
  <2> DEFINE item == tell.of
  <2>1. /\ item.value \in Nodes /\ item.key \in Words
        /\ Head(s) \in {"map_start", "map_key"} /\ s2 = <<"map_key">> \o Tail(s)
        /\ \A text \in TextsOf[item.value], r \in a2 :
             Told(s, <<item.key, ":">> \o text, r) \in a
    BY <1>4, <1>10 DEF Link
  <2>2. Callback(g, tell) = KeyObject(g, item.key)
    BY <1>6, <1>10, CallbackIs
  <2>3. deeper = <<Tell("value", item.value)>>
    BY <1>7, <1>10 DEF Deeper
  <2> HIDE DEF item
  <2>4. Walk(<<Tell("value", item.value)>> \o rest, KeyObject(g, item.key), v)
    <3>0. Leads(rest, <<"map_key">> \o Tail(g.states), a2)
      BY <1>4, <2>1
    <3> QED
      BY <1>1, <1>2, <1>5, <2>1, <3>0, WalkMember, Zenon
  <2> QED
    BY <2>2, <2>3, <2>4
<1>11. CASE tell.what \in {"end object", "end array"}
  <2> DEFINE w == IF tell.what = "end object" THEN "}" ELSE "]"
  <2>1. /\ Tail(s) # <<>> /\ s2 = Moved(Tail(s))
        /\ \A r \in a2 : <<w>> \o r \in a
    BY <1>4, <1>11 DEF Link
  <2>2. Callback(g, tell) = CloseWith(g, w)
    BY <1>6, <1>11, CallbackIs
  <2>3. deeper = <<>>
    BY <1>7, <1>11 DEF Deeper
  <2>4. w \in {"}", "]"}
    OBVIOUS
  <2> HIDE DEF w
  <2>5. Walk(rest, CloseWith(g, w), v)
    <3>0. Leads(rest, Moved(Tail(g.states)), a2)
      BY <1>4, <2>1
    <3> QED
      BY <1>1, <1>2, <1>5, <2>1, <2>4, <3>0, WalkEnd, Zenon
  <2> QED
    BY <1>8, <2>2, <2>3, <2>5
<1> QED
  BY <1>6, <1>9, <1>10, <1>11

(* A walk starts with all that its value says, and ends with nothing left. *)
LEMMA WalkStarts ==
  ASSUME NEW v \in Nodes
  PROVE  Walk(<<Tell("value", v)>>, NewGenerator, v)
<1> DEFINE s == <<"start">>
           tell == Tell("value", v)
           todo == <<tell>>
           S == <<s, Moved(s)>>
           A == <<TextsOf[v], {<<>>}>>
<1>1. s \in Stacks /\ Head(s) = "start"
  BY DEF Stacks, GeneratorStates
<1>2. Moved(s) \in Stacks
  BY <1>1, MovedIs
<1>3. tell \in Tells /\ tell.what = "value" /\ tell.of = v
  BY DEF Tells, Tell
<1>4. TextsOf[v] \in SUBSET Tokens /\ {<<>>} \in SUBSET Tokens
  BY TextsAreTokens, Nothing
<1>5. ASSUME NEW text \in TextsOf[v]
      PROVE  Told(s, text, <<>>) = text
  <2>1. text \in Tokens
    BY <1>4
  <2>2. Separator(Head(s)) = <<>>
    BY <1>1, SeparatorIs
  <2>3. <<>> \o text = text /\ text \o <<>> = text
    BY <2>1, Nothing
  <2> QED
    BY <2>2, <2>3, Zenon DEF Told
<1>6. NewGenerator \in Generators /\ NewGenerator.states = s /\ NewGenerator.tokens = <<>>
  BY <1>1, Nothing DEF NewGenerator, Generators
<1> HIDE DEF s, tell
<1>7. Link(tell, s, TextsOf[v], Moved(s), {<<>>})
  BY <1>1, <1>3, <1>5 DEF Link
<1>8. todo \in Seq(Tells) /\ Len(todo) = 1 /\ todo[1] = tell
  BY <1>3
<1>9. /\ S[1] = s /\ S[2] = Moved(s) /\ A[1] = TextsOf[v] /\ A[2] = {<<>>}
      /\ S \in [1 .. 2 -> Stacks] /\ A \in [1 .. 2 -> SUBSET Tokens]
  <2>1. S[1] = s /\ S[2] = Moved(s) /\ A[1] = TextsOf[v] /\ A[2] = {<<>>}
    OBVIOUS
  <2>2. S \in [1 .. 2 -> Stacks]
    BY <1>1, <1>2
  <2>3. A \in [1 .. 2 -> SUBSET Tokens]
    BY <1>4
  <2> QED
    BY <2>1, <2>2, <2>3
<1> HIDE DEF S, A, todo
<1>10. Len(todo) + 1 = 2 /\ 1 .. Len(todo) = {1} /\ 1 + 1 = 2
  BY <1>8
<1>11. Chain(todo, S, A)
  BY <1>7, <1>8, <1>9, <1>10 DEF Chain
<1>12. Leads(todo, s, TextsOf[v])
  BY <1>9, <1>10, <1>11 DEF Leads
<1>13. \A r \in TextsOf[v] : NewGenerator.tokens \o r \in TextsOf[v]
  BY <1>4, <1>6, Nothing
<1>14. Walk(todo, NewGenerator, v)
  BY <1>4, <1>6, <1>8, <1>12, <1>13 DEF Walk
<1> QED
  BY <1>14 DEF todo, tell

LEMMA WalkEnds ==
  ASSUME NEW g, NEW v, Walk(<<>>, g, v)
  PROVE  g.tokens \in TextsOf[v]
<1>1. PICK a \in SUBSET Tokens :
        Leads(<<>>, g.states, a) /\ \A r \in a : g.tokens \o r \in TextsOf[v]
  BY DEF Walk
<1>2. <<>> \in a
  BY <1>1, LeadsNowhere
<1>3. g.tokens \in Tokens
  BY DEF Walk, Generators
<1>4. g.tokens \o <<>> = g.tokens
  BY <1>3, Nothing
<1> QED
  BY <1>1, <1>2, <1>4

-----------------------------------------------------------------------------
(* The texts that values keep                                              *)

Texts == [of : Stringified \cup {NoJValue}, number : Nat, tokens : Tokens]
Buffers == [text : Texts, destructor : BOOLEAN, gone : BOOLEAN]

StringTypes ==
  /\ genString \in [Stringified -> Buffers]
  /\ genHeld \in [Stringified -> Texts]
  /\ genHeap \in SUBSET Texts /\ IsFiniteSet(genHeap)

(* A destructor is set for a text of this value's own, and each text has   *)
(* one.                                                                    *)
TextsOwned ==
  /\ \A v \in Stringified : genString[v].destructor =>
       genString[v].text \in genHeap /\ genString[v].text.of = v
  /\ \A text \in genHeap : \E v \in Stringified :
       genString[v].destructor /\ genString[v].text = text

(* What a client was given is what the value keeps.                        *)
TextsHeld ==
  \A v \in Stringified : genHeld[v] # NoText =>
    /\ genString[v].destructor /\ genHeld[v] = genString[v].text
    /\ genHeld[v].tokens \in TextsOf[v]

StringsInv == StringTypes /\ TextsOwned /\ TextsHeld

(* The value's text goes, if it has one.                                   *)
Emptied(v) ==
  /\ genHeap' = IF genString[v].destructor THEN genHeap \ {genString[v].text} ELSE genHeap
  /\ genString' \in [Stringified -> Buffers]
  /\ \A u \in Stringified \ {v} : genString'[u] = genString[u]
  /\ ~genString'[v].destructor
  /\ genHeld' = [genHeld EXCEPT ![v] = NoText]

LEMMA NoTextIs == NoText \in Texts /\ ReleasedText \in Buffers /\ ~ReleasedText.destructor
<1>1. NoText \in Texts
  BY Nothing DEF NoText, Texts
<1> QED
  BY <1>1 DEF ReleasedText, Buffers

LEMMA EmptiedKeeps ==
  ASSUME StringsInv, NEW v \in Stringified, Emptied(v)
  PROVE  StringsInv'
<1>1. /\ genString \in [Stringified -> Buffers] /\ genHeld \in [Stringified -> Texts]
      /\ genHeap \in SUBSET Texts /\ IsFiniteSet(genHeap)
  BY DEF StringsInv, StringTypes
<1>2. /\ genHeap' \subseteq genHeap
      /\ genString' \in [Stringified -> Buffers]
      /\ \A u \in Stringified \ {v} : genString'[u] = genString[u]
      /\ ~genString'[v].destructor
      /\ genHeld' = [genHeld EXCEPT ![v] = NoText]
  BY DEF Emptied
<1>3. StringTypes'
  <2>1. IsFiniteSet(genHeap')
    BY <1>1, <1>2, FS_Subset
  <2> QED
    BY <1>1, <1>2, <2>1, NoTextIs DEF StringTypes
<1>4. TextsOwned'
  <2>1. ASSUME NEW u \in Stringified, genString'[u].destructor
        PROVE  genString'[u].text \in genHeap' /\ genString'[u].text.of = u
    <3>1. u # v /\ genString'[u] = genString[u]
      BY <1>2, <2>1
    <3>2. genString[u].text \in genHeap /\ genString[u].text.of = u
      BY <2>1, <3>1 DEF StringsInv, TextsOwned
    <3>3. genString[v].destructor => genString[v].text.of = v
      BY DEF StringsInv, TextsOwned
    <3>4. genString[u].text \in genHeap'
      BY <3>1, <3>2, <3>3 DEF Emptied
    <3> QED
      BY <3>1, <3>2, <3>4
  <2>2. ASSUME NEW text \in genHeap'
        PROVE  \E u \in Stringified : genString'[u].destructor /\ genString'[u].text = text
    <3>1. text \in genHeap
      BY <1>2, <2>2
    <3>2. PICK u \in Stringified : genString[u].destructor /\ genString[u].text = text
      BY <3>1 DEF StringsInv, TextsOwned
    <3>3. u # v
      BY <2>2, <3>2 DEF Emptied
    <3> QED
      BY <1>2, <3>2, <3>3
  <2> QED
    BY <2>1, <2>2 DEF TextsOwned
<1>5. TextsHeld'
  <2>1. ASSUME NEW u \in Stringified, genHeld'[u] # NoText
        PROVE  /\ genString'[u].destructor /\ genHeld'[u] = genString'[u].text
               /\ genHeld'[u].tokens \in TextsOf[u]
    <3>1. u # v
      BY <1>1, <1>2, <2>1
    <3>2. genHeld'[u] = genHeld[u] /\ genString'[u] = genString[u]
      BY <1>1, <1>2, <3>1
    <3> QED
      BY <2>1, <3>2 DEF StringsInv, TextsHeld
  <2> QED
    BY <2>1 DEF TextsHeld
<1> QED
  BY <1>3, <1>4, <1>5 DEF StringsInv

LEMMA AskEmpties ==
  ASSUME StringsInv, NEW t \in Stringifiers, NEW v \in Stringified, Ask(t, v)
  PROVE  Emptied(v)
<1>1. genString \in [Stringified -> Buffers] /\ genString[v] \in Buffers
  BY DEF StringsInv, StringTypes
<1>2. FreeString(v) /\ genHeld' = [genHeld EXCEPT ![v] = NoText]
  BY DEF Ask
<1>3. CASE genString[v].destructor
  <2>1. /\ genHeap' = genHeap \ {genString[v].text}
        /\ genString' = [genString EXCEPT ![v] = Destroyed(genString[v])]
    BY <1>2, <1>3 DEF FreeString
  <2>2. Destroyed(genString[v]) \in Buffers /\ ~Destroyed(genString[v]).destructor
    BY <1>1 DEF Destroyed, Buffers
  <2> QED
    BY <1>1, <1>2, <1>3, <2>1, <2>2 DEF Emptied
<1>4. CASE ~genString[v].destructor
  BY <1>1, <1>2, <1>4 DEF FreeString, Emptied
<1> QED
  BY <1>3, <1>4

(* A new text for a value that keeps none.                                 *)
LEMMA FreshText ==
  ASSUME StringsInv, NEW v \in Stringified, ~genString[v].destructor,
         NEW text \in Texts, text.of = v, text.tokens \in TextsOf[v],
         genHeap' = genHeap \cup {text},
         genString' = [genString EXCEPT ![v] = [text |-> text, destructor |-> TRUE, gone |-> FALSE]],
         genHeld' = [genHeld EXCEPT ![v] = text]
  PROVE  StringsInv'
<1> DEFINE buffer == [text |-> text, destructor |-> TRUE, gone |-> FALSE]
<1>1. /\ genString \in [Stringified -> Buffers] /\ genHeld \in [Stringified -> Texts]
      /\ genHeap \in SUBSET Texts /\ IsFiniteSet(genHeap)
  BY DEF StringsInv, StringTypes
<1>2. buffer \in Buffers /\ buffer.destructor /\ buffer.text = text
  BY DEF Buffers
<1> HIDE DEF buffer
<1>3. genString' = [genString EXCEPT ![v] = buffer]
  BY DEF buffer
<1>4. /\ genString'[v] = buffer /\ genHeld'[v] = text
      /\ \A u \in Stringified \ {v} : genString'[u] = genString[u] /\ genHeld'[u] = genHeld[u]
  BY <1>1, <1>3
<1>5. StringTypes'
  <2>1. IsFiniteSet(genHeap')
    BY <1>1, FS_AddElement
  <2>2. genString' \in [Stringified -> Buffers]
    BY <1>1, <1>2, <1>3
  <2>3. genHeld' \in [Stringified -> Texts]
    BY <1>1
  <2>4. genHeap' \in SUBSET Texts
    BY <1>1
  <2> QED
    BY <2>1, <2>2, <2>3, <2>4 DEF StringTypes
<1>6. TextsOwned'
  <2>1. ASSUME NEW u \in Stringified, genString'[u].destructor
        PROVE  genString'[u].text \in genHeap' /\ genString'[u].text.of = u
    <3>1. CASE u = v
      BY <1>2, <1>4, <3>1
    <3>2. CASE u # v
      <4>1. genString'[u] = genString[u]
        BY <1>4, <3>2
      <4> QED
        BY <2>1, <4>1 DEF StringsInv, TextsOwned
    <3> QED
      BY <3>1, <3>2
  <2>2. ASSUME NEW other \in genHeap'
        PROVE  \E u \in Stringified : genString'[u].destructor /\ genString'[u].text = other
    <3>1. CASE other = text
      BY <1>2, <1>4, <3>1
    <3>2. CASE other # text
      <4>1. PICK u \in Stringified : genString[u].destructor /\ genString[u].text = other
        BY <3>2 DEF StringsInv, TextsOwned
      <4> QED
        BY <1>4, <4>1
    <3> QED
      BY <3>1, <3>2
  <2> QED
    BY <2>1, <2>2 DEF TextsOwned
<1>7. TextsHeld'
  <2>1. ASSUME NEW u \in Stringified, genHeld'[u] # NoText
        PROVE  /\ genString'[u].destructor /\ genHeld'[u] = genString'[u].text
               /\ genHeld'[u].tokens \in TextsOf[u]
    <3>1. CASE u = v
      BY <1>2, <1>4, <3>1
    <3>2. CASE u # v
      <4>1. genHeld'[u] = genHeld[u] /\ genString'[u] = genString[u]
        BY <1>4, <3>2
      <4> QED
        BY <2>1, <4>1 DEF StringsInv, TextsHeld
    <3> QED
      BY <3>1, <3>2
  <2> QED
    BY <2>1 DEF TextsHeld
<1> QED
  BY <1>5, <1>6, <1>7 DEF StringsInv

-----------------------------------------------------------------------------
(* The threads that stringify                                              *)

ThreadTypes ==
  /\ genAsked \in [Stringifiers -> Stringified \cup {NoJValue}]
  /\ genTodo \in [Stringifiers -> Seq(Tells)]
  /\ genStream \in [Stringifiers -> Generators]

WalksSay ==
  \A t \in Stringifiers :
    IF genAsked[t] = NoJValue THEN genTodo[t] = <<>>
    ELSE Walk(genTodo[t], genStream[t], genAsked[t])

(* No two threads stringify one value, and it keeps no text meanwhile.     *)
AskedApart ==
  \A t \in Stringifiers : genAsked[t] # NoJValue =>
    /\ ~genString[genAsked[t]].destructor
    /\ \A u \in Stringifiers \ {t} : genAsked[u] # genAsked[t]

ThreadsInv == ThreadTypes /\ WalksSay /\ AskedApart

GeneratorInv == StringsInv /\ ThreadsInv

LEMMA TraverseKeeps ==
  ASSUME GeneratorInv, NEW t \in Stringifiers, Traverse(t)
  PROVE  GeneratorInv'
<1>1. /\ genAsked \in [Stringifiers -> Stringified \cup {NoJValue}]
      /\ genTodo \in [Stringifiers -> Seq(Tells)]
      /\ genStream \in [Stringifiers -> Generators]
  BY DEF GeneratorInv, ThreadsInv, ThreadTypes
<1>2. PICK deeper \in Deeper(Head(genTodo[t])) :
        /\ genStream' = [genStream EXCEPT ![t] = Callback(genStream[t], Head(genTodo[t]))]
        /\ genTodo' = [genTodo EXCEPT ![t] = deeper \o Tail(genTodo[t])]
  BY DEF Traverse
<1>3. genTodo[t] # <<>> /\ UNCHANGED <<genAsked, genString, genHeld, genHeap>>
  BY DEF Traverse
<1>4. Walk(genTodo[t], genStream[t], genAsked[t])
  BY <1>3 DEF GeneratorInv, ThreadsInv, WalksSay
<1>5. Walk(deeper \o Tail(genTodo[t]), Callback(genStream[t], Head(genTodo[t])), genAsked[t])
  BY <1>2, <1>3, <1>4, WalkOn
<1> DEFINE todo == deeper \o Tail(genTodo[t])
           g == Callback(genStream[t], Head(genTodo[t]))
<1>6. todo \in Seq(Tells) /\ g \in Generators
  BY <1>5 DEF Walk
<1>7. Walk(todo, g, genAsked[t])
  BY <1>5
<1>8. genStream' = [genStream EXCEPT ![t] = g] /\ genTodo' = [genTodo EXCEPT ![t] = todo]
  BY <1>2
<1> HIDE DEF todo, g
<1>9. /\ genStream'[t] = g /\ genTodo'[t] = todo
      /\ \A u \in Stringifiers \ {t} : genStream'[u] = genStream[u] /\ genTodo'[u] = genTodo[u]
  BY <1>1, <1>8
<1>10. ThreadTypes'
  BY <1>1, <1>3, <1>6, <1>8 DEF ThreadTypes
<1>11. WalksSay'
  <2>1. ASSUME NEW u \in Stringifiers
        PROVE  IF genAsked[u] = NoJValue THEN genTodo'[u] = <<>>
               ELSE Walk(genTodo'[u], genStream'[u], genAsked[u])
    <3>1. CASE u = t
      <4>1. genAsked[t] # NoJValue
        BY <1>3 DEF GeneratorInv, ThreadsInv, WalksSay
      <4> QED
        BY <1>7, <1>9, <3>1, <4>1
    <3>2. CASE u # t
      BY <1>9, <3>2 DEF GeneratorInv, ThreadsInv, WalksSay
    <3> QED
      BY <3>1, <3>2
  <2> QED
    BY <1>3, <2>1 DEF WalksSay
<1>12. AskedApart'
  BY <1>3 DEF GeneratorInv, ThreadsInv, AskedApart
<1>13. StringsInv'
  BY <1>3 DEF GeneratorInv, StringsInv, StringTypes, TextsOwned, TextsHeld
<1> QED
  BY <1>10, <1>11, <1>12, <1>13 DEF GeneratorInv, ThreadsInv

LEMMA AskedFacts ==
  ASSUME GeneratorInv, NEW t \in Stringifiers, genAsked[t] # NoJValue
  PROVE  /\ genAsked[t] \in Stringified /\ ~genString[genAsked[t]].destructor
         /\ Walk(genTodo[t], genStream[t], genAsked[t])
BY DEF GeneratorInv, ThreadsInv, ThreadTypes, WalksSay, AskedApart

LEMMA FinishKeeps ==
  ASSUME GeneratorInv, NEW t \in Stringifiers, FinishStream(t)
  PROVE  GeneratorInv'
<1> DEFINE v == genAsked[t]
           fresh == CHOOSE n \in 1 .. 1 + Cardinality(genHeap) : n \notin Numbers(v)
           text == [of |-> v, number |-> fresh, tokens |-> genStream[t].tokens]
<1>1. /\ v # NoJValue /\ genTodo[t] = <<>>
      /\ genHeap' = genHeap \cup {text}
      /\ genString' = [genString EXCEPT ![v] = [text |-> text, destructor |-> TRUE, gone |-> FALSE]]
      /\ genHeld' = [genHeld EXCEPT ![v] = text]
      /\ genAsked' = [genAsked EXCEPT ![t] = NoJValue]
      /\ genStream' = [genStream EXCEPT ![t] = NewGenerator]
      /\ genTodo' = genTodo
  BY Zenon DEF FinishStream
<1>2. v \in Stringified /\ ~genString[v].destructor /\ Walk(<<>>, genStream[t], v)
  BY <1>1, AskedFacts
<1>3. genStream[t].tokens \in TextsOf[v]
  BY <1>2, WalkEnds
<1>4. fresh \in Nat
  <2>1. Numbers(v) = {}
    BY <1>2 DEF Numbers, GeneratorInv, StringsInv, TextsOwned
  <2>2. Cardinality(genHeap) \in Nat
    BY FS_CardinalityType DEF GeneratorInv, StringsInv, StringTypes
  <2>3. 1 \in 1 .. 1 + Cardinality(genHeap) /\ 1 \notin Numbers(v)
    BY <2>1, <2>2
  <2>4. fresh \in 1 .. 1 + Cardinality(genHeap)
    BY <2>3, Zenon
  <2> QED
    BY <2>2, <2>4
<1>5. text \in Texts /\ text.of = v /\ text.tokens = genStream[t].tokens
  <2>1. genStream[t].tokens \in Tokens
    BY <1>2 DEF Walk, Generators
  <2> QED
    BY <1>2, <1>4, <2>1 DEF Texts
<1> HIDE DEF text, fresh
<1>6. StringsInv'
  BY <1>1, <1>2, <1>3, <1>5, FreshText DEF GeneratorInv
<1>7. /\ genAsked \in [Stringifiers -> Stringified \cup {NoJValue}]
      /\ genTodo \in [Stringifiers -> Seq(Tells)]
      /\ genStream \in [Stringifiers -> Generators]
  BY DEF GeneratorInv, ThreadsInv, ThreadTypes
<1>8. /\ genAsked'[t] = NoJValue
      /\ \A u \in Stringifiers \ {t} : genAsked'[u] = genAsked[u] /\ genStream'[u] = genStream[u]
  BY <1>1, <1>7
<1>9. ThreadTypes'
  <2>1. NewGenerator \in Generators
    BY <1>2, WalkStarts, GenValuesAssumption DEF Walk, Nodes
  <2> QED
    BY <1>1, <1>7, <2>1 DEF ThreadTypes
<1>10. WalksSay'
  <2>1. ASSUME NEW u \in Stringifiers
        PROVE  IF genAsked'[u] = NoJValue THEN genTodo'[u] = <<>>
               ELSE Walk(genTodo'[u], genStream'[u], genAsked'[u])
    <3>1. CASE u = t
      BY <1>1, <1>8, <3>1
    <3>2. CASE u # t
      BY <1>1, <1>8, <3>2 DEF GeneratorInv, ThreadsInv, WalksSay
    <3> QED
      BY <3>1, <3>2
  <2> QED
    BY <2>1 DEF WalksSay
<1>11. AskedApart'
  <2>1. ASSUME NEW u \in Stringifiers, genAsked'[u] # NoJValue
        PROVE  /\ ~genString'[genAsked'[u]].destructor
               /\ \A w \in Stringifiers \ {u} : genAsked'[w] # genAsked'[u]
    <3>1. u # t /\ genAsked'[u] = genAsked[u]
      BY <1>8, <2>1
    <3>2. /\ genAsked[u] \in Stringified /\ ~genString[genAsked[u]].destructor
          /\ \A w \in Stringifiers \ {u} : genAsked[w] # genAsked[u]
      BY <2>1, <3>1, AskedFacts DEF GeneratorInv, ThreadsInv, AskedApart
    <3>3. genAsked[u] # v
      BY <3>1, <3>2
    <3>4. genString'[genAsked[u]] = genString[genAsked[u]]
      BY <1>1, <3>2, <3>3 DEF GeneratorInv, StringsInv, StringTypes
    <3>5. \A w \in Stringifiers \ {u} : genAsked'[w] # genAsked[u]
      BY <1>8, <2>1, <3>1, <3>2
    <3> QED
      BY <3>1, <3>2, <3>4, <3>5
  <2> QED
    BY <2>1 DEF AskedApart
<1> QED
  BY <1>6, <1>9, <1>10, <1>11 DEF GeneratorInv, ThreadsInv

(* The value that a call empties is no other thread's.                     *)
LEMMA EmptiedApart ==
  ASSUME GeneratorInv, NEW v \in Stringified, Emptied(v),
         NEW u \in Stringifiers, genAsked[u] # NoJValue
  PROVE  ~genString'[genAsked[u]].destructor
<1>1. genAsked[u] \in Stringified /\ ~genString[genAsked[u]].destructor
  BY AskedFacts
<1> QED
  BY <1>1 DEF Emptied

LEMMA StringifyKeeps ==
  ASSUME GeneratorInv, NEW t \in Stringifiers, NEW v \in Stringified, Stringify(t, v)
  PROVE  GeneratorInv'
<1>1. /\ Ask(t, v) /\ genAsked[t] = NoJValue /\ \A u \in Stringifiers : genAsked[u] # v
      /\ genAsked' = [genAsked EXCEPT ![t] = v]
      /\ genStream' = [genStream EXCEPT ![t] = NewGenerator]
      /\ genTodo' = [genTodo EXCEPT ![t] = <<Tell("value", v)>>]
  BY DEF Stringify, Ask
<1>2. Emptied(v)
  BY <1>1, AskEmpties DEF GeneratorInv
<1>3. StringsInv'
  BY <1>2, EmptiedKeeps DEF GeneratorInv
<1>4. v \in Nodes /\ v # NoJValue
  BY GenValuesAssumption DEF Nodes
<1>5. Walk(<<Tell("value", v)>>, NewGenerator, v)
  BY <1>4, WalkStarts
<1> DEFINE todo == <<Tell("value", v)>>
<1>6. todo \in Seq(Tells) /\ NewGenerator \in Generators /\ Walk(todo, NewGenerator, v)
  BY <1>5 DEF Walk
<1>7. genTodo' = [genTodo EXCEPT ![t] = todo]
  BY <1>1
<1> HIDE DEF todo
<1>8. /\ genAsked \in [Stringifiers -> Stringified \cup {NoJValue}]
      /\ genTodo \in [Stringifiers -> Seq(Tells)]
      /\ genStream \in [Stringifiers -> Generators]
  BY DEF GeneratorInv, ThreadsInv, ThreadTypes
<1>9. /\ genAsked'[t] = v /\ genStream'[t] = NewGenerator /\ genTodo'[t] = todo
      /\ \A u \in Stringifiers \ {t} :
           genAsked'[u] = genAsked[u] /\ genStream'[u] = genStream[u] /\ genTodo'[u] = genTodo[u]
  BY <1>1, <1>7, <1>8
<1>10. ThreadTypes'
  BY <1>1, <1>6, <1>7, <1>8 DEF ThreadTypes
<1>11. WalksSay'
  <2>1. ASSUME NEW u \in Stringifiers
        PROVE  IF genAsked'[u] = NoJValue THEN genTodo'[u] = <<>>
               ELSE Walk(genTodo'[u], genStream'[u], genAsked'[u])
    <3>1. CASE u = t
      BY <1>4, <1>6, <1>9, <3>1
    <3>2. CASE u # t
      BY <1>9, <3>2 DEF GeneratorInv, ThreadsInv, WalksSay
    <3> QED
      BY <3>1, <3>2
  <2> QED
    BY <2>1 DEF WalksSay
<1>12. AskedApart'
  <2>1. ASSUME NEW u \in Stringifiers, genAsked'[u] # NoJValue
        PROVE  /\ ~genString'[genAsked'[u]].destructor
               /\ \A w \in Stringifiers \ {u} : genAsked'[w] # genAsked'[u]
    <3>1. CASE u = t
      BY <1>1, <1>2, <1>9, <3>1 DEF Emptied
    <3>2. CASE u # t
      <4>1. genAsked'[u] = genAsked[u] /\ genAsked[u] # NoJValue
        BY <1>9, <2>1, <3>2
      <4>2. ~genString'[genAsked[u]].destructor
        BY <1>2, <4>1, EmptiedApart
      <4>3. \A w \in Stringifiers \ {u} : genAsked[w] # genAsked[u]
        BY <4>1 DEF GeneratorInv, ThreadsInv, AskedApart
      <4>4. \A w \in Stringifiers \ {u} : genAsked'[w] # genAsked[u]
        BY <1>1, <1>9, <4>3
      <4> QED
        BY <4>1, <4>2, <4>4
    <3> QED
      BY <3>1, <3>2
  <2> QED
    BY <2>1 DEF AskedApart
<1> QED
  BY <1>3, <1>10, <1>11, <1>12 DEF GeneratorInv, ThreadsInv

(* A call that fails, and the release of a value, tell nobody anything.    *)
LEMMA EmptyingKeeps ==
  ASSUME GeneratorInv, NEW v \in Stringified, Emptied(v),
         UNCHANGED <<genAsked, genTodo, genStream>>
  PROVE  GeneratorInv'
<1>1. StringsInv'
  BY EmptiedKeeps DEF GeneratorInv
<1>2. AskedApart'
  <2>1. ASSUME NEW u \in Stringifiers, genAsked[u] # NoJValue
        PROVE  /\ ~genString'[genAsked[u]].destructor
               /\ \A w \in Stringifiers \ {u} : genAsked[w] # genAsked[u]
    BY <2>1, EmptiedApart DEF GeneratorInv, ThreadsInv, AskedApart
  <2> QED
    BY <2>1 DEF AskedApart
<1>3. ThreadTypes' /\ WalksSay'
  BY DEF GeneratorInv, ThreadsInv, ThreadTypes, WalksSay
<1> QED
  BY <1>1, <1>2, <1>3 DEF GeneratorInv, ThreadsInv

LEMMA ReleaseKeeps ==
  ASSUME GeneratorInv, NEW v \in Stringified, ReleaseValue(v)
  PROVE  GeneratorInv'
<1>1. genString \in [Stringified -> Buffers]
  BY DEF GeneratorInv, StringsInv, StringTypes
<1>2. /\ genHeap' = IF genString[v].destructor THEN genHeap \ {genString[v].text} ELSE genHeap
      /\ genString' = [genString EXCEPT ![v] = ReleasedText]
      /\ genHeld' = [genHeld EXCEPT ![v] = NoText]
      /\ UNCHANGED <<genAsked, genTodo, genStream>>
  BY DEF ReleaseValue
<1>3. genString' \in [Stringified -> Buffers] /\ ~genString'[v].destructor
  BY <1>1, <1>2, NoTextIs
<1>4. Emptied(v)
  BY <1>1, <1>2, <1>3 DEF Emptied
<1> QED
  BY <1>2, <1>4, EmptyingKeeps

LEMMA GeneratorKeeps ==
  ASSUME GeneratorInv, [GeneratorSteps]_genVars
  PROVE  GeneratorInv'
<1>1. ASSUME NEW t \in Stringifiers, Traverse(t)
      PROVE  GeneratorInv'
  BY <1>1, TraverseKeeps
<1>2. ASSUME NEW t \in Stringifiers, FinishStream(t)
      PROVE  GeneratorInv'
  BY <1>2, FinishKeeps
<1>3. ASSUME NEW t \in Stringifiers, NEW v \in Stringified, Stringify(t, v)
      PROVE  GeneratorInv'
  BY <1>3, StringifyKeeps
<1>4. ASSUME NEW t \in Stringifiers, NEW v \in Stringified, StringifyFails(t, v)
      PROVE  GeneratorInv'
  BY <1>4, AskEmpties, EmptyingKeeps DEF StringifyFails, GeneratorInv
<1>5. ASSUME NEW v \in Stringified, ReleaseValue(v)
      PROVE  GeneratorInv'
  BY <1>5, ReleaseKeeps
<1>6. CASE UNCHANGED genVars
  BY <1>6 DEF genVars, GeneratorInv, StringsInv, StringTypes, TextsOwned, TextsHeld,
              ThreadsInv, ThreadTypes, WalksSay, AskedApart
<1> QED
  BY <1>1, <1>2, <1>3, <1>4, <1>5, <1>6 DEF GeneratorSteps

LEMMA GeneratorStarts ==
  ASSUME InitGenerator
  PROVE  GeneratorInv
<1>1. StringsInv
  BY NoTextIs, FS_EmptySet
     DEF InitGenerator, StringsInv, StringTypes, TextsOwned, TextsHeld, Buffers
<1>2. ThreadsInv
  <2>1. NewGenerator \in Generators
    BY Nothing DEF NewGenerator, Generators, Stacks, GeneratorStates
  <2> QED
    BY <2>1 DEF InitGenerator, ThreadsInv, ThreadTypes, WalksSay, AskedApart
<1> QED
  BY <1>1, <1>2 DEF GeneratorInv

(* What threads have told and have left to tell says what they were asked, *)
(* and values own the texts they keep, whichever calls fail and whichever  *)
(* parts the values share.                                                 *)
THEOREM GeneratorInductive == InitGenerator /\ [][GeneratorSteps]_genVars => []GeneratorInv
BY GeneratorStarts, GeneratorKeeps, PTL

(* Whatever the values and however many threads: a text that a client was  *)
(* given says the whole of its value, members in some order, and stands    *)
(* until the value is stringified again or released; no text is freed      *)
(* twice and none stays behind (jvalue_tostring_internal, jtraverse.c).    *)
THEOREM TextsKept == InitGenerator /\ [][GeneratorSteps]_genVars => []TextsStand
<1>1. GeneratorInv => TextsStand
  BY DEF GeneratorInv, StringsInv, TextsOwned, TextsHeld, TextsStand
<1> QED
  BY <1>1, GeneratorInductive, PTL
=============================================================================
