-------------------------- MODULE JValueGraphProofs --------------------------
(***************************************************************************)
(* Theorems about JValueGraph, for every finite set of blocks, names and   *)
(* references and every bound on the size of arrays.                       *)
(*                                                                         *)
(* The argument.  Every call moves references from one place to another,   *)
(* and where it makes or drops one it changes the counter (CountsExact).   *)
(* Hence a referenced block is alive, and a block without references has   *)
(* nothing that points into it.  An insertion adds edges from one block    *)
(* into a closed set that does not contain it, which closes no cycle       *)
(* (Grow).  Without cycles every set of lost blocks would have one that no *)
(* other of them contains, so its references would come from outside.      *)
(***************************************************************************)
EXTENDS JValueGraph, ProofLemmas, FiniteSetTheorems, TLAPS

IInv == TypeOK /\ CountsExact /\ Acyclic /\ WellFormed

(* A slot that waits for its new element belongs to an array that the      *)
(* client goes on holding while the old element is released, and the new   *)
(* one may still go there.                                                 *)
SlotWaits ==
  \/ slot = None /\ dropped["new"] = None
  \/ \E a \in Blocks, i \in Index, v \in Values :
       /\ slot = <<a, i>> /\ dropped["new"] = v
       /\ a \in Visible /\ kind[a] = "array" /\ i < size[a]
       /\ elem[<<a, i>>] = None
       /\ InsertSane(a, v)

CallInv == IInv /\ SlotWaits

-----------------------------------------------------------------------------
(* Counting the places of D at which f holds a reference to b.             *)

LEMMA CountUpdate ==
  ASSUME NEW D, IsFiniteSet(D), NEW f, NEW g, NEW p, NEW v, Update(f, g, D, p, v)
  PROVE  \A b : Count(g, D, b) = Count(f, D, b) - One(f[p], b) + One(v, b)
<1>1. \A u, b : Same(u, b) = One(u, b)
  BY DEF Same, One
<1>2. \A b : Count(g, D, b) = Count(f, D, b) - Same(f[p], b) + Same(v, b)
  BY CountPut
<1> QED
  BY <1>1, <1>2

-----------------------------------------------------------------------------
(* Cycles.  A step that adds no edge closes none.                          *)

LEMMA Shrink ==
  ASSUME Acyclic, \A d, b \in Blocks : b \in Contents(d)' => b \in Contents(d)
  PROVE  Acyclic'
BY DEF Acyclic

(* New edges from p into a closed set T without p close no cycle.          *)
LEMMA Grow ==
  ASSUME Acyclic, NEW p, NEW T \in SUBSET Blocks, p \notin T, Closed(T),
         \A d, b \in Blocks :
           b \in Contents(d)' => b \in Contents(d) \/ (d = p /\ b \in T)
  PROVE  Acyclic'
<1> SUFFICES ASSUME NEW S \in (SUBSET Blocks) \ {{}}
             PROVE  \E b \in S : \A d \in S : b \notin Contents(d)'
  BY DEF Acyclic
<1>1. CASE S \subseteq T
  <2>1. PICK b \in S : \A d \in S : b \notin Contents(d)
    BY DEF Acyclic
  <2> QED
    BY <1>1, <2>1
<1>2. CASE ~(S \subseteq T)
  <2>1. S \ T \in (SUBSET Blocks) \ {{}}
    BY <1>2
  <2>2. PICK b \in S \ T : \A d \in S \ T : b \notin Contents(d)
    BY <2>1 DEF Acyclic
  <2>3. \A d \in S \cap T : b \notin Contents(d)
    BY <2>2 DEF Closed
  <2> QED
    BY <2>2, <2>3
<1> QED
  BY <1>1, <1>2

-----------------------------------------------------------------------------
(* Counting references in a state.                                         *)

LEMMA OneNat == \A v, b : One(v, b) \in {0, 1} /\ (One(v, b) = 1 <=> v = b)
BY DEF One

LEMMA PlacesFinite ==
  /\ IsFiniteSet(Handles) /\ IsFiniteSet(Lost) /\ IsFiniteSet(Locals)
  /\ IsFiniteSet(Cells) /\ IsFiniteSet(Members)
<1>1. IsFiniteSet(Index)
  BY MaxSizeAssumption, FS_Interval DEF Index
<1>2. IsFiniteSet(Locals)
  <2>1. IsFiniteSet({"key"} \cup {"val"})
    BY FS_Singleton, FS_Union
  <2>2. IsFiniteSet({"key"} \cup {"val"} \cup {"new"})
    BY <2>1, FS_Singleton, FS_Union
  <2>3. Locals = {"key"} \cup {"val"} \cup {"new"}
    BY DEF Locals
  <2> QED
    BY <2>2, <2>3
<1> QED
  BY <1>1, <1>2, FS_Product, FiniteConstants DEF Cells, Members

LEMMA ReferencesSum ==
  ASSUME NEW b
  PROVE  References(b) =
           Count(handle, Handles, b) + Count(lost, Lost, b) +
           Count(dropped, Locals, b) + Count(elem, Cells, b) +
           Count(keyOf, Members, b) + Count(value, Members, b)
BY DEF References, Count

Unreferenced(b) ==
  /\ \A h \in Handles : handle[h] # b
  /\ \A l \in Lost : lost[l] # b
  /\ \A k \in Locals : dropped[k] # b
  /\ \A c \in Cells : elem[c] # b
  /\ \A m \in Members : keyOf[m] # b /\ value[m] # b

LiveRefs ==
  \A b \in Blocks : kind[b] \notin Live <=> Unreferenced(b)

(* A block is alive exactly while something refers to it.                  *)
LEMMA Referenced == TypeOK /\ CountsExact => LiveRefs
<1> SUFFICES ASSUME TypeOK, CountsExact, NEW b \in Blocks
             PROVE  kind[b] \notin Live <=> Unreferenced(b)
  BY DEF LiveRefs
<1> DEFINE ch == Count(handle, Handles, b)
           cl == Count(lost, Lost, b)
           cd == Count(dropped, Locals, b)
           ce == Count(elem, Cells, b)
           ck == Count(keyOf, Members, b)
           cv == Count(value, Members, b)
<1>1. /\ ch \in Nat /\ (ch = 0 <=> \A h \in Handles : handle[h] # b)
      /\ cl \in Nat /\ (cl = 0 <=> \A l \in Lost : lost[l] # b)
      /\ cd \in Nat /\ (cd = 0 <=> \A k \in Locals : dropped[k] # b)
      /\ ce \in Nat /\ (ce = 0 <=> \A c \in Cells : elem[c] # b)
      /\ ck \in Nat /\ (ck = 0 <=> \A m \in Members : keyOf[m] # b)
      /\ cv \in Nat /\ (cv = 0 <=> \A m \in Members : value[m] # b)
  BY PlacesFinite, CountZero
<1>2. References(b) = ch + cl + cd + ce + ck + cv
  BY ReferencesSum
<1>3. refCnt[b] = References(b) /\ (refCnt[b] > 0) = (kind[b] \in Live)
  BY DEF CountsExact
<1> HIDE DEF ch, cl, cd, ce, ck, cv
<1>4. kind[b] \notin Live <=> ch = 0 /\ cl = 0 /\ cd = 0 /\ ce = 0 /\ ck = 0 /\ cv = 0
  BY <1>1, <1>2, <1>3
<1> QED
  BY <1>1, <1>4 DEF Unreferenced

LEMMA ReferencedNext == TypeOK' /\ CountsExact' => LiveRefs'
BY Referenced, PTL

LEMMA VisibleLive ==
  ASSUME TypeOK, CountsExact, NEW v \in Visible
  PROVE  v \in Values /\ (v \in Blocks => kind[v] \in Live /\ refCnt[v] > 0)
<1>1. CASE v \in Owned
  <2>1. PICK h \in Handles : handle[h] = v
    BY <1>1 DEF Owned
  <2>2. v # None /\ v \in Values
    BY <1>1, <2>1 DEF Owned, TypeOK
  <2> QED
    BY <2>1, <2>2, Referenced DEF LiveRefs, Unreferenced, CountsExact
<1>2. CASE v \notin Owned
  <2>1. PICK d \in Owned \cap Blocks : v \in Contents(d)
    BY <1>2 DEF Visible
  <2>2. v # None /\
        \/ \E i \in 0 .. size[d] - 1 : v = elem[<<d, i>>]
        \/ \E n \in Names : v = keyOf[<<d, n>>] \/ v = value[<<d, n>>]
    BY <2>1 DEF Contents
  <2>3. 0 .. size[d] - 1 \subseteq Index
    BY <2>1, MaxSizeAssumption DEF TypeOK, Index
  <2>4. v # None /\
        \/ \E c \in Cells : v = elem[c]
        \/ \E m \in Members : v = keyOf[m] \/ v = value[m]
    <3>1. \A i \in 0 .. size[d] - 1 : <<d, i>> \in Cells
      BY <2>1, <2>3 DEF Cells
    <3>2. \A n \in Names : <<d, n>> \in Members
      BY <2>1 DEF Members
    <3> QED
      BY <2>2, <3>1, <3>2
  <2>5. v \in Values
    BY <2>4 DEF TypeOK
  <2> QED
    BY <2>4, <2>5, Referenced DEF LiveRefs, Unreferenced, CountsExact
<1> QED
  BY <1>1, <1>2

VisibleAlive == \A b \in Blocks : b \in Visible => kind[b] \in Live

LEMMA VisibleLiveNext == TypeOK' /\ CountsExact' => VisibleAlive'
<1>1. TypeOK /\ CountsExact => VisibleAlive
  BY VisibleLive DEF VisibleAlive
<1> QED
  BY <1>1, PTL

-----------------------------------------------------------------------------
(* What the helpers of the calls do to the counts.                         *)

Refs == Values \cup {None}

LEMMA CountsNat ==
  ASSUME NEW b
  PROVE  /\ Count(handle, Handles, b) \in Nat /\ Count(handle', Handles, b) \in Nat
         /\ Count(lost, Lost, b) \in Nat /\ Count(lost', Lost, b) \in Nat
         /\ Count(dropped, Locals, b) \in Nat /\ Count(dropped', Locals, b) \in Nat
         /\ Count(elem, Cells, b) \in Nat /\ Count(elem', Cells, b) \in Nat
         /\ Count(keyOf, Members, b) \in Nat /\ Count(keyOf', Members, b) \in Nat
         /\ Count(value, Members, b) \in Nat /\ Count(value', Members, b) \in Nat
BY PlacesFinite, CountZero

(* How many references to b a step adds, place by place and altogether.    *)
GainHandle(b) == Count(handle', Handles, b) - Count(handle, Handles, b)
GainLost(b) == Count(lost', Lost, b) - Count(lost, Lost, b)
GainDropped(b) == Count(dropped', Locals, b) - Count(dropped, Locals, b)
GainElem(b) == Count(elem', Cells, b) - Count(elem, Cells, b)
GainKeyOf(b) == Count(keyOf', Members, b) - Count(keyOf, Members, b)
GainValue(b) == Count(value', Members, b) - Count(value, Members, b)

Change(b) ==
  GainHandle(b) + GainLost(b) + GainDropped(b) + GainElem(b) + GainKeyOf(b) + GainValue(b)

LEMMA Gains ==
  ASSUME NEW b
  PROVE  /\ GainHandle(b) \in Int /\ (handle' = handle => GainHandle(b) = 0)
         /\ GainLost(b) \in Int /\ (lost' = lost => GainLost(b) = 0)
         /\ GainDropped(b) \in Int /\ (dropped' = dropped => GainDropped(b) = 0)
         /\ GainElem(b) \in Int /\ (elem' = elem => GainElem(b) = 0)
         /\ GainKeyOf(b) \in Int /\ (keyOf' = keyOf => GainKeyOf(b) = 0)
         /\ GainValue(b) \in Int /\ (value' = value => GainValue(b) = 0)
BY CountsNat DEF GainHandle, GainLost, GainDropped, GainElem, GainKeyOf, GainValue

(* The counter of b stays exact when it changes as its references do.      *)
LEMMA Balance ==
  ASSUME NEW b \in Blocks, TypeOK, CountsExact, refCnt'[b] = refCnt[b] + Change(b)
  PROVE  refCnt'[b] = References(b)'
<1>1. refCnt[b] = References(b)
  BY DEF CountsExact
<1>2. References(b)' =
        Count(handle', Handles, b) + Count(lost', Lost, b) +
        Count(dropped', Locals, b) + Count(elem', Cells, b) +
        Count(keyOf', Members, b) + Count(value', Members, b)
  BY DEF References, Count
<1> QED
  BY <1>1, <1>2, ReferencesSum, CountsNat
  DEF Change, GainHandle, GainLost, GainDropped, GainElem, GainKeyOf, GainValue

LEMMA QuietCount ==
  ASSUME TypeOK, Quiet
  PROVE  \A b \in Blocks : Count(dropped, Locals, b) = 0
BY PlacesFinite, CountZero, ConstsDiffer DEF Quiet, Released, Locals

LEMMA OneConst == \A b \in Blocks : One(None, b) = 0 /\ One(Const, b) = 0
BY ConstsDiffer DEF One

LEMMA DropForCount ==
  ASSUME TypeOK, Quiet, NEW c \in Cells \cup {None},
         NEW w \in Refs, NEW u \in Refs, NEW v \in Refs, DropFor(c, w, u, v)
  PROVE  /\ dropped' \in [Locals -> Refs] /\ slot' \in Cells \cup {None}
         /\ \A b \in Blocks : GainDropped(b) = One(w, b) + One(u, b) + One(v, b)
<1> DEFINE f == [dropped EXCEPT !["key"] = u]
           g == [f EXCEPT !["val"] = v]
<1>1. /\ dropped \in [Locals -> Refs]
      /\ "key" \in Locals /\ "val" \in Locals /\ "new" \in Locals
      /\ \A k \in Locals : dropped[k] = None
  BY DEF TypeOK, Locals, Refs, Quiet, Released
<1>2. dropped' = [k \in Locals |-> IF k = "new" THEN w ELSE IF k = "key" THEN u ELSE v]
  BY DEF DropFor
<1>3. f \in [Locals -> Refs] /\ f["val"] = None /\ g \in [Locals -> Refs] /\ g["new"] = None
  BY <1>1
<1>4. /\ Update(dropped, f, Locals, "key", u) /\ Update(f, g, Locals, "val", v)
      /\ Update(g, dropped', Locals, "new", w)
  BY <1>1, <1>2 DEF Locals, Update
<1> HIDE DEF f, g
<1>5. /\ \A b : Count(f, Locals, b) = Count(dropped, Locals, b) - One(dropped["key"], b) + One(u, b)
      /\ \A b : Count(g, Locals, b) = Count(f, Locals, b) - One(f["val"], b) + One(v, b)
      /\ \A b : Count(dropped', Locals, b) = Count(g, Locals, b) - One(g["new"], b) + One(w, b)
  BY <1>4, PlacesFinite, CountUpdate
<1>6. ASSUME NEW b \in Blocks
      PROVE  GainDropped(b) = One(w, b) + One(u, b) + One(v, b)
  <2>1. /\ Count(f, Locals, b) = Count(dropped, Locals, b) - 0 + One(u, b)
        /\ Count(g, Locals, b) = Count(f, Locals, b) - 0 + One(v, b)
        /\ Count(dropped', Locals, b) = Count(g, Locals, b) - 0 + One(w, b)
    BY <1>1, <1>3, <1>5, OneConst
  <2> QED
    BY <2>1, OneNat, CountsNat DEF GainDropped
<1> QED
  BY <1>2, <1>6 DEF DropFor

LEMMA DropCount ==
  ASSUME TypeOK, Quiet, NEW u \in Refs, NEW v \in Refs, Drop(u, v)
  PROVE  /\ dropped' \in [Locals -> Refs] /\ slot' \in Cells \cup {None}
         /\ \A b \in Blocks : GainDropped(b) = One(u, b) + One(v, b)
<1>1. None \in Refs /\ DropFor(None, None, u, v)
  BY DEF Drop, Refs
<1>2. /\ dropped' \in [Locals -> Refs] /\ slot' \in Cells \cup {None}
      /\ \A b \in Blocks : GainDropped(b) = One(None, b) + One(u, b) + One(v, b)
  BY <1>1, DropForCount
<1>3. \A b \in Blocks : GainDropped(b) = 0 + One(u, b) + One(v, b)
  BY <1>2, OneConst
<1> QED
  BY <1>2, <1>3, OneNat

LEMMA HandleCount ==
  ASSUME TypeOK, NEW h \in Handles, NEW v \in Refs, handle' = [handle EXCEPT ![h] = v]
  PROVE  /\ handle' \in [Handles -> Refs]
         /\ \A b : GainHandle(b) = One(v, b) - One(handle[h], b)
<1>1. Update(handle, handle', Handles, h, v) /\ handle' \in [Handles -> Refs]
  BY DEF TypeOK, Update, Refs
<1>2. ASSUME NEW b
      PROVE  GainHandle(b) = One(v, b) - One(handle[h], b)
  <2>1. Count(handle', Handles, b) = Count(handle, Handles, b) - One(handle[h], b) + One(v, b)
    BY <1>1, PlacesFinite, CountUpdate
  <2> QED
    BY <2>1, OneNat, CountsNat DEF GainHandle
<1> QED
  BY <1>1, <1>2

LEMMA TakeHandle ==
  ASSUME TypeOK, NEW h \in Handles, NEW v \in Values,
         handle[h] = None, handle' = [handle EXCEPT ![h] = v]
  PROVE  /\ handle' \in [Handles -> Refs]
         /\ \A b \in Blocks : GainHandle(b) = One(v, b)
<1>1. v \in Refs
  BY DEF Refs
<1>2. \A b \in Blocks : GainHandle(b) = One(v, b) - 0
  BY <1>1, HandleCount, OneConst
<1>3. \A b \in Blocks : GainHandle(b) = One(v, b)
  BY <1>2, OneNat
<1> QED
  BY <1>1, <1>3, HandleCount

LEMMA GiveHandle ==
  ASSUME TypeOK, NEW h \in Handles, handle' = [handle EXCEPT ![h] = None]
  PROVE  /\ handle' \in [Handles -> Refs]
         /\ \A b \in Blocks : GainHandle(b) = 0 - One(handle[h], b)
<1>1. None \in Refs
  BY DEF Refs
<1> QED
  BY <1>1, HandleCount, OneConst

LEMMA LoseCount ==
  ASSUME TypeOK, NEW v \in Values, Lose(v)
  PROVE  /\ lost' \in [Lost -> Refs]
         /\ \A b \in Blocks : GainLost(b) = One(v, b)
<1>1. CASE v \in Blocks
  <2>1. PICK l \in Lost : lost[l] = None /\ lost' = [lost EXCEPT ![l] = v]
    BY <1>1 DEF Lose
  <2>2. Update(lost, lost', Lost, l, v) /\ lost' \in [Lost -> Refs]
    BY <2>1 DEF TypeOK, Update, Refs
  <2>3. \A b : Count(lost', Lost, b) = Count(lost, Lost, b) - One(lost[l], b) + One(v, b)
    BY <2>2, PlacesFinite, CountUpdate
  <2>4. ASSUME NEW b \in Blocks
        PROVE  GainLost(b) = One(v, b)
    <3>1. Count(lost', Lost, b) = Count(lost, Lost, b) - 0 + One(v, b)
      BY <2>1, <2>3, OneConst
    <3> QED
      BY <3>1, OneNat, CountsNat DEF GainLost
  <2> QED
    BY <2>2, <2>4
<1>2. CASE v \notin Blocks
  <2>1. lost' = lost /\ v = Const
    BY <1>2 DEF Lose, Values
  <2> QED
    BY <2>1, OneConst, Gains DEF TypeOK, Refs
<1> QED
  BY <1>1, <1>2

(* j_release of v, a reference that somebody holds.                        *)
LEMMA UnrefCount ==
  ASSUME TypeOK, CountsExact, NEW v \in Refs, v \in Blocks => refCnt[v] > 0, Unref(v)
  PROVE  /\ refCnt' \in [Blocks -> Nat]
         /\ kind' \in [Blocks -> Live \cup {"free", "dying"}]
         /\ \A b \in Blocks :
              /\ refCnt'[b] = refCnt[b] - One(v, b)
              /\ (refCnt'[b] > 0) = (kind'[b] \in Live)
              /\ kind'[b] = kind[b] \/ (kind[b] \in Live /\ kind'[b] = "dying")
<1>1. \A b \in Blocks : refCnt[b] \in Nat /\ kind[b] \in Live \cup {"free", "dying"}
  BY DEF TypeOK
<1>2. \A b \in Blocks : refCnt'[b] = refCnt[b] - One(v, b) /\ refCnt'[b] \in Nat
  BY <1>1 DEF Unref, One
<1>3. \A b \in Blocks :
        kind'[b] = IF b = v /\ refCnt[b] = 1 THEN "dying" ELSE kind[b]
  BY DEF Unref
<1>4. \A b \in Blocks :
        /\ (refCnt'[b] > 0) = (kind'[b] \in Live)
        /\ kind'[b] = kind[b] \/ (kind[b] \in Live /\ kind'[b] = "dying")
  <2> TAKE b \in Blocks
  <2>1. (refCnt[b] > 0) = (kind[b] \in Live)
    BY DEF CountsExact
  <2>2. CASE b = v /\ refCnt[b] = 1
    BY <1>1, <1>2, <1>3, <2>1, <2>2 DEF One, Live
  <2>3. CASE b = v /\ refCnt[b] # 1
    BY <1>1, <1>2, <1>3, <2>1, <2>3 DEF One
  <2>4. CASE b # v
    BY <1>1, <1>2, <1>3, <2>1, <2>4 DEF One
  <2> QED
    BY <2>2, <2>3, <2>4
<1>5. refCnt' \in [Blocks -> Nat]
  BY <1>2 DEF Unref
<1>6. kind' \in [Blocks -> Live \cup {"free", "dying"}]
  BY <1>1 DEF Unref
<1> QED
  BY <1>2, <1>4, <1>5, <1>6

(* g_hash_table_replace takes over two references and gives two back.      *)
LEMMA ReplaceCount ==
  ASSUME TypeOK, Quiet, NEW o \in Blocks, NEW n \in Names, NEW k \in Refs, NEW v \in Refs,
         Replace(o, n, k, v)
  PROVE  /\ keyOf' \in [Members -> Refs] /\ value' \in [Members -> Refs]
         /\ dropped' \in [Locals -> Refs] /\ slot' \in Cells \cup {None}
         /\ \A b \in Blocks :
              GainDropped(b) + GainKeyOf(b) + GainValue(b) = One(k, b) + One(v, b)
<1> DEFINE p == <<o, n>>
<1>1. p \in Members /\ keyOf[p] \in Refs /\ value[p] \in Refs
  BY DEF Members, TypeOK, Refs
<1>2. /\ Update(keyOf, keyOf', Members, p, k) /\ keyOf' \in [Members -> Refs]
      /\ Update(value, value', Members, p, v) /\ value' \in [Members -> Refs]
  BY <1>1 DEF Replace, TypeOK, Update, Refs
<1>3. /\ \A b : Count(keyOf', Members, b) = Count(keyOf, Members, b) - One(keyOf[p], b) + One(k, b)
      /\ \A b : Count(value', Members, b) = Count(value, Members, b) - One(value[p], b) + One(v, b)
  BY <1>2, PlacesFinite, CountUpdate
<1>4. Drop(keyOf[p], value[p])
  BY DEF Replace
<1>5. /\ dropped' \in [Locals -> Refs] /\ slot' \in Cells \cup {None}
      /\ \A b \in Blocks : GainDropped(b) = One(keyOf[p], b) + One(value[p], b)
  BY <1>1, <1>4, DropCount
<1>6. ASSUME NEW b \in Blocks
      PROVE  GainDropped(b) + GainKeyOf(b) + GainValue(b) = One(k, b) + One(v, b)
  <2>1. /\ One(keyOf[p], b) \in {0, 1} /\ One(value[p], b) \in {0, 1}
        /\ One(k, b) \in {0, 1} /\ One(v, b) \in {0, 1}
    BY OneNat
  <2>2. /\ Count(keyOf', Members, b) = Count(keyOf, Members, b) - One(keyOf[p], b) + One(k, b)
        /\ Count(value', Members, b) = Count(value, Members, b) - One(value[p], b) + One(v, b)
        /\ GainDropped(b) = One(keyOf[p], b) + One(value[p], b)
    BY <1>3, <1>5
  <2> QED
    BY <2>1, <2>2, CountsNat DEF GainKeyOf, GainValue
<1> QED
  BY <1>2, <1>5, <1>6


(* What jobject_put owns, k and v, it hands on to the object or gives up.  *)
LEMMA PutMemberCount ==
  ASSUME TypeOK, Quiet, NEW o \in Values, NEW n \in Names, NEW k \in Values, NEW v \in Values,
         PutMember(o, n, k, v)
  PROVE  /\ keyOf' \in [Members -> Refs] /\ value' \in [Members -> Refs]
         /\ dropped' \in [Locals -> Refs] /\ slot' \in Cells \cup {None}
         /\ \A b \in Blocks :
              GainDropped(b) + GainKeyOf(b) + GainValue(b) = One(k, b) + One(v, b)
<1>1. k \in Refs /\ v \in Refs
  BY DEF Refs
<1>2. CASE Is(o, "object") /\ InsertSane(o, v)
  <2>1. o \in Blocks /\ Replace(o, n, k, v)
    BY <1>2 DEF PutMember, Is
  <2> QED
    BY <1>1, <2>1, ReplaceCount
<1>3. CASE ~(Is(o, "object") /\ InsertSane(o, v))
  <2>1. Drop(k, v) /\ keyOf' = keyOf /\ value' = value
    BY <1>3 DEF PutMember
  <2>2. /\ dropped' \in [Locals -> Refs] /\ slot' \in Cells \cup {None}
        /\ \A b \in Blocks : GainDropped(b) = One(k, b) + One(v, b)
    BY <1>1, <2>1, DropCount
  <2>3. ASSUME NEW b \in Blocks
        PROVE  GainDropped(b) + GainKeyOf(b) + GainValue(b) = One(k, b) + One(v, b)
    BY <2>1, <2>2, OneNat, Gains
  <2>4. keyOf' \in [Members -> Refs] /\ value' \in [Members -> Refs]
    BY <2>1 DEF TypeOK, Refs
  <2> QED
    BY <2>2, <2>3, <2>4
<1> QED
  BY <1>2, <1>3

(* The new element goes into an empty slot, or the slot is emptied for it. *)
LEMMA PutElemCount ==
  ASSUME TypeOK, Quiet, NEW a \in Blocks, NEW i \in Index, NEW v \in Values,
         PutElem(a, i, v)
  PROVE  /\ elem' \in [Cells -> Refs] /\ size' \in [Blocks -> 0 .. MaxSize]
         /\ dropped' \in [Locals -> Refs] /\ slot' \in Cells \cup {None}
         /\ \A b \in Blocks :
              GainDropped(b) + GainElem(b) = One(v, b)
<1> DEFINE p == <<a, i>>
<1>1. p \in Cells /\ elem[p] \in Refs /\ None \in Refs /\ v \in Refs
  BY DEF Cells, TypeOK, Refs
<1>2. size' \in [Blocks -> 0 .. MaxSize]
  BY MaxSizeAssumption DEF PutElem, TypeOK, Index
<1>3. CASE elem[p] = None /\ elem' = [elem EXCEPT ![p] = v] /\ Drop(None, None)
  <2>1. Update(elem, elem', Cells, p, v) /\ elem' \in [Cells -> Refs]
    BY <1>1, <1>3 DEF TypeOK, Update, Refs
  <2>2. \A b : Count(elem', Cells, b) = Count(elem, Cells, b) - One(elem[p], b) + One(v, b)
    BY <2>1, PlacesFinite, CountUpdate
  <2>3. /\ dropped' \in [Locals -> Refs] /\ slot' \in Cells \cup {None}
        /\ \A b \in Blocks : GainDropped(b) = One(None, b) + One(None, b)
    BY <1>1, <1>3, DropCount
  <2>4. ASSUME NEW b \in Blocks
        PROVE  GainDropped(b) + GainElem(b) = One(v, b)
    <3>1. /\ Count(elem', Cells, b) = Count(elem, Cells, b) - 0 + One(v, b)
          /\ GainDropped(b) = 0 + 0
      BY <1>3, <2>2, <2>3, OneConst
    <3> QED
      BY <3>1, OneNat, CountsNat DEF GainElem
  <2> QED
    BY <1>2, <2>1, <2>3, <2>4
<1>4. CASE elem' = [elem EXCEPT ![p] = None] /\ DropFor(p, v, None, elem[p])
  <2>1. Update(elem, elem', Cells, p, None) /\ elem' \in [Cells -> Refs]
    BY <1>1, <1>4 DEF TypeOK, Update, Refs
  <2>2. \A b : Count(elem', Cells, b) = Count(elem, Cells, b) - One(elem[p], b) + One(None, b)
    BY <2>1, PlacesFinite, CountUpdate
  <2>3. /\ dropped' \in [Locals -> Refs] /\ slot' \in Cells \cup {None}
        /\ \A b \in Blocks : GainDropped(b) = One(v, b) + One(None, b) + One(elem[p], b)
    BY <1>1, <1>4, DropForCount
  <2>4. ASSUME NEW b \in Blocks
        PROVE  GainDropped(b) + GainElem(b) = One(v, b)
    <3>1. /\ Count(elem', Cells, b) = Count(elem, Cells, b) - One(elem[p], b) + 0
          /\ GainDropped(b) = One(v, b) + 0 + One(elem[p], b)
      BY <2>2, <2>3, OneConst
    <3> QED
      BY <3>1, OneNat, CountsNat DEF GainElem
  <2> QED
    BY <1>2, <2>1, <2>3, <2>4
<1> QED
  BY <1>3, <1>4 DEF PutElem

(* g is f with the slots lo .. hi of a moved up by one, the last to lo.    *)
Rotated(f, g, a, lo, hi) ==
  \A c \in Cells :
    g[c] = IF c[1] # a \/ c[2] < lo \/ c[2] > hi THEN f[c]
           ELSE IF c[2] = lo THEN f[<<a, hi>>]
           ELSE f[<<a, c[2] - 1>>]

LEMMA Rotate ==
  ASSUME NEW a \in Blocks, NEW lo \in Index, NEW hi \in Index, lo <= hi, NEW f, NEW g,
         Rotated(f, g, a, lo, hi)
  PROVE  \A b : Count(g, Cells, b) = Count(f, Cells, b)
<1> DEFINE In(c) == c[1] = a /\ lo <= c[2] /\ c[2] <= hi
           pi == [c \in Cells |-> IF ~In(c) THEN c
                                  ELSE IF c[2] = lo THEN <<a, hi>> ELSE <<a, c[2] - 1>>]
           inv == [c \in Cells |-> IF ~In(c) THEN c
                                   ELSE IF c[2] = hi THEN <<a, lo>> ELSE <<a, c[2] + 1>>]
<1>1. Index \subseteq Nat /\ \A i \in Index : \A j \in Nat : j <= i => j \in Index
  BY MaxSizeAssumption DEF Index
<1>2. \A c \in Cells : c = <<c[1], c[2]>> /\ c[1] \in Blocks /\ c[2] \in Index
  BY DEF Cells
<1>3. pi \in [Cells -> Cells]
  <2>1. \A c \in Cells : In(c) /\ c[2] # lo => c[2] - 1 \in Index
    BY <1>2, MaxSizeAssumption DEF Index
  <2>2. \A c \in Cells : In(c) /\ c[2] # lo => <<a, c[2] - 1>> \in Cells
    BY <2>1 DEF Cells
  <2>3. <<a, hi>> \in Cells
    BY DEF Cells
  <2> HIDE DEF In
  <2> QED
    BY <2>2, <2>3
<1>4. inv \in [Cells -> Cells]
  <2>1. \A c \in Cells : In(c) /\ c[2] # hi => c[2] + 1 \in Index
    BY <1>2, MaxSizeAssumption DEF Index
  <2>2. \A c \in Cells : In(c) /\ c[2] # hi => <<a, c[2] + 1>> \in Cells
    BY <2>1 DEF Cells
  <2>3. <<a, lo>> \in Cells
    BY DEF Cells
  <2> HIDE DEF In
  <2> QED
    BY <2>2, <2>3
<1>5. \A c \in Cells : inv[pi[c]] = c /\ pi[inv[c]] = c
  <2> TAKE c \in Cells
  <2>1. CASE ~In(c)
    BY <2>1
  <2>2. CASE In(c)
    <3>1. pi[c] = IF c[2] = lo THEN <<a, hi>> ELSE <<a, c[2] - 1>>
      BY <2>2
    <3>2. inv[c] = IF c[2] = hi THEN <<a, lo>> ELSE <<a, c[2] + 1>>
      BY <2>2
    <3>3. pi[c] \in Cells /\ inv[c] \in Cells
      BY <1>3, <1>4
    <3>4. In(pi[c]) /\ In(inv[c])
      BY <1>1, <1>2, <2>2, <3>1, <3>2
    <3>5. inv[pi[c]] = c
      BY <1>1, <1>2, <2>2, <3>1, <3>3, <3>4
    <3>6. pi[inv[c]] = c
      BY <1>1, <1>2, <2>2, <3>2, <3>3, <3>4
    <3> QED
      BY <3>5, <3>6
  <2> QED
    BY <2>1, <2>2
<1>6. \A c \in Cells : g[c] = f[pi[c]]
  BY <1>1, <1>2 DEF Rotated
<1> HIDE DEF pi, inv
<1> QED
  BY <1>3, <1>4, <1>5, <1>6, PlacesFinite, CountMove


LEMMA InsertCount ==
  ASSUME TypeOK, WellFormed, NEW a \in Blocks, NEW lo \in Index, NEW v \in Values,
         lo <= size[a], size[a] < MaxSize,
         elem' = [c \in Cells |->
                   IF c[1] # a \/ c[2] < lo \/ c[2] > size[a] THEN elem[c]
                   ELSE IF c[2] = lo THEN v
                   ELSE elem[<<a, c[2] - 1>>]]
  PROVE  /\ elem' \in [Cells -> Refs]
         /\ \A b \in Blocks : GainElem(b) = One(v, b)
<1> DEFINE p == <<a, size[a]>>
           f == [elem EXCEPT ![p] = v]
<1>1. /\ size[a] \in Index /\ p \in Cells /\ elem[p] = None
      /\ elem \in [Cells -> Refs] /\ v \in Refs
  <2>1. size[a] \in Index
    BY MaxSizeAssumption DEF TypeOK, Index
  <2>2. p \in Cells
    BY <2>1 DEF Cells
  <2>3. elem[p] = None
    BY <2>1 DEF TypeOK, WellFormed
  <2>4. elem \in [Cells -> Refs] /\ v \in Refs
    BY DEF TypeOK, Refs
  <2> QED
    BY <2>1, <2>2, <2>3, <2>4
<1>2. \A c \in Cells : c = <<c[1], c[2]>> /\ c[1] \in Blocks /\ c[2] \in Index
  BY DEF Cells
<1>3. \A c \in Cells : c[1] = a /\ ~(c[2] < lo) /\ c[2] # lo => <<a, c[2] - 1>> \in Cells
  <2>1. \A c \in Cells : c[1] = a /\ ~(c[2] < lo) /\ c[2] # lo => c[2] - 1 \in Index
    BY <1>2, MaxSizeAssumption DEF Index
  <2> QED
    BY <2>1 DEF Cells
<1>4. Update(elem, f, Cells, p, v)
  BY <1>1 DEF Update
<1>5. Rotated(f, elem', a, lo, size[a])
  <2> SUFFICES ASSUME NEW c \in Cells
               PROVE  elem'[c] = IF c[1] # a \/ c[2] < lo \/ c[2] > size[a] THEN f[c]
                                 ELSE IF c[2] = lo THEN f[<<a, size[a]>>]
                                 ELSE f[<<a, c[2] - 1>>]
    BY DEF Rotated
  <2>1. \A i \in Index : i # size[a] => <<a, i>> # p
    OBVIOUS
  <2>2. CASE c[1] # a \/ c[2] < lo \/ c[2] > size[a]
    <3>1. c # p
      BY <1>1, <2>2 DEF Index
    <3> QED
      BY <1>1, <2>2, <3>1
  <2>3. CASE ~(c[1] # a \/ c[2] < lo \/ c[2] > size[a]) /\ c[2] = lo
    BY <1>1, <2>3
  <2>4. CASE ~(c[1] # a \/ c[2] < lo \/ c[2] > size[a]) /\ c[2] # lo
    <3>1. <<a, c[2] - 1>> \in Cells /\ <<a, c[2] - 1>> # p
      BY <1>1, <1>2, <1>3, <2>4 DEF Index
    <3> QED
      BY <1>1, <2>4, <3>1
  <2> QED
    BY <2>2, <2>3, <2>4
<1> HIDE DEF f
<1>6. \A b : Count(elem', Cells, b) = Count(f, Cells, b)
  BY <1>1, <1>5, Rotate
<1>7. \A b : Count(f, Cells, b) = Count(elem, Cells, b) - One(elem[p], b) + One(v, b)
  BY <1>4, PlacesFinite, CountUpdate
<1>8. elem' \in [Cells -> Refs]
  BY <1>1, <1>3
<1>9. ASSUME NEW b \in Blocks
      PROVE  GainElem(b) = One(v, b)
  <2>1. Count(elem', Cells, b) = Count(elem, Cells, b) - 0 + One(v, b)
    BY <1>1, <1>6, <1>7, OneConst
  <2> QED
    BY <2>1, OneNat, CountsNat DEF GainElem
<1> QED
  BY <1>8, <1>9

LEMMA RemoveCount ==
  ASSUME TypeOK, NEW a \in Blocks, NEW lo \in 0 .. size[a] - 1,
         elem' = [c \in Cells |->
                   IF c[1] # a \/ c[2] < lo \/ c[2] >= size[a] THEN elem[c]
                   ELSE IF c[2] = size[a] - 1 THEN None
                   ELSE elem[<<a, c[2] + 1>>]]
  PROVE  /\ elem' \in [Cells -> Refs]
         /\ \A b \in Blocks : GainElem(b) = 0 - One(elem[<<a, lo>>], b)
<1> DEFINE p == <<a, lo>>
           hi == size[a] - 1
           f == [elem EXCEPT ![p] = None]
<1>1. /\ lo \in Index /\ hi \in Index /\ lo <= hi /\ p \in Cells
      /\ elem \in [Cells -> Refs] /\ None \in Refs
  <2>1. lo \in Index /\ hi \in Index /\ lo <= hi
    BY MaxSizeAssumption DEF TypeOK, Index
  <2>2. p \in Cells
    BY <2>1 DEF Cells
  <2>3. elem \in [Cells -> Refs] /\ None \in Refs
    BY DEF TypeOK, Refs
  <2> QED
    BY <2>1, <2>2, <2>3
<1>2. \A c \in Cells : c = <<c[1], c[2]>> /\ c[1] \in Blocks /\ c[2] \in Index
  BY DEF Cells
<1>3. \A i \in Index : i >= lo /\ i <= hi =>
        /\ <<a, i>> \in Cells
        /\ i # hi => i + 1 \in Index /\ <<a, i + 1>> \in Cells
  <2>1. \A i \in Index : i >= lo /\ i <= hi /\ i # hi => i + 1 \in Index
    BY <1>1, MaxSizeAssumption DEF Index
  <2> QED
    BY <2>1 DEF Cells
<1>4. size[a] \in Nat /\ Index \subseteq Nat
  BY DEF TypeOK, Index
<1>5. elem' \in [Cells -> Refs]
  BY <1>1, <1>2, <1>3, <1>4
<1>6. Update(elem, f, Cells, p, None)
  BY <1>1 DEF Update
<1>7. Rotated(elem', f, a, lo, hi)
  <2> SUFFICES ASSUME NEW c \in Cells
               PROVE  f[c] = IF c[1] # a \/ c[2] < lo \/ c[2] > hi THEN elem'[c]
                             ELSE IF c[2] = lo THEN elem'[<<a, hi>>]
                             ELSE elem'[<<a, c[2] - 1>>]
    BY DEF Rotated
  <2>1. CASE c[1] # a \/ c[2] < lo \/ c[2] > hi
    <3>1. c # p
      BY <1>1, <1>4, <2>1
    <3>2. elem'[c] = elem[c]
      BY <1>2, <1>4, <2>1
    <3> QED
      BY <1>1, <2>1, <3>1, <3>2
  <2>2. CASE ~(c[1] # a \/ c[2] < lo \/ c[2] > hi) /\ c[2] = lo
    <3>1. c = p
      BY <1>2, <2>2
    <3>2. <<a, hi>> \in Cells /\ elem'[<<a, hi>>] = None
      BY <1>1, <1>3, <1>4
    <3> QED
      BY <1>1, <2>2, <3>1, <3>2
  <2>3. CASE ~(c[1] # a \/ c[2] < lo \/ c[2] > hi) /\ c[2] # lo
    <3> DEFINE j == c[2] - 1
    <3>1. j \in Index /\ lo <= j /\ j < hi /\ j + 1 = c[2]
      BY <1>1, <1>2, <1>4, <2>3, MaxSizeAssumption DEF Index
    <3>2. <<a, j>> \in Cells /\ c = <<a, j + 1>> /\ c # p
      BY <1>2, <2>3, <3>1 DEF Cells
    <3> HIDE DEF j
    <3>3. elem'[<<a, j>>] = elem[<<a, j + 1>>]
      BY <1>1, <1>4, <3>1, <3>2
    <3> QED
      BY <1>1, <2>3, <3>2, <3>3 DEF j
  <2> QED
    BY <2>1, <2>2, <2>3
<1> HIDE DEF f, hi
<1>8. \A b : Count(f, Cells, b) = Count(elem', Cells, b)
  BY <1>1, <1>7, Rotate
<1>9. \A b : Count(f, Cells, b) = Count(elem, Cells, b) - One(elem[p], b) + One(None, b)
  BY <1>6, PlacesFinite, CountUpdate
<1>10. ASSUME NEW b \in Blocks
       PROVE  GainElem(b) = 0 - One(elem[p], b)
  <2>1. Count(elem', Cells, b) = Count(elem, Cells, b) - One(elem[p], b) + 0
    BY <1>8, <1>9, OneConst
  <2> QED
    BY <2>1, OneNat, CountsNat DEF GainElem
<1> QED
  BY <1>5, <1>10

-----------------------------------------------------------------------------
(* What a block holds on to, and what the calls do to it.                  *)

Holds(d, b) ==
  \/ \E i \in Index : elem[<<d, i>>] = b
  \/ \E n \in Names : keyOf[<<d, n>>] = b \/ value[<<d, n>>] = b

ContentsHold == \A d, b \in Blocks : b \in Contents(d) => Holds(d, b)

LEMMA ContentsHeld == TypeOK => ContentsHold
<1> SUFFICES ASSUME TypeOK, NEW d \in Blocks, NEW b \in Blocks, b \in Contents(d)
             PROVE  Holds(d, b)
  BY DEF ContentsHold
<1>1. 0 .. size[d] - 1 \subseteq Index
  BY MaxSizeAssumption DEF TypeOK, Index
<1> QED
  BY <1>1 DEF Contents, Holds

LEMMA ContentsHeldNext == TypeOK' => ContentsHold'
BY ContentsHeld, PTL

LEMMA HeldContents ==
  ASSUME TypeOK, WellFormed, NEW d \in Blocks, NEW b \in Blocks, Holds(d, b)
  PROVE  b \in Contents(d)
<1>1. b # None
  BY ConstsDiffer
<1>2. CASE \E i \in Index : elem[<<d, i>>] = b
  <2>1. PICK i \in Index : elem[<<d, i>>] = b
    BY <1>2
  <2>2. i \in 0 .. size[d] - 1
    BY <1>1, <2>1, MaxSizeAssumption DEF WellFormed, TypeOK, Index
  <2> QED
    BY <1>1, <2>1, <2>2 DEF Contents
<1>3. CASE \E n \in Names : keyOf[<<d, n>>] = b \/ value[<<d, n>>] = b
  BY <1>1, <1>3 DEF Contents
<1> QED
  BY <1>2, <1>3 DEF Holds

LEMMA EdgesShrink ==
  ASSUME TypeOK, WellFormed, Acyclic, TypeOK',
         \A d, b \in Blocks : Holds(d, b)' => Holds(d, b)
  PROVE  Acyclic'
<1>1. \A d, b \in Blocks : b \in Contents(d)' => b \in Contents(d)
  BY ContentsHeldNext, HeldContents DEF ContentsHold
<1> QED
  BY <1>1, Shrink

LEMMA EdgesGrow ==
  ASSUME TypeOK, WellFormed, Acyclic, TypeOK',
         NEW p, NEW T \in SUBSET Blocks, p \notin T, Closed(T),
         \A d, b \in Blocks : Holds(d, b)' => Holds(d, b) \/ (d = p /\ b \in T)
  PROVE  Acyclic'
<1>1. \A d, b \in Blocks :
        b \in Contents(d)' => b \in Contents(d) \/ (d = p /\ b \in T)
  BY ContentsHeldNext, HeldContents DEF ContentsHold
<1> QED
  BY <1>1, Grow

(* The closed set below a value that the check lets pass.                  *)
LEMMA SaneSet ==
  ASSUME NEW p \in Blocks, NEW v \in Values, InsertSane(p, v)
  PROVE  \E T \in SUBSET Blocks :
           p \notin T /\ Closed(T) /\ (v \in Blocks => v \in T)
<1>1. CASE v \in Blocks
  BY <1>1 DEF InsertSane
<1>2. CASE v \notin Blocks
  <2>1. {} \in SUBSET Blocks /\ p \notin {} /\ Closed({})
    BY DEF Closed
  <2> QED
    BY <1>2, <2>1
<1> QED
  BY <1>1, <1>2

LEMMA SaneSetWithKey ==
  ASSUME TypeOK, WellFormed, NEW p \in Blocks, NEW v \in Values, InsertSane(p, v),
         NEW k \in Values, k \in Blocks => k # p /\ Contents(k) = {}
  PROVE  \E T \in SUBSET Blocks :
           /\ p \notin T /\ Closed(T)
           /\ k \in Blocks => k \in T
           /\ v \in Blocks => v \in T
<1>1. PICK T \in SUBSET Blocks : p \notin T /\ Closed(T) /\ (v \in Blocks => v \in T)
  BY SaneSet
<1>2. CASE k \in Blocks
  <2>1. Closed(T \cup {k}) /\ T \cup {k} \in SUBSET Blocks
    BY <1>1, <1>2 DEF Closed
  <2> QED
    BY <1>1, <1>2, <2>1
<1> QED
  BY <1>1, <1>2

LEMMA LeafEmpty ==
  ASSUME TypeOK, WellFormed, NEW b \in Blocks, kind[b] \in {"free", "string"}
  PROVE  /\ size[b] = 0 /\ Contents(b) = {}
         /\ \A n \in Names : keyOf[<<b, n>>] = None /\ value[<<b, n>>] = None
         /\ \A i \in Index : elem[<<b, i>>] = None
<1>1. size[b] = 0
  BY DEF TypeOK, WellFormed
<1>2. \A n \in Names : keyOf[<<b, n>>] = None /\ value[<<b, n>>] = None
  BY DEF WellFormed
<1>3. \A i \in Index : elem[<<b, i>>] = None
  BY <1>1, MaxSizeAssumption DEF WellFormed, Index
<1>4. Contents(b) = {}
  <2>1. 0 .. size[b] - 1 = {}
    BY <1>1
  <2> QED
    BY <1>2, <2>1 DEF Contents
<1> QED
  BY <1>1, <1>2, <1>3, <1>4

-----------------------------------------------------------------------------
(* The form of arrays and of objects.                                      *)

ElemsFormed ==
  \A b \in Blocks :
    /\ size[b] > 0 => kind[b] \in {"array", "dying"}
    /\ \A i \in Index : elem[<<b, i>>] # None => i < size[b]

MembersFormed ==
  \A b \in Blocks :
    /\ kind[b] = "string" => text[b] \in Names
    /\ \A n \in Names : keyOf[<<b, n>>] # None \/ value[<<b, n>>] # None =>
         kind[b] \in {"object", "dying"}
    /\ kind[b] = "object" => \A n \in Names :
         /\ (keyOf[<<b, n>>] # None) = (value[<<b, n>>] # None)
         /\ keyOf[<<b, n>>] # None => Spells(keyOf[<<b, n>>], n)

LEMMA Formed == WellFormed <=> ElemsFormed /\ MembersFormed
BY DEF WellFormed, ElemsFormed, MembersFormed

LEMMA FormedNext == WellFormed' <=> ElemsFormed' /\ MembersFormed'
BY DEF WellFormed, ElemsFormed, MembersFormed

(* A block that dies changes nothing for the others.                       *)
Aging ==
  \A b \in Blocks : kind'[b] = kind[b] \/ (kind[b] \in Live /\ kind'[b] = "dying")

LEMMA KeepElems ==
  ASSUME ElemsFormed, Aging, UNCHANGED <<size, elem>>,
         \A b \in Blocks : kind'[b] # kind[b] /\ size[b] > 0 => kind'[b] = "dying"
  PROVE  ElemsFormed'
BY DEF ElemsFormed, Aging

LEMMA KeepMembers ==
  ASSUME TypeOK, MembersFormed, Aging, text' = text, TypeOK', CountsExact',
         \A b \in Blocks, n \in Names :
           /\ keyOf'[<<b, n>>] = keyOf[<<b, n>>] \/ (keyOf'[<<b, n>>] = None /\ kind[b] = "dying")
           /\ value'[<<b, n>>] = value[<<b, n>>] \/ (value'[<<b, n>>] = None /\ kind[b] = "dying")
  PROVE  MembersFormed'
<1>1. LiveRefs'
  BY ReferencedNext
<1>2. ASSUME NEW b \in Blocks, NEW n \in Names, kind'[b] = "object", keyOf'[<<b, n>>] # None
      PROVE  Spells(keyOf[<<b, n>>], n)'
  <2> DEFINE k == keyOf[<<b, n>>]
  <2>1. kind[b] = "object" /\ keyOf'[<<b, n>>] = k
    BY <1>2 DEF Aging
  <2>2. Spells(k, n)
    BY <1>2, <2>1 DEF MembersFormed
  <2>3. <<b, n>> \in Members
    BY DEF Members
  <2>4. CASE k \in Blocks /\ kind[k] = "string" /\ text[k] = n
    <3>1. kind'[k] \in Live
      BY <1>1, <2>1, <2>3, <2>4 DEF LiveRefs, Unreferenced
    <3>2. kind'[k] = "string"
      BY <2>4, <3>1 DEF Aging, Live
    <3> QED
      BY <2>1, <2>4, <3>2 DEF Spells, Is
  <2>5. CASE k = Const /\ n = Empty
    BY <2>1, <2>5 DEF Spells
  <2> QED
    BY <2>2, <2>4, <2>5 DEF Spells, Is
<1>3. ASSUME NEW b \in Blocks
      PROVE  /\ kind'[b] = "string" => text'[b] \in Names
             /\ \A n \in Names : keyOf'[<<b, n>>] # None \/ value'[<<b, n>>] # None =>
                  kind'[b] \in {"object", "dying"}
             /\ kind'[b] = "object" => \A n \in Names :
                  (keyOf'[<<b, n>>] # None) = (value'[<<b, n>>] # None)
  BY DEF MembersFormed, Aging
<1> QED
  BY <1>2, <1>3 DEF MembersFormed


(* A member put under the name its key spells.                             *)
LEMMA PutMemberFormed ==
  ASSUME TypeOK, MembersFormed,
         NEW o \in Values, NEW n \in Names, NEW k \in Values, NEW v \in Values,
         PutMember(o, n, k, v), Spells(k, n)',
         \A b \in Blocks :
           \/ kind'[b] = kind[b] /\ text'[b] = text[b]
           \/ kind[b] = "free" /\ kind'[b] = "string" /\ text'[b] \in Names
  PROVE  MembersFormed'
<1>1. k # None /\ v # None
  BY ConstsDiffer DEF Values
<1>2. ASSUME NEW b \in Blocks, NEW m \in Names
      PROVE  \/ /\ b = o /\ m = n /\ kind[o] = "object"
                /\ keyOf'[<<b, m>>] = k /\ value'[<<b, m>>] = v
             \/ keyOf'[<<b, m>>] = keyOf[<<b, m>>] /\ value'[<<b, m>>] = value[<<b, m>>]
  <2>1. <<b, m>> \in Members
    BY DEF Members
  <2> QED
    BY <2>1 DEF PutMember, Replace, Is, TypeOK
<1>3. ASSUME NEW b \in Blocks, kind'[b] = "object"
      PROVE  kind[b] = "object"
  BY <1>3
<1>4. ASSUME NEW b \in Blocks
      PROVE  /\ kind'[b] = "string" => text'[b] \in Names
             /\ \A m \in Names : keyOf'[<<b, m>>] # None \/ value'[<<b, m>>] # None =>
                  kind'[b] \in {"object", "dying"}
  BY <1>2 DEF MembersFormed
<1>5. ASSUME NEW b \in Blocks, NEW m \in Names, kind'[b] = "object"
      PROVE  /\ (keyOf'[<<b, m>>] # None) = (value'[<<b, m>>] # None)
             /\ keyOf'[<<b, m>>] # None => Spells(keyOf[<<b, m>>], m)'
  <2>1. CASE keyOf'[<<b, m>>] = k /\ value'[<<b, m>>] = v /\ m = n
    BY <1>1, <2>1 DEF Spells, Is
  <2>2. CASE keyOf'[<<b, m>>] = keyOf[<<b, m>>] /\ value'[<<b, m>>] = value[<<b, m>>]
    <3>1. /\ (keyOf[<<b, m>>] # None) = (value[<<b, m>>] # None)
          /\ keyOf[<<b, m>>] # None => Spells(keyOf[<<b, m>>], m)
      BY <1>3, <1>5 DEF MembersFormed
    <3> QED
      BY <2>2, <3>1 DEF Spells, Is
  <2> QED
    BY <1>2, <2>1, <2>2
<1> QED
  BY <1>4, <1>5 DEF MembersFormed

LEMMA CountsNext ==
  ASSUME TypeOK, CountsExact,
         \A b \in Blocks : /\ refCnt'[b] = refCnt[b] + Change(b)
                           /\ (refCnt'[b] > 0) = (kind'[b] \in Live)
  PROVE  CountsExact'
BY Balance DEF CountsExact

LEMMA CountsKept ==
  ASSUME TypeOK, CountsExact, UNCHANGED <<kind, refCnt>>,
         \A b \in Blocks : Change(b) = 0
  PROVE  CountsExact'
<1>1. \A b \in Blocks : refCnt[b] \in Nat /\ (refCnt[b] > 0) = (kind[b] \in Live)
  BY DEF TypeOK, CountsExact
<1>2. \A b \in Blocks : refCnt'[b] = refCnt[b] + Change(b)
  BY <1>1
<1> QED
  BY <1>1, <1>2, CountsNext

(* Only values that are alive get another reference.                       *)
LEMMA VisibleRef ==
  ASSUME TypeOK, CountsExact, NEW v \in Visible, NEW b \in Blocks
  PROVE  (refCnt[b] + One(v, b) > 0) = (kind[b] \in Live)
<1>1. refCnt[b] \in Nat /\ (refCnt[b] > 0) = (kind[b] \in Live)
  BY DEF TypeOK, CountsExact
<1>2. CASE v = b
  BY <1>1, <1>2, VisibleLive DEF One
<1>3. CASE v # b
  BY <1>1, <1>3 DEF One
<1> QED
  BY <1>2, <1>3

(* jobject_put closes no cycle: the key is a leaf, the value was checked.  *)
LEMMA PutMemberAcyclic ==
  ASSUME TypeOK, WellFormed, Acyclic, TypeOK', elem' = elem,
         NEW o \in Values, NEW n \in Names, NEW k \in Values, NEW v \in Values,
         k \in Blocks => Contents(k) = {} /\ kind[k] # "object", PutMember(o, n, k, v)
  PROVE  Acyclic'
<1>1. CASE Is(o, "object") /\ InsertSane(o, v)
  <2>1. o \in Blocks /\ (k \in Blocks => k # o) /\ Replace(o, n, k, v)
    BY <1>1 DEF PutMember, Is
  <2>2. PICK T \in SUBSET Blocks : /\ o \notin T /\ Closed(T)
                                   /\ k \in Blocks => k \in T
                                   /\ v \in Blocks => v \in T
    BY <1>1, <2>1, SaneSetWithKey
  <2>3. ASSUME NEW d \in Blocks, NEW b \in Blocks, Holds(d, b)'
        PROVE  Holds(d, b) \/ (d = o /\ b \in T)
    <3>1. \A m \in Names : <<d, m>> \in Members
      BY DEF Members
    <3>2. ASSUME NEW m \in Names
          PROVE  /\ keyOf'[<<d, m>>] = keyOf[<<d, m>>] \/ (keyOf'[<<d, m>>] = k /\ d = o)
                 /\ value'[<<d, m>>] = value[<<d, m>>] \/ (value'[<<d, m>>] = v /\ d = o)
      BY <2>1, <3>1 DEF Replace, TypeOK
    <3> QED
      BY <2>2, <2>3, <3>2 DEF Holds
  <2> QED
    BY <2>2, <2>3, EdgesGrow
<1>2. CASE ~(Is(o, "object") /\ InsertSane(o, v))
  <2>1. keyOf' = keyOf /\ value' = value
    BY <1>2 DEF PutMember
  <2> QED
    BY <2>1, EdgesShrink DEF Holds
<1> QED
  BY <1>1, <1>2

-----------------------------------------------------------------------------
(* Each call preserves the invariant.  Handles:                            *)

LEMMA TakeConstStep ==
  ASSUME IInv, NEW h \in Handles, TakeConst(h)
  PROVE  IInv'
<1> USE DEF IInv
<1>1. /\ handle[h] = None /\ handle' = [handle EXCEPT ![h] = Const] /\ Const \in Values
      /\ UNCHANGED <<kind, refCnt, text, size, elem, keyOf, value, lost, dropped, slot>>
  BY DEF TakeConst, Values, containers
<1>2. TypeOK'
  BY <1>1 DEF TypeOK, Values
<1>3. CountsExact'
  <2>1. \A b \in Blocks : GainHandle(b) = 0
    BY <1>1, TakeHandle, OneConst
  <2>2. ASSUME NEW b \in Blocks
        PROVE  Change(b) = 0
    BY <1>1, <2>1, Gains DEF Change
  <2> QED
    BY <1>1, <2>2, CountsKept
<1>4. Acyclic'
  BY <1>1, <1>2, EdgesShrink DEF Holds
<1>5. WellFormed'
  BY <1>1 DEF WellFormed, Spells, Is
<1> QED
  BY <1>2, <1>3, <1>4, <1>5

LEMMA CreateStep ==
  ASSUME IInv, NEW h \in Handles, NEW b \in Blocks, NEW k \in Live, NEW n \in Names \cup {None},
         k = "string" => n \in Names, Create(h, b, k, n)
  PROVE  IInv'
<1> USE DEF IInv
<1>1. /\ handle[h] = None /\ kind[b] = "free"
      /\ handle' = [handle EXCEPT ![h] = b]
      /\ kind' = [kind EXCEPT ![b] = k]
      /\ text' = [text EXCEPT ![b] = n]
      /\ refCnt' = [refCnt EXCEPT ![b] = 1]
      /\ UNCHANGED <<size, elem, keyOf, value, lost, dropped, slot>>
      /\ b \in Values
  BY DEF Create, Alloc, Values
<1>2. TypeOK'
  BY <1>1 DEF TypeOK, Values
<1>3. CountsExact'
  <2>1. \A c \in Blocks : GainHandle(c) = One(b, c)
    BY <1>1, TakeHandle
  <2>2. ASSUME NEW c \in Blocks
        PROVE  Change(c) = One(b, c)
    BY <1>1, <2>1, Gains, OneNat DEF Change
  <2>3. \A c \in Blocks : refCnt[c] \in Nat /\ (refCnt[c] > 0) = (kind[c] \in Live)
    BY DEF TypeOK, CountsExact
  <2>4. refCnt[b] = 0
    BY <1>1, <2>3 DEF Live
  <2>5. ASSUME NEW c \in Blocks
        PROVE  /\ refCnt'[c] = refCnt[c] + Change(c)
               /\ (refCnt'[c] > 0) = (kind'[c] \in Live)
    <3>1. refCnt'[c] = refCnt[c] + One(b, c)
      BY <1>1, <2>3, <2>4 DEF TypeOK, One
    <3>2. (refCnt'[c] > 0) = (kind'[c] \in Live)
      BY <1>1, <2>3 DEF TypeOK
    <3> QED
      BY <2>2, <3>1, <3>2
  <2> QED
    BY <2>5, CountsNext
<1>4. Acyclic'
  BY <1>1, <1>2, EdgesShrink DEF Holds
<1>5. ElemsFormed'
  <2>1. size[b] = 0
    BY <1>1, LeafEmpty
  <2> QED
    BY <1>1, <2>1, Formed DEF ElemsFormed, TypeOK
<1>6. MembersFormed'
  <2>1. \A m \in Names : keyOf[<<b, m>>] = None /\ value[<<b, m>>] = None
    BY <1>1, LeafEmpty
  <2>2. \A c \in Blocks : c # b => kind'[c] = kind[c] /\ text'[c] = text[c]
    BY <1>1 DEF TypeOK
  <2>3. kind'[b] = k /\ text'[b] = n
    BY <1>1 DEF TypeOK
  <2>4. MembersFormed /\ keyOf' = keyOf /\ value' = value
    BY <1>1, Formed
  <2> QED
    BY <1>1, <2>1, <2>2, <2>3, <2>4 DEF MembersFormed, Spells, Is
<1> QED
  BY <1>2, <1>3, <1>4, <1>5, <1>6, FormedNext


LEMMA ShareStep ==
  ASSUME IInv, NEW v \in Values, NEW h \in Handles, Share(v, h),
         \A b \in Blocks : (refCnt[b] + One(v, b) > 0) = (kind[b] \in Live)
  PROVE  IInv'
<1> USE DEF IInv
<1>1. /\ handle[h] = None /\ handle' = [handle EXCEPT ![h] = v]
      /\ refCnt' = [b \in Blocks |-> refCnt[b] + One(v, b)]
      /\ UNCHANGED <<kind, text, size, elem, keyOf, value, lost, dropped, slot>>
  BY DEF Share, Ref, containers
<1>2. \A b \in Blocks : refCnt[b] \in Nat /\ One(v, b) \in Nat
  BY OneNat DEF TypeOK
<1>3. TypeOK'
  BY <1>1, <1>2 DEF TypeOK
<1>4. CountsExact'
  <2>1. \A b \in Blocks : GainHandle(b) = One(v, b)
    BY <1>1, TakeHandle
  <2>2. ASSUME NEW b \in Blocks
        PROVE  Change(b) = One(v, b)
    BY <1>1, <2>1, Gains, OneNat DEF Change
  <2>3. \A b \in Blocks : (refCnt'[b] > 0) = (kind'[b] \in Live)
    BY <1>1
  <2> QED
    BY <1>1, <2>2, <2>3, CountsNext
<1>5. Acyclic'
  BY <1>1, <1>3, EdgesShrink DEF Holds
<1>6. WellFormed'
  BY <1>1 DEF WellFormed, Spells, Is
<1> QED
  BY <1>3, <1>4, <1>5, <1>6

LEMMA CopyStep ==
  ASSUME IInv, NEW v \in Values, NEW h \in Handles, Copy(v, h)
  PROVE  IInv'
BY VisibleRef, ShareStep DEF Copy, IInv

LEMMA LookupKeyStep ==
  ASSUME IInv, NEW v \in Values, NEW h \in Handles, LookupKey(v, h)
  PROVE  IInv'
<1>1. v \in Blocks /\ kind[v] \in Live
  BY DEF LookupKey, Is, Live
<1>2. ASSUME NEW b \in Blocks
      PROVE  (refCnt[b] + One(v, b) > 0) = (kind[b] \in Live)
  <2>1. refCnt[b] \in Nat /\ (refCnt[b] > 0) = (kind[b] \in Live)
    BY DEF IInv, TypeOK, CountsExact
  <2> QED
    BY <1>1, <2>1 DEF One
<1> QED
  BY <1>2, ShareStep DEF LookupKey

LEMMA ReleaseStep ==
  ASSUME IInv, NEW h \in Handles, Release(h)
  PROVE  IInv'
<1> USE DEF IInv
<1>1. /\ handle' = [handle EXCEPT ![h] = None] /\ Quiet
      /\ Drop(None, handle[h])
      /\ UNCHANGED <<kind, refCnt, text, size, elem, keyOf, value, lost>>
  BY DEF Release, containers
<1>2. None \in Refs /\ handle[h] \in Refs
  BY DEF TypeOK, Refs
<1>3. /\ dropped' \in [Locals -> Refs] /\ slot' \in Cells \cup {None}
      /\ \A b \in Blocks : GainDropped(b) = One(None, b) + One(handle[h], b)
  BY <1>1, <1>2, DropCount
<1>4. TypeOK'
  BY <1>1, <1>3 DEF TypeOK, Refs
<1>5. CountsExact'
  <2>1. ASSUME NEW b \in Blocks
        PROVE  Change(b) = 0
    <3>1. GainHandle(b) = 0 - One(handle[h], b)
      BY <1>1, GiveHandle
    <3>2. GainDropped(b) = 0 + One(handle[h], b)
      BY <1>3, OneConst
    <3> QED
      BY <1>1, <3>1, <3>2, Gains, OneNat DEF Change
  <2> QED
    BY <1>1, <2>1, CountsKept
<1>6. Acyclic'
  BY <1>1, <1>4, EdgesShrink DEF Holds
<1>7. WellFormed'
  BY <1>1 DEF WellFormed, Spells, Is
<1> QED
  BY <1>4, <1>5, <1>6, <1>7

-----------------------------------------------------------------------------
(* Objects:                                                                *)

LEMMA ObjectPutStep ==
  ASSUME IInv, NEW o \in Values, NEW k \in Handles, NEW v \in Handles, ObjectPut(o, k, v)
  PROVE  IInv'
<1> USE DEF IInv
<1> DEFINE x == handle[k]
           y == handle[v]
<1>1. /\ Quiet /\ k # v /\ x \in Values /\ y \in Values
      /\ handle' = [handle EXCEPT ![k] = None, ![v] = None]
      /\ UNCHANGED <<kind, refCnt, text, size, elem, lost>>
  BY DEF ObjectPut, TypeOK
<1>2. handle' \in [Handles -> Refs] /\ \A b \in Blocks : GainHandle(b) = 0 - One(x, b) - One(y, b)
  <2> DEFINE g == [handle EXCEPT ![k] = None]
  <2>1. /\ Update(handle, g, Handles, k, None) /\ Update(g, handle', Handles, v, None)
        /\ g[v] = y /\ handle' \in [Handles -> Refs]
    BY <1>1 DEF Update, TypeOK, Refs
  <2> HIDE DEF g
  <2>2. /\ \A b : Count(g, Handles, b) = Count(handle, Handles, b) - One(x, b) + One(None, b)
        /\ \A b : Count(handle', Handles, b) = Count(g, Handles, b) - One(y, b) + One(None, b)
    BY <2>1, PlacesFinite, CountUpdate
  <2>3. ASSUME NEW b \in Blocks
        PROVE  GainHandle(b) = 0 - One(x, b) - One(y, b)
    <3>1. /\ Count(g, Handles, b) = Count(handle, Handles, b) - One(x, b) + 0
          /\ Count(handle', Handles, b) = Count(g, Handles, b) - One(y, b) + 0
      BY <2>2, OneConst
    <3> QED
      BY <3>1, OneNat, CountsNat DEF GainHandle
  <2> QED
    BY <2>1, <2>3
<1>3. ASSUME NEW n \in Names, Spells(x, n), PutMember(o, n, x, y)
      PROVE  IInv'
  <2>1. x \in Blocks => kind[x] = "string" /\ kind[x] # "object"
    BY <1>3, ConstsDiffer DEF Spells, Is
  <2>8. x \in Blocks => Contents(x) = {}
    BY <2>1, LeafEmpty
  <2>2. /\ keyOf' \in [Members -> Refs] /\ value' \in [Members -> Refs]
        /\ dropped' \in [Locals -> Refs] /\ slot' \in Cells \cup {None}
        /\ \A b \in Blocks :
             GainDropped(b) + GainKeyOf(b) + GainValue(b) = One(x, b) + One(y, b)
    BY <1>1, <1>3, <2>1, PutMemberCount
  <2>3. TypeOK'
    BY <1>1, <1>2, <2>2 DEF TypeOK, Refs
  <2>4. CountsExact'
    <3>1. ASSUME NEW b \in Blocks
          PROVE  Change(b) = 0
      BY <1>1, <1>2, <2>2, Gains, OneNat DEF Change
    <3> QED
      BY <1>1, <3>1, CountsKept
  <2>5. Acyclic'
    BY <1>1, <1>3, <2>1, <2>3, <2>8, PutMemberAcyclic
  <2>6. ElemsFormed'
    BY <1>1, Formed DEF ElemsFormed
  <2>7. MembersFormed'
    BY <1>1, <1>3, Formed, PutMemberFormed DEF Spells, Is
  <2> QED
    BY <2>3, <2>4, <2>5, <2>6, <2>7, FormedNext
<1>4. CASE Drop(x, y) /\ UNCHANGED <<keyOf, value>>
  <2>1. /\ dropped' \in [Locals -> Refs] /\ slot' \in Cells \cup {None}
        /\ \A b \in Blocks : GainDropped(b) = One(x, b) + One(y, b)
    BY <1>1, <1>4, DropCount DEF Refs
  <2>2. TypeOK'
    BY <1>1, <1>2, <1>4, <2>1 DEF TypeOK, Refs
  <2>3. CountsExact'
    <3>1. ASSUME NEW b \in Blocks
          PROVE  Change(b) = 0
      BY <1>1, <1>2, <1>4, <2>1, Gains, OneNat DEF Change
    <3> QED
      BY <1>1, <3>1, CountsKept
  <2>4. Acyclic'
    BY <1>1, <1>4, <2>2, EdgesShrink DEF Holds
  <2>5. WellFormed'
    BY <1>1, <1>4 DEF WellFormed, Spells, Is
  <2> QED
    BY <2>2, <2>3, <2>4, <2>5
<1> QED
  BY <1>3, <1>4 DEF ObjectPut


LEMMA ObjectSet2Step ==
  ASSUME IInv, NEW o \in Values, NEW k \in Values, NEW v \in Values, ObjectSet2(o, k, v)
  PROVE  IInv'
<1> USE DEF IInv
<1>1. /\ Quiet /\ k \in Visible /\ v \in Visible
      /\ refCnt' = [b \in Blocks |-> refCnt[b] + One(k, b) + One(v, b)]
      /\ UNCHANGED <<kind, text, size, elem, handle, lost>>
  BY DEF ObjectSet2, RefBoth
<1>2. refCnt' \in [Blocks -> Nat]
  <2>1. \A b \in Blocks : refCnt[b] \in Nat /\ One(k, b) \in Nat /\ One(v, b) \in Nat
    BY OneNat DEF TypeOK
  <2> QED
    BY <1>1, <2>1
<1>3. ASSUME NEW b \in Blocks
      PROVE  (refCnt'[b] > 0) = (kind[b] \in Live)
  <2>1. /\ (refCnt[b] + One(k, b) > 0) = (kind[b] \in Live)
        /\ (refCnt[b] + One(v, b) > 0) = (kind[b] \in Live)
    BY <1>1, VisibleRef
  <2>2. refCnt[b] \in Nat /\ One(k, b) \in Nat /\ One(v, b) \in Nat
    BY OneNat DEF TypeOK
  <2>3. refCnt'[b] = refCnt[b] + One(k, b) + One(v, b)
    BY <1>1
  <2> QED
    BY <2>1, <2>2, <2>3
<1>4. ASSUME \A b \in Blocks :
               GainDropped(b) + GainKeyOf(b) + GainValue(b) = One(k, b) + One(v, b)
      PROVE  CountsExact'
  <2>1. ASSUME NEW b \in Blocks
        PROVE  refCnt'[b] = refCnt[b] + Change(b)
    <3>1. refCnt'[b] = refCnt[b] + One(k, b) + One(v, b) /\ refCnt[b] \in Nat
      BY <1>1 DEF TypeOK
    <3>2. Change(b) = One(k, b) + One(v, b)
      BY <1>1, <1>4, Gains, OneNat DEF Change
    <3> QED
      BY <3>1, <3>2, OneNat
  <2> QED
    BY <1>1, <1>3, <2>1, CountsNext
<1>5. ASSUME NEW n \in Names, Spells(k, n), PutMember(o, n, k, v)
      PROVE  IInv'
  <2>1. k \in Blocks => kind[k] = "string" /\ kind[k] # "object"
    BY <1>5, ConstsDiffer DEF Spells, Is
  <2>2. k \in Blocks => Contents(k) = {}
    BY <2>1, LeafEmpty
  <2>3. /\ keyOf' \in [Members -> Refs] /\ value' \in [Members -> Refs]
        /\ dropped' \in [Locals -> Refs] /\ slot' \in Cells \cup {None}
        /\ \A b \in Blocks :
             GainDropped(b) + GainKeyOf(b) + GainValue(b) = One(k, b) + One(v, b)
    BY <1>1, <1>5, <2>1, PutMemberCount
  <2>4. TypeOK'
    BY <1>1, <1>2, <2>3 DEF TypeOK, Refs
  <2>5. Acyclic'
    BY <1>1, <1>5, <2>1, <2>2, <2>4, PutMemberAcyclic
  <2>6. ElemsFormed'
    BY <1>1, Formed DEF ElemsFormed
  <2>7. MembersFormed'
    BY <1>1, <1>5, Formed, PutMemberFormed DEF Spells, Is
  <2> QED
    BY <1>4, <2>3, <2>4, <2>5, <2>6, <2>7, FormedNext
<1>6. CASE Drop(k, v) /\ UNCHANGED <<keyOf, value>>
  <2>1. /\ dropped' \in [Locals -> Refs] /\ slot' \in Cells \cup {None}
        /\ \A b \in Blocks : GainDropped(b) = One(k, b) + One(v, b)
    BY <1>1, <1>6, DropCount DEF Refs
  <2>2. TypeOK'
    BY <1>1, <1>2, <1>6, <2>1 DEF TypeOK, Refs
  <2>3. CountsExact'
    <3>1. ASSUME NEW b \in Blocks
          PROVE  GainDropped(b) + GainKeyOf(b) + GainValue(b) = One(k, b) + One(v, b)
      BY <1>6, <2>1, Gains, OneNat
    <3> QED
      BY <1>4, <3>1
  <2>4. Acyclic'
    BY <1>1, <1>6, <2>2, EdgesShrink DEF Holds
  <2>5. WellFormed'
    BY <1>1, <1>6 DEF WellFormed, Spells, Is
  <2> QED
    BY <2>2, <2>3, <2>4, <2>5
<1> QED
  BY <1>5, <1>6 DEF ObjectSet2

LEMMA ObjectSetStep ==
  ASSUME IInv, NEW o \in Blocks, NEW n \in Names, NEW v \in Values, NEW b \in Blocks,
         ObjectSet(o, n, v, b)
  PROVE  IInv'
<1> USE DEF IInv
<1>1. /\ Quiet /\ v \in Visible /\ kind[b] = "free"
      /\ kind' = [kind EXCEPT ![b] = "string"]
      /\ text' = [text EXCEPT ![b] = n]
      /\ refCnt' = [c \in Blocks |-> IF c = b THEN 1 ELSE refCnt[c] + One(v, c)]
      /\ PutMember(o, n, b, v)
      /\ UNCHANGED <<size, elem, handle, lost>>
      /\ b \in Values /\ o \in Values
  BY DEF ObjectSet, Alloc, Values
<1>2. \A c \in Blocks : /\ refCnt[c] \in Nat /\ One(v, c) \in Nat
                        /\ (refCnt[c] > 0) = (kind[c] \in Live)
  BY OneNat DEF TypeOK, CountsExact
<1>3. refCnt[b] = 0 /\ v # b
  BY <1>1, <1>2, VisibleLive DEF Live
<1>4. /\ size[b] = 0 /\ Contents(b) = {}
      /\ \A m \in Names : keyOf[<<b, m>>] = None /\ value[<<b, m>>] = None
  BY <1>1, LeafEmpty
<1>5. /\ keyOf' \in [Members -> Refs] /\ value' \in [Members -> Refs]
      /\ dropped' \in [Locals -> Refs] /\ slot' \in Cells \cup {None}
      /\ \A c \in Blocks :
           GainDropped(c) + GainKeyOf(c) + GainValue(c) = One(b, c) + One(v, c)
  BY <1>1, PutMemberCount
<1>6. TypeOK'
  <2>1. refCnt' \in [Blocks -> Nat]
    BY <1>1, <1>2
  <2>2. kind' \in [Blocks -> Live \cup {"free", "dying"}] /\ text' \in [Blocks -> Names \cup {None}]
    BY <1>1 DEF TypeOK, Live
  <2> QED
    BY <1>1, <1>5, <2>1, <2>2 DEF TypeOK, Refs
<1>7. CountsExact'
  <2>1. ASSUME NEW c \in Blocks
        PROVE  refCnt'[c] = refCnt[c] + Change(c) /\ (refCnt'[c] > 0) = (kind'[c] \in Live)
    <3>1. Change(c) = One(b, c) + One(v, c)
      BY <1>1, <1>5, Gains, OneNat DEF Change
    <3>2. CASE c = b
      <4>1. One(b, c) = 1 /\ One(v, c) = 0
        BY <1>3, <3>2 DEF One
      <4>2. refCnt'[c] = 1 /\ kind'[c] = "string"
        BY <1>1, <3>2 DEF TypeOK
      <4> QED
        BY <1>3, <3>1, <3>2, <4>1, <4>2 DEF Live
    <3>3. CASE c # b
      <4>1. One(b, c) = 0 /\ refCnt'[c] = refCnt[c] + One(v, c) /\ kind'[c] = kind[c]
        BY <1>1, <3>3 DEF One, TypeOK
      <4>2. (refCnt[c] + One(v, c) > 0) = (kind[c] \in Live)
        BY <1>1, VisibleRef
      <4> QED
        BY <1>2, <3>1, <4>1, <4>2
    <3> QED
      BY <3>2, <3>3
  <2> QED
    BY <2>1, CountsNext
<1>8. Acyclic'
  BY <1>1, <1>4, <1>6, PutMemberAcyclic
<1>9. ElemsFormed'
  BY <1>1, <1>4, Formed DEF ElemsFormed, TypeOK
<1>10. MembersFormed'
  <2>1. kind'[b] = "string" /\ text'[b] = n
    BY <1>1 DEF TypeOK
  <2>2. \A c \in Blocks :
          \/ kind'[c] = kind[c] /\ text'[c] = text[c]
          \/ kind[c] = "free" /\ kind'[c] = "string" /\ text'[c] \in Names
    BY <1>1 DEF TypeOK
  <2> QED
    BY <1>1, <2>1, <2>2, Formed, PutMemberFormed DEF Spells, Is
<1> QED
  BY <1>6, <1>7, <1>8, <1>9, <1>10, FormedNext

LEMMA ObjectRemoveStep ==
  ASSUME IInv, NEW o \in Blocks, NEW n \in Names, ObjectRemove(o, n)
  PROVE  IInv'
<1> USE DEF IInv
<1>1. /\ Quiet /\ Replace(o, n, None, None) /\ None \in Refs
      /\ UNCHANGED <<kind, refCnt, text, size, elem, handle, lost>>
  BY DEF ObjectRemove, Refs
<1>2. /\ keyOf' \in [Members -> Refs] /\ value' \in [Members -> Refs]
      /\ dropped' \in [Locals -> Refs] /\ slot' \in Cells \cup {None}
      /\ \A b \in Blocks : GainDropped(b) + GainKeyOf(b) + GainValue(b) = One(None, b) + One(None, b)
  BY <1>1, ReplaceCount
<1>3. TypeOK'
  BY <1>1, <1>2 DEF TypeOK, Refs
<1>4. CountsExact'
  <2>1. ASSUME NEW b \in Blocks
        PROVE  Change(b) = 0
    <3>1. GainDropped(b) + GainKeyOf(b) + GainValue(b) = 0
      BY <1>2, OneConst
    <3> QED
      BY <1>1, <3>1, Gains DEF Change
  <2> QED
    BY <1>1, <2>1, CountsKept
<1>5. ASSUME NEW d \in Blocks, NEW m \in Names
      PROVE  \/ keyOf'[<<d, m>>] = keyOf[<<d, m>>] /\ value'[<<d, m>>] = value[<<d, m>>]
             \/ keyOf'[<<d, m>>] = None /\ value'[<<d, m>>] = None
  <2>1. <<d, m>> \in Members
    BY DEF Members
  <2> QED
    BY <1>1, <2>1 DEF Replace, TypeOK
<1>6. Acyclic'
  <2>1. \A d, b \in Blocks : Holds(d, b)' => Holds(d, b)
    BY <1>1, <1>5, ConstsDiffer DEF Holds
  <2> QED
    BY <1>3, <2>1, EdgesShrink
<1>7. ElemsFormed'
  BY <1>1, Formed DEF ElemsFormed
<1>8. MembersFormed'
  BY <1>1, <1>5, Formed DEF MembersFormed, Spells, Is
<1> QED
  BY <1>3, <1>4, <1>6, <1>7, <1>8, FormedNext


-----------------------------------------------------------------------------
(* Arrays:                                                                 *)

(* v goes into an array that it passed the check of: no cycle, no hole     *)
(* beyond the size.                                                        *)
LEMMA NewElem ==
  ASSUME TypeOK, WellFormed, Acyclic, TypeOK', UNCHANGED <<keyOf, value>>,
         NEW a \in Blocks, NEW v \in Values, InsertSane(a, v),
         \A d, b \in Blocks, i \in Index :
           elem'[<<d, i>>] = b => (\E j \in Index : elem[<<d, j>>] = b) \/ (d = a /\ b = v)
  PROVE  Acyclic'
<1>1. PICK T \in SUBSET Blocks : a \notin T /\ Closed(T) /\ (v \in Blocks => v \in T)
  BY SaneSet
<1>2. \A d, b \in Blocks : Holds(d, b)' => Holds(d, b) \/ (d = a /\ b \in T)
  BY <1>1 DEF Holds
<1> QED
  BY <1>1, <1>2, EdgesGrow

LEMMA PutElemFormed ==
  ASSUME TypeOK, WellFormed, Acyclic, TypeOK', UNCHANGED <<kind, text, keyOf, value>>,
         NEW a \in Blocks, NEW i \in Index, NEW v \in Values,
         kind[a] = "array", InsertSane(a, v), PutElem(a, i, v)
  PROVE  Acyclic' /\ WellFormed'
<1>1. ASSUME NEW d \in Blocks, NEW j \in Index
      PROVE  \/ elem'[<<d, j>>] = elem[<<d, j>>] \/ elem'[<<d, j>>] = None
             \/ d = a /\ j = i /\ elem'[<<d, j>>] = v /\ elem[<<a, i>>] = None
  <2>1. <<d, j>> \in Cells
    BY DEF Cells
  <2> QED
    BY <2>1 DEF PutElem, TypeOK
<1>2. Acyclic'
  BY <1>1, NewElem, ConstsDiffer
<1>3. ElemsFormed'
  <2>1. Index \subseteq Nat /\ \A d \in Blocks : size[d] \in Nat
    BY DEF Index, TypeOK
  <2>2. ElemsFormed
    BY Formed
  <2>3. \A d \in Blocks : d # a => size'[d] = size[d]
    BY DEF PutElem, TypeOK
  <2>4. \/ size'[a] = IF i >= size[a] THEN i + 1 ELSE size[a]
        \/ size'[a] = size[a] /\ elem[<<a, i>>] # None
    BY DEF PutElem, TypeOK
  <2>5. ASSUME NEW d \in Blocks
        PROVE  size'[d] > 0 => kind'[d] \in {"array", "dying"}
    BY <2>2, <2>3 DEF ElemsFormed
  <2>6. ASSUME NEW d \in Blocks, NEW j \in Index, elem'[<<d, j>>] # None
        PROVE  j < size'[d]
    <3>1. CASE d # a
      BY <1>1, <2>2, <2>3, <2>6, <3>1 DEF ElemsFormed
    <3>2. CASE d = a /\ j = i
      <4>1. elem[<<a, i>>] # None => i < size[a]
        BY <2>2 DEF ElemsFormed
      <4> QED
        BY <2>1, <2>4, <3>2, <4>1
    <3>3. CASE d = a /\ j # i
      <4>1. j < size[a]
        BY <1>1, <2>2, <2>6, <3>3 DEF ElemsFormed
      <4> QED
        BY <2>1, <2>4, <3>3, <4>1
    <3> QED
      BY <3>1, <3>2, <3>3
  <2> QED
    BY <2>5, <2>6 DEF ElemsFormed
<1>4. MembersFormed'
  BY Formed DEF MembersFormed, Spells, Is
<1> QED
  BY <1>2, <1>3, <1>4, FormedNext

LEMMA ArrayPutStep ==
  ASSUME IInv, NEW a \in Values, NEW i \in Index \cup {-1}, NEW v \in Handles, ArrayPut(a, i, v)
  PROVE  IInv'
<1> USE DEF IInv
<1> DEFINE x == handle[v]
<1>1. /\ Quiet /\ x \in Values
      /\ handle' = [handle EXCEPT ![v] = None]
      /\ UNCHANGED <<kind, refCnt, text, keyOf, value, lost>>
  BY DEF ArrayPut, TypeOK
<1>2. handle' \in [Handles -> Refs] /\ \A b \in Blocks : GainHandle(b) = 0 - One(x, b)
  BY <1>1, GiveHandle
<1>3. CASE Is(a, "array") /\ i >= 0 /\ InsertSane(a, x) /\ PutElem(a, i, x)
  <2>1. a \in Blocks /\ kind[a] = "array" /\ i \in Index
    BY <1>3 DEF Is
  <2>2. /\ elem' \in [Cells -> Refs] /\ size' \in [Blocks -> 0 .. MaxSize]
        /\ dropped' \in [Locals -> Refs] /\ slot' \in Cells \cup {None}
        /\ \A b \in Blocks : GainDropped(b) + GainElem(b) = One(x, b)
    BY <1>1, <1>3, <2>1, PutElemCount
  <2>3. TypeOK'
    BY <1>1, <1>2, <2>2 DEF TypeOK, Refs
  <2>4. CountsExact'
    <3>1. ASSUME NEW b \in Blocks
          PROVE  Change(b) = 0
      BY <1>1, <1>2, <2>2, Gains, OneNat DEF Change
    <3> QED
      BY <1>1, <3>1, CountsKept
  <2>5. Acyclic' /\ WellFormed'
    BY <1>1, <1>3, <2>1, <2>3, PutElemFormed
  <2> QED
    BY <2>3, <2>4, <2>5
<1>4. CASE Drop(None, x) /\ UNCHANGED <<size, elem>>
  <2>1. None \in Refs /\ x \in Refs
    BY <1>1 DEF Refs
  <2>2. /\ dropped' \in [Locals -> Refs] /\ slot' \in Cells \cup {None}
        /\ \A b \in Blocks : GainDropped(b) = One(None, b) + One(x, b)
    BY <1>1, <1>4, <2>1, DropCount
  <2>3. TypeOK'
    BY <1>1, <1>2, <1>4, <2>2 DEF TypeOK, Refs
  <2>4. CountsExact'
    <3>1. ASSUME NEW b \in Blocks
          PROVE  Change(b) = 0
      <4>1. GainDropped(b) = 0 + One(x, b)
        BY <2>2, OneConst
      <4> QED
        BY <1>1, <1>2, <1>4, <4>1, Gains, OneNat DEF Change
    <3> QED
      BY <1>1, <3>1, CountsKept
  <2>5. Acyclic'
    BY <1>1, <1>4, <2>3, EdgesShrink DEF Holds
  <2>6. WellFormed'
    BY <1>1, <1>4 DEF WellFormed, Spells, Is
  <2> QED
    BY <2>3, <2>4, <2>5, <2>6
<1> QED
  BY <1>3, <1>4 DEF ArrayPut

LEMMA ArraySetStep ==
  ASSUME IInv, NEW a \in Blocks, NEW i \in Index, NEW v \in Values, ArraySet(a, i, v)
  PROVE  IInv'
<1> USE DEF IInv
<1>1. /\ Quiet /\ v \in Visible /\ kind[a] = "array"
      /\ refCnt' = [b \in Blocks |-> refCnt[b] + One(v, b)]
      /\ UNCHANGED <<kind, text, keyOf, value, handle>>
  BY DEF ArraySet, Ref, Is
<1>2. refCnt' \in [Blocks -> Nat]
  <2>1. \A b \in Blocks : refCnt[b] \in Nat /\ One(v, b) \in Nat
    BY OneNat DEF TypeOK
  <2> QED
    BY <1>1, <2>1
<1>3. ASSUME \A b \in Blocks : Change(b) = One(v, b)
      PROVE  CountsExact'
  <2>1. \A b \in Blocks : (refCnt'[b] > 0) = (kind'[b] \in Live)
    BY <1>1, VisibleRef
  <2> QED
    BY <1>1, <1>3, <2>1, CountsNext
<1>4. CASE InsertSane(a, v) /\ PutElem(a, i, v) /\ UNCHANGED lost
  <2>1. /\ elem' \in [Cells -> Refs] /\ size' \in [Blocks -> 0 .. MaxSize]
        /\ dropped' \in [Locals -> Refs] /\ slot' \in Cells \cup {None}
        /\ \A b \in Blocks : GainDropped(b) + GainElem(b) = One(v, b)
    BY <1>1, <1>4, PutElemCount
  <2>2. TypeOK'
    BY <1>1, <1>2, <1>4, <2>1 DEF TypeOK, Refs
  <2>3. CountsExact'
    <3>1. ASSUME NEW b \in Blocks
          PROVE  Change(b) = One(v, b)
      BY <1>1, <1>4, <2>1, Gains, OneNat DEF Change
    <3> QED
      BY <1>3, <3>1
  <2>4. Acyclic' /\ WellFormed'
    BY <1>1, <1>4, <2>2, PutElemFormed
  <2> QED
    BY <2>2, <2>3, <2>4
<1>5. CASE Lose(v) /\ UNCHANGED <<size, elem, dropped, slot>>
  <2>1. lost' \in [Lost -> Refs] /\ \A b \in Blocks : GainLost(b) = One(v, b)
    BY <1>5, LoseCount
  <2>2. TypeOK'
    BY <1>1, <1>2, <1>5, <2>1 DEF TypeOK, Refs
  <2>3. CountsExact'
    <3>1. ASSUME NEW b \in Blocks
          PROVE  Change(b) = One(v, b)
      BY <1>1, <1>5, <2>1, Gains, OneNat DEF Change
    <3> QED
      BY <1>3, <3>1
  <2>4. Acyclic'
    BY <1>1, <1>5, <2>2, EdgesShrink DEF Holds
  <2>5. WellFormed'
    BY <1>1, <1>5 DEF WellFormed, Spells, Is
  <2> QED
    BY <2>2, <2>3, <2>4, <2>5
<1> QED
  BY <1>4, <1>5 DEF ArraySet

LEMMA ArrayAppendStep ==
  ASSUME IInv, NEW a \in Values, NEW v \in Handles, ArrayAppend(a, v)
  PROVE  IInv'
<1> USE DEF IInv
<1> DEFINE x == handle[v]
<1>1. /\ Quiet /\ x \in Values
      /\ handle' = [handle EXCEPT ![v] = None]
      /\ UNCHANGED <<kind, refCnt, text, keyOf, value>>
  BY DEF ArrayAppend, TypeOK
<1>2. handle' \in [Handles -> Refs] /\ \A b \in Blocks : GainHandle(b) = 0 - One(x, b)
  BY <1>1, GiveHandle
<1>3. CASE /\ Is(a, "array") /\ InsertSane(a, x) /\ size[a] < MaxSize
           /\ PutElem(a, size[a], x) /\ UNCHANGED lost
  <2>1. a \in Blocks /\ kind[a] = "array" /\ size[a] \in Index
    BY <1>3, MaxSizeAssumption DEF Is, TypeOK, Index
  <2>2. /\ elem' \in [Cells -> Refs] /\ size' \in [Blocks -> 0 .. MaxSize]
        /\ dropped' \in [Locals -> Refs] /\ slot' \in Cells \cup {None}
        /\ \A b \in Blocks : GainDropped(b) + GainElem(b) = One(x, b)
    BY <1>1, <1>3, <2>1, PutElemCount
  <2>3. TypeOK'
    BY <1>1, <1>2, <1>3, <2>2 DEF TypeOK, Refs
  <2>4. CountsExact'
    <3>1. ASSUME NEW b \in Blocks
          PROVE  Change(b) = 0
      BY <1>1, <1>2, <1>3, <2>2, Gains, OneNat DEF Change
    <3> QED
      BY <1>1, <3>1, CountsKept
  <2>5. Acyclic' /\ WellFormed'
    BY <1>1, <1>3, <2>1, <2>3, PutElemFormed
  <2> QED
    BY <2>3, <2>4, <2>5
<1>4. CASE Lose(x) /\ UNCHANGED <<size, elem, dropped, slot>>
  <2>1. lost' \in [Lost -> Refs] /\ \A b \in Blocks : GainLost(b) = One(x, b)
    BY <1>1, <1>4, LoseCount
  <2>2. TypeOK'
    BY <1>1, <1>2, <1>4, <2>1 DEF TypeOK, Refs
  <2>3. CountsExact'
    <3>1. ASSUME NEW b \in Blocks
          PROVE  Change(b) = 0
      BY <1>1, <1>2, <1>4, <2>1, Gains, OneNat DEF Change
    <3> QED
      BY <1>1, <3>1, CountsKept
  <2>4. Acyclic'
    BY <1>1, <1>4, <2>2, EdgesShrink DEF Holds
  <2>5. WellFormed'
    BY <1>1, <1>4 DEF WellFormed, Spells, Is
  <2> QED
    BY <2>2, <2>3, <2>4, <2>5
<1> QED
  BY <1>3, <1>4 DEF ArrayAppend


LEMMA ArrayInsertStep ==
  ASSUME IInv, NEW a \in Blocks, NEW i \in Index, NEW v \in Handles, ArrayInsert(a, i, v)
  PROVE  IInv'
<1> USE DEF IInv
<1> DEFINE x == handle[v]
           at == IF i < size[a] THEN i ELSE size[a]
<1>1. /\ x \in Values /\ kind[a] = "array" /\ size[a] < MaxSize /\ InsertSane(a, x)
      /\ handle' = [handle EXCEPT ![v] = None]
      /\ elem' = [c \in Cells |->
                   IF c[1] # a \/ c[2] < at \/ c[2] > size[a] THEN elem[c]
                   ELSE IF c[2] = at THEN x
                   ELSE elem[<<a, c[2] - 1>>]]
      /\ size' = [size EXCEPT ![a] = @ + 1]
      /\ UNCHANGED <<kind, refCnt, text, keyOf, value, lost, dropped, slot>>
  BY DEF ArrayInsert, Is, TypeOK
<1>2. /\ Index \subseteq Nat /\ \A d \in Blocks : size[d] \in Nat
      /\ size[a] \in Index /\ at \in Index /\ at <= size[a]
  BY <1>1, MaxSizeAssumption DEF Index, TypeOK
<1> HIDE DEF at
<1>3. elem' \in [Cells -> Refs] /\ \A b \in Blocks : GainElem(b) = One(x, b)
  BY <1>1, <1>2, InsertCount
<1>4. handle' \in [Handles -> Refs] /\ \A b \in Blocks : GainHandle(b) = 0 - One(x, b)
  BY <1>1, GiveHandle
<1>5. TypeOK'
  <2>1. size' \in [Blocks -> 0 .. MaxSize]
    BY <1>1, <1>2, MaxSizeAssumption DEF TypeOK
  <2> QED
    BY <1>1, <1>3, <1>4, <2>1 DEF TypeOK, Refs
<1>6. CountsExact'
  <2>1. ASSUME NEW b \in Blocks
        PROVE  Change(b) = 0
    BY <1>1, <1>3, <1>4, Gains, OneNat DEF Change
  <2> QED
    BY <1>1, <2>1, CountsKept
<1>7. ASSUME NEW d \in Blocks, NEW j \in Index
      PROVE  \/ elem'[<<d, j>>] = elem[<<d, j>>] /\ (d # a \/ j < at \/ j > size[a])
             \/ d = a /\ j <= size[a] /\ elem'[<<d, j>>] = x
             \/ /\ d = a /\ j <= size[a] /\ j - 1 \in Index
                /\ elem'[<<d, j>>] = elem[<<d, j - 1>>]
  <2>1. <<d, j>> \in Cells
    BY DEF Cells
  <2>2. d = a /\ ~(j < at) /\ j # at => j - 1 \in Index
    BY <1>2, MaxSizeAssumption DEF Index
  <2>3. elem'[<<d, j>>] = IF d # a \/ j < at \/ j > size[a] THEN elem[<<d, j>>]
                          ELSE IF j = at THEN x ELSE elem[<<a, j - 1>>]
    BY <1>1, <2>1
  <2>4. ~(j > size[a]) => j <= size[a]
    BY <1>2
  <2> QED
    BY <2>2, <2>3, <2>4
<1>8. Acyclic'
  <2>1. \A d, b \in Blocks, j \in Index :
          elem'[<<d, j>>] = b => (\E m \in Index : elem[<<d, m>>] = b) \/ (d = a /\ b = x)
    BY <1>7
  <2> QED
    BY <1>1, <1>5, <2>1, NewElem
<1>9. ElemsFormed'
  <2>1. ElemsFormed
    BY Formed
  <2>2. size'[a] = size[a] + 1 /\ \A d \in Blocks : d # a => size'[d] = size[d]
    BY <1>1 DEF TypeOK
  <2>3. ASSUME NEW d \in Blocks
        PROVE  size'[d] > 0 => kind'[d] \in {"array", "dying"}
    BY <1>1, <2>1, <2>2 DEF ElemsFormed
  <2>4. ASSUME NEW d \in Blocks, NEW j \in Index, elem'[<<d, j>>] # None
        PROVE  j < size'[d]
    <3>1. CASE elem'[<<d, j>>] = elem[<<d, j>>]
      <4>1. j < size[d]
        BY <2>1, <2>4, <3>1 DEF ElemsFormed
      <4> QED
        BY <1>2, <2>2, <4>1
    <3>2. CASE d = a /\ j <= size[a]
      BY <1>2, <2>2, <3>2
    <3> QED
      BY <1>7, <3>1, <3>2
  <2> QED
    BY <2>3, <2>4 DEF ElemsFormed
<1>10. MembersFormed'
  BY <1>1, Formed DEF MembersFormed, Spells, Is
<1> QED
  BY <1>5, <1>6, <1>8, <1>9, <1>10, FormedNext

LEMMA ArrayRemoveStep ==
  ASSUME IInv, NEW a \in Blocks, NEW i \in Index, ArrayRemove(a, i)
  PROVE  IInv'
<1> USE DEF IInv
<1> DEFINE x == elem[<<a, i>>]
<1>1. /\ Quiet /\ i \in 0 .. size[a] - 1 /\ Drop(None, x)
      /\ elem' = [c \in Cells |->
                   IF c[1] # a \/ c[2] < i \/ c[2] >= size[a] THEN elem[c]
                   ELSE IF c[2] = size[a] - 1 THEN None
                   ELSE elem[<<a, c[2] + 1>>]]
      /\ size' = [size EXCEPT ![a] = @ - 1]
      /\ UNCHANGED <<kind, refCnt, text, keyOf, value, handle, lost>>
  BY DEF ArrayRemove
<1>2. x \in Refs /\ None \in Refs
  BY DEF TypeOK, Refs, Cells
<1>3. elem' \in [Cells -> Refs] /\ \A b \in Blocks : GainElem(b) = 0 - One(x, b)
  BY <1>1, RemoveCount
<1>4. /\ dropped' \in [Locals -> Refs] /\ slot' \in Cells \cup {None}
      /\ \A b \in Blocks : GainDropped(b) = One(None, b) + One(x, b)
  BY <1>1, <1>2, DropCount
<1>5. /\ Index \subseteq Nat
      /\ \A d \in Blocks : size[d] \in Nat /\ size[d] <= MaxSize
  BY DEF Index, TypeOK
<1>6. TypeOK'
  <2>1. size' \in [Blocks -> 0 .. MaxSize]
    BY <1>1, <1>5, MaxSizeAssumption DEF TypeOK
  <2> QED
    BY <1>1, <1>3, <1>4, <2>1 DEF TypeOK, Refs
<1>7. CountsExact'
  <2>1. ASSUME NEW b \in Blocks
        PROVE  Change(b) = 0
    <3>1. GainDropped(b) = 0 + One(x, b)
      BY <1>4, OneConst
    <3> QED
      BY <1>1, <1>3, <3>1, Gains, OneNat DEF Change
  <2> QED
    BY <1>1, <2>1, CountsKept
<1>8. ASSUME NEW d \in Blocks, NEW j \in Index
      PROVE  \/ /\ elem'[<<d, j>>] = elem[<<d, j>>]
                /\ d # a \/ j < i \/ j >= size[a]
             \/ elem'[<<d, j>>] = None
             \/ /\ d = a /\ j + 1 < size[a] /\ j + 1 \in Index
                /\ elem'[<<d, j>>] = elem[<<d, j + 1>>]
  <2>1. <<d, j>> \in Cells
    BY DEF Cells
  <2>2. d = a /\ ~(j < i) /\ ~(j >= size[a]) /\ j # size[a] - 1 =>
          j + 1 \in Index /\ j + 1 < size[a]
    BY <1>5, MaxSizeAssumption DEF Index
  <2> QED
    BY <1>1, <2>1, <2>2
<1>9. Acyclic'
  <2>0. ASSUME NEW d \in Blocks, NEW b \in Blocks, NEW j \in Index, elem'[<<d, j>>] = b
        PROVE  \E m \in Index : elem[<<d, m>>] = b
    BY <1>8, <2>0, ConstsDiffer
  <2>1. \A d, b \in Blocks : Holds(d, b)' => Holds(d, b)
    BY <1>1, <2>0 DEF Holds
  <2> QED
    BY <1>6, <2>1, EdgesShrink
<1>10. ElemsFormed'
  <2>1. ElemsFormed
    BY Formed
  <2>2. size'[a] = size[a] - 1 /\ \A d \in Blocks : d # a => size'[d] = size[d]
    BY <1>1 DEF TypeOK
  <2>3. ASSUME NEW d \in Blocks
        PROVE  size'[d] > 0 => kind'[d] \in {"array", "dying"}
    BY <1>1, <1>5, <2>1, <2>2 DEF ElemsFormed
  <2>4. ASSUME NEW d \in Blocks, NEW j \in Index, elem'[<<d, j>>] # None
        PROVE  j < size'[d]
    <3>1. CASE elem'[<<d, j>>] = elem[<<d, j>>] /\ (d # a \/ j < i \/ j >= size[a])
      <4>1. j < size[d]
        BY <2>1, <2>4, <3>1 DEF ElemsFormed
      <4>2. CASE d # a
        BY <2>2, <4>1, <4>2
      <4>3. CASE d = a
        <5>1. j < i /\ i <= size[a] - 1 /\ i \in Nat /\ j \in Nat /\ size[a] \in Nat
          BY <1>1, <1>5, <3>1, <4>1, <4>3
        <5> QED
          BY <2>2, <4>3, <5>1
      <4> QED
        BY <4>2, <4>3
    <3>2. CASE d = a /\ j + 1 < size[a]
      BY <1>5, <2>2, <3>2
    <3> QED
      BY <1>8, <2>4, <3>1, <3>2
  <2> QED
    BY <2>3, <2>4 DEF ElemsFormed
<1>11. MembersFormed'
  BY <1>1, Formed DEF MembersFormed, Spells, Is
<1> QED
  BY <1>6, <1>7, <1>9, <1>10, <1>11, FormedNext


-----------------------------------------------------------------------------
(* Releasing:                                                              *)

(* One reference to v, which is not in a live object, is given up.         *)
LEMMA UnrefStep ==
  ASSUME IInv, NEW v \in Refs, Unref(v), UNCHANGED text,
         v \in Blocks => ~Unreferenced(v),
         size' \in [Blocks -> 0 .. MaxSize], elem' \in [Cells -> Refs],
         keyOf' \in [Members -> Refs], value' \in [Members -> Refs],
         dropped' \in [Locals -> Refs], UNCHANGED <<handle, lost, slot>>,
         \A b \in Blocks : Change(b) = 0 - One(v, b),
         \A c \in Cells : elem'[c] = elem[c] \/ elem'[c] = None,
         \A b \in Blocks, n \in Names :
           /\ keyOf'[<<b, n>>] = keyOf[<<b, n>>] \/ (keyOf'[<<b, n>>] = None /\ kind[b] = "dying")
           /\ value'[<<b, n>>] = value[<<b, n>>] \/ (value'[<<b, n>>] = None /\ kind[b] = "dying"),
         \A b \in Blocks :
           /\ size[b] >= size'[b]
           /\ \A i \in Index : i < size[b] /\ elem'[<<b, i>>] # None => i < size'[b]
  PROVE  IInv'
<1> USE DEF IInv
<1>1. v \in Blocks => refCnt[v] > 0
  BY Referenced DEF LiveRefs, CountsExact
<1>2. /\ refCnt' \in [Blocks -> Nat]
      /\ kind' \in [Blocks -> Live \cup {"free", "dying"}]
      /\ \A b \in Blocks :
           /\ refCnt'[b] = refCnt[b] - One(v, b)
           /\ (refCnt'[b] > 0) = (kind'[b] \in Live)
           /\ kind'[b] = kind[b] \/ (kind[b] \in Live /\ kind'[b] = "dying")
  BY <1>1, UnrefCount
<1>3. TypeOK'
  BY <1>2 DEF TypeOK, Refs
<1>4. CountsExact'
  <2>1. ASSUME NEW b \in Blocks
        PROVE  refCnt'[b] = refCnt[b] + Change(b)
    BY <1>2, OneNat DEF TypeOK
  <2> QED
    BY <1>2, <2>1, CountsNext
<1>5. Acyclic'
  <2>1. \A d \in Blocks, i \in Index : <<d, i>> \in Cells
    BY DEF Cells
  <2>2. \A d, b \in Blocks : Holds(d, b)' => Holds(d, b)
    BY <2>1, ConstsDiffer DEF Holds
  <2> QED
    BY <1>3, <2>2, EdgesShrink
<1>6. ElemsFormed'
  <2>1. ElemsFormed /\ Index \subseteq Nat
    BY Formed DEF Index
  <2>2. \A b \in Blocks : size[b] \in Nat /\ size'[b] \in Nat
    BY DEF TypeOK
  <2>3. ASSUME NEW b \in Blocks, size'[b] > 0
        PROVE  kind'[b] \in {"array", "dying"}
    <3>1. size[b] > 0
      BY <2>2, <2>3
    <3> QED
      BY <1>2, <2>1, <2>3, <3>1 DEF ElemsFormed
  <2>4. ASSUME NEW b \in Blocks, NEW i \in Index, elem'[<<b, i>>] # None
        PROVE  i < size'[b]
    <3>1. <<b, i>> \in Cells
      BY DEF Cells
    <3>2. i < size[b]
      BY <2>1, <2>4, <3>1 DEF ElemsFormed
    <3> QED
      BY <2>4, <3>2
  <2> QED
    BY <2>3, <2>4 DEF ElemsFormed
<1>7. MembersFormed'
  BY <1>2, <1>3, <1>4, Formed, KeepMembers DEF Aging
<1> QED
  BY <1>3, <1>4, <1>5, <1>6, <1>7, FormedNext

LEMMA ReleaseLocalStep ==
  ASSUME IInv, NEW k \in Locals, ReleaseLocal(k)
  PROVE  IInv'
<1> USE DEF IInv
<1> DEFINE v == dropped[k]
<1>1. /\ v \in Refs /\ Unref(v)
      /\ dropped' = [dropped EXCEPT ![k] = None]
      /\ UNCHANGED <<text, size, elem, keyOf, value, handle, lost, slot>>
  BY DEF ReleaseLocal, containers, TypeOK, Refs
<1>2. v \in Blocks => ~Unreferenced(v)
  BY DEF Unreferenced
<1>3. Update(dropped, dropped', Locals, k, None) /\ dropped' \in [Locals -> Refs] /\ slot' \in Cells \cup {None}
  BY <1>1 DEF Update, TypeOK, Refs
<1>4. ASSUME NEW b \in Blocks
      PROVE  Change(b) = 0 - One(v, b)
  <2>1. Count(dropped', Locals, b) = Count(dropped, Locals, b) - One(v, b) + 0
    BY <1>3, PlacesFinite, CountUpdate, OneConst
  <2>2. GainDropped(b) = 0 - One(v, b)
    BY <2>1, OneNat, CountsNat DEF GainDropped
  <2> QED
    BY <1>1, <2>2, Gains, OneNat DEF Change
<1>5. /\ size' \in [Blocks -> 0 .. MaxSize] /\ elem' \in [Cells -> Refs]
      /\ keyOf' \in [Members -> Refs] /\ value' \in [Members -> Refs]
  BY <1>1 DEF TypeOK, Refs
<1>6. \A b \in Blocks : size[b] \in Nat /\ size'[b] = size[b]
  BY <1>1 DEF TypeOK
<1> HIDE DEF v, IInv
<1> QED
  BY <1>1, <1>2, <1>3, <1>4, <1>5, <1>6, UnrefStep

LEMMA ReleaseElemStep ==
  ASSUME IInv, NEW d \in Blocks, ReleaseElem(d)
  PROVE  IInv'
<1> USE DEF IInv
<1> DEFINE p == <<d, size[d] - 1>>
           v == elem[p]
<1>1. /\ kind[d] = "dying" /\ size[d] > 0 /\ Unref(v)
      /\ elem' = [elem EXCEPT ![p] = None]
      /\ size' = [size EXCEPT ![d] = @ - 1]
      /\ UNCHANGED <<text, keyOf, value, handle, lost, dropped, slot>>
  BY DEF ReleaseElem
<1>2. /\ Index \subseteq Nat
      /\ \A b \in Blocks : size[b] \in Nat /\ size[b] <= MaxSize
  BY DEF Index, TypeOK
<1>3. p \in Cells
  <2>1. size[d] - 1 \in Index
    BY <1>1, <1>2, MaxSizeAssumption DEF Index
  <2> QED
    BY <2>1 DEF Cells
<1>4. v \in Refs /\ (v \in Blocks => ~Unreferenced(v))
  BY <1>3 DEF TypeOK, Refs, Unreferenced
<1>5. /\ Update(elem, elem', Cells, p, None) /\ elem' \in [Cells -> Refs]
      /\ \A c \in Cells : elem'[c] = elem[c] \/ elem'[c] = None
  BY <1>1, <1>3 DEF Update, TypeOK, Refs
<1>6. ASSUME NEW b \in Blocks
      PROVE  Change(b) = 0 - One(v, b)
  <2>1. Count(elem', Cells, b) = Count(elem, Cells, b) - One(v, b) + 0
    BY <1>5, PlacesFinite, CountUpdate, OneConst
  <2>2. GainElem(b) = 0 - One(v, b)
    BY <2>1, OneNat, CountsNat DEF GainElem
  <2> QED
    BY <1>1, <2>2, Gains, OneNat DEF Change
<1>7. size' \in [Blocks -> 0 .. MaxSize]
  BY <1>1, <1>2, MaxSizeAssumption DEF TypeOK
<1>8. \A b \in Blocks : size'[b] = IF b = d THEN size[b] - 1 ELSE size[b]
  BY <1>1 DEF TypeOK
<1>9. ASSUME NEW b \in Blocks, NEW i \in Index, i < size[b], elem'[<<b, i>>] # None
      PROVE  i < size'[b]
  <2>1. CASE b = d /\ i = size[d] - 1
    <3>1. elem'[p] = None
      BY <1>5 DEF Update
    <3> QED
      BY <1>9, <2>1, <3>1
  <2>2. CASE ~(b = d /\ i = size[d] - 1)
    BY <1>2, <1>8, <1>9, <2>2
  <2> QED
    BY <2>1, <2>2
<1>10. \A b \in Blocks : size[b] >= size'[b]
  BY <1>2, <1>8
<1>11. /\ keyOf' \in [Members -> Refs] /\ value' \in [Members -> Refs]
       /\ dropped' \in [Locals -> Refs] /\ slot' \in Cells \cup {None}
  BY <1>1 DEF TypeOK, Refs
<1> HIDE DEF v, p, IInv
<1> QED
  BY <1>1, <1>4, <1>5, <1>6, <1>7, <1>9, <1>10, <1>11, UnrefStep

LEMMA ReleaseKeyStep ==
  ASSUME IInv, NEW d \in Blocks, NEW n \in Names, ReleaseKey(d, n)
  PROVE  IInv'
<1> USE DEF IInv
<1> DEFINE p == <<d, n>>
           v == keyOf[p]
<1>1. /\ kind[d] = "dying" /\ Unref(v)
      /\ keyOf' = [keyOf EXCEPT ![p] = None]
      /\ UNCHANGED <<text, size, elem, value, handle, lost, dropped, slot>>
  BY DEF ReleaseKey
<1>2. p \in Members
  BY DEF Members
<1>3. v \in Refs /\ (v \in Blocks => ~Unreferenced(v))
  BY <1>2 DEF TypeOK, Refs, Unreferenced
<1>4. Update(keyOf, keyOf', Members, p, None) /\ keyOf' \in [Members -> Refs]
  BY <1>1, <1>2 DEF Update, TypeOK, Refs
<1>5. ASSUME NEW b \in Blocks
      PROVE  Change(b) = 0 - One(v, b)
  <2>1. Count(keyOf', Members, b) = Count(keyOf, Members, b) - One(v, b) + 0
    BY <1>4, PlacesFinite, CountUpdate, OneConst
  <2>2. GainKeyOf(b) = 0 - One(v, b)
    BY <2>1, OneNat, CountsNat DEF GainKeyOf
  <2> QED
    BY <1>1, <2>2, Gains, OneNat DEF Change
<1>6. \A b \in Blocks, m \in Names :
        keyOf'[<<b, m>>] = keyOf[<<b, m>>] \/ (keyOf'[<<b, m>>] = None /\ kind[b] = "dying")
  <2>1. \A b \in Blocks, m \in Names : <<b, m>> \in Members
    BY DEF Members
  <2> QED
    BY <1>1, <1>4, <2>1 DEF Update
<1>7. /\ size' \in [Blocks -> 0 .. MaxSize] /\ elem' \in [Cells -> Refs]
      /\ value' \in [Members -> Refs] /\ dropped' \in [Locals -> Refs] /\ slot' \in Cells \cup {None}
  BY <1>1 DEF TypeOK, Refs
<1>8. \A b \in Blocks : size[b] \in Nat /\ size'[b] = size[b]
  BY <1>1 DEF TypeOK
<1> HIDE DEF v, p, IInv
<1> QED
  BY <1>1, <1>3, <1>4, <1>5, <1>6, <1>7, <1>8, UnrefStep

LEMMA ReleaseValueStep ==
  ASSUME IInv, NEW d \in Blocks, NEW n \in Names, ReleaseValue(d, n)
  PROVE  IInv'
<1> USE DEF IInv
<1> DEFINE p == <<d, n>>
           v == value[p]
<1>1. /\ kind[d] = "dying" /\ Unref(v)
      /\ value' = [value EXCEPT ![p] = None]
      /\ UNCHANGED <<text, size, elem, keyOf, handle, lost, dropped, slot>>
  BY DEF ReleaseValue
<1>2. p \in Members
  BY DEF Members
<1>3. v \in Refs /\ (v \in Blocks => ~Unreferenced(v))
  BY <1>2 DEF TypeOK, Refs, Unreferenced
<1>4. Update(value, value', Members, p, None) /\ value' \in [Members -> Refs]
  BY <1>1, <1>2 DEF Update, TypeOK, Refs
<1>5. ASSUME NEW b \in Blocks
      PROVE  Change(b) = 0 - One(v, b)
  <2>1. Count(value', Members, b) = Count(value, Members, b) - One(v, b) + 0
    BY <1>4, PlacesFinite, CountUpdate, OneConst
  <2>2. GainValue(b) = 0 - One(v, b)
    BY <2>1, OneNat, CountsNat DEF GainValue
  <2> QED
    BY <1>1, <2>2, Gains, OneNat DEF Change
<1>6. \A b \in Blocks, m \in Names :
        value'[<<b, m>>] = value[<<b, m>>] \/ (value'[<<b, m>>] = None /\ kind[b] = "dying")
  <2>1. \A b \in Blocks, m \in Names : <<b, m>> \in Members
    BY DEF Members
  <2> QED
    BY <1>1, <1>4, <2>1 DEF Update
<1>7. /\ size' \in [Blocks -> 0 .. MaxSize] /\ elem' \in [Cells -> Refs]
      /\ keyOf' \in [Members -> Refs] /\ dropped' \in [Locals -> Refs] /\ slot' \in Cells \cup {None}
  BY <1>1 DEF TypeOK, Refs
<1>8. \A b \in Blocks : size[b] \in Nat /\ size'[b] = size[b]
  BY <1>1 DEF TypeOK
<1> HIDE DEF v, p, IInv
<1> QED
  BY <1>1, <1>3, <1>4, <1>5, <1>6, <1>7, <1>8, UnrefStep

LEMMA FreeStep ==
  ASSUME IInv, NEW d \in Blocks, Free(d)
  PROVE  IInv'
<1> USE DEF IInv
<1>1. /\ kind[d] = "dying" /\ Contents(d) = {} /\ size[d] = 0
      /\ kind' = [kind EXCEPT ![d] = "free"]
      /\ text' = [text EXCEPT ![d] = None]
      /\ UNCHANGED <<refCnt, size, elem, keyOf, value, handle, lost, dropped, slot>>
  BY DEF Free
<1>2. TypeOK'
  BY <1>1 DEF TypeOK
<1>3. CountsExact'
  <2>1. \A b \in Blocks : /\ refCnt[b] \in Nat
                          /\ (refCnt[b] > 0) = (kind[b] \in Live)
    BY DEF TypeOK, CountsExact
  <2>2. \A b \in Blocks : (kind'[b] \in Live) = (kind[b] \in Live)
    BY <1>1 DEF TypeOK, Live
  <2>3. ASSUME NEW b \in Blocks
        PROVE  refCnt'[b] = refCnt[b] + Change(b)
    BY <1>1, <2>1, Gains DEF Change
  <2> QED
    BY <1>1, <2>1, <2>2, <2>3, CountsNext
<1>4. Acyclic'
  BY <1>1, <1>2, EdgesShrink DEF Holds
<1>5. ElemsFormed'
  BY <1>1, Formed DEF ElemsFormed, TypeOK
<1>6. MembersFormed'
  <2>1. \A n \in Names : keyOf[<<d, n>>] = None /\ value[<<d, n>>] = None
    BY <1>1 DEF Contents
  <2>2. \A b \in Blocks : b # d => kind'[b] = kind[b] /\ text'[b] = text[b]
    BY <1>1 DEF TypeOK
  <2>3. kind'[d] = "free"
    BY <1>1 DEF TypeOK
  <2>4. MembersFormed /\ keyOf' = keyOf /\ value' = value
    BY <1>1, Formed
  <2> QED
    BY <1>1, <2>1, <2>2, <2>3, <2>4 DEF MembersFormed, Spells, Is
<1> QED
  BY <1>2, <1>3, <1>4, <1>5, <1>6, FormedNext


-----------------------------------------------------------------------------
(* The theorems.                                                           *)

LEMMA Initially == Init => IInv
<1> SUFFICES ASSUME Init
             PROVE  IInv
  OBVIOUS
<1>1. TypeOK
  BY MaxSizeAssumption DEF Init, TypeOK
<1>2. WellFormed
  <2>1. /\ \A b \in Blocks, n \in Names : <<b, n>> \in Members
        /\ \A b \in Blocks, i \in Index : <<b, i>> \in Cells
    BY DEF Members, Cells
  <2> QED
    BY <2>1 DEF Init, WellFormed
<1>3. ASSUME NEW b \in Blocks
      PROVE  References(b) = 0
  <2>1. b # None
    BY ConstsDiffer
  <2>2. /\ Count(handle, Handles, b) = 0 /\ Count(lost, Lost, b) = 0
        /\ Count(dropped, Locals, b) = 0 /\ Count(elem, Cells, b) = 0
        /\ Count(keyOf, Members, b) = 0 /\ Count(value, Members, b) = 0
    BY <2>1, PlacesFinite, CountZero DEF Init
  <2> QED
    BY <2>2, ReferencesSum
<1>4. CountsExact
  BY <1>3 DEF Init, CountsExact, Live
<1>5. \A b \in Blocks : Contents(b) = {}
  <2>1. \A b \in Blocks : 0 .. size[b] - 1 = {}
    BY DEF Init
  <2>2. \A b \in Blocks, n \in Names : <<b, n>> \in Members
    BY DEF Members
  <2> QED
    BY <2>1, <2>2 DEF Contents, Init
<1>6. Acyclic
  <2> SUFFICES ASSUME NEW S \in (SUBSET Blocks) \ {{}}
               PROVE  \E b \in S : \A d \in S : b \notin Contents(d)
    BY DEF Acyclic
  <2>0. S # {}
    OBVIOUS
  <2>1. PICK b \in S : TRUE
    BY <2>0
  <2>2. \A d \in S : b \notin Contents(d)
    BY <1>5
  <2> QED
    BY <2>1, <2>2
<1> QED
  BY <1>1, <1>2, <1>4, <1>6 DEF IInv

LEMMA Stutters == IInv /\ UNCHANGED vars => IInv'
<1> SUFFICES ASSUME IInv, UNCHANGED vars
             PROVE  IInv'
  OBVIOUS
<1> USE DEF IInv, vars
<1>1. TypeOK'
  BY DEF TypeOK
<1>2. CountsExact'
  <2>1. ASSUME NEW b \in Blocks
        PROVE  Change(b) = 0
    BY Gains DEF Change
  <2> QED
    BY <2>1, CountsKept
<1>3. Acyclic'
  BY <1>1, EdgesShrink DEF Holds
<1>4. WellFormed'
  BY DEF WellFormed, Spells, Is
<1> QED
  BY <1>1, <1>2, <1>3, <1>4

(* Every call of the API and every step of j_release preserves the graph.  *)
LEMMA CallsKeep ==
  ASSUME IInv, HandleCall \/ ObjectCall \/ ArrayCall \/ Releasing \/ UNCHANGED vars
  PROVE  IInv'
<1>1. CASE HandleCall
  <2>1. ASSUME NEW h \in Handles, NEW b \in Blocks, NEW n \in Names, CreateString(h, b, n)
        PROVE  IInv'
    BY <2>1, CreateStep DEF CreateString, Live
  <2>2. ASSUME NEW h \in Handles, NEW b \in Blocks, CreateObject(h, b) \/ CreateArray(h, b)
        PROVE  IInv'
    BY <2>2, CreateStep DEF CreateObject, CreateArray, Live
  <2> QED
    BY <1>1, <2>1, <2>2, TakeConstStep, ReleaseStep, CopyStep, LookupKeyStep DEF HandleCall
<1>2. CASE ObjectCall
  BY <1>2, ObjectPutStep, ObjectSet2Step, ObjectSetStep, ObjectRemoveStep DEF ObjectCall
<1>3. CASE ArrayCall
  BY <1>3, ArrayPutStep, ArraySetStep, ArrayAppendStep, ArrayInsertStep, ArrayRemoveStep
  DEF ArrayCall
<1>4. CASE Releasing
  BY <1>4, ReleaseLocalStep, ReleaseElemStep, ReleaseKeyStep, ReleaseValueStep, FreeStep
  DEF Releasing
<1> QED
  BY <1>1, <1>2, <1>3, <1>4, Stutters

(* A call begins without a waiting slot.                                   *)
LEMMA QuietSlot ==
  ASSUME CallInv, Quiet
  PROVE  slot = None /\ dropped["new"] = None
BY ConstsDiffer DEF CallInv, SlotWaits, Quiet, Values

LEMMA DropsNothingNew ==
  ASSUME NEW u, NEW v, Drop(u, v)
  PROVE  slot' = None /\ dropped'["new"] = None
BY DEF Drop, DropFor, Locals

(* jarray_put_unsafe empties the slot: the array that it is in stays in    *)
(* sight, for it is not below the value that the client gave away.         *)
LEMMA PutElemWaits ==
  ASSUME CallInv, Quiet, NEW a \in Blocks, NEW i \in Index, NEW v \in Values,
         kind[a] = "array", InsertSane(a, v), a \in Visible, PutElem(a, i, v),
         UNCHANGED <<kind, keyOf, value>>,
         \A h \in Handles : handle'[h] = handle[h] \/ handle[h] = v
  PROVE  SlotWaits'
<1>1. CASE Drop(None, None)
  BY <1>1, DropsNothingNew DEF SlotWaits
<1>2. CASE /\ elem[<<a, i>>] # None /\ elem' = [elem EXCEPT ![<<a, i>>] = None]
           /\ DropFor(<<a, i>>, v, None, elem[<<a, i>>]) /\ UNCHANGED size
  <2>1. slot' = <<a, i>> /\ dropped'["new"] = v
    BY <1>2 DEF DropFor, Locals
  <2>2. <<a, i>> \in Cells /\ elem'[<<a, i>>] = None
    BY <1>2 DEF Cells, CallInv, IInv, TypeOK
  <2>3. i < size[a]
    BY <1>2 DEF CallInv, IInv, WellFormed
  <2>4. \A b \in Blocks : Contents(b)' \subseteq Contents(b)
    <3>1. \A b \in Blocks : 0 .. size[b] - 1 \subseteq Index
      BY MaxSizeAssumption DEF CallInv, IInv, TypeOK, Index
    <3>2. \A b \in Blocks, j \in Index :
            elem'[<<b, j>>] = elem[<<b, j>>] \/ elem'[<<b, j>>] = None
      BY <1>2 DEF CallInv, IInv, TypeOK, Cells
    <3> QED
      BY <1>2, <3>1, <3>2 DEF Contents
  <2>5. InsertSane(a, v)'
    BY <2>4 DEF InsertSane, Closed
  <2>6. \A h \in Handles : handle[h] \in Blocks /\ a \in Contents(handle[h]) \cup {handle[h]} =>
          handle'[h] = handle[h]
    BY DEF InsertSane, Closed
  <2>7. a \in Visible'
    <3>1. CASE a \in Owned
      BY <2>6, <3>1, ConstsDiffer DEF Owned, Visible
    <3>2. CASE \E b \in Owned \cap Blocks : a \in Contents(b)
      <4>1. PICK b \in Owned \cap Blocks : a \in Contents(b)
        BY <3>2
      <4>2. b \in Owned'
        BY <2>6, <4>1 DEF Owned
      <4>3. b # a
        <5>1. {a} \in (SUBSET Blocks) \ {{}}
          OBVIOUS
        <5>2. a \notin Contents(a)
          BY <5>1 DEF CallInv, IInv, Acyclic
        <5> QED
          BY <4>1, <5>2
      <4>4. \A j \in 0 .. size[b] - 1 : elem'[<<b, j>>] = elem[<<b, j>>]
        <5>1. 0 .. size[b] - 1 \subseteq Index
          BY MaxSizeAssumption DEF CallInv, IInv, TypeOK, Index
        <5> QED
          BY <1>2, <4>3, <5>1 DEF CallInv, IInv, TypeOK, Cells
      <4>5. Contents(b)' = Contents(b)
        BY <1>2, <4>4 DEF Contents
      <4> QED
        BY <4>1, <4>2, <4>5 DEF Visible
    <3> QED
      BY <3>1, <3>2 DEF Visible
  <2> QED
    BY <1>2, <2>1, <2>2, <2>3, <2>5, <2>7 DEF SlotWaits
<1> QED
  BY <1>1, <1>2 DEF PutElem

(* The other calls leave no slot behind them.                              *)
LEMMA CallsWait ==
  ASSUME CallInv, HandleCall \/ ObjectCall \/ ArrayCall
  PROVE  SlotWaits'
<1>1. SUFFICES ASSUME ~(slot' = None /\ dropped'["new"] = None)
               PROVE  SlotWaits'
  BY DEF SlotWaits
<1>2. ~(UNCHANGED <<dropped, slot>>) \/ ~Quiet
  BY <1>1, QuietSlot
<1>3. \A u, v : ~Drop(u, v)
  BY <1>1, DropsNothingNew
<1>4. ~HandleCall
  BY <1>2, <1>3
  DEF HandleCall, TakeConst, Release, CreateString, CreateObject, CreateArray, Create, Copy,
      LookupKey, Share
<1>5. ~ObjectCall
  <2>1. \A o \in Values, n \in Names, k, v \in Values : ~PutMember(o, n, k, v)
    BY <1>3 DEF PutMember, Replace
  <2>2. ASSUME NEW o \in Values, NEW k \in Handles, NEW v \in Handles, ObjectPut(o, k, v)
        PROVE  FALSE
    <3>1. handle[k] \in Values /\ handle[v] \in Values
      BY <2>2 DEF ObjectPut, CallInv, IInv, TypeOK
    <3> QED
      BY <1>3, <2>1, <2>2, <3>1 DEF ObjectPut
  <2>3. ASSUME NEW o \in Values, NEW k \in Values, NEW v \in Values, ObjectSet2(o, k, v)
        PROVE  FALSE
    BY <1>3, <2>1, <2>3 DEF ObjectSet2
  <2>4. ASSUME NEW o \in Blocks, NEW b \in Blocks, NEW n \in Names, NEW v \in Values,
               ObjectSet(o, n, v, b)
        PROVE  FALSE
    BY <2>1, <2>4 DEF ObjectSet, Values
  <2>5. ASSUME NEW o \in Blocks, NEW n \in Names, ObjectRemove(o, n)
        PROVE  FALSE
    BY <1>3, <2>5 DEF ObjectRemove, Replace
  <2> QED
    BY <2>2, <2>3, <2>4, <2>5 DEF ObjectCall
<1>6. CASE \E a \in Values, i \in Index \cup {-1}, v \in Handles : ArrayPut(a, i, v)
  <2>1. PICK a \in Values, i \in Index \cup {-1}, v \in Handles : ArrayPut(a, i, v)
    BY <1>6
  <2>2. /\ Quiet /\ a \in Visible /\ Is(a, "array") /\ i >= 0 /\ InsertSane(a, handle[v])
        /\ PutElem(a, i, handle[v]) /\ handle[v] # None
        /\ handle' = [handle EXCEPT ![v] = None]
        /\ UNCHANGED <<kind, keyOf, value>>
    BY <1>3, <2>1 DEF ArrayPut
  <2>3. a \in Blocks /\ kind[a] = "array" /\ i \in Index /\ handle[v] \in Values
    BY <2>2 DEF Is, CallInv, IInv, TypeOK
  <2>4. \A h \in Handles : handle'[h] = handle[h] \/ handle[h] = handle[v]
    BY <2>2 DEF CallInv, IInv, TypeOK
  <2> QED
    BY <2>2, <2>3, <2>4, PutElemWaits
<1>7. CASE \E a \in Blocks, i \in Index, v \in Values : ArraySet(a, i, v)
  <2>1. PICK a \in Blocks, i \in Index, v \in Values : ArraySet(a, i, v)
    BY <1>7
  <2>2. /\ Quiet /\ a \in Visible /\ Is(a, "array") /\ InsertSane(a, v)
        /\ PutElem(a, i, v)
        /\ UNCHANGED <<kind, keyOf, value, handle>>
    BY <1>2, <2>1 DEF ArraySet
  <2> QED
    BY <2>2, PutElemWaits DEF Is
<1>8. CASE \E a \in Values, v \in Handles : ArrayAppend(a, v)
  <2>1. PICK a \in Values, v \in Handles : ArrayAppend(a, v)
    BY <1>8
  <2>2. /\ Quiet /\ a \in Visible /\ Is(a, "array") /\ InsertSane(a, handle[v])
        /\ PutElem(a, size[a], handle[v]) /\ handle[v] # None /\ size[a] < MaxSize
        /\ handle' = [handle EXCEPT ![v] = None]
        /\ UNCHANGED <<kind, keyOf, value>>
    BY <1>2, <2>1 DEF ArrayAppend
  <2>3. a \in Blocks /\ kind[a] = "array" /\ size[a] \in Index /\ handle[v] \in Values
    BY <2>2, MaxSizeAssumption DEF Is, CallInv, IInv, TypeOK, Index
  <2>4. \A h \in Handles : handle'[h] = handle[h] \/ handle[h] = handle[v]
    BY <2>2 DEF CallInv, IInv, TypeOK
  <2> QED
    BY <2>2, <2>3, <2>4, PutElemWaits
<1> QED
  BY <1>2, <1>3, <1>4, <1>5, <1>6, <1>7, <1>8 DEF ArrayCall, ArrayInsert, ArrayRemove

(* While something is released nothing changes for what the client sees.   *)
LEMMA ReleasingWaits ==
  ASSUME CallInv, Releasing, IInv'
  PROVE  SlotWaits'
<1> DEFINE Stays(b) == /\ kind'[b] \in {kind[b], "dying"} /\ size'[b] = size[b]
                       /\ \A i \in Index : elem'[<<b, i>>] = elem[<<b, i>>]
                       /\ \A n \in Names : /\ keyOf'[<<b, n>>] = keyOf[<<b, n>>]
                                          /\ value'[<<b, n>>] = value[<<b, n>>]
           Fewer == \A d, b \in Blocks : Holds(d, b)' => Holds(d, b)
           Still == handle' = handle /\ slot' = slot /\ dropped'["new"] = dropped["new"]
<1>1. Still /\ Fewer /\ \A b \in Blocks : kind[b] # "dying" => Stays(b)
  <2> USE DEF CallInv, IInv, TypeOK
  <2>1. CASE \E k \in Locals : ReleaseLocal(k)
    BY <2>1 DEF ReleaseLocal, Unref, containers, Locals, Holds
  <2>2. ASSUME NEW d \in Blocks, ReleaseElem(d)
        PROVE  Still /\ Fewer /\ \A b \in Blocks : kind[b] # "dying" => Stays(b)
    <3>1. \A b \in Blocks, i \in Index : <<b, i>> \in Cells
      BY DEF Cells
    <3>2. \A b \in Blocks, i \in Index :
            elem'[<<b, i>>] = elem[<<b, i>>] \/ (elem'[<<b, i>>] = None /\ b = d)
      BY <2>2, <3>1 DEF ReleaseElem
    <3>3. ASSUME NEW c \in Blocks, NEW b \in Blocks, Holds(c, b)'
          PROVE  Holds(c, b)
      <4>1. b # None /\ keyOf' = keyOf /\ value' = value
        BY <2>2, ConstsDiffer DEF ReleaseElem
      <4> QED
        BY <3>2, <3>3, <4>1 DEF Holds
    <3> QED
      BY <2>2, <3>2, <3>3 DEF ReleaseElem, Unref
  <2>3. ASSUME NEW d \in Blocks, NEW n \in Names, ReleaseKey(d, n) \/ ReleaseValue(d, n)
        PROVE  Still /\ Fewer /\ \A b \in Blocks : kind[b] # "dying" => Stays(b)
    <3>1. \A b \in Blocks, m \in Names : <<b, m>> \in Members
      BY DEF Members
    <3>2. \A b \in Blocks, m \in Names :
            /\ keyOf'[<<b, m>>] = keyOf[<<b, m>>] \/ (keyOf'[<<b, m>>] = None /\ b = d)
            /\ value'[<<b, m>>] = value[<<b, m>>] \/ (value'[<<b, m>>] = None /\ b = d)
      BY <2>3, <3>1 DEF ReleaseKey, ReleaseValue
    <3>3. ASSUME NEW c \in Blocks, NEW b \in Blocks, Holds(c, b)'
          PROVE  Holds(c, b)
      <4>1. b # None /\ elem' = elem
        BY <2>3, ConstsDiffer DEF ReleaseKey, ReleaseValue
      <4> QED
        BY <3>2, <3>3, <4>1 DEF Holds
    <3> QED
      BY <2>3, <3>2, <3>3 DEF ReleaseKey, ReleaseValue, Unref
  <2>4. ASSUME NEW d \in Blocks, Free(d)
        PROVE  Still /\ Fewer /\ \A b \in Blocks : kind[b] # "dying" => Stays(b)
    BY <2>4 DEF Free, Holds
  <2> QED
    BY <2>1, <2>2, <2>3, <2>4 DEF Releasing
<1>2. CASE slot = None /\ dropped["new"] = None
  BY <1>1, <1>2 DEF SlotWaits
<1>3. CASE dropped["new"] # None
  <2>1. PICK a \in Blocks, i \in Index, v \in Values :
               /\ slot = <<a, i>> /\ dropped["new"] = v
               /\ a \in Visible /\ kind[a] = "array" /\ i < size[a]
               /\ elem[<<a, i>>] = None
               /\ InsertSane(a, v)
    BY <1>3 DEF CallInv, SlotWaits
  <2>2. \A d, b \in Blocks : b \in Contents(d)' => b \in Contents(d)
    <3>1. \A d, b \in Blocks : Holds(d, b)' => Holds(d, b)
      BY <1>1
    <3> QED
      BY <3>1, ContentsHeldNext, HeldContents DEF ContentsHold, CallInv, IInv
  <2>3. InsertSane(a, v)'
    BY <2>1, <2>2 DEF InsertSane, Closed
  <2>4. \A b \in Blocks : kind[b] # "dying" => Contents(b)' = Contents(b)
    <3>1. \A b \in Blocks : 0 .. size[b] - 1 \subseteq Index
      BY MaxSizeAssumption DEF CallInv, IInv, TypeOK, Index
    <3>2. ASSUME NEW b \in Blocks, kind[b] # "dying"
          PROVE  Contents(b)' = Contents(b)
      <4>1. Stays(b) /\ 0 .. size[b] - 1 \subseteq Index
        BY <1>1, <3>1, <3>2
      <4>2. {elem'[<<b, j>>] : j \in 0 .. size'[b] - 1} = {elem[<<b, j>>] : j \in 0 .. size[b] - 1}
        BY <4>1
      <4>3. /\ {keyOf'[<<b, n>>] : n \in Names} = {keyOf[<<b, n>>] : n \in Names}
            /\ {value'[<<b, n>>] : n \in Names} = {value[<<b, n>>] : n \in Names}
        BY <4>1
      <4> QED
        BY <4>2, <4>3 DEF Contents
    <3> QED
      BY <3>2
  <2>5. \A b \in Owned \cap Blocks : kind[b] # "dying"
    BY VisibleLive DEF CallInv, IInv, Visible, Live
  <2>6. a \in Visible'
    BY <1>1, <2>1, <2>4, <2>5 DEF Visible, Owned
  <2>7. kind'[a] \in Live
    <3>1. VisibleAlive'
      BY VisibleLiveNext DEF IInv
    <3> QED
      BY <2>6, <3>1 DEF VisibleAlive
  <2>8. kind'[a] = "array" /\ size'[a] = size[a] /\ elem'[<<a, i>>] = None
    BY <1>1, <2>1, <2>7 DEF Live
  <2> QED
    BY <1>1, <2>1, <2>3, <2>6, <2>8 DEF SlotWaits
<1> QED
  BY <1>2, <1>3, ConstsDiffer DEF CallInv, SlotWaits, Values

(* The rest of jarray_put_unsafe.                                          *)
LEMMA StoreStep ==
  ASSUME CallInv, Store
  PROVE  CallInv'
<1>1. PICK a \in Blocks, i \in Index, v \in Values :
             /\ slot = <<a, i>> /\ dropped["new"] = v
             /\ kind[a] = "array" /\ i < size[a]
             /\ elem[<<a, i>>] = None
             /\ InsertSane(a, v)
  BY DEF CallInv, SlotWaits, Store
<1> DEFINE p == <<a, i>>
<1>2. /\ elem' = [elem EXCEPT ![p] = v]
      /\ UNCHANGED <<kind, refCnt, text, size, keyOf, value, handle, lost>>
      /\ slot' = None /\ dropped' = [k \in Locals |-> None]
      /\ Released
  BY <1>1 DEF Store, Drop, DropFor
<1>3. p \in Cells /\ v \in Refs /\ None \in Refs
  BY DEF Cells, Refs
<1>4. Update(elem, elem', Cells, p, v) /\ elem' \in [Cells -> Refs]
  BY <1>2, <1>3 DEF CallInv, IInv, TypeOK, Update, Refs
<1>5. "new" \in Locals /\ Update(dropped, dropped', Locals, "new", None)
  BY <1>2 DEF CallInv, IInv, TypeOK, Update, Locals, Released
<1>6. TypeOK'
  BY <1>2, <1>4 DEF CallInv, IInv, TypeOK, Refs
<1>7. CountsExact'
  <2>1. ASSUME NEW b \in Blocks
        PROVE  Change(b) = 0
    <3>1. /\ Count(elem', Cells, b) = Count(elem, Cells, b) - 0 + One(v, b)
          /\ Count(dropped', Locals, b) = Count(dropped, Locals, b) - One(v, b) + 0
      BY <1>1, <1>4, <1>5, PlacesFinite, CountUpdate, OneConst
    <3>2. GainElem(b) = One(v, b) /\ GainDropped(b) = 0 - One(v, b)
      BY <3>1, OneNat, CountsNat DEF GainElem, GainDropped, CallInv, IInv
    <3> QED
      BY <1>2, <3>2, Gains, OneNat DEF Change, CallInv, IInv
  <2> QED
    BY <1>2, <2>1, CountsKept DEF CallInv, IInv
<1>8. \A d \in Blocks, j \in Index :
        elem'[<<d, j>>] = elem[<<d, j>>] \/ (d = a /\ j = i /\ elem'[<<d, j>>] = v)
  BY <1>2, <1>3 DEF CallInv, IInv, TypeOK, Cells
<1>9. Acyclic'
  BY <1>1, <1>2, <1>6, <1>8, NewElem DEF CallInv, IInv
<1>10. WellFormed'
  BY <1>1, <1>2, <1>8 DEF CallInv, IInv, WellFormed, Spells, Is
<1>11. SlotWaits'
  BY <1>2 DEF SlotWaits, Locals
<1> QED
  BY <1>6, <1>7, <1>9, <1>10, <1>11 DEF CallInv, IInv

(* What jarray_put_unsafe does in two steps is covered by SlotWaits.       *)
THEOREM Inductive == CallInv /\ [Next]_vars => CallInv'
<1> SUFFICES ASSUME CallInv, [Next]_vars
             PROVE  CallInv'
  OBVIOUS
<1>1. CASE HandleCall \/ ObjectCall \/ ArrayCall
  BY <1>1, CallsKeep, CallsWait DEF CallInv
<1>2. CASE Releasing
  BY <1>2, CallsKeep, ReleasingWaits DEF CallInv
<1>3. CASE Store
  BY <1>3, StoreStep
<1>4. CASE UNCHANGED vars
  <2>1. /\ Visible' = Visible
        /\ \A a \in Blocks, v \in Values : InsertSane(a, v) => InsertSane(a, v)'
    BY <1>4 DEF vars, Visible, Owned, Contents, InsertSane, Closed
  <2>2. SlotWaits'
    BY <1>4, <2>1 DEF vars, CallInv, SlotWaits
  <2> QED
    BY <1>4, <2>2, CallsKeep DEF CallInv
<1> QED
  BY <1>1, <1>2, <1>3, <1>4 DEF Next

LEMMA Invariance == Spec => []CallInv
<1>1. Init => CallInv
  BY Initially DEF CallInv, SlotWaits, Init, Locals
<1> QED
  BY <1>1, Inductive, PTL DEF Spec

(* The type invariant.                                                     *)
THEOREM TypeCorrect == Spec => []TypeOK
<1>1. CallInv => TypeOK
  BY DEF CallInv, IInv
<1> QED
  BY <1>1, Invariance, PTL

(* m_refCnt always equals the number of references to the value, and what  *)
(* has none left is not alive.                                             *)
THEOREM ExactCounts == Spec => []CountsExact
<1>1. CallInv => CountsExact
  BY DEF CallInv, IInv
<1> QED
  BY <1>1, Invariance, PTL

(* check_insert_sanity keeps every container out of itself.                *)
THEOREM NoCycles == Spec => []Acyclic
<1>1. CallInv => Acyclic
  BY DEF CallInv, IInv
<1> QED
  BY <1>1, Invariance, PTL

(* The destructors of jobject.c find everything a container owns, and no   *)
(* member has a key of another name.                                       *)
THEOREM ContainersFormed == Spec => []WellFormed
<1>1. CallInv => WellFormed
  BY DEF CallInv, IInv
<1> QED
  BY <1>1, Invariance, PTL

(* Reference counting leaks nothing but what a refused call has lost: the  *)
(* blocks outside a closed set that contains the client's references would *)
(* have one that no other of them contains, hence without references.      *)
THEOREM NoLeak == Spec => []NothingUnreachable
<1>1. IInv => NothingUnreachable
  <2> SUFFICES ASSUME IInv, Quiet, NEW S \in SUBSET Blocks, Closed(S),
                      \A h \in Handles : handle[h] \in Blocks => handle[h] \in S,
                      \A l \in Lost : lost[l] \in Blocks => lost[l] \in S,
                      NEW b \in Blocks, kind[b] # "free", b \notin S
               PROVE  FALSE
    BY DEF NothingUnreachable
  <2> DEFINE U == {c \in Blocks \ S : kind[c] # "free"}
  <2>1. PICK c \in U : \A d \in U : c \notin Contents(d)
    BY DEF IInv, Acyclic
  <2>2. kind[c] \in Live
    BY DEF IInv, TypeOK, Quiet, Released
  <2>3. ~Unreferenced(c)
    BY <2>2, Referenced DEF IInv, LiveRefs
  <2>4. /\ \A h \in Handles : handle[h] # c
        /\ \A l \in Lost : lost[l] # c
        /\ \A k \in Locals : dropped[k] # c
    BY ConstsDiffer DEF Quiet, Released, Locals
  <2>5. PICK d \in Blocks : Holds(d, c)
    BY <2>3, <2>4 DEF Unreferenced, Holds, Cells, Members
  <2>6. c \in Contents(d)
    BY <2>5, HeldContents DEF IInv
  <2>7. d \notin S
    BY <2>6 DEF Closed
  <2>8. kind[d] # "free"
    BY <2>6, LeafEmpty DEF IInv
  <2> QED
    BY <2>1, <2>6, <2>7, <2>8
<1>2. CallInv => IInv
  BY DEF CallInv
<1> QED
  BY <1>1, <1>2, Invariance, PTL
=============================================================================
