-------------------------- MODULE DomBuilderProofs ---------------------------
(***************************************************************************)
(* Theorems about DomBuilder, for every nesting of containers, every       *)
(* finite set of blocks and keys, and every moment the client gives up.    *)
(*                                                                         *)
(* The argument.  Every reference of the parser is in exactly one of its   *)
(* variables (Slots), so that whatever clean-up finds there is all there   *)
(* is.  The containers of the records are alive as long as the records     *)
(* refer to them, and each was put into the one below when it was empty,   *)
(* so no insertion is ever refused (FreshSane).  The stack of records      *)
(* follows the stack of yajl (Grammar), so every callback finds what it    *)
(* expects.  Each step is a call that JValueGraph models, so all its       *)
(* theorems apply.                                                         *)
(***************************************************************************)
EXTENDS DomBuilder, JValueGraphProofs, SequenceTheorems

(* The variables of the parser that own references.                        *)
Vars == -2 .. MaxDepth
At(v) == IF v = -2 THEN fresh ELSE IF v = -1 THEN copied ELSE mValue[v]

(* Every reference belongs to one variable or is a result of the client.   *)
Slots ==
  /\ \A v \in Vars : At(v) # None => handle[At(v)] # None /\ At(v) \notin results
  /\ \A v, w \in Vars : At(v) # None /\ At(v) = At(w) => v = w
  /\ \A h \in results : handle[h] # None
  /\ \A h \in Handles : handle[h] # None => h \in results \/ \E v \in Vars : At(v) = h

(* The records up to m fill containers, each inside the one below.         *)
Filled(m) ==
  /\ \A d \in 0 .. m - 1 :
       mValue[d] # None /\ Held(d) \in Blocks /\ kind[Held(d)] \in {"object", "array"}
  /\ \A d, e \in 0 .. m - 1 : Held(d) = Held(e) => d = e
  /\ \A d \in 1 .. m - 1 : Held(d) \in Contents(Held(d - 1))

(* Records above the innermost do not exist.                               *)
Frames == Filled(Depth) /\ \A d \in Levels : d > Depth => mValue[d] = None

Room(d) == InArray(d) \/ UnderKey(d)

(* What the running callback has in its locals.                            *)
Phase ==
  /\ pc = "none" => context = 0 /\ mValue[0] = None
  /\ pc \in {"none", "feed", "cleanup"} => fresh = None
  /\ pc # "attach" => copied = None
  /\ pc = "place" =>
       /\ fresh # None
       /\ Is(handle[fresh], "string") \/ handle[fresh] = Const
       /\ (AtTop /\ status = "complete") \/ Room(context)
  /\ pc \in {"copy", "attach"} =>
       /\ context > 1 /\ Room(context - 1)
       /\ fresh # None /\ handle[fresh] \in Blocks
       /\ kind[handle[fresh]] = (IF yajl[context] = "array" THEN "array" ELSE "object")
       /\ Contents(handle[fresh]) = {}
       /\ \A d \in 0 .. context - 2 : handle[fresh] # Held(d)
  /\ pc = "attach" => copied # None /\ handle[copied] = handle[fresh]

(* The records and yajl agree.                                             *)
Grammar ==
  pc \notin {"none", "cleanup"} =>
    /\ Len(yajl) = context
    /\ \A i \in 1 .. Depth : kind[Held(i - 1)] = "array" <=> yajl[i] = "array"
    /\ \A i \in 1 .. context : yajl[i] = "value" => pc = "feed" /\ i = context
    /\ pc = "feed" /\ context > 0 => (yajl[context] = "value" <=> mValue[context] # None)
    /\ pc = "feed" /\ context > 0 /\ mValue[context] # None => UnderKey(context)
    /\ pc = "feed" /\ context = 0 /\ status = "reading" => mValue[0] = None

Kept == status # "improper" /\ \A l \in Lost : lost[l] = None

DomInv == DomTypeOK /\ Slots /\ Frames /\ Phase /\ Grammar /\ Kept

-----------------------------------------------------------------------------
(* What calls of the API do to the values that the parser holds.           *)

(* The calls and the releases that follow.  A parser never waits to store  *)
(* an element: those it appends find their slot empty.                     *)
Call == HandleCall \/ ObjectCall \/ ArrayCall \/ Releasing

(* A block keeps its kind and its text as long as it lives.                *)
LEMMA KindKept ==
  ASSUME IInv, [Call]_vars, NEW b \in Blocks, kind[b] \in Live, kind'[b] \in Live
  PROVE  kind'[b] = kind[b] /\ text'[b] = text[b]
<1>0. TypeOK /\ kind[b] # "free" /\ kind'[b] # "dying" /\ kind'[b] # "free"
  BY DEF IInv, Live
<1>1. CASE HandleCall
  <2>1. ASSUME NEW h \in Handles, NEW c \in Blocks, NEW k, NEW n, Create(h, c, k, n)
        PROVE  kind'[b] = kind[b] /\ text'[b] = text[b]
    BY <1>0, <2>1 DEF Create, Alloc, TypeOK
  <2>2. CASE \E h \in Handles : TakeConst(h) \/ Release(h)
    BY <2>2 DEF TakeConst, Release, containers
  <2>3. CASE \E v \in Values, h \in Handles : Copy(v, h) \/ LookupKey(v, h)
    BY <2>3 DEF Copy, LookupKey, Share, containers
  <2> QED
    BY <1>1, <2>1, <2>2, <2>3 DEF HandleCall, CreateString, CreateObject, CreateArray
<1>2. CASE ObjectCall
  <2>1. ASSUME NEW o, NEW c \in Blocks, NEW n \in Names, NEW v, ObjectSet(o, n, v, c)
        PROVE  kind'[b] = kind[b] /\ text'[b] = text[b]
    BY <1>0, <2>1 DEF ObjectSet, Alloc, TypeOK
  <2> QED
    BY <1>2, <2>1 DEF ObjectCall, ObjectPut, ObjectSet2, ObjectRemove
<1>3. CASE ArrayCall
  BY <1>3 DEF ArrayCall, ArrayPut, ArraySet, ArrayAppend, ArrayInsert, ArrayRemove
<1>4. CASE Releasing
  <2>1. ASSUME NEW v, Unref(v)
        PROVE  kind'[b] = kind[b]
    BY <1>0, <2>1 DEF Unref
  <2>2. ASSUME NEW d \in Blocks, Free(d)
        PROVE  kind'[b] = kind[b] /\ text'[b] = text[b]
    BY <1>0, <2>2 DEF Free, TypeOK
  <2> QED
    BY <1>4, <2>1, <2>2 DEF Releasing, ReleaseLocal, ReleaseElem, ReleaseKey, ReleaseValue, containers
<1>5. CASE UNCHANGED vars
  BY <1>5 DEF vars
<1> QED
  BY <1>1, <1>2, <1>3, <1>4, <1>5 DEF Call

LEMMA HandleLive ==
  ASSUME IInv, NEW h \in Handles, handle[h] \in Blocks
  PROVE  kind[handle[h]] \in Live
BY Referenced DEF IInv, LiveRefs, Unreferenced

HandlesLive == \A h \in Handles : handle[h] \in Blocks => kind[handle[h]] \in Live

LEMMA HandlesLiveNow == IInv => HandlesLive
BY HandleLive DEF HandlesLive

LEMMA HandlesLiveNext == IInv' => HandlesLive'
BY HandlesLiveNow, PTL

(* What a handle holds on to stays what it is.                             *)
LEMMA HandleKept ==
  ASSUME IInv, IInv', [Call]_vars,
         NEW h \in Handles, handle[h] \in Blocks, handle'[h] = handle[h]
  PROVE  /\ kind[handle[h]] \in Live /\ kind'[handle[h]] = kind[handle[h]]
         /\ text'[handle[h]] = text[handle[h]]
<1>1. kind[handle[h]] \in Live
  BY HandleLive
<1>2. kind'[handle[h]] \in Live
  BY HandlesLiveNext DEF HandlesLive
<1> QED
  BY <1>1, <1>2, KindKept

(* Contents of blocks.                                                     *)
LEMMA ContentsSame ==
  ASSUME UNCHANGED <<size, elem, keyOf, value>>, NEW b
  PROVE  Contents(b)' = Contents(b)
BY DEF Contents

LEMMA FreeEmpty ==
  ASSUME IInv, NEW b \in Blocks, kind[b] = "free"
  PROVE  Contents(b) = {}
<1>1. size[b] = 0
  BY DEF IInv, WellFormed, TypeOK
<1>2. \A n \in Names : keyOf[<<b, n>>] = None /\ value[<<b, n>>] = None
  BY DEF IInv, WellFormed
<1>3. \A i : i \notin 0 .. size[b] - 1
  BY <1>1
<1> QED
  BY <1>2, <1>3 DEF Contents

LEMMA ReleasingContents ==
  ASSUME IInv, Releasing, NEW b \in Blocks, kind[b] \in Live
  PROVE  Contents(b)' = Contents(b)
<1>0. TypeOK /\ kind[b] # "dying"
  BY DEF IInv, Live
<1>1. ASSUME NEW d \in Blocks, ReleaseElem(d)
      PROVE  Contents(b)' = Contents(b)
  <2>1. d # b /\ size'[b] = size[b] /\ UNCHANGED <<keyOf, value>>
    BY <1>0, <1>1 DEF ReleaseElem, TypeOK
  <2>2. \A i : elem'[<<b, i>>] = elem[<<b, i>>] \/ <<b, i>> \notin Cells
    BY <1>0, <1>1, <2>1 DEF ReleaseElem, TypeOK
  <2>3. \A i \in 0 .. size[b] - 1 : <<b, i>> \in Cells
    BY <1>0, MaxSizeAssumption DEF TypeOK, Cells, Index
  <2> QED
    BY <2>1, <2>2, <2>3 DEF Contents
<1>2. ASSUME NEW d \in Blocks, NEW n \in Names, ReleaseKey(d, n)
      PROVE  Contents(b)' = Contents(b)
  <2>1. d # b /\ UNCHANGED <<size, elem, value>>
    BY <1>0, <1>2 DEF ReleaseKey
  <2>2. \A m \in Names : keyOf'[<<b, m>>] = keyOf[<<b, m>>]
    BY <1>0, <1>2, <2>1 DEF ReleaseKey, TypeOK, Members
  <2> QED
    BY <2>1, <2>2 DEF Contents
<1>3. ASSUME NEW d \in Blocks, NEW n \in Names, ReleaseValue(d, n)
      PROVE  Contents(b)' = Contents(b)
  <2>1. d # b /\ UNCHANGED <<size, elem, keyOf>>
    BY <1>0, <1>3 DEF ReleaseValue
  <2>2. \A m \in Names : value'[<<b, m>>] = value[<<b, m>>]
    BY <1>0, <1>3, <2>1 DEF ReleaseValue, TypeOK, Members
  <2> QED
    BY <2>1, <2>2 DEF Contents
<1>4. CASE \E k \in Locals : ReleaseLocal(k)
  BY <1>4, ContentsSame DEF ReleaseLocal, containers
<1>5. CASE \E d \in Blocks : Free(d)
  BY <1>5, ContentsSame DEF Free
<1> QED
  BY <1>1, <1>2, <1>3, <1>4, <1>5 DEF Releasing

(* An empty value goes into any container but itself.                      *)
LEMMA FreshSane ==
  ASSUME NEW p, NEW v, v # p, v \in Blocks => Contents(v) = {}
  PROVE  InsertSane(p, v)
<1> SUFFICES ASSUME v \in Blocks
             PROVE  \E S \in SUBSET Blocks : v \in S /\ p \notin S /\ Closed(S)
  BY DEF InsertSane
<1>1. Closed({v})
  BY DEF Closed
<1> QED
  BY <1>1

(* jarray_append of such a value.                                          *)
LEMMA AppendEffect ==
  ASSUME IInv, NEW a \in Blocks, NEW v \in Handles, ArrayAppend(a, v),
         kind[a] = "array", InsertSane(a, handle[v])
  PROVE  /\ Quiet
         /\ handle[v] # None /\ handle' = [handle EXCEPT ![v] = None]
         /\ UNCHANGED <<lost, kind, text>>
         /\ handle[v] \in Contents(a)'
         /\ \A b \in Blocks \ {a} : Contents(b)' = Contents(b)
<1>0. TypeOK
  BY DEF IInv
<1>1. /\ Quiet /\ handle[v] # None /\ handle' = [handle EXCEPT ![v] = None]
      /\ size[a] < MaxSize /\ PutElem(a, size[a], handle[v])
      /\ UNCHANGED <<lost, kind, text, keyOf, value>>
  BY DEF ArrayAppend, Is
<1>2. size[a] \in 0 .. MaxSize /\ <<a, size[a]>> \in Cells
  BY <1>0, <1>1, MaxSizeAssumption DEF TypeOK, Cells, Index
<1>3. elem[<<a, size[a]>>] = None
  <2>1. size[a] \in Index /\ ~(size[a] < size[a])
    BY <1>1, <1>2, MaxSizeAssumption DEF Index
  <2> QED
    BY <2>1 DEF IInv, WellFormed
<1>4. /\ elem' = [elem EXCEPT ![<<a, size[a]>>] = handle[v]]
      /\ size' = [size EXCEPT ![a] = size[a] + 1]
  <2>1. size[a] >= size[a]
    BY <1>2
  <2> QED
    BY <1>1, <1>3, <2>1 DEF PutElem
<1>5. handle[v] \in Contents(a)'
  <2>1. elem'[<<a, size[a]>>] = handle[v] /\ size'[a] = size[a] + 1
    BY <1>0, <1>2, <1>4 DEF TypeOK
  <2>2. size[a] \in 0 .. size'[a] - 1
    BY <1>2, <2>1
  <2> QED
    BY <1>1, <2>1, <2>2 DEF Contents
<1>6. ASSUME NEW b \in Blocks \ {a}
      PROVE  Contents(b)' = Contents(b)
  <2>1. size'[b] = size[b]
    BY <1>0, <1>4 DEF TypeOK
  <2>2. \A i \in 0 .. size[b] - 1 : elem'[<<b, i>>] = elem[<<b, i>>]
    <3>1. \A i \in 0 .. size[b] - 1 : <<b, i>> \in Cells /\ <<b, i>> # <<a, size[a]>>
      BY <1>0, MaxSizeAssumption DEF TypeOK, Cells, Index
    <3> QED
      BY <1>0, <1>4, <3>1 DEF TypeOK
  <2> QED
    BY <1>1, <2>1, <2>2 DEF Contents
<1> QED
  BY <1>1, <1>5, <1>6

(* jobject_put of such a value.                                            *)
LEMMA PutEffect ==
  ASSUME IInv, NEW o \in Blocks, NEW k \in Handles, NEW v \in Handles, ObjectPut(o, k, v),
         kind[o] = "object", Is(handle[k], "string"), InsertSane(o, handle[v])
  PROVE  /\ Quiet
         /\ k # v /\ handle[k] # None /\ handle[v] # None
         /\ handle' = [handle EXCEPT ![k] = None, ![v] = None]
         /\ UNCHANGED <<lost, kind, text>>
         /\ handle[v] \in Contents(o)'
         /\ \A b \in Blocks \ {o} : Contents(b)' = Contents(b)
<1> DEFINE n == text[handle[k]]
<1>0. TypeOK /\ n \in Names
  BY DEF IInv, WellFormed, Is
<1>1. /\ Quiet /\ k # v /\ handle[k] # None /\ handle[v] # None
      /\ handle' = [handle EXCEPT ![k] = None, ![v] = None]
      /\ PutMember(o, n, handle[k], handle[v])
      /\ UNCHANGED <<lost, kind, text, size, elem>>
  BY ConstsDiffer DEF ObjectPut, Spells, Is
<1>2. /\ keyOf' = [keyOf EXCEPT ![<<o, n>>] = handle[k]]
      /\ value' = [value EXCEPT ![<<o, n>>] = handle[v]]
  BY <1>1 DEF PutMember, Replace, Is
<1> HIDE DEF n
<1>3. handle[v] \in Contents(o)'
  <2>1. value'[<<o, n>>] = handle[v]
    BY <1>0, <1>2 DEF TypeOK, Members
  <2> QED
    BY <1>0, <1>1, <2>1 DEF Contents
<1>4. ASSUME NEW b \in Blocks \ {o}
      PROVE  Contents(b)' = Contents(b)
  <2>1. \A m \in Names : keyOf'[<<b, m>>] = keyOf[<<b, m>>] /\ value'[<<b, m>>] = value[<<b, m>>]
    BY <1>0, <1>2 DEF TypeOK, Members
  <2> QED
    BY <1>1, <2>1 DEF Contents
<1> QED
  BY <1>1, <1>3, <1>4

-----------------------------------------------------------------------------
(* The parts of the invariant.                                             *)

LEMMA DepthRange ==
  ASSUME DomTypeOK, Phase
  PROVE  /\ Depth \in Nat /\ Depth <= context /\ context <= MaxDepth
         /\ pc \notin {"copy", "attach"} => Depth = context
         /\ pc \in {"copy", "attach"} => Depth = context - 1 /\ Depth > 0
BY DomAssumption DEF DomTypeOK, Phase, Depth, Levels

LEMMA ValuesHeld ==
  ASSUME DomTypeOK, NEW d \in Levels, mValue[d] # None
  PROVE  mValue[d] \in Handles
BY DEF DomTypeOK

LEMMA HeldContentsNext ==
  ASSUME NEW d, NEW b, Held(d)' = b
  PROVE  Contents(Held(d))' = Contents(b)'
BY DEF Held, Contents

(* Containers that keep their reference stay, with what does not change of *)
(* their contents.                                                         *)
Unmoved(m) ==
  /\ \A d \in 0 .. m - 1 : mValue'[d] = mValue[d] /\ handle'[mValue[d]] = handle[mValue[d]]
  /\ \A d \in 0 .. m - 2 : \A b \in Blocks : b = Held(d) => Contents(b)' = Contents(b)

LEMMA KeepLevel ==
  ASSUME IInv, IInv', [Call]_vars, DomTypeOK,
         NEW n \in Nat, n <= MaxDepth + 1, Filled(n),
         NEW m \in Nat, m <= n, Unmoved(m),
         NEW d \in 0 .. m - 1
  PROVE  /\ d \in Levels /\ mValue[d] \in Handles /\ mValue'[d] = mValue[d]
         /\ mValue[d] # None
         /\ Held(d) \in Blocks /\ kind[Held(d)] \in {"object", "array"}
         /\ Held(d)' = Held(d) /\ kind'[Held(d)] = kind[Held(d)]
<1>1. d \in Levels /\ d \in 0 .. n - 1
  BY DomAssumption DEF Levels
<1>2. mValue[d] # None /\ Held(d) \in Blocks /\ kind[Held(d)] \in {"object", "array"}
  BY <1>1 DEF Filled
<1>3. mValue[d] \in Handles
  BY <1>1, <1>2, ValuesHeld
<1>4. mValue'[d] = mValue[d] /\ handle'[mValue[d]] = handle[mValue[d]]
  BY DEF Unmoved
<1>5. Held(d)' = Held(d)
  BY <1>4 DEF Held
<1>6. kind'[Held(d)] = kind[Held(d)]
  BY <1>2, <1>3, <1>4, HandleKept DEF Held
<1> QED
  BY <1>1, <1>2, <1>3, <1>4, <1>5, <1>6

LEMMA KeepFilled ==
  ASSUME IInv, IInv', [Call]_vars, DomTypeOK,
         NEW n \in Nat, n <= MaxDepth + 1, Filled(n),
         NEW m \in Nat, m <= n, Unmoved(m)
  PROVE  Filled(m)'
<1>1. ASSUME NEW d \in 0 .. m - 1
      PROVE  /\ d \in 0 .. n - 1
             /\ mValue'[d] = mValue[d] /\ mValue[d] # None
             /\ Held(d) \in Blocks /\ kind[Held(d)] \in {"object", "array"}
             /\ Held(d)' = Held(d) /\ kind'[Held(d)] = kind[Held(d)]
  BY KeepLevel
<1>2. ASSUME NEW d \in 0 .. m - 1
      PROVE  mValue'[d] # None /\ Held(d)' \in Blocks /\ kind'[Held(d)'] \in {"object", "array"}
  BY <1>1
<1>3. ASSUME NEW d \in 0 .. m - 1, NEW e \in 0 .. m - 1, Held(d)' = Held(e)'
      PROVE  d = e
  <2>1. Held(d) = Held(e) /\ d \in 0 .. n - 1 /\ e \in 0 .. n - 1
    BY <1>1, <1>3
  <2> QED
    BY <2>1 DEF Filled
<1>4. ASSUME NEW d \in 1 .. m - 1
      PROVE  Held(d)' \in Contents(Held(d - 1))'
  <2>1. d \in 0 .. m - 1 /\ d - 1 \in 0 .. m - 1 /\ d - 1 \in 0 .. m - 2 /\ d \in 1 .. n - 1
    BY m \in Nat, n \in Nat, m <= n
  <2>2. Held(d)' = Held(d) /\ Held(d - 1)' = Held(d - 1) /\ Held(d - 1) \in Blocks
    BY <1>1, <2>1
  <2>3. Held(d) \in Contents(Held(d - 1))
    BY <2>1 DEF Filled
  <2>4. PICK b \in Blocks : b = Held(d - 1)
    BY <2>2
  <2>5. Contents(b)' = Contents(b)
    BY <2>1, <2>4 DEF Unmoved
  <2>6. Contents(Held(d - 1))' = Contents(b)'
    BY <2>2, <2>4, HeldContentsNext
  <2> QED
    BY <2>2, <2>3, <2>4, <2>5, <2>6
<1> QED
  BY <1>2, <1>3, <1>4 DEF Filled


(* References move between the handles and variables.                      *)
LEMMA SlotsTake ==
  ASSUME TypeOK, DomTypeOK, Slots, NEW v \in Vars, NEW h \in Handles, NEW x, x # None,
         handle[h] = None, handle' = [handle EXCEPT ![h] = x],
         At(v) = None, At(v)' = h, \A w \in Vars \ {v} : At(w)' = At(w),
         results' = results
  PROVE  Slots'
<1>1. h # None /\ \A g \in Handles : handle'[g] = IF g = h THEN x ELSE handle[g]
  BY DomAssumption DEF TypeOK
<1>2. h \notin results /\ results \subseteq Handles /\ \A w \in Vars : At(w) # h
  BY <1>1 DEF Slots, DomTypeOK
<1>3. \A w \in Vars : At(w) \in Handles \cup {None}
  BY DEF DomTypeOK, At, Vars, Levels
<1>4. ASSUME NEW w \in Vars, At(w)' # None
      PROVE  handle'[At(w)'] # None /\ At(w)' \notin results
  BY <1>1, <1>2, <1>3, <1>4 DEF Slots
<1>5. ASSUME NEW w \in Vars, NEW u \in Vars, At(w)' # None, At(w)' = At(u)'
      PROVE  w = u
  BY <1>1, <1>2, <1>5 DEF Slots
<1>6. \A g \in results : handle'[g] # None
  BY <1>1, <1>2 DEF Slots
<1>7. ASSUME NEW g \in Handles, handle'[g] # None
      PROVE  g \in results \/ \E w \in Vars : At(w)' = g
  <2>1. CASE g # h /\ g \notin results
    <3>1. handle[g] # None
      BY <1>1, <1>7, <2>1
    <3>2. PICK w \in Vars : At(w) = g
      BY <2>1, <3>1 DEF Slots
    <3>3. w # v
      BY <1>2, <3>2, DomAssumption
    <3> QED
      BY <3>2, <3>3
  <2> QED
    BY <2>1
<1> QED
  BY <1>4, <1>5, <1>6, <1>7 DEF Slots

LEMMA SlotsFree ==
  ASSUME TypeOK, DomTypeOK, Slots, NEW F \in SUBSET Vars,
         \A v \in F : At(v)' = None, \A v \in Vars \ F : At(v)' = At(v),
         \A h \in Handles : handle'[h] = IF \E v \in F : At(v) = h THEN None ELSE handle[h],
         results' = results
  PROVE  Slots'
<1>1. \A w \in Vars : At(w) \in Handles \cup {None}
  BY DEF DomTypeOK, At, Vars, Levels
<1>2. results \subseteq Handles
  BY DEF DomTypeOK
<1>3. ASSUME NEW w \in Vars, At(w)' # None
      PROVE  handle'[At(w)'] # None /\ At(w)' \notin results
  <2>1. w \in Vars \ F /\ At(w)' = At(w) /\ At(w) \in Handles
    BY <1>1, <1>3
  <2>2. ~\E v \in F : At(v) = At(w)
    BY <1>3, <2>1 DEF Slots
  <2> QED
    BY <1>3, <2>1, <2>2 DEF Slots
<1>4. ASSUME NEW w \in Vars, NEW u \in Vars, At(w)' # None, At(w)' = At(u)'
      PROVE  w = u
  BY <1>4 DEF Slots
<1>5. ASSUME NEW g \in results
      PROVE  handle'[g] # None
  <2>1. ~\E v \in F : At(v) = g
    BY <1>1, <1>2, DomAssumption DEF Slots
  <2> QED
    BY <1>2, <2>1 DEF Slots
<1>6. ASSUME NEW g \in Handles, handle'[g] # None
      PROVE  g \in results \/ \E w \in Vars : At(w)' = g
  <2>1. handle[g] # None /\ ~\E v \in F : At(v) = g
    BY <1>6
  <2>2. CASE g \notin results
    <3>1. PICK v \in Vars : At(v) = g
      BY <2>1, <2>2 DEF Slots
    <3>2. v \notin F
      BY <2>1, <3>1
    <3> QED
      BY <3>1, <3>2
  <2> QED
    BY <2>2
<1> QED
  BY <1>3, <1>4, <1>5, <1>6 DEF Slots

(* One reference moves from p to q while others go.                        *)
LEMMA SlotsMove ==
  ASSUME TypeOK, DomTypeOK, Slots, NEW F \in SUBSET Vars,
         NEW p \in Vars \ F, NEW q \in Vars \ {p}, q \in F \/ At(q) = None,
         At(p)' = None, At(q)' = At(p),
         \A v \in F \ {q} : At(v)' = None, \A v \in Vars \ (F \cup {p, q}) : At(v)' = At(v),
         \A h \in Handles : handle'[h] = IF \E v \in F : At(v) = h THEN None ELSE handle[h],
         results' = results
  PROVE  Slots'
<1>1. \A w \in Vars : At(w) \in Handles \cup {None}
  BY DEF DomTypeOK, At, Vars, Levels
<1>2. results \subseteq Handles
  BY DEF DomTypeOK
<1> DEFINE from(w) == IF w = q THEN p ELSE w
<1>3. ASSUME NEW w \in Vars, At(w)' # None
      PROVE  from(w) \in Vars \ F /\ At(w)' = At(from(w)) /\ (w # q => w # p)
  <2>1. CASE w = q
    BY <2>1
  <2>2. CASE w # q
    <3>1. w # p /\ w \notin F
      BY <1>3, <2>2
    <3> QED
      BY <2>2, <3>1
  <2> QED
    BY <2>1, <2>2
<1> HIDE DEF from
<1>4. ASSUME NEW w \in Vars, At(w)' # None
      PROVE  handle'[At(w)'] # None /\ At(w)' \notin results
  <2>1. PICK u \in Vars \ F : At(w)' = At(u) /\ At(u) # None
    BY <1>3, <1>4
  <2>2. ~\E v \in F : At(v) = At(u)
    BY <2>1 DEF Slots
  <2> QED
    BY <1>1, <2>1, <2>2 DEF Slots
<1>5. ASSUME NEW w \in Vars, NEW u \in Vars, At(w)' # None, At(w)' = At(u)'
      PROVE  w = u
  <2>1. /\ from(w) \in Vars /\ At(w)' = At(from(w)) /\ (w # q => w # p)
        /\ from(u) \in Vars /\ At(u)' = At(from(u)) /\ (u # q => u # p)
    BY <1>3, <1>5
  <2>2. from(w) = from(u)
    <3>1. PICK a \in Vars : a = from(w)
      BY <2>1
    <3>2. PICK b \in Vars : b = from(u)
      BY <2>1
    <3>3. At(a) # None /\ At(a) = At(b)
      BY <1>5, <2>1, <3>1, <3>2
    <3>4. a = b
      BY <3>3 DEF Slots
    <3> QED
      BY <3>1, <3>2, <3>4
  <2> QED
    BY <2>1, <2>2 DEF from
<1>6. ASSUME NEW g \in results
      PROVE  handle'[g] # None
  <2>1. ~\E v \in F : At(v) = g
    BY <1>1, <1>2, DomAssumption DEF Slots
  <2> QED
    BY <1>2, <2>1 DEF Slots
<1>7. ASSUME NEW g \in Handles, handle'[g] # None
      PROVE  g \in results \/ \E w \in Vars : At(w)' = g
  <2>1. handle[g] # None /\ ~\E v \in F : At(v) = g
    BY <1>7
  <2>2. CASE g \in results
    BY <2>2
  <2>3. CASE g \notin results
    <3>1. PICK v \in Vars : At(v) = g
      BY <2>1, <2>3 DEF Slots
    <3>2. v \notin F /\ g # None
      BY <2>1, <3>1, DomAssumption
    <3>3. v # q
      BY <3>1, <3>2
    <3> QED
      BY <3>1, <3>2, <3>3
  <2> QED
    BY <2>2, <2>3
<1> QED
  BY <1>4, <1>5, <1>6, <1>7 DEF Slots

(* The stack of yajl.                                                      *)
Entries == {"key", "value", "array"}

LEMMA AppendEntries ==
  ASSUME NEW s \in Seq(Entries), NEW e \in Entries
  PROVE  /\ Append(s, e) \in Seq(Entries) /\ Len(Append(s, e)) = Len(s) + 1
         /\ Len(s) \in Nat
         /\ \A i \in 1 .. Len(s) : Append(s, e)[i] = s[i]
         /\ Append(s, e)[Len(s) + 1] = e
BY AppendProperties, LenProperties

LEMMA FrontEntries ==
  ASSUME NEW s \in Seq(Entries), s # <<>>
  PROVE  /\ Len(s) \in Nat /\ Len(s) > 0
         /\ Front(s) \in Seq(Entries) /\ Len(Front(s)) = Len(s) - 1
         /\ \A i \in 1 .. Len(s) - 1 : Front(s)[i] = s[i]
         /\ Front(s) = <<>> <=> Len(s) = 1
<1>1. Len(s) \in Nat /\ Len(s) > 0 /\ \A i \in 1 .. Len(s) : s[i] \in Entries
  BY LenProperties
<1>2. Len(s) - 1 \in Int /\ 1 \in Int /\ \A i \in 1 .. Len(s) - 1 : s[i] \in Entries
  BY <1>1
<1>3. /\ Front(s) \in Seq(Entries)
      /\ Len(Front(s)) = IF 1 <= Len(s) - 1 THEN Len(s) - 1 - 1 + 1 ELSE 0
      /\ \A i \in 1 .. Len(s) - 1 - 1 + 1 : Front(s)[i] = s[1 + i - 1]
  BY <1>2, SubSeqProperties DEF Front
<1>4. Len(Front(s)) = Len(s) - 1
  <2>1. PICK n \in Nat : n = Len(s) /\ n > 0
    BY <1>1
  <2>2. (IF 1 <= n - 1 THEN n - 1 - 1 + 1 ELSE 0) = n - 1
    BY <2>1
  <2> QED
    BY <1>3, <2>1, <2>2
<1>5. \A i \in 1 .. Len(s) - 1 : Front(s)[i] = s[i]
  BY <1>1, <1>3
<1>6. Front(s) = <<>> <=> Len(Front(s)) = 0
  BY <1>3
<1> QED
  BY <1>1, <1>3, <1>4, <1>5, <1>6

LEMMA ExpectEntries ==
  ASSUME NEW s \in Seq(Entries)
  PROVE  /\ Expect(s) \in Seq(Entries) /\ Len(Expect(s)) = Len(s)
         /\ \A i \in 1 .. Len(s) :
              /\ i < Len(s) => Expect(s)[i] = s[i]
              /\ i = Len(s) => Expect(s)[i] # "value"
              /\ Expect(s)[i] = "array" <=> s[i] = "array"
<1>1. CASE s # <<>> /\ Last(s) = "value"
  <2> DEFINE f == Front(s)
  <2>1. s[Len(s)] = "value" /\ Expect(s) = Append(f, "key")
    BY <1>1 DEF Expect, Last
  <2>2. /\ Len(s) \in Nat /\ Len(s) > 0
        /\ f \in Seq(Entries) /\ Len(f) = Len(s) - 1
        /\ \A i \in 1 .. Len(s) - 1 : f[i] = s[i]
    BY <1>1, FrontEntries
  <2>3. "key" \in Entries
    BY DEF Entries
  <2> HIDE DEF f
  <2>4. /\ Append(f, "key") \in Seq(Entries) /\ Len(Append(f, "key")) = Len(f) + 1
        /\ \A i \in 1 .. Len(f) : Append(f, "key")[i] = f[i]
        /\ Append(f, "key")[Len(f) + 1] = "key"
    BY <2>2, <2>3, AppendEntries
  <2>5. \A i \in 1 .. Len(s) : Append(f, "key")[i] = IF i = Len(s) THEN "key" ELSE s[i]
    BY <2>2, <2>4
  <2> QED
    BY <2>1, <2>2, <2>4, <2>5
<1>2. CASE ~(s # <<>> /\ Last(s) = "value")
  BY <1>2 DEF Expect, Last
<1> QED
  BY <1>1, <1>2

LEMMA EmptyStack ==
  ASSUME NEW s \in Seq(Entries)
  PROVE  Len(s) = 0 <=> s = <<>>
<1>1. <<>> \in Seq(Entries) /\ Len(<<>>) = 0
  OBVIOUS
<1>2. ASSUME Len(s) = 0
      PROVE  s = <<>>
  BY <1>1, <1>2, SeqEqual
<1> QED
  BY <1>1, <1>2

-----------------------------------------------------------------------------
(* Steps.                                                                  *)

Step == IInv /\ IInv' /\ [Call]_vars /\ DomInv

LEMMA VarsAre ==
  /\ -2 \in Vars /\ -1 \in Vars
  /\ \A d \in Levels : d \in Vars /\ d # -2 /\ d # -1
  /\ \A v \in Vars : v = -2 \/ v = -1 \/ v \in Levels
BY DomAssumption DEF Vars, Levels

LEMMA DepthIs ==
  ASSUME DomInv
  PROVE  \E n \in Nat : /\ Depth = n /\ n <= MaxDepth /\ Filled(n)
                        /\ \A d \in Levels : d > n => mValue[d] = None
<1>1. Depth \in Nat /\ Depth <= MaxDepth
  <2>1. Depth \in Nat /\ Depth <= context /\ context <= MaxDepth
    BY DepthRange DEF DomInv
  <2>2. context \in Nat /\ MaxDepth \in Nat
    BY DomAssumption DEF DomInv, DomTypeOK, Levels
  <2> QED
    BY <2>1, <2>2
<1> QED
  BY <1>1 DEF DomInv, Frames

(* A step that leaves the records alone.                                   *)
Calm ==
  /\ mValue' = mValue /\ Depth' = Depth
  /\ \A d \in Levels : mValue[d] # None => handle'[mValue[d]] = handle[mValue[d]]
  /\ \A b \in Blocks : kind[b] \in Live => Contents(b)' = Contents(b)

LEMMA CalmUnmoved ==
  ASSUME Step, Calm, NEW n \in Nat, n <= MaxDepth + 1, Filled(n)
  PROVE  Unmoved(n)
<1>1. ASSUME NEW d \in 0 .. n - 1
      PROVE  /\ mValue'[d] = mValue[d] /\ handle'[mValue[d]] = handle[mValue[d]]
             /\ Held(d) \in Blocks /\ kind[Held(d)] \in Live
  <2>1. d \in Levels
    BY DomAssumption DEF Levels
  <2>2. mValue[d] # None /\ Held(d) \in Blocks /\ kind[Held(d)] \in Live
    BY DEF Filled, Live
  <2> QED
    BY <2>1, <2>2 DEF Calm
<1>2. ASSUME NEW d \in 0 .. n - 2, NEW b \in Blocks, b = Held(d)
      PROVE  Contents(b)' = Contents(b)
  <2>1. d \in 0 .. n - 1
    OBVIOUS
  <2>2. kind[b] \in Live
    BY <1>1, <1>2, <2>1
  <2> QED
    BY <2>2 DEF Calm
<1> QED
  BY <1>1, <1>2 DEF Unmoved

LEMMA CalmFrames ==
  ASSUME Step, Calm
  PROVE  /\ Frames'
         /\ \A d \in 0 .. Depth - 1 :
              /\ mValue[d] # None /\ Held(d) \in Blocks
              /\ Held(d)' = Held(d) /\ kind'[Held(d)] = kind[Held(d)]
         /\ \A d \in 1 .. Depth :
              (InArray(d) => InArray(d)') /\ (UnderKey(d) => UnderKey(d)')
<1>1. PICK n \in Nat : /\ Depth = n /\ n <= MaxDepth /\ Filled(n)
                       /\ \A d \in Levels : d > n => mValue[d] = None
  BY DepthIs DEF Step
<1>0. n <= MaxDepth + 1
  BY <1>1, DomAssumption
<1>2. Unmoved(n)
  BY <1>0, <1>1, CalmUnmoved
<1>3. DomTypeOK /\ n <= n
  BY DEF Step, DomInv
<1>4. Filled(n)'
  BY <1>0, <1>1, <1>2, <1>3, KeepFilled DEF Step
<1>5. Frames'
  BY <1>1, <1>4 DEF Frames, Filled, Calm
<1>6. ASSUME NEW d \in 0 .. n - 1
      PROVE  /\ mValue[d] # None /\ Held(d) \in Blocks
             /\ Held(d)' = Held(d) /\ kind'[Held(d)] = kind[Held(d)]
  BY <1>0, <1>1, <1>2, <1>3, KeepLevel DEF Step
<1>7. ASSUME NEW d \in 1 .. n
      PROVE  (InArray(d) => InArray(d)') /\ (UnderKey(d) => UnderKey(d)')
  <2>1. d \in Levels /\ d - 1 \in 0 .. n - 1 /\ d > 0
    BY <1>1, DomAssumption DEF Levels
  <2>2. Held(d - 1)' = Held(d - 1) /\ kind'[Held(d - 1)] = kind[Held(d - 1)] /\ Held(d - 1) \in Blocks
    BY <1>6, <2>1
  <2>3. ASSUME InArray(d)
        PROVE  InArray(d)'
    BY <2>2, <2>3 DEF InArray, Is, Calm
  <2>4. ASSUME UnderKey(d)
        PROVE  UnderKey(d)'
    <3>1. mValue[d] # None /\ Held(d) \in Blocks /\ mValue[d] \in Handles
      BY <2>1, <2>4, <1>3, ValuesHeld DEF UnderKey, Is
    <3>2. handle'[mValue[d]] = handle[mValue[d]] /\ mValue'[d] = mValue[d]
      BY <2>1, <3>1 DEF Calm
    <3>3. kind'[handle[mValue[d]]] = kind[handle[mValue[d]]]
      BY <3>1, <3>2, HandleKept DEF Step, Held
    <3>4. Held(d)' = Held(d) /\ kind'[Held(d)] = kind[Held(d)]
      BY <3>2, <3>3 DEF Held
    <3> QED
      BY <2>2, <2>4, <3>1, <3>2, <3>4 DEF UnderKey, Is
  <2> QED
    BY <2>3, <2>4
<1> QED
  BY <1>1, <1>5, <1>6, <1>7

(* A call that only fills a handle that was free.                          *)
Takes1(h, x) ==
  /\ x # None /\ handle[h] = None /\ handle' = [handle EXCEPT ![h] = x]
  /\ UNCHANGED <<size, elem, keyOf, value, lost>>

LEMMA TakesApart ==
  ASSUME Step, NEW h \in Handles, NEW x, Takes1(h, x)
  PROVE  /\ handle'[h] = x
         /\ \A g \in Handles : handle[g] # None => g # h /\ handle'[g] = handle[g]
         /\ \A v \in Vars : At(v) # None => At(v) # h
         /\ \A d \in Levels : mValue[d] # None => handle'[mValue[d]] = handle[mValue[d]]
         /\ \A b : Contents(b)' = Contents(b)
<1>0. TypeOK /\ DomTypeOK /\ Slots
  BY DEF Step, IInv, DomInv
<1>1. handle'[h] = x /\ \A g \in Handles : handle[g] # None => g # h /\ handle'[g] = handle[g]
  BY <1>0 DEF Takes1, TypeOK
<1>2. \A v \in Vars : At(v) # None => At(v) # h /\ handle[At(v)] # None
  BY <1>0 DEF Takes1, Slots
<1>3. ASSUME NEW d \in Levels, mValue[d] # None
      PROVE  handle'[mValue[d]] = handle[mValue[d]]
  <2>1. At(d) = mValue[d] /\ d \in Vars
    BY VarsAre DEF At
  <2>2. mValue[d] \in Handles
    BY <1>0, <1>3, ValuesHeld
  <2> QED
    BY <1>1, <1>2, <1>3, <2>1, <2>2
<1>4. \A b : Contents(b)' = Contents(b)
  BY ContentsSame DEF Takes1
<1> QED
  BY <1>1, <1>2, <1>3, <1>4

(* Where the next value goes.                                              *)
LEMMA PlaceThere ==
  ASSUME DomInv, ValueAllowed
  PROVE  /\ context = Len(yajl) /\ Depth = context
         /\ (context = 0 /\ yajl = <<>> /\ mValue[0] = None) \/ (context > 0 /\ yajl # <<>> /\ Room(context))
<1>1. pc = "feed" /\ status = "reading" /\ yajl \in Seq(Entries)
  BY DEF ValueAllowed, DomInv, DomTypeOK, Entries
<1>2. context = Len(yajl) /\ Depth = context /\ context \in Nat /\ context \in Levels
  BY <1>1, LenProperties DEF DomInv, Grammar, DomTypeOK, Depth
<1>3. CASE context = 0
  <2>1. yajl = <<>>
    BY <1>1, <1>2, <1>3, EmptyStack
  <2>2. mValue[0] = None
    BY <1>1, <1>3 DEF DomInv, Grammar
  <2> QED
    BY <1>2, <1>3, <2>1, <2>2
<1>4. CASE context > 0
  <2>1. yajl # <<>> /\ yajl[context] \in {"value", "array"}
    BY <1>1, <1>2, <1>4 DEF ValueAllowed, Last
  <2>2. (yajl[context] = "value" <=> mValue[context] # None) /\ (mValue[context] # None => UnderKey(context))
    BY <1>1, <1>4 DEF DomInv, Grammar
  <2>3. CASE yajl[context] = "array"
    <3>1. mValue[context] = None
      BY <2>2, <2>3
    <3>2. context \in 1 .. Depth /\ context - 1 \in 0 .. Depth - 1
      BY <1>2, <1>4
    <3>3. kind[Held(context - 1)] = "array"
      BY <1>1, <2>3, <3>2 DEF DomInv, Grammar
    <3>4. Held(context - 1) \in Blocks
      BY <3>2 DEF DomInv, Frames, Filled
    <3> QED
      BY <1>2, <1>4, <2>1, <3>1, <3>3, <3>4 DEF Room, InArray, Is
  <2>4. CASE yajl[context] = "value"
    BY <1>2, <1>4, <2>1, <2>2, <2>4 DEF Room
  <2> QED
    BY <2>1, <2>3, <2>4
<1> QED
  BY <1>2, <1>3, <1>4

(* dom_null ... dom_string make their value.                               *)
LEMMA MakeLeafStep ==
  ASSUME Step, NEW h \in Handles, MakeLeaf(h)
  PROVE  DomInv'
<1>0. /\ TypeOK /\ DomTypeOK /\ Slots /\ Frames /\ Phase /\ Grammar /\ Kept /\ DomInv
      /\ ValueAllowed /\ pc = "feed" /\ status = "reading" /\ handle[h] = None
      /\ h # None
  BY DomAssumption DEF Step, IInv, DomInv, MakeLeaf, ValueAllowed, Takes
<1>1. PICK x : Takes1(h, x) /\ (x = Const \/ (x \in Blocks /\ kind'[x] = "string"))
  <2>1. CASE TakeConst(h)
    BY <1>0, <2>1, ConstsDiffer DEF TakeConst, Takes1, containers
  <2>2. ASSUME NEW b \in Blocks, CreateString(h, b, Text)
        PROVE  Takes1(h, b) /\ kind'[b] = "string"
    BY <1>0, <2>2, ConstsDiffer DEF CreateString, Create, Alloc, Takes1, TypeOK
  <2> QED
    BY <2>1, <2>2 DEF MakeLeaf
<1>2. /\ fresh' = h /\ pc' = "place" /\ yajl' = Expect(yajl) /\ status' = StatusAfter(yajl)
      /\ UNCHANGED <<context, mValue, given, copied, defaultsAt, results>>
  BY DEF MakeLeaf
<1>3. /\ handle'[h] = x
      /\ \A d \in Levels : mValue[d] # None => handle'[mValue[d]] = handle[mValue[d]]
      /\ \A b : Contents(b)' = Contents(b)
  BY <1>1, TakesApart
<1>4. /\ context = Len(yajl) /\ Depth = context
      /\ (context = 0 /\ yajl = <<>> /\ mValue[0] = None) \/ (context > 0 /\ yajl # <<>> /\ Room(context))
  BY <1>0, PlaceThere
<1>5. Calm
  BY <1>0, <1>2, <1>3 DEF Calm, Depth
<1>6. /\ Frames'
      /\ \A d \in 0 .. Depth - 1 :
           /\ mValue[d] # None /\ Held(d) \in Blocks
           /\ Held(d)' = Held(d) /\ kind'[Held(d)] = kind[Held(d)]
      /\ \A d \in 1 .. Depth :
           (InArray(d) => InArray(d)') /\ (UnderKey(d) => UnderKey(d)')
  BY <1>5, CalmFrames
<1>7. fresh = None /\ copied = None
  BY <1>0 DEF Phase
<1>8. Slots'
  <2>1. -2 \in Vars /\ At(-2) = None /\ At(-2)' = h /\ \A w \in Vars \ {-2} : At(w)' = At(w)
    BY <1>2, <1>7, VarsAre DEF At
  <2> QED
    BY <1>0, <1>1, <1>2, <2>1, SlotsTake DEF Takes1
<1>9. /\ yajl \in Seq(Entries) /\ yajl' \in Seq(Entries) /\ Len(yajl') = Len(yajl)
      /\ \A i \in 1 .. Len(yajl) :
           /\ i < Len(yajl) => yajl'[i] = yajl[i]
           /\ i = Len(yajl) => yajl'[i] # "value"
           /\ yajl'[i] = "array" <=> yajl[i] = "array"
  <2>1. yajl \in Seq(Entries)
    BY <1>0 DEF DomTypeOK, Entries
  <2> QED
    BY <1>2, <2>1, ExpectEntries
<1>10. DomTypeOK'
  BY <1>0, <1>2, <1>9 DEF DomTypeOK, StatusAfter, Entries
<1>11. Phase'
  <2>1. (Is(handle[fresh], "string") \/ handle[fresh] = Const)'
    BY <1>1, <1>2, <1>3 DEF Is
  <2>2. CASE context = 0
    BY <1>0, <1>2, <1>4, <1>7, <2>1, <2>2 DEF Phase, AtTop, StatusAfter
  <2>3. CASE context > 0
    <3>1. context \in 1 .. Depth
      BY <1>0, <1>4, <2>3 DEF DomTypeOK, Levels
    <3>2. Room(context)'
      BY <1>2, <1>4, <1>6, <2>3, <3>1 DEF Room
    <3> QED
      BY <1>0, <1>2, <1>7, <2>1, <3>2 DEF Phase
  <2> QED
    BY <1>4, <2>2, <2>3
<1>12. Grammar'
  <2>1. Depth' = Depth
    BY <1>5 DEF Calm
  <2>2. \A i \in 1 .. context : yajl'[i] # "value"
    <3>1. \A i \in 1 .. context : yajl[i] = "value" => i = context
      BY <1>0 DEF Grammar
    <3> QED
      BY <1>4, <1>9, <3>1
  <2>3. \A i \in 1 .. Depth : kind'[Held(i - 1)'] = "array" <=> yajl'[i] = "array"
    <3>1. ASSUME NEW i \in 1 .. Depth
          PROVE  kind'[Held(i - 1)'] = "array" <=> yajl'[i] = "array"
      <4>1. i \in 1 .. Len(yajl) /\ i - 1 \in 0 .. Depth - 1
        BY <1>4, <1>9
      <4>2. kind[Held(i - 1)] = "array" <=> yajl[i] = "array"
        BY <1>0 DEF Grammar
      <4> QED
        BY <1>6, <1>9, <4>1, <4>2
    <3> QED
      BY <3>1
  <2> QED
    BY <1>2, <1>4, <1>9, <2>1, <2>2, <2>3 DEF Grammar
<1>13. Kept'
  BY <1>0, <1>1, <1>2 DEF Kept, Takes1, StatusAfter
<1> QED
  BY <1>6, <1>8, <1>10, <1>11, <1>12, <1>13 DEF DomInv

(* A call that takes references from variables and changes the contents of *)
(* the innermost container only.                                           *)
Spared(m, n, F) ==
  /\ \A d \in 0 .. m - 1 : d \notin F /\ mValue'[d] = mValue[d]
  /\ \A h \in Handles : handle'[h] = IF \E v \in F : At(v) = h THEN None ELSE handle[h]
  /\ \A d \in 0 .. m - 2 : \A b \in Blocks :
       b = Held(d) /\ b # Held(n - 1) => Contents(b)' = Contents(b)

LEMMA GivesApart ==
  ASSUME Step, NEW n \in Nat, Depth = n, n <= MaxDepth, NEW m \in Nat, m <= n,
         NEW F \in SUBSET Vars, Spared(m, n, F)
  PROVE  /\ Filled(m)'
         /\ \A d \in 0 .. m - 1 :
              /\ mValue[d] \in Handles /\ Held(d) \in Blocks
              /\ mValue'[d] = mValue[d] /\ mValue[d] # None
              /\ Held(d)' = Held(d) /\ kind'[Held(d)] = kind[Held(d)]
<1>0. DomTypeOK /\ Slots /\ Filled(n) /\ n <= MaxDepth + 1
  BY DomAssumption DEF Step, DomInv, Frames
<1>1. ASSUME NEW d \in 0 .. m - 1
      PROVE  handle'[mValue[d]] = handle[mValue[d]]
  <2>1. d \in Levels /\ d \in 0 .. n - 1
    BY DomAssumption DEF Levels
  <2>2. mValue[d] # None /\ At(d) = mValue[d] /\ d \in Vars /\ mValue[d] \in Handles
    BY <1>0, <2>1, VarsAre, ValuesHeld DEF Filled, At
  <2>3. ~\E v \in F : At(v) = mValue[d]
    BY <1>0, <2>2 DEF Slots, Spared
  <2> QED
    BY <2>2, <2>3 DEF Spared
<1>2. ASSUME NEW d \in 0 .. m - 2, NEW b \in Blocks, b = Held(d)
      PROVE  Contents(b)' = Contents(b)
  <2>1. d \in 0 .. n - 1 /\ n - 1 \in 0 .. n - 1 /\ d # n - 1
    BY m \in Nat, n \in Nat, m <= n
  <2>2. Held(d) # Held(n - 1)
    BY <1>0, <2>1 DEF Filled
  <2> QED
    BY <1>2, <2>2 DEF Spared
<1>3. Unmoved(m)
  BY <1>1, <1>2 DEF Unmoved, Spared
<1>4. Filled(m)'
  BY <1>0, <1>3, KeepFilled DEF Step
<1>5. \A d \in 0 .. m - 1 :
        /\ mValue[d] \in Handles /\ Held(d) \in Blocks
        /\ mValue'[d] = mValue[d] /\ mValue[d] # None
        /\ Held(d)' = Held(d) /\ kind'[Held(d)] = kind[Held(d)]
  BY <1>0, <1>3, KeepLevel DEF Step
<1> QED
  BY <1>4, <1>5

(* The kinds of the open containers and the stack of yajl.                 *)
Kinds(m, s) == \A i \in 1 .. m : kind[Held(i - 1)] = "array" <=> s[i] = "array"

LEMMA KeepKinds ==
  ASSUME NEW m \in Nat, NEW s, Kinds(m, s), NEW k \in Nat, k <= m,
         \A d \in 0 .. k - 1 : Held(d)' = Held(d) /\ kind'[Held(d)] = kind[Held(d)]
  PROVE  \A i \in 1 .. k : kind'[Held(i - 1)'] = "array" <=> s[i] = "array"
<1> SUFFICES ASSUME NEW i \in 1 .. k
             PROVE  kind'[Held(i - 1)'] = "array" <=> s[i] = "array"
  OBVIOUS
<1>1. i \in 1 .. m /\ i - 1 \in 0 .. k - 1
  OBVIOUS
<1> QED
  BY <1>1 DEF Kinds

LEMMA KindsNow ==
  ASSUME Grammar, pc \notin {"none", "cleanup"}
  PROVE  Kinds(Depth, yajl)
BY DEF Grammar, Kinds

(* dom_null ... dom_string: the value is the document.                     *)
LEMMA PlaceTopStep ==
  ASSUME Step, PlaceLeaf, context = 0
  PROVE  DomInv'
<1>0. TypeOK /\ DomTypeOK /\ Slots /\ Frames /\ Phase /\ Grammar /\ Kept /\ pc = "place"
  BY DEF Step, IInv, DomInv, PlaceLeaf
<1>1. AtTop /\ status = "complete" /\ fresh # None /\ copied = None
  BY <1>0 DEF Phase, Room, InArray, UnderKey
<1>2. /\ fresh' = None /\ given' = None /\ pc' = "feed"
      /\ mValue' = [mValue EXCEPT ![0] = fresh]
      /\ UNCHANGED <<handle, lost, status, context, copied, yajl, defaultsAt, results>>
  BY <1>1 DEF PlaceLeaf, AtTop, InArray, UnderKey, Proceed, vars
<1>3. 0 \in Levels /\ Depth' = 0 /\ Len(yajl) = 0
  BY <1>0, <1>2, DomAssumption DEF Levels, Depth, Grammar
<1>4. mValue'[0] = fresh /\ \A d \in Levels : d # 0 => mValue'[d] = mValue[d]
  BY <1>0, <1>2, <1>3 DEF DomTypeOK
<1>5. Slots'
  <2>1. /\ -2 \in Vars /\ 0 \in Vars \ {-2} /\ At(0) = None
        /\ At(-2)' = None /\ At(0)' = At(-2)
    BY <1>1, <1>2, <1>3, <1>4, VarsAre DEF At, AtTop
  <2>2. \A w \in Vars \ {-2, 0} : At(w)' = At(w)
    BY <1>2, <1>4, VarsAre DEF At
  <2>3. PICK F \in SUBSET Vars : F = {}
    OBVIOUS
  <2>4. /\ -2 \in Vars \ F /\ \A v \in F \ {0} : At(v)' = None
        /\ \A w \in Vars \ (F \cup {-2, 0}) : At(w)' = At(w)
        /\ \A h \in Handles : handle'[h] = IF \E v \in F : At(v) = h THEN None ELSE handle[h]
    BY <1>2, <2>1, <2>2, <2>3
  <2> QED
    BY <1>0, <1>2, <2>1, <2>4, SlotsMove
<1>6. Frames'
  <2>1. \A d \in Levels : d > 0 => mValue'[d] = None
    BY <1>0, <1>1, <1>3, <1>4 DEF Frames, Depth
  <2>2. 0 .. 0 - 1 = {} /\ 1 .. 0 - 1 = {}
    OBVIOUS
  <2>3. Filled(0)'
    BY <2>2 DEF Filled
  <2> QED
    BY <1>3, <2>1, <2>3 DEF Frames, Filled
<1>7. DomTypeOK'
  BY <1>0, <1>2, <1>3 DEF DomTypeOK
<1>8. Phase'
  BY <1>1, <1>2 DEF Phase
<1>9. Grammar'
  <2>1. 1 .. 0 = {}
    OBVIOUS
  <2> QED
    BY <1>1, <1>2, <1>3, <2>1 DEF Grammar
<1>10. Kept'
  BY <1>0, <1>2 DEF Kept
<1> QED
  BY <1>5, <1>6, <1>7, <1>8, <1>9, <1>10 DEF DomInv

(* The value went into the innermost container.                            *)
LEMMA PlacedStep ==
  ASSUME Step, PlaceLeaf, context > 0, NEW F \in SUBSET Vars,
         -2 \in F, F \subseteq {-2, context}, mValue[context] # None => context \in F,
         mValue' \in [Levels -> Handles \cup {None}], mValue'[context] = None,
         \A d \in Levels : d # context => mValue'[d] = mValue[d],
         \A h \in Handles : handle'[h] = IF \E v \in F : At(v) = h THEN None ELSE handle[h],
         \A b \in Blocks : b # Parent => Contents(b)' = Contents(b),
         lost' = lost, pc' = "feed", status' = status
  PROVE  DomInv'
<1>0. TypeOK /\ DomTypeOK /\ Slots /\ Frames /\ Phase /\ Grammar /\ Kept /\ pc = "place"
  BY DEF Step, IInv, DomInv, PlaceLeaf
<1>1. copied = None /\ Depth = context /\ Depth' = context /\ context \in Nat /\ context <= MaxDepth
  BY <1>0, DomAssumption DEF Phase, Depth, DomTypeOK, Levels, PlaceLeaf
<1>2. /\ fresh' = None /\ given' = None
      /\ UNCHANGED <<context, copied, yajl, defaultsAt, results>>
  BY DEF PlaceLeaf
<1>3. PICK n \in Nat : n = context /\ n <= MaxDepth /\ Depth = n
  BY <1>1
<1>4. \A d \in 0 .. n - 1 : d \in Levels /\ d # context /\ d # -2 /\ d \notin F
  BY <1>3, DomAssumption DEF Levels
<1>5. /\ Filled(n)'
      /\ \A d \in 0 .. n - 1 : Held(d)' = Held(d) /\ kind'[Held(d)] = kind[Held(d)]
  <2>1. n <= n /\ \A d \in 0 .. n - 1 : d \notin F /\ mValue'[d] = mValue[d]
    BY <1>4
  <2>2. \A d \in 0 .. n - 2 : \A b \in Blocks :
          b = Held(d) /\ b # Held(n - 1) => Contents(b)' = Contents(b)
    BY <1>3 DEF Parent
  <2>3. Spared(n, n, F)
    BY <2>1, <2>2 DEF Spared
  <2> QED
    BY <1>3, <2>1, <2>3, GivesApart
<1>6. Slots'
  <2>1. context \in Levels
    BY <1>0 DEF DomTypeOK
  <2>2. ASSUME NEW v \in F
        PROVE  At(v)' = None
    BY <1>2, <2>1, VarsAre DEF At
  <2>3. ASSUME NEW v \in Vars \ F
        PROVE  At(v)' = At(v)
    <3>1. CASE v = -1
      BY <1>2, <3>1 DEF At
    <3>2. CASE v \in Levels
      BY <2>1, <3>2, VarsAre DEF At
    <3> QED
      BY <3>1, <3>2, VarsAre
  <2> QED
    BY <1>0, <1>2, <2>2, <2>3, SlotsFree
<1>7. Frames'
  <2>1. \A d \in Levels : d > n => mValue'[d] = None
    BY <1>0, <1>3 DEF Frames
  <2> QED
    BY <1>1, <1>3, <1>5, <2>1 DEF Frames, Filled
<1>8. DomTypeOK'
  BY <1>0, <1>2 DEF DomTypeOK
<1>9. Phase'
  BY <1>1, <1>2 DEF Phase
<1>10. Grammar'
  <2>1. \A i \in 1 .. n : kind'[Held(i - 1)'] = "array" <=> yajl[i] = "array"
    <3>1. Kinds(n, yajl) /\ n <= n
      BY <1>0, <1>3, KindsNow
    <3> QED
      BY <1>5, <3>1, KeepKinds
  <2>2. \A i \in 1 .. context : yajl[i] # "value"
    BY <1>0 DEF Grammar
  <2>3. context > 0 => yajl[context] # "value"
    BY <1>1, <2>2
  <2> QED
    BY <1>0, <1>1, <1>2, <1>3, <2>1, <2>2, <2>3 DEF Grammar
<1>11. Kept'
  BY <1>0 DEF Kept
<1> QED
  BY <1>6, <1>7, <1>8, <1>9, <1>10, <1>11 DEF DomInv

LEMMA PlaceArrayStep ==
  ASSUME Step, PlaceLeaf, InArray(context)
  PROVE  DomInv'
<1>0. TypeOK /\ DomTypeOK /\ Slots /\ Frames /\ Phase /\ Grammar /\ Kept /\ pc = "place" /\ WellFormed
  BY DEF Step, IInv, DomInv, PlaceLeaf
<1>1. /\ context > 0 /\ mValue[context] = None /\ Parent \in Blocks /\ kind[Parent] = "array"
      /\ context \in Levels /\ context - 1 \in Levels
  BY <1>0, DomAssumption DEF InArray, Parent, Is, DomTypeOK, Levels
<1>2. fresh # None /\ fresh \in Handles /\ (Is(handle[fresh], "string") \/ handle[fresh] = Const)
  BY <1>0 DEF Phase, DomTypeOK
<1>3. /\ ArrayAppend(Parent, fresh)
      /\ pc' = "feed" /\ UNCHANGED <<status, mValue>>
  BY <1>1 DEF PlaceLeaf, AtTop, UnderKey, Proceed
<1>4. PICK a \in Blocks : a = Parent
  BY <1>1
<1>5. kind[a] = "array" /\ ArrayAppend(a, fresh)
  BY <1>1, <1>3, <1>4 DEF ArrayAppend, PutElem
<1>6. InsertSane(a, handle[fresh])
  <2>1. handle[fresh] # a /\ (handle[fresh] \in Blocks => kind[handle[fresh]] = "string")
    BY <1>2, <1>5, ConstsDiffer DEF Is
  <2>2. handle[fresh] \in Blocks => Contents(handle[fresh]) = {}
    BY <1>0, <2>1, LeafEmpty
  <2> QED
    BY <2>1, <2>2, FreshSane
<1>7. /\ handle' = [handle EXCEPT ![fresh] = None] /\ lost' = lost
      /\ \A b \in Blocks \ {a} : Contents(b)' = Contents(b)
  BY <1>2, <1>5, <1>6, AppendEffect DEF Step
<1>8. PICK F \in SUBSET Vars : F = {-2}
  BY VarsAre
<1>9. \A h \in Handles : handle'[h] = IF \E v \in F : At(v) = h THEN None ELSE handle[h]
  BY <1>0, <1>7, <1>8 DEF TypeOK, At
<1>10. /\ -2 \in F /\ F \subseteq {-2, context} /\ (mValue[context] # None => context \in F)
       /\ mValue' \in [Levels -> Handles \cup {None}] /\ mValue'[context] = None
       /\ \A d \in Levels : d # context => mValue'[d] = mValue[d]
  BY <1>0, <1>1, <1>3, <1>8 DEF DomTypeOK
<1>11. \A b \in Blocks : b # Parent => Contents(b)' = Contents(b)
  BY <1>4, <1>7
<1> QED
  BY <1>1, <1>3, <1>7, <1>9, <1>10, <1>11, PlacedStep

LEMMA PlaceKeyStep ==
  ASSUME Step, PlaceLeaf, UnderKey(context)
  PROVE  DomInv'
<1>0. TypeOK /\ DomTypeOK /\ Slots /\ Frames /\ Phase /\ Grammar /\ Kept /\ pc = "place" /\ WellFormed
  BY DEF Step, IInv, DomInv, PlaceLeaf
<1>1. /\ context > 0 /\ mValue[context] # None /\ Parent \in Blocks /\ kind[Parent] = "object"
      /\ Is(handle[mValue[context]], "string") /\ mValue[context] \in Handles
      /\ context \in Levels /\ context - 1 \in Levels
  BY <1>0, DomAssumption DEF UnderKey, Held, Parent, Is, DomTypeOK, Levels
<1>2. fresh # None /\ fresh \in Handles /\ (Is(handle[fresh], "string") \/ handle[fresh] = Const)
  BY <1>0 DEF Phase, DomTypeOK
<1>3. /\ ObjectPut(Parent, mValue[context], fresh)
      /\ mValue' = [mValue EXCEPT ![context] = None]
      /\ pc' = "feed" /\ status' = status
  BY <1>1 DEF PlaceLeaf, AtTop, InArray, Proceed
<1>4. PICK a \in Blocks : a = Parent
  BY <1>1
<1>5. PICK k \in Handles : k = mValue[context]
  BY <1>1
<1>6. kind[a] = "object" /\ ObjectPut(a, k, fresh) /\ Is(handle[k], "string")
  BY <1>1, <1>3, <1>4, <1>5 DEF ObjectPut, PutMember, Replace
<1>7. InsertSane(a, handle[fresh])
  <2>1. handle[fresh] # a /\ (handle[fresh] \in Blocks => kind[handle[fresh]] = "string")
    BY <1>2, <1>6, ConstsDiffer DEF Is
  <2>2. handle[fresh] \in Blocks => Contents(handle[fresh]) = {}
    BY <1>0, <2>1, LeafEmpty
  <2> QED
    BY <2>1, <2>2, FreshSane
<1>8. /\ handle' = [handle EXCEPT ![k] = None, ![fresh] = None] /\ lost' = lost
      /\ \A b \in Blocks \ {a} : Contents(b)' = Contents(b)
  BY <1>2, <1>6, <1>7, PutEffect DEF Step
<1>9. PICK F \in SUBSET Vars : F = {-2, context}
  BY <1>1, VarsAre
<1>10. \A h \in Handles : handle'[h] = IF \E v \in F : At(v) = h THEN None ELSE handle[h]
  <2>1. At(-2) = fresh /\ At(context) = k
    BY <1>1, <1>5, VarsAre DEF At
  <2> QED
    BY <1>0, <1>8, <1>9, <2>1 DEF TypeOK
<1>11. /\ -2 \in F /\ F \subseteq {-2, context} /\ (mValue[context] # None => context \in F)
       /\ mValue' \in [Levels -> Handles \cup {None}] /\ mValue'[context] = None
       /\ \A d \in Levels : d # context => mValue'[d] = mValue[d]
  BY <1>0, <1>1, <1>3, <1>9 DEF DomTypeOK
<1>12. \A b \in Blocks : b # Parent => Contents(b)' = Contents(b)
  BY <1>4, <1>8
<1> QED
  BY <1>1, <1>3, <1>8, <1>10, <1>11, <1>12, PlacedStep

LEMMA PlaceLeafStep ==
  ASSUME Step, PlaceLeaf
  PROVE  DomInv'
<1>1. AtTop \/ Room(context)
  BY DEF Step, DomInv, Phase, PlaceLeaf
<1> QED
  BY <1>1, PlaceTopStep, PlaceArrayStep, PlaceKeyStep DEF AtTop, Room

(* dom_object_start and dom_array_start.                                   *)
LEMMA StartEffect ==
  ASSUME Step, NEW k \in {"object", "array"}, NEW h \in Handles, NEW b \in Blocks, Start(k, h, b)
  PROVE  /\ Takes1(h, b) /\ kind'[b] = k /\ kind[b] = "free" /\ Contents(b)' = {} /\ h # None
         /\ \A c \in Blocks : kind[c] \in Live => c # b /\ kind'[c] = kind[c]
         /\ yajl \in Seq(Entries) /\ context = Len(yajl) /\ context < MaxDepth
         /\ context' = context + 1 /\ context' \in Levels
         /\ yajl' \in Seq(Entries) /\ Len(yajl') = context + 1
         /\ yajl'[context + 1] = (IF k = "object" THEN "key" ELSE "array")
         /\ \A i \in 1 .. context : yajl'[i] # "value" /\ (yajl'[i] = "array" <=> yajl[i] = "array")
<1>0. TypeOK /\ DomTypeOK /\ Grammar /\ DomInv /\ IInv /\ pc = "feed" /\ ValueAllowed
  BY DEF Step, IInv, DomInv, Start, ValueAllowed
<1>1. Create(h, b, k, None) /\ kind[b] = "free"
  BY DEF Start, CreateObject, CreateArray, Create, Alloc
<1>2. Takes1(h, b) /\ kind'[b] = k /\ \A c \in Blocks : kind[c] \in Live => c # b /\ kind'[c] = kind[c]
  BY <1>0, <1>1, ConstsDiffer DEF Create, Alloc, Takes1, TypeOK, Live
<1>3. Contents(b)' = {} /\ h # None
  BY <1>0, <1>1, <1>2, FreeEmpty, ContentsSame, DomAssumption DEF Takes1
<1>4. yajl \in Seq(Entries) /\ context = Len(yajl) /\ context \in Nat /\ context \in Levels
  BY <1>0, PlaceThere DEF DomTypeOK, Entries, Levels
<1>5. context < MaxDepth /\ context' = context + 1 /\ context' \in Levels
  BY <1>4, DomAssumption DEF Start, Levels
<1> DEFINE s == Expect(yajl)
           e == IF k = "object" THEN "key" ELSE "array"
<1>6. /\ s \in Seq(Entries) /\ Len(s) = Len(yajl)
      /\ \A i \in 1 .. Len(yajl) :
           /\ i < Len(yajl) => s[i] = yajl[i]
           /\ i = Len(yajl) => s[i] # "value"
           /\ s[i] = "array" <=> yajl[i] = "array"
  BY <1>4, ExpectEntries
<1>7. e \in Entries /\ yajl' = Append(s, e)
  BY DEF Start, Entries
<1> HIDE DEF s, e
<1>8. /\ yajl' \in Seq(Entries) /\ Len(yajl') = context + 1 /\ yajl'[context + 1] = e
      /\ \A i \in 1 .. context : yajl'[i] = s[i]
  BY <1>4, <1>6, <1>7, AppendEntries
<1>9. \A i \in 1 .. context : yajl'[i] # "value" /\ (yajl'[i] = "array" <=> yajl[i] = "array")
  <2>1. \A i \in 1 .. context : yajl[i] = "value" => i = context
    BY <1>0 DEF Grammar
  <2> QED
    BY <1>4, <1>6, <1>8, <2>1
<1> QED
  BY <1>0, <1>1, <1>2, <1>3, <1>4, <1>5, <1>8, <1>9 DEF e

LEMMA StartTopStep ==
  ASSUME Step, NEW k \in {"object", "array"}, NEW h \in Handles, NEW b \in Blocks, Start(k, h, b),
         context = 0
  PROVE  DomInv'
<1>0. TypeOK /\ DomTypeOK /\ Slots /\ Frames /\ Phase /\ Grammar /\ Kept /\ DomInv /\ pc = "feed" /\ status = "reading"
  BY DEF Step, IInv, DomInv, Start, ValueAllowed
<1>1. /\ Takes1(h, b) /\ kind'[b] = k /\ Contents(b)' = {} /\ h # None
      /\ context' = 1 /\ 1 \in Levels /\ 0 \in Levels
      /\ yajl' \in Seq(Entries) /\ Len(yajl') = 1 /\ MaxDepth >= 1
      /\ yajl'[1] = (IF k = "object" THEN "key" ELSE "array")
  BY StartEffect, DomAssumption DEF Levels
<1>2. mValue[0] = None /\ Depth = 0
  BY PlaceThere, <1>0 DEF Start, Depth
<1>3. /\ mValue' = [mValue EXCEPT ![0] = h] /\ pc' = "feed" /\ Depth' = 1
      /\ UNCHANGED <<fresh, given, copied, status, defaultsAt, results>>
  BY <1>1 DEF Start, Depth
<1>4. mValue'[0] = h /\ \A d \in Levels : d # 0 => mValue'[d] = None
  BY <1>0, <1>1, <1>2, <1>3, DomAssumption DEF DomTypeOK, Frames, Levels
<1>5. handle'[h] = b
  BY <1>1, TakesApart
<1>6. Slots'
  <2>1. /\ 0 \in Vars /\ At(0) = None /\ At(0)' = h
        /\ \A w \in Vars \ {0} : At(w)' = At(w)
    <3>1. \A d \in Levels : d # 0 => mValue'[d] = mValue[d]
      BY <1>0, <1>3 DEF DomTypeOK
    <3> QED
      BY <1>1, <1>2, <1>3, <1>4, <3>1, VarsAre DEF At
  <2> QED
    BY <1>0, <1>1, <1>3, <2>1, ConstsDiffer, SlotsTake DEF Takes1
<1>7. Frames'
  <2>1. Held(0)' = b
    BY <1>4, <1>5 DEF Held
  <2>2. 0 .. 1 - 1 = {0} /\ 1 .. 1 - 1 = {}
    OBVIOUS
  <2>3. Filled(1)'
    BY <1>1, <1>4, <2>1, <2>2 DEF Filled
  <2> QED
    BY <1>3, <1>4, <2>3 DEF Frames, Filled
<1>8. DomTypeOK'
  BY <1>0, <1>1, <1>3 DEF DomTypeOK, Entries
<1>9. Phase'
  BY <1>0, <1>3 DEF Phase
<1>10. Grammar'
  <2>1. 1 .. 1 = {1} /\ Held(1 - 1)' = b
    BY <1>4, <1>5 DEF Held
  <2>2. mValue'[1] = None
    BY <1>1, <1>4
  <2> QED
    BY <1>1, <1>3, <2>1, <2>2 DEF Grammar
<1>11. Kept'
  BY <1>0, <1>1, <1>3 DEF Kept, Takes1
<1> QED
  BY <1>6, <1>7, <1>8, <1>9, <1>10, <1>11 DEF DomInv

LEMMA StartNestedStep ==
  ASSUME Step, NEW k \in {"object", "array"}, NEW h \in Handles, NEW b \in Blocks, Start(k, h, b),
         context > 0
  PROVE  DomInv'
<1>0. TypeOK /\ DomTypeOK /\ Slots /\ Frames /\ Phase /\ Grammar /\ Kept /\ DomInv /\ pc = "feed" /\ status = "reading"
  BY DEF Step, IInv, DomInv, Start, ValueAllowed
<1>1. /\ Takes1(h, b) /\ kind'[b] = k /\ Contents(b)' = {} /\ h # None /\ kind[b] = "free"
      /\ \A c \in Blocks : kind[c] \in Live => c # b /\ kind'[c] = kind[c]
      /\ yajl \in Seq(Entries) /\ context = Len(yajl) /\ context < MaxDepth
      /\ context' = context + 1 /\ context' \in Levels
      /\ yajl' \in Seq(Entries) /\ Len(yajl') = context + 1
      /\ yajl'[context + 1] = (IF k = "object" THEN "key" ELSE "array")
      /\ \A i \in 1 .. context : yajl'[i] # "value" /\ (yajl'[i] = "array" <=> yajl[i] = "array")
  BY StartEffect
<1>2. Room(context) /\ Depth = context
  BY PlaceThere, <1>0 DEF Start
<1>3. /\ fresh' = h /\ pc' = "copy"
      /\ UNCHANGED <<mValue, given, copied, status, defaultsAt, results>>
  BY DEF Start
<1>4. PICK n \in Nat : n = context /\ n < MaxDepth /\ n > 0 /\ context' = n + 1 /\ Depth = n /\ Depth' = n
  BY <1>0, <1>1, <1>2, <1>3 DEF DomTypeOK, Levels, Depth
<1>5. /\ handle'[h] = b
      /\ \A d \in Levels : mValue[d] # None => handle'[mValue[d]] = handle[mValue[d]]
      /\ \A c : Contents(c)' = Contents(c)
  BY <1>1, TakesApart
<1>6. Calm
  BY <1>3, <1>4, <1>5 DEF Calm
<1>7. /\ Frames'
      /\ \A d \in 0 .. n - 1 :
           /\ mValue[d] # None /\ Held(d) \in Blocks
           /\ Held(d)' = Held(d) /\ kind'[Held(d)] = kind[Held(d)]
      /\ \A d \in 1 .. n :
           (InArray(d) => InArray(d)') /\ (UnderKey(d) => UnderKey(d)')
  BY <1>4, <1>6, CalmFrames
<1>8. Slots'
  <2>1. fresh = None
    BY <1>0 DEF Phase
  <2>2. -2 \in Vars /\ At(-2) = None /\ At(-2)' = h /\ \A w \in Vars \ {-2} : At(w)' = At(w)
    BY <1>3, <2>1, VarsAre DEF At
  <2> QED
    BY <1>0, <1>1, <1>3, <2>2, ConstsDiffer, SlotsTake DEF Takes1
<1>9. DomTypeOK'
  <2>1. Len(yajl') <= MaxDepth
    BY <1>1, <1>4, DomAssumption
  <2> QED
    BY <1>0, <1>1, <1>3, <2>1 DEF DomTypeOK, Entries
<1>10. Phase'
  <2>1. Room(n)'
    <3>1. n \in 1 .. n
      BY <1>4
    <3> QED
      BY <1>2, <1>4, <1>7, <3>1 DEF Room
  <2>2. Room(context - 1)'
    <3>1. context' - 1 = n
      BY <1>4
    <3> QED
      BY <2>1, <3>1 DEF Room, InArray, UnderKey, Held, Is
  <2>3. Contents(handle[fresh])' = {}
    <3>1. handle'[fresh'] = b
      BY <1>3, <1>5
    <3>2. Contents(handle[fresh])' = Contents(b)'
      BY <3>1 DEF Contents
    <3> QED
      BY <1>1, <3>2
  <2>4. \A d \in 0 .. context' - 2 : handle'[fresh'] # Held(d)'
    <3>1. \A d \in 0 .. n - 1 : Held(d) # b
      BY <1>0, <1>1, <1>4 DEF Frames, Filled
    <3>2. context' - 2 = n - 1
      BY <1>4
    <3> QED
      BY <1>3, <1>5, <1>7, <3>1, <3>2
  <2>5. kind'[handle'[fresh']] = (IF yajl'[context'] = "array" THEN "array" ELSE "object")
    BY <1>1, <1>3, <1>5
  <2>6. context' > 1 /\ fresh' # None /\ handle'[fresh'] \in Blocks /\ copied' = None
    BY <1>0, <1>1, <1>3, <1>4, <1>5 DEF Phase
  <2> QED
    BY <1>3, <2>2, <2>3, <2>4, <2>5, <2>6 DEF Phase
<1>11. Grammar'
  <2>1. \A i \in 1 .. n : kind'[Held(i - 1)'] = "array" <=> yajl[i] = "array"
    <3>1. Kinds(n, yajl) /\ n <= n
      BY <1>0, <1>4, KindsNow
    <3> QED
      BY <1>7, <3>1, KeepKinds
  <2>2. \A i \in 1 .. n : kind'[Held(i - 1)'] = "array" <=> yajl'[i] = "array"
    BY <1>1, <1>4, <2>1
  <2>3. \A i \in 1 .. n + 1 : yajl'[i] # "value"
    BY <1>1, <1>4
  <2> QED
    BY <1>1, <1>3, <1>4, <2>2, <2>3 DEF Grammar
<1>12. Kept'
  BY <1>0, <1>1, <1>3 DEF Kept, Takes1
<1> QED
  BY <1>7, <1>8, <1>9, <1>10, <1>11, <1>12 DEF DomInv

(* The second reference to a new container.                                *)
LEMMA CopyContainerStep ==
  ASSUME Step, NEW h \in Handles, CopyContainer(h)
  PROVE  DomInv'
<1>0. TypeOK /\ DomTypeOK /\ Slots /\ Frames /\ Phase /\ Grammar /\ Kept /\ DomInv /\ pc = "copy" /\ h # None
  BY DomAssumption DEF Step, IInv, DomInv, CopyContainer
<1>1. /\ context > 1 /\ Room(context - 1) /\ copied = None
      /\ fresh # None /\ fresh \in Handles /\ handle[fresh] \in Blocks
      /\ kind[handle[fresh]] = (IF yajl[context] = "array" THEN "array" ELSE "object")
      /\ Contents(handle[fresh]) = {}
      /\ \A d \in 0 .. context - 2 : handle[fresh] # Held(d)
  BY <1>0 DEF Phase, DomTypeOK
<1>2. /\ Copy(handle[fresh], h) /\ handle[h] = None
      /\ copied' = h /\ pc' = "attach"
      /\ UNCHANGED <<fresh, status, context, mValue, given, yajl, defaultsAt, results>>
  BY <1>1 DEF CopyContainer, Room, Takes
<1>3. PICK x \in Blocks : x = handle[fresh]
  BY <1>1
<1>4. Takes1(h, x) /\ kind' = kind
  BY <1>2, <1>3, ConstsDiffer DEF Copy, Share, Takes1, containers
<1>5. /\ handle'[h] = x /\ handle'[fresh] = x
      /\ \A d \in Levels : mValue[d] # None => handle'[mValue[d]] = handle[mValue[d]]
      /\ \A c : Contents(c)' = Contents(c)
  BY <1>1, <1>3, <1>4, TakesApart, ConstsDiffer
<1>6. PICK n \in Nat : n = context - 1 /\ context = n + 1 /\ n > 0 /\ context' = n + 1 /\ Depth = n /\ Depth' = n
  BY <1>0, <1>1, <1>2 DEF DomTypeOK, Levels, Depth
<1>7. Calm
  BY <1>2, <1>5, <1>6 DEF Calm
<1>8. /\ Frames'
      /\ \A d \in 0 .. n - 1 :
           /\ mValue[d] # None /\ Held(d) \in Blocks
           /\ Held(d)' = Held(d) /\ kind'[Held(d)] = kind[Held(d)]
      /\ \A d \in 1 .. n :
           (InArray(d) => InArray(d)') /\ (UnderKey(d) => UnderKey(d)')
  BY <1>6, <1>7, CalmFrames
<1>9. Slots'
  <2>1. -1 \in Vars /\ At(-1) = None /\ At(-1)' = h /\ \A w \in Vars \ {-1} : At(w)' = At(w)
    BY <1>1, <1>2, VarsAre DEF At
  <2> QED
    BY <1>0, <1>2, <1>4, <2>1, ConstsDiffer, SlotsTake DEF Takes1
<1>10. DomTypeOK'
  BY <1>0, <1>2 DEF DomTypeOK
<1>11. Phase'
  <2>1. Room(n)'
    <3>1. n \in 1 .. n /\ Room(n)
      BY <1>1, <1>6
    <3> QED
      BY <1>8, <3>1 DEF Room
  <2>2. Room(context - 1)'
    <3>1. context' - 1 = n
      BY <1>6
    <3> QED
      BY <2>1, <3>1 DEF Room, InArray, UnderKey, Held, Is
  <2>3. Contents(handle[fresh])' = {}
    <3>1. handle'[fresh'] = x
      BY <1>2, <1>5
    <3>2. Contents(handle[fresh])' = Contents(x)'
      BY <3>1 DEF Contents
    <3> QED
      BY <1>1, <1>3, <1>5, <3>2
  <2>4. \A d \in 0 .. context' - 2 : handle'[fresh'] # Held(d)'
    <3>1. context' - 2 = n - 1 /\ context - 2 = n - 1
      BY <1>6
    <3> QED
      BY <1>1, <1>2, <1>3, <1>5, <1>8, <3>1
  <2>5. kind'[handle'[fresh']] = (IF yajl'[context'] = "array" THEN "array" ELSE "object")
    BY <1>1, <1>2, <1>3, <1>4, <1>5
  <2> QED
    BY <1>0, <1>1, <1>2, <1>5, <2>2, <2>3, <2>4, <2>5 DEF Phase
<1>12. Grammar'
  <2>1. \A i \in 1 .. n : kind'[Held(i - 1)'] = "array" <=> yajl[i] = "array"
    <3>1. Kinds(n, yajl) /\ n <= n
      BY <1>0, <1>6, KindsNow
    <3> QED
      BY <1>8, <3>1, KeepKinds
  <2>2. \A i \in 1 .. context : yajl[i] # "value"
    BY <1>0 DEF Grammar
  <2> QED
    BY <1>0, <1>2, <1>6, <2>1, <2>2 DEF Grammar
<1>13. Kept'
  BY <1>0, <1>2, <1>4 DEF Kept, Takes1
<1> QED
  BY <1>8, <1>9, <1>10, <1>11, <1>12, <1>13 DEF DomInv

(* The new container has got its place and its record.                     *)
LEMMA AttachedStep ==
  ASSUME Step, Attach, NEW F \in SUBSET Vars,
         -1 \in F, F \subseteq {-1, context - 1}, mValue[context - 1] # None => context - 1 \in F,
         \A h \in Handles : handle'[h] = IF \E v \in F : At(v) = h THEN None ELSE handle[h],
         \A b \in Blocks : b # Held(context - 2) => Contents(b)' = Contents(b),
         \A b \in Blocks : b = Held(context - 2) => handle[fresh] \in Contents(b)',
         lost' = lost
  PROVE  DomInv'
<1>0. TypeOK /\ DomTypeOK /\ Slots /\ Frames /\ Phase /\ Grammar /\ Kept /\ pc = "attach" /\ IInv'
  BY DEF Step, IInv, DomInv, Attach
<1>1. /\ context > 1 /\ context \in Levels
      /\ fresh # None /\ fresh \in Handles /\ handle[fresh] \in Blocks
      /\ kind[handle[fresh]] = (IF yajl[context] = "array" THEN "array" ELSE "object")
      /\ \A d \in 0 .. context - 2 : handle[fresh] # Held(d)
  BY <1>0 DEF Phase, DomTypeOK
<1>2. /\ mValue' = [mValue EXCEPT ![context - 1] = fresh]
      /\ fresh' = None /\ copied' = None /\ given' = None /\ pc' = "feed"
      /\ UNCHANGED <<context, yajl, status, defaultsAt, results>>
  BY DEF Attach
<1>3. PICK n \in Nat : /\ n = context - 1 /\ n > 0 /\ context' = n + 1 /\ context = n + 1
                       /\ n + 1 <= MaxDepth /\ Depth = n /\ Depth' = n + 1
  BY <1>0, <1>1, <1>2, DomAssumption DEF DomTypeOK, Levels, Depth
<1>4. n \in Levels /\ n + 1 \in Levels /\ n <= MaxDepth
  BY <1>3, DomAssumption DEF Levels
<1>5. mValue'[n] = fresh /\ \A d \in Levels : d # n => mValue'[d] = mValue[d]
  BY <1>0, <1>2, <1>3, <1>4 DEF DomTypeOK
<1>6. \A d \in 0 .. n - 1 : d \in Levels /\ d # n /\ d # -1 /\ d \notin F
  BY <1>3, DomAssumption DEF Levels
<1>7. /\ Filled(n)'
      /\ \A d \in 0 .. n - 1 :
           Held(d) \in Blocks /\ Held(d)' = Held(d) /\ kind'[Held(d)] = kind[Held(d)]
  <2>1. n <= n /\ \A d \in 0 .. n - 1 : d \notin F /\ mValue'[d] = mValue[d]
    BY <1>5, <1>6
  <2>2. n - 1 = context - 2
    BY <1>3
  <2>3. \A d \in 0 .. n - 2 : \A b \in Blocks :
          b = Held(d) /\ b # Held(n - 1) => Contents(b)' = Contents(b)
    BY <2>2
  <2>4. Spared(n, n, F)
    BY <2>1, <2>3 DEF Spared
  <2> QED
    BY <1>3, <1>4, <2>1, <2>4, GivesApart
<1>8. handle'[fresh] = handle[fresh]
  <2>1. At(-2) = fresh /\ -2 \in Vars /\ -2 \notin F
    BY <1>3, VarsAre DEF At
  <2>2. ~\E v \in F : At(v) = fresh
    BY <1>0, <1>1, <2>1 DEF Slots
  <2> QED
    BY <1>1, <2>2
<1>9. kind'[handle[fresh]] = kind[handle[fresh]]
  BY <1>1, <1>8, HandleKept DEF Step
<1>10. Held(n)' = handle[fresh]
  BY <1>5, <1>8 DEF Held
<1>11. Slots'
  <2>1. -2 \in Vars \ F /\ n \in Vars \ {-2} /\ -1 # n
    BY <1>3, <1>4, VarsAre
  <2>2. n \in F \/ At(n) = None
    BY <1>3, <1>4, VarsAre DEF At
  <2>3. At(-2)' = None /\ At(n)' = At(-2)
    BY <1>2, <1>4, <1>5, VarsAre DEF At
  <2>4. \A v \in F \ {n} : At(v)' = None
    BY <1>2, <1>3 DEF At
  <2>5. ASSUME NEW v \in Vars \ (F \cup {-2, n})
        PROVE  At(v)' = At(v)
    <3>1. v # -1 /\ v \in Levels /\ v # -2
      BY VarsAre
    <3> QED
      BY <1>5, <3>1 DEF At
  <2> QED
    BY <1>0, <1>2, <2>1, <2>2, <2>3, <2>4, <2>5, SlotsMove
<1>12. Frames'
  <2>1. \A d \in Levels : d > n + 1 => mValue'[d] = None
    <3>1. \A d \in Levels : d > n + 1 => d > n /\ d # n
      BY DomAssumption DEF Levels
    <3> QED
      BY <1>0, <1>3, <1>5, <3>1 DEF Frames
  <2>2. \A d \in 0 .. n + 1 - 1 : d = n \/ d \in 0 .. n - 1
    OBVIOUS
  <2>3. \A d \in 0 .. n + 1 - 1 :
          mValue'[d] # None /\ Held(d)' \in Blocks /\ kind'[Held(d)'] \in {"object", "array"}
    BY <1>1, <1>5, <1>7, <1>9, <1>10, <2>2 DEF Filled
  <2>4. \A d, e \in 0 .. n + 1 - 1 : Held(d)' = Held(e)' => d = e
    <3>1. \A d \in 0 .. n - 1 : Held(d)' # Held(n)'
      BY <1>1, <1>3, <1>7, <1>10
    <3> QED
      BY <1>7, <2>2, <3>1 DEF Filled
  <2>5. ASSUME NEW d \in 1 .. n + 1 - 1
        PROVE  Held(d)' \in Contents(Held(d - 1))'
    <3>1. CASE d = n
      <4>1. d - 1 = context - 2 /\ d - 1 \in 0 .. n - 1
        BY <1>3, <3>1
      <4>2. PICK b \in Blocks : b = Held(d - 1)
        BY <1>7, <4>1
      <4>3. handle[fresh] \in Contents(b)'
        BY <4>1, <4>2
      <4>4. Held(d - 1)' = b
        BY <1>7, <4>1, <4>2
      <4>5. Contents(Held(d - 1))' = Contents(b)'
        BY <4>4, HeldContentsNext
      <4> QED
        BY <1>10, <3>1, <4>3, <4>5
    <3>2. CASE d # n
      <4>1. d \in 1 .. n - 1
        BY <3>2
      <4> QED
        BY <1>7, <4>1 DEF Filled
    <3> QED
      BY <3>1, <3>2
  <2>6. Filled(n + 1)'
    BY <2>3, <2>4, <2>5 DEF Filled
  <2> QED
    BY <1>3, <2>1, <2>6 DEF Frames, Filled
<1>13. DomTypeOK'
  BY <1>0, <1>1, <1>2 DEF DomTypeOK
<1>14. Phase'
  BY <1>0, <1>2 DEF Phase
<1>15. Grammar'
  <2>1. \A i \in 1 .. n : kind'[Held(i - 1)'] = "array" <=> yajl[i] = "array"
    <3>1. Kinds(n, yajl) /\ n <= n
      BY <1>0, <1>3, KindsNow
    <3> QED
      BY <1>7, <3>1, KeepKinds
  <2>2. \A i \in 1 .. n + 1 : kind'[Held(i - 1)'] = "array" <=> yajl[i] = "array"
    <3>1. \A i \in 1 .. n + 1 : i \in 1 .. n \/ (i = n + 1 /\ i - 1 = n)
      OBVIOUS
    <3>2. kind'[Held(n)'] = "array" <=> yajl[n + 1] = "array"
      BY <1>1, <1>3, <1>9, <1>10
    <3>3. ASSUME NEW i \in 1 .. n + 1
          PROVE  kind'[Held(i - 1)'] = "array" <=> yajl[i] = "array"
      <4>1. CASE i \in 1 .. n
        BY <2>1, <4>1
      <4>2. CASE i = n + 1
        <5>1. i - 1 = n
          BY <4>2
        <5> QED
          BY <3>2, <4>2, <5>1
      <4> QED
        BY <3>1, <4>1, <4>2
    <3> QED
      BY <3>3
  <2>3. \A i \in 1 .. context : yajl[i] # "value"
    BY <1>0 DEF Grammar
  <2>4. context \in 1 .. context /\ mValue'[context'] = None
    <3>1. mValue[n + 1] = None /\ n + 1 # n
      BY <1>0, <1>3, <1>4 DEF Frames
    <3> QED
      BY <1>3, <1>4, <1>5, <3>1
  <2> QED
    BY <1>0, <1>2, <1>3, <2>2, <2>3, <2>4 DEF Grammar
<1>16. Kept'
  BY <1>0, <1>2 DEF Kept
<1> QED
  BY <1>11, <1>12, <1>13, <1>14, <1>15, <1>16 DEF DomInv

LEMMA AttachArrayStep ==
  ASSUME Step, Attach, InArray(context - 1)
  PROVE  DomInv'
<1>0. TypeOK /\ DomTypeOK /\ Slots /\ Frames /\ Phase /\ Grammar /\ Kept /\ pc = "attach"
  BY DEF Step, IInv, DomInv, Attach
<1>1. /\ context > 1 /\ context \in Nat /\ context - 1 \in Levels /\ context - 1 - 1 = context - 2
      /\ copied # None /\ copied \in Handles /\ handle[copied] = handle[fresh]
      /\ Contents(handle[fresh]) = {}
      /\ context - 2 \in 0 .. context - 2
      /\ \A d \in 0 .. context - 2 : handle[fresh] # Held(d)
  BY <1>0, DomAssumption DEF Phase, DomTypeOK, Levels
<1>2. mValue[context - 1] = None /\ Held(context - 2) \in Blocks /\ kind[Held(context - 2)] = "array"
  BY <1>1 DEF InArray, Is
<1>3. ArrayAppend(Held(context - 2), copied)
  BY <1>2 DEF Attach, UnderKey
<1>4. PICK a \in Blocks : a = Held(context - 2)
  BY <1>2
<1>5. kind[a] = "array" /\ ArrayAppend(a, copied)
  BY <1>2, <1>3, <1>4 DEF ArrayAppend, PutElem
<1>6. InsertSane(a, handle[copied])
  <2>1. handle[copied] # a
    BY <1>1, <1>4
  <2> QED
    BY <1>1, <2>1, FreshSane
<1>7. /\ handle' = [handle EXCEPT ![copied] = None] /\ lost' = lost
      /\ handle[copied] \in Contents(a)'
      /\ \A b \in Blocks \ {a} : Contents(b)' = Contents(b)
  BY <1>1, <1>5, <1>6, AppendEffect DEF Step
<1>8. PICK F \in SUBSET Vars : F = {-1}
  BY VarsAre
<1>9. \A h \in Handles : handle'[h] = IF \E v \in F : At(v) = h THEN None ELSE handle[h]
  BY <1>0, <1>7, <1>8 DEF TypeOK, At
<1>10. -1 \in F /\ F \subseteq {-1, context - 1} /\ (mValue[context - 1] # None => context - 1 \in F)
  BY <1>2, <1>8
<1>11. \A b \in Blocks : b # Held(context - 2) => Contents(b)' = Contents(b)
  BY <1>4, <1>7
<1>12. \A b \in Blocks : b = Held(context - 2) => handle[fresh] \in Contents(b)'
  BY <1>1, <1>4, <1>7
<1> QED
  BY <1>7, <1>9, <1>10, <1>11, <1>12, AttachedStep

LEMMA AttachKeyStep ==
  ASSUME Step, Attach, UnderKey(context - 1)
  PROVE  DomInv'
<1>0. TypeOK /\ DomTypeOK /\ Slots /\ Frames /\ Phase /\ Grammar /\ Kept /\ pc = "attach"
  BY DEF Step, IInv, DomInv, Attach
<1>1. /\ context > 1 /\ context \in Nat /\ context - 1 \in Levels /\ context - 1 - 1 = context - 2
      /\ copied # None /\ copied \in Handles /\ handle[copied] = handle[fresh]
      /\ Contents(handle[fresh]) = {}
      /\ context - 2 \in 0 .. context - 2
      /\ \A d \in 0 .. context - 2 : handle[fresh] # Held(d)
  BY <1>0, DomAssumption DEF Phase, DomTypeOK, Levels
<1>2. /\ mValue[context - 1] # None /\ mValue[context - 1] \in Handles
      /\ Is(handle[mValue[context - 1]], "string")
      /\ Held(context - 2) \in Blocks /\ kind[Held(context - 2)] = "object"
  BY <1>0, <1>1, ValuesHeld DEF UnderKey, Is, Held
<1>3. ObjectPut(Held(context - 2), mValue[context - 1], copied)
  BY <1>2 DEF Attach, InArray
<1>4. PICK a \in Blocks : a = Held(context - 2)
  BY <1>2
<1>5. PICK k \in Handles : k = mValue[context - 1]
  BY <1>2
<1>6. kind[a] = "object" /\ ObjectPut(a, k, copied) /\ Is(handle[k], "string")
  BY <1>2, <1>3, <1>4, <1>5 DEF ObjectPut, PutMember, Replace
<1>7. InsertSane(a, handle[copied])
  <2>1. handle[copied] # a
    BY <1>1, <1>4
  <2> QED
    BY <1>1, <2>1, FreshSane
<1>8. /\ handle' = [handle EXCEPT ![k] = None, ![copied] = None] /\ lost' = lost
      /\ handle[copied] \in Contents(a)'
      /\ \A b \in Blocks \ {a} : Contents(b)' = Contents(b)
  BY <1>1, <1>6, <1>7, PutEffect DEF Step
<1>9. PICK F \in SUBSET Vars : F = {-1, context - 1}
  BY <1>1, VarsAre
<1>10. \A h \in Handles : handle'[h] = IF \E v \in F : At(v) = h THEN None ELSE handle[h]
  <2>1. At(-1) = copied /\ At(context - 1) = k
    BY <1>1, <1>5, VarsAre DEF At
  <2> QED
    BY <1>0, <1>8, <1>9, <2>1 DEF TypeOK
<1>11. -1 \in F /\ F \subseteq {-1, context - 1} /\ (mValue[context - 1] # None => context - 1 \in F)
  BY <1>9
<1>12. \A b \in Blocks : b # Held(context - 2) => Contents(b)' = Contents(b)
  BY <1>4, <1>8
<1>13. \A b \in Blocks : b = Held(context - 2) => handle[fresh] \in Contents(b)'
  BY <1>1, <1>4, <1>8
<1> QED
  BY <1>8, <1>10, <1>11, <1>12, <1>13, AttachedStep

LEMMA AttachStep ==
  ASSUME Step, Attach
  PROVE  DomInv'
BY AttachArrayStep, AttachKeyStep DEF Attach

(* dom_object_key, for the text and for defaults.                          *)
LEMMA KeyStep ==
  ASSUME Step, NEW n \in Keys, NEW h \in Handles, KeyAllowed, Takes(h), Key(n, h),
         yajl' = Append(Front(yajl), "value"),
         UNCHANGED <<context, fresh, copied, results>>, defaultsAt' \in Levels
  PROVE  DomInv'
<1>0. /\ TypeOK /\ DomTypeOK /\ Slots /\ Frames /\ Phase /\ Grammar /\ Kept
      /\ pc = "feed" /\ status = "reading" /\ handle[h] = None /\ h # None
      /\ yajl \in Seq(Entries) /\ yajl # <<>> /\ yajl[Len(yajl)] = "key"
  BY DomAssumption DEF Step, IInv, DomInv, KeyAllowed, Takes, DomTypeOK, Entries, Last
<1>1. /\ Len(yajl) \in Nat /\ Len(yajl) > 0
      /\ Front(yajl) \in Seq(Entries) /\ Len(Front(yajl)) = Len(yajl) - 1
      /\ \A i \in 1 .. Len(yajl) - 1 : Front(yajl)[i] = yajl[i]
  BY <1>0, FrontEntries
<1>2. PICK m \in Nat : /\ m = context /\ m > 0 /\ m = Len(yajl) /\ Depth = m /\ m <= MaxDepth
                       /\ m \in Levels /\ m \in 1 .. m /\ m - 1 \in 0 .. m - 1 /\ m - 1 \in Levels
  BY <1>0, <1>1, DomAssumption DEF Grammar, Depth, DomTypeOK, Levels
<1>3. mValue[m] = None
  BY <1>0, <1>2 DEF Grammar
<1>4. Held(m - 1) \in Blocks /\ kind[Held(m - 1)] = "object"
  <2>1. Held(m - 1) \in Blocks /\ kind[Held(m - 1)] \in {"object", "array"}
    BY <1>0, <1>2 DEF Frames, Filled
  <2>2. kind[Held(m - 1)] = "array" <=> yajl[m] = "array"
    BY <1>0, <1>2 DEF Grammar
  <2> QED
    BY <1>0, <1>2, <2>1, <2>2
<1>5. /\ Lookup(n, h) /\ mValue' = [mValue EXCEPT ![m] = h] /\ given' = n
      /\ pc' = "feed" /\ status' = status
  BY <1>2, <1>3, <1>4 DEF Key, TakesKey, Parent, Is, Proceed
<1>6. PICK x \in Blocks : Takes1(h, x) /\ kind'[x] = "string"
  <2>1. ASSUME NEW b \in Interned(n), LookupKey(b, h)
        PROVE  b \in Blocks /\ Takes1(h, b) /\ kind'[b] = "string"
    BY <1>0, <2>1, ConstsDiffer DEF Interned, LookupKey, Share, Is, Takes1, containers
  <2>2. ASSUME NEW b \in Blocks, CreateString(h, b, n)
        PROVE  Takes1(h, b) /\ kind'[b] = "string"
    BY <1>0, <2>2, ConstsDiffer DEF CreateString, Create, Alloc, Takes1, TypeOK
  <2> QED
    BY <1>5, <2>1, <2>2 DEF Lookup
<1>7. /\ handle'[h] = x
      /\ \A d \in Levels : mValue[d] # None => handle'[mValue[d]] = handle[mValue[d]]
      /\ \A c : Contents(c)' = Contents(c)
  BY <1>6, TakesApart
<1>8. mValue'[m] = h /\ \A d \in Levels : d # m => mValue'[d] = mValue[d]
  BY <1>0, <1>2, <1>5 DEF DomTypeOK
<1>9. /\ Filled(m)'
      /\ \A d \in 0 .. m - 1 :
           Held(d) \in Blocks /\ Held(d)' = Held(d) /\ kind'[Held(d)] = kind[Held(d)]
  <2>1. \A d \in 0 .. m - 1 : d \in Levels /\ d # m /\ mValue[d] # None
    BY <1>0, <1>2, DomAssumption DEF Frames, Filled, Levels
  <2>2. Unmoved(m)
    BY <1>7, <1>8, <2>1 DEF Unmoved
  <2>3. Filled(m) /\ m <= m /\ m <= MaxDepth + 1
    BY <1>0, <1>2, DomAssumption DEF Frames
  <2> QED
    BY <1>0, <2>2, <2>3, KeepFilled, KeepLevel DEF Step
<1>10. Depth' = m
  BY <1>2, <1>5 DEF Depth
<1>11. Frames'
  <2>1. \A d \in Levels : d > m => d # m
    BY DomAssumption DEF Levels
  <2>2. \A d \in Levels : d > m => mValue'[d] = None
    BY <1>0, <1>2, <1>8, <2>1 DEF Frames
  <2> QED
    BY <1>9, <1>10, <2>2 DEF Frames, Filled
<1>12. Slots'
  <2>1. m \in Vars /\ At(m) = None /\ At(m)' = h /\ \A w \in Vars \ {m} : At(w)' = At(w)
    BY <1>2, <1>3, <1>8, VarsAre DEF At
  <2> QED
    BY <1>0, <1>6, <2>1, SlotsTake DEF Takes1
<1>13. /\ yajl' \in Seq(Entries) /\ Len(yajl') = m
       /\ yajl'[m] = "value" /\ \A i \in 1 .. m - 1 : yajl'[i] = yajl[i]
  <2>1. "value" \in Entries
    BY DEF Entries
  <2> QED
    BY <1>1, <1>2, <2>1, AppendEntries
<1>14. DomTypeOK'
  BY <1>0, <1>2, <1>5, <1>13 DEF DomTypeOK, Entries
<1>15. Phase'
  BY <1>0, <1>5 DEF Phase
<1>16. Held(m)' = x /\ Held(m - 1)' = Held(m - 1) /\ kind'[Held(m - 1)] = "object"
  BY <1>2, <1>4, <1>7, <1>8, <1>9 DEF Held
<1>17. Grammar'
  <2>1. \A i \in 1 .. m : kind'[Held(i - 1)'] = "array" <=> yajl[i] = "array"
    <3>1. Kinds(m, yajl) /\ m <= m
      BY <1>0, <1>2, KindsNow
    <3> QED
      BY <1>9, <3>1, KeepKinds
  <2>2. \A i \in 1 .. m : i = m \/ i \in 1 .. m - 1
    OBVIOUS
  <2>3. \A i \in 1 .. m : kind'[Held(i - 1)'] = "array" <=> yajl'[i] = "array"
    BY <1>0, <1>2, <1>13, <2>1, <2>2
  <2>4. \A i \in 1 .. m : yajl'[i] = "value" => i = m
    <3>1. \A i \in 1 .. m : yajl[i] = "value" => i = m
      BY <1>0, <1>2 DEF Grammar
    <3> QED
      BY <1>13, <2>2, <3>1
  <2>5. UnderKey(m)'
    BY <1>0, <1>2, <1>4, <1>6, <1>8, <1>16 DEF UnderKey, Is
  <2>6. UnderKey(context)'
    BY <1>2, <2>5 DEF UnderKey, Is, Held
  <2> QED
    BY <1>0, <1>2, <1>5, <1>8, <1>10, <1>13, <2>3, <2>4, <2>6 DEF Grammar
<1>18. Kept'
  BY <1>0, <1>5, <1>6 DEF Kept, Takes1
<1> QED
  BY <1>11, <1>12, <1>14, <1>15, <1>17, <1>18 DEF DomInv

(* dom_object_end and dom_array_end.                                       *)
LEMMA EndEffect ==
  ASSUME Step, NEW k \in {"object", "array"}, End(k)
  PROVE  \E m \in Nat :
           /\ m + 1 = context /\ m + 1 <= MaxDepth /\ Depth = m + 1 /\ m = context - 1
           /\ mValue[m + 1] = None
           /\ Len(yajl) = m + 1 /\ context' = m /\ Depth' = m
           /\ yajl' \in Seq(Entries) /\ Len(yajl') = m
           /\ \A i \in 1 .. m : yajl'[i] = yajl[i] /\ yajl[i] # "value"
           /\ status' = (IF m = 0 THEN "complete" ELSE "reading")
           /\ (m = 0 /\ UNCHANGED <<vars, mValue>>)
              \/ (m > 0 /\ Release(mValue[m]) /\ mValue' = [mValue EXCEPT ![m] = None])
<1>0. /\ TypeOK /\ DomTypeOK /\ Frames /\ Phase /\ Grammar /\ pc = "feed"
      /\ yajl \in Seq(Entries) /\ yajl # <<>> /\ yajl[Len(yajl)] \in {"key", "array"}
      /\ (yajl[Len(yajl)] = "array" <=> k = "array")
  BY DEF Step, IInv, DomInv, End, Closes, DomTypeOK, Entries, Last
<1>1. /\ Len(yajl) \in Nat /\ Len(yajl) > 0
      /\ Front(yajl) \in Seq(Entries) /\ Len(Front(yajl)) = Len(yajl) - 1
      /\ \A i \in 1 .. Len(yajl) - 1 : Front(yajl)[i] = yajl[i]
      /\ Front(yajl) = <<>> <=> Len(yajl) = 1
  BY <1>0, FrontEntries
<1>2. PICK m \in Nat : m + 1 = Len(yajl)
  <2>1. Len(yajl) - 1 \in Nat /\ Len(yajl) - 1 + 1 = Len(yajl)
    BY <1>1
  <2> QED
    BY <2>1
<1>3. /\ context = m + 1 /\ Depth = m + 1 /\ m + 1 <= MaxDepth /\ m = context - 1
      /\ m + 1 \in 1 .. m + 1 /\ m \in 0 .. m + 1 - 1 /\ m + 1 - 1 = m
      /\ m + 1 \in Levels /\ m \in Levels
  BY <1>0, <1>2, DomAssumption DEF Grammar, Depth, DomTypeOK, Levels
<1>4. mValue[m + 1] = None
  BY <1>0, <1>2, <1>3 DEF Grammar
<1>5. Held(m) \in Blocks /\ kind[Held(m)] = k
  <2>1. Held(m) \in Blocks /\ kind[Held(m)] \in {"object", "array"}
    BY <1>0, <1>3 DEF Frames, Filled
  <2>2. kind[Held(m)] = "array" <=> yajl[m + 1] = "array"
    <3>1. kind[Held(m + 1 - 1)] = "array" <=> yajl[m + 1] = "array"
      BY <1>0, <1>3 DEF Grammar
    <3> QED
      BY <1>3, <3>1
  <2> QED
    BY <1>0, <1>2, <2>1, <2>2
<1>6. mValue[context] = None /\ Is(Parent, k)
  BY <1>3, <1>4, <1>5 DEF Parent, Is
<1>7. /\ context' = context - 1 /\ yajl' = Front(yajl) /\ pc' = "feed"
      /\ status' = StatusAfter(Front(yajl))
      /\ (context = 1 /\ UNCHANGED <<vars, mValue>>)
         \/ (context > 1 /\ Release(mValue[context - 1])
               /\ mValue' = [mValue EXCEPT ![context - 1] = None])
  BY <1>0, <1>6 DEF End
<1>8. context' = m /\ Depth' = m /\ (context = 1 <=> m = 0) /\ (context > 1 <=> m > 0)
  BY <1>3, <1>7 DEF Depth
<1>9. status' = (IF m = 0 THEN "complete" ELSE "reading")
  BY <1>1, <1>2, <1>7 DEF StatusAfter
<1>10. \A i \in 1 .. m : yajl'[i] = yajl[i] /\ yajl[i] # "value"
  <2>1. \A i \in 1 .. m + 1 : yajl[i] = "value" => i = m + 1
    BY <1>0, <1>3 DEF Grammar
  <2>2. \A i \in 1 .. m : i \in 1 .. m + 1 /\ i # m + 1 /\ i \in 1 .. Len(yajl) - 1
    BY <1>2
  <2> QED
    BY <1>1, <1>7, <2>1, <2>2
<1>11. yajl' \in Seq(Entries) /\ Len(yajl') = m
  BY <1>1, <1>2, <1>7
<1>12. (m = 0 /\ UNCHANGED <<vars, mValue>>)
       \/ (m > 0 /\ Release(mValue[m]) /\ mValue' = [mValue EXCEPT ![m] = None])
  BY <1>3, <1>7, <1>8
<1> QED
  BY <1>2, <1>3, <1>4, <1>8, <1>9, <1>10, <1>11, <1>12

(* The innermost record goes, with the references of the variables F.      *)
Pops(m, n, F) ==
  /\ m <= n /\ n <= m + 1
  /\ F \subseteq {m, n} /\ \A v \in F : mValue[v] # None
  /\ \A d \in Levels : mValue'[d] = IF d \in F THEN None ELSE mValue[d]
  /\ \A h \in Handles : handle'[h] = IF \E v \in F : mValue[v] = h THEN None ELSE handle[h]
  /\ UNCHANGED <<size, elem, keyOf, value, fresh, copied, results>>
  /\ n > m => mValue'[n] = None

LEMMA Popped ==
  ASSUME Step, NEW n \in Nat, Depth = n, n <= MaxDepth, NEW m \in Nat, NEW F \in SUBSET Vars,
         Pops(m, n, F)
  PROVE  /\ Slots' /\ Filled(m)' /\ \A d \in Levels : d > m => mValue'[d] = None
         /\ \A d \in 0 .. m - 1 : Held(d)' = Held(d) /\ kind'[Held(d)] = kind[Held(d)]
<1>a. /\ m <= n /\ n <= m + 1 /\ F \subseteq {m, n} /\ \A v \in F : mValue[v] # None
      /\ \A d \in Levels : mValue'[d] = IF d \in F THEN None ELSE mValue[d]
      /\ \A h \in Handles : handle'[h] = IF \E v \in F : mValue[v] = h THEN None ELSE handle[h]
      /\ UNCHANGED <<size, elem, keyOf, value, fresh, copied, results>>
      /\ n > m => mValue'[n] = None
  BY DEF Pops
<1>0. TypeOK /\ DomTypeOK /\ Slots /\ Frames /\ m \in Levels /\ n \in Levels
  BY <1>a, DomAssumption DEF Step, IInv, DomInv, Levels
<1>1. \A v \in F : v \in Levels /\ v \in Vars /\ At(v) = mValue[v]
  BY <1>a, <1>0, VarsAre DEF At
<1>2. \A h \in Handles : handle'[h] = IF \E v \in F : At(v) = h THEN None ELSE handle[h]
  BY <1>a, <1>1
<1>3. Slots'
  <2>1. \A v \in F : At(v)' = None
    BY <1>a, <1>1, VarsAre DEF At
  <2>2. ASSUME NEW v \in Vars \ F
        PROVE  At(v)' = At(v)
    <3>1. CASE v \in Levels
      BY <1>a, <3>1, VarsAre DEF At
    <3>2. CASE v \notin Levels
      BY <1>a, <3>2, VarsAre DEF At
    <3> QED
      BY <3>1, <3>2
  <2> QED
    BY <1>a, <1>0, <1>2, <2>1, <2>2, SlotsFree
<1>4. /\ Filled(m)'
      /\ \A d \in 0 .. m - 1 : Held(d)' = Held(d) /\ kind'[Held(d)] = kind[Held(d)]
  <2>1. \A d \in 0 .. m - 1 : d \in Levels /\ d \notin F
    BY <1>a, DomAssumption DEF Levels
  <2>2. \A b \in Blocks : Contents(b)' = Contents(b)
    BY <1>a, ContentsSame
  <2>3. Spared(m, n, F)
    BY <1>a, <1>2, <2>1, <2>2 DEF Spared
  <2> QED
    BY <1>a, <2>3, GivesApart
<1>5. ASSUME NEW d \in Levels, d > m
      PROVE  mValue'[d] = None
  <2>1. d = n \/ d > n
    BY <1>a, <1>5 DEF Levels
  <2> QED
    BY <1>a, <1>0, <1>5, <2>1 DEF Frames
<1> QED
  BY <1>3, <1>4, <1>5

LEMMA EndStep ==
  ASSUME Step, NEW k \in {"object", "array"}, End(k)
  PROVE  DomInv'
<1>0. TypeOK /\ DomTypeOK /\ Slots /\ Frames /\ Phase /\ Grammar /\ Kept /\ pc = "feed"
  BY DEF Step, IInv, DomInv, End, Closes
<1>1. PICK m \in Nat :
        /\ m + 1 = context /\ m + 1 <= MaxDepth /\ Depth = m + 1 /\ m = context - 1
        /\ mValue[m + 1] = None
        /\ Len(yajl) = m + 1 /\ context' = m /\ Depth' = m
        /\ yajl' \in Seq(Entries) /\ Len(yajl') = m
        /\ \A i \in 1 .. m : yajl'[i] = yajl[i] /\ yajl[i] # "value"
        /\ status' = (IF m = 0 THEN "complete" ELSE "reading")
        /\ (m = 0 /\ UNCHANGED <<vars, mValue>>)
           \/ (m > 0 /\ Release(mValue[m]) /\ mValue' = [mValue EXCEPT ![m] = None])
  BY EndEffect
<1>2. /\ UNCHANGED <<pc, given, fresh, copied, results>>
      /\ defaultsAt' = IF defaultsAt = Len(yajl) THEN 0 ELSE defaultsAt
  BY DEF End
<1>3. m \in Levels /\ m + 1 \in Levels /\ 0 \in Levels /\ m + 1 \in Nat /\ m <= m + 1 /\ m # m + 1
  BY <1>1, DomAssumption DEF Levels
<1>4. /\ Slots' /\ Filled(m)' /\ \A d \in Levels : d > m => mValue'[d] = None
      /\ \A d \in 0 .. m - 1 : Held(d)' = Held(d) /\ kind'[Held(d)] = kind[Held(d)]
      /\ lost' = lost /\ mValue' \in [Levels -> Handles \cup {None}]
      /\ m > 0 => mValue'[m] = None
  <2>0. PICK n \in Nat : n = m + 1 /\ Depth = n /\ n <= MaxDepth /\ m <= n /\ n <= m + 1
    BY <1>1, <1>3
  <2>1. CASE m = 0 /\ UNCHANGED <<vars, mValue>>
    <3>1. PICK F \in SUBSET Vars : F = {}
      OBVIOUS
    <3>2. Pops(m, n, F)
      BY <1>1, <1>2, <2>0, <2>1, <3>1 DEF Pops, vars
    <3>3. lost' = lost /\ mValue' \in [Levels -> Handles \cup {None}]
      BY <1>0, <2>1 DEF vars, DomTypeOK
    <3> QED
      BY <2>0, <2>1, <3>2, <3>3, Popped
  <2>2. CASE m > 0 /\ Release(mValue[m]) /\ mValue' = [mValue EXCEPT ![m] = None]
    <3>1. PICK F \in SUBSET Vars : F = {m}
      BY <1>3, VarsAre
    <3>2. mValue[m] # None /\ mValue[m] \in Handles
      <4>1. Filled(n) /\ m \in 0 .. n - 1
        BY <1>0, <2>0 DEF Frames
      <4>2. mValue[m] # None
        BY <4>1 DEF Filled
      <4> QED
        BY <1>0, <1>3, <4>2, ValuesHeld
    <3>3. /\ mValue' \in [Levels -> Handles \cup {None}] /\ mValue'[m] = None
          /\ \A d \in Levels : mValue'[d] = IF d \in F THEN None ELSE mValue[d]
          /\ mValue'[n] = None
      BY <1>0, <1>1, <1>3, <2>0, <2>2, <3>1 DEF DomTypeOK
    <3>4. /\ \A h \in Handles : handle'[h] = IF \E v \in F : mValue[v] = h THEN None ELSE handle[h]
          /\ UNCHANGED <<size, elem, keyOf, value, fresh, copied, results, lost>>
      BY <1>0, <1>2, <2>2, <3>1, <3>2 DEF Release, containers, TypeOK
    <3>5. Pops(m, n, F)
      BY <2>0, <3>1, <3>2, <3>3, <3>4 DEF Pops
    <3> QED
      BY <2>0, <2>2, <3>3, <3>4, <3>5, Popped
  <2> QED
    BY <1>1, <2>1, <2>2
<1>5. Frames'
  BY <1>1, <1>4 DEF Frames, Filled
<1>6. DomTypeOK'
  <2>1. Len(yajl') <= MaxDepth
    BY <1>1, DomAssumption
  <2> QED
    BY <1>0, <1>1, <1>2, <1>3, <1>4, <2>1 DEF DomTypeOK, Entries
<1>7. Phase'
  BY <1>0, <1>2 DEF Phase
<1>8. Grammar'
  <2>1. \A i \in 1 .. m : kind'[Held(i - 1)'] = "array" <=> yajl[i] = "array"
    <3>1. Kinds(m + 1, yajl) /\ m <= m + 1 /\ m + 1 \in Nat
      BY <1>0, <1>1, <1>3, KindsNow
    <3> QED
      BY <1>4, <3>1, KeepKinds
  <2>2. m > 0 => m \in 1 .. m
    OBVIOUS
  <2> QED
    BY <1>0, <1>1, <1>2, <1>4, <2>1, <2>2 DEF Grammar
<1>9. Kept'
  BY <1>0, <1>1, <1>4 DEF Kept
<1> QED
  BY <1>4, <1>5, <1>6, <1>7, <1>8, <1>9 DEF DomInv

-----------------------------------------------------------------------------
(* The client, and the rest of j_release.                                  *)

LEMMA CalmGrammar ==
  ASSUME Step, Calm, UNCHANGED <<pc, context, yajl>>, status' = "reading" => status = "reading"
  PROVE  Grammar'
<1>0. DomTypeOK /\ Phase /\ Grammar
  BY DEF Step, DomInv
<1>1. /\ \A d \in 0 .. Depth - 1 :
           Held(d) \in Blocks /\ Held(d)' = Held(d) /\ kind'[Held(d)] = kind[Held(d)]
      /\ \A d \in 1 .. Depth : UnderKey(d) => UnderKey(d)'
  BY CalmFrames
<1>2. mValue' = mValue /\ Depth' = Depth
  BY DEF Calm
<1> SUFFICES ASSUME pc \notin {"none", "cleanup"}
             PROVE  /\ Len(yajl) = context
                    /\ \A i \in 1 .. Depth : kind'[Held(i - 1)'] = "array" <=> yajl[i] = "array"
                    /\ \A i \in 1 .. context : yajl[i] = "value" => pc = "feed" /\ i = context
                    /\ pc = "feed" /\ context > 0 => (yajl[context] = "value" <=> mValue[context] # None)
                    /\ pc = "feed" /\ context > 0 /\ mValue[context] # None => UnderKey(context)'
                    /\ pc = "feed" /\ context = 0 /\ status' = "reading" => mValue[0] = None
  BY <1>2 DEF Grammar
<1>3. \A i \in 1 .. Depth : kind'[Held(i - 1)'] = "array" <=> yajl[i] = "array"
  <2>1. PICK n \in Nat : n = Depth /\ n <= n
    BY <1>0, DepthRange
  <2>2. Kinds(n, yajl)
    BY <1>0, <2>1, KindsNow
  <2> QED
    BY <1>1, <2>1, <2>2, KeepKinds
<1>4. pc = "feed" /\ context > 0 => context \in 1 .. Depth
  BY <1>0 DEF Depth, DomTypeOK, Levels
<1>5. pc = "feed" /\ context > 0 /\ mValue[context] # None => UnderKey(context)'
  BY <1>0, <1>1, <1>4 DEF Grammar
<1> QED
  BY <1>0, <1>3, <1>5 DEF Grammar

(* Between callbacks the parser has nothing in its locals.                 *)
LEMMA RestPhase ==
  ASSUME Step, UNCHANGED <<context, mValue, fresh, copied>>, pc \in {"none", "feed"},
         pc' \in {pc, "feed", "cleanup"}
  PROVE  Phase' /\ Depth' = Depth
BY DEF Step, DomInv, Phase, Depth

LEMMA StillCalm ==
  ASSUME Step, UNCHANGED <<vars, mValue>>, Depth' = Depth
  PROVE  Calm
<1>1. \A b \in Blocks : Contents(b)' = Contents(b)
  BY ContentsSame DEF vars
<1> QED
  BY <1>1 DEF Calm, vars

LEMMA StillSlots ==
  ASSUME Slots, UNCHANGED <<handle, mValue, fresh, copied, results>>
  PROVE  Slots'
<1>1. \A v \in Vars : At(v)' = At(v)
  BY DEF At
<1> QED
  BY <1>1 DEF Slots

(* jdomparser_init, the ends of a document and jdomparser_deinit.          *)
LEMMA StillStep ==
  ASSUME Step, InitParser \/ ParseError \/ EndOfInput \/ Deinit
  PROVE  DomInv'
<1>0. DomTypeOK /\ Slots /\ Frames /\ Phase /\ Grammar /\ Kept
  BY DEF Step, DomInv
<1>1. /\ UNCHANGED <<vars, context, mValue, fresh, copied, results>>
      /\ pc \in {"none", "feed"} /\ pc' \in {pc, "feed", "cleanup"}
      /\ defaultsAt' \in {defaultsAt, 0}
  BY DEF InitParser, ParseError, EndOfInput, Deinit, InClient, RefusesDefaults
<1>2. Phase' /\ Depth' = Depth
  BY <1>1, RestPhase
<1>3. Calm
  BY <1>1, <1>2, StillCalm
<1>4. Frames'
  BY <1>3, CalmFrames
<1>5. Slots'
  BY <1>0, <1>1, StillSlots DEF vars
<1>6. DomTypeOK'
  <2>1. CASE InitParser
    <3>1. <<>> \in Seq({"key", "value", "array"}) /\ Len(<<>>) <= MaxDepth
      BY DomAssumption
    <3> QED
      BY <1>0, <1>1, <2>1, <3>1 DEF InitParser, DomTypeOK
  <2>2. CASE ParseError \/ EndOfInput \/ Deinit
    <3>1. defaultsAt' \in Levels
      BY <1>0, <1>1, DomAssumption DEF DomTypeOK, Levels
    <3> QED
      BY <1>0, <1>1, <2>2, <3>1 DEF ParseError, EndOfInput, Deinit, InClient, RefusesDefaults, DomTypeOK
  <2> QED
    BY <2>1, <2>2
<1>7. Grammar'
  <2>1. CASE InitParser
    <3>1. yajl' = <<>> /\ Len(yajl') = 0 /\ context' = 0 /\ mValue'[0] = None /\ Depth' = 0
      BY <1>0, <1>1, <2>1 DEF InitParser, Phase, Depth
    <3>2. (\A i \in 1 .. 0 : FALSE) /\ ~(0 > 0)
      OBVIOUS
    <3> QED
      BY <3>1, <3>2 DEF Grammar
  <2>2. CASE ParseError \/ EndOfInput
    BY <1>3, <2>2, CalmGrammar DEF ParseError, EndOfInput
  <2>3. CASE Deinit
    BY <2>3 DEF Deinit, Grammar
  <2> QED
    BY <2>1, <2>2, <2>3
<1>8. Kept'
  BY <1>0, <1>1 DEF Kept, InitParser, ParseError, EndOfInput, Deinit, vars
<1> QED
  BY <1>2, <1>4, <1>5, <1>6, <1>7, <1>8 DEF DomInv

(* jdomparser_get_result.                                                  *)
LEMMA GetResultStep ==
  ASSUME Step, NEW h \in Handles, GetResult(h)
  PROVE  DomInv'
<1>0. /\ TypeOK /\ DomTypeOK /\ Slots /\ Frames /\ Phase /\ Grammar /\ Kept
      /\ pc = "feed" /\ mValue[0] # None /\ handle[h] = None /\ h # None
      /\ UNCHANGED <<pc, context, mValue, given, fresh, copied, yajl, status, defaultsAt>>
      /\ results' = results \cup {h}
  BY DomAssumption DEF Step, IInv, DomInv, GetResult, InClient, Takes
<1>1. PICK x : x = Held(0)
  OBVIOUS
<1>2. Takes1(h, x)
  <2>1. 0 \in Vars /\ At(0) = mValue[0]
    BY VarsAre, DomAssumption DEF At, Levels
  <2>2. x # None
    BY <1>0, <1>1, <2>1 DEF Slots, Held
  <2> QED
    BY <1>0, <1>1, <2>2 DEF GetResult, Copy, Share, Takes1, containers
<1>3. /\ handle'[h] = x /\ x # None
      /\ \A g \in Handles : handle[g] # None => g # h /\ handle'[g] = handle[g]
      /\ \A v \in Vars : At(v) # None => At(v) # h
      /\ \A d \in Levels : mValue[d] # None => handle'[mValue[d]] = handle[mValue[d]]
      /\ \A b : Contents(b)' = Contents(b)
      /\ \A g \in Handles : g # h => handle'[g] = handle[g]
  BY <1>0, <1>2, TakesApart DEF Takes1, TypeOK
<1>4. Phase' /\ Depth' = Depth
  BY <1>0, RestPhase
<1>5. Calm
  BY <1>0, <1>3, <1>4 DEF Calm
<1>6. Frames'
  BY <1>5, CalmFrames
<1>7. Grammar'
  BY <1>0, <1>5, CalmGrammar
<1>8. Slots'
  <2>1. \A v \in Vars : At(v)' = At(v) /\ At(v) \in Handles \cup {None}
    BY <1>0 DEF At, DomTypeOK, Vars, Levels
  <2>2. \A v \in Vars : At(v) # None => handle'[At(v)] # None /\ At(v) \notin results'
    BY <1>0, <1>3, <2>1 DEF Slots
  <2>3. \A v, w \in Vars : At(v) # None /\ At(v) = At(w) => v = w
    BY <1>0 DEF Slots
  <2>4. \A g \in results' : handle'[g] # None
    BY <1>0, <1>3 DEF Slots, DomTypeOK
  <2>5. \A g \in Handles : handle'[g] # None => g \in results' \/ \E v \in Vars : At(v) = g
    BY <1>0, <1>3 DEF Slots
  <2> QED
    BY <2>1, <2>2, <2>3, <2>4, <2>5 DEF Slots
<1>9. DomTypeOK'
  BY <1>0 DEF DomTypeOK
<1>10. Kept'
  BY <1>0, <1>2 DEF Kept, Takes1
<1> QED
  BY <1>4, <1>6, <1>7, <1>8, <1>9, <1>10 DEF DomInv

(* j_release of a result.                                                  *)
LEMMA ReleaseResultStep ==
  ASSUME Step, NEW h \in Handles, ReleaseResult(h)
  PROVE  DomInv'
<1>0. /\ TypeOK /\ DomTypeOK /\ Slots /\ Frames /\ Phase /\ Grammar /\ Kept
      /\ pc \in {"none", "feed"} /\ h \in results /\ h # None
      /\ UNCHANGED <<pc, context, mValue, given, fresh, copied, yajl, status, defaultsAt>>
      /\ results' = results \ {h}
      /\ handle' = [handle EXCEPT ![h] = None]
      /\ UNCHANGED <<size, elem, keyOf, value, lost>>
  BY DomAssumption DEF Step, IInv, DomInv, ReleaseResult, InClient, Release, containers
<1>1. /\ handle'[h] = None
      /\ \A g \in Handles : g # h => handle'[g] = handle[g]
  BY <1>0 DEF TypeOK
<1>2. \A v \in Vars : At(v)' = At(v) /\ At(v) \in Handles \cup {None} /\ At(v) # h
  BY <1>0 DEF Slots, At, DomTypeOK, Vars, Levels
<1>3. \A d \in Levels : mValue[d] # None => handle'[mValue[d]] = handle[mValue[d]]
  <2>1. \A d \in Levels : d \in Vars /\ At(d) = mValue[d]
    BY VarsAre DEF At
  <2> QED
    BY <1>0, <1>1, <1>2, <2>1, ValuesHeld
<1>4. Phase' /\ Depth' = Depth
  BY <1>0, RestPhase
<1>5. Calm
  <2>1. \A b \in Blocks : Contents(b)' = Contents(b)
    BY <1>0, ContentsSame
  <2> QED
    BY <1>0, <1>3, <1>4, <2>1 DEF Calm
<1>6. Frames'
  BY <1>5, CalmFrames
<1>7. Grammar'
  BY <1>0, <1>5, CalmGrammar
<1>8. Slots'
  <2>1. \A v \in Vars : At(v) # None => handle'[At(v)] # None /\ At(v) \notin results'
    BY <1>0, <1>1, <1>2 DEF Slots
  <2>2. \A v, w \in Vars : At(v) # None /\ At(v) = At(w) => v = w
    BY <1>0 DEF Slots
  <2>3. \A g \in results' : handle'[g] # None
    BY <1>0, <1>1 DEF Slots, DomTypeOK
  <2>4. \A g \in Handles : handle'[g] # None => g \in results' \/ \E v \in Vars : At(v) = g
    BY <1>0, <1>1 DEF Slots
  <2> QED
    BY <1>2, <2>1, <2>2, <2>3, <2>4 DEF Slots
<1>9. DomTypeOK'
  BY <1>0 DEF DomTypeOK
<1>10. Kept'
  BY <1>0 DEF Kept
<1> QED
  BY <1>4, <1>6, <1>7, <1>8, <1>9, <1>10 DEF DomInv

(* j_release goes on, or nothing happens.                                  *)
LEMMA IdleStep ==
  ASSUME Step, Releasing \/ UNCHANGED vars, UNCHANGED domVars
  PROVE  DomInv'
<1>0. /\ TypeOK /\ DomTypeOK /\ Slots /\ Frames /\ Phase /\ Grammar /\ Kept
      /\ UNCHANGED <<pc, context, mValue, given, fresh, copied, yajl, status, defaultsAt, results>>
      /\ UNCHANGED <<handle, lost>>
  BY DEF Step, IInv, DomInv, domVars, vars, Releasing, ReleaseLocal, ReleaseElem, Free,
         ReleaseKey, ReleaseValue
<1>1. \A b \in Blocks : kind[b] \in Live => Contents(b)' = Contents(b)
  <2>1. CASE Releasing
    BY <2>1, ReleasingContents DEF Step
  <2>2. CASE UNCHANGED vars
    BY <2>2, ContentsSame DEF vars
  <2> QED
    BY <2>1, <2>2
<1>2. Calm
  BY <1>0, <1>1 DEF Calm, Depth
<1>3. /\ Frames'
      /\ \A d \in 0 .. Depth - 1 : mValue[d] # None /\ Held(d)' = Held(d)
      /\ \A d \in 1 .. Depth :
           (InArray(d) => InArray(d)') /\ (UnderKey(d) => UnderKey(d)')
  BY <1>2, CalmFrames
<1>4. Grammar'
  BY <1>0, <1>2, CalmGrammar
<1>5. Slots'
  BY <1>0, StillSlots
<1>6. DomTypeOK' /\ Kept'
  BY <1>0 DEF DomTypeOK, Kept
<1>7. Phase'
  <2>1. CASE pc = "place"
    <3>1. fresh \in Handles /\ Depth = context
      BY <1>0, <2>1 DEF Phase, DomTypeOK, Depth
    <3>2. (Is(handle[fresh], "string") \/ handle[fresh] = Const)'
      <4>1. handle[fresh] \in Blocks => kind'[handle[fresh]] = kind[handle[fresh]]
        BY <1>0, <3>1, HandleKept DEF Step
      <4> QED
        BY <1>0, <2>1, <4>1 DEF Phase, Is
    <3>3. Room(context) => Room(context)'
      <4>1. Room(context) => context \in 1 .. Depth
        BY <1>0, <3>1 DEF Room, InArray, UnderKey, DomTypeOK, Levels
      <4> QED
        BY <1>0, <1>3, <4>1 DEF Room
    <3> QED
      BY <1>0, <2>1, <3>2, <3>3 DEF Phase, AtTop
  <2>2. CASE pc \in {"copy", "attach"}
    <3>0. fresh \in Handles /\ fresh # None /\ handle[fresh] \in Blocks /\ context > 1 /\ Depth = context - 1
      BY <1>0, <2>2 DEF Phase, DomTypeOK, Depth
    <3>1. PICK f \in Blocks : f = handle[fresh]
      BY <3>0
    <3>2. kind[f] \in Live /\ kind'[f] = kind[f]
      BY <1>0, <3>0, <3>1, HandleKept DEF Step
    <3>3. Contents(f)' = Contents(f)
      BY <1>1, <3>2
    <3>4. Contents(handle[fresh])' = {}
      <4>1. Contents(handle[fresh])' = Contents(f)'
        BY <1>0, <3>1 DEF Contents
      <4> QED
        BY <1>0, <2>2, <3>1, <3>3, <4>1 DEF Phase
    <3>5. Room(context - 1)'
      <4>1. context - 1 \in 1 .. Depth
        BY <1>0, <3>0 DEF DomTypeOK, Levels
      <4> QED
        BY <1>0, <1>3, <2>2, <4>1 DEF Room, Phase
    <3>6. \A d \in 0 .. context - 2 : handle'[fresh] # Held(d)'
      <4>1. \A d \in 0 .. context - 2 : d \in 0 .. Depth - 1
        BY <1>0, <3>0 DEF DomTypeOK, Levels
      <4> QED
        BY <1>0, <1>3, <2>2, <4>1 DEF Phase
    <3> QED
      BY <1>0, <2>2, <3>0, <3>1, <3>2, <3>4, <3>5, <3>6 DEF Phase
  <2>3. CASE pc \notin {"place", "copy", "attach"}
    BY <1>0, <2>3 DEF Phase
  <2> QED
    BY <2>1, <2>2, <2>3
<1> QED
  BY <1>3, <1>4, <1>5, <1>6, <1>7 DEF DomInv

(* dom_cleanup takes one record.                                           *)
LEMMA CleanupStep ==
  ASSUME Step, Cleanup
  PROVE  DomInv'
<1>0. /\ TypeOK /\ DomTypeOK /\ Slots /\ Frames /\ Phase /\ Kept /\ pc = "cleanup"
      /\ mValue' = [mValue EXCEPT ![context] = None]
      /\ UNCHANGED <<given, fresh, copied, yajl, status, defaultsAt, results>>
  BY DEF Step, IInv, DomInv, Cleanup
<1>1. PICK n \in Nat : n = context /\ Depth = n /\ n <= MaxDepth /\ n \in Levels
  BY <1>0, DomAssumption DEF DomTypeOK, Levels, Depth
<1>2. PICK m \in Nat : (n = 0 /\ m = 0) \/ (n > 0 /\ m + 1 = n)
  <2>1. CASE n = 0
    BY <2>1
  <2>2. CASE n > 0
    <3>1. n - 1 \in Nat /\ n - 1 + 1 = n
      BY <2>2
    <3> QED
      BY <2>2, <3>1
  <2> QED
    BY <2>1, <2>2
<1>3. /\ m <= n /\ n <= m + 1 /\ context' = m /\ m \in Levels
      /\ pc' = (IF n = 0 THEN "none" ELSE "cleanup")
      /\ Depth' = m
  <2>1. context' = m /\ pc' = (IF n = 0 THEN "none" ELSE "cleanup")
    BY <1>0, <1>1, <1>2 DEF Cleanup
  <2>2. m <= n /\ n <= m + 1
    BY <1>2
  <2>3. m \in Levels
    BY <1>1, <2>2, DomAssumption DEF Levels
  <2> QED
    BY <2>1, <2>2, <2>3 DEF Depth
<1>4. mValue'[n] = None /\ \A d \in Levels : d # n => mValue'[d] = mValue[d]
  BY <1>0, <1>1 DEF DomTypeOK
<1>5. PICK F \in SUBSET Vars : F = IF mValue[n] = None THEN {} ELSE {n}
  BY <1>1, VarsAre
<1>6. /\ \A h \in Handles : handle'[h] = IF \E v \in F : mValue[v] = h THEN None ELSE handle[h]
      /\ UNCHANGED <<size, elem, keyOf, value, lost>>
  <2>1. CASE mValue[n] = None
    BY <1>0, <1>1, <1>5, <2>1 DEF Cleanup, vars
  <2>2. CASE mValue[n] # None
    <3>1. Release(mValue[n])
      BY <1>0, <1>1, <2>2 DEF Cleanup
    <3> QED
      BY <1>0, <1>5, <2>2, <3>1 DEF Release, containers, TypeOK
  <2> QED
    BY <2>1, <2>2
<1>7. Pops(m, n, F)
  BY <1>0, <1>3, <1>4, <1>5, <1>6 DEF Pops
<1>8. Slots' /\ Filled(m)' /\ \A d \in Levels : d > m => mValue'[d] = None
  BY <1>1, <1>7, Popped
<1>9. Frames'
  BY <1>3, <1>8 DEF Frames, Filled
<1>10. DomTypeOK'
  BY <1>0, <1>3 DEF DomTypeOK
<1>11. Phase'
  BY <1>0, <1>1, <1>2, <1>3, <1>4 DEF Phase
<1>12. Grammar' /\ Kept'
  BY <1>0, <1>3, <1>6 DEF Grammar, Kept
<1> QED
  BY <1>8, <1>9, <1>10, <1>11, <1>12 DEF DomInv

-----------------------------------------------------------------------------
(* Every step of the parser is a call of the API, or makes none.           *)

LEMMA PutIsCall ==
  ASSUME IInv, NEW o, NEW k \in Handles, NEW v \in Handles, ArrayAppend(o, v) \/ ObjectPut(o, k, v)
  PROVE  Call
<1>1. o \in Values
  BY VisibleLive DEF IInv, ArrayAppend, ObjectPut
<1> QED
  BY <1>1 DEF Call, ArrayCall, ObjectCall

LEMMA HandleIsCall ==
  ASSUME IInv, NEW h \in Handles,
         \/ TakeConst(h) \/ Release(h)
         \/ \E b \in Blocks : CreateObject(h, b) \/ CreateArray(h, b) \/ LookupKey(b, h)
         \/ \E b \in Blocks, n \in Names : CreateString(h, b, n)
         \/ \E v : Copy(v, h)
  PROVE  Call
<1>1. ASSUME NEW v, Copy(v, h)
      PROVE  v \in Values
  BY <1>1, VisibleLive DEF IInv, Copy
<1>2. \A b \in Blocks : b \in Values
  BY DEF Values
<1> QED
  BY <1>1, <1>2 DEF Call, HandleCall

LEMMA CallbackIsCall ==
  ASSUME IInv, DomInv, Callback
  PROVE  Call \/ UNCHANGED vars
<1>0. DomTypeOK /\ Frames /\ Phase
  BY DEF DomInv
<1>1. CASE PlaceLeaf
  <2>1. fresh \in Handles /\ context \in Levels
    BY <1>0, <1>1 DEF PlaceLeaf, Phase, DomTypeOK
  <2>2. UnderKey(context) => mValue[context] \in Handles
    BY <1>0, <2>1, ValuesHeld DEF UnderKey
  <2>3. CASE InArray(context) /\ ArrayAppend(Parent, fresh)
    BY <2>1, <2>3, PutIsCall
  <2>4. CASE UnderKey(context) /\ ObjectPut(Parent, mValue[context], fresh)
    BY <2>1, <2>2, <2>4, PutIsCall
  <2>5. CASE Release(fresh)
    BY <2>1, <2>5, HandleIsCall
  <2> QED
    BY <1>1, <2>3, <2>4, <2>5 DEF PlaceLeaf
<1>2. CASE Attach
  <2>1. copied \in Handles /\ context - 1 \in Levels
    BY <1>0, <1>2, DomAssumption DEF Attach, Phase, DomTypeOK, Levels
  <2>2. UnderKey(context - 1) => mValue[context - 1] \in Handles
    BY <1>0, <2>1, ValuesHeld DEF UnderKey
  <2>3. CASE ArrayAppend(Held(context - 2), copied)
    BY <2>1, <2>3, PutIsCall
  <2>4. CASE UnderKey(context - 1) /\ ObjectPut(Held(context - 2), mValue[context - 1], copied)
    BY <2>1, <2>2, <2>4, PutIsCall
  <2> QED
    BY <1>2, <2>3, <2>4 DEF Attach
<1>3. ASSUME NEW h \in Handles, MakeLeaf(h)
      PROVE  Call
  BY <1>3, HandleIsCall, DomAssumption DEF MakeLeaf
<1>4. ASSUME NEW h \in Handles, CopyContainer(h)
      PROVE  Call
  <2>1. fresh \in Handles
    BY <1>0, <1>4 DEF CopyContainer, Phase, DomTypeOK
  <2> QED
    BY <1>4, <2>1, HandleIsCall DEF CopyContainer
<1>5. ASSUME NEW k \in {"object", "array"}, NEW h \in Handles, NEW b \in Blocks, Start(k, h, b)
      PROVE  Call
  BY <1>5, HandleIsCall DEF Start
<1>6. ASSUME NEW n \in Keys, NEW h \in Handles, Key(n, h)
      PROVE  Call \/ UNCHANGED vars
  <2>1. n \in Names
    BY DEF Keys
  <2>2. Lookup(n, h) => Call
    BY <2>1, HandleIsCall DEF Lookup, Interned
  <2> QED
    BY <1>6, <2>2 DEF Key
<1>7. ASSUME NEW k \in {"object", "array"}, End(k)
      PROVE  Call \/ UNCHANGED vars
  <2>1. CASE context > 1 /\ Release(mValue[context - 1])
    <3>1. context - 1 \in 0 .. Depth - 1 /\ context - 1 \in Levels
      BY <1>0, <1>7, <2>1, DomAssumption DEF End, Closes, Depth, DomTypeOK, Levels
    <3>2. mValue[context - 1] # None
      BY <1>0, <3>1 DEF Frames, Filled
    <3>3. mValue[context - 1] \in Handles
      BY <1>0, <3>1, <3>2, ValuesHeld
    <3> QED
      BY <2>1, <3>3, HandleIsCall
  <2> QED
    BY <1>7, <2>1 DEF End
<1> QED
  BY <1>1, <1>2, <1>3, <1>4, <1>5, <1>6, <1>7 DEF Callback, ObjectKey, DefaultProperty

LEMMA StepIsCall ==
  ASSUME IInv, DomInv, [DomNext]_<<vars, domVars>>
  PROVE  [Call]_vars
<1>1. CASE Client
  <2>1. CASE Cleanup
    <3>1. mValue[context] # None => mValue[context] \in Handles
      BY ValuesHeld DEF DomInv, DomTypeOK
    <3> QED
      BY <2>1, <3>1, HandleIsCall DEF Cleanup
  <2>2. CASE \E h \in Handles : GetResult(h) \/ ReleaseResult(h)
    BY <2>2, HandleIsCall DEF GetResult, ReleaseResult
  <2>3. CASE InitParser \/ ParseError \/ EndOfInput \/ Deinit
    BY <2>3 DEF InitParser, ParseError, EndOfInput, Deinit
  <2> QED
    BY <1>1, <2>1, <2>2, <2>3 DEF Client
<1>2. CASE Releasing \/ UNCHANGED <<vars, domVars>>
  BY <1>2 DEF Call
<1> QED
  BY <1>1, <1>2, CallbackIsCall DEF DomNext

-----------------------------------------------------------------------------
(* The invariant.                                                          *)

LEMMA DomInitially == DomInit => DomInv
<1> SUFFICES ASSUME DomInit
             PROVE  DomInv
  OBVIOUS
<1>0. /\ pc = "none" /\ context = 0 /\ mValue = [d \in Levels |-> None] /\ given = None
      /\ fresh = None /\ copied = None /\ yajl = <<>> /\ status = "reading"
      /\ defaultsAt = 0 /\ results = {} /\ 0 \in Levels
      /\ handle = [h \in Handles |-> None] /\ lost = [l \in Lost |-> None]
  BY DomAssumption DEF DomInit, Init, Levels
<1>1. DomTypeOK
  <2>1. <<>> \in Seq({"key", "value", "array"}) /\ Len(<<>>) <= MaxDepth
    BY DomAssumption
  <2> QED
    BY <1>0, <2>1 DEF DomTypeOK
<1>2. Slots
  <2>1. \A v \in Vars : At(v) = None
    BY <1>0, VarsAre DEF At
  <2> QED
    BY <1>0, <2>1 DEF Slots
<1>3. Depth = 0 /\ \A d \in 0 .. 0 - 1 : FALSE
  BY <1>0 DEF Depth
<1>4. Frames
  BY <1>0, <1>3 DEF Frames, Filled
<1>5. Phase /\ Grammar /\ Kept
  BY <1>0 DEF Phase, Grammar, Kept
<1> QED
  BY <1>1, <1>2, <1>4, <1>5 DEF DomInv

(* The invariant of the values and that of the parser are inductive        *)
(* together: no callback does what JValueGraph does not allow, and each    *)
(* leaves what the next one relies on.                                     *)
THEOREM DomInductive == IInv /\ DomInv /\ [DomNext]_<<vars, domVars>> => IInv' /\ DomInv'
<1> SUFFICES ASSUME IInv, DomInv, [DomNext]_<<vars, domVars>>
             PROVE  IInv' /\ DomInv'
  OBVIOUS
<1>1. [Call]_vars
  BY StepIsCall
<1>2. IInv'
  BY <1>1, CallsKeep DEF Call
<1> SUFFICES DomInv'
  BY <1>2
<1>3. Step
  BY <1>1, <1>2 DEF Step
<1>4. CASE PlaceLeaf
  BY <1>3, <1>4, PlaceLeafStep
<1>5. CASE Attach
  BY <1>3, <1>5, AttachStep
<1>6. CASE \E h \in Handles : MakeLeaf(h) \/ CopyContainer(h)
  BY <1>3, <1>6, MakeLeafStep, CopyContainerStep
<1>7. ASSUME NEW k \in {"object", "array"}, NEW h \in Handles, NEW b \in Blocks, Start(k, h, b)
      PROVE  DomInv'
  <2>1. context = 0 \/ context > 0
    BY DEF DomInv, DomTypeOK, Levels
  <2> QED
    BY <1>3, <1>7, <2>1, StartTopStep, StartNestedStep
<1>8. ASSUME NEW n \in Keys, NEW h \in Handles, ObjectKey(n, h)
      PROVE  DomInv'
  <2>1. defaultsAt' \in Levels
    BY <1>8 DEF ObjectKey, DomInv, DomTypeOK
  <2> QED
    BY <1>3, <1>8, <2>1, KeyStep DEF ObjectKey
<1>9. ASSUME NEW n \in Keys, NEW h \in Handles, DefaultProperty(n, h)
      PROVE  DomInv'
  <2>1. Len(yajl) \in Levels
    BY LenProperties, DomAssumption DEF DomInv, DomTypeOK, Levels
  <2> QED
    BY <1>3, <1>9, <2>1, KeyStep DEF DefaultProperty
<1>10. CASE \E k \in {"object", "array"} : End(k)
  BY <1>3, <1>10, EndStep
<1>11. CASE InitParser \/ ParseError \/ EndOfInput \/ Deinit
  BY <1>3, <1>11, StillStep
<1>12. CASE Cleanup
  BY <1>3, <1>12, CleanupStep
<1>13. CASE \E h \in Handles : GetResult(h) \/ ReleaseResult(h)
  BY <1>3, <1>13, GetResultStep, ReleaseResultStep
<1>14. CASE (Releasing /\ UNCHANGED domVars) \/ UNCHANGED <<vars, domVars>>
  BY <1>3, <1>14, IdleStep
<1>15. CASE Callback
  BY <1>4, <1>5, <1>6, <1>7, <1>8, <1>9, <1>10, <1>15 DEF Callback
<1>16. CASE Client
  BY <1>11, <1>12, <1>13, <1>16 DEF Client
<1> QED
  BY <1>14, <1>15, <1>16 DEF DomNext

(* Both invariants hold in every state of the parser.                      *)
THEOREM DomInvariance == DomSpec => [](IInv /\ DomInv)
<1>1. DomInit => IInv /\ DomInv
  BY DomInitially, Initially DEF DomInit
<1> QED
  BY <1>1, DomInductive, PTL DEF DomSpec

(* The parser uses the values as any other client of the API may, so that  *)
(* every theorem of JValueGraphProofs holds while it builds a tree.        *)
THEOREM DomRefinesSpec == DomSpec => Spec
<1>1. DomInit => Init
  BY DEF DomInit
<1>2. [Call]_vars => [Next]_vars
  BY DEF Call, Next
<1> QED
  BY <1>1, <1>2, DomInvariance, StepIsCall, PTL DEF DomSpec, Spec

(* The type invariant of the parser.                                       *)
THEOREM DomTypeCorrect == DomSpec => []DomTypeOK
<1>1. IInv /\ DomInv => DomTypeOK
  BY DEF DomInv
<1> QED
  BY <1>1, DomInvariance, PTL

(* No callback of jparse_stream.c ever comes upon its "Improper place ..." *)
(* error, whatever yajl's grammar lets through and validation refuses.     *)
THEOREM AlwaysProper == DomSpec => []CallbacksFit
<1>1. IInv /\ DomInv => CallbacksFit
  BY DEF DomInv, Kept, CallbacksFit
<1> QED
  BY <1>1, DomInvariance, PTL

(* What is parsed ends up in the result: every open container hangs in the *)
(* one below it.                                                           *)
THEOREM AlwaysLinked == DomSpec => []OpenContainersLinked
<1>1. IInv /\ DomInv => OpenContainersLinked
  <2> SUFFICES ASSUME DomInv, NEW d \in 1 .. Depth - 1
               PROVE  Held(d) \in Contents(Held(d - 1)) \ {Const}
    BY DEF OpenContainersLinked
  <2>1. Depth \in Nat /\ Filled(Depth)
    BY DepthRange DEF DomInv, Frames
  <2>2. d \in 0 .. Depth - 1
    BY <2>1
  <2> QED
    BY <2>1, <2>2, ConstsDiffer DEF Filled
<1> QED
  BY <1>1, DomInvariance, PTL

(* jdomparser_deinit leaves nothing behind: with the results released too, *)
(* every block is free again, whenever the client gave up.                 *)
THEOREM NothingLeftBehind == DomSpec => []AllReleased
<1>1. DomInv /\ NothingUnreachable => AllReleased
  <2> SUFFICES ASSUME DomInv, NothingUnreachable, pc = "none", Quiet, results = {},
                      NEW b \in Blocks
               PROVE  kind[b] = "free"
    BY DEF AllReleased
  <2>1. fresh = None /\ copied = None /\ mValue[0] = None /\ Depth = 0
    BY DEF DomInv, Phase, Depth
  <2>2. \A d \in Levels : mValue[d] = None
    BY <2>1, DomAssumption DEF DomInv, Frames, Levels
  <2>3. \A v \in Vars : At(v) = None
    BY <2>1, <2>2, VarsAre DEF At
  <2>4. \A h \in Handles : handle[h] = None
    BY <2>3, DomAssumption DEF DomInv, Slots
  <2>5. Closed({}) /\ \A l \in Lost : lost[l] = None
    BY DEF Closed, DomInv, Kept
  <2> QED
    BY <2>4, <2>5, ConstsDiffer DEF NothingUnreachable
<1> QED
  BY <1>1, DomInvariance, DomRefinesSpec, NoLeak, PTL
=============================================================================
