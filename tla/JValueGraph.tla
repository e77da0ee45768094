----------------------------- MODULE JValueGraph -----------------------------
(***************************************************************************)
(* JSON values as the C API of jobject.c hands them out: reference counted *)
(* blocks, containers that own references to other blocks, and a client    *)
(* that owns references of its own.  Values of one tree are used by one    *)
(* thread at a time.                                                       *)
(*                                                                         *)
(* A string stands for every immutable leaf on the heap.  JNULL, JINVALID  *)
(* and the two booleans are static (jis_const): no call counts them, and   *)
(* they are one value here, Const.  So is jstring_empty(), the one constant*)
(* that can be a key: Const as a key may be it, or not be a string at all. *)
(*                                                                         *)
(* j_release recurses into the containers it destroys.  The recursion is   *)
(* unfolded: a call leaves the references it drops in dropped, a block     *)
(* whose counter reaches 0 is "dying" until its contents are released, and *)
(* the next call starts when nothing is left to release.                   *)
(***************************************************************************)
EXTENDS Integers, FiniteSets

CONSTANTS
  Blocks,   (* memory blocks a value can occupy, reused after free         *)
  Names,    (* contents of object keys                                     *)
  Handles,  (* jvalue_ref variables in which the client owns a reference   *)
  Lost,     (* room for references that a call has forgotten about         *)
  MaxSize,  (* bound on the size of an array                               *)
  Empty,    (* the contents of jstring_empty()                             *)
  Const,    (* the values that are not counted                             *)
  None      (* NULL                                                        *)

ASSUME MaxSizeAssumption == MaxSize \in Nat

ASSUME ConstsDiffer == Const \notin Blocks /\ None \notin Blocks \cup {Const}

ASSUME EmptyAssumption == Empty \in Names

ASSUME FiniteConstants ==
  /\ IsFiniteSet(Blocks)
  /\ IsFiniteSet(Names)
  /\ IsFiniteSet(Handles)
  /\ IsFiniteSet(Lost)

Values == Blocks \cup {Const}
Index == 0 .. MaxSize - 1
Cells == Blocks \X Index      (* array slots, m_smallBucket and m_bigBucket *)
Members == Blocks \X Names    (* object members, entries of m_members       *)
Locals == {"key", "val", "new"}

VARIABLES
  kind,     (* m_type of a block, or "free", or "dying" inside j_release   *)
  refCnt,   (* m_refCnt                                                    *)
  text,     (* m_data of a string                                          *)
  size,     (* m_size of an array                                          *)
  elem,     (* the value in an array slot                                  *)
  keyOf,    (* the key of an object's member                               *)
  value,    (* the value of an object's member                             *)
  handle,   (* the value a handle owns a reference to                      *)
  lost,     (* references nobody will ever release                         *)
  dropped,  (* references the current call has still to release, and under *)
            (* "new" the one it will store when they are released          *)
  slot      (* the cell where it will                                      *)

containers == <<text, size, elem, keyOf, value>>
vars == <<kind, refCnt, text, size, elem, keyOf, value, handle, lost, dropped, slot>>

Init ==
  /\ kind = [b \in Blocks |-> "free"]
  /\ refCnt = [b \in Blocks |-> 0]
  /\ text = [b \in Blocks |-> None]
  /\ size = [b \in Blocks |-> 0]
  /\ elem = [c \in Cells |-> None]
  /\ keyOf = [m \in Members |-> None]
  /\ value = [m \in Members |-> None]
  /\ handle = [h \in Handles |-> None]
  /\ lost = [l \in Lost |-> None]
  /\ dropped = [k \in Locals |-> None]
  /\ slot = None

Is(v, k) == v \in Blocks /\ kind[v] = k

Contents(b) ==
  ( {elem[<<b, i>>] : i \in 0 .. size[b] - 1} \cup
    {keyOf[<<b, n>>] : n \in Names} \cup {value[<<b, n>>] : n \in Names} ) \ {None}

(* The values a client can name: those it owns and, as borrowed references *)
(* (jobject_get, jarray_get, jobject_iter_next), what they contain.        *)
Owned == {handle[h] : h \in Handles} \ {None}
Visible == Owned \cup UNION {Contents(b) : b \in Owned \cap Blocks}

Released ==
  /\ \A b \in Blocks : kind[b] # "dying"
  /\ dropped["key"] = None /\ dropped["val"] = None

Quiet == Released /\ dropped["new"] = None

-----------------------------------------------------------------------------
(* Helpers *)

Closed(S) == \A b \in S : Contents(b) \cap Blocks \subseteq S

(* Faulty variants, here and below: what the properties must tell from the *)
(* code.  This one compares the child with the parent and looks no deeper. *)
InsertSaneShallow(parent, child) == child # parent

(* check_insert_sanity: the walk from child over everything below it does  *)
(* not meet parent.  It does when no closed set separates the two.         *)
InsertSane(parent, child) ==
  child \in Blocks =>
    \E S \in SUBSET Blocks : child \in S /\ parent \notin S /\ Closed(S)

One(v, b) == IF v = b THEN 1 ELSE 0

(* jvalue_copy of up to two values                                         *)
Ref(v) == refCnt' = [b \in Blocks |-> refCnt[b] + One(v, b)]
RefBoth(u, v) == refCnt' = [b \in Blocks |-> refCnt[b] + One(u, b) + One(v, b)]

(* j_release of one reference                                              *)
Unref(v) ==
  /\ refCnt' = [b \in Blocks |-> refCnt[b] - One(v, b)]
  /\ kind' = [b \in Blocks |-> IF b = v /\ refCnt[b] = 1 THEN "dying" ELSE kind[b]]

(* The call gives up u and v, and keeps w for the cell c.                  *)
DropFor(c, w, u, v) ==
  /\ dropped' = [k \in Locals |-> IF k = "new" THEN w ELSE IF k = "key" THEN u ELSE v]
  /\ slot' = c

Drop(u, v) == DropFor(None, None, u, v)

(* An allocation and jvalue_init; the count is set by the caller.          *)
Alloc(b, k, n) ==
  /\ kind[b] = "free"
  /\ kind' = [kind EXCEPT ![b] = k]
  /\ text' = [text EXCEPT ![b] = n]

Create(h, b, k, n) ==
  /\ Quiet
  /\ handle[h] = None
  /\ Alloc(b, k, n)
  /\ refCnt' = [refCnt EXCEPT ![b] = 1]
  /\ handle' = [handle EXCEPT ![h] = b]
  /\ UNCHANGED <<size, elem, keyOf, value, lost, dropped, slot>>

(* A reference that no variable holds any more; constants do not matter.   *)
Lose(v) ==
  IF v \in Blocks
  THEN \E l \in Lost : lost[l] = None /\ lost' = [lost EXCEPT ![l] = v]
  ELSE UNCHANGED lost

-----------------------------------------------------------------------------
(* Handles *)

TakeConst(h) ==
  /\ Quiet
  /\ handle[h] = None
  /\ handle' = [handle EXCEPT ![h] = Const]
  /\ UNCHANGED <<kind, refCnt, containers, lost, dropped, slot>>

CreateString(h, b, n) == Create(h, b, "string", n)
CreateObject(h, b) == Create(h, b, "object", None)
CreateArray(h, b) == Create(h, b, "array", None)

(* jvalue_copy.                                                            *)
Share(v, h) ==
  /\ Quiet
  /\ handle[h] = None
  /\ handle' = [handle EXCEPT ![h] = v]
  /\ Ref(v)
  /\ UNCHANGED <<kind, containers, lost, dropped, slot>>

Copy(v, h) == v \in Visible /\ Share(v, h)

(* keyDictionaryLookup finds a key wherever it is in use; KeyDictionary    *)
(* shows why it is alive.                                                  *)
LookupKey(k, h) == Is(k, "string") /\ Share(k, h)

Release(h) ==
  /\ Quiet
  /\ handle[h] # None
  /\ handle' = [handle EXCEPT ![h] = None]
  /\ Drop(None, handle[h])
  /\ UNCHANGED <<kind, refCnt, containers, lost>>

-----------------------------------------------------------------------------
(* Objects *)

(* g_hash_table_replace: the new key and value oust the old ones.          *)
Replace(o, n, k, v) ==
  /\ keyOf' = [keyOf EXCEPT ![<<o, n>>] = k]
  /\ value' = [value EXCEPT ![<<o, n>>] = v]
  /\ Drop(keyOf[<<o, n>>], value[<<o, n>>])

(* The tail of jobject_put, which owns k and v: they go into the object or *)
(* are released.                                                           *)
PutMember(o, n, k, v) ==
  \/ /\ Is(o, "object") /\ InsertSane(o, v)
     /\ Replace(o, n, k, v)
  \/ /\ ~(Is(o, "object") /\ InsertSane(o, v))
     /\ Drop(k, v)
     /\ UNCHANGED <<keyOf, value>>

(* A key k spells n.                                                       *)
Spells(k, n) == (Is(k, "string") /\ text[k] = n) \/ (k = Const /\ n = Empty)

ObjectPut(o, k, v) ==
  /\ Quiet
  /\ o \in Visible
  /\ k # v /\ handle[k] # None /\ handle[v] # None
  /\ handle' = [handle EXCEPT ![k] = None, ![v] = None]
  /\ \/ \E n \in Names :
          Spells(handle[k], n) /\ PutMember(o, n, handle[k], handle[v])
     \/ /\ ~Is(handle[k], "string")
        /\ Drop(handle[k], handle[v])
        /\ UNCHANGED <<keyOf, value>>
  /\ UNCHANGED <<kind, refCnt, text, size, elem, lost>>

(* Faulty: the value is put without a reference of its own.                *)
ObjectSet2Uncopied(o, k, v) ==
  /\ Quiet
  /\ {o, k, v} \subseteq Visible
  /\ Ref(k)
  /\ \/ \E n \in Names : Spells(k, n) /\ PutMember(o, n, k, v)
     \/ /\ ~Is(k, "string")
        /\ Drop(k, v)
        /\ UNCHANGED <<keyOf, value>>
  /\ UNCHANGED <<kind, text, size, elem, handle, lost>>

(* jobject_set2 copies both references and puts the copies.                *)
ObjectSet2(o, k, v) ==
  /\ Quiet
  /\ {o, k, v} \subseteq Visible
  /\ RefBoth(k, v)
  /\ \/ \E n \in Names : Spells(k, n) /\ PutMember(o, n, k, v)
     \/ /\ ~Is(k, "string")
        /\ Drop(k, v)
        /\ UNCHANGED <<keyOf, value>>
  /\ UNCHANGED <<kind, text, size, elem, handle, lost>>

(* jobject_set makes a string of a raw key.                                *)
ObjectSet(o, n, v, b) ==
  /\ Quiet
  /\ o \in Visible /\ Is(o, "object") /\ v \in Visible
  /\ Alloc(b, "string", n)
  /\ refCnt' = [c \in Blocks |-> IF c = b THEN 1 ELSE refCnt[c] + One(v, c)]
  /\ PutMember(o, n, b, v)
  /\ UNCHANGED <<size, elem, handle, lost>>

ObjectRemove(o, n) ==
  /\ Quiet
  /\ o \in Visible /\ Is(o, "object")
  /\ keyOf[<<o, n>>] # None
  /\ Replace(o, n, None, None)
  /\ UNCHANGED <<kind, refCnt, text, size, elem, handle, lost>>

-----------------------------------------------------------------------------
(* Arrays *)

(* jarray_put_unsafe once the check has passed.  The array grows to fit.   *)
(* An element that is there already is released, with all that dies of it, *)
(* before the new one takes its place: see Store.                          *)
PutElem(a, i, v) ==
  LET c == <<a, i>> IN
  \/ /\ elem[c] = None
     /\ elem' = [elem EXCEPT ![c] = v]
     /\ size' = [size EXCEPT ![a] = IF i >= size[a] THEN i + 1 ELSE size[a]]
     /\ Drop(None, None)
  \/ /\ elem[c] # None
     /\ elem' = [elem EXCEPT ![c] = None]
     /\ DropFor(c, v, None, elem[c])
     /\ UNCHANGED size

ArrayPut(a, i, v) ==
  /\ Quiet
  /\ a \in Visible /\ handle[v] # None
  /\ handle' = [handle EXCEPT ![v] = None]
  /\ \/ /\ Is(a, "array") /\ i >= 0 /\ InsertSane(a, handle[v])
        /\ PutElem(a, i, handle[v])
     \/ /\ ~(Is(a, "array") /\ i >= 0 /\ InsertSane(a, handle[v]))
        /\ Drop(None, handle[v])
        /\ UNCHANGED <<size, elem>>
  /\ UNCHANGED <<kind, refCnt, text, keyOf, value, lost>>

(* The copy is not released when jarray_put_unsafe refuses it.             *)
ArraySet(a, i, v) ==
  /\ Quiet
  /\ {a, v} \subseteq Visible
  /\ Is(a, "array") /\ i >= 0
  /\ Ref(v)
  /\ \/ /\ InsertSane(a, v)
        /\ PutElem(a, i, v)
        /\ UNCHANGED lost
     \/ /\ ~InsertSane(a, v)
        /\ Lose(v)
        /\ UNCHANGED <<size, elem, dropped, slot>>
  /\ UNCHANGED <<kind, text, keyOf, value, handle>>

(* The client gives its reference away (jobject.h: "Put/Append - ownership *)
(* is transferred"), but a refused one is not released.                    *)
ArrayAppend(a, v) ==
  /\ Quiet
  /\ a \in Visible /\ handle[v] # None
  /\ handle' = [handle EXCEPT ![v] = None]
  /\ \/ /\ Is(a, "array") /\ InsertSane(a, handle[v])
        /\ size[a] < MaxSize
        /\ PutElem(a, size[a], handle[v])
        /\ UNCHANGED lost
     \/ /\ ~(Is(a, "array") /\ InsertSane(a, handle[v]))
        /\ Lose(handle[v])
        /\ UNCHANGED <<size, elem, dropped, slot>>
  /\ UNCHANGED <<kind, refCnt, text, keyOf, value>>

(* Room is made at the end, everything from i on moves up.  A refused call *)
(* changes nothing: the client keeps its reference.                        *)
ArrayInsert(a, i, v) ==
  LET at == IF i < size[a] THEN i ELSE size[a] IN
  /\ Quiet
  /\ a \in Visible /\ handle[v] # None
  /\ Is(a, "array") /\ i >= 0 /\ InsertSane(a, handle[v])
  /\ size[a] < MaxSize
  /\ handle' = [handle EXCEPT ![v] = None]
  /\ elem' = [c \in Cells |->
                IF c[1] # a \/ c[2] < at \/ c[2] > size[a] THEN elem[c]
                ELSE IF c[2] = at THEN handle[v]
                ELSE elem[<<a, c[2] - 1>>]]
  /\ size' = [size EXCEPT ![a] = @ + 1]
  /\ UNCHANGED <<kind, refCnt, text, keyOf, value, lost, dropped, slot>>

(* Faulty: the slot at the end keeps its reference.                        *)
ArrayRemoveUncleared(a, i) ==
  /\ Quiet
  /\ a \in Visible /\ Is(a, "array")
  /\ i \in 0 .. size[a] - 1
  /\ Drop(None, elem[<<a, i>>])
  /\ elem' = [c \in Cells |->
                IF c[1] # a \/ c[2] < i \/ c[2] >= size[a] - 1 THEN elem[c]
                ELSE elem[<<a, c[2] + 1>>]]
  /\ size' = [size EXCEPT ![a] = @ - 1]
  /\ UNCHANGED <<kind, refCnt, text, keyOf, value, handle, lost>>

(* Everything behind i moves down, and the slot at the end is cleared.     *)
ArrayRemove(a, i) ==
  /\ Quiet
  /\ a \in Visible /\ Is(a, "array")
  /\ i \in 0 .. size[a] - 1
  /\ Drop(None, elem[<<a, i>>])
  /\ elem' = [c \in Cells |->
                IF c[1] # a \/ c[2] < i \/ c[2] >= size[a] THEN elem[c]
                ELSE IF c[2] = size[a] - 1 THEN None
                ELSE elem[<<a, c[2] + 1>>]]
  /\ size' = [size EXCEPT ![a] = @ - 1]
  /\ UNCHANGED <<kind, refCnt, text, keyOf, value, handle, lost>>

-----------------------------------------------------------------------------
(* The rest of j_release: what the call dropped, then the contents of the  *)
(* blocks that die of it.                                                  *)

ReleaseLocal(k) ==
  /\ k # "new" /\ dropped[k] # None
  /\ dropped' = [dropped EXCEPT ![k] = None]
  /\ Unref(dropped[k])
  /\ UNCHANGED <<containers, handle, lost, slot>>

(* The rest of jarray_put_unsafe.                                          *)
Store ==
  /\ Released /\ slot # None
  /\ elem' = [elem EXCEPT ![slot] = dropped["new"]]
  /\ Drop(None, None)
  /\ UNCHANGED <<kind, refCnt, text, size, keyOf, value, handle, lost>>

(* j_destroy_array: from the last element to the first.                    *)
ReleaseElem(d) ==
  /\ kind[d] = "dying" /\ size[d] > 0
  /\ elem' = [elem EXCEPT ![<<d, size[d] - 1>>] = None]
  /\ size' = [size EXCEPT ![d] = @ - 1]
  /\ Unref(elem[<<d, size[d] - 1>>])
  /\ UNCHANGED <<text, keyOf, value, handle, lost, dropped, slot>>

(* j_destroy_object: every key and every value of the table.               *)
ReleaseKey(d, n) ==
  /\ kind[d] = "dying" /\ keyOf[<<d, n>>] # None
  /\ keyOf' = [keyOf EXCEPT ![<<d, n>>] = None]
  /\ Unref(keyOf[<<d, n>>])
  /\ UNCHANGED <<text, size, elem, value, handle, lost, dropped, slot>>

ReleaseValue(d, n) ==
  /\ kind[d] = "dying" /\ value[<<d, n>>] # None
  /\ value' = [value EXCEPT ![<<d, n>>] = None]
  /\ Unref(value[<<d, n>>])
  /\ UNCHANGED <<text, size, elem, keyOf, handle, lost, dropped, slot>>

(* Faulty: the block goes without its contents.                            *)
FreeShallow(d) ==
  /\ kind[d] = "dying"
  /\ kind' = [kind EXCEPT ![d] = "free"]
  /\ text' = [text EXCEPT ![d] = None]
  /\ UNCHANGED <<refCnt, size, elem, keyOf, value, handle, lost, dropped, slot>>

Free(d) ==
  /\ kind[d] = "dying" /\ Contents(d) = {} /\ size[d] = 0
  /\ kind' = [kind EXCEPT ![d] = "free"]
  /\ text' = [text EXCEPT ![d] = None]
  /\ UNCHANGED <<refCnt, size, elem, keyOf, value, handle, lost, dropped, slot>>

-----------------------------------------------------------------------------

HandleCall ==
  \/ \E h \in Handles : TakeConst(h) \/ Release(h)
  \/ \E h \in Handles, b \in Blocks, n \in Names : CreateString(h, b, n)
  \/ \E h \in Handles, b \in Blocks : CreateObject(h, b) \/ CreateArray(h, b)
  \/ \E v \in Values, h \in Handles : Copy(v, h) \/ LookupKey(v, h)

ObjectCall ==
  \/ \E o \in Values, k, v \in Handles : ObjectPut(o, k, v)
  \/ \E o, k, v \in Values : ObjectSet2(o, k, v)
  \/ \E o, b \in Blocks, n \in Names, v \in Values : ObjectSet(o, n, v, b)
  \/ \E o \in Blocks, n \in Names : ObjectRemove(o, n)

ArrayCall ==
  \/ \E a \in Values, i \in Index \cup {-1}, v \in Handles : ArrayPut(a, i, v)
  \/ \E a \in Blocks, i \in Index, v \in Values : ArraySet(a, i, v)
  \/ \E a \in Values, v \in Handles : ArrayAppend(a, v)
  \/ \E a \in Blocks, i \in Index, v \in Handles : ArrayInsert(a, i, v)
  \/ \E a \in Blocks, i \in Index : ArrayRemove(a, i)

Releasing ==
  \/ \E k \in Locals : ReleaseLocal(k)
  \/ \E d \in Blocks : ReleaseElem(d) \/ Free(d)
  \/ \E d \in Blocks, n \in Names : ReleaseKey(d, n) \/ ReleaseValue(d, n)

Next == HandleCall \/ ObjectCall \/ ArrayCall \/ Releasing \/ Store

Spec == Init /\ [][Next]_vars
-----------------------------------------------------------------------------
(* Properties *)

Live == {"string", "object", "array"}

References(b) ==
  Cardinality({h \in Handles : handle[h] = b}) +
  Cardinality({l \in Lost : lost[l] = b}) +
  Cardinality({k \in Locals : dropped[k] = b}) +
  Cardinality({c \in Cells : elem[c] = b}) +
  Cardinality({m \in Members : keyOf[m] = b}) +
  Cardinality({m \in Members : value[m] = b})

TypeOK ==
  /\ kind \in [Blocks -> Live \cup {"free", "dying"}]
  /\ refCnt \in [Blocks -> Nat]
  /\ text \in [Blocks -> Names \cup {None}]
  /\ size \in [Blocks -> 0 .. MaxSize]
  /\ elem \in [Cells -> Values \cup {None}]
  /\ keyOf \in [Members -> Values \cup {None}]
  /\ value \in [Members -> Values \cup {None}]
  /\ handle \in [Handles -> Values \cup {None}]
  /\ lost \in [Lost -> Values \cup {None}]
  /\ dropped \in [Locals -> Values \cup {None}]
  /\ slot \in Cells \cup {None}

(* m_refCnt is the number of references anybody holds, whatever the calls  *)
(* gave away, copied, refused or replaced; a block that is free or dying   *)
(* is referenced by nobody.                                                *)
CountsExact ==
  \A b \in Blocks :
    /\ refCnt[b] = References(b)
    /\ (refCnt[b] > 0) = (kind[b] \in Live)

(* No container ever contains itself, however deep (check_insert_sanity):  *)
(* any set of blocks has one that no other of the set contains.            *)
Acyclic ==
  \A S \in (SUBSET Blocks) \ {{}} : \E b \in S : \A d \in S : b \notin Contents(d)

(* Between calls every block in use can be reached from a reference of the *)
(* client, or from one that a refused call has lost.                       *)
NothingUnreachable ==
  Quiet =>
    \A S \in SUBSET Blocks :
      /\ Closed(S)
      /\ \A h \in Handles : handle[h] \in Blocks => handle[h] \in S
      /\ \A l \in Lost : lost[l] \in Blocks => lost[l] \in S
      => \A b \in Blocks : kind[b] # "free" => b \in S

(* Only arrays have elements and only objects have members; an array has   *)
(* nothing beyond its size, where no destructor would look for it, and a   *)
(* member has a value and a key that spells its name.                      *)
WellFormed ==
  \A b \in Blocks :
    /\ kind[b] = "string" => text[b] \in Names
    /\ size[b] > 0 => kind[b] \in {"array", "dying"}
    /\ \A i \in Index : elem[<<b, i>>] # None => i < size[b]
    /\ \A n \in Names : keyOf[<<b, n>>] # None \/ value[<<b, n>>] # None =>
         kind[b] \in {"object", "dying"}
    /\ kind[b] = "object" => \A n \in Names :
         /\ (keyOf[<<b, n>>] # None) = (value[<<b, n>>] # None)
         /\ keyOf[<<b, n>>] # None => Spells(keyOf[<<b, n>>], n)

(* jobject.h:721 calls jarray_append "equivalent to jarray_put(arr,        *)
(* jarray_size(), val)": so it is for every array with room.               *)
AppendIsPut ==
  [][\A a \in Blocks, v \in Handles :
       /\ Is(a, "array") /\ size[a] < MaxSize /\ handle[v] \in Blocks
       /\ ArrayAppend(a, v)
       => ArrayPut(a, size[a], v)]_vars
=============================================================================
