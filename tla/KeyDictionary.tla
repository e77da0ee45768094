---------------------------- MODULE KeyDictionary ----------------------------
(***************************************************************************)
(* The table of interned object keys, key_dictionary.c, together with the  *)
(* lockless half of its protocol: jvalue_copy and j_release of jobject.c.  *)
(*                                                                         *)
(* The table references keys without owning them.  A key is destroyed by   *)
(* whoever drops its last reference, with an atomic decrement outside the  *)
(* lock; only then does its destructor take the lock and remove the entry. *)
(* In between a lookup can find a key whose counter is already 0.          *)
(*                                                                         *)
(* One action is one step another thread can observe: an operation on the  *)
(* mutex, an atomic operation on a counter, an access to the table.  What  *)
(* a thread does to the table and to its own locals while it holds the     *)
(* mutex is joined with the step it leads to.                              *)
(***************************************************************************)
EXTENDS Integers, FiniteSets

CONSTANTS
  Threads,
  Names,    (* contents of object keys                                     *)
  Cells,    (* memory blocks malloc can hand out, reused after free        *)
  Handles,  (* places that own one reference: a jvalue_ref of a client     *)
  None      (* NULL, no thread, no name                                    *)

ASSUME NoneAssumption ==
  None \notin Threads \cup Names \cup Cells \cup Handles

ASSUME HandlesFinite == IsFiniteSet(Handles)

VARIABLES
  table,      (* key_dictionary: the entry stored for a content            *)
  mutex,      (* key_dictionary_mutex                                      *)
  allocated,  (* blocks between calloc and free                            *)
  text,       (* m_data of the key in a block                              *)
  refCnt,     (* m_refCnt of the key in a block                            *)
  handle,     (* the key a handle owns                                     *)
  pc, key, dest, cur,  (* a thread's position, lookup argument, the handle *)
                       (* for its result, and the key it works on          *)
  complained  (* some j_release has taken its "messed up" branch           *)

vars == <<table, mutex, allocated, text, refCnt, handle, pc, key, dest, cur,
          complained>>

Locked == {"search", "undo", "retry", "return", "steal", "dtorUnlock"}
Dying == {"dtor", "steal", "dtorUnlock", "free"}
Labels == Locked \cup Dying \cup {"idle", "lock", "sanity"}

Init ==
  /\ table = [n \in Names |-> None]
  /\ mutex = None
  /\ allocated = {}
  /\ text = [c \in Cells |-> None]
  /\ refCnt = [c \in Cells |-> 0]
  /\ handle = [h \in Handles |-> None]
  /\ pc = [t \in Threads |-> "idle"]
  /\ key = [t \in Threads |-> None]
  /\ dest = [t \in Threads |-> None]
  /\ cur = [t \in Threads |-> None]
  /\ complained = FALSE

Goto(t, from, to) == pc[t] = from /\ pc' = [pc EXCEPT ![t] = to]

(* A handle that a lookup in progress will fill is not used by anyone.     *)
Reserved(h) == \E u \in Threads : dest[u] = h

-----------------------------------------------------------------------------
(* keyDictionaryLookup *)

StartLookup(t, n, h) ==
  /\ Goto(t, "idle", "lock")
  /\ handle[h] = None
  /\ ~Reserved(h)
  /\ key' = [key EXCEPT ![t] = n]
  /\ dest' = [dest EXCEPT ![t] = h]
  /\ UNCHANGED <<table, mutex, allocated, text, refCnt, handle, cur, complained>>

Acquire(t) ==
  /\ Goto(t, "lock", "search")
  /\ mutex = None
  /\ mutex' = t
  /\ UNCHANGED <<table, allocated, text, refCnt, handle, key, dest, cur, complained>>

(* Faulty variants, here and below: what the properties must tell from the *)
(* code.  This one takes a reference without looking at the old count.     *)
BumpUnchecked(t) ==
  /\ Goto(t, "search", "return")
  /\ table[key[t]] # None
  /\ refCnt' = [refCnt EXCEPT ![table[key[t]]] = @ + 1]
  /\ handle' = [handle EXCEPT ![dest[t]] = table[key[t]]]
  /\ UNCHANGED <<table, mutex, allocated, text, key, dest, cur, complained>>

(* Faulty: a dying entry is replaced on the spot instead of waited for.    *)
BumpReplacing(t) ==
  LET c == table[key[t]] IN
  /\ Goto(t, "search", "return")
  /\ c # None
  /\ IF refCnt[c] > 0
     THEN /\ refCnt' = [refCnt EXCEPT ![c] = @ + 1]
          /\ handle' = [handle EXCEPT ![dest[t]] = c]
          /\ UNCHANGED <<table, allocated, text>>
     ELSE \E d \in Cells \ allocated :
            /\ allocated' = allocated \cup {d}
            /\ text' = [text EXCEPT ![d] = key[t]]
            /\ refCnt' = [refCnt EXCEPT ![d] = 1]
            /\ table' = [table EXCEPT ![key[t]] = d]
            /\ handle' = [handle EXCEPT ![dest[t]] = d]
  /\ UNCHANGED <<mutex, key, dest, cur, complained>>

(* The entry is bumped before it is known to be alive; the previous count  *)
(* tells.                                                                  *)
Bump(t) ==
  LET c == table[key[t]] IN
  /\ pc[t] = "search"
  /\ c # None
  /\ refCnt' = [refCnt EXCEPT ![c] = @ + 1]
  /\ IF refCnt[c] <= 0
     THEN /\ pc' = [pc EXCEPT ![t] = "undo"]
          /\ cur' = [cur EXCEPT ![t] = c]
          /\ UNCHANGED handle
     ELSE /\ pc' = [pc EXCEPT ![t] = "return"]
          /\ handle' = [handle EXCEPT ![dest[t]] = c]
          /\ UNCHANGED cur
  /\ UNCHANGED <<table, mutex, allocated, text, key, dest, complained>>

(* Faulty: the speculative bump stays.                                     *)
UndoForgotten(t) ==
  /\ Goto(t, "undo", "retry")
  /\ cur' = [cur EXCEPT ![t] = None]
  /\ UNCHANGED <<table, mutex, allocated, text, refCnt, handle, key, dest, complained>>

(* Faulty: the bump is taken back twice, as by j_release and by hand.      *)
UndoTwice(t) ==
  /\ Goto(t, "undo", "retry")
  /\ refCnt' = [refCnt EXCEPT ![cur[t]] = @ - 2]
  /\ cur' = [cur EXCEPT ![t] = None]
  /\ UNCHANGED <<table, mutex, allocated, text, handle, key, dest, complained>>

Undo(t) ==
  /\ Goto(t, "undo", "retry")
  /\ refCnt' = [refCnt EXCEPT ![cur[t]] = @ - 1]
  /\ cur' = [cur EXCEPT ![t] = None]
  /\ UNCHANGED <<table, mutex, allocated, text, handle, key, dest, complained>>

(* Faulty: the next attempt starts with the mutex still locked.            *)
RetryLocked(t) ==
  /\ Goto(t, "retry", "search")
  /\ UNCHANGED <<table, mutex, allocated, text, refCnt, handle, key, dest, cur, complained>>

(* Faulty: the unlock on the retry path is missing altogether.             *)
RetryNoUnlock(t) ==
  /\ Goto(t, "retry", "lock")
  /\ UNCHANGED <<table, mutex, allocated, text, refCnt, handle, key, dest, cur, complained>>

Retry(t) ==
  /\ Goto(t, "retry", "lock")
  /\ mutex' = None
  /\ UNCHANGED <<table, allocated, text, refCnt, handle, key, dest, cur, complained>>

(* allocKeyString and g_hash_table_insert                                  *)
Insert(t) ==
  /\ Goto(t, "search", "return")
  /\ table[key[t]] = None
  /\ \E c \in Cells \ allocated :
       /\ allocated' = allocated \cup {c}
       /\ text' = [text EXCEPT ![c] = key[t]]
       /\ refCnt' = [refCnt EXCEPT ![c] = 1]
       /\ table' = [table EXCEPT ![key[t]] = c]
       /\ handle' = [handle EXCEPT ![dest[t]] = c]
  /\ UNCHANGED <<mutex, key, dest, cur, complained>>

Return(t) ==
  /\ Goto(t, "return", "idle")
  /\ mutex' = None
  /\ key' = [key EXCEPT ![t] = None]
  /\ dest' = [dest EXCEPT ![t] = None]
  /\ UNCHANGED <<table, allocated, text, refCnt, handle, cur, complained>>

-----------------------------------------------------------------------------
(* jvalue_copy and j_release.  The handle a call works on belongs to the   *)
(* calling thread for the time of the call; any thread may be that one.    *)

Copy(t, h, g) ==
  /\ pc[t] = "idle"
  /\ handle[h] # None /\ ~Reserved(h)
  /\ handle[g] = None /\ ~Reserved(g)
  /\ refCnt' = [refCnt EXCEPT ![handle[h]] = @ + 1]
  /\ handle' = [handle EXCEPT ![g] = handle[h]]
  /\ UNCHANGED <<table, mutex, allocated, text, pc, key, dest, cur, complained>>

(* Faulty: the destruction is decided by a read before the decrement, that *)
(* is one reference too late.                                              *)
ReleaseLate(t, h) ==
  LET c == handle[h] IN
  /\ pc[t] = "idle"
  /\ c # None /\ ~Reserved(h)
  /\ refCnt' = [refCnt EXCEPT ![c] = @ - 1]
  /\ handle' = [handle EXCEPT ![h] = None]
  /\ cur' = [cur EXCEPT ![t] = c]
  /\ pc' = [pc EXCEPT ![t] = IF refCnt[c] = 0 THEN "dtor" ELSE "sanity"]
  /\ UNCHANGED <<table, mutex, allocated, text, key, dest, complained>>

(* Faulty: the string is freed without its deallocator, keyStringDtor.     *)
ReleaseNoDtor(t, h) ==
  LET c == handle[h] IN
  /\ pc[t] = "idle"
  /\ c # None /\ ~Reserved(h)
  /\ refCnt' = [refCnt EXCEPT ![c] = @ - 1]
  /\ handle' = [handle EXCEPT ![h] = None]
  /\ cur' = [cur EXCEPT ![t] = c]
  /\ pc' = [pc EXCEPT ![t] = IF refCnt[c] = 1 THEN "free" ELSE "sanity"]
  /\ UNCHANGED <<table, mutex, allocated, text, key, dest, complained>>

Release(t, h) ==
  LET c == handle[h] IN
  /\ pc[t] = "idle"
  /\ c # None /\ ~Reserved(h)
  /\ refCnt' = [refCnt EXCEPT ![c] = @ - 1]
  /\ handle' = [handle EXCEPT ![h] = None]
  /\ cur' = [cur EXCEPT ![t] = c]
  /\ pc' = [pc EXCEPT ![t] = IF refCnt[c] = 1 THEN "dtor" ELSE "sanity"]
  /\ UNCHANGED <<table, mutex, allocated, text, key, dest, complained>>

(* After a decrement that was not the last, j_release reads the counter    *)
(* once more to see whether it is negative.  It owns no reference by then: *)
(* the block may have been freed, and the read may then give anything.     *)
SanityRead(t) ==
  /\ Goto(t, "sanity", "idle")
  /\ \E negative \in BOOLEAN :
       /\ cur[t] \in allocated => negative = (refCnt[cur[t]] < 0)
       /\ complained' = (complained \/ negative)
  /\ cur' = [cur EXCEPT ![t] = None]
  /\ UNCHANGED <<table, mutex, allocated, text, refCnt, handle, key, dest>>

(* keyStringDtor *)
DtorLock(t) ==
  /\ Goto(t, "dtor", "steal")
  /\ mutex = None
  /\ mutex' = t
  /\ UNCHANGED <<table, allocated, text, refCnt, handle, key, dest, cur, complained>>

(* The entry is found by content, not by address.                          *)
Steal(t) ==
  /\ Goto(t, "steal", "dtorUnlock")
  /\ table' = [table EXCEPT ![text[cur[t]]] = None]
  /\ UNCHANGED <<mutex, allocated, text, refCnt, handle, key, dest, cur, complained>>

DtorUnlock(t) ==
  /\ Goto(t, "dtorUnlock", "free")
  /\ mutex' = None
  /\ UNCHANGED <<table, allocated, text, refCnt, handle, key, dest, cur, complained>>

Free(t) ==
  /\ Goto(t, "free", "idle")
  /\ allocated' = allocated \ {cur[t]}
  /\ text' = [text EXCEPT ![cur[t]] = None]
  /\ refCnt' = [refCnt EXCEPT ![cur[t]] = 0]
  /\ cur' = [cur EXCEPT ![t] = None]
  /\ UNCHANGED <<table, mutex, handle, key, dest, complained>>

-----------------------------------------------------------------------------

Step(t) ==
  \/ Acquire(t) \/ Bump(t) \/ Undo(t) \/ Retry(t) \/ Insert(t) \/ Return(t)
  \/ SanityRead(t)
  \/ DtorLock(t) \/ Steal(t) \/ DtorUnlock(t) \/ Free(t)

Releases == \E t \in Threads, h \in Handles : Release(t, h)

Next ==
  \/ \E t \in Threads : Step(t)
  \/ \E t \in Threads, n \in Names, h \in Handles : StartLookup(t, n, h)
  \/ \E t \in Threads, h, g \in Handles : Copy(t, h, g)
  \/ Releases

Spec == Init /\ [][Next]_vars

(* A thread inside a call keeps running, and one that waits for the mutex  *)
(* gets it if the mutex is free again and again.  Nothing obliges a client *)
(* to make a call.                                                         *)
Fairness ==
  \A t \in Threads :
    WF_vars(Step(t)) /\ SF_vars(Acquire(t)) /\ SF_vars(DtorLock(t))

FairSpec == Spec /\ Fairness
-----------------------------------------------------------------------------
(* Properties *)

Holders(c) == {h \in Handles : handle[h] = c}
PendingBumps(c) == {t \in Threads : pc[t] = "undo" /\ cur[t] = c}
Destroyers(c) == {t \in Threads : pc[t] \in Dying /\ cur[t] = c}

(* Types: in particular no counter ever goes below zero.                   *)
TypeOK ==
  /\ table \in [Names -> Cells \cup {None}]
  /\ mutex \in Threads \cup {None}
  /\ allocated \subseteq Cells
  /\ text \in [Cells -> Names \cup {None}]
  /\ refCnt \in [Cells -> Nat]
  /\ handle \in [Handles -> Cells \cup {None}]
  /\ pc \in [Threads -> Labels]
  /\ key \in [Threads -> Names \cup {None}]
  /\ dest \in [Threads -> Handles \cup {None}]
  /\ cur \in [Threads -> Cells \cup {None}]
  /\ complained \in BOOLEAN

(* The weak table and every owner point at live memory holding the right   *)
(* text: a key leaves the table before its block is freed, and a thread    *)
(* inside a lookup or a destructor works on memory that still exists.      *)
NoDanglingKey ==
  /\ \A n \in Names : table[n] # None => table[n] \in allocated /\ text[table[n]] = n
  /\ \A h \in Handles : handle[h] # None => handle[h] \in allocated
  /\ \A t \in Threads : pc[t] \in Dying \cup {"undo"} => cur[t] \in allocated

(* Interning: two owned keys with the same content are the same pointer,   *)
(* the test TestKeyDictionary.simple under every interleaving.             *)
OneKeyPerName ==
  \A g, h \in Handles :
    /\ handle[g] # None /\ handle[h] # None
    /\ text[handle[g]] = text[handle[h]]
    => handle[g] = handle[h]

(* m_refCnt counts the owners, plus the bump a lookup has not taken back.  *)
CountsExact ==
  \A c \in allocated :
    refCnt[c] = Cardinality(Holders(c)) + Cardinality(PendingBumps(c))

(* The check keyStringDtor leaves as a TODO: the entry it steals by        *)
(* content is there, and is the key being destroyed.                       *)
StealRemovesSameKey ==
  \A t \in Threads : pc[t] = "steal" => table[text[cur[t]]] = cur[t]

(* A key whose counter reached 0 is destroyed once and never handed out    *)
(* again, although lookups bump its counter meanwhile.                     *)
DestroyedOnce ==
  \A t \in Threads : pc[t] \in Dying =>
    Holders(cur[t]) = {} /\ Destroyers(cur[t]) = {t}

(* No key is lost: a block in use has an owner or is being destroyed.      *)
NoLeak == \A c \in allocated : Holders(c) # {} \/ Destroyers(c) # {}

(* j_release's own check (jobject.c:366-368): the counter is never found   *)
(* negative after a decrement.                                             *)
NeverComplains == ~complained

(* The promise of InternTable: a name is interned while it has an owner.   *)
Owned(n) == \E h \in Handles : handle[h] = table[n]
Interned == [n \in Names |-> IF Owned(n) THEN table[n] ELSE None]
Abstract == INSTANCE InternTable WITH interned <- Interned, held <- handle

(* Every step on the table, the counters and the handles is a lookup, copy *)
(* or drop of the abstract table, or invisible to its clients.             *)
ImplementsInternTable == Abstract!Spec

(* A lookup that keeps finding dying keys retries, and it returns once     *)
(* other threads stop releasing keys under it.                             *)
LookupsReturn ==
  (<>[][~Releases]_vars) => \A t \in Threads : pc[t] = "lock" ~> pc[t] = "idle"

(* A destructor gets through the lock, whatever lookups retry around it.   *)
DyingKeysFreed == \A t \in Threads : pc[t] = "dtor" ~> pc[t] = "idle"
-----------------------------------------------------------------------------
(* The inductive invariant behind the safety properties, by concern.       *)

Looking == {"lock", "search", "undo", "retry", "return"}

(* The mutex is held by the thread in a critical section, and only by it.  *)
MutexInv == \A t \in Threads : pc[t] \in Locked <=> mutex = t

(* A lookup has an argument and an empty handle of its own to fill.        *)
RequestInv ==
  /\ \A t \in Threads : IF pc[t] \in Looking
                        THEN key[t] \in Names /\ dest[t] \in Handles
                        ELSE dest[t] = None
  /\ \A t \in Threads : pc[t] \in Looking \ {"return"} => handle[dest[t]] = None
  /\ \A t, u \in Threads : dest[t] # None /\ dest[t] = dest[u] => t = u

TableInv ==
  /\ \A c \in allocated : text[c] \in Names
  /\ \A n \in Names : table[n] # None => table[n] \in allocated /\ text[table[n]] = n

(* An owned key is allocated and still in the table.                       *)
OwnerInv ==
  \A h \in Handles : handle[h] # None =>
    handle[h] \in allocated /\ table[text[handle[h]]] = handle[h]

(* A key being destroyed has no owner, one destroyer, and an entry until   *)
(* exactly the steal.                                                      *)
DyingInv ==
  /\ \A t \in Threads : pc[t] \in Dying =>
       /\ cur[t] \in allocated
       /\ \A h \in Handles : handle[h] # cur[t]
       /\ (table[text[cur[t]]] = cur[t]) = (pc[t] \in {"dtor", "steal"})
  /\ \A t, u \in Threads :
       pc[t] \in Dying /\ pc[u] \in Dying /\ cur[t] = cur[u] => t = u

(* The counter a lookup bumps in vain is that of an entry without owners.  *)
UndoInv ==
  \A t \in Threads : pc[t] = "undo" =>
    /\ cur[t] \in allocated
    /\ table[key[t]] = cur[t]
    /\ \A h \in Handles : handle[h] # cur[t]

Bumped(c) == \E t \in Threads : pc[t] = "undo" /\ cur[t] = c

CountInv ==
  \A c \in allocated :
    refCnt[c] = Cardinality(Holders(c)) + (IF Bumped(c) THEN 1 ELSE 0)

LeakInv ==
  \A c \in allocated :
    \/ \E h \in Handles : handle[h] = c
    \/ \E t \in Threads : pc[t] \in Dying /\ cur[t] = c

IInv ==
  /\ TypeOK /\ MutexInv /\ RequestInv /\ TableInv /\ OwnerInv
  /\ DyingInv /\ UndoInv /\ CountInv /\ LeakInv
=============================================================================
