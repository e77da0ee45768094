------------------------- MODULE KeyDictionaryProofs -------------------------
(***************************************************************************)
(* KeyDictionary for any threads, names, blocks and finitely many handles: *)
(* the inductive invariant IInv and what follows from it.                  *)
(***************************************************************************)
EXTENDS KeyDictionary, FiniteSetTheorems, TLAPS

-----------------------------------------------------------------------------
(* Counting owners *)

(* The owners of a key are finitely many.                                  *)
LEMMA HoldersFinite ==
  ASSUME NEW c
  PROVE  /\ IsFiniteSet(Holders(c))
         /\ Cardinality(Holders(c)) \in Nat
         /\ Cardinality(Holders(c)) = 0 <=> \A h \in Handles : handle[h] # c
<1>1. IsFiniteSet(Holders(c))
  BY HandlesFinite, FS_Subset DEF Holders
<1>2. Cardinality(Holders(c)) = 0 <=> Holders(c) = {}
  BY <1>1, FS_EmptySet
<1>3. QED
  BY <1>1, <1>2, FS_CardinalityType DEF Holders

(* Filling an empty handle adds one owner to one key.                      *)
LEMMA FillHandle ==
  ASSUME TypeOK, NEW h \in Handles, NEW c \in Cells, handle[h] = None,
         handle' = [handle EXCEPT ![h] = c]
  PROVE  /\ Cardinality(Holders(c)') = Cardinality(Holders(c)) + 1
         /\ \A d \in Cells \ {c} : Holders(d)' = Holders(d)
<1>1. Holders(c)' = Holders(c) \cup {h} /\ h \notin Holders(c)
  BY NoneAssumption DEF TypeOK, Holders
<1>2. \A d \in Cells \ {c} : Holders(d)' = Holders(d)
  BY NoneAssumption DEF TypeOK, Holders
<1>3. QED
  BY <1>1, <1>2, HoldersFinite, FS_AddElement

(* Emptying a handle takes one owner from one key.                         *)
LEMMA EmptyHandle ==
  ASSUME TypeOK, NEW h \in Handles, NEW c \in Cells, handle[h] = c,
         handle' = [handle EXCEPT ![h] = None]
  PROVE  /\ Cardinality(Holders(c)') = Cardinality(Holders(c)) - 1
         /\ \A d \in Cells \ {c} : Holders(d)' = Holders(d)
<1>1. Holders(c)' = Holders(c) \ {h} /\ h \in Holders(c)
  BY NoneAssumption DEF TypeOK, Holders
<1>2. \A d \in Cells \ {c} : Holders(d)' = Holders(d)
  BY NoneAssumption DEF TypeOK, Holders
<1>3. Cardinality(Holders(c)') = Cardinality(Holders(c)) - 1
  BY <1>1, HoldersFinite, FS_RemoveElement
<1>4. QED
  BY <1>2, <1>3

-----------------------------------------------------------------------------
(* Init and the steps *)

LEMMA InitIInv == Init => IInv
<1> SUFFICES ASSUME Init PROVE IInv
  OBVIOUS
<1> USE NoneAssumption DEF Init
<1>1. TypeOK
  BY DEF TypeOK, Labels
<1>2. MutexInv /\ RequestInv /\ TableInv /\ OwnerInv /\ DyingInv /\ UndoInv
  BY DEF MutexInv, RequestInv, TableInv, OwnerInv, DyingInv, UndoInv, Locked, Dying, Looking
<1>3. CountInv /\ LeakInv
  BY DEF CountInv, LeakInv
<1>4. QED
  BY <1>1, <1>2, <1>3 DEF IInv

(* Steps that touch neither the counters nor the handles: what is left of  *)
(* the counting conjuncts is who is in "undo".                             *)
LEMMA CountUnchanged ==
  ASSUME CountInv, UNCHANGED <<allocated, refCnt, handle>>,
         \A c \in allocated : Bumped(c)' = Bumped(c)
  PROVE  CountInv'
<1>1. \A c : Holders(c)' = Holders(c)
  BY DEF Holders
<1>2. QED
  BY <1>1 DEF CountInv

LEMMA StartLookupStep ==
  ASSUME IInv, NEW t \in Threads, NEW n \in Names, NEW h \in Handles,
         StartLookup(t, n, h)
  PROVE  IInv'
<1> USE NoneAssumption DEF IInv, StartLookup, Goto, Reserved
<1>1. TypeOK'
  BY DEF TypeOK, Labels
<1>2. MutexInv' /\ TableInv' /\ OwnerInv' /\ DyingInv' /\ UndoInv' /\ LeakInv'
  BY DEF TypeOK, MutexInv, TableInv, OwnerInv, DyingInv, UndoInv, LeakInv, Locked, Dying
<1>3. RequestInv'
  BY DEF TypeOK, RequestInv, Looking
<1>4. CountInv'
  BY CountUnchanged DEF TypeOK, Bumped
<1>5. QED
  BY <1>1, <1>2, <1>3, <1>4

LEMMA AcquireStep ==
  ASSUME IInv, NEW t \in Threads, Acquire(t)
  PROVE  IInv'
<1> USE NoneAssumption DEF IInv, Acquire, Goto
<1>1. TypeOK'
  BY DEF TypeOK, Labels, Locked
<1>2. MutexInv' /\ TableInv' /\ OwnerInv' /\ DyingInv' /\ UndoInv' /\ LeakInv'
  BY DEF TypeOK, MutexInv, TableInv, OwnerInv, DyingInv, UndoInv, LeakInv, Locked, Dying
<1>3. RequestInv'
  BY DEF TypeOK, RequestInv, Looking
<1>4. CountInv'
  BY CountUnchanged DEF TypeOK, Bumped
<1>5. QED
  BY <1>1, <1>2, <1>3, <1>4

LEMMA RetryStep ==
  ASSUME IInv, NEW t \in Threads, Retry(t)
  PROVE  IInv'
<1> USE NoneAssumption DEF IInv, Retry, Goto
<1>1. TypeOK'
  BY DEF TypeOK, Labels, Locked
<1>2. MutexInv' /\ TableInv' /\ OwnerInv' /\ DyingInv' /\ UndoInv' /\ LeakInv'
  BY DEF TypeOK, MutexInv, TableInv, OwnerInv, DyingInv, UndoInv, LeakInv, Locked, Dying
<1>3. RequestInv'
  BY DEF TypeOK, RequestInv, Looking
<1>4. CountInv'
  BY CountUnchanged DEF TypeOK, Bumped
<1>5. QED
  BY <1>1, <1>2, <1>3, <1>4

LEMMA ReturnStep ==
  ASSUME IInv, NEW t \in Threads, Return(t)
  PROVE  IInv'
<1> USE NoneAssumption DEF IInv, Return, Goto
<1>1. TypeOK'
  BY DEF TypeOK, Labels, Locked
<1>2. MutexInv' /\ TableInv' /\ OwnerInv' /\ DyingInv' /\ UndoInv' /\ LeakInv'
  BY DEF TypeOK, MutexInv, TableInv, OwnerInv, DyingInv, UndoInv, LeakInv, Locked, Dying
<1>3. RequestInv'
  BY DEF TypeOK, RequestInv, Looking
<1>4. CountInv'
  BY CountUnchanged DEF TypeOK, Bumped
<1>5. QED
  BY <1>1, <1>2, <1>3, <1>4

(* No lookup is between its bump and the undo while this one searches: the *)
(* count it reads is the number of owners.                                 *)
LEMMA BumpStep ==
  ASSUME IInv, NEW t \in Threads, Bump(t)
  PROVE  IInv'
<1> USE NoneAssumption DEF IInv
<1> DEFINE c == table[key[t]]
<1>1. /\ pc[t] = "search" /\ mutex = t
      /\ key[t] \in Names /\ dest[t] \in Handles /\ handle[dest[t]] = None
      /\ c \in Cells /\ c \in allocated /\ text[c] = key[t]
  BY DEF Bump, TypeOK, MutexInv, RequestInv, TableInv, Locked, Looking
<1>2. \A u \in Threads : pc[u] # "undo"
  BY <1>1 DEF MutexInv, Locked
<1>3. refCnt[c] = Cardinality(Holders(c))
  <2>1. ~Bumped(c)
    BY <1>2 DEF Bumped
  <2>2. QED
    BY <1>1, <2>1, HoldersFinite DEF CountInv
<1>4. CASE refCnt[c] <= 0
  <2>1. /\ refCnt' = [refCnt EXCEPT ![c] = @ + 1]
        /\ pc' = [pc EXCEPT ![t] = "undo"]
        /\ cur' = [cur EXCEPT ![t] = c]
        /\ UNCHANGED <<table, mutex, allocated, text, handle, key, dest, complained>>
    BY <1>4 DEF Bump
  <2>2. Cardinality(Holders(c)) = 0 /\ \A h \in Handles : handle[h] # c
    BY <1>1, <1>3, <1>4, HoldersFinite DEF TypeOK
  <2>3. TypeOK'
    BY <1>1, <2>1 DEF TypeOK, Labels, Locked
  <2>4. MutexInv' /\ RequestInv' /\ TableInv' /\ OwnerInv'
    BY <1>1, <2>1 DEF TypeOK, MutexInv, RequestInv, TableInv, OwnerInv, Locked, Looking
  <2>5. DyingInv' /\ LeakInv'
    BY <1>1, <2>1 DEF TypeOK, DyingInv, LeakInv, Dying
  <2>6. UndoInv'
    BY <1>1, <1>2, <2>1, <2>2 DEF TypeOK, UndoInv
  <2>7. CountInv'
    <3>1. \A d : Holders(d)' = Holders(d)
      BY <2>1 DEF Holders
    <3>2. \A d \in allocated : Bumped(d)' <=> d = c
      BY <1>1, <1>2, <2>1 DEF Bumped, TypeOK
    <3>3. \A d \in allocated : ~Bumped(d)
      BY <1>2 DEF Bumped
    <3>4. QED
      BY <1>1, <1>3, <2>1, <3>1, <3>2, <3>3, HoldersFinite DEF CountInv, TypeOK
  <2>8. QED
    BY <2>3, <2>4, <2>5, <2>6, <2>7
<1>5. CASE ~(refCnt[c] <= 0)
  <2>1. /\ refCnt' = [refCnt EXCEPT ![c] = @ + 1]
        /\ pc' = [pc EXCEPT ![t] = "return"]
        /\ handle' = [handle EXCEPT ![dest[t]] = c]
        /\ UNCHANGED <<table, mutex, allocated, text, key, dest, cur, complained>>
    BY <1>5 DEF Bump
  <2>2. \E h \in Handles : handle[h] = c
    BY <1>1, <1>3, <1>5, HoldersFinite DEF TypeOK
  <2>3. TypeOK'
    BY <1>1, <2>1 DEF TypeOK, Labels, Locked
  <2>4. MutexInv' /\ TableInv' /\ OwnerInv'
    BY <1>1, <2>1 DEF TypeOK, MutexInv, TableInv, OwnerInv, Locked
  <2>5. RequestInv'
    BY <1>1, <2>1 DEF TypeOK, RequestInv, Looking
  <2>6. DyingInv' /\ LeakInv' /\ UndoInv'
    BY <1>1, <1>2, <2>1, <2>2 DEF TypeOK, DyingInv, LeakInv, UndoInv, Dying
  <2>7. CountInv'
    <3>1. \A d \in allocated : ~Bumped(d) /\ ~Bumped(d)'
      BY <1>2, <2>1 DEF Bumped, TypeOK
    <3>2. /\ Cardinality(Holders(c)') = Cardinality(Holders(c)) + 1
          /\ \A d \in Cells \ {c} : Holders(d)' = Holders(d)
      BY <1>1, <2>1, FillHandle
    <3>3. QED
      BY <1>1, <1>3, <2>1, <3>1, <3>2, HoldersFinite DEF CountInv, TypeOK
  <2>8. QED
    BY <2>3, <2>4, <2>5, <2>6, <2>7
<1>6. QED
  BY <1>4, <1>5

LEMMA UndoStep ==
  ASSUME IInv, NEW t \in Threads, Undo(t)
  PROVE  IInv'
<1> USE NoneAssumption DEF IInv, Undo, Goto
<1> DEFINE c == cur[t]
<1>1. c \in allocated /\ c \in Cells /\ mutex = t /\ refCnt[c] = 1
  <2>1. c \in allocated /\ c \in Cells /\ mutex = t /\ Bumped(c) /\ \A h \in Handles : handle[h] # c
    BY DEF TypeOK, UndoInv, MutexInv, Locked, Bumped
  <2>2. QED
    BY <2>1, HoldersFinite DEF CountInv
<1>2. \A u \in Threads \ {t} : pc[u] # "undo"
  BY <1>1 DEF MutexInv, Locked
<1>3. TypeOK'
  BY <1>1 DEF TypeOK, Labels, Locked
<1>4. MutexInv' /\ RequestInv' /\ TableInv' /\ OwnerInv'
  BY DEF TypeOK, MutexInv, RequestInv, TableInv, OwnerInv, Locked, Looking
<1>5. DyingInv' /\ LeakInv' /\ UndoInv'
  BY <1>2 DEF TypeOK, DyingInv, LeakInv, UndoInv, Dying
<1>6. CountInv'
  <2>1. \A d : Holders(d)' = Holders(d)
    BY DEF Holders
  <2>2. \A d \in allocated : ~Bumped(d)' /\ (Bumped(d) <=> d = c)
    BY <1>2 DEF Bumped, TypeOK
  <2>3. QED
    BY <1>1, <2>1, <2>2, HoldersFinite DEF CountInv, TypeOK
<1>7. QED
  BY <1>3, <1>4, <1>5, <1>6

LEMMA InsertStep ==
  ASSUME IInv, NEW t \in Threads, Insert(t)
  PROVE  IInv'
<1> USE NoneAssumption DEF IInv
<1>1. PICK c \in Cells \ allocated :
        /\ allocated' = allocated \cup {c}
        /\ text' = [text EXCEPT ![c] = key[t]]
        /\ refCnt' = [refCnt EXCEPT ![c] = 1]
        /\ table' = [table EXCEPT ![key[t]] = c]
        /\ handle' = [handle EXCEPT ![dest[t]] = c]
  BY DEF Insert
<1>2. /\ pc[t] = "search" /\ pc' = [pc EXCEPT ![t] = "return"]
      /\ table[key[t]] = None
      /\ UNCHANGED <<mutex, key, dest, cur, complained>>
  BY DEF Insert, Goto
<1>3. /\ mutex = t /\ key[t] \in Names /\ dest[t] \in Handles /\ handle[dest[t]] = None
      /\ \A u \in Threads : pc[u] # "undo"
      /\ \A h \in Handles : handle[h] # c
  BY <1>1, <1>2 DEF TypeOK, MutexInv, RequestInv, OwnerInv, Locked, Looking
<1>4. TypeOK'
  BY <1>1, <1>2, <1>3 DEF TypeOK, Labels, Locked
<1>5. MutexInv' /\ RequestInv'
  BY <1>1, <1>2, <1>3 DEF TypeOK, MutexInv, RequestInv, Locked, Looking
<1>6. TableInv' /\ OwnerInv'
  BY <1>1, <1>2, <1>3 DEF TypeOK, TableInv, OwnerInv
<1>7. UndoInv' /\ LeakInv'
  BY <1>1, <1>2, <1>3 DEF TypeOK, UndoInv, LeakInv, Dying
<1>8. DyingInv'
  BY <1>1, <1>2, <1>3 DEF TypeOK, DyingInv, TableInv, Dying
<1>9. CountInv'
  <2>1. \A d \in allocated' : ~Bumped(d) /\ ~Bumped(d)'
    BY <1>1, <1>2, <1>3 DEF Bumped, TypeOK
  <2>2. Cardinality(Holders(c)) = 0
    BY <1>3, HoldersFinite
  <2>3. /\ Cardinality(Holders(c)') = Cardinality(Holders(c)) + 1
        /\ \A d \in Cells \ {c} : Holders(d)' = Holders(d)
    BY <1>1, <1>3, FillHandle
  <2>4. QED
    BY <1>1, <2>1, <2>2, <2>3 DEF CountInv, TypeOK
<1>10. QED
  BY <1>4, <1>5, <1>6, <1>7, <1>8, <1>9

LEMMA CopyStep ==
  ASSUME IInv, NEW t \in Threads, NEW h \in Handles, NEW g \in Handles, Copy(t, h, g)
  PROVE  IInv'
<1> USE NoneAssumption DEF IInv, Copy, Reserved
<1> DEFINE c == handle[h]
<1>1. c \in Cells /\ c \in allocated /\ handle[g] = None
  BY DEF TypeOK, OwnerInv
<1>2. TypeOK'
  BY <1>1 DEF TypeOK
<1>3. MutexInv' /\ RequestInv' /\ TableInv' /\ OwnerInv'
  BY <1>1 DEF TypeOK, MutexInv, RequestInv, TableInv, OwnerInv
<1>4. DyingInv' /\ UndoInv' /\ LeakInv'
  BY <1>1 DEF TypeOK, DyingInv, UndoInv, LeakInv
<1>5. CountInv'
  <2> DEFINE B(d) == IF Bumped(d) THEN 1 ELSE 0
  <2>1. \A d \in allocated : Bumped(d)' = Bumped(d)
    BY DEF Bumped
  <2>2. \A e \in Cells : e = c =>
          /\ Cardinality(Holders(e)') = Cardinality(Holders(e)) + 1
          /\ \A d \in Cells \ {e} : Holders(d)' = Holders(d)
    BY <1>1, FillHandle
  <2>3. QED
    BY <1>1, <2>1, <2>2, HoldersFinite DEF CountInv, TypeOK
<1>6. QED
  BY <1>2, <1>3, <1>4, <1>5

LEMMA ReleaseStep ==
  ASSUME IInv, NEW t \in Threads, NEW h \in Handles, Release(t, h)
  PROVE  IInv'
<1> USE NoneAssumption DEF IInv
<1>1. PICK c \in Cells :
        /\ handle[h] = c
        /\ pc[t] = "idle"
        /\ \A u \in Threads : dest[u] # h
        /\ refCnt' = [refCnt EXCEPT ![c] = @ - 1]
        /\ handle' = [handle EXCEPT ![h] = None]
        /\ cur' = [cur EXCEPT ![t] = c]
        /\ pc' = [pc EXCEPT ![t] = IF refCnt[c] = 1 THEN "dtor" ELSE "sanity"]
        /\ UNCHANGED <<table, mutex, allocated, text, key, dest, complained>>
  BY DEF Release, Reserved, TypeOK
<1>2. c \in allocated /\ table[text[c]] = c /\ ~Bumped(c)
  BY <1>1 DEF OwnerInv, UndoInv, Bumped
<1>3. /\ Cardinality(Holders(c)') = Cardinality(Holders(c)) - 1
      /\ \A d \in Cells \ {c} : Holders(d)' = Holders(d)
  BY <1>1, EmptyHandle
<1>4. refCnt[c] = Cardinality(Holders(c)) /\ refCnt[c] # 0
  BY <1>1, <1>2, HoldersFinite DEF CountInv
<1>5. refCnt[c] = 1 <=> \A g \in Handles : handle'[g] # c
  <2>1. Cardinality(Holders(c)') = 0 <=> \A g \in Handles : handle'[g] # c
    <3>1. Holders(c)' \subseteq Handles /\ IsFiniteSet(Holders(c)')
      BY HandlesFinite, FS_Subset DEF Holders
    <3>2. Cardinality(Holders(c)') = 0 <=> Holders(c)' = {}
      BY <3>1, FS_EmptySet
    <3>3. QED
      BY <3>2 DEF Holders
  <2>2. Cardinality(Holders(c)) \in Nat
    BY HoldersFinite
  <2>3. QED
    BY <1>3, <1>4, <2>1, <2>2
<1>6. TypeOK'
  BY <1>1, <1>4, HoldersFinite DEF TypeOK, Labels, Dying
<1>7. MutexInv' /\ RequestInv' /\ TableInv'
  BY <1>1 DEF TypeOK, MutexInv, RequestInv, TableInv, Locked, Looking
<1>8. OwnerInv' /\ UndoInv'
  BY <1>1 DEF TypeOK, OwnerInv, UndoInv
<1>9. DyingInv'
  BY <1>1, <1>2, <1>5 DEF TypeOK, DyingInv, Dying
<1>10. LeakInv'
  BY <1>1, <1>5 DEF TypeOK, LeakInv, Dying
<1>11. CountInv'
  <2>1. \A d \in allocated : Bumped(d)' = Bumped(d)
    BY <1>1 DEF Bumped, TypeOK
  <2>2. QED
    BY <1>1, <1>2, <1>3, <1>4, <2>1, HoldersFinite DEF CountInv, TypeOK
<1>12. QED
  BY <1>6, <1>7, <1>8, <1>9, <1>10, <1>11

LEMMA SanityReadStep ==
  ASSUME IInv, NEW t \in Threads, SanityRead(t)
  PROVE  IInv'
<1> USE NoneAssumption DEF IInv, SanityRead, Goto
<1>1. TypeOK'
  BY DEF TypeOK, Labels
<1>2. MutexInv' /\ RequestInv' /\ TableInv' /\ OwnerInv'
  BY DEF TypeOK, MutexInv, RequestInv, TableInv, OwnerInv, Locked, Looking
<1>3. DyingInv' /\ UndoInv' /\ LeakInv'
  BY DEF TypeOK, DyingInv, UndoInv, LeakInv, Dying
<1>4. CountInv'
  BY CountUnchanged DEF TypeOK, Bumped
<1>5. QED
  BY <1>1, <1>2, <1>3, <1>4

LEMMA DtorLockStep ==
  ASSUME IInv, NEW t \in Threads, DtorLock(t)
  PROVE  IInv'
<1> USE NoneAssumption DEF IInv, DtorLock, Goto
<1>1. TypeOK'
  BY DEF TypeOK, Labels, Dying
<1>2. MutexInv' /\ RequestInv' /\ TableInv' /\ OwnerInv'
  BY DEF TypeOK, MutexInv, RequestInv, TableInv, OwnerInv, Locked, Looking
<1>3. DyingInv' /\ UndoInv' /\ LeakInv'
  BY DEF TypeOK, DyingInv, UndoInv, LeakInv, Dying
<1>4. CountInv'
  BY CountUnchanged DEF TypeOK, Bumped
<1>5. QED
  BY <1>1, <1>2, <1>3, <1>4

(* The entry that goes is the key's own, so no other key loses its entry.  *)
LEMMA StealStep ==
  ASSUME IInv, NEW t \in Threads, Steal(t)
  PROVE  IInv'
<1> USE NoneAssumption DEF IInv, Steal, Goto
<1>1. /\ cur[t] \in allocated /\ cur[t] \in Cells /\ text[cur[t]] \in Names
      /\ table[text[cur[t]]] = cur[t]
      /\ \A h \in Handles : handle[h] # cur[t]
      /\ \A u \in Threads : pc[u] # "undo" /\ (pc[u] = "steal" => u = t)
  BY DEF TypeOK, DyingInv, TableInv, MutexInv, Dying, Locked
<1>2. TypeOK'
  BY <1>1 DEF TypeOK, Labels, Dying
<1>3. MutexInv' /\ RequestInv' /\ TableInv'
  BY <1>1 DEF TypeOK, MutexInv, RequestInv, TableInv, Locked, Looking
<1>4. OwnerInv' /\ UndoInv' /\ LeakInv'
  BY <1>1 DEF TypeOK, OwnerInv, UndoInv, LeakInv, Dying
<1>5. DyingInv'
  BY <1>1 DEF TypeOK, DyingInv, TableInv, Dying
<1>6. CountInv'
  BY CountUnchanged DEF TypeOK, Bumped
<1>7. QED
  BY <1>2, <1>3, <1>4, <1>5, <1>6

LEMMA DtorUnlockStep ==
  ASSUME IInv, NEW t \in Threads, DtorUnlock(t)
  PROVE  IInv'
<1> USE NoneAssumption DEF IInv, DtorUnlock, Goto
<1>1. TypeOK'
  BY DEF TypeOK, Labels, Dying
<1>2. MutexInv' /\ RequestInv' /\ TableInv' /\ OwnerInv'
  BY DEF TypeOK, MutexInv, RequestInv, TableInv, OwnerInv, Locked, Looking
<1>3. DyingInv' /\ UndoInv' /\ LeakInv'
  BY DEF TypeOK, DyingInv, UndoInv, LeakInv, Dying
<1>4. CountInv'
  BY CountUnchanged DEF TypeOK, Bumped
<1>5. QED
  BY <1>1, <1>2, <1>3, <1>4

(* The block that goes is in no handle, no entry and no other thread's     *)
(* hands.                                                                  *)
LEMMA FreeStep ==
  ASSUME IInv, NEW t \in Threads, Free(t)
  PROVE  IInv'
<1> USE NoneAssumption DEF IInv, Free, Goto
<1> DEFINE c == cur[t]
<1>1. /\ c \in allocated /\ c \in Cells
      /\ table[text[c]] # c
      /\ \A h \in Handles : handle[h] # c
      /\ \A u \in Threads \ {t} : pc[u] \in Dying => cur[u] # c
  BY DEF TypeOK, DyingInv, Dying
<1>2. \A n \in Names : table[n] # c
  BY <1>1 DEF TableInv, TypeOK
<1>3. \A u \in Threads : pc[u] = "undo" => cur[u] # c
  BY <1>1, <1>2 DEF UndoInv, RequestInv, Looking
<1>4. TypeOK'
  BY <1>1 DEF TypeOK, Labels, Dying
<1>5. MutexInv' /\ RequestInv' /\ TableInv' /\ OwnerInv'
  BY <1>1, <1>2 DEF TypeOK, MutexInv, RequestInv, TableInv, OwnerInv, Locked, Looking
<1>6. DyingInv' /\ LeakInv'
  BY <1>1 DEF TypeOK, DyingInv, LeakInv, Dying
<1>7. UndoInv'
  BY <1>3 DEF TypeOK, UndoInv
<1>8. CountInv'
  <2>1. \A d : Holders(d)' = Holders(d)
    BY DEF Holders
  <2>2. \A d \in allocated' : Bumped(d)' = Bumped(d)
    BY DEF Bumped, TypeOK
  <2>3. QED
    BY <1>1, <2>1, <2>2 DEF CountInv, TypeOK
<1>9. QED
  BY <1>4, <1>5, <1>6, <1>7, <1>8

-----------------------------------------------------------------------------
(* The theorems *)

(* IInv holds in every reachable state.                                    *)
THEOREM Inductive == Spec => []IInv
<1>1. Init => IInv
  BY InitIInv
<1>2. IInv /\ [Next]_vars => IInv'
  <2> SUFFICES ASSUME IInv, [Next]_vars PROVE IInv'
    OBVIOUS
  <2>1. ASSUME NEW t \in Threads, Step(t) PROVE IInv'
    BY <2>1, AcquireStep, BumpStep, UndoStep, RetryStep, InsertStep, ReturnStep,
       SanityReadStep, DtorLockStep, StealStep, DtorUnlockStep, FreeStep DEF Step
  <2>2. CASE \E t \in Threads, n \in Names, h \in Handles : StartLookup(t, n, h)
    BY <2>2, StartLookupStep
  <2>3. CASE \E t \in Threads, h, g \in Handles : Copy(t, h, g)
    BY <2>3, CopyStep
  <2>4. CASE Releases
    BY <2>4, ReleaseStep DEF Releases
  <2>5. CASE UNCHANGED vars
    BY <2>5 DEF vars, IInv, TypeOK, MutexInv, RequestInv, TableInv, OwnerInv, DyingInv,
       UndoInv, CountInv, LeakInv, Bumped, Holders
  <2>6. QED
    BY <2>1, <2>2, <2>3, <2>4, <2>5 DEF Next
<1>3. QED
  BY <1>1, <1>2, PTL DEF Spec

(* Types; in particular no counter is ever negative.                       *)
THEOREM TypeCorrect == Spec => []TypeOK
<1>1. IInv => TypeOK
  BY DEF IInv
<1>2. QED
  BY <1>1, Inductive, PTL

(* No entry, owner or thread at work points at freed memory.               *)
THEOREM NeverDangling == Spec => []NoDanglingKey
<1>1. IInv => NoDanglingKey
  BY NoneAssumption DEF IInv, NoDanglingKey, TableInv, OwnerInv, DyingInv, UndoInv, Dying
<1>2. QED
  BY <1>1, Inductive, PTL

(* Equal names are equal pointers, whatever lookups and releases race.     *)
THEOREM Interning == Spec => []OneKeyPerName
<1>1. IInv => OneKeyPerName
  BY DEF IInv, OneKeyPerName, OwnerInv
<1>2. QED
  BY <1>1, Inductive, PTL

(* The counter is the number of owners plus the bump in flight.            *)
THEOREM ExactCounts == Spec => []CountsExact
<1>1. IInv => CountsExact
  <2> SUFFICES ASSUME IInv, NEW c \in allocated
               PROVE  refCnt[c] = Cardinality(Holders(c)) + Cardinality(PendingBumps(c))
    BY DEF CountsExact
  <2>1. CASE Bumped(c)
    <3>1. PICK t \in Threads : pc[t] = "undo" /\ cur[t] = c
      BY <2>1 DEF Bumped
    <3>2. PendingBumps(c) = {t}
      BY <3>1 DEF IInv, MutexInv, Locked, PendingBumps
    <3>3. Cardinality(PendingBumps(c)) = 1
      BY <3>2, FS_Singleton
    <3>4. QED
      BY <2>1, <3>3 DEF IInv, CountInv
  <2>2. CASE ~Bumped(c)
    <3>1. PendingBumps(c) = {}
      BY <2>2 DEF Bumped, PendingBumps
    <3>2. Cardinality(PendingBumps(c)) = 0
      BY <3>1, FS_EmptySet
    <3>3. QED
      BY <2>2, <3>2 DEF IInv, CountInv
  <2>3. QED
    BY <2>1, <2>2
<1>2. QED
  BY <1>1, Inductive, PTL

(* What keyStringDtor takes out of the table is the key it destroys.       *)
THEOREM StealsItsOwn == Spec => []StealRemovesSameKey
<1>1. IInv => StealRemovesSameKey
  BY DEF IInv, StealRemovesSameKey, DyingInv, Dying
<1>2. QED
  BY <1>1, Inductive, PTL

(* A dying key is destroyed by one thread and never gets a new owner.      *)
THEOREM NoResurrection == Spec => []DestroyedOnce
<1>1. IInv => DestroyedOnce
  BY DEF IInv, DestroyedOnce, DyingInv, Holders, Destroyers
<1>2. QED
  BY <1>1, Inductive, PTL

(* Every allocated key can still be reached or is on its way out.          *)
THEOREM Leakless == Spec => []NoLeak
<1>1. IInv => NoLeak
  BY DEF IInv, NoLeak, LeakInv, Holders, Destroyers
<1>2. QED
  BY <1>1, Inductive, PTL

-----------------------------------------------------------------------------
(* KeyDictionary implements InternTable *)

(* What the mapping gives for a name: its entry, if some handle owns it.   *)
LEMMA InternedValue ==
  ASSUME NEW n \in Names
  PROVE  Interned[n] = IF \E h \in Handles : handle[h] = table[n] THEN table[n] ELSE None
BY DEF Interned, Owned

(* A step that changes neither table nor handles is invisible.             *)
LEMMA InvisibleStep ==
  ASSUME UNCHANGED <<table, handle>>
  PROVE  UNCHANGED <<Interned, handle>>
BY DEF Interned, Owned

LEMMA BumpIsShare ==
  ASSUME IInv, NEW t \in Threads, Bump(t)
  PROVE  Abstract!Next \/ UNCHANGED <<Interned, handle>>
<1> USE NoneAssumption DEF IInv
<1>1. PICK k \in Names, h \in Handles, c \in Cells :
        /\ k = key[t] /\ h = dest[t] /\ c = table[k]
        /\ mutex = t /\ handle[h] = None /\ c \in allocated /\ text[c] = k
  BY DEF Bump, TypeOK, MutexInv, RequestInv, TableInv, Locked, Looking
<1>2. refCnt[c] = Cardinality(Holders(c))
  <2>1. ~Bumped(c)
    BY <1>1 DEF Bump, Bumped, MutexInv, Locked
  <2>2. QED
    BY <1>1, <2>1, HoldersFinite DEF CountInv
<1>3. CASE refCnt[c] <= 0
  BY <1>1, <1>3, InvisibleStep DEF Bump
<1>4. CASE ~(refCnt[c] <= 0)
  <2>1. handle' = [handle EXCEPT ![h] = c] /\ table' = table
    BY <1>1, <1>4 DEF Bump
  <2>2. \E g \in Handles : handle[g] = c
    BY <1>1, <1>2, <1>4, HoldersFinite DEF TypeOK
  <2>3. Interned[k] = c
    BY <1>1, <2>2, InternedValue
  <2>4. Interned' = Interned
    <3>1. \A n \in Names : table[n] = c => n = k
      BY <1>1 DEF TableInv
    <3>2. \A n \in Names : table[n] # None /\ n # k => (Owned(n)' <=> Owned(n))
      BY <1>1, <2>1, <3>1 DEF Owned, TypeOK
    <3>3. Owned(k) /\ Owned(k)'
      BY <1>1, <2>1, <2>2 DEF Owned, TypeOK
    <3>4. QED
      BY <2>1, <3>2, <3>3 DEF Interned
  <2>5. Abstract!Share(k, h)
    BY <1>1, <2>1, <2>3, <2>4 DEF Abstract!Share
  <2>6. QED
    BY <2>5 DEF Abstract!Next
<1>5. QED
  BY <1>3, <1>4

LEMMA InsertIsCreate ==
  ASSUME IInv, NEW t \in Threads, Insert(t)
  PROVE  Abstract!Next
<1> USE NoneAssumption DEF IInv
<1>1. PICK k \in Names, h \in Handles, c \in Cells \ allocated :
        /\ k = key[t] /\ h = dest[t]
        /\ table[k] = None /\ handle[h] = None
        /\ table' = [table EXCEPT ![k] = c]
        /\ handle' = [handle EXCEPT ![h] = c]
  <2>1. key[t] \in Names /\ dest[t] \in Handles /\ handle[dest[t]] = None
    BY DEF Insert, Goto, RequestInv, Looking
  <2>2. PICK c \in Cells \ allocated :
          /\ table' = [table EXCEPT ![key[t]] = c]
          /\ handle' = [handle EXCEPT ![dest[t]] = c]
    BY DEF Insert
  <2>3. table[key[t]] = None
    BY DEF Insert
  <2>4. QED
    BY <2>1, <2>2, <2>3, Zenon
<1>2. \A n \in Names : table[n] # c /\ Interned[n] # c
  BY <1>1, InternedValue DEF TableInv
<1>3. Interned[k] = None
  BY <1>1, InternedValue
<1>4. Interned' = [Interned EXCEPT ![k] = c]
  <2>1. \A n \in Names : n # k /\ table[n] # None => (Owned(n)' <=> Owned(n))
    BY <1>1, <1>2 DEF Owned, TypeOK
  <2>2. table'[k] = c /\ Owned(k)'
    BY <1>1 DEF Owned, TypeOK
  <2>3. \A n \in Names \ {k} : table'[n] = table[n]
    BY <1>1 DEF TypeOK
  <2>4. QED
    BY <2>1, <2>2, <2>3 DEF Interned
<1>5. Abstract!Create(k, h, c)
  BY <1>1, <1>2, <1>3, <1>4 DEF Abstract!Create
<1>6. QED
  BY <1>5 DEF Abstract!Next

LEMMA CopyIsCopy ==
  ASSUME IInv, NEW t \in Threads, NEW h \in Handles, NEW g \in Handles, Copy(t, h, g)
  PROVE  Abstract!Next
<1> USE NoneAssumption DEF IInv, Copy
<1>1. \A n \in Names : table[n] # None => (Owned(n)' <=> Owned(n))
  BY DEF Owned, TypeOK
<1>2. Interned' = Interned
  BY <1>1 DEF Interned
<1>3. Abstract!Copy(h, g)
  BY <1>2 DEF Abstract!Copy
<1>4. QED
  BY <1>3 DEF Abstract!Next

LEMMA ReleaseIsDrop ==
  ASSUME IInv, NEW t \in Threads, NEW h \in Handles, Release(t, h)
  PROVE  Abstract!Next
<1> USE NoneAssumption DEF IInv
<1>1. handle[h] # None /\ handle' = [handle EXCEPT ![h] = None] /\ table' = table
  BY DEF Release
<1>2. ASSUME NEW n \in Names
      PROVE  Interned'[n] = IF \E g \in Handles \ {h} : handle[g] = Interned[n]
                            THEN Interned[n] ELSE None
  <2>1. CASE Interned[n] = None
    <3>1. table[n] = None \/ ~Owned(n)
      BY <2>1, InternedValue DEF Owned
    <3>2. table[n] = None \/ ~Owned(n)'
      BY <1>1, <3>1 DEF Owned, TypeOK
    <3>3. Interned'[n] = None
      BY <1>1, <3>2 DEF Interned
    <3>4. QED
      BY <2>1, <3>3
  <2>2. CASE Interned[n] # None
    <3>1. Interned[n] = table[n] /\ table[n] # None
      BY <2>2, InternedValue
    <3>2. Owned(n)' <=> \E g \in Handles \ {h} : handle[g] = table[n]
      BY <1>1, <3>1 DEF Owned, TypeOK
    <3>3. QED
      BY <1>1, <3>1, <3>2 DEF Interned
  <2>3. QED
    BY <2>1, <2>2
<1>3. Interned' = [n \in Names |-> Interned'[n]]
  BY DEF Interned
<1>4. Abstract!Drop(h)
  BY <1>1, <1>2, <1>3 DEF Abstract!Drop
<1>5. QED
  BY <1>4 DEF Abstract!Next

(* The name whose entry is stolen has no owner before or after.            *)
LEMMA StealIsInvisible ==
  ASSUME IInv, NEW t \in Threads, Steal(t)
  PROVE  UNCHANGED <<Interned, handle>>
<1> USE NoneAssumption DEF IInv
<1> DEFINE m == text[cur[t]]
<1>1. /\ table' = [table EXCEPT ![m] = None] /\ handle' = handle
      /\ m \in Names
      /\ table[m] = cur[t] /\ ~Owned(m)
  BY DEF Steal, Goto, TypeOK, DyingInv, TableInv, Dying, Owned
<1>2. \A n \in Names \ {m} : table'[n] = table[n] /\ (Owned(n)' <=> Owned(n))
  BY <1>1 DEF Owned, TypeOK
<1>3. table'[m] = None
  BY <1>1 DEF TypeOK
<1>4. Interned' = Interned
  BY <1>1, <1>2, <1>3 DEF Interned
<1>5. QED
  BY <1>1, <1>4

(* Every behaviour of the code is one of the abstract table: lookups that  *)
(* race destructors still behave as one atomic map from names to keys.     *)
THEOREM Refinement == Spec => ImplementsInternTable
<1>1. Init => Abstract!Init
  <2> SUFFICES ASSUME Init PROVE Abstract!Init
    OBVIOUS
  <2>1. handle = [h \in Handles |-> None] /\ table = [n \in Names |-> None]
    BY DEF Init
  <2>2. Interned = [n \in Names |-> None]
    BY <2>1 DEF Interned
  <2>3. QED
    BY <2>1, <2>2 DEF Abstract!Init
<1>2. IInv /\ [Next]_vars => [Abstract!Next]_(Abstract!vars)
  <2> SUFFICES ASSUME IInv, [Next]_vars
               PROVE  Abstract!Next \/ UNCHANGED <<Interned, handle>>
    BY DEF Abstract!vars
  <2>1. ASSUME NEW t \in Threads, Step(t)
        PROVE  Abstract!Next \/ UNCHANGED <<Interned, handle>>
    <3>1. CASE Bump(t)
      BY <3>1, BumpIsShare
    <3>2. CASE Insert(t)
      BY <3>2, InsertIsCreate
    <3>3. CASE Steal(t)
      BY <3>3, StealIsInvisible
    <3>4. CASE UNCHANGED <<table, handle>>
      BY <3>4, InvisibleStep
    <3>5. Bump(t) \/ Insert(t) \/ Steal(t) \/ UNCHANGED <<table, handle>>
      BY <2>1 DEF Step, Acquire, Undo, Retry, Return, SanityRead, DtorLock, DtorUnlock, Free
    <3>6. QED
      BY <3>1, <3>2, <3>3, <3>4, <3>5
  <2>2. CASE \E t \in Threads, n \in Names, h \in Handles : StartLookup(t, n, h)
    BY <2>2, InvisibleStep DEF StartLookup
  <2>3. CASE \E t \in Threads, h, g \in Handles : Copy(t, h, g)
    BY <2>3, CopyIsCopy
  <2>4. CASE Releases
    BY <2>4, ReleaseIsDrop DEF Releases
  <2>5. CASE UNCHANGED vars
    BY <2>5, InvisibleStep DEF vars
  <2>6. QED
    BY <2>1, <2>2, <2>3, <2>4, <2>5 DEF Next
<1>3. QED
  BY <1>1, <1>2, Inductive, PTL DEF Spec, ImplementsInternTable, Abstract!Spec
=============================================================================
