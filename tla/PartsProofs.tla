----------------------------- MODULE PartsProofs -----------------------------
(***************************************************************************)
(* Theorems about six components that stand on their own, as MCParts       *)
(* checks them: the pool of parsers, the memory pool of a parser, the      *)
(* errors of parsers, splicing, the parsers of the C++ binding, and the    *)
(* string memory of a DOM.                                                 *)
(***************************************************************************)
EXTENDS ParserPool, ParserMemPool, SaxErrors, ArraySplice, CxxParser, DomStringPool,
  ProofLemmas, SequenceTheorems

-----------------------------------------------------------------------------
(***************************************************************************)
(* The pool hands no static parser out twice and forgets none, for any     *)
(* number of threads and any size of the pool.                             *)
(***************************************************************************)
PoolPlaces == {"outside", "asking", "searching", "taking", "mallocing",
           "initialising", "parsing", "returning", "clearing"}

(* Each variable holds what its declaration says: flags of the slots, the  *)
(* thread in the mutex, a place and a parser per thread, a count.          *)
PoolTypeOK ==
  /\ used \in [Slots -> BOOLEAN]
  /\ owner \in Users \cup {Nobody}
  /\ at \in [Users -> PoolPlaces]
  /\ parser \in [Users -> 0 .. Full]
  /\ heap \in Int

(* The mutex is held exactly by the thread that reads or writes the table. *)
LockInv ==
  \A u \in Users : (owner = u) <=> at[u] \in {"searching", "taking", "clearing"}

(* What a thread has found is still free when it takes it.                 *)
FoundInv ==
  \A u \in Users : at[u] = "taking" =>
    parser[u] # HeapParser /\ (parser[u] \in Slots => ~used[parser[u]])

Holders(p) == {u \in Users : HoldsParser(u) /\ parser[u] = p}

(* A thread holds a parser of the heap or one that is marked, no two hold  *)
(* the same marked one, and each mark has its thread.                      *)
HeldInv ==
  /\ \A u \in Users : HoldsParser(u) =>
       parser[u] = HeapParser \/ (parser[u] \in Slots /\ used[parser[u]])
  /\ \A u \in Users : at[u] = "clearing" => parser[u] # HeapParser
  /\ \A u, v \in Users :
       HoldsParser(u) /\ HoldsParser(v) /\ parser[u] = parser[v] /\ u # v => parser[u] = HeapParser
  /\ \A i \in Slots : used[i] => \E u \in Users : HoldsParser(u) /\ parser[u] = i

HeapInv == heap = Cardinality(Holders(HeapParser))

PoolInv == PoolTypeOK /\ LockInv /\ FoundInv /\ HeldInv /\ HeapInv

(* A set that threads enter and leave one at a time is counted by one.     *)
LEMMA HoldersFinite == \A p : IsFiniteSet(Holders(p)) /\ Cardinality(Holders(p)) \in Nat
<1> SUFFICES ASSUME NEW p PROVE IsFiniteSet(Holders(p)) /\ Cardinality(Holders(p)) \in Nat
    OBVIOUS
<1>1. Holders(p) \subseteq Users
      BY DEF Holders
<1>2. IsFiniteSet(Holders(p))
      BY <1>1, UsersFinite, FS_Subset
<1> QED BY <1>2, FS_CardinalityType

LEMMA PoolInitHolds == InitParsers => PoolInv
<1> SUFFICES ASSUME InitParsers PROVE PoolInv
    OBVIOUS
<1>1. Holders(HeapParser) = {}
      BY DEF InitParsers, Holders, HoldsParser
<1>2. HeapInv
      BY <1>1, FS_EmptySet DEF InitParsers, HeapInv
<1>3. PoolTypeOK
      BY PoolSlotsAssumption
      DEF InitParsers, PoolTypeOK, PoolPlaces, Slots, HeapParser, Full
<1>4. LockInv /\ FoundInv /\ HeldInv
      BY NobodyAssumption DEF InitParsers, LockInv, FoundInv, HeldInv, HoldsParser
<1> QED BY <1>2, <1>3, <1>4 DEF PoolInv

(* All but the count: which is preserved by every step.                    *)
Marks == PoolTypeOK /\ LockInv /\ FoundInv /\ HeldInv

LEMMA StepsMark == ASSUME Marks, [ParsersNext]_poolVars PROVE Marks'
<1> USE PoolSlotsAssumption, NobodyAssumption
    DEF Marks, PoolTypeOK, LockInv, FoundInv, HeldInv, HoldsParser, PoolPlaces, Slots, Full, HeapParser
<1>1. CASE UNCHANGED poolVars
      BY <1>1 DEF poolVars
<1> SUFFICES ASSUME NEW u \in Users,
                    \/ AskParser(u) \/ LockForTake(u) \/ SearchFree(u) \/ TakeAndUnlock(u)
                    \/ TakeFromHeap(u) \/ StartParsing(u) \/ CreateFails(u) \/ ReleaseParser(u)
                    \/ FreeHeapParser(u) \/ LockForReturn(u) \/ ClearAndUnlock(u)
             PROVE Marks'
    BY <1>1 DEF ParsersNext
<1>2. CASE AskParser(u)
      BY <1>2 DEF AskParser, Step
<1>3. CASE LockForTake(u)
      BY <1>3 DEF LockForTake, Step
<1>4. CASE SearchFree(u)
      BY <1>4 DEF SearchFree, FirstFree, Step
<1>5. CASE TakeAndUnlock(u)
  <2>1. PoolTypeOK'
        BY <1>5 DEF TakeAndUnlock, Step
  <2>2. LockInv'
        BY <1>5 DEF TakeAndUnlock, Step
  <2>3. owner = u /\ at[u] = "taking" /\ at'[u] # "taking" /\ used \in [Slots -> BOOLEAN]
        BY <1>5 DEF TakeAndUnlock, Step
  <2>4. ASSUME NEW v \in Users, at'[v] = "taking" PROVE FALSE
        BY <1>5, <2>3, <2>4 DEF TakeAndUnlock, Step
  <2>5. FoundInv'
        BY <2>4
  <2>6. parser' = parser /\ \A v \in Users \ {u} : at'[v] = at[v]
        BY <1>5 DEF TakeAndUnlock, Step
  <2>7. CASE parser[u] = Full
    <3>1. used' = used /\ ~HoldsParser(u)' /\ at'[u] = "mallocing"
          BY <1>5, <2>7 DEF TakeAndUnlock, Step
    <3>2. HeldInv'
          BY <2>3, <2>6, <3>1, SMTT(30)
    <3> QED BY <2>1, <2>2, <2>5, <3>2
  <2>8. CASE parser[u] # Full
    <3>1. parser[u] \in Slots /\ ~used[parser[u]] /\ at'[u] = "initialising"
          BY <1>5, <2>8 DEF TakeAndUnlock, Step
    <3>2. \A i \in Slots : used'[i] <=> (used[i] \/ i = parser[u])
          BY <1>5 DEF TakeAndUnlock
    <3>3. \A v \in Users \ {u} : HoldsParser(v) => parser[v] # parser[u]
          BY <3>1
    <3>4. HeldInv'
          BY <2>3, <2>6, <3>1, <3>2, <3>3, SMTT(30)
    <3> QED BY <2>1, <2>2, <2>5, <3>4
  <2> QED BY <2>7, <2>8
<1>6. CASE TakeFromHeap(u)
      BY <1>6 DEF TakeFromHeap, Step
<1>7. CASE StartParsing(u)
      BY <1>7 DEF StartParsing, Step
<1>8. CASE CreateFails(u)
      BY <1>8 DEF CreateFails, Step
<1>9. CASE ReleaseParser(u)
      BY <1>9 DEF ReleaseParser, Step
<1>10. CASE FreeHeapParser(u)
      BY <1>10 DEF FreeHeapParser, Step
<1>11. CASE LockForReturn(u)
      BY <1>11 DEF LockForReturn, Step
<1>12. CASE ClearAndUnlock(u)
      BY <1>12 DEF ClearAndUnlock, Step
<1> QED BY <1>2, <1>3, <1>4, <1>5, <1>6, <1>7, <1>8, <1>9, <1>10, <1>11, <1>12

(* The parsers of the heap are counted as threads get and return them.     *)
LEMMA StepsCount ==
  ASSUME Marks, HeapInv, Marks', [ParsersNext]_poolVars PROVE HeapInv'
<1> DEFINE H == Holders(HeapParser)
<1> USE DEF HeapInv, HeapParser
<1>1. IsFiniteSet(H) /\ Cardinality(H) \in Nat
      BY HoldersFinite
<1>2. CASE H' = H /\ heap' = heap
      BY <1>2
<1>3. CASE UNCHANGED poolVars
      BY <1>2, <1>3 DEF poolVars, Holders, HoldsParser
<1> SUFFICES ASSUME NEW u \in Users,
                    \/ AskParser(u) \/ LockForTake(u) \/ SearchFree(u) \/ TakeAndUnlock(u)
                    \/ TakeFromHeap(u) \/ StartParsing(u) \/ CreateFails(u) \/ ReleaseParser(u)
                    \/ FreeHeapParser(u) \/ LockForReturn(u) \/ ClearAndUnlock(u)
             PROVE HeapInv'
    BY <1>3 DEF ParsersNext
<1> USE DEF Holders, HoldsParser, Marks, PoolTypeOK, Step
<1>4. CASE AskParser(u)
      BY <1>2, <1>4 DEF AskParser
<1>5. CASE LockForTake(u)
      BY <1>2, <1>5 DEF LockForTake
<1>6. CASE SearchFree(u)
      BY <1>2, <1>6 DEF SearchFree
<1>7. CASE TakeAndUnlock(u)
      BY <1>2, <1>7, PoolSlotsAssumption DEF TakeAndUnlock, FoundInv
<1>8. CASE TakeFromHeap(u)
  <2>1. u \notin H /\ H' = H \cup {u} /\ heap' = heap + 1
        BY <1>8 DEF TakeFromHeap
  <2> QED BY <1>1, <2>1, FS_AddElement
<1>9. CASE StartParsing(u)
      BY <1>2, <1>9 DEF StartParsing
<1>10. CASE CreateFails(u)
      BY <1>2, <1>10 DEF CreateFails
<1>11. CASE ReleaseParser(u)
      BY <1>2, <1>11 DEF ReleaseParser
<1>12. CASE FreeHeapParser(u)
  <2>1. u \in H /\ H' = H \ {u} /\ heap' = heap - 1
        BY <1>12 DEF FreeHeapParser
  <2>2. Cardinality(H \ {u}) = Cardinality(H) - 1
    <3> HIDE DEF H
    <3> QED BY <1>1, <2>1, FS_RemoveElement
  <2>3. heap = Cardinality(H) /\ (HeapInv' <=> heap' = Cardinality(H'))
        OBVIOUS
  <2> HIDE DEF H, HeapInv
  <2> QED BY <2>1, <2>2, <2>3
<1>13. CASE LockForReturn(u)
      BY <1>2, <1>13 DEF LockForReturn
<1>14. CASE ClearAndUnlock(u)
      BY <1>2, <1>14 DEF ClearAndUnlock, HeldInv
<1> QED BY <1>4, <1>5, <1>6, <1>7, <1>8, <1>9, <1>10, <1>11, <1>12, <1>13, <1>14

(* PoolInv holds in every state: it is inductive.                          *)
THEOREM PoolInductive == ParsersSpec => []PoolInv
<1>1. PoolInv /\ [ParsersNext]_poolVars => PoolInv'
      BY StepsMark, StepsCount DEF PoolInv, Marks
<1> QED BY PoolInitHolds, <1>1, PTL DEF ParsersSpec

(* The variables of the pool keep their types.                             *)
THEOREM PoolTyped == ParsersSpec => []PoolTypeOK
<1>1. PoolInv => PoolTypeOK
      BY DEF PoolInv
<1> QED BY <1>1, PoolInductive, PTL

(* What one thread holds nobody else holds, and what nobody holds is not   *)
(* marked: as counted by ParsersAccounted.                                 *)
LEMMA InvAccounts == PoolInv => ParsersAccounted
<1> SUFFICES ASSUME PoolInv PROVE ParsersAccounted
    OBVIOUS
<1>1. ASSUME NEW i \in Slots PROVE Cardinality(Holders(i)) = IF used[i] THEN 1 ELSE 0
  <2>1. i # HeapParser
        BY DEF Slots, HeapParser
  <2>2. CASE used[i]
    <3>1. PICK u \in Users : HoldsParser(u) /\ parser[u] = i
          BY <2>2 DEF PoolInv, HeldInv
    <3>2. Holders(i) = {u}
          BY <2>1, <3>1 DEF PoolInv, HeldInv, Holders
    <3> QED BY <2>2, <3>2, FS_Singleton
  <2>3. CASE ~used[i]
    <3>1. Holders(i) = {}
          BY <2>1, <2>3 DEF PoolInv, HeldInv, Holders
    <3> QED BY <2>3, <3>1, FS_EmptySet
  <2> QED BY <2>2, <2>3
<1>2. heap = Cardinality(Holders(HeapParser))
      BY DEF PoolInv, HeapInv
<1> QED BY <1>1, <1>2 DEF ParsersAccounted, Holders

(* No two threads ever parse with the same static parser, none stays       *)
(* marked without a thread that has it, and the heap keeps count: for any  *)
(* number of threads and any pool.                                         *)
THEOREM PoolAccounted == ParsersSpec => []ParsersAccounted
<1> QED BY InvAccounts, PoolInductive, PTL

-----------------------------------------------------------------------------
(***************************************************************************)
(* The blocks of a parser's memory pool keep what the client wrote, for a  *)
(* buffer of any size, any number of blocks and any order of malloc,       *)
(* realloc and free.                                                       *)
(***************************************************************************)
MemTypeOK ==
  /\ prev \in Nat /\ current \in Nat /\ prev <= current /\ current <= MemSize
  /\ bytes \in [Offsets -> Blocks \cup {NoBlock}]
  /\ start \in [Blocks -> Int]
  /\ size \in [Blocks -> Nat]
  /\ held \subseteq Blocks
  /\ torn = {}

(* Only the last block reaches beyond m->prev, and none beyond m->current: *)
(* that is why the last block may grow, and why the copy of a block that   *)
(* moves, taken up to m->current, is never too short.                      *)
Placed ==
  \A b \in held : start[b] # OnHeap =>
    /\ start[b] \in Nat /\ size[b] >= 1
    /\ start[b] + size[b] <= current
    /\ start[b] # prev => start[b] + size[b] <= prev

BlocksFilled ==
  \A b \in held : start[b] # OnHeap =>
    \A i \in start[b] .. start[b] + size[b] - 1 : bytes[i] = b

MemInv == MemTypeOK /\ Placed /\ BlocksFilled

-----------------------------------------------------------------------------
LEMMA MemInitHolds == InitPool => MemInv
  BY MemSizeAssumption DEF InitPool, MemInv, MemTypeOK, Placed, BlocksFilled, OnHeap

LEMMA WriteIs ==
  ASSUME NEW contents \in [Offsets -> Blocks \cup {NoBlock}], NEW b \in Blocks,
         NEW place, NEW from, NEW to
  PROVE  /\ Write(contents, b, place, from, to) \in [Offsets -> Blocks \cup {NoBlock}]
         /\ \A i \in Offsets :
              Write(contents, b, place, from, to)[i] =
                IF place # OnHeap /\ i \in place + from .. place + to - 1 THEN b ELSE contents[i]
<1>1. CASE place = OnHeap
      BY <1>1 DEF Write
<1>2. CASE place # OnHeap
      BY <1>2 DEF Write
<1> QED BY <1>1, <1>2

LEMMA SettleIs ==
  ASSUME NEW contents \in [Offsets -> Blocks \cup {NoBlock}], NEW b \in Blocks, NEW place, NEW n
  PROVE  /\ Settle(contents, b, place, n) \in [Offsets -> Blocks \cup {NoBlock}]
         /\ \A i \in Offsets :
              Settle(contents, b, place, n)[i] =
                IF contents[i] = b /\ (place = OnHeap \/ i \notin place .. place + n - 1)
                THEN NoBlock ELSE contents[i]
  BY DEF Settle

(* The bytes of a block are bytes of the buffer, before m->current.        *)
LEMMA InBuffer ==
  ASSUME MemInv, NEW b \in held, start[b] # OnHeap
  PROVE  /\ start[b] \in Nat /\ size[b] \in Nat
         /\ \A i \in start[b] .. start[b] + size[b] - 1 :
              i \in Offsets /\ i < current /\ bytes[i] = b /\ b # NoBlock
  BY MemSizeAssumption, NoBlockAssumption DEF MemInv, MemTypeOK, Placed, BlocksFilled, Offsets

(* Blocks do not overlap, so only one starts at m->prev.                   *)
LEMMA OneLast ==
  ASSUME MemInv, NEW b \in held, NEW c \in held, start[b] # OnHeap, start[c] # OnHeap,
         start[b] = prev, start[c] = prev
  PROVE  b = c
<1>1. /\ start[b] \in start[b] .. start[b] + size[b] - 1
      /\ start[c] \in start[c] .. start[c] + size[c] - 1
      BY DEF MemInv, MemTypeOK, Placed
<1> QED BY <1>1 DEF MemInv, BlocksFilled

LEMMA CarveIs ==
  ASSUME MemInv, NEW n \in Sizes, Carve(n)
  PROVE  /\ prev' \in Nat /\ current' \in Nat /\ prev' <= current' /\ current' <= MemSize
         /\ current <= current'
         /\ Carved(n) # OnHeap =>
              Carved(n) = current /\ prev' = current /\ current' = current + n
         /\ Carved(n) = OnHeap => prev' = prev /\ current' = current
         /\ Carved(n) \in Int
<1>1. n \in Nat /\ n >= 1 /\ MemSize \in Nat
      BY MemSizeAssumption DEF Sizes
<1>2. prev \in Nat /\ current \in Nat /\ prev <= current /\ current <= MemSize
      BY DEF MemInv, MemTypeOK
<1>3. CASE Fits(current, n)
      BY <1>1, <1>2, <1>3 DEF Carve, Carved, Fits, OnHeap
<1>4. CASE ~Fits(current, n)
      BY <1>1, <1>2, <1>4 DEF Carve, Carved, OnHeap
<1> QED BY <1>3, <1>4

(* What a step on block b must leave: the other blocks where they are, in  *)
(* front of what m->prev has become, with their contents.                  *)
LEMMA OthersKeep ==
  ASSUME MemInv, MemTypeOK', NEW b \in Blocks,
         \A c \in held' \ {b} : c \in held /\ start'[c] = start[c] /\ size'[c] = size[c],
         \A c \in held \ {b} : start[c] # OnHeap =>
           /\ \A i \in start[c] .. start[c] + size[c] - 1 : bytes'[i] = c
           /\ start[c] + size[c] <= current'
           /\ start[c] # prev' => start[c] + size[c] <= prev',
         (b \in held' /\ start'[b] # OnHeap) =>
           /\ start'[b] \in Nat /\ size'[b] >= 1
           /\ start'[b] + size'[b] <= current'
           /\ start'[b] # prev' => start'[b] + size'[b] <= prev'
           /\ \A i \in start'[b] .. start'[b] + size'[b] - 1 : bytes'[i] = b
  PROVE  MemInv'
<1>1. Placed'
  <2> SUFFICES ASSUME NEW c \in held', start'[c] # OnHeap
               PROVE  /\ start'[c] \in Nat /\ size'[c] >= 1
                      /\ start'[c] + size'[c] <= current'
                      /\ start'[c] # prev' => start'[c] + size'[c] <= prev'
      BY DEF Placed, OnHeap
  <2>1. CASE c = b
        BY <2>1
  <2>2. CASE c # b
        BY <2>2 DEF MemInv, Placed
  <2> QED BY <2>1, <2>2
<1>2. BlocksFilled'
  <2> SUFFICES ASSUME NEW c \in held', start'[c] # OnHeap,
                      NEW i \in start'[c] .. start'[c] + size'[c] - 1
               PROVE  bytes'[i] = c
      BY DEF BlocksFilled, OnHeap
  <2>1. CASE c = b
        BY <2>1
  <2>2. CASE c # b
        BY <2>2
  <2> QED BY <2>1, <2>2
<1> QED BY <1>1, <1>2 DEF MemInv

-----------------------------------------------------------------------------
LEMMA SizesAre == \A n \in Sizes : n \in Nat /\ n >= 1
  BY MemSizeAssumption DEF Sizes

LEMMA MallocKeeps ==
  ASSUME MemInv, NEW b \in Blocks, NEW n \in Sizes, Malloc(b, n)
  PROVE  MemInv'
<1> DEFINE place == Carved(n)
<1>1. /\ n \in Nat /\ n >= 1
      /\ prev \in Nat /\ current \in Nat /\ prev <= current
      BY SizesAre DEF MemInv, MemTypeOK
<1>2. /\ prev' \in Nat /\ current' \in Nat /\ prev' <= current' /\ current' <= MemSize
      /\ current <= current'
      /\ place # OnHeap => place = current /\ prev' = current /\ current' = current + n
      /\ place = OnHeap => prev' = prev /\ current' = current
      /\ place \in Int
      BY CarveIs DEF Malloc
<1> HIDE DEF place
<1>3. /\ b \notin held /\ held' = held \cup {b}
      /\ start' = [start EXCEPT ![b] = place] /\ size' = [size EXCEPT ![b] = n]
      /\ bytes' = Write(bytes, b, place, 0, n) /\ torn' = torn
      BY DEF Malloc, place
<1>4. /\ bytes' \in [Offsets -> Blocks \cup {NoBlock}]
      /\ \A i \in Offsets :
           bytes'[i] = IF place # OnHeap /\ i \in place .. place + n - 1 THEN b ELSE bytes[i]
      BY <1>1, <1>2, <1>3, WriteIs DEF MemInv, MemTypeOK
<1>5. MemTypeOK'
      BY <1>1, <1>2, <1>3, <1>4 DEF MemInv, MemTypeOK
<1>6. \A c \in held' \ {b} : c \in held /\ start'[c] = start[c] /\ size'[c] = size[c]
      BY <1>3 DEF MemInv, MemTypeOK
<1>7. ASSUME NEW c \in held \ {b}, start[c] # OnHeap
      PROVE  /\ \A i \in start[c] .. start[c] + size[c] - 1 : bytes'[i] = c
             /\ start[c] + size[c] <= current'
             /\ start[c] # prev' => start[c] + size[c] <= prev'
  <2>1. /\ start[c] \in Nat /\ size[c] \in Nat
        /\ \A i \in start[c] .. start[c] + size[c] - 1 :
             i \in Offsets /\ i < current /\ bytes[i] = c
        BY <1>7, InBuffer
  <2>2. start[c] + size[c] <= current /\ (start[c] # prev => start[c] + size[c] <= prev)
        BY <1>7 DEF MemInv, Placed
  <2>3. \A i \in start[c] .. start[c] + size[c] - 1 : bytes'[i] = c
        BY <1>1, <1>2, <1>4, <2>1
  <2> QED BY <1>1, <1>2, <2>1, <2>2, <2>3
<1>8. start'[b] # OnHeap =>
        /\ start'[b] \in Nat /\ size'[b] >= 1
        /\ start'[b] + size'[b] <= current'
        /\ start'[b] # prev' => start'[b] + size'[b] <= prev'
        /\ \A i \in start'[b] .. start'[b] + size'[b] - 1 : bytes'[i] = b
  <2>1. start'[b] = place /\ size'[b] = n
        BY <1>3 DEF MemInv, MemTypeOK
  <2>2. place # OnHeap => \A i \in place .. place + n - 1 : i \in Offsets
        BY <1>1, <1>2, MemSizeAssumption DEF Offsets
  <2> QED BY <1>1, <1>2, <1>4, <2>1, <2>2
<1> QED BY <1>5, <1>6, <1>7, <1>8, OthersKeep

LEMMA ReallocHeapKeeps ==
  ASSUME MemInv, NEW b \in Blocks, NEW n \in Sizes, ReallocHeap(b, n)
  PROVE  MemInv'
<1>1. n \in Nat
      BY SizesAre
<1>2. MemTypeOK'
      BY <1>1 DEF ReallocHeap, MemInv, MemTypeOK
<1>3. \A c \in held' : start'[c] # OnHeap =>
        c \in held /\ start'[c] = start[c] /\ size'[c] = size[c]
      BY DEF ReallocHeap, MemInv, MemTypeOK
<1> QED BY <1>2, <1>3 DEF ReallocHeap, MemInv, Placed, BlocksFilled, OnHeap

LEMMA ReallocLastKeeps ==
  ASSUME MemInv, NEW b \in Blocks, NEW n \in Sizes, ReallocLast(b, n)
  PROVE  MemInv'
<1> DEFINE place == start[b]
           kept == Least(size[b], n)
           settled == Settle(bytes, b, place, n)
<1>1. /\ n \in Nat /\ n >= 1
      /\ prev \in Nat /\ current \in Nat /\ prev <= current
      BY SizesAre DEF MemInv, MemTypeOK
<1>2. /\ b \in held /\ place # OnHeap /\ place = prev /\ place + n <= MemSize
      /\ current' = place + n /\ prev' = prev /\ start' = start /\ held' = held /\ torn' = torn
      /\ size' = [size EXCEPT ![b] = n]
      /\ bytes' = Write(settled, b, place, kept, n)
      BY MemSizeAssumption, <1>1 DEF ReallocLast, IsLast, Fits
<1>3. /\ place \in Nat /\ size[b] \in Nat
      /\ \A i \in place .. place + size[b] - 1 : i \in Offsets /\ bytes[i] = b
      BY <1>2, InBuffer
<1>4. kept \in Nat /\ kept <= size[b] /\ kept <= n /\ (kept = size[b] \/ kept = n)
      BY <1>1, <1>3 DEF Least
<1>5. /\ settled \in [Offsets -> Blocks \cup {NoBlock}]
      /\ \A i \in Offsets :
           settled[i] = IF bytes[i] = b /\ i \notin place .. place + n - 1 THEN NoBlock ELSE bytes[i]
      BY <1>2, SettleIs DEF MemInv, MemTypeOK
<1> HIDE DEF settled, kept
<1>6. /\ bytes' \in [Offsets -> Blocks \cup {NoBlock}]
      /\ \A i \in Offsets :
           bytes'[i] = IF i \in place + kept .. place + n - 1 THEN b ELSE settled[i]
      BY <1>2, <1>5, WriteIs
<1> HIDE DEF place
<1>7. MemTypeOK'
      BY <1>1, <1>2, <1>3, <1>6 DEF MemInv, MemTypeOK
<1>8. \A c \in held' \ {b} : c \in held /\ start'[c] = start[c] /\ size'[c] = size[c]
      BY <1>2 DEF MemInv, MemTypeOK
<1>9. ASSUME NEW c \in held \ {b}, start[c] # OnHeap
      PROVE  /\ \A i \in start[c] .. start[c] + size[c] - 1 : bytes'[i] = c
             /\ start[c] + size[c] <= current'
             /\ start[c] # prev' => start[c] + size[c] <= prev'
  <2>1. /\ start[c] \in Nat /\ size[c] \in Nat
        /\ \A i \in start[c] .. start[c] + size[c] - 1 :
             i \in Offsets /\ i < current /\ bytes[i] = c
        BY <1>9, InBuffer
  <2>2. start[c] # prev
        BY <1>2, <1>9, OneLast DEF place
  <2>3. start[c] + size[c] <= prev
        BY <1>9, <2>2 DEF MemInv, Placed
  <2>4. \A i \in start[c] .. start[c] + size[c] - 1 : bytes'[i] = c
        BY <1>1, <1>2, <1>3, <1>4, <1>5, <1>6, <2>1, <2>3
  <2> QED BY <1>1, <1>2, <2>1, <2>3, <2>4
<1>10. start'[b] # OnHeap =>
        /\ start'[b] \in Nat /\ size'[b] >= 1
        /\ start'[b] + size'[b] <= current'
        /\ start'[b] # prev' => start'[b] + size'[b] <= prev'
        /\ \A i \in start'[b] .. start'[b] + size'[b] - 1 : bytes'[i] = b
  <2>1. start'[b] = place /\ size'[b] = n
        BY <1>2 DEF MemInv, MemTypeOK, place
  <2>2. \A i \in place .. place + n - 1 : i \in Offsets
        BY <1>1, <1>2, <1>3, MemSizeAssumption DEF Offsets
  <2>3. \A i \in place .. place + n - 1 : bytes'[i] = b
        BY <1>1, <1>3, <1>4, <1>5, <1>6, <2>2
  <2> QED BY <1>1, <1>2, <1>3, <2>1, <2>3
<1> QED BY <1>7, <1>8, <1>9, <1>10, OthersKeep

LEMMA ReallocMovesKeeps ==
  ASSUME MemInv, NEW b \in Blocks, NEW n \in Sizes, ReallocMoves(b, n)
  PROVE  MemInv'
<1> DEFINE place == start[b]
           to == Carved(n)
           kept == Least(size[b], n)
           taken == Copied(b, n)
           moved == [i \in Offsets |-> IF to # OnHeap /\ i \in to .. to + taken - 1
                                       THEN bytes[place + i - to] ELSE bytes[i]]
           settled == Settle(moved, b, to, n)
<1>1. /\ n \in Nat /\ n >= 1 /\ MemSize \in Nat
      /\ prev \in Nat /\ current \in Nat /\ prev <= current /\ current <= MemSize
      BY SizesAre, MemSizeAssumption DEF MemInv, MemTypeOK
<1>2. /\ prev' \in Nat /\ current' \in Nat /\ prev' <= current' /\ current' <= MemSize
      /\ current <= current'
      /\ to # OnHeap => to = current /\ prev' = current /\ current' = current + n
      /\ to = OnHeap => prev' = prev /\ current' = current
      /\ to \in Int
      BY CarveIs DEF ReallocMoves
<1>3. /\ b \in held /\ place # OnHeap
      /\ start' = [start EXCEPT ![b] = to] /\ size' = [size EXCEPT ![b] = n]
      /\ bytes' = Write(settled, b, to, kept, n)
      /\ torn' = IF to = OnHeap /\ taken < kept THEN torn \cup {b} ELSE torn
      /\ held' = held
      BY DEF ReallocMoves
<1>4. /\ place \in Nat /\ size[b] \in Nat
      /\ \A i \in place .. place + size[b] - 1 : i \in Offsets /\ i < current /\ bytes[i] = b
      /\ place + size[b] <= current
      BY <1>3, InBuffer DEF MemInv, Placed
<1>5. /\ kept \in Nat /\ kept <= size[b] /\ kept <= n /\ (kept = size[b] \/ kept = n)
      /\ taken \in Nat /\ kept <= taken /\ taken <= n /\ place + taken <= current
      BY <1>1, <1>4 DEF Least, Copied
<1> HIDE DEF to, kept, taken, place
<1>6. \A i \in Offsets : (to # OnHeap /\ i \in to .. to + taken - 1) => place + i - to \in Offsets
      BY <1>1, <1>2, <1>4, <1>5 DEF Offsets
<1>7. /\ moved \in [Offsets -> Blocks \cup {NoBlock}]
      /\ \A i \in Offsets :
           moved[i] = IF to # OnHeap /\ i \in to .. to + taken - 1
                      THEN bytes[place + i - to] ELSE bytes[i]
      BY <1>6 DEF MemInv, MemTypeOK
<1> HIDE DEF moved
<1>8. /\ settled \in [Offsets -> Blocks \cup {NoBlock}]
      /\ \A i \in Offsets :
           settled[i] = IF moved[i] = b /\ (to = OnHeap \/ i \notin to .. to + n - 1)
                        THEN NoBlock ELSE moved[i]
      BY <1>7, SettleIs
<1> HIDE DEF settled
<1>9. /\ bytes' \in [Offsets -> Blocks \cup {NoBlock}]
      /\ \A i \in Offsets :
           bytes'[i] = IF to # OnHeap /\ i \in to + kept .. to + n - 1 THEN b ELSE settled[i]
      BY <1>3, <1>8, WriteIs
<1>10. MemTypeOK'
  <2>1. torn' = {}
        BY <1>3, <1>5 DEF MemInv, MemTypeOK
  <2> QED BY <1>1, <1>2, <1>3, <1>9, <2>1 DEF MemInv, MemTypeOK
<1>11. \A c \in held' \ {b} : c \in held /\ start'[c] = start[c] /\ size'[c] = size[c]
      BY <1>3 DEF MemInv, MemTypeOK
<1>12. ASSUME NEW c \in held \ {b}, start[c] # OnHeap
      PROVE  /\ \A i \in start[c] .. start[c] + size[c] - 1 : bytes'[i] = c
             /\ start[c] + size[c] <= current'
             /\ start[c] # prev' => start[c] + size[c] <= prev'
  <2>1. /\ start[c] \in Nat /\ size[c] \in Nat
        /\ \A i \in start[c] .. start[c] + size[c] - 1 :
             i \in Offsets /\ i < current /\ bytes[i] = c
        BY <1>12, InBuffer
  <2>2. start[c] + size[c] <= current /\ (start[c] # prev => start[c] + size[c] <= prev)
        BY <1>12 DEF MemInv, Placed
  <2>3. ASSUME NEW i \in start[c] .. start[c] + size[c] - 1
        PROVE  bytes'[i] = c
    <3>1. i \in Offsets /\ i \in Int /\ i < current /\ bytes[i] = c /\ c # b
          BY <1>12, <2>1
    <3>2. to # OnHeap => i < to
          BY <1>2, <3>1
    <3>3. moved[i] = c
          BY <1>1, <1>2, <1>7, <3>1, <3>2
    <3>4. settled[i] = c
          BY <1>8, <3>1, <3>3
    <3> QED BY <1>1, <1>2, <1>5, <1>9, <3>1, <3>2, <3>4
  <2> QED BY <1>1, <1>2, <2>1, <2>2, <2>3
<1>13. start'[b] # OnHeap =>
        /\ start'[b] \in Nat /\ size'[b] >= 1
        /\ start'[b] + size'[b] <= current'
        /\ start'[b] # prev' => start'[b] + size'[b] <= prev'
        /\ \A i \in start'[b] .. start'[b] + size'[b] - 1 : bytes'[i] = b
  <2>1. start'[b] = to /\ size'[b] = n
        BY <1>3 DEF MemInv, MemTypeOK
  <2>2. SUFFICES ASSUME to # OnHeap PROVE \A i \in to .. to + n - 1 : bytes'[i] = b
        BY <1>1, <1>2, <2>1
  <2>3. SUFFICES ASSUME NEW i \in to .. to + n - 1 PROVE bytes'[i] = b
        OBVIOUS
  <2>4. to = current /\ current + n <= MemSize
        BY <1>2, <2>2
  <2>5. i \in Offsets
        BY <1>1, <2>3, <2>4 DEF Offsets
  <2>6. CASE i \in to + kept .. to + n - 1
        BY <1>9, <2>2, <2>5, <2>6
  <2>7. CASE i \notin to + kept .. to + n - 1
    <3>1. i \in Int /\ i - to >= 0 /\ i - to < kept
          BY <1>1, <1>5, <2>3, <2>4, <2>7
    <3>2. i \in to .. to + taken - 1 /\ place + i - to \in place .. place + size[b] - 1
          BY <1>1, <1>4, <1>5, <2>4, <3>1
    <3>3. moved[i] = b
          BY <1>4, <1>7, <2>2, <2>5, <3>2
    <3>4. settled[i] = b
          BY <1>8, <2>2, <2>3, <2>5, <3>3
    <3> QED BY <1>9, <2>5, <2>7, <3>4
  <2> QED BY <2>6, <2>7
<1> QED BY <1>10, <1>11, <1>12, <1>13, OthersKeep

LEMMA MemFreeKeeps ==
  ASSUME MemInv, NEW b \in Blocks, FreeBlock(b)
  PROVE  MemInv'
<1>1. /\ held' = held \ {b} /\ prev' = prev /\ current' = current /\ torn' = torn \ {b}
      /\ start' = [start EXCEPT ![b] = OnHeap] /\ size' = [size EXCEPT ![b] = 0]
      /\ bytes' = Settle(bytes, b, OnHeap, 0)
      BY DEF FreeBlock
<1>2. /\ bytes' \in [Offsets -> Blocks \cup {NoBlock}]
      /\ \A i \in Offsets : bytes'[i] = IF bytes[i] = b THEN NoBlock ELSE bytes[i]
      BY <1>1, SettleIs DEF MemInv, MemTypeOK
<1>3. MemTypeOK'
      BY <1>1, <1>2 DEF MemInv, MemTypeOK, OnHeap
<1>4. \A c \in held' \ {b} : c \in held /\ start'[c] = start[c] /\ size'[c] = size[c]
      BY <1>1 DEF MemInv, MemTypeOK
<1>5. ASSUME NEW c \in held \ {b}, start[c] # OnHeap
      PROVE  /\ \A i \in start[c] .. start[c] + size[c] - 1 : bytes'[i] = c
             /\ start[c] + size[c] <= current'
             /\ start[c] # prev' => start[c] + size[c] <= prev'
  <2>1. \A i \in start[c] .. start[c] + size[c] - 1 : i \in Offsets /\ bytes[i] = c
        BY <1>5, InBuffer
  <2> QED BY <1>1, <1>2, <1>5, <2>1 DEF MemInv, Placed
<1> QED BY <1>1, <1>3, <1>4, <1>5, OthersKeep

-----------------------------------------------------------------------------
LEMMA MemStep == MemInv /\ [MemNext]_memVars => MemInv'
<1> SUFFICES ASSUME MemInv, [MemNext]_memVars PROVE MemInv'
    OBVIOUS
<1>1. CASE UNCHANGED memVars
      BY <1>1 DEF memVars, MemInv, MemTypeOK, Placed, BlocksFilled
<1>2. ASSUME NEW b \in Blocks, NEW n \in Sizes,
             Malloc(b, n) \/ ReallocHeap(b, n) \/ ReallocLast(b, n) \/ ReallocMoves(b, n)
      PROVE  MemInv'
      BY <1>2, MallocKeeps, ReallocHeapKeeps, ReallocLastKeeps, ReallocMovesKeeps
<1>3. ASSUME NEW b \in Blocks, FreeBlock(b)
      PROVE  MemInv'
      BY <1>3, MemFreeKeeps
<1> QED BY <1>1, <1>2, <1>3 DEF MemNext

(* BlocksKeepContents holds whatever the size of the buffer: no two blocks *)
(* share a byte, and no realloc loses one.                                 *)
THEOREM MemKeeps == MemSpec => []BlocksKeepContents
<1>1. MemInv => BlocksKeepContents
  <2> SUFFICES ASSUME MemInv, NEW b \in held
               PROVE  /\ b \notin torn
                      /\ start[b] # OnHeap =>
                           /\ start[b] + size[b] <= MemSize
                           /\ \A i \in start[b] .. start[b] + size[b] - 1 : bytes[i] = b
      BY DEF BlocksKeepContents
  <2>1. b \notin torn /\ b \in Blocks
        BY DEF MemInv, MemTypeOK
  <2>2. start[b] # OnHeap => start[b] + size[b] <= MemSize
        BY <2>1, MemSizeAssumption DEF MemInv, MemTypeOK, Placed
  <2> QED BY <2>1, <2>2 DEF MemInv, BlocksFilled
<1> QED BY MemInitHolds, MemStep, <1>1, PTL DEF MemSpec

-----------------------------------------------------------------------------
(***************************************************************************)
(* Errors are told and freed, however many pieces a parser is fed and      *)
(* however many parsers a client uses, one after the other.                *)
(***************************************************************************)
SaxTypes == {NoError, "schema", "syntax"}
SaxParsers ==
  [api : {"new", "old"}, unknown : {"absent", "stops", "continues"},
   yajl : {"reading", "broken"}, schemaError : {0, 1}, yajlError : {0, 1}, error : SaxTypes]
SaxCounts == [yajl : Int, schema : Int, error : Int]

(* The texts of a parser and of its client are the ones allocated.         *)
SaxCounted(w, given) ==
  /\ w \in [parser : SaxParsers, texts : SaxCounts]
  /\ w.texts.yajl = w.parser.yajlError
  /\ w.texts.schema = w.parser.schemaError
  /\ w.texts.error = Bit(w.parser.error # NoError) + Bit(given # NoError)

(* What no reporting of an error touches.                                  *)
SaxSameClient(v, w) ==
  /\ v.parser.api = w.parser.api
  /\ v.parser.unknown = w.parser.unknown

LEMMA WithIs ==
  ASSUME NEW s, NEW t
  PROVE  With(s, t).parser = s /\ With(s, t).texts = t
  BY DEF With

LEMMA SetErrorIs ==
  ASSUME NEW w, NEW given, SaxCounted(w, given), NEW type \in {"schema", "syntax"}
  PROVE  /\ SaxCounted(SetError(w, type), given)
         /\ SaxSameClient(SetError(w, type), w)
         /\ SetError(w, type).parser.yajl = w.parser.yajl
         /\ SetError(w, type).parser.schemaError = w.parser.schemaError
         /\ SetError(w, type).parser.yajlError = w.parser.yajlError
         /\ SetError(w, type).parser.error =
              IF w.parser.error # NoError THEN w.parser.error ELSE type
<1>1. CASE w.parser.error # NoError
  <2>1. SetError(w, type) = w
        BY <1>1 DEF SetError
  <2> QED BY <1>1, <2>1 DEF SaxSameClient
<1>2. CASE w.parser.error = NoError
  <2> DEFINE s == [w.parser EXCEPT !.error = type]
             t == [w.texts EXCEPT !.error = @ + 1]
  <2>1. SetError(w, type) = [parser |-> s, texts |-> t]
        BY <1>2 DEF SetError, With
  <2>2. w.parser \in SaxParsers /\ w.texts \in SaxCounts
        BY DEF SaxCounted
  <2>3. /\ s \in SaxParsers /\ s.error = type
        /\ s.api = w.parser.api /\ s.unknown = w.parser.unknown /\ s.yajl = w.parser.yajl
        /\ s.schemaError = w.parser.schemaError /\ s.yajlError = w.parser.yajlError
        BY <2>2 DEF SaxParsers, SaxTypes
  <2>4. /\ t \in SaxCounts /\ t.error = w.texts.error + 1
        /\ t.yajl = w.texts.yajl /\ t.schema = w.texts.schema
        BY <2>2 DEF SaxCounts
  <2>5. w.texts.error = Bit(given # NoError)
        BY <1>2 DEF SaxCounted, Bit
  <2>6. t.error = Bit(s.error # NoError) + Bit(given # NoError)
        BY <2>3, <2>4, <2>5 DEF Bit, NoError
  <2> HIDE DEF s, t
  <2> QED BY <1>2, <2>1, <2>3, <2>4, <2>6 DEF SaxCounted, SaxSameClient
<1> QED BY <1>1, <1>2

LEMMA ErrSchemaIs ==
  ASSUME NEW w, NEW given, SaxCounted(w, given)
  PROVE  /\ SaxCounted(ErrSchema(w), given)
         /\ SaxSameClient(ErrSchema(w), w)
         /\ ErrSchema(w).parser.yajl = w.parser.yajl
         /\ ErrSchema(w).parser.yajlError = w.parser.yajlError
         /\ ErrSchema(w).parser.error = w.parser.error
<1> DEFINE s == [w.parser EXCEPT !.schemaError = 1]
           t == [w.texts EXCEPT !.schema = @ - w.parser.schemaError + 1]
<1>1. ErrSchema(w) = [parser |-> s, texts |-> t]
      BY DEF ErrSchema, With
<1>2. w.parser \in SaxParsers /\ w.texts \in SaxCounts
      BY DEF SaxCounted
<1>3. /\ s \in SaxParsers /\ s.schemaError = 1
      /\ s.api = w.parser.api /\ s.unknown = w.parser.unknown /\ s.yajl = w.parser.yajl
      /\ s.yajlError = w.parser.yajlError /\ s.error = w.parser.error
      BY <1>2 DEF SaxParsers
<1>4. /\ t \in SaxCounts /\ t.schema = w.texts.schema - w.parser.schemaError + 1
      /\ t.yajl = w.texts.yajl /\ t.error = w.texts.error
      BY <1>2 DEF SaxCounts, SaxParsers
<1>5. t.schema = 1
      BY <1>2, <1>4 DEF SaxCounted, SaxParsers, SaxCounts
<1> HIDE DEF s, t
<1> QED BY <1>1, <1>3, <1>4, <1>5 DEF SaxCounted, SaxSameClient

LEMMA ProcessErrorIs ==
  ASSUME NEW w, NEW given, SaxCounted(w, given)
  PROVE  /\ SaxCounted(ProcessError(w), given)
         /\ SaxSameClient(ProcessError(w), w)
         /\ ProcessError(w).parser.yajl = w.parser.yajl
         /\ ProcessError(w).parser.yajlError = 1
         /\ ProcessError(w).parser.error =
              IF w.parser.error # NoError THEN w.parser.error ELSE "syntax"
<1> DEFINE s == [w.parser EXCEPT !.yajlError = 1]
           t == [w.texts EXCEPT !.yajl = @ - w.parser.yajlError + 1]
           v == [parser |-> s, texts |-> t]
<1>1. ProcessError(w) = SetError(v, "syntax")
      BY DEF ProcessError, With
<1>2. w.parser \in SaxParsers /\ w.texts \in SaxCounts
      BY DEF SaxCounted
<1>3. /\ s \in SaxParsers /\ s.yajlError = 1
      /\ s.api = w.parser.api /\ s.unknown = w.parser.unknown /\ s.yajl = w.parser.yajl
      /\ s.schemaError = w.parser.schemaError /\ s.error = w.parser.error
      BY <1>2 DEF SaxParsers
<1>4. /\ t \in SaxCounts /\ t.yajl = w.texts.yajl - w.parser.yajlError + 1
      /\ t.schema = w.texts.schema /\ t.error = w.texts.error
      BY <1>2 DEF SaxCounts, SaxParsers
<1>5. t.yajl = 1
      BY <1>2, <1>4 DEF SaxCounted, SaxParsers, SaxCounts
<1>6. SaxCounted(v, given) /\ SaxSameClient(v, w)
  <2> HIDE DEF s, t
  <2> QED BY <1>3, <1>4, <1>5 DEF SaxCounted, SaxSameClient
<1>7. v.parser = s
      OBVIOUS
<1> HIDE DEF s, t, v
<1> QED BY <1>1, <1>3, <1>6, <1>7, SetErrorIs DEF SaxSameClient

(* Once told, the parser has an error of the new interface only.           *)
LEMMA ParsedIs ==
  ASSUME NEW w, NEW given, SaxCounted(w, given),
         NEW outcome \in {"passes", "schema", "callback", "syntax"}
  PROVE  /\ SaxCounted(Parsed(w, outcome), given)
         /\ SaxSameClient(Parsed(w, outcome), w)
         /\ Parsed(w, outcome).parser.yajl =
              IF YajlStatus(w.parser, outcome) = "ok" THEN w.parser.yajl ELSE "broken"
         /\ Parsed(w, outcome).parser.yajlError = w.parser.yajlError
         /\ Parsed(w, outcome).parser.error =
              IF outcome = "schema" /\ w.parser.api = "new" /\ w.parser.error = NoError
              THEN "schema" ELSE w.parser.error
         /\ outcome # "schema" => Parsed(w, outcome).parser.schemaError = w.parser.schemaError
<1> DEFINE told == IF outcome = "schema" THEN ValidationError(w) ELSE w
           state == IF YajlStatus(w.parser, outcome) = "ok" THEN told.parser.yajl ELSE "broken"
           s == [told.parser EXCEPT !.yajl = state]
           t == told.texts
<1>1. /\ SaxCounted(told, given) /\ SaxSameClient(told, w)
      /\ told.parser.yajl = w.parser.yajl /\ told.parser.yajlError = w.parser.yajlError
      /\ told.parser.error = IF outcome = "schema" /\ w.parser.api = "new" /\ w.parser.error = NoError
                             THEN "schema" ELSE w.parser.error
      /\ outcome # "schema" => told.parser.schemaError = w.parser.schemaError
  <2>1. CASE outcome = "schema" /\ w.parser.api = "new"
    <3>1. told = SetError(w, "schema")
          BY <2>1 DEF ValidationError, JerrSchema
    <3> QED BY <2>1, <3>1, SetErrorIs
  <2>2. CASE outcome = "schema" /\ w.parser.api # "new"
    <3>1. told = ErrSchema(w)
          BY <2>2 DEF ValidationError
    <3> QED BY <2>2, <3>1, ErrSchemaIs
  <2>3. CASE outcome # "schema"
    <3>1. told = w
          BY <2>3
    <3> QED BY <2>3, <3>1 DEF SaxSameClient
  <2> QED BY <2>1, <2>2, <2>3
<1>2. Parsed(w, outcome) = [parser |-> s, texts |-> t]
      BY DEF Parsed, With
<1> HIDE DEF told
<1>3. told.parser \in SaxParsers /\ told.texts \in SaxCounts
      BY <1>1 DEF SaxCounted
<1>4. state \in {"reading", "broken"}
      BY <1>3 DEF SaxParsers
<1>5. state = IF YajlStatus(w.parser, outcome) = "ok" THEN w.parser.yajl ELSE "broken"
      BY <1>1
<1> HIDE DEF state
<1>6. /\ s \in SaxParsers /\ s.yajl = state
      /\ s.api = told.parser.api /\ s.unknown = told.parser.unknown
      /\ s.schemaError = told.parser.schemaError /\ s.yajlError = told.parser.yajlError
      /\ s.error = told.parser.error
      BY <1>3, <1>4 DEF SaxParsers
<1> HIDE DEF s
<1>7. SaxCounted([parser |-> s, texts |-> t], given) /\ SaxSameClient([parser |-> s, texts |-> t], told)
      BY <1>1, <1>3, <1>6 DEF SaxCounted, SaxSameClient
<1>8. /\ Parsed(w, outcome).parser = s
      /\ SaxCounted(Parsed(w, outcome), given) /\ SaxSameClient(Parsed(w, outcome), told)
      BY <1>2, <1>7
<1> QED BY <1>1, <1>5, <1>6, <1>8 DEF SaxSameClient

(***************************************************************************)
(* The invariant                                                           *)
(***************************************************************************)
SaxTypeOK ==
  /\ SaxCounted(With(sax, saxTexts), saxGiven)
  /\ saxGiven \in SaxTypes
  /\ saxReason \in {NoError, "schema", "callback", "syntax"}

(* yajl stands still exactly since something went wrong; before that there *)
(* is nothing to tell.                                                     *)
BrokenInv ==
  /\ sax.yajl = "broken" <=> saxReason # NoError
  /\ saxReason = NoError => saxAnswer /\ sax.error = NoError

(* Only handlers of the older interface wish to continue.  Everybody else  *)
(* is told no from then on, and both records of the error are kept.        *)
TellInv ==
  /\ sax.unknown = "continues" => saxAnswer /\ sax.api = "old"
  /\ (saxReason # NoError /\ sax.unknown # "continues") =>
       /\ ~saxAnswer
       /\ sax.yajlError = 1
       /\ sax.error = IF saxReason = "schema" /\ sax.api = "new" THEN "schema" ELSE "syntax"

(* What no one feeds is as good as new.                                    *)
IdleInv == saxCalls = "nobody" => sax = NoParser

SaxInv == SaxTypeOK /\ BrokenInv /\ TellInv /\ IdleInv

LEMMA Silent ==
  ASSUME NEW s \in SaxParsers, s.schemaError = 0, s.yajlError = 0, s.error = NoError,
         NEW t \in SaxCounts, NEW given,
         t.yajl = 0, t.schema = 0, t.error = Bit(given # NoError)
  PROVE  SaxCounted(With(s, t), given)
<1>1. With(s, t) = [parser |-> s, texts |-> t]
      BY DEF With
<1>2. t.error \in Int
      BY DEF SaxCounts
<1>3. Bit(s.error # NoError) = 0
      BY DEF Bit
<1>4. t.error = Bit(s.error # NoError) + Bit(given # NoError)
      BY <1>2, <1>3
<1> QED BY <1>1, <1>4 DEF SaxCounted

LEMMA NoParserIs ==
  /\ NoParser \in SaxParsers
  /\ NoParser.schemaError = 0 /\ NoParser.yajlError = 0 /\ NoParser.error = NoError
  /\ NoParser.unknown = "absent" /\ NoParser.yajl = "reading"
  BY DEF NoParser, SaxParsers, SaxTypes, NoError

(* The texts that are left when a parser goes.                             *)
LEMMA DeinitIs ==
  ASSUME NEW s, NEW t, NEW given, SaxCounted(With(s, t), given), SaxDeinit(s, t)
  PROVE  SaxCounted(With(sax', saxTexts'), given)
<1>1. s \in SaxParsers /\ t \in SaxCounts
      BY WithIs DEF SaxCounted, With
<1>2. /\ t.yajl = s.yajlError /\ t.schema = s.schemaError
      /\ t.error = Bit(s.error # NoError) + Bit(given # NoError)
      BY WithIs DEF SaxCounted
<1>3. /\ saxTexts' = [yajl |-> t.yajl - s.yajlError, schema |-> t.schema - s.schemaError,
                      error |-> t.error - Bit(s.error # NoError)]
      /\ sax' = NoParser
      BY DEF SaxDeinit
<1>4. /\ t.yajl \in Int /\ t.schema \in Int /\ t.error \in Int
      /\ s.yajlError \in Int /\ s.schemaError \in Int
      /\ Bit(s.error # NoError) \in Int /\ Bit(given # NoError) \in Int
      BY <1>1 DEF SaxParsers, SaxCounts, Bit
<1>5. /\ t.yajl - s.yajlError = 0 /\ t.schema - s.schemaError = 0
      /\ t.error - Bit(s.error # NoError) = Bit(given # NoError)
      BY <1>2, <1>4
<1>6. /\ saxTexts' \in SaxCounts /\ saxTexts'.yajl = 0 /\ saxTexts'.schema = 0
      /\ saxTexts'.error = Bit(given # NoError)
      BY <1>3, <1>4, <1>5 DEF SaxCounts
<1> QED BY <1>3, <1>6, NoParserIs, Silent

(* Whatever a piece of text comes to.                                      *)
LEMMA TakeKeeps ==
  ASSUME SaxInv, NEW outcome, Take(outcome), saxCalls' # "nobody"
  PROVE  SaxInv'
<1> DEFINE w == With(sax, saxTexts)
           status == YajlStatus(sax, outcome)
           fed == Parsed(w, outcome)
           after == IF Handled(sax, status) THEN fed ELSE ProcessError(fed)
<1>1. /\ outcome \in {"passes", "schema", "callback", "syntax"}
      /\ sax.yajl = "broken" => outcome = "syntax"
      BY DEF Take, Outcomes
<1>2. /\ sax' = after.parser /\ saxTexts' = after.texts
      /\ saxAnswer' = Handled(sax, status)
      /\ saxReason' = IF outcome = "passes" \/ saxReason # NoError THEN saxReason ELSE outcome
      /\ saxGiven' = saxGiven
      BY DEF Take
<1>3. w.parser = sax /\ SaxCounted(w, saxGiven)
      BY WithIs DEF SaxInv, SaxTypeOK
<1>4. /\ SaxCounted(fed, saxGiven)
      /\ fed.parser.api = sax.api /\ fed.parser.unknown = sax.unknown
      /\ fed.parser.yajl = IF status = "ok" THEN sax.yajl ELSE "broken"
      /\ fed.parser.yajlError = sax.yajlError
      /\ fed.parser.error = IF outcome = "schema" /\ sax.api = "new" /\ sax.error = NoError
                            THEN "schema" ELSE sax.error
      BY <1>1, <1>3, ParsedIs DEF SaxSameClient
<1> HIDE DEF w, fed
<1>5. /\ SaxCounted(after, saxGiven)
      /\ after.parser.api = sax.api /\ after.parser.unknown = sax.unknown
      /\ after.parser.yajl = fed.parser.yajl
      BY <1>4, ProcessErrorIs DEF SaxSameClient
<1>6. ~Handled(sax, status) =>
        /\ after.parser.yajlError = 1
        /\ after.parser.error = IF fed.parser.error # NoError THEN fed.parser.error ELSE "syntax"
      BY <1>4, ProcessErrorIs
<1>7. Handled(sax, status) => after.parser.error = fed.parser.error
      OBVIOUS
<1> HIDE DEF after
<1>8. SaxTypeOK'
  <2>1. With(after.parser, after.texts) = after
        BY <1>5 DEF With, SaxCounted
  <2> QED BY <1>1, <1>2, <1>5, <2>1 DEF SaxInv, SaxTypeOK
<1>9. sax \in SaxParsers
      BY WithIs DEF SaxInv, SaxTypeOK, SaxCounted, With
<1>10. /\ status = "ok" <=> (sax.yajl = "reading" /\ outcome = "passes")
       /\ Handled(sax, status) <=> (status = "ok" \/ (sax.api = "old" /\ sax.unknown = "continues"))
       BY <1>1, <1>9 DEF YajlStatus, Handled, SaxParsers
<1> HIDE DEF status
<1>11. /\ sax.yajl = "broken" <=> saxReason # NoError
       /\ saxReason = NoError => saxAnswer /\ sax.error = NoError
       /\ saxReason \in {NoError, "schema", "callback", "syntax"}
       BY DEF SaxInv, SaxTypeOK, BrokenInv
<1>12. BrokenInv'
       BY <1>1, <1>2, <1>4, <1>5, <1>7, <1>9, <1>10, <1>11 DEF BrokenInv, SaxParsers, NoError
<1>13. TellInv'
       BY <1>1, <1>2, <1>4, <1>5, <1>6, <1>7, <1>9, <1>10, <1>11
          DEF SaxInv, TellInv, SaxParsers, NoError
<1> QED BY <1>8, <1>12, <1>13 DEF SaxInv, IdleInv

LEMMA SaxInitHolds == InitSax => SaxInv
<1> SUFFICES ASSUME InitSax PROVE SaxInv
    OBVIOUS
<1>1. SaxTypeOK
  <2>1. /\ saxTexts \in SaxCounts /\ saxTexts.yajl = 0 /\ saxTexts.schema = 0
        /\ saxTexts.error = Bit(saxGiven # NoError)
        BY DEF InitSax, SaxCounts, Bit
  <2> QED BY <2>1, NoParserIs, Silent DEF InitSax, SaxTypeOK, SaxTypes
<1>2. BrokenInv /\ TellInv
      BY DEF InitSax, NoParser, NoError, BrokenInv, TellInv
<1>3. IdleInv
      BY DEF InitSax, IdleInv
<1> QED BY <1>1, <1>2, <1>3 DEF SaxInv

(* A new parser, or none, has nothing to tell.                             *)
LEMMA NewParser ==
  ASSUME sax'.yajl = "reading", sax'.error = NoError, saxReason' = NoError, saxAnswer' = TRUE,
         sax'.unknown = "continues" => sax'.api = "old"
  PROVE  BrokenInv' /\ TellInv'
  BY DEF BrokenInv, TellInv, NoError

LEMMA CreateKeeps ==
  ASSUME SaxInv, NEW calls, NEW api \in {"new", "old"},
         NEW unknown \in {"absent", "stops", "continues"}, calls # "nobody",
         SaxCreate(calls, api, unknown)
  PROVE  SaxInv'
<1> DEFINE s == [NoParser EXCEPT !.api = api, !.unknown = unknown]
<1>1. saxTexts \in SaxCounts /\ SaxCounted(With(sax, saxTexts), saxGiven)
      BY DEF SaxInv, SaxTypeOK, SaxCounted, With
<1>2. /\ saxTexts.yajl = 0 /\ saxTexts.schema = 0
      /\ saxTexts.error = Bit(saxGiven # NoError)
  <2>1. sax = NoParser
        BY DEF SaxInv, IdleInv, SaxCreate
  <2>2. /\ saxTexts.yajl = NoParser.yajlError /\ saxTexts.schema = NoParser.schemaError
        /\ saxTexts.error = Bit(NoParser.error # NoError) + Bit(saxGiven # NoError)
        BY <1>1, <2>1, WithIs DEF SaxCounted
  <2>3. Bit(NoParser.error # NoError) = 0 /\ Bit(saxGiven # NoError) \in Int
        BY NoParserIs DEF Bit
  <2> QED BY <2>2, <2>3, NoParserIs
<1>3. /\ s \in SaxParsers /\ s.schemaError = 0 /\ s.yajlError = 0 /\ s.error = NoError
      /\ s.yajl = "reading" /\ s.api = api /\ s.unknown = unknown
      BY DEF NoParser, SaxParsers, SaxTypes, NoError
<1>4. sax' = s
      BY DEF SaxCreate
<1> HIDE DEF s
<1>5. SaxTypeOK'
      BY <1>1, <1>2, <1>3, <1>4, Silent DEF SaxCreate, SaxInv, SaxTypeOK
<1>6. BrokenInv' /\ TellInv'
  <2>1. unknown = "continues" => api = "old"
        BY DEF SaxCreate
  <2> QED BY <1>3, <1>4, <2>1, NewParser DEF SaxCreate
<1>7. IdleInv'
      BY DEF IdleInv, SaxCreate
<1> QED BY <1>5, <1>6, <1>7 DEF SaxInv

(* The error of a parse that becomes the client's is still one text.       *)
LEMMA LeaveKeeps == SaxInv /\ LeaveWhole => SaxInv'
<1> SUFFICES ASSUME SaxInv,
                    NEW gives \in BOOLEAN, gives => saxGiven = NoError,
                    saxGiven' = IF gives THEN sax.error ELSE saxGiven,
                    SaxDeinit([sax EXCEPT !.error = IF gives THEN NoError ELSE @], saxTexts)
             PROVE  SaxInv'
  <2> SUFFICES ASSUME SaxInv, LeaveWhole PROVE SaxInv'
      OBVIOUS
  <2>1. PICK asks \in BOOLEAN :
          LET gives == asks /\ sax.api = "new" /\ ~saxAnswer /\ saxGiven = NoError
          IN /\ saxGiven' = IF gives THEN sax.error ELSE saxGiven
             /\ SaxDeinit([sax EXCEPT !.error = IF gives THEN NoError ELSE @], saxTexts)
        BY DEF LeaveWhole
  <2> DEFINE g == asks /\ sax.api = "new" /\ ~saxAnswer /\ saxGiven = NoError
  <2>2. g \in BOOLEAN
        OBVIOUS
  <2>3. g => saxGiven = NoError
        OBVIOUS
  <2>4. /\ saxGiven' = IF g THEN sax.error ELSE saxGiven
        /\ SaxDeinit([sax EXCEPT !.error = IF g THEN NoError ELSE @], saxTexts)
        BY <2>1
  <2> HIDE DEF g
  <2> QED BY <2>2, <2>3, <2>4
<1> DEFINE s == [sax EXCEPT !.error = IF gives THEN NoError ELSE @]
<1>1. /\ sax \in SaxParsers /\ saxTexts \in SaxCounts /\ saxGiven \in SaxTypes
      /\ saxTexts.yajl = sax.yajlError /\ saxTexts.schema = sax.schemaError
      /\ saxTexts.error = Bit(sax.error # NoError) + Bit(saxGiven # NoError)
      BY WithIs DEF SaxInv, SaxTypeOK, SaxCounted, With
<1>2. /\ s \in SaxParsers /\ s.yajlError = sax.yajlError /\ s.schemaError = sax.schemaError
      /\ s.error = IF gives THEN NoError ELSE sax.error
      BY <1>1 DEF SaxParsers, SaxTypes
<1>3. Bit(s.error # NoError) + Bit(saxGiven' # NoError)
        = Bit(sax.error # NoError) + Bit(saxGiven # NoError)
      BY <1>2 DEF Bit
<1>4. SaxDeinit(s, saxTexts)
      OBVIOUS
<1> HIDE DEF s
<1>5. SaxCounted(With(s, saxTexts), saxGiven')
      BY <1>1, <1>2, <1>3 DEF SaxCounted, With
<1>6. SaxCounted(With(sax', saxTexts'), saxGiven')
      BY <1>4, <1>5, DeinitIs
<1>7. sax' = NoParser /\ saxReason' = NoError /\ saxAnswer' = TRUE
      BY <1>4 DEF SaxDeinit
<1>8. saxGiven' \in SaxTypes
      BY <1>1 DEF SaxParsers
<1>9. BrokenInv' /\ TellInv'
      BY <1>7, NoParserIs, NewParser
<1> QED BY <1>6, <1>7, <1>8, <1>9 DEF SaxInv, SaxTypeOK, IdleInv

LEMMA SaxFreeKeeps == SaxInv /\ FreeError => SaxInv'
<1> SUFFICES ASSUME SaxInv, FreeError PROVE SaxInv'
    OBVIOUS
<1>1. /\ sax \in SaxParsers /\ saxTexts \in SaxCounts
      /\ saxTexts.yajl = sax.yajlError /\ saxTexts.schema = sax.schemaError
      /\ saxTexts.error = Bit(sax.error # NoError) + Bit(saxGiven # NoError)
      BY WithIs DEF SaxInv, SaxTypeOK, SaxCounted, With
<1>2. /\ saxTexts' \in SaxCounts /\ saxTexts'.error = saxTexts.error - 1
      /\ saxTexts'.yajl = saxTexts.yajl /\ saxTexts'.schema = saxTexts.schema
      BY <1>1 DEF FreeError, SaxCounts
<1>3. saxTexts'.error = Bit(sax.error # NoError) + Bit(saxGiven' # NoError)
      BY <1>1, <1>2 DEF FreeError, Bit
<1>4. SaxCounted(With(sax, saxTexts'), saxGiven')
      BY <1>1, <1>2, <1>3 DEF SaxCounted, With
<1> QED BY <1>4 DEF FreeError, SaxInv, SaxTypeOK, BrokenInv, TellInv, IdleInv, SaxTypes

LEMMA SaxStep == SaxInv /\ [SaxNext]_saxVars => SaxInv'
<1> SUFFICES ASSUME SaxInv, [SaxNext]_saxVars PROVE SaxInv'
    OBVIOUS
<1>1. CASE UNCHANGED saxVars
      BY <1>1 DEF saxVars, SaxInv, SaxTypeOK, BrokenInv, TellInv, IdleInv
<1>2. ASSUME NEW calls \in {"pieces", "whole"}, NEW api \in {"new", "old"},
             NEW unknown \in {"absent", "stops", "continues"}, SaxCreate(calls, api, unknown)
      PROVE  SaxInv'
      BY <1>2, CreateKeeps
<1>3. CASE SaxFeed
      BY <1>3, TakeKeeps DEF SaxFeed
<1>4. CASE SaxEnd
      BY <1>4, TakeKeeps DEF SaxEnd
<1>5. CASE FeedWhole
      BY <1>5, TakeKeeps DEF FeedWhole
<1>6. CASE EndWhole
      BY <1>6, TakeKeeps DEF EndWhole
<1>7. CASE SaxRelease
  <2>1. sax' = NoParser /\ saxReason' = NoError /\ saxAnswer' = TRUE
        BY <1>7 DEF SaxRelease, SaxDeinit
  <2>2. SaxCounted(With(sax', saxTexts'), saxGiven')
        BY <1>7, DeinitIs DEF SaxRelease, SaxInv, SaxTypeOK
  <2>3. SaxTypeOK'
        BY <1>7, <2>1, <2>2 DEF SaxRelease, SaxInv, SaxTypeOK
  <2>4. BrokenInv' /\ TellInv'
        BY <2>1, NoParserIs, NewParser
  <2> QED BY <2>1, <2>3, <2>4 DEF SaxInv, IdleInv
<1>8. CASE LeaveWhole
      BY <1>8, LeaveKeeps
<1>9. CASE FreeError
      BY <1>9, SaxFreeKeeps
<1> QED BY <1>1, <1>2, <1>3, <1>4, <1>5, <1>6, <1>7, <1>8, <1>9 DEF SaxNext

(* ErrorsTold holds of every run of parsers: whoever is told no finds a    *)
(* text and an error of the right kind, and no text is lost or freed twice.*)
THEOREM SaxTold == SaxSpec => []ErrorsTold
<1>1. SaxInv => ErrorsTold
  <2> SUFFICES ASSUME SaxInv PROVE ErrorsTold
      OBVIOUS
  <2>1. /\ saxTexts \in SaxCounts
        /\ saxTexts.yajl = sax.yajlError /\ saxTexts.schema = sax.schemaError
        /\ saxTexts.error = Bit(sax.error # NoError) + Bit(saxGiven # NoError)
        BY WithIs DEF SaxInv, SaxTypeOK, SaxCounted, With
  <2>2. saxTexts = [yajl |-> saxTexts.yajl, schema |-> saxTexts.schema, error |-> saxTexts.error]
        BY <2>1 DEF SaxCounts
  <2>3. ~saxAnswer => saxReason # NoError /\ sax.unknown # "continues"
        BY DEF SaxInv, BrokenInv, TellInv
  <2>4. ~saxAnswer => GetError # NoError
        BY <2>3 DEF SaxInv, TellInv, GetError, NoError
  <2>5. ~saxAnswer => sax.error = IF saxReason = "schema" /\ sax.api = "new" THEN "schema" ELSE "syntax"
        BY <2>3 DEF SaxInv, TellInv
  <2>6. saxAnswer /\ sax.unknown # "continues" => saxReason = NoError
        BY DEF SaxInv, TellInv
  <2>7. saxTexts = [yajl |-> sax.yajlError, schema |-> sax.schemaError,
                    error |-> Bit(sax.error # NoError) + Bit(saxGiven # NoError)]
        BY <2>1, <2>2
  <2> QED BY <2>4, <2>5, <2>6, <2>7 DEF ErrorsTold
<1> QED BY SaxInitHolds, SaxStep, <1>1, PTL DEF SaxSpec

-----------------------------------------------------------------------------
(***************************************************************************)
(* A splice leaves what was asked for, in arrays of any size.  The argument:*)
(* at every step of the loop, what is still to be done with what is there  *)
(* makes what was asked for (Ahead), the elements the loop will look for are*)
(* there (OnlyPresent), and the element just taken is the only one whose   *)
(* count differs from the slots that hold it (Taken).                      *)
(***************************************************************************)
SpliceSpec == InitSplice /\ [][SpliceNext]_spliceVars

-----------------------------------------------------------------------------
(* An array splice counts references by the slots of both arrays.          *)
SlotsOfAll == ArrayNames \X Indices
Cell(arrays) == [x \in SlotsOfAll |-> arrays[x[1]].slot[x[2]]]

TypedArrays ==
  [ArrayNames -> [slot : [Indices -> Elements \cup {NoElement}], size : 0..Capacity]]

LEMMA SlotsFinite == IsFiniteSet(SlotsOfAll)
<1>1. IsFiniteSet(Indices)
  BY CapacityAssumption, FS_Interval DEF Indices
<1>2. IsFiniteSet(ArrayNames)
  <2>1. IsFiniteSet({"array"})
    BY FS_Singleton
  <2>2. IsFiniteSet({"array"} \cup {"other"})
    BY <2>1, FS_AddElement
  <2>3. ArrayNames = {"array"} \cup {"other"}
    BY DEF ArrayNames
  <2> QED
    BY <2>2, <2>3
<1> QED
  BY <1>1, <1>2, FS_Product DEF SlotsOfAll

LEMMA HeldIs == \A e : Held(e) = Count(Cell(spArrays), SlotsOfAll, e)
<1> TAKE e
<1>1. {x \in SlotsOfAll : Cell(spArrays)[x] = e}
        = {x \in SlotsOfAll : spArrays[x[1]].slot[x[2]] = e}
  BY DEF Cell
<1> QED
  BY <1>1 DEF Held, Count, SlotsOfAll

(* An element is put at the place p and those up to the place q move up.   *)
Raised(f, g, a, p, q, e) ==
  \A x \in SlotsOfAll :
    g[x] = IF x = <<a, p>> THEN e
           ELSE IF x[1] = a /\ p < x[2] /\ x[2] <= q THEN f[<<a, x[2] - 1>>]
           ELSE f[x]

LEMMA CountRaised ==
  ASSUME NEW f, NEW g, NEW a \in ArrayNames, NEW p \in Indices, NEW q \in Indices, p <= q,
         NEW e, Raised(f, g, a, p, q, e)
  PROVE  \A b : Count(g, SlotsOfAll, b)
                  = Count(f, SlotsOfAll, b) - Same(f[<<a, q>>], b) + Same(e, b)
<1> DEFINE D == SlotsOfAll
           In(x) == x[1] = a /\ p <= x[2] /\ x[2] <= q
           pi == [x \in D |-> IF ~In(x) THEN x
                              ELSE IF x[2] = p THEN <<a, q>> ELSE <<a, x[2] - 1>>]
           inv == [x \in D |-> IF ~In(x) THEN x
                               ELSE IF x[2] = q THEN <<a, p>> ELSE <<a, x[2] + 1>>]
           h == [x \in D |-> f[pi[x]]]
<1>1. \A x \in D : x = <<x[1], x[2]>> /\ x[1] \in ArrayNames /\ x[2] \in Indices
  BY DEF SlotsOfAll
<1>2. \A i \in Indices : i \in Int
  BY CapacityAssumption DEF Indices
<1>3. \A i : i \in Indices => <<a, i>> \in D
  BY DEF SlotsOfAll
<1>4. \A x \in D : pi[x] \in D /\ inv[x] \in D
  <2> TAKE x \in D
  <2>1. x[2] \in Indices
    BY <1>1
  <2>2. In(x) /\ x[2] # p => x[2] - 1 \in Indices
    BY <2>1, CapacityAssumption DEF Indices
  <2>3. In(x) /\ x[2] # q => x[2] + 1 \in Indices
    BY <2>1, CapacityAssumption DEF Indices
  <2> QED
    BY <1>3, <2>1, <2>2, <2>3
<1>5. pi \in [D -> D] /\ inv \in [D -> D]
  BY <1>4
<1>6. \A x \in D : inv[pi[x]] = x /\ pi[inv[x]] = x
  <2> TAKE x \in D
  <2>1. x = <<x[1], x[2]>> /\ x[2] \in Int
    BY <1>1, <1>2
  <2>2. p \in Int /\ q \in Int
    BY <1>2
  <2>3. CASE ~In(x)
    BY <2>3
  <2>4. CASE In(x)
    <3>1. pi[x] = <<a, IF x[2] = p THEN q ELSE x[2] - 1>>
      BY <2>4
    <3>2. pi[x] \in D
      BY <1>4
    <3>3. inv[x] = <<a, IF x[2] = q THEN p ELSE x[2] + 1>>
      BY <2>4
    <3>4. inv[x] \in D
      BY <1>4
    <3>5. inv[pi[x]] = <<a, x[2]>>
      BY <2>1, <2>2, <2>4, <3>1, <3>2
    <3>6. pi[inv[x]] = <<a, x[2]>>
      BY <2>1, <2>2, <2>4, <3>3, <3>4
    <3> QED
      BY <2>1, <2>4, <3>5, <3>6
  <2> QED
    BY <2>3, <2>4
<1>7. \A x \in D : h[x] = f[pi[x]]
  OBVIOUS
<1>8. \A b : Count(h, D, b) = Count(f, D, b)
  <2> HIDE DEF pi, inv, h, D
  <2> TAKE b
  <2> QED
    BY <1>5, <1>6, <1>7, CountMove, SlotsFinite DEF D
<1>9. <<a, p>> \in D /\ h[<<a, p>>] = f[<<a, q>>]
  BY <1>2, <1>3
<1>10. Update(h, g, D, <<a, p>>, e)
  <2>1. g[<<a, p>>] = e
    BY <1>9 DEF Raised
  <2>2. ASSUME NEW x \in D, x # <<a, p>> PROVE g[x] = h[x]
    <3>1. x = <<x[1], x[2]>> /\ x[2] \in Int
      BY <1>1, <1>2
    <3>2. p \in Int /\ q \in Int
      BY <1>2
    <3>3. g[x] = IF x[1] = a /\ p < x[2] /\ x[2] <= q THEN f[<<a, x[2] - 1>>] ELSE f[x]
      BY <2>2 DEF Raised
    <3>4. CASE In(x)
      <4>1. x[2] # p
        BY <2>2, <3>1, <3>4
      <4> QED
        BY <3>1, <3>2, <3>3, <3>4, <4>1
    <3>5. CASE ~In(x)
      BY <3>1, <3>2, <3>3, <3>5
    <3> QED
      BY <3>4, <3>5
  <2> QED
    BY <1>9, <2>1, <2>2 DEF Update
<1>11. \A b : Count(g, D, b) = Count(h, D, b) - Same(h[<<a, p>>], b) + Same(e, b)
  <2> HIDE DEF h, D
  <2> QED
    BY <1>10, CountPut, SlotsFinite DEF D
<1> HIDE DEF h
<1> QED
  BY <1>8, <1>9, <1>11

-----------------------------------------------------------------------------
(* What the helpers make of the arrays and the counts, slot by slot.       *)

SlotOf(mem, a, i) == mem.arrays[a].slot[i]

LEMMA TakeElementIs ==
  ASSUME SpliceTyped, NEW s, s.array2 \in ArrayNames, s.j \in Indices,
         s.ownership \in Ownerships,
         NEW e, e = spArrays[s.array2].slot[s.j], e \in Elements,
         NEW mem, mem = TakeElement(Memory, s)
  PROVE  /\ s.ownership = "copy" =>
              mem = [arrays |-> spArrays, refs |-> [spRefs EXCEPT ![e] = @ + 1]]
         /\ s.ownership = "transfer" =>
              mem = [arrays |-> [spArrays EXCEPT ![s.array2].slot[s.j] = NoElement,
                                                 ![s.array2].size = @ - 1],
                     refs |-> spRefs]
         /\ s.ownership = "nochange" => mem = [arrays |-> spArrays, refs |-> spRefs]
<1>1. e # NoElement
  BY ElementsAssumption
<1>2. Memory = [arrays |-> spArrays, refs |-> spRefs]
  BY DEF Memory
<1> DEFINE now == [arrays |-> spArrays, refs |-> spRefs]
<1>3. CASE s.ownership = "copy"
  <2>1. mem = [now EXCEPT !.refs[e] = @ + 1]
    BY <1>1, <1>2, <1>3 DEF TakeElement, CopyElement
  <2> QED
    BY <1>2, <1>3, <2>1
<1>4. CASE s.ownership = "transfer"
  <2>1. mem = [now EXCEPT !.arrays[s.array2].slot[s.j] = NoElement,
                          !.arrays[s.array2].size = @ - 1]
    BY <1>2, <1>4 DEF TakeElement
  <2> QED
    BY <1>2, <1>4, <2>1
<1>5. CASE s.ownership = "nochange"
  BY <1>2, <1>5 DEF TakeElement
<1> QED
  BY <1>3, <1>4, <1>5 DEF Ownerships

(* A slot in use is overwritten.                                           *)
LEMMA PutUnsafeIs ==
  ASSUME NEW mem, NEW arrays \in TypedArrays, NEW refs \in [Elements -> Int],
         mem = [arrays |-> arrays, refs |-> refs],
         NEW i \in Indices, i < arrays["array"].size,
         NEW e \in Elements, NEW old \in Elements, old = arrays["array"].slot[i],
         NEW mem2, mem2 = PutUnsafe(mem, "array", i, e)
  PROVE  /\ mem2.refs \in [Elements -> Int]
         /\ \A b \in Elements : mem2.refs[b] = refs[b] - Same(old, b)
         /\ mem2.arrays \in TypedArrays
         /\ mem2.arrays["other"] = arrays["other"]
         /\ mem2.arrays["array"].size = arrays["array"].size
         /\ \A x \in Indices :
              mem2.arrays["array"].slot[x] = IF x = i THEN e ELSE arrays["array"].slot[x]
<1>1. old # NoElement
  BY ElementsAssumption
<1>2. ReleaseElement(mem, mem.arrays["array"].slot[i])
        = [arrays |-> arrays, refs |-> [refs EXCEPT ![old] = @ - 1]]
  BY <1>1 DEF ReleaseElement
<1> DEFINE r == [refs EXCEPT ![old] = @ - 1]
           free == [arrays |-> arrays, refs |-> r]
<1>3. PutUnsafe(mem, "array", i, e)
        = [free EXCEPT !.arrays["array"].slot[i] = e,
                       !.arrays["array"].size = IF i >= @ THEN i + 1 ELSE @]
  BY <1>2, Zenon DEF PutUnsafe
<1> HIDE DEF r
<1>4. /\ PutUnsafe(mem, "array", i, e).refs = r
      /\ PutUnsafe(mem, "array", i, e).arrays
           = [arrays EXCEPT !["array"].slot[i] = e,
                            !["array"].size = IF i >= @ THEN i + 1 ELSE @]
  BY <1>3
<1>5. [arrays EXCEPT !["array"].slot[i] = e, !["array"].size = IF i >= @ THEN i + 1 ELSE @]
        = [arrays EXCEPT !["array"].slot[i] = e]
  <2>1. arrays["array"] \in [slot : [Indices -> Elements \cup {NoElement}], size : 0..Capacity]
    BY DEF TypedArrays, ArrayNames
  <2>2. ~(i >= arrays["array"].size)
    BY <2>1, CapacityAssumption DEF Indices
  <2> QED
    BY <2>1, <2>2 DEF TypedArrays, ArrayNames
<1>6. mem2.arrays = [arrays EXCEPT !["array"].slot[i] = e] /\ mem2.refs = r
  BY <1>4, <1>5
<1>7. /\ arrays["array"] \in [slot : [Indices -> Elements \cup {NoElement}], size : 0..Capacity]
      /\ arrays["other"] \in [slot : [Indices -> Elements \cup {NoElement}], size : 0..Capacity]
  BY DEF TypedArrays, ArrayNames
<1>8. /\ mem2.arrays["array"] = [slot |-> [arrays["array"].slot EXCEPT ![i] = e],
                                 size |-> arrays["array"].size]
      /\ mem2.arrays["other"] = arrays["other"]
      /\ mem2.arrays = [a \in ArrayNames |-> mem2.arrays[a]]
  BY <1>6, <1>7 DEF TypedArrays, ArrayNames
<1>9. mem2.arrays["array"] \in [slot : [Indices -> Elements \cup {NoElement}], size : 0..Capacity]
  <2>1. [arrays["array"].slot EXCEPT ![i] = e] \in [Indices -> Elements \cup {NoElement}]
    BY <1>7
  <2> QED
    BY <1>7, <1>8, <2>1
<1>10. mem2.arrays \in TypedArrays
  BY <1>7, <1>8, <1>9 DEF TypedArrays, ArrayNames
<1>11. \A x \in Indices :
         mem2.arrays["array"].slot[x] = IF x = i THEN e ELSE arrays["array"].slot[x]
  BY <1>7, <1>8
<1>12. r \in [Elements -> Int] /\ \A b \in Elements : r[b] = refs[b] - Same(old, b)
  BY DEF r, Same
<1> QED
  BY <1>6, <1>8, <1>10, <1>11, <1>12

(* What is behind the slot moves down.                                     *)
LEMMA RemoveUnsafeIs ==
  ASSUME NEW arrays \in TypedArrays, NEW refs \in [Elements -> Int],
         NEW mem, mem = [arrays |-> arrays, refs |-> refs],
         NEW i \in Indices, NEW len, len = arrays["array"].size, i < len,
         NEW old \in Elements, old = arrays["array"].slot[i],
         NEW mem2, mem2 = RemoveUnsafe(mem, "array", i)
  PROVE  /\ mem2.refs \in [Elements -> Int]
         /\ \A b \in Elements : mem2.refs[b] = refs[b] - Same(old, b)
         /\ mem2.arrays \in TypedArrays
         /\ mem2.arrays["other"] = arrays["other"]
         /\ mem2.arrays["array"].size = len - 1
         /\ \A x \in Indices :
              mem2.arrays["array"].slot[x]
                = IF x = len - 1 THEN NoElement
                  ELSE IF i <= x /\ x < len - 1 THEN arrays["array"].slot[x + 1]
                  ELSE arrays["array"].slot[x]
<1> DEFINE slot == arrays["array"].slot
           r == [refs EXCEPT ![old] = @ - 1]
           free == [arrays |-> arrays, refs |-> r]
           down == MovedDown(slot, i, len)
<1>0. /\ arrays["array"] \in [slot : [Indices -> Elements \cup {NoElement}], size : 0..Capacity]
      /\ arrays["other"] \in [slot : [Indices -> Elements \cup {NoElement}], size : 0..Capacity]
  BY DEF TypedArrays, ArrayNames
<1>1. old # NoElement
  BY ElementsAssumption
<1>2. ReleaseElement(mem, mem.arrays["array"].slot[i]) = free
  BY <1>1 DEF ReleaseElement
<1>3. mem2 = [free EXCEPT !.arrays["array"].slot = down, !.arrays["array"].size = @ - 1]
  <2>1. RemoveUnsafe(mem, "array", i)
          = [free EXCEPT !.arrays["array"].slot = MovedDown(@, i, mem.arrays["array"].size),
                         !.arrays["array"].size = @ - 1]
    BY <1>2, Zenon DEF RemoveUnsafe
  <2>2. mem.arrays["array"].size = len /\ free.arrays["array"].slot = slot
    OBVIOUS
  <2> QED
    BY <2>1, <2>2, Zenon
<1> HIDE DEF r, down
<1>4. /\ mem2.refs = r
      /\ mem2.arrays = [arrays EXCEPT !["array"].slot = down, !["array"].size = @ - 1]
  BY <1>3
<1>5. /\ mem2.arrays["other"] = arrays["other"]
      /\ mem2.arrays["array"] = [slot |-> down, size |-> len - 1]
      /\ DOMAIN mem2.arrays = ArrayNames
      /\ mem2.arrays = [a \in ArrayNames |-> mem2.arrays[a]]
  BY <1>0, <1>4 DEF TypedArrays, ArrayNames
<1>6. \A x \in Indices :
        down[x] = IF x = len - 1 THEN NoElement
                  ELSE IF i <= x /\ x < len - 1 THEN slot[x + 1]
                  ELSE slot[x]
  BY <1>0, CapacityAssumption DEF down, MovedDown, Indices
<1>7. down \in [Indices -> Elements \cup {NoElement}]
  <2>1. \A x \in Indices : x < len - 1 => x + 1 \in Indices
    BY <1>0, CapacityAssumption DEF Indices
  <2>2. \A x \in Indices : down[x] \in Elements \cup {NoElement}
    BY <1>0, <1>6, <2>1
  <2>3. down = [x \in Indices |-> down[x]]
    BY DEF down, MovedDown
  <2> HIDE DEF slot
  <2> QED
    BY <2>2, <2>3
<1>8. len - 1 \in 0..Capacity
  BY <1>0, CapacityAssumption DEF Indices
<1>9. mem2.arrays["array"] \in [slot : [Indices -> Elements \cup {NoElement}], size : 0..Capacity]
  BY <1>5, <1>7, <1>8
<1>10. mem2.arrays \in TypedArrays
  BY <1>0, <1>5, <1>9 DEF TypedArrays, ArrayNames
<1> QED
  <2>1. r \in [Elements -> Int] /\ \A b \in Elements : r[b] = refs[b] - Same(old, b)
    BY DEF r, Same
  <2> QED
    BY <1>4, <1>5, <1>6, <1>10, <2>1

(* The element comes in front of the index or, if that is behind the end,  *)
(* at the end.                                                             *)
LEMMA InsertElementIs ==
  ASSUME NEW arrays \in TypedArrays, NEW refs,
         NEW mem, mem = [arrays |-> arrays, refs |-> refs],
         NEW i \in Nat, NEW len, len = arrays["array"].size, len < Capacity,
         arrays["array"].slot[len] = NoElement, NEW e \in Elements,
         NEW p, p = (IF i > len THEN len ELSE i),
         NEW mem2, mem2 = InsertElement(mem, "array", i, e)
  PROVE  /\ mem2.refs = refs
         /\ mem2.arrays \in TypedArrays
         /\ mem2.arrays["other"] = arrays["other"]
         /\ mem2.arrays["array"].size = len + 1
         /\ \A x \in Indices :
              mem2.arrays["array"].slot[x]
                = IF x = p THEN e
                  ELSE IF p < x /\ x <= len THEN arrays["array"].slot[x - 1]
                  ELSE arrays["array"].slot[x]
<1> DEFINE slot == arrays["array"].slot
           rec == [arrays |-> arrays, refs |-> refs]
           grown == PutUnsafe(rec, "array", len, NoElement)
           emptied == [slot EXCEPT ![len] = NoElement]
           up == MovedUp(emptied, i, len, e)
<1>0. /\ arrays["array"] \in [slot : [Indices -> Elements \cup {NoElement}], size : 0..Capacity]
      /\ arrays["other"] \in [slot : [Indices -> Elements \cup {NoElement}], size : 0..Capacity]
  BY DEF TypedArrays, ArrayNames
<1>1. len \in Nat /\ len \in Indices
  BY <1>0, CapacityAssumption DEF Indices
<1>2. grown = [rec EXCEPT !.arrays["array"].slot[len] = NoElement,
                          !.arrays["array"].size = IF len >= @ THEN len + 1 ELSE @]
  <2>1. rec.arrays["array"].slot[len] = NoElement
    OBVIOUS
  <2>2. ReleaseElement(rec, rec.arrays["array"].slot[len]) = rec
    BY <2>1 DEF ReleaseElement
  <2> QED
    BY <2>2, Zenon DEF PutUnsafe
<1>3. /\ grown.arrays = [arrays EXCEPT !["array"].slot[len] = NoElement,
                                       !["array"].size = IF len >= @ THEN len + 1 ELSE @]
      /\ grown.refs = refs
      /\ grown = [arrays |-> grown.arrays, refs |-> refs]
  <2> HIDE DEF grown
  <2> QED
    BY <1>2
<1> HIDE DEF grown
<1>4. /\ grown.arrays["other"] = arrays["other"]
      /\ grown.arrays["array"] = [slot |-> emptied, size |-> len + 1]
      /\ DOMAIN grown.arrays = ArrayNames
  <2>1. len >= arrays["array"].size
    BY <1>1
  <2>2. grown.arrays = [arrays EXCEPT !["array"].slot[len] = NoElement, !["array"].size = len + 1]
    BY <1>3, <2>1
  <2> QED
    BY <1>0, <2>2 DEF TypedArrays, ArrayNames
<1>5. mem2 = [grown EXCEPT !.arrays["array"].slot = up]
  <2>1. mem = rec /\ mem.arrays["array"].size = len
    OBVIOUS
  <2>2. PutUnsafe(mem, "array", mem.arrays["array"].size, NoElement) = grown
    BY <2>1, Zenon DEF grown
  <2>3. InsertElement(mem, "array", i, e)
          = [grown EXCEPT !.arrays["array"].slot
               = MovedUp(@, i, grown.arrays["array"].size - 1, e)]
    BY <2>2, Zenon DEF InsertElement
  <2>4. grown.arrays["array"].size - 1 = len /\ grown.arrays["array"].slot = emptied
    BY <1>1, <1>4
  <2> QED
    BY <2>3, <2>4, Zenon
<1> HIDE DEF up
<1>6. /\ mem2.refs = refs
      /\ mem2.arrays = [grown.arrays EXCEPT !["array"].slot = up]
  <2> DEFINE gr == [arrays |-> grown.arrays, refs |-> refs]
  <2>1. mem2 = [gr EXCEPT !.arrays["array"].slot = up]
    BY <1>3, <1>5
  <2> QED
    BY <2>1
<1>7. /\ mem2.arrays["other"] = arrays["other"]
      /\ mem2.arrays["array"] = [slot |-> up, size |-> len + 1]
      /\ mem2.arrays = [a \in ArrayNames |-> mem2.arrays[a]]
  BY <1>4, <1>6 DEF ArrayNames
<1>8. emptied = slot
  BY <1>0, <1>1
<1>9. \A x \in Indices :
        up[x] = IF x = p THEN e
                ELSE IF p < x /\ x <= len THEN slot[x - 1]
                ELSE slot[x]
  <2> HIDE DEF emptied, slot
  <2> QED
    BY <1>1, <1>8, CapacityAssumption DEF up, MovedUp, Indices
<1>10. up \in [Indices -> Elements \cup {NoElement}]
  <2>1. \A x \in Indices : x > p => x - 1 \in Indices
    BY <1>1, CapacityAssumption DEF Indices
  <2>2. \A x \in Indices : up[x] \in Elements \cup {NoElement}
    BY <1>0, <1>9, <2>1
  <2>3. up = [x \in Indices |-> up[x]]
    BY DEF up, MovedUp
  <2> HIDE DEF slot
  <2> QED
    BY <2>2, <2>3
<1>11. len + 1 \in 0..Capacity
  BY <1>1, CapacityAssumption
<1>12. mem2.arrays["array"] \in [slot : [Indices -> Elements \cup {NoElement}], size : 0..Capacity]
  BY <1>7, <1>10, <1>11
<1>13. mem2.arrays \in TypedArrays
  BY <1>0, <1>7, <1>12 DEF TypedArrays, ArrayNames
<1> QED
  BY <1>6, <1>7, <1>9, <1>13
-----------------------------------------------------------------------------
(* The element taken next: it is there, and once it is taken it is counted *)
(* once more than the slots hold it.                                       *)
Taking ==
  /\ SpliceHolds /\ spLoop # NoLoop /\ spLoop.j < spLoop.end

LEMMA ElementThere ==
  ASSUME Taking
  PROVE  /\ LoopFits /\ spLoop.i \in Nat /\ spLoop.j \in Nat /\ spLoop.end \in Nat
         /\ spLoop.j \in Indices /\ spLoop.j \in Present(spLoop.array2)
         /\ spLoop.array2 \in ArrayNames /\ spLoop.ownership \in Ownerships
         /\ Element \in Elements
         /\ spArrays \in TypedArrays
<1>1. LoopFits /\ SpliceTyped /\ OnlyPresent
  BY DEF Taking, SpliceHolds
<1>2. /\ spLoop.i \in Nat /\ spLoop.j \in Nat /\ spLoop.end \in Nat /\ spLoop.j < spLoop.end
      /\ spLoop.end <= Capacity /\ spLoop.array2 \in ArrayNames
      /\ spLoop.ownership \in Ownerships
  BY <1>1 DEF LoopFits, Taking
<1>3. spLoop.j \in Indices
  BY <1>2, CapacityAssumption DEF Indices
<1>4. spArrays \in TypedArrays
  BY <1>1 DEF SpliceTyped, TypedArrays
<1>5. spLoop.j \in Present(spLoop.array2)
  <2>1. Size(spLoop.array2) \in Nat
    BY <1>2, <1>4 DEF TypedArrays, Size
  <2>2. CASE spLoop.ownership # "transfer"
    <3>1. spLoop.end <= Size(spLoop.array2)
      BY <1>1, <1>2, <2>2 DEF LoopFits, ToCome
    <3>2. Present(spLoop.array2) = 0..(Size(spLoop.array2) - 1)
      BY <2>2 DEF Present, Transferring
    <3> QED
      BY <1>2, <2>1, <3>1, <3>2
  <2>3. CASE spLoop.ownership = "transfer"
    <3>1. spLoop.array2 = "other" /\ Transferring
      BY <1>1, <2>3 DEF LoopFits, Transferring, Taking
    <3> QED
      BY <1>2, <3>1 DEF Present
  <2> QED
    BY <1>2, <2>2, <2>3
<1>6. Element \in Elements
  <2>1. Element # NoElement
    BY <1>1, <1>2, <1>3, <1>5 DEF OnlyPresent, Element
  <2>2. Element \in Elements \cup {NoElement}
    BY <1>2, <1>3, <1>4 DEF TypedArrays, Element
  <2> QED
    BY <2>1, <2>2
<1> QED
  BY <1>1, <1>2, <1>3, <1>4, <1>5, <1>6

LEMMA Taken ==
  ASSUME Taking
  PROVE  \E arrays \in TypedArrays, refs \in [Elements -> Int] :
           /\ TakeElement(Memory, spLoop) = [arrays |-> arrays, refs |-> refs]
           /\ arrays["array"] = spArrays["array"]
           /\ arrays["other"].size
                = IF Transferring THEN Size("other") - 1 ELSE Size("other")
           /\ \A x \in Indices :
                arrays["other"].slot[x]
                  = IF Transferring /\ x = spLoop.j THEN NoElement
                    ELSE spArrays["other"].slot[x]
           /\ \A b \in Elements :
                refs[b] + Lending[b]
                  = Count(Cell(arrays), SlotsOfAll, b) + Same(Element, b)
<1> DEFINE e == Element
<1>1. /\ LoopFits /\ spLoop.j \in Indices /\ spLoop.array2 \in ArrayNames
      /\ spLoop.ownership \in Ownerships /\ e \in Elements /\ spArrays \in TypedArrays
  BY ElementThere
<1>2. SpliceTyped /\ Counted /\ spLoop # NoLoop /\ spRefs \in [Elements -> Int]
      /\ spLent \in [Elements -> Nat]
  BY DEF Taking, SpliceHolds, SpliceTyped
<1>3. e # NoElement
  BY <1>1, ElementsAssumption
<1>4. \A b \in Elements : spRefs[b] + spLent[b] = Count(Cell(spArrays), SlotsOfAll, b)
  BY <1>2, HeldIs DEF Counted
<1>5. \A b : Count(Cell(spArrays), SlotsOfAll, b) \in Nat
  BY SlotsFinite, CountZero
<1>6. CASE spLoop.ownership = "copy"
  <2>1. TakeElement(Memory, spLoop)
          = [arrays |-> spArrays, refs |-> [spRefs EXCEPT ![e] = @ + 1]]
    BY <1>1, <1>2, <1>6, TakeElementIs DEF Element
  <2>2. [spRefs EXCEPT ![e] = @ + 1] \in [Elements -> Int]
    BY <1>1, <1>2
  <2>3. \A b \in Elements :
          [spRefs EXCEPT ![e] = @ + 1][b] + Lending[b]
            = Count(Cell(spArrays), SlotsOfAll, b) + Same(e, b)
    <3>1. Lending = spLent
      BY <1>6 DEF Lending
    <3> HIDE DEF e
    <3> QED
      BY <1>1, <1>2, <1>4, <1>5, <3>1 DEF Same
  <2>4. ~Transferring
    BY <1>6 DEF Transferring
  <2>5. PICK refs : refs = [spRefs EXCEPT ![e] = @ + 1]
    OBVIOUS
  <2>6. /\ refs \in [Elements -> Int]
        /\ TakeElement(Memory, spLoop) = [arrays |-> spArrays, refs |-> refs]
        /\ \A b \in Elements :
             refs[b] + Lending[b] = Count(Cell(spArrays), SlotsOfAll, b) + Same(e, b)
    BY <2>1, <2>2, <2>3, <2>5, Zenon
  <2> QED
    BY <1>1, <2>4, <2>6 DEF Size
<1>6a. CASE spLoop.ownership = "nochange"
  <2>1. TakeElement(Memory, spLoop) = [arrays |-> spArrays, refs |-> spRefs]
    BY <1>6a DEF TakeElement, Memory
  <2>2. Lending = [spLent EXCEPT ![e] = @ + 1]
    BY <1>6a DEF Lending
  <2>3. \A b \in Elements :
          spRefs[b] + Lending[b] = Count(Cell(spArrays), SlotsOfAll, b) + Same(e, b)
    <3> HIDE DEF e
    <3> QED
      BY <1>1, <1>2, <1>4, <1>5, <2>2 DEF Same
  <2>4. ~Transferring
    BY <1>6a DEF Transferring
  <2> QED
    BY <1>1, <1>2, <2>1, <2>3, <2>4 DEF Size
<1>7. CASE spLoop.ownership = "transfer"
  <2> DEFINE j == spLoop.j
             arrays == [spArrays EXCEPT !["other"].slot[j] = NoElement, !["other"].size = @ - 1]
  <2>1. spLoop.array2 = "other" /\ Transferring /\ Size("other") >= 1
    BY <1>1, <1>2, <1>7, ElementThere DEF LoopFits, Transferring, Taking, ToCome, Size, TypedArrays
  <2>2. TakeElement(Memory, spLoop) = [arrays |-> arrays, refs |-> spRefs]
    BY <1>1, <1>2, <1>7, <2>1, TakeElementIs DEF Element
  <2>3. /\ spArrays["array"] \in [slot : [Indices -> Elements \cup {NoElement}], size : 0..Capacity]
        /\ spArrays["other"] \in [slot : [Indices -> Elements \cup {NoElement}], size : 0..Capacity]
        /\ e = spArrays["other"].slot[j] /\ "other" \in ArrayNames
    BY <1>1, <2>1 DEF TypedArrays, ArrayNames, Element
  <2>4. /\ arrays["array"] = spArrays["array"]
        /\ arrays["other"] = [slot |-> [spArrays["other"].slot EXCEPT ![j] = NoElement],
                              size |-> Size("other") - 1]
    BY <1>1, <2>3 DEF TypedArrays, ArrayNames, Size
  <2>5. arrays \in TypedArrays
    <3>1. [spArrays["other"].slot EXCEPT ![j] = NoElement] \in [Indices -> Elements \cup {NoElement}]
      BY <1>1, <2>3
    <3>2. Size("other") - 1 \in 0..Capacity
      BY <2>1, <2>3, CapacityAssumption DEF Size
    <3>4. arrays = [a \in ArrayNames |-> arrays[a]]
      BY <1>1 DEF TypedArrays
    <3> HIDE DEF arrays
    <3>3. arrays["other"] \in [slot : [Indices -> Elements \cup {NoElement}], size : 0..Capacity]
      BY <2>4, <3>1, <3>2
    <3> QED
      BY <2>3, <2>4, <3>3, <3>4 DEF TypedArrays, ArrayNames
  <2>6. \A x \in Indices :
          arrays["other"].slot[x] = IF x = j THEN NoElement ELSE spArrays["other"].slot[x]
    BY <1>1, <2>3, <2>4
  <2> HIDE DEF arrays
  <2>7. Update(Cell(spArrays), Cell(arrays), SlotsOfAll, <<"other", j>>, NoElement)
    <3>1. <<"other", j>> \in SlotsOfAll
      BY <1>1, <2>3 DEF SlotsOfAll
    <3>2. Cell(arrays)[<<"other", j>>] = NoElement
      BY <1>1, <2>6, <3>1 DEF Cell
    <3>3. ASSUME NEW x \in SlotsOfAll, x # <<"other", j>>
          PROVE  Cell(arrays)[x] = Cell(spArrays)[x]
      <4>1. x = <<x[1], x[2]>> /\ x[1] \in {"array", "other"} /\ x[2] \in Indices
        BY DEF SlotsOfAll, ArrayNames
      <4>2. CASE x[1] = "array"
        BY <2>4, <4>2 DEF Cell
      <4>3. CASE x[1] = "other"
        <5>1. x[2] # j
          BY <3>3, <4>1, <4>3
        <5> QED
          BY <2>6, <4>1, <4>3, <5>1 DEF Cell
      <4> QED
        BY <4>1, <4>2, <4>3
    <3> QED
      BY <3>1, <3>2, <3>3 DEF Update
  <2>8. Cell(spArrays)[<<"other", j>>] = e
    BY <1>1, <2>3 DEF Cell, SlotsOfAll
  <2>9. \A b \in Elements :
          spRefs[b] + Lending[b] = Count(Cell(arrays), SlotsOfAll, b) + Same(e, b)
    <3> TAKE b \in Elements
    <3>0. Lending = spLent
      BY <1>7 DEF Lending
    <3>1. Count(Cell(arrays), SlotsOfAll, b)
            = Count(Cell(spArrays), SlotsOfAll, b) - Same(e, b) + Same(NoElement, b)
      BY <2>7, <2>8, SlotsFinite, CountPut
    <3>2. Same(NoElement, b) = 0
      BY ElementsAssumption DEF Same
    <3>3. Same(e, b) \in Int
      BY DEF Same
    <3> HIDE DEF e
    <3> QED
      BY <1>2, <1>4, <1>5, <3>0, <3>1, <3>2, <3>3
  <2>10. arrays["other"].size = Size("other") - 1
    BY <2>4
  <2> QED
    BY <1>2, <2>1, <2>2, <2>4, <2>5, <2>6, <2>9, <2>10
<1> QED
  BY <1>1, <1>6, <1>6a, <1>7 DEF Ownerships
-----------------------------------------------------------------------------
(* The steps of the loop                                                   *)

LEMMA LendingTyped ==
  ASSUME Taking
  PROVE  Lending \in [Elements -> Nat]
<1>1. spLent \in [Elements -> Nat]
  BY DEF Taking, SpliceHolds, SpliceTyped
<1>2. [spLent EXCEPT ![Element] = @ + 1] \in [Elements -> Nat]
  <2>1. Element \in Elements
    BY ElementThere
  <2>2. PICK lent : lent = spLent[Element] + 1
    OBVIOUS
  <2>3. lent \in Nat
    BY <1>1, <2>1, <2>2
  <2> QED
    BY <1>1, <2>1, <2>2, <2>3
<1> QED
  BY <1>1, <1>2, Zenon DEF Lending

LEMMA CountedFrom ==
  ASSUME \A b \in Elements : spRefs[b] + spLent[b] = Count(Cell(spArrays), SlotsOfAll, b)
  PROVE  Counted
BY HeldIs DEF Counted

(* While a splice is under way, and in what follows the step of a loop.    *)
LEMMA InLoop ==
  ASSUME SpliceHolds, spLoop # NoLoop
  PROVE  /\ LoopFits /\ spLoop.i \in Nat /\ spLoop.j \in Nat /\ spLoop.end \in Nat
         /\ spLoop.removable \in Nat /\ spArrays \in TypedArrays /\ spRefs \in [Elements -> Int]
         /\ Size("array") \in 0..Capacity /\ Size("other") \in 0..Capacity
         /\ ToCome = spLoop.end - spLoop.j /\ spLoop.j <= spLoop.end
BY DEF SpliceHolds, SpliceTyped, LoopFits, TypedArrays, Size, ArrayNames, ToCome

LEMMA ReplaceIs ==
  ASSUME SpliceHolds, Replace
  PROVE  /\ Taking /\ spLoop.i \in Indices /\ spLoop.i < Size("array")
         /\ spArrays' \in TypedArrays /\ spRefs' \in [Elements -> Int] /\ Counted'
         /\ spLent' \in [Elements -> Nat]
         /\ spArrays'["array"].size = Size("array")
         /\ \A x \in Indices :
              spArrays'["array"].slot[x]
                = IF x = spLoop.i THEN Element ELSE spArrays["array"].slot[x]
         /\ spArrays'["other"].size = IF Transferring THEN Size("other") - 1 ELSE Size("other")
         /\ \A x \in Indices :
              spArrays'["other"].slot[x]
                = IF Transferring /\ x = spLoop.j THEN NoElement ELSE spArrays["other"].slot[x]
<1> DEFINE i == spLoop.i
           e == Element
           old == spArrays["array"].slot[i]
<1>1. spLoop # NoLoop /\ Taking
  BY DEF Replace, NoLoop, Taking
<1>2. /\ LoopFits /\ i \in Nat /\ spLoop.removable \in Nat /\ spLoop.removable > 0
      /\ Size("array") \in 0..Capacity /\ spArrays \in TypedArrays
  BY <1>1, InLoop DEF Replace
<1>3. i < Size("array") /\ i \in Indices
  <2>1. i + spLoop.removable <= Size("array")
    BY <1>2 DEF LoopFits
  <2> QED
    BY <1>2, <2>1, CapacityAssumption DEF Indices
<1>4. old \in Elements
  <2>1. "array" \in ArrayNames /\ OnlyPresent
    BY DEF ArrayNames, SpliceHolds
  <2>2. i \in Present("array")
    BY <1>2, <1>3 DEF Present
  <2>3. old # NoElement
    BY <1>3, <2>1, <2>2 DEF OnlyPresent
  <2>4. old \in Elements \cup {NoElement}
    BY <1>2, <1>3, <2>1 DEF TypedArrays
  <2> QED
    BY <2>3, <2>4
<1>5. e \in Elements
  BY <1>1, ElementThere
<1>6. PICK arrays \in TypedArrays, refs \in [Elements -> Int] :
        /\ TakeElement(Memory, spLoop) = [arrays |-> arrays, refs |-> refs]
        /\ arrays["array"] = spArrays["array"]
        /\ arrays["other"].size
             = IF Transferring THEN Size("other") - 1 ELSE Size("other")
        /\ \A x \in Indices :
             arrays["other"].slot[x]
               = IF Transferring /\ x = spLoop.j THEN NoElement
                 ELSE spArrays["other"].slot[x]
        /\ \A b \in Elements :
             refs[b] + Lending[b] = Count(Cell(arrays), SlotsOfAll, b) + Same(e, b)
  BY <1>1, Taken
<1>7. PICK taken : taken = TakeElement(Memory, spLoop)
  OBVIOUS
<1>8. PICK now : now = PutUnsafe(taken, "array", i, e)
  OBVIOUS
<1>9a. spArrays' = now.arrays /\ spRefs' = now.refs
  BY <1>7, <1>8 DEF Replace, Continue
<1>9b. spLent' = Lending /\ Lending \in [Elements -> Nat]
  BY <1>1, LendingTyped DEF Replace
<1>9. i < arrays["array"].size /\ old = arrays["array"].slot[i]
  BY <1>3, <1>6 DEF Size
<1> HIDE DEF i, e, old
<1>10. /\ now.refs \in [Elements -> Int]
       /\ \A b \in Elements : now.refs[b] = refs[b] - Same(old, b)
       /\ now.arrays \in TypedArrays
       /\ now.arrays["other"] = arrays["other"]
       /\ now.arrays["array"].size = arrays["array"].size
       /\ \A x \in Indices :
            now.arrays["array"].slot[x] = IF x = i THEN e ELSE arrays["array"].slot[x]
  <2>1. taken = [arrays |-> arrays, refs |-> refs]
    BY <1>6, <1>7
  <2> QED
    BY <1>3, <1>4, <1>5, <1>6, <1>8, <1>9, <2>1, PutUnsafeIs
<1>12. spArrays'["other"] = arrays["other"]
  BY <1>10, <1>9a
<1>16. \A x \in Indices :
         spArrays'["array"].slot[x] = IF x = i THEN e ELSE spArrays["array"].slot[x]
  BY <1>6, <1>10, <1>9a
<1>17. Counted'
  <2>1. Update(Cell(arrays), Cell(spArrays'), SlotsOfAll, <<"array", i>>, e)
    <3>1. <<"array", i>> \in SlotsOfAll
      BY <1>3 DEF SlotsOfAll, ArrayNames
    <3>2. Cell(spArrays')[<<"array", i>>] = e
      BY <1>3, <1>16, <3>1 DEF Cell
    <3>3. ASSUME NEW x \in SlotsOfAll, x # <<"array", i>>
          PROVE  Cell(spArrays')[x] = Cell(arrays)[x]
      <4>1. x = <<x[1], x[2]>> /\ x[1] \in {"array", "other"} /\ x[2] \in Indices
        BY DEF SlotsOfAll, ArrayNames
      <4>2. CASE x[1] = "other"
        BY <1>12, <4>2 DEF Cell
      <4>3. CASE x[1] = "array"
        <5>1. x[2] # i
          BY <3>3, <4>1, <4>3
        <5> QED
          BY <1>6, <1>16, <4>1, <4>3, <5>1 DEF Cell
      <4> QED
        BY <4>1, <4>2, <4>3
    <3> QED
      BY <3>1, <3>2, <3>3 DEF Update
  <2>2. Cell(arrays)[<<"array", i>>] = old
    BY <1>3, <1>6, <1>9 DEF Cell, SlotsOfAll, ArrayNames
  <2>3. \A b \in Elements : spRefs'[b] + spLent'[b] = Count(Cell(spArrays'), SlotsOfAll, b)
    <3> TAKE b \in Elements
    <3>1. Count(Cell(spArrays'), SlotsOfAll, b)
            = Count(Cell(arrays), SlotsOfAll, b) - Same(old, b) + Same(e, b)
      BY <2>1, <2>2, SlotsFinite, CountPut
    <3>2. Count(Cell(arrays), SlotsOfAll, b) \in Nat
      BY SlotsFinite, CountZero
    <3>3. spRefs'[b] = refs[b] - Same(old, b)
      BY <1>10, <1>9a
    <3>4. Same(old, b) \in Int /\ Same(e, b) \in Int
      BY DEF Same
    <3>5. spLent' = Lending /\ Lending[b] \in Nat
      BY <1>9b
    <3> QED
      BY <1>6, <3>1, <3>2, <3>3, <3>4, <3>5
  <2>4. (\A b \in Elements : spRefs[b] + spLent[b] = Count(Cell(spArrays), SlotsOfAll, b))'
          => Counted'
    BY CountedFrom, PTL
  <2> QED
    BY <2>3, <2>4
<1>18. spArrays'["array"].size = Size("array")
  BY <1>6, <1>10, <1>9a DEF Size
<1>19. /\ spArrays'["other"].size = IF Transferring THEN Size("other") - 1 ELSE Size("other")
       /\ \A x \in Indices :
            spArrays'["other"].slot[x]
              = IF Transferring /\ x = spLoop.j THEN NoElement ELSE spArrays["other"].slot[x]
  BY <1>6, <1>12
<1> QED
  BY <1>1, <1>3, <1>10, <1>9a, <1>9b, <1>16, <1>17, <1>18, <1>19 DEF i, e

LEMMA InsertRestIs ==
  ASSUME SpliceHolds, InsertRest,
         NEW p, p = (IF spLoop.i > Size("array") THEN Size("array") ELSE spLoop.i)
  PROVE  /\ Taking /\ p \in Indices /\ Size("array") < Capacity
         /\ spArrays' \in TypedArrays /\ spRefs' \in [Elements -> Int] /\ Counted'
         /\ spLent' \in [Elements -> Nat]
         /\ spArrays'["array"].size = Size("array") + 1
         /\ \A x \in Indices :
              spArrays'["array"].slot[x]
                = IF x = p THEN Element
                  ELSE IF p < x /\ x <= Size("array") THEN spArrays["array"].slot[x - 1]
                  ELSE spArrays["array"].slot[x]
         /\ spArrays'["other"].size = IF Transferring THEN Size("other") - 1 ELSE Size("other")
         /\ \A x \in Indices :
              spArrays'["other"].slot[x]
                = IF Transferring /\ x = spLoop.j THEN NoElement ELSE spArrays["other"].slot[x]
<1> DEFINE i == spLoop.i
           e == Element
           len == Size("array")
<1>1. spLoop # NoLoop /\ Taking
  BY DEF InsertRest, NoLoop, Taking
<1>2. /\ LoopFits /\ i \in Nat /\ len \in 0..Capacity /\ spArrays \in TypedArrays
      /\ ToCome \in Nat /\ ToCome >= 1
  BY <1>1, InLoop DEF InsertRest, ToCome
<1>3. len < Capacity /\ len \in Indices /\ p \in Indices /\ p <= len
  <2>1. len + ToCome <= Capacity
    BY <1>2 DEF LoopFits
  <2> HIDE DEF len
  <2>2. p = IF i > len THEN len ELSE i
    BY DEF len
  <2> QED
    BY <1>2, <2>1, <2>2, CapacityAssumption DEF Indices
<1>4. spArrays["array"].slot[len] = NoElement
  <2>1. "array" \in ArrayNames /\ OnlyPresent
    BY DEF ArrayNames, SpliceHolds
  <2>2. len \notin Present("array")
    BY <1>2 DEF Present
  <2> QED
    BY <1>3, <2>1, <2>2 DEF OnlyPresent
<1>5. e \in Elements
  BY <1>1, ElementThere
<1>6. PICK arrays \in TypedArrays, refs \in [Elements -> Int] :
        /\ TakeElement(Memory, spLoop) = [arrays |-> arrays, refs |-> refs]
        /\ arrays["array"] = spArrays["array"]
        /\ arrays["other"].size
             = IF Transferring THEN Size("other") - 1 ELSE Size("other")
        /\ \A x \in Indices :
             arrays["other"].slot[x]
               = IF Transferring /\ x = spLoop.j THEN NoElement
                 ELSE spArrays["other"].slot[x]
        /\ \A b \in Elements :
             refs[b] + Lending[b] = Count(Cell(arrays), SlotsOfAll, b) + Same(e, b)
  BY <1>1, Taken
<1>7. PICK taken : taken = TakeElement(Memory, spLoop)
  OBVIOUS
<1>8. PICK now : now = InsertElement(taken, "array", i, e)
  OBVIOUS
<1>9. spArrays' = now.arrays /\ spRefs' = now.refs
  BY <1>7, <1>8 DEF InsertRest, Continue
<1>9b. spLent' = Lending /\ Lending \in [Elements -> Nat]
  BY <1>1, LendingTyped DEF InsertRest
<1>10. len = arrays["array"].size /\ arrays["array"].slot[len] = NoElement
  BY <1>4, <1>6 DEF Size
<1>11. p = IF i > len THEN len ELSE i
  OBVIOUS
<1> HIDE DEF i, e, len
<1>12. /\ now.refs = refs
       /\ now.arrays \in TypedArrays
       /\ now.arrays["other"] = arrays["other"]
       /\ now.arrays["array"].size = len + 1
       /\ \A x \in Indices :
            now.arrays["array"].slot[x]
              = IF x = p THEN e
                ELSE IF p < x /\ x <= len THEN arrays["array"].slot[x - 1]
                ELSE arrays["array"].slot[x]
  <2>1. taken = [arrays |-> arrays, refs |-> refs]
    BY <1>6, <1>7
  <2> QED
    BY <1>2, <1>3, <1>5, <1>8, <1>10, <1>11, <2>1, InsertElementIs
<1>13. Counted'
  <2>1. Raised(Cell(arrays), Cell(spArrays'), "array", p, len, e)
    <3> SUFFICES ASSUME NEW x \in SlotsOfAll
                 PROVE  Cell(spArrays')[x]
                          = IF x = <<"array", p>> THEN e
                            ELSE IF x[1] = "array" /\ p < x[2] /\ x[2] <= len
                            THEN Cell(arrays)[<<"array", x[2] - 1>>]
                            ELSE Cell(arrays)[x]
      BY Zenon DEF Raised
    <3>1. x = <<x[1], x[2]>> /\ x[1] \in {"array", "other"} /\ x[2] \in Indices
      BY DEF SlotsOfAll, ArrayNames
    <3>2. CASE x[1] = "other"
      <4>1. x # <<"array", p>>
        BY <3>2
      <4> QED
        BY <1>9, <1>12, <3>2, <4>1 DEF Cell
    <3>3. CASE x[1] = "array" /\ p < x[2] /\ x[2] <= len
      <4>1. x[2] - 1 \in Indices
        BY <1>2, <1>3, <3>1, <3>3, CapacityAssumption DEF Indices
      <4>2. <<"array", x[2] - 1>> \in SlotsOfAll
        BY <4>1 DEF SlotsOfAll, ArrayNames
      <4>3. x # <<"array", p>> /\ x[2] # p
        BY <1>3, <3>1, <3>3, CapacityAssumption DEF Indices
      <4> QED
        BY <1>9, <1>12, <3>1, <3>3, <4>2, <4>3 DEF Cell
    <3>4. CASE x[1] = "array" /\ ~(p < x[2] /\ x[2] <= len)
      <4>1. x = <<"array", p>> <=> x[2] = p
        BY <3>1, <3>4
      <4> QED
        BY <1>9, <1>12, <3>1, <3>4, <4>1 DEF Cell
    <3> QED
      BY <3>1, <3>2, <3>3, <3>4
  <2>2. Cell(arrays)[<<"array", len>>] = NoElement
    BY <1>3, <1>10 DEF Cell, SlotsOfAll, ArrayNames
  <2>3. \A b \in Elements : spRefs'[b] + spLent'[b] = Count(Cell(spArrays'), SlotsOfAll, b)
    <3> TAKE b \in Elements
    <3>0. "array" \in ArrayNames
      BY DEF ArrayNames
    <3>1. Count(Cell(spArrays'), SlotsOfAll, b)
            = Count(Cell(arrays), SlotsOfAll, b) - Same(NoElement, b) + Same(e, b)
      BY <1>3, <2>1, <2>2, <3>0, CountRaised
    <3>2. Count(Cell(arrays), SlotsOfAll, b) \in Nat
      BY SlotsFinite, CountZero
    <3>3. Same(NoElement, b) = 0 /\ Same(e, b) \in Int
      BY ElementsAssumption DEF Same
    <3>4. spLent' = Lending /\ Lending[b] \in Nat
      BY <1>9b
    <3> QED
      BY <1>6, <1>9, <1>12, <3>1, <3>2, <3>3, <3>4
  <2>4. (\A b \in Elements : spRefs[b] + spLent[b] = Count(Cell(spArrays), SlotsOfAll, b))'
          => Counted'
    BY CountedFrom, PTL
  <2> QED
    BY <2>3, <2>4
<1>14. spArrays' \in TypedArrays /\ spRefs' \in [Elements -> Int]
  BY <1>6, <1>9, <1>12
<1>15. spArrays'["array"].size = Size("array") + 1
  BY <1>9, <1>12 DEF len
<1>16. \A x \in Indices :
         spArrays'["array"].slot[x]
           = IF x = p THEN Element
             ELSE IF p < x /\ x <= Size("array") THEN spArrays["array"].slot[x - 1]
             ELSE spArrays["array"].slot[x]
  BY <1>6, <1>9, <1>12 DEF len, e
<1>17. /\ spArrays'["other"].size = IF Transferring THEN Size("other") - 1 ELSE Size("other")
       /\ \A x \in Indices :
            spArrays'["other"].slot[x]
              = IF Transferring /\ x = spLoop.j THEN NoElement ELSE spArrays["other"].slot[x]
  BY <1>6, <1>9, <1>12
<1> QED
  BY <1>1, <1>3, <1>9b, <1>13, <1>14, <1>15, <1>16, <1>17 DEF len

LEMMA RemoveSurplusIs ==
  ASSUME SpliceHolds, RemoveSurplus
  PROVE  /\ spLoop # NoLoop /\ spLoop.i \in Indices
         /\ spArrays' \in TypedArrays /\ spRefs' \in [Elements -> Int] /\ Counted'
         /\ spLent' \in [Elements -> Nat]
         /\ spArrays'["array"].size = Size("array") - 1
         /\ \A x \in Indices :
              spArrays'["array"].slot[x]
                = IF x = Size("array") - 1 THEN NoElement
                  ELSE IF spLoop.i <= x /\ x < Size("array") - 1 THEN spArrays["array"].slot[x + 1]
                  ELSE spArrays["array"].slot[x]
         /\ spArrays'["other"] = spArrays["other"]
<1> DEFINE i == spLoop.i
           len == Size("array")
           old == spArrays["array"].slot[i]
<1>1. spLoop # NoLoop
  BY DEF RemoveSurplus, NoLoop
<1>2. /\ LoopFits /\ i \in Nat /\ spLoop.removable \in Nat /\ spLoop.removable > 0
      /\ len \in 0..Capacity /\ spArrays \in TypedArrays /\ spRefs \in [Elements -> Int]
  BY <1>1, InLoop DEF RemoveSurplus
<1>3. i < len /\ i \in Indices
  <2>1. i + spLoop.removable <= len
    BY <1>2 DEF LoopFits
  <2> QED
    BY <1>2, <2>1, CapacityAssumption DEF Indices
<1>4. old \in Elements
  <2>1. "array" \in ArrayNames /\ OnlyPresent
    BY DEF ArrayNames, SpliceHolds
  <2>2. i \in Present("array")
    BY <1>2, <1>3 DEF Present
  <2>3. old # NoElement
    BY <1>3, <2>1, <2>2 DEF OnlyPresent
  <2>4. old \in Elements \cup {NoElement}
    BY <1>2, <1>3, <2>1 DEF TypedArrays
  <2> QED
    BY <2>3, <2>4
<1>5. PICK now : now = RemoveUnsafe(Memory, "array", i)
  OBVIOUS
<1>6. spArrays' = now.arrays /\ spRefs' = now.refs
  BY <1>5 DEF RemoveSurplus, Continue
<1>6a. spLent' = spLent /\ spLent \in [Elements -> Nat]
  BY DEF RemoveSurplus, SpliceHolds, SpliceTyped
<1>7. PICK mem : mem = Memory
  OBVIOUS
<1>8. mem = [arrays |-> spArrays, refs |-> spRefs] /\ now = RemoveUnsafe(mem, "array", i)
  BY <1>5, <1>7 DEF Memory
<1>9. len = spArrays["array"].size /\ old = spArrays["array"].slot[i]
  BY DEF Size
<1> HIDE DEF i, len, old
<1>10. /\ now.refs \in [Elements -> Int]
       /\ \A b \in Elements : now.refs[b] = spRefs[b] - Same(old, b)
       /\ now.arrays \in TypedArrays
       /\ now.arrays["other"] = spArrays["other"]
       /\ now.arrays["array"].size = len - 1
       /\ \A x \in Indices :
            now.arrays["array"].slot[x]
              = IF x = len - 1 THEN NoElement
                ELSE IF i <= x /\ x < len - 1 THEN spArrays["array"].slot[x + 1]
                ELSE spArrays["array"].slot[x]
  BY <1>2, <1>3, <1>4, <1>8, <1>9, RemoveUnsafeIs
<1>11. i \in Int /\ len \in Int /\ len - 1 \in Indices /\ i <= len - 1
  BY <1>2, <1>3, CapacityAssumption DEF Indices
<1>12. Counted'
  <2> DEFINE f == Cell(spArrays')
             g == Cell(spArrays)
  <2>1. Raised(f, g, "array", i, len - 1, old)
    <3> SUFFICES ASSUME NEW x \in SlotsOfAll
                 PROVE  g[x] = IF x = <<"array", i>> THEN old
                               ELSE IF x[1] = "array" /\ i < x[2] /\ x[2] <= len - 1
                               THEN f[<<"array", x[2] - 1>>]
                               ELSE f[x]
      BY Zenon DEF Raised
    <3>1. x = <<x[1], x[2]>> /\ x[1] \in {"array", "other"} /\ x[2] \in Indices /\ x[2] \in Int
      BY CapacityAssumption DEF SlotsOfAll, ArrayNames, Indices
    <3>2. CASE x[1] = "other"
      <4>1. x # <<"array", i>>
        BY <3>2
      <4> QED
        BY <1>6, <1>10, <3>2, <4>1 DEF Cell
    <3>3. CASE x[1] = "array" /\ i < x[2] /\ x[2] <= len - 1
      <4>1. x[2] - 1 \in Indices /\ x[2] - 1 # len - 1 /\ i <= x[2] - 1 /\ x[2] - 1 < len - 1
        BY <1>3, <1>11, <3>1, <3>3, CapacityAssumption DEF Indices
      <4>2. <<"array", x[2] - 1>> \in SlotsOfAll
        BY <4>1 DEF SlotsOfAll, ArrayNames
      <4>3. x # <<"array", i>>
        BY <1>11, <3>1, <3>3
      <4>4. f[<<"array", x[2] - 1>>] = spArrays["array"].slot[(x[2] - 1) + 1]
        BY <1>6, <1>10, <4>1, <4>2 DEF Cell
      <4>5. (x[2] - 1) + 1 = x[2]
        BY <3>1
      <4> QED
        BY <3>3, <4>3, <4>4, <4>5 DEF Cell
    <3>4. CASE x[1] = "array" /\ ~(i < x[2] /\ x[2] <= len - 1)
      <4>1. x = <<"array", i>> <=> x[2] = i
        BY <3>1, <3>4
      <4>2. CASE x[2] = i
        BY <1>9, <3>4, <4>1, <4>2 DEF Cell
      <4>3. CASE x[2] # i
        <5>1. f[x] = g[x]
          BY <1>6, <1>10, <1>11, <3>1, <3>4, <4>3 DEF Cell
        <5> QED
          BY <3>4, <4>1, <4>3, <5>1
      <4> QED
        BY <4>2, <4>3
    <3> QED
      BY <3>1, <3>2, <3>3, <3>4
  <2>2. f[<<"array", len - 1>>] = NoElement
    BY <1>6, <1>10, <1>11 DEF Cell, SlotsOfAll, ArrayNames
  <2>3. \A b \in Elements : spRefs'[b] + spLent'[b] = Count(f, SlotsOfAll, b)
    <3> HIDE DEF f, g
    <3> TAKE b \in Elements
    <3>0. "array" \in ArrayNames
      BY DEF ArrayNames
    <3>1. Count(g, SlotsOfAll, b)
            = Count(f, SlotsOfAll, b) - Same(NoElement, b) + Same(old, b)
      BY <1>3, <1>11, <2>1, <2>2, <3>0, CountRaised
    <3>2. Count(f, SlotsOfAll, b) \in Nat
      BY SlotsFinite, CountZero
    <3>3. Same(NoElement, b) = 0 /\ Same(old, b) \in Int
      BY ElementsAssumption DEF Same
    <3>4. spRefs[b] + spLent[b] = Count(g, SlotsOfAll, b)
      BY HeldIs DEF SpliceHolds, Counted, g
    <3>5. spLent'[b] = spLent[b] /\ spLent[b] \in Nat /\ spRefs[b] \in Int
      BY <1>2, <1>6a
    <3> QED
      BY <1>6, <1>10, <3>1, <3>2, <3>3, <3>4, <3>5
  <2>4. (\A b \in Elements : spRefs[b] + spLent[b] = Count(Cell(spArrays), SlotsOfAll, b))'
          => Counted'
    BY CountedFrom, PTL
  <2> QED
    BY <2>3, <2>4
<1> QED
  BY <1>1, <1>3, <1>6, <1>6a, <1>10, <1>12 DEF i, len

-----------------------------------------------------------------------------
(* Each step of the loop keeps the invariant.                              *)
LEMMA LoopIs ==
  ASSUME SpliceHolds, Replace \/ RemoveSurplus \/ InsertRest
  PROVE  /\ spLoop # NoLoop /\ spLoop' # NoLoop
         /\ spLoop'.step \in {"overlap", "remove", "insert"}
         /\ spLoop'.step # "aborted"
         /\ spLoop'.end = spLoop.end /\ spLoop'.array2 = spLoop.array2
         /\ spLoop'.ownership = spLoop.ownership
         /\ spLoop'.i = IF RemoveSurplus THEN spLoop.i ELSE spLoop.i + 1
         /\ spLoop'.j = IF RemoveSurplus THEN spLoop.j ELSE spLoop.j + 1
         /\ spLoop'.removable = IF InsertRest THEN spLoop.removable ELSE spLoop.removable - 1
         /\ spLoop' \in [step : LoopSteps, i : Nat, j : Nat, end : Nat,
                         removable : Nat, array2 : ArrayNames,
                         ownership : Ownerships]
         /\ UNCHANGED <<spShould, spEntangled>>
         /\ Transferring' = Transferring
<1>1. spLoop # NoLoop
  BY DEF Replace, RemoveSurplus, InsertRest, NoLoop
<1>2. spLoop \in [step : LoopSteps, i : Nat, j : Nat, end : Nat,
                  removable : Nat, array2 : ArrayNames, ownership : Ownerships]
  BY <1>1 DEF SpliceHolds, LoopFits
<1>3. ~(RemoveSurplus /\ InsertRest) /\ ~(RemoveSurplus /\ Replace) /\ ~(InsertRest /\ Replace)
  BY <1>2 DEF RemoveSurplus, InsertRest, Replace
<1>4. UNCHANGED <<spShould, spEntangled>>
  BY DEF RemoveSurplus, InsertRest, Replace, Continue
<1>5. CASE Replace
  <2>1. spLoop' = [spLoop EXCEPT !.i = @ + 1, !.j = @ + 1, !.removable = @ - 1]
    BY <1>5 DEF Replace, Continue
  <2>2. spLoop.removable \in Nat /\ spLoop.i \in Nat /\ spLoop.j \in Nat /\ spLoop.removable > 0
    BY <1>2, <1>5 DEF Replace
  <2>3. /\ spLoop'.end = spLoop.end /\ spLoop'.array2 = spLoop.array2
        /\ spLoop'.ownership = spLoop.ownership
        /\ spLoop'.step \in {"overlap", "remove", "insert"} /\ spLoop'.step # "aborted"
        /\ spLoop'.i = spLoop.i + 1 /\ spLoop'.j = spLoop.j + 1 /\ spLoop'.removable = spLoop.removable - 1
    BY <1>2, <1>5, <2>1 DEF Replace
  <2>4. spLoop' \in [step : LoopSteps, i : Nat, j : Nat, end : Nat,
                     removable : Nat, array2 : ArrayNames, ownership : Ownerships]
    <3>1. /\ spLoop'.i \in Nat /\ spLoop'.j \in Nat /\ spLoop'.removable \in Nat
          /\ spLoop'.end \in Nat /\ spLoop'.array2 \in ArrayNames
          /\ spLoop'.ownership \in Ownerships
      BY <1>2, <2>2, <2>3
    <3>2. spLoop' = [step |-> spLoop'.step, i |-> spLoop'.i, j |-> spLoop'.j,
                     end |-> spLoop'.end, removable |-> spLoop'.removable,
                     array2 |-> spLoop'.array2, ownership |-> spLoop'.ownership]
      BY <1>2, <2>1
    <3> QED
      BY <2>3, <3>1, <3>2 DEF LoopSteps
  <2>5. spLoop' # NoLoop
    BY <2>3 DEF NoLoop
  <2>6. Transferring' = Transferring
    BY <1>1, <2>3, <2>5 DEF Transferring
  <2> QED
    BY <1>1, <1>3, <1>4, <1>5, <2>3, <2>4, <2>5, <2>6
<1>6. CASE RemoveSurplus
  <2>1. spLoop' = [spLoop EXCEPT !.step = "remove", !.removable = @ - 1]
    BY <1>6 DEF RemoveSurplus, Continue
  <2>2. spLoop.removable \in Nat /\ spLoop.i \in Nat /\ spLoop.j \in Nat /\ spLoop.removable > 0
    BY <1>2, <1>6 DEF RemoveSurplus
  <2>3. /\ spLoop'.end = spLoop.end /\ spLoop'.array2 = spLoop.array2
        /\ spLoop'.ownership = spLoop.ownership
        /\ spLoop'.step \in {"overlap", "remove", "insert"} /\ spLoop'.step # "aborted"
        /\ spLoop'.i = spLoop.i /\ spLoop'.j = spLoop.j /\ spLoop'.removable = spLoop.removable - 1
    BY <1>2, <2>1
  <2>4. spLoop' \in [step : LoopSteps, i : Nat, j : Nat, end : Nat,
                     removable : Nat, array2 : ArrayNames, ownership : Ownerships]
    <3>1. /\ spLoop'.i \in Nat /\ spLoop'.j \in Nat /\ spLoop'.removable \in Nat
          /\ spLoop'.end \in Nat /\ spLoop'.array2 \in ArrayNames
          /\ spLoop'.ownership \in Ownerships
      BY <1>2, <2>2, <2>3
    <3>2. spLoop' = [step |-> spLoop'.step, i |-> spLoop'.i, j |-> spLoop'.j,
                     end |-> spLoop'.end, removable |-> spLoop'.removable,
                     array2 |-> spLoop'.array2, ownership |-> spLoop'.ownership]
      BY <1>2, <2>1
    <3> QED
      BY <2>3, <3>1, <3>2 DEF LoopSteps
  <2>5. spLoop' # NoLoop
    BY <2>3 DEF NoLoop
  <2>6. Transferring' = Transferring
    BY <1>1, <2>3, <2>5 DEF Transferring
  <2> QED
    BY <1>1, <1>3, <1>4, <1>6, <2>3, <2>4, <2>5, <2>6
<1>7. CASE InsertRest
  <2>1. spLoop' = [spLoop EXCEPT !.step = "insert", !.i = @ + 1, !.j = @ + 1]
    BY <1>7 DEF InsertRest, Continue
  <2>2. spLoop.removable \in Nat /\ spLoop.i \in Nat /\ spLoop.j \in Nat
    BY <1>2, <1>7 DEF InsertRest
  <2>3. /\ spLoop'.end = spLoop.end /\ spLoop'.array2 = spLoop.array2
        /\ spLoop'.ownership = spLoop.ownership
        /\ spLoop'.step \in {"overlap", "remove", "insert"} /\ spLoop'.step # "aborted"
        /\ spLoop'.i = spLoop.i + 1 /\ spLoop'.j = spLoop.j + 1 /\ spLoop'.removable = spLoop.removable
    BY <1>2, <2>1
  <2>4. spLoop' \in [step : LoopSteps, i : Nat, j : Nat, end : Nat,
                     removable : Nat, array2 : ArrayNames, ownership : Ownerships]
    <3>1. /\ spLoop'.i \in Nat /\ spLoop'.j \in Nat /\ spLoop'.removable \in Nat
          /\ spLoop'.end \in Nat /\ spLoop'.array2 \in ArrayNames
          /\ spLoop'.ownership \in Ownerships
      BY <1>2, <2>2, <2>3
    <3>2. spLoop' = [step |-> spLoop'.step, i |-> spLoop'.i, j |-> spLoop'.j,
                     end |-> spLoop'.end, removable |-> spLoop'.removable,
                     array2 |-> spLoop'.array2, ownership |-> spLoop'.ownership]
      BY <1>2, <2>1
    <3> QED
      BY <2>3, <3>1, <3>2 DEF LoopSteps
  <2>5. spLoop' # NoLoop
    BY <2>3 DEF NoLoop
  <2>6. Transferring' = Transferring
    BY <1>1, <2>3, <2>5 DEF Transferring
  <2> QED
    BY <1>1, <1>3, <1>4, <1>7, <2>3, <2>4, <2>5, <2>6
<1> QED
  BY <1>5, <1>6, <1>7

LEMMA ReplaceKeeps ==
  ASSUME SpliceHolds, Replace
  PROVE  SpliceHolds'
<1> DEFINE i == spLoop.i
           j == spLoop.j
           n == spLoop.removable
           len == Size("array")
<1>1. /\ Taking /\ i \in Indices /\ i < len
      /\ spArrays' \in TypedArrays /\ spRefs' \in [Elements -> Int] /\ Counted'
         /\ spLent' \in [Elements -> Nat]
      /\ Size("array")' = len
      /\ \A x \in Indices :
           spArrays'["array"].slot[x] = IF x = i THEN Element ELSE spArrays["array"].slot[x]
      /\ Size("other")' = IF Transferring THEN Size("other") - 1 ELSE Size("other")
      /\ \A x \in Indices :
           spArrays'["other"].slot[x]
             = IF Transferring /\ x = j THEN NoElement ELSE spArrays["other"].slot[x]
  BY ReplaceIs DEF Size
<1>2. /\ spLoop # NoLoop /\ spLoop' # NoLoop
      /\ spLoop'.end = spLoop.end /\ spLoop'.array2 = spLoop.array2
      /\ spLoop'.ownership = spLoop.ownership /\ spLoop'.step # "aborted"
      /\ spLoop'.i = i + 1 /\ spLoop'.j = j + 1 /\ spLoop'.removable = n - 1
      /\ spLoop' \in [step : LoopSteps, i : Nat, j : Nat, end : Nat,
                      removable : Nat, array2 : ArrayNames, ownership : Ownerships]
      /\ spShould' = spShould /\ spEntangled' = spEntangled
      /\ Transferring' = Transferring
  <2>1. ~RemoveSurplus /\ ~InsertRest
    <3>1. spLoop.j # spLoop.end /\ spLoop.removable # 0
      BY InLoop DEF Replace, NoLoop
    <3> QED
      BY <3>1 DEF RemoveSurplus, InsertRest
  <2> QED
    BY <2>1, LoopIs
<1>3. /\ LoopFits /\ i \in Nat /\ j \in Nat /\ spLoop.end \in Nat /\ n \in Nat /\ n > 0
      /\ len \in 0..Capacity /\ Size("other") \in 0..Capacity
      /\ ToCome = spLoop.end - j /\ j < spLoop.end
  BY <1>1, <1>2, InLoop DEF Taking, Replace
<1>4. ToCome' = ToCome - 1 /\ ToCome \in Nat
  BY <1>2, <1>3 DEF ToCome
<1>5. Element \in Elements /\ j \in Indices /\ j \in Present(spLoop.array2)
  BY <1>1, ElementThere
<1>6. CapacityAssumption /\ \A x \in Indices : x \in Nat
  BY CapacityAssumption DEF Indices
<1>7. SpliceTyped'
  BY <1>1, <1>2 DEF SpliceTyped, SpliceHolds, TypedArrays
<1>8. LoopFits'
  <2>1. /\ j <= spLoop.end /\ spLoop.end <= Capacity /\ i + n <= len
        /\ len + ToCome <= Capacity
        /\ spLoop.ownership # "transfer" => spLoop.end <= Size(spLoop.array2)
        /\ Transferring =>
             spLoop.array2 = "other" /\ ToCome <= Size("other") /\ Size("other") <= spLoop.end
        /\ spLoop.array2 = "array" => spEntangled
    BY <1>3 DEF LoopFits
  <2>2. spLoop.ownership # "transfer" => Size(spLoop.array2)' = Size(spLoop.array2)
    <3>1. spLoop.array2 \in {"array", "other"}
      BY <1>3 DEF LoopFits, ArrayNames
    <3> QED
      BY <1>1, <1>2, <3>1 DEF Transferring
  <2>4. spLoop.ownership # "transfer" => spLoop'.end <= Size(spLoop.array2)'
    BY <1>2, <2>1, <2>2
  <2>5. /\ spLoop'.j <= spLoop'.end /\ spLoop'.end <= Capacity
        /\ spLoop'.i + spLoop'.removable <= Size("array")'
        /\ Size("array")' + ToCome' <= Capacity
    <3> HIDE DEF len
    <3> QED
      BY <1>1, <1>2, <1>3, <1>4, <1>6, <2>1
  <2>6. Transferring' => /\ spLoop'.array2 = "other" /\ ToCome' <= Size("other")'
                         /\ Size("other")' <= spLoop'.end
    BY <1>1, <1>2, <1>3, <1>4, <2>1
  <2>7. spLoop'.array2 = "array" => spEntangled'
    BY <1>2, <2>1
  <2>8. spLoop'.ownership # "transfer" /\ ToCome' > 0 => spLoop'.end <= Size(spLoop.array2)'
    BY <1>2, <2>4
  <2> QED
    BY <1>2, <2>5, <2>6, <2>7, <2>8 DEF LoopFits
<1>9. OnlyPresent'
  <2>1. ASSUME NEW x \in Indices
        PROVE  spArrays'["array"].slot[x] # NoElement <=> x \in Present("array")'
    <3>1. Present("array")' = 0..(len - 1) /\ Present("array") = 0..(len - 1)
      BY <1>1 DEF Present
    <3>2. i \in Present("array")
      BY <1>1, <1>3, <3>1
    <3>3. spArrays["array"].slot[x] # NoElement <=> x \in Present("array")
      BY DEF SpliceHolds, OnlyPresent, ArrayNames
    <3> QED
      BY <1>1, <1>5, <3>1, <3>2, <3>3, ElementsAssumption
  <2>2. ASSUME NEW x \in Indices
        PROVE  spArrays'["other"].slot[x] # NoElement <=> x \in Present("other")'
    <3>1. spArrays["other"].slot[x] # NoElement <=> x \in Present("other")
      BY DEF SpliceHolds, OnlyPresent, ArrayNames
    <3>2. CASE Transferring
      <4>1. /\ Present("other") = 0..(Size("other") - ToCome - 1) \cup j..(spLoop.end - 1)
            /\ Present("other")' = 0..(Size("other")' - ToCome' - 1) \cup spLoop'.j..(spLoop'.end - 1)
        BY <1>2, <3>2 DEF Present
      <4>2. Size("other") <= spLoop.end
        BY <1>3, <3>2 DEF LoopFits
      <4>3. /\ Size("other")' = Size("other") - 1 /\ Size("other") \in Nat
            /\ spArrays'["other"].slot[x] = IF x = j THEN NoElement ELSE spArrays["other"].slot[x]
        BY <1>1, <1>3, <3>2
      <4>4. x \in Nat
        BY <1>6
      <4> HIDE DEF i, j, n, len
      <4>5. x \in Present("other")' <=> x \in Present("other") /\ x # j
        <5>1. /\ Size("other")' - ToCome' - 1 = Size("other") - ToCome - 1
              /\ Size("other") - ToCome - 1 < j
          BY <1>3, <1>4, <4>2, <4>3
        <5> DEFINE front == Size("other") - ToCome - 1
        <5>2. /\ Present("other") = 0..front \cup j..(spLoop.end - 1)
              /\ Present("other")' = 0..front \cup (j + 1)..(spLoop.end - 1)
          BY <1>2, <4>1, <5>1
        <5>3. front \in Int /\ front < j
          BY <1>3, <1>4, <4>3, <5>1
        <5> HIDE DEF front
        <5> QED
          BY <1>3, <4>4, <5>2, <5>3
      <4> QED
        BY <3>1, <4>3, <4>5
    <3>3. CASE ~Transferring
      BY <1>1, <1>2, <3>1, <3>3 DEF Present
    <3> QED
      BY <3>2, <3>3
  <2> QED
    BY <2>1, <2>2 DEF OnlyPresent, ArrayNames
<1>10. Promised'
  <2> SUFFICES ASSUME ~spEntangled PROVE Ahead'
    BY <1>2 DEF Promised
  <2>1. Ahead /\ spLoop.array2 = "other"
    BY <1>2, <1>3 DEF SpliceHolds, Promised, LoopFits, ArrayNames
  <2>2. Element = spArrays["other"].slot[j]
    BY <2>1 DEF Element
  <2> DEFINE left == IF Transferring THEN Size("other") - ToCome ELSE Size("other")
             total == len - n + ToCome
             T == spShould["array"]
             A == spArrays["array"].slot
             O == spArrays["other"].slot
             A2 == spArrays'["array"].slot
             O2 == spArrays'["other"].slot
  <2>3. /\ Len(T) = total
        /\ \A x \in 0..(total - 1) :
             T[x + 1] = IF x < i THEN A[x]
                        ELSE IF x < i + ToCome THEN O[j + (x - i)]
                        ELSE A[x - ToCome + n]
        /\ Len(spShould["other"]) = left
        /\ \A x \in 0..(left - 1) : spShould["other"][x + 1] = O[x]
    <3>1. ~(i > len)
      BY <1>1, <1>3
    <3> QED
      BY <2>1, <3>1 DEF Ahead
  <2>4. /\ i + n <= len /\ len + ToCome <= Capacity /\ spLoop.end <= Capacity
        /\ Transferring => ToCome <= Size("other") /\ Size("other") <= spLoop.end
    BY <1>3 DEF LoopFits
  <2>5. (IF Transferring THEN Size("other") - ToCome ELSE Size("other"))' = left
    BY <1>1, <1>2, <1>3, <1>4
  <2>6. (Size("array") - spLoop.removable + ToCome)' = total
    BY <1>1, <1>2, <1>3, <1>4
  <2>7. (IF spLoop.i > Size("array") THEN Size("array") ELSE spLoop.i)' = i + 1
    BY <1>1, <1>2, <1>3
  <2>8. \A x \in 0..(total - 1) :
          T[x + 1] = IF x < i + 1 THEN A2[x]
                     ELSE IF x < i + 1 + (ToCome - 1) THEN O2[j + 1 + (x - (i + 1))]
                     ELSE A2[x - (ToCome - 1) + (n - 1)]
    <3> SUFFICES ASSUME NEW x \in 0..(total - 1)
                 PROVE  T[x + 1] = IF x < i + 1 THEN A2[x]
                                   ELSE IF x < i + 1 + (ToCome - 1) THEN O2[j + 1 + (x - (i + 1))]
                                   ELSE A2[x - (ToCome - 1) + (n - 1)]
      OBVIOUS
    <3>0. x \in Nat /\ x < total /\ total = len - n + ToCome
      BY <1>3, <1>4
    <3> HIDE DEF i, j, n, len, total, left, A, O, A2, O2, T
    <3>1. CASE x < i
      <4>1. x \in Indices
        BY <1>3, <1>6, <2>4, <3>0, <3>1 DEF Indices
      <4>2. A2[x] = A[x]
        BY <1>1, <1>3, <3>0, <3>1, <4>1 DEF A2, A
      <4> QED
        BY <1>3, <2>3, <3>0, <3>1, <4>2
    <3>2. CASE x = i
      <4>1. A2[x] = O[j]
        BY <1>1, <2>2, <3>2 DEF A2, O
      <4>2. T[x + 1] = O[j + (x - i)]
        <5>1. ~(x < i) /\ x < i + ToCome
          BY <1>3, <1>4, <3>0, <3>2
        <5>2. T[x + 1] = IF x < i THEN A[x]
                         ELSE IF x < i + ToCome THEN O[j + (x - i)]
                         ELSE A[x - ToCome + n]
          BY <2>3
        <5> QED
          BY <5>1, <5>2
      <4>3. j + (x - i) = j
        BY <1>3, <3>2
      <4> QED
        BY <1>3, <3>2, <4>1, <4>2, <4>3
    <3>3. CASE x > i /\ x < i + ToCome
      <4>1. j + (x - i) \in Indices /\ j + (x - i) # j
        BY <1>3, <1>4, <1>6, <2>4, <3>0, <3>3 DEF Indices
      <4>2. O2[j + (x - i)] = O[j + (x - i)]
        BY <1>1, <4>1 DEF O, O2
      <4>3. T[x + 1] = O[j + (x - i)]
        <5>1. ~(x < i) /\ x < i + ToCome
          BY <1>3, <1>4, <3>0, <3>3
        <5>2. T[x + 1] = IF x < i THEN A[x]
                         ELSE IF x < i + ToCome THEN O[j + (x - i)]
                         ELSE A[x - ToCome + n]
          BY <2>3
        <5> QED
          BY <5>1, <5>2
      <4>4. j + 1 + (x - (i + 1)) = j + (x - i)
        BY <1>3, <3>0
      <4>5. ~(x < i + 1) /\ x < i + 1 + (ToCome - 1)
        BY <1>3, <1>4, <3>0, <3>3
      <4> QED
        BY <4>2, <4>3, <4>4, <4>5
    <3>4. CASE x >= i + ToCome
      <4>1. x - ToCome + n \in Indices /\ x - ToCome + n # i
        BY <1>3, <1>4, <1>6, <2>4, <3>0, <3>4 DEF Indices
      <4>2. A2[x - ToCome + n] = A[x - ToCome + n]
        BY <1>1, <4>1 DEF A, A2
      <4>3. T[x + 1] = A[x - ToCome + n]
        <5>1. ~(x < i) /\ ~(x < i + ToCome) /\ x \in 0..(total - 1)
          BY <1>3, <1>4, <3>4
        <5> QED
          BY <2>3, <5>1
      <4>4. x - (ToCome - 1) + (n - 1) = x - ToCome + n
        BY <1>3, <1>4, <3>0
      <4>5. ~(x < i + 1) /\ ~(x < i + 1 + (ToCome - 1))
        BY <1>3, <1>4, <3>0, <3>4
      <4> QED
        BY <4>2, <4>3, <4>4, <4>5
    <3>5. i \in Int /\ ToCome \in Int /\ x \in Int
      BY <1>3, <1>4, <3>0
    <3> QED
      BY <3>1, <3>2, <3>3, <3>4, <3>5
  <2>9. \A x \in 0..(left - 1) : spShould["other"][x + 1] = O2[x]
    <3> SUFFICES ASSUME NEW x \in 0..(left - 1) PROVE O2[x] = O[x]
      BY <2>3
    <3>1. x \in Indices
      BY <1>3, <1>4, <1>6, <2>4 DEF Indices
    <3>2. Transferring => x # j
      BY <1>3, <1>4, <2>4
    <3> QED
      BY <1>1, <3>1, <3>2
  <2> HIDE DEF T, A, O, A2, O2, total, left, i, j, n, len
  <2> QED
    BY <1>2, <1>4, <2>3, <2>5, <2>6, <2>7, <2>8, <2>9, SMTT(30) DEF Ahead, T, A2, O2
<1> QED
  BY <1>1, <1>2, <1>7, <1>8, <1>9, <1>10 DEF SpliceHolds

LEMMA InsertRestKeeps ==
  ASSUME SpliceHolds, InsertRest
  PROVE  SpliceHolds'
<1> DEFINE i == spLoop.i
           j == spLoop.j
           len == Size("array")
           p == IF i > len THEN len ELSE i
<1>1. /\ Taking /\ p \in Indices /\ len < Capacity
      /\ spArrays' \in TypedArrays /\ spRefs' \in [Elements -> Int] /\ Counted'
         /\ spLent' \in [Elements -> Nat]
      /\ Size("array")' = len + 1
      /\ \A x \in Indices :
           spArrays'["array"].slot[x]
             = IF x = p THEN Element
               ELSE IF p < x /\ x <= len THEN spArrays["array"].slot[x - 1]
               ELSE spArrays["array"].slot[x]
      /\ Size("other")' = IF Transferring THEN Size("other") - 1 ELSE Size("other")
      /\ \A x \in Indices :
           spArrays'["other"].slot[x]
             = IF Transferring /\ x = j THEN NoElement ELSE spArrays["other"].slot[x]
  BY InsertRestIs DEF Size
<1>2. /\ spLoop # NoLoop /\ spLoop' # NoLoop
      /\ spLoop'.end = spLoop.end /\ spLoop'.array2 = spLoop.array2
      /\ spLoop'.ownership = spLoop.ownership /\ spLoop'.step # "aborted"
      /\ spLoop'.i = i + 1 /\ spLoop'.j = j + 1
      /\ spLoop.removable = 0 /\ spLoop'.removable = 0
      /\ spLoop' \in [step : LoopSteps, i : Nat, j : Nat, end : Nat,
                      removable : Nat, array2 : ArrayNames, ownership : Ownerships]
      /\ spShould' = spShould /\ spEntangled' = spEntangled
      /\ Transferring' = Transferring
  <2>1. ~RemoveSurplus /\ spLoop.removable = 0
    BY DEF RemoveSurplus, InsertRest
  <2> QED
    BY <2>1, LoopIs
<1>3. /\ LoopFits /\ i \in Nat /\ j \in Nat /\ spLoop.end \in Nat
      /\ len \in 0..Capacity /\ Size("other") \in 0..Capacity
      /\ ToCome = spLoop.end - j /\ j < spLoop.end
  BY <1>1, <1>2, InLoop DEF Taking
<1>4. ToCome' = ToCome - 1 /\ ToCome \in Nat
  BY <1>2, <1>3 DEF ToCome
<1>5. Element \in Elements /\ j \in Indices /\ j \in Present(spLoop.array2)
  BY <1>1, ElementThere
<1>6. CapacityAssumption /\ \A x \in Indices : x \in Nat
  BY CapacityAssumption DEF Indices
<1>6a. p \in Nat /\ p <= len
  BY <1>3
<1>7. SpliceTyped'
  BY <1>1, <1>2 DEF SpliceTyped, SpliceHolds, TypedArrays
<1>8. LoopFits'
  <2>1. /\ j <= spLoop.end /\ spLoop.end <= Capacity
        /\ len + ToCome <= Capacity
        /\ spLoop.ownership # "transfer" => spLoop.end <= Size(spLoop.array2)
        /\ Transferring =>
             spLoop.array2 = "other" /\ ToCome <= Size("other") /\ Size("other") <= spLoop.end
        /\ spLoop.array2 = "array" => spEntangled
    BY <1>3 DEF LoopFits
  <2>2. spLoop.ownership # "transfer" => spLoop'.end <= Size(spLoop.array2)'
    <3>1. CASE spLoop.array2 = "array"
      BY <1>1, <1>2, <1>3, <2>1, <3>1
    <3>2. CASE spLoop.array2 = "other"
      BY <1>1, <1>2, <2>1, <3>2 DEF Transferring
    <3>3. spLoop.array2 \in {"array", "other"}
      BY <1>3 DEF LoopFits, ArrayNames
    <3> QED
      BY <3>1, <3>2, <3>3
  <2>3. /\ spLoop'.j <= spLoop'.end /\ spLoop'.end <= Capacity
        /\ Size("array")' + ToCome' <= Capacity
    <3> HIDE DEF len
    <3> QED
      BY <1>1, <1>2, <1>3, <1>4, <1>6, <2>1
  <2>4. Transferring' => /\ spLoop'.array2 = "other" /\ ToCome' <= Size("other")'
                         /\ Size("other")' <= spLoop'.end
    BY <1>1, <1>2, <1>3, <1>4, <2>1
  <2>5. spLoop'.array2 = "array" => spEntangled'
    BY <1>2, <2>1
  <2>6. spLoop'.ownership # "transfer" /\ ToCome' > 0 => spLoop'.end <= Size(spLoop.array2)'
    BY <1>2, <2>2
  <2> QED
    BY <1>2, <2>3, <2>4, <2>5, <2>6 DEF LoopFits
<1>9. OnlyPresent'
  <2>1. ASSUME NEW x \in Indices
        PROVE  spArrays'["array"].slot[x] # NoElement <=> x \in Present("array")'
    <3>1. Present("array")' = 0..len /\ Present("array") = 0..(len - 1)
      BY <1>1, <1>3 DEF Present
    <3>2. \A y \in Indices : spArrays["array"].slot[y] # NoElement <=> y \in Present("array")
      BY DEF SpliceHolds, OnlyPresent, ArrayNames
    <3>3. CASE x = p
      BY <1>1, <1>3, <1>5, <1>6a, <3>1, <3>3, ElementsAssumption
    <3>4. CASE p < x /\ x <= len
      <4>1. x - 1 \in Indices /\ x - 1 \in 0..(len - 1) /\ x \in 0..len
        BY <1>3, <1>6, <1>6a, <3>4 DEF Indices
      <4> HIDE DEF p, len
      <4>1a. spArrays'["array"].slot[x] = spArrays["array"].slot[x - 1]
        <5>1. x # p
          BY <1>6, <1>6a, <3>4
        <5> QED
          BY <1>1, <3>4, <5>1
      <4> QED
        BY <4>1a, <3>1, <3>2, <4>1
    <3>5. CASE x < p \/ x > len
      <4>1. x \in 0..len <=> x \in 0..(len - 1)
        BY <1>3, <1>6, <1>6a, <3>5
      <4>2. x # p /\ ~(p < x /\ x <= len)
        BY <1>3, <1>6, <1>6a, <3>5
      <4> HIDE DEF p, len
      <4> QED
        BY <1>1, <3>1, <3>2, <4>1, <4>2
    <3>6. x \in Int /\ p \in Int /\ len \in Int
      BY <1>3, <1>6, <1>6a
    <3> HIDE DEF p, len
    <3> QED
      BY <3>3, <3>4, <3>5, <3>6
  <2>2. ASSUME NEW x \in Indices
        PROVE  spArrays'["other"].slot[x] # NoElement <=> x \in Present("other")'
    <3>1. spArrays["other"].slot[x] # NoElement <=> x \in Present("other")
      BY DEF SpliceHolds, OnlyPresent, ArrayNames
    <3>2. CASE Transferring
      <4>1. /\ Present("other") = 0..(Size("other") - ToCome - 1) \cup j..(spLoop.end - 1)
            /\ Present("other")' = 0..(Size("other")' - ToCome' - 1) \cup spLoop'.j..(spLoop'.end - 1)
        BY <1>2, <3>2 DEF Present
      <4>2. Size("other") <= spLoop.end
        BY <1>3, <3>2 DEF LoopFits
      <4>3. /\ Size("other")' = Size("other") - 1 /\ Size("other") \in Nat
            /\ spArrays'["other"].slot[x] = IF x = j THEN NoElement ELSE spArrays["other"].slot[x]
        BY <1>1, <1>3, <3>2
      <4>4. x \in Nat
        BY <1>6
      <4> HIDE DEF i, j, len, p
      <4>5. x \in Present("other")' <=> x \in Present("other") /\ x # j
        <5>1. /\ Size("other")' - ToCome' - 1 = Size("other") - ToCome - 1
              /\ Size("other") - ToCome - 1 < j
          BY <1>3, <1>4, <4>2, <4>3
        <5> DEFINE front == Size("other") - ToCome - 1
        <5>2. /\ Present("other") = 0..front \cup j..(spLoop.end - 1)
              /\ Present("other")' = 0..front \cup (j + 1)..(spLoop.end - 1)
          BY <1>2, <4>1, <5>1
        <5>3. front \in Int /\ front < j
          BY <1>3, <1>4, <4>3, <5>1
        <5> HIDE DEF front
        <5> QED
          BY <1>3, <4>4, <5>2, <5>3
      <4> QED
        BY <3>1, <4>3, <4>5
    <3>3. CASE ~Transferring
      BY <1>1, <1>2, <3>1, <3>3 DEF Present
    <3> QED
      BY <3>2, <3>3
  <2> QED
    BY <2>1, <2>2 DEF OnlyPresent, ArrayNames
<1>10. Promised'
  <2> SUFFICES ASSUME ~spEntangled PROVE Ahead'
    BY <1>2 DEF Promised
  <2>1. Ahead /\ spLoop.array2 = "other"
    BY <1>2, <1>3 DEF SpliceHolds, Promised, LoopFits, ArrayNames
  <2>2. Element = spArrays["other"].slot[j]
    BY <2>1 DEF Element
  <2> DEFINE left == IF Transferring THEN Size("other") - ToCome ELSE Size("other")
             total == len + ToCome
             T == spShould["array"]
             A == spArrays["array"].slot
             O == spArrays["other"].slot
             A2 == spArrays'["array"].slot
             O2 == spArrays'["other"].slot
  <2>3. /\ Len(T) = total
        /\ \A x \in 0..(total - 1) :
             T[x + 1] = IF x < p THEN A[x]
                        ELSE IF x < p + ToCome THEN O[j + (x - p)]
                        ELSE A[x - ToCome]
        /\ Len(spShould["other"]) = left
        /\ \A x \in 0..(left - 1) : spShould["other"][x + 1] = O[x]
    <3>1. len - 0 + ToCome = total /\ \A x \in Int : x - ToCome + 0 = x - ToCome
      BY <1>3, <1>4
    <3>2. \A x \in 0..(total - 1) : x \in Int
      BY <1>3, <1>4
    <3> QED
      BY <1>2, <2>1, <3>1, <3>2 DEF Ahead
  <2>4. /\ len + ToCome <= Capacity /\ spLoop.end <= Capacity
        /\ Transferring => ToCome <= Size("other") /\ Size("other") <= spLoop.end
    BY <1>3 DEF LoopFits
  <2>5. (IF Transferring THEN Size("other") - ToCome ELSE Size("other"))' = left
    BY <1>1, <1>2, <1>3, <1>4
  <2>6. (Size("array") - spLoop.removable + ToCome)' = total
    BY <1>1, <1>2, <1>3, <1>4
  <2>7. (IF spLoop.i > Size("array") THEN Size("array") ELSE spLoop.i)' = p + 1
    BY <1>1, <1>2, <1>3
  <2>8. \A x \in 0..(total - 1) :
          T[x + 1] = IF x < p + 1 THEN A2[x]
                     ELSE IF x < p + 1 + (ToCome - 1) THEN O2[j + 1 + (x - (p + 1))]
                     ELSE A2[x - (ToCome - 1) + 0]
    <3> SUFFICES ASSUME NEW x \in 0..(total - 1)
                 PROVE  T[x + 1] = IF x < p + 1 THEN A2[x]
                                   ELSE IF x < p + 1 + (ToCome - 1) THEN O2[j + 1 + (x - (p + 1))]
                                   ELSE A2[x - (ToCome - 1) + 0]
      OBVIOUS
    <3>0. x \in Nat /\ x < total /\ total = len + ToCome
      BY <1>3, <1>4
    <3> HIDE DEF i, j, p, len, total, left, A, O, A2, O2, T
    <3>1. CASE x < p
      <4>1. x \in Indices
        BY <1>3, <1>6, <1>6a, <2>4, <3>0, <3>1 DEF Indices
      <4>2. A2[x] = A[x]
        BY <1>1, <1>3, <1>6a, <3>0, <3>1, <4>1 DEF A2, A
      <4> QED
        BY <1>3, <1>6a, <2>3, <3>0, <3>1, <4>2
    <3>2. CASE x = p
      <4>1. A2[x] = O[j]
        BY <1>1, <2>2, <3>2 DEF A2, O
      <4>2. T[x + 1] = O[j + (x - p)]
        <5>1. ~(x < p) /\ x < p + ToCome /\ x \in 0..(total - 1)
          BY <1>3, <1>4, <1>6a, <3>2
        <5> QED
          BY <2>3, <5>1
      <4>3. j + (x - p) = j
        BY <1>3, <1>6a, <3>2
      <4> QED
        BY <1>3, <1>6a, <3>2, <4>1, <4>2, <4>3
    <3>3. CASE x > p /\ x < p + ToCome
      <4>1. j + (x - p) \in Indices /\ j + (x - p) # j
        BY <1>3, <1>4, <1>6, <1>6a, <2>4, <3>0, <3>3 DEF Indices
      <4>2. O2[j + (x - p)] = O[j + (x - p)]
        BY <1>1, <4>1 DEF O, O2
      <4>3. T[x + 1] = O[j + (x - p)]
        <5>1. ~(x < p) /\ x < p + ToCome /\ x \in 0..(total - 1)
          BY <1>3, <1>4, <1>6a, <3>3
        <5> QED
          BY <2>3, <5>1
      <4>4. j + 1 + (x - (p + 1)) = j + (x - p)
        BY <1>3, <1>6a, <3>0
      <4>5. ~(x < p + 1) /\ x < p + 1 + (ToCome - 1)
        BY <1>3, <1>4, <1>6a, <3>0, <3>3
      <4> QED
        BY <4>2, <4>3, <4>4, <4>5
    <3>4. CASE x >= p + ToCome
      <4>1. x - (ToCome - 1) \in Indices /\ p < x - (ToCome - 1) /\ x - (ToCome - 1) <= len
        BY <1>3, <1>4, <1>6, <1>6a, <2>4, <3>0, <3>4 DEF Indices
      <4>2. x - (ToCome - 1) + 0 = x - (ToCome - 1) /\ (x - (ToCome - 1)) - 1 = x - ToCome
        BY <1>3, <1>4, <3>0
      <4>3. A2[x - (ToCome - 1)] = A[(x - (ToCome - 1)) - 1]
        <5>1. PICK y : y = x - (ToCome - 1)
          OBVIOUS
        <5>2. y \in Indices /\ p < y /\ y <= len /\ y # p
          BY <1>6, <1>6a, <4>1, <5>1
        <5>3. A2[y] = A[y - 1]
          BY <1>1, <5>2 DEF A, A2
        <5> QED
          BY <5>1, <5>3
      <4>4. T[x + 1] = A[x - ToCome]
        <5>1. ~(x < p) /\ ~(x < p + ToCome) /\ x \in 0..(total - 1)
          BY <1>3, <1>4, <1>6a, <3>4
        <5> QED
          BY <2>3, <5>1
      <4>5. ~(x < p + 1) /\ ~(x < p + 1 + (ToCome - 1))
        BY <1>3, <1>4, <1>6a, <3>0, <3>4
      <4> QED
        BY <4>2, <4>3, <4>4, <4>5
    <3>5. p \in Int /\ ToCome \in Int /\ x \in Int
      BY <1>3, <1>4, <1>6a, <3>0
    <3> QED
      BY <3>1, <3>2, <3>3, <3>4, <3>5
  <2>9. \A x \in 0..(left - 1) : spShould["other"][x + 1] = O2[x]
    <3> SUFFICES ASSUME NEW x \in 0..(left - 1) PROVE O2[x] = O[x]
      BY <2>3
    <3>1. x \in Indices
      BY <1>3, <1>4, <1>6, <2>4 DEF Indices
    <3>2. Transferring => x # j
      BY <1>3, <1>4, <2>4
    <3> QED
      BY <1>1, <3>1, <3>2
  <2> HIDE DEF T, A, O, A2, O2, total, left, i, j, p, len
  <2> QED
    BY <1>2, <1>4, <2>3, <2>5, <2>6, <2>7, <2>8, <2>9 DEF Ahead, T, A2, O2
<1> QED
  BY <1>1, <1>2, <1>7, <1>8, <1>9, <1>10 DEF SpliceHolds

LEMMA RemoveSurplusKeeps ==
  ASSUME SpliceHolds, RemoveSurplus
  PROVE  SpliceHolds'
<1> DEFINE i == spLoop.i
           n == spLoop.removable
           len == Size("array")
<1>1. /\ spLoop # NoLoop /\ i \in Indices
      /\ spArrays' \in TypedArrays /\ spRefs' \in [Elements -> Int] /\ Counted'
         /\ spLent' \in [Elements -> Nat]
      /\ Size("array")' = len - 1
      /\ \A x \in Indices :
           spArrays'["array"].slot[x]
             = IF x = len - 1 THEN NoElement
               ELSE IF i <= x /\ x < len - 1 THEN spArrays["array"].slot[x + 1]
               ELSE spArrays["array"].slot[x]
      /\ spArrays'["other"] = spArrays["other"]
  BY RemoveSurplusIs DEF Size
<1>2. /\ spLoop' # NoLoop
      /\ spLoop'.end = spLoop.end /\ spLoop'.array2 = spLoop.array2
      /\ spLoop'.ownership = spLoop.ownership /\ spLoop'.step # "aborted"
      /\ spLoop'.i = i /\ spLoop'.j = spLoop.j /\ spLoop.j = spLoop.end
      /\ n > 0 /\ spLoop'.removable = n - 1
      /\ spLoop' \in [step : LoopSteps, i : Nat, j : Nat, end : Nat,
                      removable : Nat, array2 : ArrayNames, ownership : Ownerships]
      /\ spShould' = spShould /\ spEntangled' = spEntangled
      /\ Transferring' = Transferring
  <2>1. spLoop.removable > 0 /\ spLoop.j = spLoop.end
    BY DEF RemoveSurplus
  <2>2. ~InsertRest
    BY <2>1, <1>1, InLoop DEF InsertRest
  <2> QED
    BY <2>1, <2>2, LoopIs
<1>3. /\ LoopFits /\ i \in Nat /\ spLoop.end \in Nat /\ n \in Nat
      /\ len \in 0..Capacity /\ Size("other") \in 0..Capacity
  BY <1>1, InLoop
<1>4. ToCome' = 0 /\ ToCome = 0
  BY <1>2, <1>3 DEF ToCome
<1>5. i + n <= len /\ Size("other")' = Size("other")
  BY <1>1, <1>2, <1>3 DEF LoopFits, Size
<1>6. CapacityAssumption /\ \A x \in Indices : x \in Nat
  BY CapacityAssumption DEF Indices
<1>7. SpliceTyped'
  BY <1>1, <1>2 DEF SpliceTyped, SpliceHolds, TypedArrays
<1>8. LoopFits'
  <2>1. /\ spLoop.end <= Capacity /\ i + n <= len
        /\ Transferring =>
             spLoop.array2 = "other" /\ ToCome <= Size("other") /\ Size("other") <= spLoop.end
        /\ spLoop.array2 = "array" => spEntangled
    BY <1>2, <1>3 DEF LoopFits
  <2>2. /\ spLoop'.j <= spLoop'.end /\ spLoop'.end <= Capacity
        /\ spLoop'.i + spLoop'.removable <= Size("array")'
        /\ Size("array")' + ToCome' <= Capacity
    BY <1>1, <1>2, <1>3, <1>4, <1>6, <2>1
  <2>3. Transferring' => /\ spLoop'.array2 = "other" /\ ToCome' <= Size("other")'
                         /\ Size("other")' <= spLoop'.end
    BY <1>2, <1>3, <1>4, <1>5, <2>1
  <2>4. spLoop'.array2 = "array" => spEntangled'
    BY <1>2, <2>1
  <2>5. ~(ToCome' > 0)
    BY <1>4
  <2> QED
    BY <1>2, <2>2, <2>3, <2>4, <2>5 DEF LoopFits
<1>9. OnlyPresent'
  <2>1. ASSUME NEW x \in Indices
        PROVE  spArrays'["array"].slot[x] # NoElement <=> x \in Present("array")'
    <3>1. Present("array")' = 0..(len - 1 - 1) /\ Present("array") = 0..(len - 1)
      BY <1>1 DEF Present
    <3>2. \A y \in Indices : spArrays["array"].slot[y] # NoElement <=> y \in Present("array")
      BY DEF SpliceHolds, OnlyPresent, ArrayNames
    <3>3. CASE x = len - 1
      BY <1>1, <1>3, <3>1, <3>3
    <3>4. CASE i <= x /\ x < len - 1
      <4>1. x + 1 \in Indices /\ x + 1 \in 0..(len - 1) /\ x \in 0..(len - 1 - 1)
        BY <1>3, <1>6, <3>4 DEF Indices
      <4>2. x # len - 1
        BY <1>3, <1>6, <3>4
      <4> HIDE DEF i, len
      <4> QED
        BY <1>1, <3>1, <3>2, <3>4, <4>1, <4>2
    <3>5. CASE x < i \/ x > len - 1
      <4>1. x \in 0..(len - 1 - 1) <=> x \in 0..(len - 1)
        BY <1>2, <1>3, <1>5, <1>6, <3>5
      <4>2. x # len - 1 /\ ~(i <= x /\ x < len - 1)
        BY <1>2, <1>3, <1>5, <1>6, <3>5
      <4> HIDE DEF i, len
      <4> QED
        BY <1>1, <3>1, <3>2, <4>1, <4>2
    <3>6. x \in Int /\ i \in Int /\ len \in Int
      BY <1>3, <1>6
    <3> HIDE DEF i, len
    <3> QED
      BY <3>3, <3>4, <3>5, <3>6
  <2>2. ASSUME NEW x \in Indices
        PROVE  spArrays'["other"].slot[x] # NoElement <=> x \in Present("other")'
    <3>1. spArrays["other"].slot[x] # NoElement <=> x \in Present("other")
      BY DEF SpliceHolds, OnlyPresent, ArrayNames
    <3>2. Present("other")' = Present("other")
      BY <1>2, <1>4, <1>5 DEF Present
    <3> QED
      BY <1>1, <3>1, <3>2
  <2> QED
    BY <2>1, <2>2 DEF OnlyPresent, ArrayNames
<1>10. Promised'
  <2> SUFFICES ASSUME ~spEntangled PROVE Ahead'
    BY <1>2 DEF Promised
  <2>1. Ahead
    BY <1>1 DEF SpliceHolds, Promised
  <2> DEFINE left == IF Transferring THEN Size("other") - 0 ELSE Size("other")
             total == len - n + 0
             T == spShould["array"]
             A == spArrays["array"].slot
             O == spArrays["other"].slot
             A2 == spArrays'["array"].slot
             O2 == spArrays'["other"].slot
  <2>2. /\ Len(T) = total
        /\ \A x \in 0..(total - 1) :
             T[x + 1] = IF x < i THEN A[x]
                        ELSE IF x < i + 0 THEN O[spLoop.j + (x - i)]
                        ELSE A[x - 0 + n]
        /\ Len(spShould["other"]) = left
        /\ \A x \in 0..(left - 1) : spShould["other"][x + 1] = O[x]
    <3>1. ~(i > len)
      BY <1>2, <1>3, <1>5
    <3> QED
      BY <1>4, <2>1, <3>1 DEF Ahead
  <2>3. (IF Transferring THEN Size("other") - ToCome ELSE Size("other"))' = left
    BY <1>2, <1>4, <1>5
  <2>4. (Size("array") - spLoop.removable + ToCome)' = total
    BY <1>1, <1>2, <1>3, <1>4
  <2>5. (IF spLoop.i > Size("array") THEN Size("array") ELSE spLoop.i)' = i
    BY <1>1, <1>2, <1>3, <1>5
  <2>6. \A x \in 0..(total - 1) :
          T[x + 1] = IF x < i THEN A2[x]
                     ELSE IF x < i + 0 THEN O2[spLoop.j + (x - i)]
                     ELSE A2[x - 0 + (n - 1)]
    <3> SUFFICES ASSUME NEW x \in 0..(total - 1)
                 PROVE  T[x + 1] = IF x < i THEN A2[x]
                                   ELSE IF x < i + 0 THEN O2[spLoop.j + (x - i)]
                                   ELSE A2[x - 0 + (n - 1)]
      OBVIOUS
    <3>0. x \in Nat /\ x < total /\ total = len - n + 0
      BY <1>3
    <3> HIDE DEF i, n, len, total, left, A, O, A2, O2, T
    <3>1. CASE x < i
      <4>1. x \in Indices /\ x # len - 1
        BY <1>2, <1>3, <1>5, <1>6, <3>0, <3>1 DEF Indices
      <4>2. A2[x] = A[x]
        BY <1>1, <1>3, <3>0, <3>1, <4>1 DEF A2, A
      <4> QED
        BY <2>2, <3>1, <4>2
    <3>2. CASE x >= i
      <4>1. PICK y : y = x - 0 + (n - 1)
        OBVIOUS
      <4>2. y \in Indices /\ i <= y /\ y < len - 1 /\ y # len - 1 /\ y + 1 = x - 0 + n
        BY <1>2, <1>3, <1>5, <1>6, <3>0, <3>2, <4>1 DEF Indices
      <4>3. A2[y] = A[y + 1]
        BY <1>1, <4>2 DEF A, A2
      <4>4. ~(x < i) /\ ~(x < i + 0)
        BY <1>3, <3>0, <3>2
      <4>5. T[x + 1] = A[x - 0 + n]
        BY <2>2, <4>4
      <4> QED
        BY <4>1, <4>2, <4>3, <4>4, <4>5
    <3> QED
      BY <1>3, <3>0, <3>1, <3>2
  <2> HIDE DEF T, A, O, A2, O2, total, left, i, n, len
  <2> QED
    BY <1>1, <1>2, <1>4, <2>2, <2>3, <2>4, <2>5, <2>6 DEF Ahead, T, A2, O
<1> QED
  BY <1>1, <1>2, <1>7, <1>8, <1>9, <1>10 DEF SpliceHolds

LEMMA EndSpliceKeeps ==
  ASSUME SpliceHolds, EndSplice
  PROVE  SpliceHolds'
<1>1. /\ spLoop # NoLoop /\ spLoop.removable = 0 /\ spLoop.j = spLoop.end /\ spLoop' = NoLoop
      /\ spArrays' = spArrays /\ spRefs' = spRefs
      /\ spShould' = spShould /\ spEntangled' = spEntangled /\ spLent' = spLent
  BY DEF EndSplice, Continue, Memory
<1>2. /\ LoopFits /\ spLoop.i \in Nat /\ spLoop.end \in Nat
      /\ Size("array") \in 0..Capacity /\ Size("other") \in 0..Capacity /\ ToCome = 0
      /\ spArrays \in TypedArrays
  BY <1>1, InLoop
<1>3. SpliceTyped' /\ Counted'
  BY <1>1 DEF SpliceHolds, SpliceTyped, Counted, Held
<1>4. OnlyPresent'
  <2>1. Present("array")' = Present("array") /\ Present("other")' = Present("other")
    <3>1. ~Transferring'
      BY <1>1 DEF Transferring
    <3>2. Present("array")' = 0..(Size("array") - 1) /\ Present("other")' = 0..(Size("other") - 1)
      BY <1>1, <3>1 DEF Present, Size
    <3>3. Transferring => Present("other") = 0..(Size("other") - 0 - 1) \cup spLoop.j..(spLoop.end - 1)
      BY <1>2 DEF Present
    <3>4. spLoop.j..(spLoop.end - 1) = {} /\ Size("other") - 0 - 1 = Size("other") - 1
      BY <1>1, <1>2
    <3> QED
      BY <3>2, <3>3, <3>4 DEF Present
  <2> QED
    BY <1>1, <2>1 DEF SpliceHolds, OnlyPresent, ArrayNames
<1>5. Promised'
  <2> SUFFICES ASSUME ~spEntangled, NEW a \in ArrayNames
               PROVE  Contents(spArrays[a]) = spShould[a]
    BY <1>1 DEF Promised
  <2>1. Ahead /\ spShould[a] \in Seq(Elements)
    BY <1>1 DEF SpliceHolds, Promised, SpliceTyped
  <2>2. Size(a) \in Nat
    BY <1>2 DEF TypedArrays, Size
  <2>3. Len(spShould[a]) = Size(a) /\ \A x \in 0..(Size(a) - 1) : spShould[a][x + 1] = spArrays[a].slot[x]
    <3>1. CASE a = "array"
      <4> DEFINE len == Size("array")
                 front == IF spLoop.i > len THEN len ELSE spLoop.i
                 A == spArrays["array"].slot
                 O == spArrays["other"].slot
      <4>1. /\ Len(spShould[a]) = len - 0 + 0
            /\ \A x \in 0..(len - 0 + 0 - 1) :
                 spShould[a][x + 1] = IF x < front THEN A[x]
                                      ELSE IF x < front + 0 THEN O[spLoop.j + (x - front)]
                                      ELSE A[x - 0 + 0]
        BY <1>1, <1>2, <2>1, <3>1 DEF Ahead
      <4>2. len - 0 + 0 = len /\ front \in Int /\ len \in Int
        BY <1>2
      <4>3. \A x \in 0..(len - 1) : x - 0 + 0 = x /\ (x < front + 0 <=> x < front)
        BY <4>2
      <4> HIDE DEF len, front, A, O
      <4>4. \A x \in 0..(len - 1) : spShould[a][x + 1] = A[x]
        BY <4>1, <4>2, <4>3
      <4> QED
        BY <3>1, <4>1, <4>2, <4>4 DEF len, A
    <3>2. CASE a = "other"
      <4>1. (IF Transferring THEN Size("other") - ToCome ELSE Size("other")) = Size("other")
        BY <1>2
      <4> QED
        BY <2>1, <3>2, <4>1 DEF Ahead
    <3> QED
      BY <3>1, <3>2 DEF ArrayNames
  <2>4. Contents(spArrays[a]) = [x \in 1..Size(a) |-> spArrays[a].slot[x - 1]]
    BY DEF Contents, Size
  <2>5. \A x \in 1..Size(a) : spShould[a][x] = spArrays[a].slot[x - 1]
    <3> TAKE x \in 1..Size(a)
    <3>1. x - 1 \in 0..(Size(a) - 1) /\ (x - 1) + 1 = x
      BY <2>2
    <3> QED
      BY <2>3, <3>1
  <2>6. spShould[a] = [x \in 1..Len(spShould[a]) |-> spShould[a][x]]
    BY <2>1
  <2> QED
    BY <2>3, <2>4, <2>5, <2>6
<1> QED
  BY <1>1, <1>3, <1>4, <1>5 DEF SpliceHolds

-----------------------------------------------------------------------------
(* The start of a splice                                                   *)

LEMMA PartOf ==
  ASSUME NEW s \in Seq(Elements), NEW m \in 1..(Len(s) + 1), NEW n \in (m - 1)..Len(s)
  PROVE  /\ SubSeq(s, m, n) \in Seq(Elements)
         /\ Len(SubSeq(s, m, n)) = n - m + 1
         /\ \A x \in 1..(n - m + 1) : SubSeq(s, m, n)[x] = s[x + m - 1]
<1>1. m \in Int /\ n \in Int /\ Len(s) \in Nat
  OBVIOUS
<1>2. \A x \in m..n : s[x] \in Elements
  <2> TAKE x \in m..n
  <2>1. x \in 1..Len(s)
    BY <1>1
  <2> QED
    BY <2>1
<1>3. /\ SubSeq(s, m, n) \in Seq(Elements)
      /\ Len(SubSeq(s, m, n)) = IF m <= n THEN n - m + 1 ELSE 0
      /\ \A x \in 1..(n - m + 1) : SubSeq(s, m, n)[x] = s[m + x - 1]
  BY <1>1, <1>2, SubSeqProperties
<1>4. \A x \in 1..(n - m + 1) : m + x - 1 = x + m - 1
  BY <1>1
<1> QED
  BY <1>1, <1>3, <1>4

(* t is s with piece in place of the toRemove elements behind front.       *)
Joined(t, s, piece, front, toRemove) ==
  /\ t \in Seq(Elements)
  /\ Len(t) = Len(s) - toRemove + Len(piece)
  /\ \A x \in 1..Len(t) :
       t[x] = IF x <= front THEN s[x]
              ELSE IF x <= front + Len(piece) THEN piece[x - front]
              ELSE s[x - Len(piece) + toRemove]

LEMMA SplicedIs ==
  ASSUME NEW s \in Seq(Elements), NEW piece \in Seq(Elements),
         NEW index \in Nat, NEW toRemove \in Nat,
         NEW front \in Nat, front + toRemove <= Len(s),
         (index > Len(s) /\ front = Len(s)) \/ (index <= Len(s) /\ front = index),
         NEW t, t = Spliced(s, index, toRemove, piece)
  PROVE  Joined(t, s, piece, front, toRemove)
<1> DEFINE head == SubSeq(s, 1, front)
           rear == SubSeq(s, front + toRemove + 1, Len(s))
           two == head \o piece
<1>1. front \in Nat /\ Len(s) \in Nat /\ Len(piece) \in Nat
  OBVIOUS
<1>2. /\ head \in Seq(Elements) /\ Len(head) = front
      /\ \A x \in 1..front : head[x] = s[x]
  <2>1. 1 \in 1..(Len(s) + 1) /\ front \in (1 - 1)..Len(s) /\ front - 1 + 1 = front
    BY <1>1
  <2>2. \A x \in 1..front : x + 1 - 1 = x
    BY <1>1
  <2> QED
    BY <2>1, <2>2, PartOf
<1>3. /\ rear \in Seq(Elements) /\ Len(rear) = Len(s) - front - toRemove
      /\ \A x \in 1..(Len(s) - front - toRemove) : rear[x] = s[x + front + toRemove]
  <2> DEFINE m == front + toRemove + 1
             n == Len(s)
  <2>1. m \in 1..(Len(s) + 1) /\ n \in (m - 1)..Len(s) /\ n - m + 1 = Len(s) - front - toRemove
    BY <1>1
  <2>2. \A x \in 1..(Len(s) - front - toRemove) : x + m - 1 = x + front + toRemove
    BY <1>1
  <2> HIDE DEF m, n
  <2>3. /\ SubSeq(s, m, n) \in Seq(Elements)
        /\ Len(SubSeq(s, m, n)) = n - m + 1
        /\ \A x \in 1..(n - m + 1) : SubSeq(s, m, n)[x] = s[x + m - 1]
    BY <2>1, PartOf
  <2>4. rear = SubSeq(s, m, n)
    BY DEF m, n
  <2> HIDE DEF rear
  <2> QED
    BY <2>1, <2>2, <2>3, <2>4
<1>4. t = two \o rear
  <2>1. front = IF index > Len(s) THEN Len(s) ELSE index
    BY <1>1
  <2> QED
    BY <2>1, Zenon DEF Spliced
<1> HIDE DEF head, rear
<1>5. /\ two \in Seq(Elements) /\ Len(two) = front + Len(piece)
      /\ \A x \in 1..(front + Len(piece)) :
           two[x] = IF x <= front THEN head[x] ELSE piece[x - front]
  <2>1. /\ head \o piece \in Seq(Elements)
        /\ Len(head \o piece) = Len(head) + Len(piece)
        /\ \A x \in 1..(Len(head) + Len(piece)) :
             (head \o piece)[x] = IF x <= Len(head) THEN head[x] ELSE piece[x - Len(head)]
    BY <1>2, ConcatProperties, Zenon
  <2>2. PICK both : both = two
    OBVIOUS
  <2>3. /\ both \in Seq(Elements)
        /\ Len(both) = Len(head) + Len(piece)
        /\ \A x \in 1..(Len(head) + Len(piece)) :
             both[x] = IF x <= Len(head) THEN head[x] ELSE piece[x - Len(head)]
    BY <2>1, <2>2, Zenon
  <2> HIDE DEF two
  <2>4. Len(head) = front
    BY <1>2
  <2> QED
    BY <2>2, <2>3, <2>4, Zenon
<1> HIDE DEF two
<1>6. /\ t \in Seq(Elements) /\ Len(t) = Len(two) + Len(rear)
      /\ \A x \in 1..(Len(two) + Len(rear)) :
           t[x] = IF x <= Len(two) THEN two[x] ELSE rear[x - Len(two)]
  <2>1. /\ two \o rear \in Seq(Elements)
        /\ Len(two \o rear) = Len(two) + Len(rear)
        /\ \A x \in 1..(Len(two) + Len(rear)) :
             (two \o rear)[x] = IF x <= Len(two) THEN two[x] ELSE rear[x - Len(two)]
    <3>1. two \in Seq(Elements) /\ rear \in Seq(Elements)
      BY <1>3, <1>5
    <3> QED
      BY <3>1, ConcatProperties, Zenon
  <2> QED
    BY <1>4, <2>1, Zenon
<1>6b. PICK a \in Nat : a = front
  BY <1>1
<1>6c. PICK b \in Nat : b = Len(piece)
  BY <1>1
<1>6d. PICK d \in Nat : d = Len(s)
  BY <1>1
<1>6e. Len(rear) = d - a - toRemove /\ a + toRemove <= d
  BY <1>3, <1>6b, <1>6d
<1>6f. PICK c \in Nat : c = Len(rear) /\ c = d - a - toRemove
  BY <1>6e
<1>6a. /\ a = front /\ b = Len(piece) /\ c = Len(rear) /\ d = Len(s)
       /\ c = d - a - toRemove
  BY <1>6b, <1>6c, <1>6d, <1>6f
<1>7. Len(t) = a + b + c /\ a + b + c = d - toRemove + b
  <2>1. Len(two) = a + b /\ Len(t) = Len(two) + Len(rear)
    BY <1>5, <1>6, <1>6a
  <2>2. Len(t) = (a + b) + c
    BY <1>6a, <2>1
  <2>3. c = d - a - toRemove
    BY <1>6a
  <2>4. a + b + c = d - toRemove + b
    BY <2>3
  <2> QED
    BY <2>2, <2>4
<1>8. ASSUME NEW x \in 1..(a + b + c)
      PROVE  t[x] = IF x <= a THEN s[x]
                    ELSE IF x <= a + b THEN piece[x - a]
                    ELSE s[x - b + toRemove]
  <2>0. t[x] = IF x <= a + b THEN two[x] ELSE rear[x - (a + b)]
    BY <1>5, <1>6, <1>6a
  <2>1. CASE x <= a
    <3>1. x <= a + b /\ x \in 1..(a + b) /\ x \in 1..a
      BY <2>1
    <3> QED
      BY <1>2, <1>5, <1>6a, <2>0, <2>1, <3>1
  <2>2. CASE ~(x <= a) /\ x <= a + b
    <3>1. x \in 1..(a + b)
      BY <2>2
    <3> QED
      BY <1>5, <1>6a, <2>0, <2>2, <3>1
  <2>3. CASE x > a + b
    <3>1. PICK y : y = x - (a + b)
      OBVIOUS
    <3>2. y \in 1..(d - a - toRemove) /\ y + a + toRemove = x - b + toRemove
      BY <1>6a, <2>3, <3>1
    <3>3. ~(x <= a) /\ ~(x <= a + b)
      BY <2>3
    <3>4. rear[y] = s[y + a + toRemove]
      BY <1>3, <1>6a, <3>2
    <3> QED
      BY <2>0, <3>1, <3>2, <3>3, <3>4
  <2> QED
    BY <2>1, <2>2, <2>3
<1>9. /\ Len(t) = Len(s) - toRemove + Len(piece)
      /\ 1..Len(t) = 1..(a + b + c)
  BY <1>6a, <1>7
<1> QED
  BY <1>6, <1>6a, <1>8, <1>9 DEF Joined

LEMMA KeptIs ==
  ASSUME NEW s \in Seq(Elements), NEW begin \in 0..Len(s)
  PROVE  /\ Kept(s, begin, Len(s)) \in Seq(Elements)
         /\ Len(Kept(s, begin, Len(s))) = begin
         /\ \A x \in 1..begin : Kept(s, begin, Len(s))[x] = s[x]
<1> DEFINE head == SubSeq(s, 1, begin)
           rear == SubSeq(s, Len(s) + 1, Len(s))
<1>1. /\ head \in Seq(Elements) /\ Len(head) = begin
      /\ \A x \in 1..begin : head[x] = s[x]
  <2>1. 1 \in 1..(Len(s) + 1) /\ begin \in (1 - 1)..Len(s) /\ begin - 1 + 1 = begin
    OBVIOUS
  <2>2. \A x \in 1..begin : x + 1 - 1 = x
    OBVIOUS
  <2> QED
    BY <2>1, <2>2, PartOf
<1>2. rear = <<>>
  BY SubSeqEmpty
<1>3. Kept(s, begin, Len(s)) = head \o <<>>
  BY <1>2 DEF Kept
<1> HIDE DEF head, rear
<1>4. head \o <<>> = head
  BY <1>1, ConcatEmptySeq
<1> QED
  BY <1>1, <1>3, <1>4

(* An array that is spliced on its own may hold what it should.            *)
LEMMA StartKeeps ==
  ASSUME SpliceIInv, StartSplice
  PROVE  SpliceIInv'
<1>1. /\ spLoop = NoLoop /\ ~spTorn /\ SpliceHolds
      /\ spArrays' = spArrays /\ spRefs' = spRefs /\ spLent' = spLent
  BY DEF StartSplice, SpliceIInv
<1>2. PICK manner \in Manners, toRemove \in 0..Capacity, begin \in 0..Capacity,
           end \in 0..Capacity, index \in -1..Capacity :
        LET first == IF toRemove = 0 /\ index < 0 THEN 0 ELSE index
        IN /\ Arguments(first, toRemove, manner, begin, end)
           /\ spArrays["array"].size + end - begin <= Capacity
           /\ spLoop' = [step |-> "overlap", i |-> first, j |-> begin, end |-> end,
                         removable |-> toRemove, array2 |-> manner.array2,
                         ownership |-> manner.ownership]
           /\ spShould' = Asked(first, toRemove, manner, begin, end)
           /\ spTorn' = (/\ manner.ownership = "transfer"
                         /\ end < spArrays[manner.array2].size \/ manner.array2 = "array")
           /\ spEntangled' = (spEntangled \/ manner.array2 = "array")
  BY DEF StartSplice
<1> DEFINE first == IF toRemove = 0 /\ index < 0 THEN 0 ELSE index
<1>3. /\ Arguments(first, toRemove, manner, begin, end)
      /\ Size("array") + end - begin <= Capacity
      /\ spLoop' = [step |-> "overlap", i |-> first, j |-> begin, end |-> end,
                    removable |-> toRemove, array2 |-> manner.array2,
                    ownership |-> manner.ownership]
      /\ spShould' = Asked(first, toRemove, manner, begin, end)
      /\ spTorn' = (/\ manner.ownership = "transfer"
                    /\ end < Size(manner.array2) \/ manner.array2 = "array")
      /\ spEntangled' = (spEntangled \/ manner.array2 = "array")
  BY <1>2 DEF Size
<1>3a. spTorn' => spLoop' \in TornLoops
  <2>1. SUFFICES ASSUME spTorn' PROVE spLoop' \in TornLoops
    OBVIOUS
  <2>2. manner.ownership = "transfer"
    BY <1>3, <2>1
  <2>3. first \in Int /\ begin \in Int /\ end \in Int /\ toRemove \in Int
    BY CapacityAssumption
  <2>4. manner.array2 \in ArrayNames
    BY MannersAssumption
  <2> HIDE DEF first
  <2> QED
    BY <1>3, <2>2, <2>3, <2>4 DEF TornLoops, LoopSteps
<1> SUFFICES ASSUME ~spTorn'
             PROVE  SpliceHolds'
  BY <1>3a DEF SpliceIInv
<1>4. /\ manner.array2 \in {"array", "other"}
      /\ manner.ownership \in Ownerships
      /\ manner.ownership = "transfer" => end >= Size("other") /\ manner.array2 = "other"
  <2>1. manner \in [array2 : ArrayNames, ownership : Ownerships]
    BY MannersAssumption
  <2>2. spArrays \in TypedArrays
    BY <1>1 DEF SpliceHolds, SpliceTyped, TypedArrays
  <2>3. manner.array2 \in {"array", "other"} /\ manner.ownership \in Ownerships
    BY <1>3, <2>1 DEF ArrayNames
  <2>4. Size("other") \in Nat
    BY <2>2 DEF TypedArrays, ArrayNames, Size
  <2>5. manner.ownership = "transfer" => manner.array2 = "other" /\ ~(end < Size("other"))
    BY <1>3, <2>3
  <2> QED
    BY <2>3, <2>4, <2>5, CapacityAssumption DEF Ownerships
<1>5. /\ Size("array") \in 0..Capacity /\ Size("other") \in 0..Capacity
      /\ spArrays \in TypedArrays
  BY <1>1 DEF SpliceHolds, SpliceTyped, TypedArrays, ArrayNames, Size
<1>6. /\ toRemove \in Nat /\ begin \in Nat /\ end \in Nat /\ begin < end /\ end <= Size(manner.array2)
      /\ first \in Nat
      /\ toRemove > 0 => first + toRemove <= Size("array")
  <2>1. Size(manner.array2) \in Nat
    BY <1>4, <1>5
  <2>2. /\ toRemove > 0 => InBounds(spArrays["array"], first) /\ InBounds(spArrays["array"], first + toRemove - 1)
        /\ begin < end /\ InBounds(spArrays[manner.array2], end - 1)
    BY <1>3 DEF Arguments
  <2>3. /\ toRemove > 0 => 0 <= first /\ first + toRemove - 1 < Size("array")
        /\ end - 1 < Size(manner.array2)
    BY <2>2 DEF InBounds, Size
  <2>4. first \in Int /\ toRemove \in Nat /\ begin \in Nat /\ end \in Nat
    BY CapacityAssumption
  <2>5. first \in Nat
    BY <2>3, <2>4, CapacityAssumption
  <2> HIDE DEF first
  <2> QED
    BY <1>5, <2>1, <2>2, <2>3, <2>4, <2>5
<1> HIDE DEF first
<1>7. /\ spLoop'.i = first /\ spLoop'.j = begin /\ spLoop'.end = end /\ spLoop'.removable = toRemove
      /\ spLoop'.array2 = manner.array2 /\ spLoop'.ownership = manner.ownership
      /\ spLoop'.step = "overlap" /\ spLoop' # NoLoop
  BY <1>3 DEF NoLoop
<1>8. ToCome' = end - begin /\ Size("array")' = Size("array") /\ Size("other")' = Size("other")
  BY <1>1, <1>7 DEF ToCome, Size
<1>9. Transferring' = (manner.ownership = "transfer")
  BY <1>7 DEF Transferring
<1>10. LoopFits'
  <2>1. spLoop' \in [step : LoopSteps, i : Nat, j : Nat, end : Nat,
                     removable : Nat, array2 : ArrayNames, ownership : Ownerships]
    BY <1>3, <1>4, <1>6 DEF ArrayNames, Ownerships, LoopSteps
  <2>2. Size(spLoop.array2)' = Size(manner.array2)
    BY <1>1, <1>7 DEF Size
  <2>3. Size(manner.array2) <= Capacity
    BY <1>4, <1>5
  <2>4. spLoop'.j <= spLoop'.end /\ spLoop'.end <= Capacity
    BY <1>6, <1>7, CapacityAssumption
  <2>5. spLoop'.removable > 0 => spLoop'.i + spLoop'.removable <= Size("array")'
    BY <1>6, <1>7, <1>8
  <2>6. Size("array")' + ToCome' <= Capacity
    BY <1>3, <1>5, <1>6, <1>8, CapacityAssumption
  <2>7. spLoop'.ownership # "transfer" /\ ToCome' > 0 => spLoop'.end <= Size(spLoop.array2)'
    BY <1>6, <1>7, <2>2
  <2>8. Transferring' => /\ spLoop'.array2 = "other" /\ ToCome' <= Size("other")'
                         /\ Size("other")' <= spLoop'.end
    <3> SUFFICES ASSUME Transferring'
                 PROVE  /\ spLoop'.array2 = "other" /\ ToCome' <= Size("other")'
                        /\ Size("other")' <= spLoop'.end
      OBVIOUS
    <3>1. manner.array2 = "other" /\ end >= Size("other") /\ end <= Size("other")
      BY <1>4, <1>6, <1>9
    <3>2. end - begin <= Size("other")
      BY <1>5, <1>6, <3>1
    <3> QED
      BY <1>5, <1>6, <1>7, <1>8, <3>1, <3>2
  <2>9. spLoop'.array2 = "array" => spEntangled'
    BY <1>3, <1>7
  <2>10. spLoop'.step # "aborted"
    BY <1>7
  <2> QED
    BY <2>1, <2>4, <2>5, <2>6, <2>7, <2>8, <2>9, <2>10 DEF LoopFits
<1>11. Counted'
  BY <1>1 DEF SpliceHolds, Counted, Held
<1>12. OnlyPresent'
  <2>1. \A a \in ArrayNames : Present(a) = 0..(Size(a) - 1)
    BY <1>1 DEF Present, Transferring
  <2>2. Present("array")' = 0..(Size("array") - 1)
    BY <1>8 DEF Present
  <2>3. Present("other")' = 0..(Size("other") - 1)
    <3>1. CASE manner.ownership = "transfer"
      <4>1. end = Size("other")
        BY <1>4, <1>5, <1>6, <3>1
      <4>2. Present("other")' = 0..(Size("other") - (end - begin) - 1) \cup begin..(end - 1)
        BY <1>7, <1>8, <1>9, <3>1 DEF Present
      <4>3. Size("other") - (end - begin) - 1 = begin - 1
        BY <1>6, <4>1
      <4>4. 0..(begin - 1) \cup begin..(end - 1) = 0..(end - 1)
        BY <1>6
      <4> QED
        BY <4>1, <4>2, <4>3, <4>4
    <3>2. CASE manner.ownership # "transfer"
      BY <1>8, <1>9, <3>2 DEF Present
    <3> QED
      BY <1>4, <3>1, <3>2
  <2> QED
    BY <1>1, <2>1, <2>2, <2>3 DEF SpliceHolds, OnlyPresent, ArrayNames
<1>13. ASSUME ~spEntangled'
       PROVE  Ahead' /\ spShould' \in [ArrayNames -> Seq(Elements)]
  <2>1. ~spEntangled /\ manner.array2 = "other"
    BY <1>3, <1>4, <1>13
  <2>2. PICK s \in Seq(Elements) : s = spShould["array"]
    BY <1>1, <2>1 DEF SpliceHolds, SpliceTyped, ArrayNames
  <2>3. PICK o \in Seq(Elements) : o = spShould["other"]
    BY <1>1, <2>1 DEF SpliceHolds, SpliceTyped, ArrayNames
  <2>4. spShould \in [ArrayNames -> Seq(Elements)]
    BY <1>1, <2>1 DEF SpliceHolds, SpliceTyped
  <2>5. \A a \in ArrayNames : Contents(spArrays[a]) = spShould[a]
    BY <1>1, <2>1 DEF SpliceHolds, Promised
  <2>6. ASSUME NEW a \in ArrayNames, NEW q \in Seq(Elements), q = spShould[a]
        PROVE  Len(q) = Size(a) /\ \A x \in 1..Size(a) : q[x] = spArrays[a].slot[x - 1]
    <3>1. q = [x \in 1..Size(a) |-> spArrays[a].slot[x - 1]]
      BY <2>5, <2>6 DEF Contents, Size
    <3>2. Size(a) \in Nat
      BY <1>5 DEF TypedArrays, Size
    <3>2a. DOMAIN q = 1..Size(a)
      BY <3>1, Zenon
    <3>3. Len(q) \in Nat /\ DOMAIN q = 1..Len(q)
      OBVIOUS
    <3>4. Len(q) = Size(a)
      BY <3>2, <3>2a, <3>3
    <3> QED
      BY <3>1, <3>4
  <2>7. /\ Len(s) = Size("array") /\ \A x \in 1..Size("array") : s[x] = spArrays["array"].slot[x - 1]
        /\ Len(o) = Size("other") /\ \A x \in 1..Size("other") : o[x] = spArrays["other"].slot[x - 1]
    BY <2>2, <2>3, <2>6 DEF ArrayNames
  <2> DEFINE piece == SubSeq(o, begin + 1, end)
             rest == IF manner.ownership = "transfer" THEN Kept(o, begin, end) ELSE o
  <2>8. spShould'["array"] = Spliced(s, first, toRemove, piece) /\ spShould'["other"] = rest
        /\ DOMAIN spShould' = ArrayNames /\ spShould' = [a \in ArrayNames |-> spShould'[a]]
    <3> DEFINE left == [spShould EXCEPT !["other"] =
                          IF manner.ownership = "transfer" THEN Kept(@, begin, end) ELSE @]
    <3>1. spShould' = [left EXCEPT !["array"] = Spliced(@, first, toRemove, SubSeq(spShould["other"], begin + 1, end))]
      BY <1>3, <2>1 DEF Asked
    <3>2. left["array"] = s /\ left["other"] = rest /\ DOMAIN left = ArrayNames
      BY <2>2, <2>3, <2>4 DEF ArrayNames
    <3> HIDE DEF left, rest
    <3> QED
      BY <2>3, <3>1, <3>2 DEF ArrayNames
  <2>9. /\ piece \in Seq(Elements) /\ Len(piece) = end - begin
        /\ \A x \in 1..(end - begin) : piece[x] = o[x + begin]
    <3> DEFINE m == begin + 1
    <3>1. m \in 1..(Len(o) + 1) /\ end \in (m - 1)..Len(o) /\ end - m + 1 = end - begin
      BY <1>5, <1>6, <2>1, <2>7
    <3>2. \A x \in 1..(end - begin) : x + m - 1 = x + begin
      BY <1>6
    <3> HIDE DEF m
    <3>3. /\ SubSeq(o, m, end) \in Seq(Elements)
          /\ Len(SubSeq(o, m, end)) = end - m + 1
          /\ \A x \in 1..(end - m + 1) : SubSeq(o, m, end)[x] = o[x + m - 1]
      BY <3>1, PartOf
    <3>4. PICK part : part = SubSeq(o, m, end)
      OBVIOUS
    <3>5. part = piece
      BY <3>4 DEF m
    <3> HIDE DEF piece
    <3> QED
      BY <3>1, <3>2, <3>3, <3>4, <3>5
  <2> HIDE DEF piece
  <2>10. PICK front : front = IF first > Len(s) THEN Len(s) ELSE first
    OBVIOUS
  <2>11. front \in Nat /\ front + toRemove <= Len(s)
    BY <1>5, <1>6, <2>7, <2>10
  <2>12. PICK t : t = Spliced(s, first, toRemove, piece)
    OBVIOUS
  <2>13. /\ t \in Seq(Elements)
         /\ Len(t) = Len(s) - toRemove + Len(piece)
         /\ \A x \in 1..Len(t) :
              t[x] = IF x <= front THEN s[x]
                     ELSE IF x <= front + Len(piece) THEN piece[x - front]
                     ELSE s[x - Len(piece) + toRemove]
    <3>1. first \in Nat /\ toRemove \in Nat /\ piece \in Seq(Elements) /\ s \in Seq(Elements)
      BY <1>6, <2>9
    <3>2. front + toRemove <= Len(s) /\ front \in Nat
      BY <2>11
    <3>3. (first > Len(s) /\ front = Len(s)) \/ (first <= Len(s) /\ front = first)
      BY <1>5, <2>7, <2>10, <3>1
    <3>4. Joined(t, s, piece, front, toRemove)
      BY <2>12, <3>1, <3>2, <3>3, SplicedIs
    <3> QED
      BY <3>4 DEF Joined
  <2> DEFINE len == Size("array")
             len2 == Size("other")
             n == end - begin
             total == len - toRemove + n
             A == spArrays["array"].slot
             O == spArrays["other"].slot
             left == IF manner.ownership = "transfer" THEN len2 - n ELSE len2
  <2>14. /\ len \in Nat /\ n \in Nat /\ front \in Nat /\ total \in Nat /\ end <= len2
         /\ front + toRemove <= len /\ len2 \in Nat
    BY <1>5, <1>6, <2>1, <2>7, <2>11
  <2>15. \A x \in 0..(total - 1) :
           t[x + 1] = IF x < front THEN A[x]
                      ELSE IF x < front + n THEN O[begin + (x - front)]
                      ELSE A[x - n + toRemove]
    <3> SUFFICES ASSUME NEW x \in 0..(total - 1)
                 PROVE  t[x + 1] = IF x < front THEN A[x]
                                   ELSE IF x < front + n THEN O[begin + (x - front)]
                                   ELSE A[x - n + toRemove]
      OBVIOUS
    <3>0. x \in Nat /\ x < total /\ total = len - toRemove + n /\ Len(t) = total
      BY <2>7, <2>9, <2>13, <2>14
    <3> HIDE DEF len, len2, n, total, A, O, left
    <3>1. x + 1 \in 1..Len(t) /\ (x + 1) - 1 = x
      BY <3>0
    <3>2. t[x + 1] = IF x + 1 <= front THEN s[x + 1]
                     ELSE IF x + 1 <= front + n THEN piece[(x + 1) - front]
                     ELSE s[(x + 1) - n + toRemove]
      <4>1. Len(piece) = n
        BY <2>9 DEF n
      <4>2. t[x + 1] = IF x + 1 <= front THEN s[x + 1]
                       ELSE IF x + 1 <= front + Len(piece) THEN piece[(x + 1) - front]
                       ELSE s[(x + 1) - Len(piece) + toRemove]
        <5> DEFINE u == x + 1
        <5>1. u \in 1..Len(t)
          BY <3>1
        <5> HIDE DEF u
        <5>2. t[u] = IF u <= front THEN s[u]
                     ELSE IF u <= front + Len(piece) THEN piece[u - front]
                     ELSE s[u - Len(piece) + toRemove]
          BY <2>13, <5>1
        <5> QED
          BY <5>2 DEF u
      <4> QED
        BY <4>1, <4>2, Zenon
    <3>3. CASE x < front
      <4>1. x + 1 <= front /\ x + 1 \in 1..len
        BY <2>14, <3>0, <3>3
      <4> QED
        BY <2>7, <3>1, <3>2, <3>3, <4>1 DEF len, A
    <3>4. CASE ~(x < front) /\ x < front + n
      <4>1. PICK y : y = (x + 1) - front
        OBVIOUS
      <4>2. /\ y \in 1..n /\ ~(x + 1 <= front) /\ x + 1 <= front + n
            /\ y + begin \in 1..len2 /\ (y + begin) - 1 = begin + (x - front)
        <5>1. begin + n = end
          BY <1>6 DEF n
        <5> QED
          BY <1>6, <2>14, <3>0, <3>4, <4>1, <5>1
      <4>3. piece[y] = o[y + begin]
        BY <2>9, <4>2 DEF n
      <4>4. o[y + begin] = O[(y + begin) - 1]
        BY <2>7, <4>2 DEF O, len2
      <4> QED
        BY <3>2, <3>4, <4>1, <4>2, <4>3, <4>4
    <3>5. CASE ~(x < front + n)
      <4>1. PICK y : y = (x + 1) - n + toRemove
        OBVIOUS
      <4>2. /\ y \in 1..len /\ ~(x + 1 <= front) /\ ~(x + 1 <= front + n) /\ ~(x < front)
            /\ y - 1 = x - n + toRemove
        BY <1>6, <2>14, <3>0, <3>5, <4>1
      <4>3. s[y] = A[y - 1]
        BY <2>7, <4>2 DEF A, len
      <4> QED
        BY <3>2, <3>5, <4>1, <4>2, <4>3
    <3> QED
      BY <3>3, <3>4, <3>5
  <2>16. Len(t) = total
    BY <2>7, <2>9, <2>13
  <2>17. rest \in Seq(Elements) /\ Len(rest) = left /\ \A x \in 1..left : rest[x] = o[x]
    <3>1. CASE manner.ownership = "transfer"
      <4>1. end = Len(o) /\ begin \in 0..Len(o) /\ left = begin
        BY <1>4, <1>5, <1>6, <2>1, <2>7, <3>1, SMTT(30)
      <4>2. /\ Kept(o, begin, Len(o)) \in Seq(Elements)
            /\ Len(Kept(o, begin, Len(o))) = begin
            /\ \A x \in 1..begin : Kept(o, begin, Len(o))[x] = o[x]
        BY <4>1, KeptIs
      <4>3. rest = Kept(o, begin, Len(o))
        BY <3>1, <4>1
      <4> HIDE DEF rest, left
      <4> QED
        BY <4>1, <4>2, <4>3
    <3>2. CASE manner.ownership # "transfer"
      BY <2>7, <3>2
    <3> QED
      BY <3>1, <3>2
  <2> HIDE DEF rest
  <2>18. \A x \in 0..(left - 1) : rest[x + 1] = O[x]
    <3> TAKE x \in 0..(left - 1)
    <3>1. left <= len2 /\ left \in Int
      BY <2>14, SMTT(30)
    <3> HIDE DEF left, len2, O
    <3>2. x + 1 \in 1..left /\ x + 1 \in 1..len2 /\ (x + 1) - 1 = x
      BY <2>14, <3>1
    <3> QED
      BY <2>7, <2>17, <3>2 DEF O, len2
  <2>19. spShould' \in [ArrayNames -> Seq(Elements)]
    BY <2>8, <2>12, <2>13, <2>17 DEF ArrayNames
  <2>20. (IF Transferring THEN Size("other") - ToCome ELSE Size("other"))' = left
    BY <1>8, <1>9
  <2>21. (Size("array") - spLoop.removable + ToCome)' = total
    BY <1>7, <1>8
  <2>22. (IF spLoop.i > Size("array") THEN Size("array") ELSE spLoop.i)' = front
    BY <1>7, <1>8, <2>7, <2>10
  <2>23. ToCome' = n
    BY <1>8
  <2>24. spShould'["array"] = t /\ spShould'["other"] = rest
    BY <2>8, <2>12
  <2> HIDE DEF len, len2, n, total, A, O, left
  <2>25. Ahead'
    BY <1>1, <1>7, <2>15, <2>16, <2>17, <2>18, <2>20, <2>21, <2>22, <2>23, <2>24 DEF Ahead, A, O
  <2> QED
    BY <2>19, <2>25
<1>14. Promised'
  BY <1>7, <1>13 DEF Promised
<1>15. SpliceTyped'
  <2>1. spEntangled' \in BOOLEAN
    BY <1>3
  <2> QED
    BY <1>1, <1>13, <2>1 DEF SpliceHolds, SpliceTyped
<1> QED
  BY <1>7, <1>10, <1>11, <1>12, <1>14, <1>15 DEF SpliceHolds

-----------------------------------------------------------------------------
LEMMA SpliceInitHolds == InitSplice => SpliceIInv
<1> SUFFICES ASSUME InitSplice PROVE SpliceHolds
  BY DEF SpliceIInv, InitSplice
<1>1. PICK fill \in [ArrayNames -> Fillings] :
        /\ spArrays = [a \in ArrayNames |-> Filled(fill[a])]
        /\ spRefs = [e \in Elements |->
                       Cardinality({x \in ArrayNames \X Indices :
                                      Filled(fill[x[1]]).slot[x[2]] = e})]
        /\ spShould = fill /\ spLoop = NoLoop /\ spEntangled = FALSE /\ spTorn = FALSE
        /\ spLent = [e \in Elements |-> 0]
  BY DEF InitSplice
<1>2. ASSUME NEW a \in ArrayNames
      PROVE  /\ fill[a] \in Seq(Elements) /\ Len(fill[a]) \in 0..Capacity
             /\ spArrays[a] = Filled(fill[a]) /\ Size(a) = Len(fill[a])
             /\ \A i \in Indices :
                  spArrays[a].slot[i] = IF i < Size(a) THEN fill[a][i + 1] ELSE NoElement
             /\ \A i \in Indices : i < Size(a) => fill[a][i + 1] \in Elements
             /\ spArrays[a] \in [slot : [Indices -> Elements \cup {NoElement}], size : 0..Capacity]
  <2>1. fill[a] \in Seq(Elements) /\ Len(fill[a]) \in 0..Capacity
    BY FillingsAssumption, CapacityAssumption
  <2>2. spArrays[a] = Filled(fill[a]) /\ Size(a) = Len(fill[a])
    BY <1>1 DEF Size, Filled
  <2> DEFINE slots == [i \in Indices |-> IF i < Len(fill[a]) THEN fill[a][i + 1] ELSE NoElement]
  <2>3. spArrays[a] = [slot |-> slots, size |-> Len(fill[a])]
    BY <2>2 DEF Filled
  <2>4. \A i \in Indices : i < Len(fill[a]) => fill[a][i + 1] \in Elements
    BY <2>1, CapacityAssumption DEF Indices
  <2>5. slots \in [Indices -> Elements \cup {NoElement}]
    BY <2>4
  <2>6. spArrays[a].slot = slots
    BY <2>3
  <2> QED
    BY <2>1, <2>2, <2>3, <2>4, <2>5, <2>6
<1>3. SpliceTyped
  <2>1. spArrays \in TypedArrays
    BY <1>1, <1>2 DEF TypedArrays
  <2>2. spRefs \in [Elements -> Int]
    <3>1. spRefs = [e \in Elements |-> Held(e)]
      BY <1>1, <1>2 DEF Held
    <3>2. \A e : Held(e) \in Nat
      BY HeldIs, SlotsFinite, CountZero
    <3> QED
      BY <3>1, <3>2
  <2>3. spShould \in [ArrayNames -> Seq(Elements)]
    BY <1>1, <1>2
  <2> QED
    BY <1>1, <2>1, <2>2, <2>3 DEF SpliceTyped, TypedArrays
<1>4. Counted
  <2>1. \A e : Held(e) \in Nat
    BY HeldIs, SlotsFinite, CountZero
  <2>2. \A e \in Elements : spRefs[e] = Held(e) /\ spLent[e] = 0
    BY <1>1, <1>2 DEF Held
  <2> QED
    BY <2>1, <2>2 DEF Counted
<1>5. OnlyPresent
  <2> SUFFICES ASSUME NEW a \in ArrayNames, NEW i \in Indices
               PROVE  spArrays[a].slot[i] # NoElement <=> i \in Present(a)
    BY DEF OnlyPresent
  <2>1. Present(a) = 0..(Size(a) - 1)
    BY <1>1 DEF Present, Transferring
  <2>2. i \in Present(a) <=> i < Size(a)
    BY <1>2, <2>1, CapacityAssumption DEF Indices
  <2> QED
    BY <1>2, <2>2, ElementsAssumption
<1>6. Promised
  <2> SUFFICES ASSUME NEW a \in ArrayNames PROVE Contents(spArrays[a]) = spShould[a]
    BY <1>1 DEF Promised
  <2>1. Contents(spArrays[a]) = [x \in 1..Size(a) |-> spArrays[a].slot[x - 1]]
    BY DEF Contents, Size
  <2>2. fill[a] = [x \in 1..Len(fill[a]) |-> fill[a][x]]
    BY <1>2
  <2>3. \A x \in 1..Size(a) : spArrays[a].slot[x - 1] = fill[a][x]
    <3> TAKE x \in 1..Size(a)
    <3>1. x - 1 \in Indices /\ x - 1 < Size(a) /\ (x - 1) + 1 = x
      BY <1>2, CapacityAssumption DEF Indices
    <3> QED
      BY <1>2, <3>1
  <2>4. Size(a) = Len(fill[a]) /\ spShould[a] = fill[a]
    BY <1>1, <1>2
  <2> QED
    BY <2>1, <2>2, <2>3, <2>4
<1> QED
  BY <1>1, <1>3, <1>4, <1>5, <1>6 DEF SpliceHolds

(* An assertion stops a transfer only: whatever else is taken is there.    *)
LEMMA AbortKeeps ==
  ASSUME SpliceHolds, Abort
  PROVE  SpliceHolds'
<1>1. /\ spLoop # NoLoop /\ spLoop' = [spLoop EXCEPT !.step = "aborted"]
      /\ spLoop.j < spLoop.end /\ ~IndicesValid
      /\ spArrays' = spArrays /\ spRefs' = spRefs /\ spShould' = spShould
      /\ spEntangled' = spEntangled /\ spLent' = spLent
  BY DEF Abort, Continue, Memory, NoLoop
<1>2. /\ LoopFits /\ spLoop.i \in Nat /\ spLoop.j \in Nat /\ spLoop.end \in Nat
      /\ spLoop.removable \in Nat /\ ToCome = spLoop.end - spLoop.j
      /\ Size("array") \in 0..Capacity /\ Size("other") \in 0..Capacity
  BY <1>1, InLoop
<1>3. spLoop.ownership = "transfer"
  <2> SUFFICES ASSUME spLoop.ownership # "transfer" PROVE IndicesValid
    BY <1>1
  <2>1. spLoop.end <= Size(spLoop.array2) /\ Size(spLoop.array2) \in Nat
    BY <1>1, <1>2 DEF LoopFits, ArrayNames
  <2>2. InBounds(spArrays[spLoop.array2], spLoop.j)
    BY <1>1, <1>2, <2>1 DEF InBounds, Size
  <2>3. spLoop.removable > 0 => InBounds(spArrays["array"], spLoop.i)
    BY <1>2 DEF LoopFits, InBounds, Size
  <2> QED
    BY <2>2, <2>3 DEF IndicesValid
<1>4. /\ spLoop'.i = spLoop.i /\ spLoop'.j = spLoop.j /\ spLoop'.end = spLoop.end
      /\ spLoop'.removable = spLoop.removable /\ spLoop'.array2 = spLoop.array2
      /\ spLoop'.ownership = spLoop.ownership /\ spLoop'.step = "aborted" /\ spLoop' # NoLoop
      /\ spLoop' \in [step : LoopSteps, i : Nat, j : Nat, end : Nat,
                      removable : Nat, array2 : ArrayNames, ownership : Ownerships]
  <2>1. spLoop \in [step : LoopSteps, i : Nat, j : Nat, end : Nat,
                    removable : Nat, array2 : ArrayNames, ownership : Ownerships]
    BY <1>2 DEF LoopFits
  <2> QED
    BY <1>1, <2>1 DEF NoLoop, LoopSteps
<1>5. /\ Transferring' = Transferring /\ ToCome' = ToCome
      /\ \A a \in ArrayNames : Size(a)' = Size(a)
  BY <1>1, <1>4 DEF Transferring, ToCome, Size
<1>6. \A a \in ArrayNames : Present(a)' = Present(a)
  BY <1>1, <1>4, <1>5 DEF Present
<1>7. SpliceTyped' /\ Counted' /\ OnlyPresent'
  BY <1>1, <1>6 DEF SpliceHolds, SpliceTyped, Counted, Held, OnlyPresent
<1>8. LoopFits'
  <2>1. spLoop'.array2 \in ArrayNames /\ Size(spLoop.array2)' = Size(spLoop.array2)
    BY <1>1, <1>4 DEF Size
  <2> QED
    BY <1>2, <1>3, <1>4, <1>5, <1>1, <2>1 DEF LoopFits, ArrayNames
<1>9. Promised'
  BY <1>1, <1>4, <1>5 DEF SpliceHolds, Promised, Ahead, ArrayNames
<1> QED
  BY <1>4, <1>7, <1>8, <1>9 DEF SpliceHolds

LEMMA SpliceRests ==
  ASSUME SpliceHolds, UNCHANGED spliceVars
  PROVE  SpliceHolds'
<1>1. /\ spArrays' = spArrays /\ spRefs' = spRefs /\ spLoop' = spLoop /\ spShould' = spShould
      /\ spEntangled' = spEntangled /\ spLent' = spLent
  BY DEF spliceVars
<1>2. SpliceTyped' /\ Counted'
  BY <1>1 DEF SpliceHolds, SpliceTyped, Counted, Held
<1>3. /\ Transferring' = Transferring /\ ToCome' = ToCome
      /\ \A a \in ArrayNames : Size(a)' = Size(a)
  BY <1>1 DEF Transferring, ToCome, Size
<1>4. \A a \in ArrayNames : Present(a)' = Present(a)
  BY <1>1, <1>3 DEF Present
<1>5. OnlyPresent'
  BY <1>1, <1>4 DEF SpliceHolds, OnlyPresent
<1>6. (spLoop = NoLoop \/ LoopFits)'
  BY <1>1, <1>3 DEF SpliceHolds, LoopFits, ArrayNames
<1>7. Promised'
  BY <1>1, <1>3 DEF SpliceHolds, Promised, Ahead, ArrayNames
<1> QED
  BY <1>2, <1>5, <1>6, <1>7 DEF SpliceHolds

LEMMA SpliceStepHolds == SpliceIInv /\ [SpliceNext]_spliceVars => SpliceIInv'
<1> SUFFICES ASSUME SpliceIInv, [SpliceNext]_spliceVars PROVE SpliceIInv'
  OBVIOUS
<1>1. CASE spTorn
  <2>1. spTorn' = spTorn /\ ~StartSplice
    BY <1>1 DEF SpliceNext, StartSplice, Replace, RemoveSurplus, InsertRest, EndSplice, Abort,
                Leave, Continue, spliceVars
  <2>2. spLoop \in TornLoops \cup {NoLoop}
    BY <1>1 DEF SpliceIInv
  <2>3. CASE EndSplice
    BY <1>1, <2>1, <2>3 DEF EndSplice, Continue, NoLoop, SpliceIInv
  <2>4. CASE UNCHANGED spLoop
    BY <1>1, <2>1, <2>2, <2>4 DEF SpliceIInv
  <2>5. CASE Replace \/ RemoveSurplus \/ InsertRest \/ Abort
    <3>1. spLoop \in TornLoops
      BY <2>2, <2>5 DEF Replace, RemoveSurplus, InsertRest, Abort, NoLoop
    <3>2. \/ spLoop' = [spLoop EXCEPT !.i = @ + 1, !.j = @ + 1, !.removable = @ - 1]
          \/ spLoop' = [spLoop EXCEPT !.step = "remove", !.removable = @ - 1]
          \/ spLoop' = [spLoop EXCEPT !.step = "insert", !.i = @ + 1, !.j = @ + 1]
          \/ spLoop' = [spLoop EXCEPT !.step = "aborted"]
      BY <2>5 DEF Replace, RemoveSurplus, InsertRest, Abort, Continue
    <3>3. spLoop' \in TornLoops
      <4>1. /\ spLoop.i + 1 \in Int /\ spLoop.j + 1 \in Int /\ spLoop.removable - 1 \in Int
            /\ "remove" \in LoopSteps /\ "insert" \in LoopSteps /\ "aborted" \in LoopSteps
        BY <3>1 DEF TornLoops, LoopSteps
      <4>2. PICK i \in Int, j \in Int, n \in Int :
              i = spLoop.i + 1 /\ j = spLoop.j + 1 /\ n = spLoop.removable - 1
        BY <4>1
      <4>3. CASE spLoop' = [spLoop EXCEPT !.i = @ + 1, !.j = @ + 1, !.removable = @ - 1]
        <5>1. spLoop' = [spLoop EXCEPT !.i = i, !.j = j, !.removable = n]
          BY <3>1, <4>2, <4>3 DEF TornLoops
        <5> QED
          BY <3>1, <5>1 DEF TornLoops
      <4>4. CASE spLoop' = [spLoop EXCEPT !.step = "remove", !.removable = @ - 1]
        <5>1. spLoop' = [spLoop EXCEPT !.step = "remove", !.removable = n]
          BY <3>1, <4>2, <4>4 DEF TornLoops
        <5> QED
          BY <3>1, <4>1, <5>1 DEF TornLoops
      <4>5. CASE spLoop' = [spLoop EXCEPT !.step = "insert", !.i = @ + 1, !.j = @ + 1]
        <5>1. spLoop' = [spLoop EXCEPT !.step = "insert", !.i = i, !.j = j]
          BY <3>1, <4>2, <4>5 DEF TornLoops
        <5> QED
          BY <3>1, <4>1, <5>1 DEF TornLoops
      <4>6. CASE spLoop' = [spLoop EXCEPT !.step = "aborted"]
        BY <3>1, <4>1, <4>6 DEF TornLoops
      <4> QED
        BY <3>2, <4>3, <4>4, <4>5, <4>6
    <3> QED
      BY <1>1, <2>1, <3>3 DEF SpliceIInv
  <2> QED
    BY <2>1, <2>3, <2>4, <2>5 DEF SpliceNext, Leave, spliceVars
<1>2. CASE StartSplice
  BY <1>2, StartKeeps
<1>3. CASE ~spTorn /\ ~StartSplice
  <2>0. SpliceHolds
    BY <1>3 DEF SpliceIInv
  <2>0a. ~spTorn'
    BY <1>3 DEF SpliceNext, Replace, RemoveSurplus, InsertRest, EndSplice, Abort, Leave, Continue,
                spliceVars
  <2>1. CASE Replace
    BY <2>0, <2>0a, <2>1, ReplaceKeeps DEF SpliceIInv
  <2>2. CASE RemoveSurplus
    BY <2>0, <2>0a, <2>2, RemoveSurplusKeeps DEF SpliceIInv
  <2>3. CASE InsertRest
    BY <2>0, <2>0a, <2>3, InsertRestKeeps DEF SpliceIInv
  <2>4. CASE EndSplice
    BY <2>0, <2>0a, <2>4, EndSpliceKeeps DEF SpliceIInv
  <2>5. CASE Abort
    BY <2>0, <2>0a, <2>5, AbortKeeps DEF SpliceIInv
  <2>6. CASE UNCHANGED spliceVars
    BY <2>0, <2>0a, <2>6, SpliceRests DEF SpliceIInv
  <2> QED
    BY <1>3, <2>1, <2>2, <2>3, <2>4, <2>5, <2>6 DEF SpliceNext, Leave
<1> QED
  BY <1>1, <1>2, <1>3

(* Between the steps of a splice, the elements still to be removed and     *)
(* those still to come are where the loop will look for them, and what the *)
(* rest of the loop will make of the arrays is what was asked for.         *)
THEOREM SpliceInductive == SpliceSpec => []SpliceIInv
BY SpliceInitHolds, SpliceStepHolds, PTL DEF SpliceSpec

(* For arrays of any length and any number of splices: a splice that is    *)
(* done, unless it was a transfer that tore a gap, has left what was asked *)
(* for in both arrays (in an array not spliced into itself), nothing       *)
(* behind their ends, and each element counted once for every slot that    *)
(* holds it but those SPLICE_NOCHANGE has filled; an assertion stops       *)
(* nothing but transfers.                                                  *)
THEOREM SpliceAsAsked == SpliceSpec => []SplicedAsAsked
<1>1. SpliceIInv => SplicedAsAsked
  <2>1. CASE spTorn
    BY <2>1 DEF SpliceIInv, SplicedAsAsked, TornLoops, NoLoop
  <2>2. CASE ~spTorn /\ spLoop # NoLoop
    BY <2>2 DEF SpliceIInv, SplicedAsAsked, SpliceHolds, LoopFits
  <2>3. CASE ~spTorn /\ spLoop = NoLoop
    <3> SUFFICES ASSUME SpliceHolds PROVE SplicedAsAsked
      BY <2>3 DEF SpliceIInv
    <3>1. Counted /\ Promised /\ spLoop.step # "aborted"
      BY <2>3 DEF SpliceHolds, NoLoop
    <3>2. ASSUME NEW a \in ArrayNames, NEW i \in Indices, i >= spArrays[a].size
          PROVE  spArrays[a].slot[i] = NoElement
      <4>1. Present(a) = 0..(Size(a) - 1) /\ Size(a) \in Nat
        BY <2>3 DEF Present, Transferring, SpliceHolds, SpliceTyped, Size
      <4>2. i \notin Present(a)
        BY <3>2, <4>1, CapacityAssumption DEF Indices, Size
      <4> QED
        BY <4>2 DEF SpliceHolds, OnlyPresent
    <3> QED
      BY <2>3, <3>1, <3>2 DEF SplicedAsAsked, Counted, Promised
  <2> QED
    BY <2>1, <2>2, <2>3
<1> QED
  BY <1>1, SpliceInductive, PTL

-----------------------------------------------------------------------------
(***************************************************************************)
(* The parsers of the C++ binding: one lemma for each call of the client,  *)
(* that it keeps the inductive invariant CxxIInv.                          *)
(***************************************************************************)
(* Counting references, document by document.                              *)
LEMMA References ==
  ASSUME NEW refs \in [CxxDocs -> Int], NEW d \in CxxDocs \cup {NoDocument}
  PROVE  /\ Acquired(refs, d) \in [CxxDocs -> Int]
         /\ Dropped(refs, d) \in [CxxDocs -> Int]
         /\ \A e \in CxxDocs : Acquired(refs, d)[e] = refs[e] + Bit01(e = d)
         /\ \A e \in CxxDocs : Dropped(refs, d)[e] = refs[e] - Bit01(e = d)
BY DEF Acquired, Dropped, Bit01

LEMMA AssignedReferences ==
  ASSUME NEW refs \in [CxxDocs -> Int], NEW d \in CxxDocs \cup {NoDocument},
         NEW old \in CxxDocs \cup {NoDocument}
  PROVE  /\ Assigned(refs, old, d) \in [CxxDocs -> Int]
         /\ \A e \in CxxDocs : Assigned(refs, old, d)[e] = refs[e] - Bit01(e = old)
BY DEF Acquired, Dropped, Bit01, Assigned

(* A new document, and one that becomes m_dom in place of another.         *)
CountedBy(refs, dom, result, copies) ==
  /\ refs \in [CxxDocs -> Int]
  /\ \A e \in CxxDocs : refs[e] = Bit01(e = dom) + Bit01(e = result) + Bit01(e \in copies)

LEMMA DocumentMade ==
  \A refs, dom, copies, d : CountedBy(refs, dom, NoDocument, copies)
    => CountedBy(Acquired(refs, d), dom, d, copies)
BY CxxNamesAssumption DEF Acquired, Bit01, CountedBy

LEMMA DocumentTaken ==
  \A refs, dom, copies, d, result : CountedBy(refs, dom, result, copies)
    => CountedBy(Assigned(Acquired(refs, d), dom, d), d, result, copies)
BY CxxNamesAssumption DEF Assigned, Acquired, Dropped, Bit01, CountedBy

(* Without an object, a client's value or a call nothing can be wrong.     *)
LEMMA NothingAllocated ==
  /\ cxx = NoObject /\ cxxC = NoCParser /\ cxxSchemas = {} /\ cxxAlive = {}
  /\ cxxRefs = [d \in CxxDocs |-> 0] /\ cxxCopies = {} /\ cxxCall = NoCall
  => CxxTypeOK /\ CParserOfObject /\ DocumentsHeld /\ FailuresTold
BY CxxNamesAssumption DEF CxxTypeOK, CxxObjects, CxxCParsers, CParserOfObject, CParserFits, DocumentsHeld, FailuresTold,
   NoObject, NoCParser, NoCall, Calls, Bit01

(* The state in which nothing is allocated satisfies the invariant.        *)
LEMMA CxxStarts == InitCxx => CxxIInv
BY NothingAllocated DEF InitCxx, CxxIInv, CxxParserStands, FaultsNamed, NoFault

(* A fault ends the program: what has to be shown is that it has a name.   *)
LEMMA FaultKeeps ==
  ASSUME NEW what, NEW object, Fault(what, object),
         what \in {"raw memory", "freed twice"} => object.unresolved,
         what = "validators freed" => object.swapped,
         what = "handler destroyed" => cxxC.api = "new",
         what = "not a handler" => object.kind = "sax"
  PROVE  CxxIInv'
<1>a. (/\ cxx = NoObject /\ cxxC = NoCParser /\ cxxSchemas = {} /\ cxxAlive = {}
       /\ cxxRefs = [d \in CxxDocs |-> 0] /\ cxxCopies = {} /\ cxxCall = NoCall)'
  BY DEF Fault
<1>1. CxxTypeOK' /\ CParserOfObject' /\ DocumentsHeld' /\ FailuresTold'
  BY <1>a, NothingAllocated, PTL
<1>2. FaultsNamed'
  BY DEF Fault, FaultsNamed
<1> QED
  BY <1>1, <1>2 DEF CxxIInv, CxxParserStands

(* The C parser a call deinitialises is one that stands, or its fault has  *)
(* a name: it was left by a begin that said no, or its schema was changed. *)
LEMMA CrashKeeps == CxxIInv /\ CxxCrash => CxxIInv'
<1> SUFFICES ASSUME CxxIInv, CxxCrash PROVE CxxIInv'
  OBVIOUS
<1>1. PICK call \in {"begin", "reset", "reset with schema", "destroy"}, s \in Schemas :
        /\ DeinitFault(FoundBy(call, s)) # "none"
        /\ Fault(DeinitFault(FoundBy(call, s)), FoundBy(call, s))
  BY DEF CxxCrash
<1> DEFINE found == FoundBy(call, s)
<1>2. /\ found.memory = cxx.memory /\ found.unresolved = cxx.unresolved
      /\ found = cxx \/ found.swapped
  BY DEF FoundBy, CxxIInv, CxxTypeOK, CxxObjects
<1> HIDE DEF found
<1>3. DeinitFault(found) \in {"raw memory", "freed twice", "validators freed"}
  BY <1>1 DEF DeinitFault, found
<1>4. DeinitFault(found) \in {"raw memory", "freed twice"} => found.unresolved
  BY <1>2 DEF DeinitFault, CxxIInv, CxxTypeOK, CxxObjects, CxxCParsers, CParserOfObject, CParserFits
<1>5. DeinitFault(found) = "validators freed" => found.swapped
  BY <1>2 DEF DeinitFault, SchemaStands, CxxIInv, CxxTypeOK, CxxObjects, CxxCParsers, CParserOfObject, CParserFits
<1> QED
  BY <1>1, <1>3, <1>4, <1>5, FaultKeeps DEF found

(* A handler is called while its parse is read, or after a reset.          *)
LEMMA FeedFaultKeeps ==
  ASSUME CxxIInv, NEW call \in {"feed", "feed input", "end"}, CxxFeedFaults(call)
  PROVE  CxxIInv'
<1>1. PICK outcome \in CxxOutcomes(call) :
        /\ cxx.phase = "reading"
        /\ TellFault(call, outcome) # "none"
        /\ Fault(TellFault(call, outcome), cxx)
  BY DEF CxxFeedFaults
<1>2. TellFault(call, outcome) \in {"not a handler", "handler destroyed"}
  BY <1>1 DEF TellFault
<1>3. TellFault(call, outcome) = "not a handler" => cxx.kind = "sax"
  BY DEF TellFault
<1>4. TellFault(call, outcome) = "handler destroyed" => cxxC.api = "new"
  BY <1>1 DEF TellFault, Hears, CxxIInv, CxxTypeOK, CxxObjects, CxxCParsers, CParserOfObject, CParserFits
<1> QED
  BY <1>1, <1>2, <1>3, <1>4, FaultKeeps

LEMMA SaxParseFaultKeeps == CxxIInv /\ SaxParseFaults => CxxIInv'
BY FaultKeeps DEF SaxParseFaults

(* The object and its C parser are the only ones to change.                *)
LEMMA CxxCreateKeeps ==
  ASSUME CxxIInv, NEW kind \in {"sax", "dom"}, NEW old \in BOOLEAN, NEW s \in Schemas,
         CxxCreate(kind, old, s)
  PROVE  CxxIInv'
<1>1. cxx = NoObject /\ cxxC = NoCParser
  BY DEF CxxCreate, CxxIInv, CParserOfObject, CParserFits, NoObject
<1>2. CxxTypeOK'
  <2>1. s \in CxxSchemas \cup {AllSchema}
    BY DEF Schemas, CxxIInv, CxxTypeOK
  <2>2. cxx' \in CxxObjects
    BY <2>1 DEF CxxCreate, CxxObjects, NoObject
  <2> QED
    BY <2>2 DEF CxxCreate, CxxIInv, CxxTypeOK
<1>3. CParserOfObject'
  BY <1>1 DEF CxxCreate, CParserOfObject, CParserFits, NoObject, NoCParser
<1>4. DocumentsHeld'
  BY <1>1 DEF CxxCreate, CxxIInv, CxxParserStands, DocumentsHeld, NoObject, NoCParser,
     NoCall, Calls
<1>5. FaultsNamed'
  BY DEF CxxCreate, FaultsNamed, NoFault
<1>6. FailuresTold'
  BY DEF CxxCreate, FailuresTold, NoCall, Calls
<1> QED
  BY <1>2, <1>3, <1>4, <1>5, <1>6 DEF CxxIInv, CxxParserStands

(* What a C parser leaves behind when it is deinitialised: its result.     *)
LEMMA DroppedResult ==
  ASSUME CxxIInv
  PROVE  /\ Dropped(cxxRefs, cxxC.result) \in [CxxDocs -> Int]
         /\ \A d \in CxxDocs : Dropped(cxxRefs, cxxC.result)[d]
              = Bit01(d = cxx.dom) + Bit01(d \in cxxCopies)
<1>1. cxxRefs \in [CxxDocs -> Int] /\ cxxC.result \in CxxDocs \cup {NoDocument}
  BY DEF CxxIInv, CxxTypeOK, CxxCParsers
<1>2. \A d \in CxxDocs : cxxRefs[d]
        = Bit01(d = cxx.dom) + Bit01(d = cxxC.result) + Bit01(d \in cxxCopies)
  BY DEF CxxIInv, CxxParserStands, DocumentsHeld
<1>3. ASSUME NEW d \in CxxDocs
      PROVE  Dropped(cxxRefs, cxxC.result)[d] = Bit01(d = cxx.dom) + Bit01(d \in cxxCopies)
  <2>1. Dropped(cxxRefs, cxxC.result)[d] = cxxRefs[d] - Bit01(d = cxxC.result)
    BY <1>1, References
  <2> QED
    BY <1>2, <2>1 DEF Bit01
<1> QED
  BY <1>1, <1>3, References

(* A begin or reset that goes well, and a begin that said no.              *)
LEMMA ObjectStarted ==
  ASSUME NEW object \in CxxObjects, object.kind # "none", NEW alive,
         NEW s \in CxxSchemas \cup {AllSchema}, NEW h \in CxxHandlers \cup {NoOne},
         NEW api \in {"new", "old"}, api = "old" => h \in alive \cup {NoOne},
         object.kind # "dom" => object.dom = NoDocument
  PROVE  /\ Reads(object, s, h) \in CxxObjects /\ Reads(object, s, h).dom = object.dom
         /\ Started(api, s) \in CxxCParsers /\ Started(api, s).result = NoDocument
         /\ CParserFits(Reads(object, s, h), Started(api, s), alive)
<1> DEFINE now == Reads(object, s, h)
<1>0. /\ now \in CxxObjects /\ now.dom = object.dom /\ now.kind = object.kind
      /\ now.memory = "used" /\ now.schema = s /\ now.handler = h
  BY DEF Reads, CxxObjects
<1> HIDE DEF now
<1>2. /\ Started(api, s).api = api /\ Started(api, s).live /\ Started(api, s).using = s
      /\ ~Started(api, s).done /\ Started(api, s).result = NoDocument
  BY DEF Started, NoCParser
<1>3. Started(api, s) \in CxxCParsers
  BY DEF Started, NoCParser, CxxCParsers
<1>4. CParserFits(now, Started(api, s), alive)
  BY <1>0, <1>2 DEF CParserFits
<1> QED
  BY <1>0, <1>2, <1>3, <1>4 DEF now

LEMMA ObjectLeft ==
  ASSUME NEW object \in CxxObjects, object.kind # "none", NEW alive,
         NEW c \in CxxCParsers, CParserFits(object, c, alive),
         NEW s \in CxxSchemas \cup {AllSchema}, NEW h \in CxxHandlers \cup {NoOne}
  PROVE  /\ SaysNo(object, s, h) \in CxxObjects /\ SaysNo(object, s, h).dom = object.dom
         /\ Deinit(c) \in CxxCParsers /\ Deinit(c).result = NoDocument
         /\ CParserFits(SaysNo(object, s, h), Deinit(c), alive)
<1> DEFINE now == SaysNo(object, s, h)
<1>1. /\ now \in CxxObjects /\ now.dom = object.dom /\ now.kind = object.kind
      /\ now.unresolved /\ now.phase = "over" /\ now.memory # "none"
      /\ now.memory = "used" <=> object.memory = "used"
  <2>1. PICK memory \in {"raw", "used"} :
          /\ memory = "used" <=> object.memory = "used"
          /\ now = [object EXCEPT !.memory = memory, !.phase = "over", !.schema = s,
                                 !.handler = h, !.unresolved = TRUE, !.swapped = FALSE]
    BY DEF SaysNo
  <2> QED
    BY <2>1 DEF CxxObjects
<1> HIDE DEF now
<1>2. /\ Deinit(c) \in CxxCParsers /\ Deinit(c).result = NoDocument
      /\ ~Deinit(c).live /\ Deinit(c).using = NoOne /\ ~Deinit(c).done
  BY DEF Deinit, CxxCParsers
<1>3. object.memory # "used" => Deinit(c) = NoCParser
  <2>1. c = NoCParser => c.live = FALSE /\ c.using = NoOne /\ c.done = FALSE
                         /\ c.result = NoDocument
    BY DEF NoCParser
  <2>2. c = NoCParser => Deinit(c) = c
    BY <2>1 DEF Deinit, CxxCParsers
  <2> QED
    BY <2>2 DEF CParserFits
<1>4. CParserFits(now, Deinit(c), alive)
  BY <1>1, <1>2, <1>3 DEF CParserFits
<1> QED
  BY <1>1, <1>2, <1>4 DEF now

(* A begin deinitialises the C parser, and says no or starts another one.  *)
LEMMA BeginKeeps ==
  ASSUME CxxIInv, NEW s \in Schemas, NEW h \in Handlers, NEW resolves \in BOOLEAN,
         CxxBegin(s, h, resolves)
  PROVE  CxxIInv'
<1> DEFINE resolved == cxx.old /\ s # AllSchema => resolves
<1>1. /\ cxx' = IF resolved THEN Reads(cxx, s, h) ELSE SaysNo(cxx, s, h)
      /\ cxxC' = IF resolved THEN Started("old", s) ELSE Deinit(cxxC)
      /\ cxx.kind # "none"
  BY DEF CxxBegin
<1>2. resolved \in BOOLEAN
  OBVIOUS
<1>3. /\ cxxSchemas' = cxxSchemas /\ cxxAlive' = cxxAlive /\ cxxCopies' = cxxCopies
      /\ cxxRefs' = Dropped(cxxRefs, cxxC.result) /\ cxxFault' = cxxFault
      /\ cxxCall' = Calls("begin", "none", resolved, {})
  BY DEF CxxBegin
<1>4. s \in CxxSchemas \cup {AllSchema} /\ h \in cxxAlive \cup {NoOne}
  BY DEF Schemas, Handlers, CxxIInv, CxxTypeOK
<1> DEFINE Good == /\ cxx' \in CxxObjects /\ cxx'.dom = cxx.dom
                   /\ cxxC' \in CxxCParsers /\ cxxC'.result = NoDocument
                   /\ CParserFits(cxx', cxxC', cxxAlive)
<1>a. /\ cxx \in CxxObjects /\ cxxC \in CxxCParsers /\ cxxAlive \subseteq CxxHandlers
      /\ CParserFits(cxx, cxxC, cxxAlive)
  BY DEF CxxIInv, CxxTypeOK, CParserOfObject
<1>b. ASSUME resolved PROVE Good
  <2>1. cxx' = Reads(cxx, s, h) /\ cxxC' = Started("old", s)
    BY <1>1, <1>b
  <2>2. cxx.kind # "dom" => cxx.dom = NoDocument
    BY <1>a DEF CParserFits
  <2> QED
    BY <1>a, <1>1, <1>4, <2>1, <2>2, ObjectStarted
<1>c. ASSUME ~resolved PROVE Good
  <2>1. cxx' = SaysNo(cxx, s, h) /\ cxxC' = Deinit(cxxC)
    BY <1>1, <1>c
  <2> QED
    BY <1>a, <1>1, <1>4, <2>1, ObjectLeft
<1>d. Good
  BY <1>b, <1>c
<1>e. cxxRefs' \in [CxxDocs -> Int]
  BY <1>3, DroppedResult
<1>5. CxxTypeOK'
  BY <1>3, <1>d, <1>e DEF CxxIInv, CxxTypeOK
<1>6. CParserOfObject'
  BY <1>3, <1>d DEF CParserOfObject
<1>7. DocumentsHeld'
  <2>1. \A d \in CxxDocs : Bit01(d = NoDocument) = 0
    BY CxxNamesAssumption DEF Bit01
  <2> QED
    BY <1>3, <1>d, <2>1, DroppedResult DEF DocumentsHeld, Calls, Bit01
<1>8. FaultsNamed' /\ FailuresTold'
  BY <1>3 DEF CxxIInv, CxxParserStands, FaultsNamed, FailuresTold, Calls
<1> QED
  BY <1>5, <1>6, <1>7, <1>8 DEF CxxIInv, CxxParserStands

(* The same for a reset; the handler stays, and C tells it nothing.        *)
LEMMA ResetKeeps ==
  ASSUME CxxIInv, NEW call, NEW s \in CxxSchemas \cup {AllSchema}, CxxReset(call, s)
  PROVE  CxxIInv'
<1>1. /\ cxx \in CxxObjects /\ cxxC \in CxxCParsers /\ cxxAlive \subseteq CxxHandlers
      /\ CParserFits(cxx, cxxC, cxxAlive) /\ cxx.handler \in CxxHandlers \cup {NoOne}
  BY DEF CxxIInv, CxxTypeOK, CParserOfObject, CxxObjects
<1>2. /\ cxx' = Reads(cxx, s, cxx.handler) /\ cxxC' = Started("new", s)
      /\ cxx.kind # "none"
      /\ cxx.kind # "dom" => cxx.dom = NoDocument
  BY <1>1 DEF CxxReset, CParserFits
<1>3. /\ cxx' \in CxxObjects /\ cxx'.dom = cxx.dom
      /\ cxxC' \in CxxCParsers /\ cxxC'.result = NoDocument
      /\ CParserFits(cxx', cxxC', cxxAlive)
  BY <1>1, <1>2, ObjectStarted
<1>4. /\ cxxSchemas' = cxxSchemas /\ cxxAlive' = cxxAlive /\ cxxCopies' = cxxCopies
      /\ cxxRefs' = Dropped(cxxRefs, cxxC.result) /\ cxxFault' = cxxFault
      /\ cxxCall' = Calls("reset", "none", TRUE, {})
  BY DEF CxxReset
<1>5. CxxTypeOK'
  BY <1>3, <1>4, DroppedResult DEF CxxIInv, CxxTypeOK
<1>6. CParserOfObject'
  BY <1>3, <1>4 DEF CParserOfObject
<1>7. DocumentsHeld'
  <2>1. \A d \in CxxDocs : Bit01(d = NoDocument) = 0
    BY CxxNamesAssumption DEF Bit01
  <2> QED
    BY <1>3, <1>4, <2>1, DroppedResult DEF DocumentsHeld, Calls, Bit01
<1>8. FaultsNamed' /\ FailuresTold'
  BY <1>4 DEF CxxIInv, CxxParserStands, FaultsNamed, FailuresTold, Calls
<1> QED
  BY <1>5, <1>6, <1>7, <1>8 DEF CxxIInv, CxxParserStands

(* The destructors leave the client its documents, schemas and handlers.   *)
LEMMA DestroyKeeps == CxxIInv /\ CxxDestroy => CxxIInv'
<1> SUFFICES ASSUME CxxIInv, CxxDestroy PROVE CxxIInv'
  OBVIOUS
<1>1. /\ cxx' = NoObject /\ cxxC' = NoCParser /\ cxxCall' = NoCall
      /\ cxxRefs' = Dropped(Dropped(cxxRefs, cxxC.result), cxx.dom)
      /\ cxxSchemas' = cxxSchemas /\ cxxAlive' = cxxAlive
      /\ cxxCopies' = cxxCopies /\ cxxFault' = cxxFault
  BY DEF CxxDestroy
<1>2. cxx.dom \in CxxDocs \cup {NoDocument}
  BY DEF CxxIInv, CxxTypeOK, CxxObjects
<1>3. /\ cxxRefs' \in [CxxDocs -> Int]
      /\ \A d \in CxxDocs : cxxRefs'[d] = Dropped(cxxRefs, cxxC.result)[d] - Bit01(d = cxx.dom)
  BY <1>1, <1>2, DroppedResult, References
<1>4. CxxTypeOK'
  <2>1. NoObject \in CxxObjects /\ NoCParser \in CxxCParsers
    BY DEF NoObject, NoCParser, CxxObjects, CxxCParsers
  <2> QED
    BY <1>1, <1>3, <2>1 DEF CxxIInv, CxxTypeOK
<1>5. CParserOfObject'
  BY <1>1 DEF CParserOfObject, CParserFits, NoObject, NoCParser
<1>6. DocumentsHeld'
  <2>1. \A d \in CxxDocs : cxxRefs'[d] = Bit01(d \in cxxCopies)
    BY <1>3, DroppedResult DEF Bit01
  <2>2. \A d \in CxxDocs : Bit01(d = NoDocument) = 0
    BY CxxNamesAssumption DEF Bit01
  <2> QED
    BY <1>1, <2>1, <2>2 DEF DocumentsHeld, NoObject, NoCParser, NoCall, Calls, Bit01
<1>7. FaultsNamed' /\ FailuresTold'
  BY <1>1 DEF CxxIInv, CxxParserStands, FaultsNamed, FailuresTold, NoCall, Calls
<1> QED
  BY <1>4, <1>5, <1>6, <1>7 DEF CxxIInv, CxxParserStands

(* JParser::parse changes what the object says of its C parser, so it says *)
(* that it has: swapped.                                                   *)
LEMMA SaxParseKeeps ==
  ASSUME CxxIInv, NEW s \in Schemas, NEW h \in Handlers, NEW resolves \in BOOLEAN,
         SaxParse(s, h, resolves)
  PROVE  CxxIInv'
<1>1. /\ cxx' = [cxx EXCEPT !.schema = s, !.handler = h, !.swapped = TRUE]
      /\ cxx.kind = "sax" /\ cxx.phase # "reading"
      /\ cxxC' = cxxC /\ cxxSchemas' = cxxSchemas /\ cxxAlive' = cxxAlive
      /\ cxxRefs' = cxxRefs /\ cxxCopies' = cxxCopies /\ cxxFault' = cxxFault
  BY DEF SaxParse
<1>2. cxxCall'.name = "parse" /\ cxxCall'.told = {}
  BY DEF SaxParse, Calls
<1>3. s \in CxxSchemas \cup {AllSchema} /\ h \in CxxHandlers \cup {NoOne}
  BY DEF Schemas, Handlers, CxxIInv, CxxTypeOK
<1>4. cxx' \in CxxObjects /\ cxx'.dom = cxx.dom /\ cxx'.kind = "sax"
  BY <1>1, <1>3 DEF CxxIInv, CxxTypeOK, CxxObjects
<1>5. CxxTypeOK'
  BY <1>1, <1>4 DEF CxxIInv, CxxTypeOK
<1>6. CParserOfObject'
  BY <1>1, <1>3 DEF CxxIInv, CxxTypeOK, CxxObjects, CxxCParsers, CParserOfObject, CParserFits
<1>7. DocumentsHeld'
  BY <1>1, <1>2, <1>4 DEF CxxIInv, CxxParserStands, DocumentsHeld
<1>8. FaultsNamed' /\ FailuresTold'
  BY <1>1, <1>2 DEF CxxIInv, CxxParserStands, FaultsNamed, FailuresTold
<1> QED
  BY <1>5, <1>6, <1>7, <1>8 DEF CxxIInv, CxxParserStands

(* What a piece of text does to the C parser and the document it makes.    *)
LEMMA FeedKeeps ==
  ASSUME CxxIInv, NEW call \in {"feed", "feed input", "end"}, CxxFeed(call)
  PROVE  CxxIInv'
<1>1. PICK outcome \in CxxOutcomes(call) :
        /\ cxx.phase = "reading"
        /\ TellFault(call, outcome) = "none"
        /\ \E using \in UsingAfter(outcome), open \in OpenAfter(outcome),
              d \in Results(outcome) :
             LET made == outcome = "done" /\ cxx.kind = "dom"
                 taken == call = "end" /\ ~Failed(outcome) /\ cxx.kind = "dom"
                 refs == IF made THEN Acquired(cxxRefs, d) ELSE cxxRefs
             IN /\ cxxC' = [cxxC EXCEPT !.using = using, !.open = open, !.result = d,
                                        !.done = @ \/ outcome = "done",
                                        !.error = @ \/ Failed(outcome)]
                /\ cxx' = [cxx EXCEPT !.phase = IF Failed(outcome) \/ call = "end"
                                                THEN "over" ELSE @,
                                      !.dom = IF taken THEN d ELSE @]
                /\ cxxRefs' = IF taken THEN Assigned(Acquired(refs, d), cxx.dom, d) ELSE refs
        /\ cxxCall' = Calls(call, outcome, ~Failed(outcome), Hears(ToldBy(call, outcome)))
        /\ cxxSchemas' = cxxSchemas /\ cxxAlive' = cxxAlive
        /\ cxxCopies' = cxxCopies /\ cxxFault' = cxxFault
  BY DEF CxxFeed
<1>2. PICK using \in UsingAfter(outcome), open \in OpenAfter(outcome), d \in Results(outcome) :
        LET made == outcome = "done" /\ cxx.kind = "dom"
            taken == call = "end" /\ ~Failed(outcome) /\ cxx.kind = "dom"
            refs == IF made THEN Acquired(cxxRefs, d) ELSE cxxRefs
        IN /\ cxxC' = [cxxC EXCEPT !.using = using, !.open = open, !.result = d,
                                   !.done = @ \/ outcome = "done",
                                   !.error = @ \/ Failed(outcome)]
           /\ cxx' = [cxx EXCEPT !.phase = IF Failed(outcome) \/ call = "end"
                                           THEN "over" ELSE @,
                                 !.dom = IF taken THEN d ELSE @]
           /\ cxxRefs' = IF taken THEN Assigned(Acquired(refs, d), cxx.dom, d) ELSE refs
  BY <1>1
<1> DEFINE made == outcome = "done" /\ cxx.kind = "dom"
           taken == call = "end" /\ ~Failed(outcome) /\ cxx.kind = "dom"
           refs == IF made THEN Acquired(cxxRefs, d) ELSE cxxRefs
<1>3. /\ cxx \in CxxObjects /\ cxxC \in CxxCParsers /\ CParserFits(cxx, cxxC, cxxAlive)
      /\ cxxRefs \in [CxxDocs -> Int]
      /\ \A e \in CxxDocs : cxxRefs[e]
           = Bit01(e = cxx.dom) + Bit01(e = cxxC.result) + Bit01(e \in cxxCopies)
  BY DEF CxxIInv, CxxTypeOK, CParserOfObject, CxxParserStands, DocumentsHeld
<1>4. /\ cxxC.result \in CxxDocs \cup {NoDocument} /\ cxx.dom \in CxxDocs \cup {NoDocument}
      /\ cxxC.using \in CxxSchemas \cup {AllSchema, NoOne}
      /\ cxxC.done \in BOOLEAN /\ cxxC.open \in BOOLEAN /\ cxxC.error \in BOOLEAN
      /\ cxx.kind \in {"none", "sax", "dom"}
  BY <1>3 DEF CxxObjects, CxxCParsers
<1>5. /\ using \in {cxxC.using, NoOne} /\ open \in BOOLEAN
      /\ outcome \in {"goes on", "done", "refused", "cancelled", "syntax"}
      /\ outcome = "done" => ~cxxC.done
      /\ call = "end" /\ outcome = "goes on" => cxxC.done
  BY <1>4 DEF UsingAfter, OpenAfter, CxxOutcomes, Refusals
<1>6. d \in CxxDocs \cup {NoDocument} /\ (made => d \in CxxDocs) /\ (~made => d = cxxC.result)
  BY <1>4 DEF Results, NewDocs
<1>7. Failed(outcome) \in BOOLEAN /\ (~Failed(outcome) <=> outcome \in {"goes on", "done"})
  BY DEF Failed
<1>8. /\ cxxC' \in CxxCParsers
      /\ cxxC'.api = cxxC.api /\ cxxC'.live = cxxC.live /\ cxxC'.using = using
      /\ cxxC'.result = d /\ (cxxC'.done <=> (cxxC.done \/ outcome = "done"))
  <2>1. PICK done \in BOOLEAN, error \in BOOLEAN :
          /\ done <=> (cxxC.done \/ outcome = "done")
          /\ cxxC' = [cxxC EXCEPT !.using = using, !.open = open, !.result = d,
                                  !.done = done, !.error = error]
    BY <1>2, <1>3, <1>4, <1>7
  <2> QED
    BY <1>3, <1>4, <1>5, <1>6, <2>1, ZenonT(60) DEF CxxCParsers
<1>9. /\ cxx' \in CxxObjects
      /\ cxx'.kind = cxx.kind /\ cxx'.memory = cxx.memory /\ cxx'.schema = cxx.schema
      /\ cxx'.handler = cxx.handler /\ cxx'.unresolved = cxx.unresolved
      /\ cxx'.swapped = cxx.swapped
      /\ cxx'.dom = IF taken THEN d ELSE cxx.dom
  <2>1. PICK phase \in {"reading", "over"}, dom \in CxxDocs \cup {NoDocument} :
          /\ dom = IF taken THEN d ELSE cxx.dom
          /\ cxx' = [cxx EXCEPT !.phase = phase, !.dom = dom]
    BY <1>1, <1>2, <1>4, <1>6
  <2> QED
    BY <1>3, <2>1 DEF CxxObjects
<1>10. taken => d \in CxxDocs
  BY <1>3, <1>4, <1>5, <1>6, <1>7 DEF CParserFits
<1>11. CParserFits(cxx', cxxC', cxxAlive)
  <2>1. cxxC.live /\ cxx.memory = "used" /\ cxx.kind # "none"
    <3>1. NoCParser.live = FALSE /\ NoObject.phase = "idle"
      BY DEF NoCParser, NoObject
    <3>2. cxxC.live /\ cxx.kind # "none"
      BY <1>1, <1>3, <3>1 DEF CParserFits
    <3> QED
      BY <1>3, <3>1, <3>2 DEF CParserFits
  <2>2. using # NoOne /\ ~cxx.swapped => using = cxx.schema
    BY <1>3, <1>5 DEF CParserFits
  <2>3. cxxC.api = "old" => cxx.handler \in cxxAlive \cup {NoOne}
    BY <1>1, <1>3 DEF CParserFits
  <2>4. d # NoDocument <=> (cxxC.done \/ outcome = "done") /\ cxx.kind = "dom"
    BY <1>3, <1>6, CxxNamesAssumption DEF CParserFits
  <2>5. cxx.kind # "dom" => cxx'.dom = NoDocument
    BY <1>3, <1>9 DEF CParserFits
  <2> QED
    BY <1>8, <1>9, <2>1, <2>2, <2>3, <2>4, <2>5 DEF CParserFits
<1>12. CountedBy(refs, cxx.dom, d, cxxCopies)
  <2>1. CASE made
    <3>1. cxxC.result = NoDocument
      BY <1>3, <1>5, <2>1 DEF CParserFits
    <3>2. CountedBy(cxxRefs, cxx.dom, NoDocument, cxxCopies)
      BY <1>3, <3>1 DEF CountedBy
    <3>3. refs = Acquired(cxxRefs, d)
      BY <2>1
    <3> HIDE DEF refs
    <3> QED
      BY <3>2, <3>3, DocumentMade
  <2>2. CASE ~made
    <3>1. refs = cxxRefs /\ d = cxxC.result
      BY <1>6, <2>2
    <3> QED
      BY <1>3, <3>1 DEF CountedBy
  <2> QED
    BY <2>1, <2>2
<1> HIDE DEF refs
<1>13. CountedBy(cxxRefs', cxx'.dom, d, cxxCopies)
  <2>1. CASE taken
    <3>1. cxxRefs' = Assigned(Acquired(refs, d), cxx.dom, d) /\ cxx'.dom = d
      BY <1>2, <1>9, <2>1 DEF refs
    <3> QED
      BY <1>12, <3>1, DocumentTaken
  <2>2. CASE ~taken
    <3>1. cxxRefs' = refs /\ cxx'.dom = cxx.dom
      BY <1>2, <1>9, <2>2 DEF refs
    <3> QED
      BY <1>12, <3>1
  <2> QED
    BY <2>1, <2>2
<1>14. CxxTypeOK' /\ CParserOfObject'
  BY <1>1, <1>8, <1>9, <1>11, <1>13 DEF CxxIInv, CxxTypeOK, CParserOfObject, CountedBy
<1>15. DocumentsHeld'
  <2>1. /\ cxxCall'.name = call /\ cxxCall'.answer = ~Failed(outcome)
    BY <1>1 DEF Calls
  <2>2. call = "end" /\ cxxCall'.answer /\ cxx'.kind = "dom"
        => cxx'.dom = cxxC'.result /\ cxx'.dom # NoDocument
    BY <1>7, <1>8, <1>9, <1>10, <2>1, CxxNamesAssumption
  <2> QED
    BY <1>1, <1>8, <1>13, <2>1, <2>2 DEF DocumentsHeld, CountedBy
<1>16. FaultsNamed'
  BY <1>1 DEF CxxIInv, CxxParserStands, FaultsNamed
<1>17. FailuresTold'
  <2> DEFINE told == Hears(ToldBy(call, outcome))
  <2>1. /\ cxxCall'.name = call /\ cxxCall'.answer = ~Failed(outcome)
        /\ cxxCall'.told = told /\ cxxCall'.outcome = outcome
    BY <1>1 DEF Calls
  <2>2. told # {} => Failed(outcome) /\ cxx.handler # NoOne
    BY DEF Hears, ToldBy, ToldByC
  <2>3. ASSUME cxx.handler # NoOne, Failed(outcome)
        PROVE  /\ call # "feed input" /\ cxx.kind = "dom" => "parseFailed" \in told
               /\ cxxC.api = "old" => /\ "misc" \in told
                                      /\ "schema" \in told <=> outcome = "refused"
               /\ cxxC.api = "new" => told \subseteq {"parseFailed"}
    BY <2>3 DEF Hears, ToldBy, ToldByC
  <2> HIDE DEF told
  <2> QED
    BY <1>7, <1>8, <1>9, <2>1, <2>2, <2>3 DEF FailuresTold
<1> QED
  BY <1>14, <1>15, <1>16, <1>17 DEF CxxIInv, CxxParserStands

(* parseFile: the document of the file, or none, becomes m_dom.            *)
LEMMA ParseFileKeeps ==
  ASSUME CxxIInv, NEW h \in Handlers, NEW outcome, ParseFile(h, outcome)
  PROVE  CxxIInv'
<1>1. PICK d \in CxxDocs \cup {NoDocument} :
        /\ cxx' = [cxx EXCEPT !.handler = h, !.dom = d]
        /\ cxxRefs' = Assigned(Acquired(cxxRefs, d), cxx.dom, d)
  BY DEF ParseFile, NewDocs
<1>2. /\ cxx.kind = "dom" /\ cxx.phase # "reading"
      /\ cxxC' = cxxC /\ cxxSchemas' = cxxSchemas /\ cxxAlive' = cxxAlive
      /\ cxxCopies' = cxxCopies /\ cxxFault' = cxxFault
  BY DEF ParseFile
<1>3. /\ cxxCall'.name = "parseFile"
      /\ cxxCall'.told # {} => ~cxxCall'.answer /\ h # NoOne
  BY DEF ParseFile, Calls, ToldByC, Failed
<1>4. h \in CxxHandlers \cup {NoOne}
  BY DEF Handlers, CxxIInv, CxxTypeOK
<1>5. cxx' \in CxxObjects /\ cxx'.dom = d /\ cxx'.kind = "dom" /\ cxx'.handler = h
  BY <1>1, <1>2, <1>4 DEF CxxIInv, CxxTypeOK, CxxObjects
<1>6. CountedBy(cxxRefs', d, cxxC.result, cxxCopies)
  <2>1. CountedBy(cxxRefs, cxx.dom, cxxC.result, cxxCopies)
    BY DEF CountedBy, CxxIInv, CxxTypeOK, CxxParserStands, DocumentsHeld
  <2> QED
    BY <1>1, <2>1, DocumentTaken
<1>7. CxxTypeOK'
  BY <1>2, <1>5, <1>6 DEF CxxIInv, CxxTypeOK, CountedBy
<1>8. CParserOfObject'
  <2>1. /\ cxx'.memory = cxx.memory /\ cxx'.phase = cxx.phase /\ cxx'.schema = cxx.schema
        /\ cxx'.unresolved = cxx.unresolved /\ cxx'.swapped = cxx.swapped
    BY <1>1 DEF CxxIInv, CxxTypeOK, CxxObjects
  <2>2. CParserFits(cxx, cxxC, cxxAlive)
    BY DEF CxxIInv, CParserOfObject
  <2> QED
    BY <1>2, <1>5, <2>1, <2>2 DEF CParserOfObject, CParserFits
<1>9. DocumentsHeld'
  BY <1>2, <1>3, <1>5, <1>6 DEF DocumentsHeld, CountedBy
<1>10. FaultsNamed' /\ FailuresTold'
  BY <1>2, <1>3, <1>5 DEF CxxIInv, CxxParserStands, FaultsNamed, FailuresTold
<1> QED
  BY <1>7, <1>8, <1>9, <1>10 DEF CxxIInv, CxxParserStands

(* Calls that leave the object, its parser and the last answer alone.      *)
LEMMA QuietKeeps ==
  ASSUME CxxIInv, CParserOfObject', DocumentsHeld',
         cxx' = cxx, cxxC' = cxxC, cxxCall' = cxxCall, cxxFault' = cxxFault,
         cxxRefs' \in [CxxDocs -> Int], cxxSchemas' \subseteq CxxSchemas,
         cxxAlive' \subseteq CxxHandlers, cxxCopies' \subseteq CxxDocs
  PROVE  CxxIInv'
<1>1. CxxTypeOK'
  BY DEF CxxIInv, CxxTypeOK
<1>2. FaultsNamed'
  BY DEF CxxIInv, CxxParserStands, FaultsNamed
<1>3. FailuresTold'
  <2>1. FailuresTold
    BY DEF CxxIInv, CxxParserStands
  <2> QED
    BY <2>1 DEF FailuresTold
<1> QED
  BY <1>1, <1>2, <1>3 DEF CxxIInv, CxxParserStands

(* A client's own references to a document.                                *)
LEMMA DomsKeep ==
  ASSUME CxxIInv, GetDom \/ (\E d \in CxxDocs : DropDom(d))
  PROVE  CxxIInv'
<1>1. /\ cxx' = cxx /\ cxxC' = cxxC /\ cxxSchemas' = cxxSchemas /\ cxxAlive' = cxxAlive
      /\ cxxCall' = cxxCall /\ cxxFault' = cxxFault
  BY DEF GetDom, DropDom
<1>2. CountedBy(cxxRefs, cxx.dom, cxxC.result, cxxCopies)
  BY DEF CountedBy, CxxIInv, CxxTypeOK, CxxParserStands, DocumentsHeld
<1>3. cxx.dom \in CxxDocs \cup {NoDocument} /\ cxxCopies \subseteq CxxDocs
  BY DEF CxxIInv, CxxTypeOK, CxxObjects
<1>4. cxxCopies' \subseteq CxxDocs /\ CountedBy(cxxRefs', cxx.dom, cxxC.result, cxxCopies')
  <2>1. CASE GetDom
    <3>1. /\ cxx.dom \in CxxDocs /\ cxx.dom \notin cxxCopies
          /\ cxxCopies' = cxxCopies \cup {cxx.dom} /\ cxxRefs' = Acquired(cxxRefs, cxx.dom)
      BY <1>3, <2>1 DEF GetDom
    <3> QED
      BY <1>2, <1>3, <3>1 DEF CountedBy, Acquired, Bit01
  <2>2. ASSUME NEW d \in CxxDocs, DropDom(d)
        PROVE  cxxCopies' \subseteq CxxDocs
               /\ CountedBy(cxxRefs', cxx.dom, cxxC.result, cxxCopies')
    <3>1. /\ d \in cxxCopies /\ cxxCopies' = cxxCopies \ {d} /\ cxxRefs' = Dropped(cxxRefs, d)
      BY <2>2 DEF DropDom
    <3> QED
      BY <1>2, <1>3, <3>1 DEF CountedBy, Dropped, Bit01
  <2> QED
    BY <2>1, <2>2
<1>5. cxxRefs' \in [CxxDocs -> Int]
  BY DEF GetDom, DropDom, Acquired, Dropped, Bit01, CxxIInv, CxxTypeOK
<1>6. CParserOfObject' /\ cxxSchemas' \subseteq CxxSchemas /\ cxxAlive' \subseteq CxxHandlers
  BY <1>1 DEF CxxIInv, CxxTypeOK, CParserOfObject
<1>7. DocumentsHeld'
  <2>1. cxxCall.name = "end" /\ cxxCall.answer /\ cxx.kind = "dom"
          => cxx.dom = cxxC.result /\ cxx.dom # NoDocument
    BY DEF CxxIInv, CxxParserStands, DocumentsHeld
  <2> QED
    BY <1>1, <1>4, <2>1 DEF DocumentsHeld, CountedBy
<1> QED
  BY <1>1, <1>4, <1>5, <1>6, <1>7, QuietKeeps

(* Schemas and handlers: no handler goes while its parse is read.          *)
LEMMA SchemasKeep ==
  ASSUME CxxIInv, NEW s \in CxxSchemas, HoldSchema(s) \/ DropSchema(s)
  PROVE  CxxIInv'
<1>1. /\ cxx' = cxx /\ cxxC' = cxxC /\ cxxAlive' = cxxAlive /\ cxxRefs' = cxxRefs
      /\ cxxCopies' = cxxCopies /\ cxxCall' = cxxCall /\ cxxFault' = cxxFault
  BY DEF HoldSchema, DropSchema
<1>2. cxxSchemas' \subseteq CxxSchemas
  BY DEF HoldSchema, DropSchema, CxxIInv, CxxTypeOK
<1>3. /\ CParserOfObject' /\ DocumentsHeld' /\ cxxRefs' \in [CxxDocs -> Int]
      /\ cxxAlive' \subseteq CxxHandlers /\ cxxCopies' \subseteq CxxDocs
  BY <1>1 DEF CxxIInv, CxxTypeOK, CParserOfObject, CxxParserStands, DocumentsHeld
<1> QED
  BY <1>1, <1>2, <1>3, QuietKeeps

LEMMA HandlersKeep ==
  ASSUME CxxIInv, NEW h \in CxxHandlers, MakeHandler(h) \/ DropHandler(h)
  PROVE  CxxIInv'
<1>1. /\ cxx' = cxx /\ cxxC' = cxxC /\ cxxSchemas' = cxxSchemas /\ cxxRefs' = cxxRefs
      /\ cxxCopies' = cxxCopies /\ cxxCall' = cxxCall /\ cxxFault' = cxxFault
  BY DEF MakeHandler, DropHandler
<1>2. cxxAlive' \subseteq CxxHandlers
  BY DEF MakeHandler, DropHandler, CxxIInv, CxxTypeOK
<1>3. CParserFits(cxx, cxxC, cxxAlive) /\ cxxC \in CxxCParsers
  BY DEF CxxIInv, CxxTypeOK, CParserOfObject
<1>4. cxx.phase = "reading" /\ cxxC.api = "old" => cxx.handler \in cxxAlive' \cup {NoOne}
  <2>1. cxx.phase = "reading" /\ cxxC.api = "old" => cxx.handler \in cxxAlive \cup {NoOne}
    BY <1>3 DEF CParserFits
  <2>2. CASE MakeHandler(h)
    BY <2>1, <2>2 DEF MakeHandler
  <2>3. CASE DropHandler(h)
    BY <2>1, <2>3 DEF DropHandler
  <2> QED
    BY <2>2, <2>3
<1>5. CParserOfObject'
  BY <1>1, <1>3, <1>4 DEF CParserOfObject, CParserFits
<1>6. /\ DocumentsHeld' /\ cxxRefs' \in [CxxDocs -> Int]
      /\ cxxSchemas' \subseteq CxxSchemas /\ cxxCopies' \subseteq CxxDocs
  BY <1>1 DEF CxxIInv, CxxTypeOK, CxxParserStands, DocumentsHeld
<1> QED
  BY <1>1, <1>2, <1>5, <1>6, QuietKeeps

(* One case for each call of the client.                                   *)
LEMMA CxxKeeps == CxxIInv /\ [CxxNext]_cxxVars => CxxIInv'
<1> SUFFICES ASSUME CxxIInv, [CxxNext]_cxxVars PROVE CxxIInv'
  OBVIOUS
<1>1. ASSUME NEW kind \in {"sax", "dom"}, NEW old \in BOOLEAN, NEW s \in Schemas,
             CxxCreate(kind, old, s)
      PROVE  CxxIInv'
  BY <1>1, CxxCreateKeeps
<1>2. ASSUME NEW s \in Schemas, NEW h \in Handlers, NEW resolves \in BOOLEAN,
             CxxBegin(s, h, resolves) \/ SaxParse(s, h, resolves)
      PROVE  CxxIInv'
  BY <1>2, BeginKeeps, SaxParseKeeps
<1>3. ASSUME CxxReset("reset", cxx.schema) \/ \E s \in Schemas : CxxReset("reset with schema", s)
      PROVE  CxxIInv'
  <2>1. cxx.schema \in CxxSchemas \cup {AllSchema} /\ Schemas \subseteq CxxSchemas \cup {AllSchema}
    BY DEF Schemas, CxxIInv, CxxTypeOK, CxxObjects
  <2> QED
    BY <1>3, <2>1, ResetKeeps
<1>4. ASSUME NEW call \in {"feed", "feed input", "end"}, CxxFeed(call) \/ CxxFeedFaults(call)
      PROVE  CxxIInv'
  BY <1>4, FeedKeeps, FeedFaultKeeps
<1>5. ASSUME NEW h \in Handlers, NEW outcome, ParseFile(h, outcome)
      PROVE  CxxIInv'
  BY <1>5, ParseFileKeeps
<1>6. CASE UNCHANGED cxxVars
  <2>1. /\ cxx' = cxx /\ cxxC' = cxxC /\ cxxAlive' = cxxAlive /\ cxxRefs' = cxxRefs
        /\ cxxSchemas' = cxxSchemas /\ cxxCopies' = cxxCopies /\ cxxCall' = cxxCall
        /\ cxxFault' = cxxFault
    BY <1>6 DEF cxxVars
  <2>2. /\ CParserOfObject' /\ DocumentsHeld' /\ cxxRefs' \in [CxxDocs -> Int]
        /\ cxxSchemas' \subseteq CxxSchemas /\ cxxAlive' \subseteq CxxHandlers
        /\ cxxCopies' \subseteq CxxDocs
    BY <2>1 DEF CxxIInv, CxxTypeOK, CParserOfObject, CxxParserStands, DocumentsHeld
  <2> QED
    BY <2>1, <2>2, QuietKeeps
<1> QED
  BY <1>1, <1>2, <1>3, <1>4, <1>5, <1>6, DestroyKeeps, CrashKeeps, SaxParseFaultKeeps, DomsKeep,
     SchemasKeep, HandlersKeep DEF CxxNext

(* The inductive invariant of the parsers of the C++ binding.              *)
THEOREM CxxInductive == CxxSpec => []CxxIInv
<1>1. InitCxx => CxxIInv
  BY CxxStarts
<1>2. CxxIInv /\ [CxxNext]_cxxVars => CxxIInv'
  BY CxxKeeps
<1> QED
  BY <1>1, <1>2, PTL DEF CxxSpec

(* Over any sequence of calls documents are counted, a fault is one of the *)
(* five that the code has, and the handler hears of the failures.          *)
THEOREM CxxStands == CxxSpec => []CxxParserStands
<1>1. CxxIInv => CxxParserStands
  BY DEF CxxIInv
<1> QED
  BY <1>1, CxxInductive, PTL

-----------------------------------------------------------------------------
(***************************************************************************)
(* Strings of a DOM stand as long as they live, for any number of threads, *)
(* chunks and strings of any length.                                       *)
(***************************************************************************)
Links == [Chunks -> Chunks \cup {Nil}]
Maybe == Chunks \cup {Nil}

-----------------------------------------------------------------------------
(* Lists                                                                   *)
-----------------------------------------------------------------------------
LEMMA ListIsLinked ==
  ASSUME NEW back \in Links, NEW c \in Maybe
  PROVE  /\ ListFrom(back, c) \in SUBSET Chunks
         /\ Linked(back, c, ListFrom(back, c))
<1>1. ListFrom(back, c) \in SUBSET Chunks
      BY DEF ListFrom
<1>2. ASSUME c # Nil PROVE c \in ListFrom(back, c)
      BY <1>2 DEF ListFrom, Linked, Maybe
<1>3. ASSUME NEW d \in ListFrom(back, c), back[d] # Nil PROVE back[d] \in ListFrom(back, c)
  <2>1. back[d] \in Chunks
        BY <1>1, <1>3 DEF Links
  <2> SUFFICES ASSUME NEW list \in SUBSET Chunks, Linked(back, c, list) PROVE back[d] \in list
      BY <2>1 DEF ListFrom
  <2>2. d \in list
        BY <1>3 DEF ListFrom
  <2> QED BY <1>3, <2>2 DEF Linked
<1> QED BY <1>1, <1>2, <1>3 DEF Linked

LEMMA ListIsLeast ==
  ASSUME NEW back, NEW c, NEW list \in SUBSET Chunks, Linked(back, c, list)
  PROVE  ListFrom(back, c) \subseteq list
  BY DEF ListFrom

LEMMA EmptyList ==
  ASSUME NEW back
  PROVE  ListFrom(back, Nil) = {}
<1>1. Linked(back, Nil, {})
      BY DEF Linked
<1> QED BY <1>1, ListIsLeast

(* What hangs behind a chunk of the list is part of it.                    *)
LEMMA RestOfList ==
  ASSUME NEW back \in Links, NEW c \in Maybe, NEW d \in ListFrom(back, c)
  PROVE  /\ ListFrom(back, d) \subseteq ListFrom(back, c)
         /\ ListFrom(back, back[d]) \subseteq ListFrom(back, c)
         /\ ListFrom(back, back[d]) \subseteq ListFrom(back, d)
<1>1. /\ d \in Chunks /\ back[d] \in Maybe
      /\ Linked(back, c, ListFrom(back, c)) /\ ListFrom(back, c) \in SUBSET Chunks
      BY ListIsLinked DEF Links, Maybe
<1>2. Linked(back, d, ListFrom(back, c)) /\ Linked(back, back[d], ListFrom(back, c))
      BY <1>1 DEF Linked
<1>3. d \in Maybe
      BY <1>1 DEF Maybe
<1>4. /\ Linked(back, d, ListFrom(back, d)) /\ ListFrom(back, d) \in SUBSET Chunks
      /\ d # Nil
      BY <1>1, <1>3, ListIsLinked, NilAssumption
<1>5. Linked(back, back[d], ListFrom(back, d))
      BY <1>4 DEF Linked
<1> QED BY <1>1, <1>2, <1>4, <1>5, ListIsLeast

(* A list stays what it is if its own links do.                            *)
LEMMA SameList ==
  ASSUME NEW back \in Links, NEW next \in Links, NEW c \in Maybe,
         \A d \in ListFrom(back, c) : next[d] = back[d]
  PROVE  ListFrom(next, c) = ListFrom(back, c)
<1>1. /\ ListFrom(back, c) \in SUBSET Chunks /\ Linked(back, c, ListFrom(back, c))
      /\ ListFrom(next, c) \in SUBSET Chunks /\ Linked(next, c, ListFrom(next, c))
      BY ListIsLinked
<1>2. Linked(next, c, ListFrom(back, c))
      BY <1>1 DEF Linked
<1>3. ListFrom(next, c) \subseteq ListFrom(back, c)
      BY <1>1, <1>2, ListIsLeast
<1>4. Linked(back, c, ListFrom(next, c))
      BY <1>1, <1>3 DEF Linked
<1> QED BY <1>1, <1>3, <1>4, ListIsLeast

(* A new tail.                                                             *)
LEMMA LongerList ==
  ASSUME NEW back \in Links, NEW c \in Chunks, NEW t \in Maybe,
         c \notin ListFrom(back, t)
  PROVE  /\ ListFrom([back EXCEPT ![c] = t], c) = {c} \cup ListFrom(back, t)
         /\ ListFrom([back EXCEPT ![c] = t], t) = ListFrom(back, t)
<1> DEFINE next == [back EXCEPT ![c] = t]
<1>1. /\ next \in Links /\ next[c] = t /\ c \in Maybe /\ c # Nil
      /\ \A d \in Chunks : d # c => next[d] = back[d]
      BY NilAssumption DEF Links, Maybe
<1> HIDE DEF next
<1>2. ListFrom(back, t) \in SUBSET Chunks /\ Linked(back, t, ListFrom(back, t))
      BY ListIsLinked
<1>3. ListFrom(next, t) = ListFrom(back, t)
      BY <1>1, <1>2, SameList
<1>4. Linked(next, c, {c} \cup ListFrom(back, t))
      BY <1>1, <1>2 DEF Linked
<1>5. ListFrom(next, c) \subseteq {c} \cup ListFrom(back, t)
      BY <1>2, <1>4, ListIsLeast
<1>6. c \in ListFrom(next, c)
      BY <1>1, ListIsLinked DEF Linked
<1>7. ListFrom(next, t) \subseteq ListFrom(next, c)
      BY <1>1, <1>6, RestOfList
<1>8. ListFrom(next, c) = {c} \cup ListFrom(back, t)
      BY <1>3, <1>5, <1>6, <1>7
<1> QED BY <1>3, <1>8 DEF next

(* No chunk of the list comes before itself.                               *)
NoCycle(back, c) == \A d \in ListFrom(back, c) : d \notin ListFrom(back, back[d])

Bypass(back, list, d) ==
  [c \in Chunks |-> IF c \in list /\ back[c] = d THEN back[d] ELSE back[c]]

(* A chunk is taken out: the list loses that chunk and no other.           *)
LEMMA ShorterList ==
  ASSUME NEW back \in Links, NEW t \in Maybe, NoCycle(back, t),
         NEW d \in ListFrom(back, t),
         NEW next, next = Bypass(back, ListFrom(back, t), d),
         NEW u, u = IF t = d THEN back[t] ELSE t
  PROVE  /\ next \in Links /\ u \in Maybe
         /\ ListFrom(next, u) = ListFrom(back, t) \ {d}
         /\ NoCycle(next, u)
<1> DEFINE list == ListFrom(back, t)
<1>1. /\ list \in SUBSET Chunks /\ Linked(back, t, list) /\ d \in list /\ d \in Chunks
      BY ListIsLinked
<1>2. /\ \A e \in list : e \notin ListFrom(back, back[e])
      /\ next = [c \in Chunks |-> IF c \in list /\ back[c] = d THEN back[d] ELSE back[c]]
      BY DEF NoCycle, Bypass
<1>3. \A e \in Chunks : back[e] \in Maybe
      BY DEF Links, Maybe
<1> HIDE DEF list
<1>4. /\ next \in Links
      /\ \A e \in Chunks : next[e] = IF e \in list /\ back[e] = d THEN back[d] ELSE back[e]
      /\ u \in Maybe
  <2>1. \A e \in Chunks : (IF e \in list /\ back[e] = d THEN back[d] ELSE back[e]) \in Maybe
        BY <1>1, <1>3
  <2>2. next \in Links
        BY <1>2, <2>1 DEF Links, Maybe
  <2>3. \A e \in Chunks : next[e] = IF e \in list /\ back[e] = d THEN back[d] ELSE back[e]
        BY <1>2
  <2>4. u \in Maybe
        BY <1>1, <1>3
  <2> QED BY <2>2, <2>3, <2>4
<1>5. back[d] # d
  <2>1. back[d] # Nil => back[d] \in ListFrom(back, back[d])
        BY <1>1, <1>3, ListIsLinked DEF Linked
  <2> QED BY <1>1, <1>2, <2>1, NilAssumption
<1>6. ListFrom(next, u) \subseteq list \ {d}
  <2>1. Linked(next, u, list \ {d})
    <3>1. u # Nil => u \in list \ {d}
          BY <1>1, <1>5 DEF Linked
    <3>2. ASSUME NEW e \in list \ {d}, next[e] # Nil PROVE next[e] \in list \ {d}
          BY <1>1, <1>4, <1>5, <3>2 DEF Linked
    <3> QED BY <3>1, <3>2 DEF Linked
  <2> QED BY <1>1, <2>1, ListIsLeast
<1>7. list \ {d} \subseteq ListFrom(next, u)
  <2> DEFINE rest == ListFrom(next, u)
  <2>1. rest \in SUBSET Chunks /\ Linked(next, u, rest)
        BY <1>4, ListIsLinked
  <2> HIDE DEF rest
  <2>2. \A e \in rest : e \in list /\ e # d
        BY <1>6 DEF rest
  <2>3. CASE t = d \/ \E e \in rest : back[e] = d
    <3>1. back[d] # Nil => back[d] \in rest
          BY <1>1, <1>4, <2>1, <2>2, <2>3 DEF Linked
    <3>2. t # Nil => t \in rest \cup {d}
          BY <2>1 DEF Linked
    <3>3. ASSUME NEW e \in rest \cup {d}, back[e] # Nil PROVE back[e] \in rest \cup {d}
          BY <1>1, <1>4, <2>1, <2>2, <3>1, <3>3 DEF Linked
    <3>4. Linked(back, t, rest \cup {d}) /\ rest \cup {d} \in SUBSET Chunks
          BY <1>1, <2>1, <3>2, <3>3 DEF Linked
    <3>5. list \subseteq rest \cup {d}
          BY <3>4, ListIsLeast DEF list
    <3> QED BY <3>5 DEF rest
  <2>4. CASE t # d /\ \A e \in rest : back[e] # d
    <3>1. \A e \in rest : next[e] = back[e]
          BY <1>4, <2>1, <2>4
    <3>2. Linked(back, t, rest)
          BY <2>1, <2>4, <3>1 DEF Linked
    <3>3. list \subseteq rest
          BY <2>1, <3>2, ListIsLeast DEF list
    <3> QED BY <3>3 DEF rest
  <2> QED BY <2>3, <2>4
<1>8. ASSUME NEW e \in ListFrom(next, u)
      PROVE  e \notin ListFrom(next, next[e])
  <2> DEFINE behind == ListFrom(back, back[e])
  <2>1. e \in list /\ e # d /\ e \in Chunks /\ e \notin behind
        BY <1>1, <1>2, <1>6
  <2>2. behind \in SUBSET Chunks /\ Linked(back, back[e], behind) /\ behind \subseteq list
        BY <1>3, <2>1, ListIsLinked, RestOfList DEF list
  <2> HIDE DEF behind
  <2>3. next[e] # Nil => next[e] \in behind \ {d}
        BY <1>1, <1>4, <1>5, <2>1, <2>2, NilAssumption DEF Linked
  <2>4. ASSUME NEW g \in behind \ {d}, next[g] # Nil PROVE next[g] \in behind \ {d}
        BY <1>1, <1>4, <1>5, <2>2, <2>4, NilAssumption DEF Linked
  <2>5. Linked(next, next[e], behind \ {d})
        BY <2>3, <2>4 DEF Linked
  <2>6. ListFrom(next, next[e]) \subseteq behind \ {d}
        BY <2>2, <2>5, ListIsLeast
  <2> QED BY <2>1, <2>6
<1> QED BY <1>4, <1>6, <1>7, <1>8 DEF NoCycle, list

-----------------------------------------------------------------------------
(* The invariant                                                           *)
-----------------------------------------------------------------------------
StrTypeOK ==
  /\ chunkAlive \in SUBSET Chunks
  /\ ref \in [Chunks -> Int]
  /\ cused \in [Chunks -> Nat] /\ csize \in [Chunks -> Nat]
  /\ cprev \in Links
  /\ tail \in [Parsers -> Maybe]
  /\ doing \in [Parsers -> {"nothing", "parsing", "unlinking", "freeing"}]
  /\ dying \in [Parsers -> Maybe]
  /\ live \in SUBSET Strings
  /\ inChunk \in [Strings -> Maybe]
  /\ offset \in [Strings -> Nat] /\ length \in [Strings -> Nat]
  /\ author \in [Strings -> Parsers \cup {Nil}]

Pool(p) == ListFrom(cprev, tail[p])

(* The pools are lists of chunks in use, none of them in two.              *)
ListInv ==
  \A p \in Parsers :
    /\ Pool(p) \subseteq chunkAlive
    /\ NoCycle(cprev, tail[p])
    /\ doing[p] \in {"nothing", "freeing"} => tail[p] = Nil
    /\ \A q \in Parsers : q # p => Pool(p) \cap Pool(q) = {}

(* A string is in the pool of the thread that parses its document, and in  *)
(* no pool once the document has been returned.                            *)
HomeInv ==
  \A s \in live :
    /\ inChunk[s] \in chunkAlive
    /\ author[s] # Nil => inChunk[s] \in Pool(author[s])
    /\ author[s] = Nil => \A p \in Parsers : inChunk[s] \notin Pool(p)

(* Strings take up the used part of their chunk.                           *)
PlaceInv ==
  /\ \A c \in chunkAlive : cused[c] <= csize[c]
  /\ \A s \in live :
       /\ offset[s] + length[s] <= cused[inChunk[s]]
       /\ \A t \in live : t # s => ~Overlap(s, t)

StringsOf(c) == {s \in live : inChunk[s] = c}

RefInv == \A c \in chunkAlive : ref[c] = Cardinality(StringsOf(c))

(* A chunk without strings belongs to the thread that has counted it down; *)
(* the chunk is in that thread's pool, or in none.                         *)
DyingInv ==
  /\ \A p \in Parsers :
       /\ dying[p] # Nil <=> doing[p] \in {"unlinking", "freeing"}
       /\ dying[p] # Nil => dying[p] \in chunkAlive /\ ref[dying[p]] = 0
       /\ doing[p] = "unlinking" => dying[p] \in Pool(p)
       /\ doing[p] = "freeing" => \A q \in Parsers : dying[p] \notin Pool(q)
       /\ \A q \in Parsers : q # p /\ dying[p] # Nil => dying[q] # dying[p]
  /\ \A c \in chunkAlive : ref[c] = 0 => \E p \in Parsers : dying[p] = c

StringInv == StrTypeOK /\ ListInv /\ HomeInv /\ PlaceInv /\ RefInv /\ DyingInv

-----------------------------------------------------------------------------
LEMMA StringInitHolds == InitStrings => StringInv
<1> SUFFICES ASSUME InitStrings PROVE StringInv
    OBVIOUS
<1>1. StrTypeOK
      BY DEF InitStrings, StrTypeOK, Links, Maybe
<1>2. \A p \in Parsers : tail[p] = Nil /\ Pool(p) = {} /\ dying[p] = Nil /\ doing[p] = "nothing"
      BY EmptyList DEF InitStrings, Pool
<1>3. ListInv
      BY <1>2 DEF ListInv, NoCycle, Pool
<1>4. HomeInv /\ PlaceInv /\ RefInv
      BY DEF InitStrings, HomeInv, PlaceInv, RefInv
<1>5. DyingInv
      BY <1>2 DEF InitStrings, DyingInv
<1> QED BY <1>1, <1>3, <1>4, <1>5 DEF StringInv

LEMMA FewStrings ==
  ASSUME StringInv, NEW c
  PROVE  /\ IsFiniteSet(StringsOf(c))
         /\ Cardinality(StringsOf(c)) \in Nat
         /\ Cardinality(StringsOf(c)) = 0 <=> StringsOf(c) = {}
<1>1. StringsOf(c) \subseteq Strings
      BY DEF StringInv, StrTypeOK, StringsOf
<1>2. IsFiniteSet(StringsOf(c))
      BY <1>1, StringsFinite, FS_Subset
<1> QED BY <1>2, FS_CardinalityType, FS_EmptySet

(* What is in the pool of a thread that parses is not about to be freed.   *)
LEMMA NotDying ==
  ASSUME StringInv, NEW p \in Parsers, doing[p] = "parsing", NEW c \in Pool(p),
         NEW q \in Parsers
  PROVE  dying[q] # c
<1>1. SUFFICES ASSUME dying[q] = c PROVE FALSE
      OBVIOUS
<1>2. c # Nil
      BY NilAssumption DEF StringInv, StrTypeOK, ListInv
<1>3. CASE doing[q] = "unlinking"
  <2>1. c \in Pool(q) /\ q # p
        BY <1>1, <1>3 DEF StringInv, DyingInv
  <2> QED BY <2>1 DEF StringInv, ListInv
<1>4. CASE doing[q] = "freeing"
      BY <1>1, <1>4 DEF StringInv, DyingInv
<1> QED BY <1>1, <1>2, <1>3, <1>4 DEF StringInv, DyingInv

LEMMA CreatePoolKeeps ==
  ASSUME StringInv, NEW p \in Parsers, CreatePool(p)
  PROVE  StringInv'
<1>1. doing[p] = "nothing" /\ tail[p] = Nil /\ dying[p] = Nil
      BY DEF CreatePool, StringInv, ListInv, DyingInv
<1>2. /\ tail' = tail /\ doing' = [doing EXCEPT ![p] = "parsing"]
      /\ UNCHANGED <<chunkAlive, ref, cused, csize, cprev, dying, live, inChunk,
                     offset, length, author>>
      BY <1>1 DEF CreatePool, StringInv, StrTypeOK
<1>3. \A q \in Parsers : /\ Pool(q)' = Pool(q)
                         /\ doing'[q] = IF q = p THEN "parsing" ELSE doing[q]
      BY <1>2 DEF Pool, StringInv, StrTypeOK
<1>4. StrTypeOK'
      BY <1>2 DEF StringInv, StrTypeOK
<1>5. ListInv'
      BY <1>1, <1>2, <1>3 DEF StringInv, ListInv
<1>6. HomeInv'
      BY <1>2, <1>3 DEF StringInv, HomeInv, StrTypeOK
<1>7. PlaceInv' /\ RefInv'
      BY <1>2 DEF StringInv, PlaceInv, RefInv, StringsOf, Overlap
<1>8. DyingInv'
      BY <1>1, <1>2, <1>3 DEF StringInv, DyingInv
<1> QED BY <1>4, <1>5, <1>6, <1>7, <1>8 DEF StringInv

(* A string is cut off a chunk c behind everything in it; "taken" is what  *)
(* was in use there.  The other strings and chunks keep.                   *)
CutAt(p, s, c, taken, n) ==
  /\ s \in Strings \ live /\ c \in Chunks /\ n \in Nat \ {0} /\ taken \in Nat
  /\ Cut(p, s, c, taken, n)
  /\ cused' = [cused EXCEPT ![c] = taken + n]
  /\ \A t \in live : inChunk[t] = c => offset[t] + length[t] <= taken
  /\ chunkAlive' = chunkAlive \cup {c}
  /\ taken + n <= csize'[c]
  /\ \A d \in chunkAlive \ {c} : csize'[d] = csize[d]
  /\ csize' \in [Chunks -> Nat]

CutDone(p, s, c) ==
  /\ PlaceInv'
  /\ StringsOf(c)' = StringsOf(c) \cup {s} /\ s \notin StringsOf(c)
  /\ \A d \in Chunks \ {c} : StringsOf(d)' = StringsOf(d)
  /\ live' \in SUBSET Strings /\ inChunk' \in [Strings -> Maybe]
  /\ offset' \in [Strings -> Nat] /\ length' \in [Strings -> Nat]
  /\ author' \in [Strings -> Parsers \cup {Nil}]
  /\ cused' \in [Chunks -> Nat]
  /\ inChunk'[s] = c /\ author'[s] = p
  /\ \A t \in live : inChunk'[t] = inChunk[t] /\ author'[t] = author[t]

LEMMA CutKeeps ==
  ASSUME StringInv, NEW p \in Parsers, NEW s, NEW c, NEW taken, NEW n,
         CutAt(p, s, c, taken, n)
  PROVE  CutDone(p, s, c)
<1>0. /\ s \in Strings \ live /\ c \in Chunks /\ n \in Nat \ {0} /\ taken \in Nat
      /\ Cut(p, s, c, taken, n)
      /\ cused' = [cused EXCEPT ![c] = taken + n]
      /\ \A t \in live : inChunk[t] = c => offset[t] + length[t] <= taken
      /\ chunkAlive' = chunkAlive \cup {c}
      /\ taken + n <= csize'[c]
      /\ \A d \in chunkAlive \ {c} : csize'[d] = csize[d]
      /\ csize' \in [Chunks -> Nat]
      BY DEF CutAt
<1>1. /\ live \in SUBSET Strings /\ inChunk \in [Strings -> Maybe]
      /\ offset \in [Strings -> Nat] /\ length \in [Strings -> Nat]
      /\ author \in [Strings -> Parsers \cup {Nil}]
      /\ cused \in [Chunks -> Nat] /\ csize \in [Chunks -> Nat] /\ chunkAlive \in SUBSET Chunks
      BY DEF StringInv, StrTypeOK
<1>2. /\ live' = live \cup {s}
      /\ inChunk' = [inChunk EXCEPT ![s] = c] /\ offset' = [offset EXCEPT ![s] = taken]
      /\ length' = [length EXCEPT ![s] = n] /\ author' = [author EXCEPT ![s] = p]
      BY <1>0 DEF Cut
<1>3. /\ live' \in SUBSET Strings /\ inChunk' \in [Strings -> Maybe]
      /\ offset' \in [Strings -> Nat] /\ length' \in [Strings -> Nat]
      /\ author' \in [Strings -> Parsers \cup {Nil}]
      /\ cused' \in [Chunks -> Nat]
      BY <1>0, <1>1, <1>2 DEF Maybe
<1>4. /\ inChunk'[s] = c /\ author'[s] = p /\ offset'[s] = taken /\ length'[s] = n
      /\ cused'[c] = taken + n
      BY <1>0, <1>1, <1>2
<1>5. \A t \in live : /\ inChunk'[t] = inChunk[t] /\ author'[t] = author[t]
                      /\ offset'[t] = offset[t] /\ length'[t] = length[t]
                      /\ offset[t] \in Nat /\ length[t] \in Nat
      BY <1>0, <1>1, <1>2
<1>6. \A d \in Chunks \ {c} : cused'[d] = cused[d]
      BY <1>0, <1>1
<1>7. /\ StringsOf(c)' = StringsOf(c) \cup {s} /\ s \notin StringsOf(c)
      /\ \A d \in Chunks \ {c} : StringsOf(d)' = StringsOf(d)
      BY <1>0, <1>1, <1>2, <1>4, <1>5 DEF StringsOf
<1>8. \A d \in chunkAlive' : cused'[d] <= csize'[d]
      BY <1>0, <1>1, <1>4, <1>6 DEF StringInv, PlaceInv
<1>9. ASSUME NEW t \in live PROVE offset'[t] + length'[t] <= cused'[inChunk'[t]]
  <2>1. inChunk[t] \in Chunks
        BY <1>1 DEF StringInv, HomeInv
  <2>2. CASE inChunk[t] = c
        BY <1>0, <1>4, <1>5, <2>2
  <2>3. CASE inChunk[t] # c
        BY <1>5, <1>6, <2>1, <2>3 DEF StringInv, PlaceInv
  <2> QED BY <2>2, <2>3
<1>10. ASSUME NEW t \in live PROVE ~Overlap(s, t)' /\ ~Overlap(t, s)'
  <2>1. CASE inChunk[t] = c
    <3>1. offset[t] + length[t] <= taken
          BY <1>0, <2>1
    <3> QED BY <1>0, <1>4, <1>5, <3>1 DEF Overlap
  <2>2. CASE inChunk[t] # c
        BY <1>0, <1>4, <1>5, <2>2 DEF Overlap
  <2> QED BY <2>1, <2>2
<1>11. ASSUME NEW t \in live, NEW u \in live, u # t PROVE ~Overlap(t, u)'
      BY <1>0, <1>5, <1>11 DEF StringInv, PlaceInv, Overlap
<1>12. offset'[s] + length'[s] <= cused'[inChunk'[s]]
      BY <1>0, <1>4
<1>13. PlaceInv'
  <2>1. ASSUME NEW t \in live'
        PROVE  /\ offset'[t] + length'[t] <= cused'[inChunk'[t]]
               /\ \A u \in live' : u # t => ~Overlap(t, u)'
        BY <1>2, <1>9, <1>10, <1>11, <1>12
  <2> QED BY <1>8, <2>1 DEF PlaceInv
<1> QED BY <1>3, <1>4, <1>5, <1>7, <1>13 DEF CutDone

LEMMA AllocInChunkKeeps ==
  ASSUME StringInv, NEW p \in Parsers, NEW s \in Strings, NEW n \in Lengths,
         AllocInChunk(p, s, n)
  PROVE  StringInv'
<1>1. PICK c \in Roomy(p, n) : /\ Cut(p, s, c, cused[c], n)
                               /\ cused' = [cused EXCEPT ![c] = @ + n]
                               /\ ref' = [ref EXCEPT ![c] = @ + 1]
      BY DEF AllocInChunk
<1>2. /\ doing[p] = "parsing" /\ s \notin live
      /\ UNCHANGED <<chunkAlive, csize, cprev, tail, doing, dying>>
      BY DEF AllocInChunk
<1>3. n \in Nat \ {0}
      BY SizesAssumption
<1>4. c \in Pool(p) /\ cused[c] + n <= csize[c]
      BY <1>1 DEF Roomy, HasRoom, ChunksFrom, Pool
<1>5. c \in chunkAlive /\ c \in Chunks /\ cused[c] \in Nat /\ ref[c] \in Int
      BY <1>4 DEF StringInv, StrTypeOK, ListInv
<1>6. \A q \in Parsers : Pool(q)' = Pool(q)
      BY <1>2 DEF Pool
<1>7. /\ PlaceInv'
      /\ StringsOf(c)' = StringsOf(c) \cup {s} /\ s \notin StringsOf(c)
      /\ \A d \in Chunks \ {c} : StringsOf(d)' = StringsOf(d)
      /\ live' \in SUBSET Strings /\ inChunk' \in [Strings -> Maybe]
      /\ offset' \in [Strings -> Nat] /\ length' \in [Strings -> Nat]
      /\ author' \in [Strings -> Parsers \cup {Nil}]
      /\ cused' \in [Chunks -> Nat]
      /\ inChunk'[s] = c /\ author'[s] = p
      /\ \A t \in live : inChunk'[t] = inChunk[t] /\ author'[t] = author[t]
  <2>1. \A t \in live : inChunk[t] = c => offset[t] + length[t] <= cused[c]
        BY DEF StringInv, PlaceInv
  <2>2. cused' = [cused EXCEPT ![c] = cused[c] + n]
        BY <1>1
  <2>3. chunkAlive' = chunkAlive \cup {c} /\ cused[c] + n <= csize'[c]
        BY <1>2, <1>4, <1>5
  <2>4. csize' \in [Chunks -> Nat] /\ \A d \in chunkAlive \ {c} : csize'[d] = csize[d]
        BY <1>2 DEF StringInv, StrTypeOK
  <2>5. s \in Strings \ live /\ Cut(p, s, c, cused[c], n)
        BY <1>1, <1>2
  <2>6. CutAt(p, s, c, cused[c], n)
        BY <1>3, <1>5, <2>1, <2>2, <2>3, <2>4, <2>5 DEF CutAt
  <2>7. CutDone(p, s, c)
        BY <2>6, CutKeeps
  <2> QED BY <2>7 DEF CutDone
<1>8. /\ ref' \in [Chunks -> Int] /\ ref'[c] = ref[c] + 1
      /\ \A d \in Chunks \ {c} : ref'[d] = ref[d]
      BY <1>1, <1>5 DEF StringInv, StrTypeOK
<1>9. StrTypeOK'
      BY <1>2, <1>7, <1>8 DEF StringInv, StrTypeOK
<1>10. ListInv'
      BY <1>2, <1>6 DEF StringInv, ListInv
<1>11. HomeInv'
  <2>1. live' = live \cup {s}
        BY <1>1 DEF Cut
  <2>2. p # Nil
        BY NilAssumption
  <2> QED BY <1>2, <1>4, <1>5, <1>6, <1>7, <2>1, <2>2 DEF StringInv, StrTypeOK, HomeInv
<1>12. RefInv'
  <2>1. Cardinality(StringsOf(c)') = Cardinality(StringsOf(c)) + 1
        BY <1>7, FewStrings, FS_AddElement, ZenonT(60)
  <2> QED BY <1>2, <1>5, <1>7, <1>8, <2>1 DEF StringInv, StrTypeOK, RefInv
<1>13. DyingInv'
  <2>1. ref[c] \in Nat /\ ref'[c] # 0
    <3>1. ref[c] = Cardinality(StringsOf(c))
          BY <1>5 DEF StringInv, RefInv
    <3> QED BY <1>8, <3>1, FewStrings
  <2>2. \A q \in Parsers : dying[q] # c
        BY <1>2, <1>4, NotDying
  <2>3. \A q \in Parsers : dying[q] # Nil => dying[q] \in Chunks /\ ref'[dying[q]] = ref[dying[q]]
        BY <1>8, <2>2 DEF StringInv, StrTypeOK, Maybe
  <2>4. \A d \in chunkAlive : ref'[d] = 0 => ref[d] = 0
        BY <1>8, <2>1 DEF StringInv, StrTypeOK
  <2> QED BY <1>2, <1>6, <2>3, <2>4 DEF StringInv, DyingInv
<1> QED BY <1>7, <1>9, <1>10, <1>11, <1>12, <1>13 DEF StringInv

LEMMA AllocInNewChunkKeeps ==
  ASSUME StringInv, NEW p \in Parsers, NEW s \in Strings, NEW n \in Lengths,
         AllocInNewChunk(p, s, n)
  PROVE  StringInv'
<1>1. PICK c \in Chunks \ chunkAlive :
        /\ chunkAlive' = chunkAlive \cup {c}
        /\ csize' = [csize EXCEPT ![c] = Largest(n, ChunkSize)]
        /\ cprev' = [cprev EXCEPT ![c] = tail[p]]
        /\ tail' = [tail EXCEPT ![p] = c]
        /\ Cut(p, s, c, 0, n)
        /\ cused' = [cused EXCEPT ![c] = n]
        /\ ref' = [ref EXCEPT ![c] = 1]
      BY DEF AllocInNewChunk
<1>2. doing[p] = "parsing" /\ s \notin live /\ UNCHANGED <<doing, dying>>
      BY DEF AllocInNewChunk
<1>3. n \in Nat \ {0} /\ ChunkSize \in Nat
      BY SizesAssumption
<1>4. /\ cprev \in Links /\ tail \in [Parsers -> Maybe] /\ tail[p] \in Maybe
      /\ \A q \in Parsers : tail[q] \in Maybe
      BY DEF StringInv, StrTypeOK
<1>5. /\ cprev' \in Links /\ cprev'[c] = tail[p]
      /\ \A d \in Chunks \ {c} : cprev'[d] = cprev[d]
      /\ tail' \in [Parsers -> Maybe] /\ tail'[p] = c
      /\ \A q \in Parsers \ {p} : tail'[q] = tail[q]
      BY <1>1, <1>4 DEF Links, Maybe
<1>6. \A q \in Parsers : Pool(q) \subseteq chunkAlive /\ c \notin Pool(q) /\ Pool(q) \subseteq Chunks
      BY DEF StringInv, StrTypeOK, ListInv
<1>7. Pool(p)' = {c} \cup Pool(p) /\ ListFrom(cprev', tail[p]) = Pool(p)
  <2>1. c \notin ListFrom(cprev, tail[p])
        BY <1>6 DEF Pool
  <2>2. /\ ListFrom([cprev EXCEPT ![c] = tail[p]], c) = {c} \cup ListFrom(cprev, tail[p])
        /\ ListFrom([cprev EXCEPT ![c] = tail[p]], tail[p]) = ListFrom(cprev, tail[p])
        BY <1>4, <2>1, LongerList
  <2> QED BY <1>1, <1>5, <2>2 DEF Pool
<1>8. \A q \in Parsers \ {p} : Pool(q)' = Pool(q) /\ ListFrom(cprev', tail[q]) = Pool(q)
  <2> SUFFICES ASSUME NEW q \in Parsers \ {p} PROVE ListFrom(cprev', tail[q]) = ListFrom(cprev, tail[q])
      BY <1>5 DEF Pool
  <2>1. \A d \in ListFrom(cprev, tail[q]) : cprev'[d] = cprev[d]
        BY <1>5, <1>6 DEF Pool
  <2> QED BY <1>4, <1>5, <2>1, SameList
<1>9. /\ PlaceInv'
      /\ StringsOf(c)' = StringsOf(c) \cup {s} /\ s \notin StringsOf(c)
      /\ \A d \in Chunks \ {c} : StringsOf(d)' = StringsOf(d)
      /\ live' \in SUBSET Strings /\ inChunk' \in [Strings -> Maybe]
      /\ offset' \in [Strings -> Nat] /\ length' \in [Strings -> Nat]
      /\ author' \in [Strings -> Parsers \cup {Nil}]
      /\ cused' \in [Chunks -> Nat]
      /\ inChunk'[s] = c /\ author'[s] = p
      /\ \A t \in live : inChunk'[t] = inChunk[t] /\ author'[t] = author[t]
  <2>1. \A t \in live : inChunk[t] = c => offset[t] + length[t] <= 0
        BY <1>1 DEF StringInv, HomeInv
  <2>2. cused' = [cused EXCEPT ![c] = 0 + n]
        BY <1>1, <1>3
  <2>3. Largest(n, ChunkSize) \in Nat /\ n <= Largest(n, ChunkSize)
        BY <1>3 DEF Largest
  <2>4. /\ csize' \in [Chunks -> Nat] /\ csize'[c] = Largest(n, ChunkSize)
        /\ \A d \in chunkAlive \ {c} : csize'[d] = csize[d]
        BY <1>1, <2>3 DEF StringInv, StrTypeOK
  <2>5. 0 + n <= csize'[c]
        BY <1>3, <2>3, <2>4
  <2>6. s \in Strings \ live /\ Cut(p, s, c, 0, n) /\ chunkAlive' = chunkAlive \cup {c}
        BY <1>1, <1>2
  <2>7. 0 \in Nat /\ c \in Chunks
        OBVIOUS
  <2>8. CutAt(p, s, c, 0, n)
        BY <1>3, <2>1, <2>2, <2>4, <2>5, <2>6, <2>7 DEF CutAt
  <2>9. CutDone(p, s, c)
        BY <2>8, CutKeeps
  <2> QED BY <2>9 DEF CutDone
<1>10. csize' \in [Chunks -> Nat]
      BY <1>1, <1>3 DEF StringInv, StrTypeOK, Largest
<1>11. /\ ref' \in [Chunks -> Int] /\ ref'[c] = 1
       /\ \A d \in Chunks \ {c} : ref'[d] = ref[d]
      BY <1>1 DEF StringInv, StrTypeOK
<1>12. StrTypeOK'
      BY <1>1, <1>2, <1>5, <1>9, <1>10, <1>11 DEF StringInv, StrTypeOK
<1>13. ListInv'
  <2>1. NoCycle(cprev', tail'[p])
    <3>1. SUFFICES ASSUME NEW d \in {c} \cup Pool(p) PROVE d \notin ListFrom(cprev', cprev'[d])
          BY <1>7 DEF NoCycle, Pool
    <3>2. CASE d = c
          BY <1>5, <1>6, <1>7, <3>2
    <3>3. CASE d \in Pool(p)
      <4>1. d \notin ListFrom(cprev, cprev[d]) /\ d \in Chunks /\ d # c /\ cprev[d] \in Maybe
            BY <1>4, <1>6, <3>3 DEF StringInv, ListInv, NoCycle, Pool, Links, Maybe
      <4>2. ListFrom(cprev, cprev[d]) \subseteq Pool(p)
            BY <1>4, <3>3, RestOfList DEF Pool
      <4>3. \A e \in ListFrom(cprev, cprev[d]) : cprev'[e] = cprev[e]
            BY <1>5, <1>6, <4>2
      <4>4. ListFrom(cprev', cprev[d]) = ListFrom(cprev, cprev[d])
            BY <1>4, <1>5, <4>1, <4>3, SameList
      <4> QED BY <1>5, <4>1, <4>4
    <3> QED BY <3>1, <3>2, <3>3
  <2>2. ASSUME NEW q \in Parsers \ {p} PROVE NoCycle(cprev', tail'[q])
    <3>1. SUFFICES ASSUME NEW d \in Pool(q) PROVE d \notin ListFrom(cprev', cprev'[d])
          BY <1>5, <1>8 DEF NoCycle
    <3>2. d \notin ListFrom(cprev, cprev[d]) /\ d \in Chunks /\ d # c /\ cprev[d] \in Maybe
          BY <1>4, <1>6, <3>1 DEF StringInv, ListInv, NoCycle, Pool, Links, Maybe
    <3>3. ListFrom(cprev, cprev[d]) \subseteq Pool(q)
          BY <1>4, <3>1, RestOfList DEF Pool
    <3>4. \A e \in ListFrom(cprev, cprev[d]) : cprev'[e] = cprev[e]
          BY <1>5, <1>6, <3>3
    <3>5. ListFrom(cprev', cprev[d]) = ListFrom(cprev, cprev[d])
          BY <1>4, <1>5, <3>2, <3>4, SameList
    <3> QED BY <1>5, <3>2, <3>5
  <2>3. \A q \in Parsers : Pool(q)' \subseteq chunkAlive'
        BY <1>1, <1>6, <1>7, <1>8
  <2>4. \A q \in Parsers : doing'[q] \in {"nothing", "freeing"} => tail'[q] = Nil
        BY <1>2, <1>5 DEF StringInv, ListInv
  <2>5. \A q, r \in Parsers : r # q => Pool(q)' \cap Pool(r)' = {}
        BY <1>6, <1>7, <1>8 DEF StringInv, ListInv
  <2> QED BY <2>1, <2>2, <2>3, <2>4, <2>5 DEF ListInv
<1>14. HomeInv'
  <2>1. live' = live \cup {s}
        BY <1>1 DEF Cut
  <2>2. p # Nil
        BY NilAssumption
  <2>3. \A t \in live : inChunk[t] # c /\ author[t] \in Parsers \cup {Nil}
        BY <1>1 DEF StringInv, HomeInv, StrTypeOK
  <2>4. \A q \in Parsers : \A d \in Chunks \ {c} : d \in Pool(q)' <=> d \in Pool(q)
        BY <1>7, <1>8
  <2>5. \A t \in live : inChunk[t] \in Chunks
        BY DEF StringInv, HomeInv, StrTypeOK
  <2> QED BY <1>1, <1>7, <1>9, <2>1, <2>2, <2>3, <2>4, <2>5 DEF StringInv, HomeInv
<1>15. RefInv'
  <2>1. StringsOf(c) = {}
        BY <1>1 DEF StringInv, HomeInv, StringsOf
  <2>2. StringsOf(c)' = {s}
        BY <1>9, <2>1
  <2>3. Cardinality(StringsOf(c)') = 1
        BY <2>2, FS_Singleton
  <2>4. ASSUME NEW d \in chunkAlive PROVE ref'[d] = Cardinality(StringsOf(d)')
    <3>1. d \in Chunks \ {c}
          BY DEF StringInv, StrTypeOK
    <3> QED BY <1>9, <1>11, <3>1 DEF StringInv, RefInv
  <2> QED BY <1>1, <1>11, <2>3, <2>4 DEF RefInv
<1>16. DyingInv'
  <2>1. \A q \in Parsers : dying[q] # c
        BY <1>1, NilAssumption DEF StringInv, DyingInv
  <2>2. \A q \in Parsers : dying[q] # Nil => dying[q] \in Chunks \ {c} /\ ref'[dying[q]] = ref[dying[q]]
        BY <1>11, <2>1 DEF StringInv, StrTypeOK, Maybe
  <2>3. \A q, r \in Parsers : dying[r] # Nil => (dying[r] \in Pool(q)' <=> dying[r] \in Pool(q))
        BY <1>7, <1>8, <2>2
  <2>4. \A d \in chunkAlive' : ref'[d] = 0 => d \in chunkAlive /\ ref[d] = 0
        BY <1>1, <1>11 DEF StringInv, StrTypeOK
  <2> QED BY <1>1, <1>2, <2>2, <2>3, <2>4 DEF StringInv, DyingInv
<1> QED BY <1>9, <1>12, <1>13, <1>14, <1>15, <1>16 DEF StringInv

-----------------------------------------------------------------------------
(* A string goes; its chunk is in no list, or in the one of the thread.    *)
LEMMA MarkAsFreeKeeps ==
  ASSUME StringInv, NEW p \in Parsers, NEW s \in Strings, MarkAsFree(p, s)
  PROVE  StringInv'
<1>0. PICK c : c = inChunk[s]
      OBVIOUS
<1>1. /\ s \in live /\ live' = live \ {s}
      /\ ref' = [ref EXCEPT ![c] = @ - 1]
      /\ \/ doing[p] = "parsing" /\ author[s] = p
         \/ doing[p] = "nothing" /\ author[s] = Nil
      /\ UNCHANGED <<chunkAlive, cused, csize, cprev, tail>>
      /\ inChunk' = [inChunk EXCEPT ![s] = Nil] /\ offset' = [offset EXCEPT ![s] = 0]
      /\ length' = [length EXCEPT ![s] = 0] /\ author' = [author EXCEPT ![s] = Nil]
      BY <1>0 DEF MarkAsFree, MayRelease, ForgetString
<1>2. /\ ref[c] = 1 =>
           /\ dying' = [dying EXCEPT ![p] = c]
           /\ doing' = [doing EXCEPT ![p] = IF @ = "parsing" THEN "unlinking" ELSE "freeing"]
      /\ ref[c] # 1 => dying' = dying /\ doing' = doing
      BY <1>0 DEF MarkAsFree
<1>3. c \in chunkAlive /\ c \in Chunks /\ c # Nil
      BY <1>0, <1>1, NilAssumption DEF StringInv, StrTypeOK, HomeInv
<1>4. /\ ref' \in [Chunks -> Int] /\ ref'[c] = ref[c] - 1 /\ ref[c] \in Int
      /\ \A d \in Chunks \ {c} : ref'[d] = ref[d]
      BY <1>1, <1>3 DEF StringInv, StrTypeOK
<1>5. \A t \in live' : /\ t \in live /\ t # s /\ inChunk'[t] = inChunk[t]
                       /\ offset'[t] = offset[t] /\ length'[t] = length[t]
                       /\ author'[t] = author[t]
      BY <1>1 DEF StringInv, StrTypeOK
<1>6. /\ StringsOf(c)' = StringsOf(c) \ {s} /\ s \in StringsOf(c)
      /\ \A d \in Chunks \ {c} : StringsOf(d)' = StringsOf(d)
      BY <1>0, <1>1, <1>5 DEF StringsOf
<1>7. /\ ref[c] = Cardinality(StringsOf(c))
      /\ Cardinality(StringsOf(c)') = Cardinality(StringsOf(c)) - 1
      /\ Cardinality(StringsOf(c)) \in Nat /\ Cardinality(StringsOf(c)) # 0
      BY <1>3, <1>6, FewStrings, FS_RemoveElement, ZenonT(60) DEF StringInv, RefInv
<1>8. dying[p] = Nil /\ \A q \in Parsers : dying[q] # c
      BY <1>1, <1>3, <1>7 DEF StringInv, DyingInv
<1>9. \A q \in Parsers : Pool(q)' = Pool(q)
      BY <1>1 DEF Pool
<1>10. /\ dying' \in [Parsers -> Maybe]
       /\ doing' \in [Parsers -> {"nothing", "parsing", "unlinking", "freeing"}]
       /\ \A q \in Parsers \ {p} : dying'[q] = dying[q] /\ doing'[q] = doing[q]
       /\ ref[c] = 1 => /\ dying'[p] = c
                        /\ doing'[p] = IF doing[p] = "parsing" THEN "unlinking" ELSE "freeing"
  <2>1. /\ dying \in [Parsers -> Maybe] /\ c \in Maybe
        /\ doing \in [Parsers -> {"nothing", "parsing", "unlinking", "freeing"}]
        BY <1>3 DEF StringInv, StrTypeOK, Maybe
  <2>2. CASE ref[c] = 1
        BY <1>2, <2>1, <2>2
  <2>3. CASE ref[c] # 1
        BY <1>2, <2>1, <2>3
  <2> QED BY <2>2, <2>3
<1>11. StrTypeOK'
      BY <1>1, <1>4, <1>10 DEF StringInv, StrTypeOK, Maybe
<1>12. ListInv'
  <2>1. ASSUME NEW q \in Parsers, doing'[q] \in {"nothing", "freeing"} PROVE tail[q] = Nil
    <3>1. CASE q = p /\ ref[c] = 1
          BY <1>1, <1>10, <2>1, <3>1 DEF StringInv, ListInv
    <3>2. CASE q # p \/ ref[c] # 1
          BY <1>2, <1>10, <2>1, <3>2 DEF StringInv, ListInv
    <3> QED BY <3>1, <3>2
  <2> QED BY <1>1, <1>9, <2>1 DEF StringInv, ListInv
<1>13. HomeInv'
      BY <1>1, <1>5, <1>9 DEF StringInv, StrTypeOK, HomeInv
<1>14. PlaceInv'
      BY <1>1, <1>5 DEF StringInv, PlaceInv, Overlap
<1>15. RefInv'
  <2>1. ASSUME NEW d \in chunkAlive PROVE ref'[d] = Cardinality(StringsOf(d)')
    <3>1. d \in Chunks /\ ref[d] = Cardinality(StringsOf(d))
          BY DEF StringInv, StrTypeOK, RefInv
    <3> QED BY <1>4, <1>6, <1>7, <3>1
  <2> QED BY <1>1, <2>1 DEF RefInv
<1>16. DyingInv'
  <2>1. \A q \in Parsers : dying[q] # Nil => dying[q] \in Chunks \ {c} /\ ref'[dying[q]] = ref[dying[q]]
        BY <1>4, <1>8 DEF StringInv, StrTypeOK, Maybe
  <2>2. \A d \in chunkAlive : d # c => ref'[d] = ref[d]
        BY <1>4 DEF StringInv, StrTypeOK
  <2>3. CASE ref[c] = 1
    <3>1. /\ dying'[p] = c /\ ref'[c] = 0
          /\ doing'[p] = IF doing[p] = "parsing" THEN "unlinking" ELSE "freeing"
          BY <1>4, <1>10, <2>3
    <3>2. doing'[p] = "unlinking" => c \in Pool(p)
          BY <1>0, <1>1, <3>1, NilAssumption DEF StringInv, HomeInv
    <3>3. doing'[p] = "freeing" => \A q \in Parsers : c \notin Pool(q)
          BY <1>0, <1>1, <3>1, NilAssumption DEF StringInv, HomeInv
    <3>4. ASSUME NEW q \in Parsers
          PROVE  /\ dying'[q] # Nil <=> doing'[q] \in {"unlinking", "freeing"}
                 /\ dying'[q] # Nil => dying'[q] \in chunkAlive /\ ref'[dying'[q]] = 0
                 /\ doing'[q] = "unlinking" => dying'[q] \in Pool(q)
                 /\ doing'[q] = "freeing" => \A r \in Parsers : dying'[q] \notin Pool(r)
                 /\ \A r \in Parsers : r # q /\ dying'[q] # Nil => dying'[r] # dying'[q]
      <4>1. CASE q = p
            BY <1>3, <1>8, <1>10, <3>1, <3>2, <3>3, <4>1
      <4>2. CASE q # p
            BY <1>8, <1>10, <2>1, <3>1, <4>2 DEF StringInv, DyingInv
      <4> QED BY <4>1, <4>2
    <3>5. ASSUME NEW d \in chunkAlive, ref'[d] = 0 PROVE \E q \in Parsers : dying'[q] = d
      <4>1. CASE d = c
            BY <3>1, <4>1
      <4>2. CASE d # c
        <5>1. PICK q \in Parsers : dying[q] = d
              BY <2>2, <3>5, <4>2 DEF StringInv, DyingInv
        <5>2. q # p
              BY <1>8, <5>1, NilAssumption DEF StringInv, StrTypeOK
        <5> QED BY <1>10, <5>1, <5>2
      <4> QED BY <4>1, <4>2
    <3> QED BY <1>1, <1>9, <3>4, <3>5 DEF DyingInv
  <2>4. CASE ref[c] # 1
    <3>1. dying' = dying /\ doing' = doing /\ ref'[c] # 0
          BY <1>2, <1>4, <2>4
    <3> QED BY <1>1, <1>9, <2>1, <2>2, <3>1 DEF StringInv, DyingInv
  <2> QED BY <2>3, <2>4
<1> QED BY <1>11, <1>12, <1>13, <1>14, <1>15, <1>16 DEF StringInv

(* A chunk goes that no string and no list needs any more.                 *)
LEMMA GoneKeeps ==
  ASSUME StringInv, NEW p \in Parsers, NEW d \in chunkAlive, dying[p] = d, d \in Chunks,
         chunkAlive' = chunkAlive \ {d},
         dying' = [dying EXCEPT ![p] = Nil],
         doing' \in [Parsers -> {"nothing", "parsing", "unlinking", "freeing"}],
         doing'[p] \in {"nothing", "parsing"},
         \A q \in Parsers \ {p} : doing'[q] = doing[q],
         ForgetChunk(d),
         UNCHANGED <<ref, live, inChunk, offset, length, author>>,
         \A q \in Parsers : Pool(q)' = Pool(q) \ {d},
         tail' \in [Parsers -> Maybe], cprev' \in Links
  PROVE  StrTypeOK' /\ HomeInv' /\ PlaceInv' /\ RefInv' /\ DyingInv'
<1>1. /\ dying \in [Parsers -> Maybe] /\ dying[p] # Nil /\ ref[d] = 0
      BY NilAssumption DEF StringInv, StrTypeOK, DyingInv
<1>2. \A q \in Parsers : dying'[q] = IF q = p THEN Nil ELSE dying[q]
      BY <1>1
<1>3. \A s \in live : inChunk[s] \in chunkAlive \ {d}
  <2>1. StringsOf(d) = {}
        BY <1>1, FewStrings DEF StringInv, RefInv
  <2> QED BY <2>1 DEF StringInv, HomeInv, StringsOf
<1>4. /\ cused' \in [Chunks -> Nat] /\ csize' \in [Chunks -> Nat]
      /\ \A c \in Chunks \ {d} : cused'[c] = cused[c] /\ csize'[c] = csize[c]
      BY DEF ForgetChunk, StringInv, StrTypeOK
<1>5. StrTypeOK'
      BY <1>1, <1>4 DEF StringInv, StrTypeOK, Maybe
<1>6. HomeInv'
      BY <1>3 DEF StringInv, HomeInv, StrTypeOK
<1>7. PlaceInv'
  <2>1. \A c \in chunkAlive' : c \in chunkAlive /\ cused'[c] = cused[c] /\ csize'[c] = csize[c]
        BY <1>4 DEF StringInv, StrTypeOK
  <2>2. \A s \in live : cused'[inChunk[s]] = cused[inChunk[s]]
        BY <1>3, <2>1
  <2> QED BY <2>1, <2>2 DEF StringInv, PlaceInv, Overlap
<1>8. RefInv'
      BY DEF StringInv, RefInv, StringsOf
<1>9. DyingInv'
  <2>1. ASSUME NEW q \in Parsers
        PROVE  /\ dying'[q] # Nil <=> doing'[q] \in {"unlinking", "freeing"}
               /\ dying'[q] # Nil => dying'[q] \in chunkAlive' /\ ref[dying'[q]] = 0
               /\ doing'[q] = "unlinking" => dying'[q] \in Pool(q)'
               /\ doing'[q] = "freeing" => \A r \in Parsers : dying'[q] \notin Pool(r)'
               /\ \A r \in Parsers : r # q /\ dying'[q] # Nil => dying'[r] # dying'[q]
    <3>1. CASE q = p
          BY <1>2, <3>1
    <3>2. CASE q # p
      <4>1. dying[q] # d /\ dying'[q] = dying[q] /\ doing'[q] = doing[q]
            BY <1>1, <1>2, <3>2 DEF StringInv, DyingInv
      <4> QED BY <1>2, <3>2, <4>1 DEF StringInv, DyingInv
    <3> QED BY <3>1, <3>2
  <2>2. ASSUME NEW c \in chunkAlive', ref[c] = 0 PROVE \E q \in Parsers : dying'[q] = c
    <3>1. PICK q \in Parsers : dying[q] = c
          BY <2>2 DEF StringInv, DyingInv
    <3>2. q # p
          BY <3>1
    <3> QED BY <1>2, <3>1, <3>2
  <2> QED BY <2>1, <2>2 DEF DyingInv
<1> QED BY <1>5, <1>6, <1>7, <1>8, <1>9

LEMMA FreeChunkKeeps ==
  ASSUME StringInv, NEW p \in Parsers, FreeChunk(p)
  PROVE  StringInv'
<1> DEFINE d == dying[p]
<1>1. /\ doing[p] = "freeing"
      /\ chunkAlive' = chunkAlive \ {d}
      /\ doing' = [doing EXCEPT ![p] = "nothing"]
      /\ dying' = [dying EXCEPT ![p] = Nil]
      /\ ForgetChunk(d)
      /\ UNCHANGED <<ref, cprev, tail, live, inChunk, offset, length, author>>
      BY DEF FreeChunk
<1>2. /\ d \in chunkAlive /\ d \in Chunks /\ \A q \in Parsers : d \notin Pool(q)
      BY <1>1 DEF StringInv, StrTypeOK, DyingInv
<1>3. \A q \in Parsers : Pool(q)' = Pool(q) /\ Pool(q)' = Pool(q) \ {d}
      BY <1>1, <1>2 DEF Pool
<1>4. /\ doing' \in [Parsers -> {"nothing", "parsing", "unlinking", "freeing"}]
      /\ doing'[p] = "nothing" /\ \A q \in Parsers \ {p} : doing'[q] = doing[q]
      BY <1>1 DEF StringInv, StrTypeOK
<1>5. tail' \in [Parsers -> Maybe] /\ cprev' \in Links
      BY <1>1 DEF StringInv, StrTypeOK
<1>6. StrTypeOK' /\ HomeInv' /\ PlaceInv' /\ RefInv' /\ DyingInv'
      BY <1>1, <1>2, <1>3, <1>4, <1>5, GoneKeeps
<1>7. ListInv'
      BY <1>1, <1>2, <1>3, <1>4 DEF StringInv, ListInv
<1> QED BY <1>6, <1>7 DEF StringInv

(* The loop of a list that keeps its links is the one it was.              *)
LEMMA SameCycle ==
  ASSUME NEW back \in Links, NEW next \in Links, NEW t \in Maybe, NoCycle(back, t),
         \A d \in ListFrom(back, t) : next[d] = back[d]
  PROVE  NoCycle(next, t)
<1>1. ListFrom(next, t) = ListFrom(back, t) /\ ListFrom(back, t) \in SUBSET Chunks
      BY SameList, ListIsLinked
<1>2. SUFFICES ASSUME NEW d \in ListFrom(back, t) PROVE d \notin ListFrom(next, next[d])
      BY <1>1 DEF NoCycle
<1>3. back[d] \in Maybe /\ next[d] = back[d] /\ ListFrom(back, back[d]) \subseteq ListFrom(back, t)
      BY <1>1, RestOfList DEF Links, Maybe
<1>4. ListFrom(next, back[d]) = ListFrom(back, back[d])
      BY <1>3, SameList
<1> QED BY <1>3, <1>4 DEF NoCycle

LEMMA UnlinkAndFreeKeeps ==
  ASSUME StringInv, NEW p \in Parsers, UnlinkAndFree(p)
  PROVE  StringInv'
<1> DEFINE d == dying[p]
<1>1. /\ doing[p] = "unlinking"
      /\ cprev' = Bypass(cprev, Pool(p), d)
      /\ tail' = [tail EXCEPT ![p] = IF tail[p] = d THEN cprev[tail[p]] ELSE tail[p]]
      /\ chunkAlive' = chunkAlive \ {d}
      /\ doing' = [doing EXCEPT ![p] = "parsing"]
      /\ dying' = [dying EXCEPT ![p] = Nil]
      /\ ForgetChunk(d)
      /\ UNCHANGED <<ref, live, inChunk, offset, length, author>>
      BY DEF UnlinkAndFree, Unlink, ChunksFrom, Pool, Bypass
<1>2. /\ cprev \in Links /\ tail \in [Parsers -> Maybe]
      /\ \A q \in Parsers : tail[q] \in Maybe
      BY DEF StringInv, StrTypeOK
<1>3. d \in chunkAlive /\ d \in Chunks /\ d \in Pool(p) /\ NoCycle(cprev, tail[p])
      BY <1>1 DEF StringInv, StrTypeOK, ListInv, DyingInv
<1> HIDE DEF d
<1> DEFINE u == IF tail[p] = d THEN cprev[tail[p]] ELSE tail[p]
<1>4. /\ cprev' \in Links /\ u \in Maybe
      /\ ListFrom(cprev', u) = Pool(p) \ {d} /\ NoCycle(cprev', u)
      BY <1>1, <1>2, <1>3, ShorterList DEF Pool
<1>5. /\ tail' \in [Parsers -> Maybe] /\ tail'[p] = u
      /\ \A q \in Parsers \ {p} : tail'[q] = tail[q]
      BY <1>1, <1>2, <1>4
<1> HIDE DEF u
<1>6. Pool(p)' = Pool(p) \ {d} /\ NoCycle(cprev', tail'[p])
      BY <1>4, <1>5 DEF Pool
<1>7. ASSUME NEW q \in Parsers \ {p}
      PROVE  Pool(q)' = Pool(q) \ {d} /\ NoCycle(cprev', tail'[q])
  <2>1. Pool(q) \cap Pool(p) = {} /\ NoCycle(cprev, tail[q]) /\ Pool(q) \subseteq Chunks
        BY DEF StringInv, StrTypeOK, ListInv
  <2>2. \A e \in Pool(q) : cprev'[e] = cprev[e]
        BY <1>1, <2>1 DEF Bypass
  <2>3. ListFrom(cprev', tail[q]) = ListFrom(cprev, tail[q]) /\ NoCycle(cprev', tail[q])
        BY <1>2, <1>4, <2>1, <2>2, SameList, SameCycle DEF Pool
  <2>4. d \notin Pool(q)
        BY <1>3, <2>1
  <2> QED BY <1>5, <2>3, <2>4 DEF Pool
<1>8. /\ doing' \in [Parsers -> {"nothing", "parsing", "unlinking", "freeing"}]
      /\ doing'[p] = "parsing" /\ \A q \in Parsers \ {p} : doing'[q] = doing[q]
      BY <1>1 DEF StringInv, StrTypeOK
<1>9. StrTypeOK' /\ HomeInv' /\ PlaceInv' /\ RefInv' /\ DyingInv'
      BY <1>1, <1>3, <1>4, <1>5, <1>6, <1>7, <1>8, GoneKeeps DEF d
<1>10. ListInv'
      BY <1>1, <1>5, <1>6, <1>7, <1>8 DEF StringInv, ListInv
<1> QED BY <1>9, <1>10 DEF StringInv

LEMMA ReturnDocumentKeeps ==
  ASSUME StringInv, NEW p \in Parsers, ReturnDocument(p)
  PROVE  StringInv'
<1>1. /\ doing[p] = "parsing"
      /\ doing' = [doing EXCEPT ![p] = "nothing"] /\ tail' = [tail EXCEPT ![p] = Nil]
      /\ author' = [s \in Strings |-> IF author[s] = p THEN Nil ELSE author[s]]
      /\ UNCHANGED <<chunkAlive, ref, cused, csize, cprev, dying, live, inChunk, offset, length>>
      BY DEF ReturnDocument
<1>2. /\ tail' \in [Parsers -> Maybe] /\ tail'[p] = Nil
      /\ \A q \in Parsers \ {p} : tail'[q] = tail[q]
      /\ doing' \in [Parsers -> {"nothing", "parsing", "unlinking", "freeing"}]
      /\ doing'[p] = "nothing" /\ \A q \in Parsers \ {p} : doing'[q] = doing[q]
      BY <1>1 DEF StringInv, StrTypeOK, Maybe
<1>3. Pool(p)' = {} /\ \A q \in Parsers \ {p} : Pool(q)' = Pool(q)
      BY <1>1, <1>2, EmptyList DEF Pool
<1>4. StrTypeOK'
      BY <1>1, <1>2 DEF StringInv, StrTypeOK
<1>5. ListInv'
  <2>1. NoCycle(cprev', tail'[p])
        BY <1>3 DEF NoCycle, Pool
  <2>2. \A q \in Parsers \ {p} : NoCycle(cprev', tail'[q])
        BY <1>1, <1>2 DEF StringInv, ListInv
  <2> QED BY <1>1, <1>2, <1>3, <2>1, <2>2 DEF StringInv, ListInv
<1>6. HomeInv'
  <2> SUFFICES ASSUME NEW s \in live
               PROVE  /\ inChunk[s] \in chunkAlive
                      /\ author'[s] # Nil => inChunk[s] \in ListFrom(cprev', tail'[author'[s]])
                      /\ author'[s] = Nil => \A q \in Parsers : inChunk[s] \notin Pool(q)'
      BY <1>1 DEF HomeInv, Pool
  <2>1. /\ s \in Strings /\ author[s] \in Parsers \cup {Nil}
        /\ author'[s] = IF author[s] = p THEN Nil ELSE author[s]
        BY <1>1 DEF StringInv, StrTypeOK
  <2>2. CASE author[s] = p
    <3>1. inChunk[s] \in Pool(p)
          BY <2>2, NilAssumption DEF StringInv, HomeInv
    <3>2. \A q \in Parsers \ {p} : inChunk[s] \notin Pool(q)
          BY <3>1 DEF StringInv, ListInv
    <3> QED BY <1>3, <2>1, <2>2, <3>2 DEF StringInv, HomeInv
  <2>3. CASE author[s] # p
        BY <1>1, <1>3, <2>1, <2>3 DEF StringInv, HomeInv, Pool
  <2> QED BY <2>2, <2>3
<1>7. PlaceInv' /\ RefInv'
      BY <1>1 DEF StringInv, PlaceInv, RefInv, StringsOf, Overlap
<1>8. DyingInv'
  <2>1. dying[p] = Nil
        BY <1>1 DEF StringInv, DyingInv
  <2> QED BY <1>1, <1>2, <1>3, <2>1 DEF StringInv, DyingInv
<1> QED BY <1>4, <1>5, <1>6, <1>7, <1>8 DEF StringInv

-----------------------------------------------------------------------------
LEMMA StringStep == StringInv /\ [StringsNext]_stringVars => StringInv'
<1> SUFFICES ASSUME StringInv, [StringsNext]_stringVars PROVE StringInv'
    OBVIOUS
<1>1. CASE UNCHANGED stringVars
      BY <1>1 DEF stringVars, StringInv, StrTypeOK, ListInv, HomeInv, PlaceInv, RefInv, DyingInv,
                  Pool, StringsOf, Overlap
<1>2. ASSUME NEW p \in Parsers, CreatePool(p) \/ UnlinkAndFree(p) \/ FreeChunk(p) \/ ReturnDocument(p)
      PROVE  StringInv'
      BY <1>2, CreatePoolKeeps, UnlinkAndFreeKeeps, FreeChunkKeeps, ReturnDocumentKeeps
<1>3. ASSUME NEW p \in Parsers, NEW s \in Strings, NEW n \in Lengths,
             AllocInChunk(p, s, n) \/ AllocInNewChunk(p, s, n)
      PROVE  StringInv'
      BY <1>3, AllocInChunkKeeps, AllocInNewChunkKeeps
<1>4. ASSUME NEW p \in Parsers, NEW s \in Strings, MarkAsFree(p, s)
      PROVE  StringInv'
      BY <1>4, MarkAsFreeKeeps
<1> QED BY <1>1, <1>2, <1>3, <1>4 DEF StringsNext

(* StringInv holds in every state: it is inductive.                        *)
THEOREM StringsInductive == StringsSpec => []StringInv
<1> QED BY StringInitHolds, StringStep, PTL DEF StringsSpec

(* StringsStand holds whoever releases the strings of a document, in       *)
(* whatever order: no chunk goes before its last string, none stays.       *)
THEOREM StringsKept == StringsSpec => []StringsStand
<1>1. StringInv => StringsStand
  <2> SUFFICES ASSUME StringInv PROVE StringsStand
      OBVIOUS
  <2>1. ASSUME NEW s \in live
        PROVE  /\ inChunk[s] \in chunkAlive
               /\ offset[s] + length[s] <= csize[inChunk[s]]
               /\ \A t \in live \ {s} : ~Overlap(s, t)
    <3>1. /\ inChunk[s] \in chunkAlive
          /\ offset[s] + length[s] <= cused[inChunk[s]]
          /\ cused[inChunk[s]] <= csize[inChunk[s]]
          BY DEF StringInv, HomeInv, PlaceInv
    <3>2. /\ offset[s] \in Nat /\ length[s] \in Nat
          /\ cused[inChunk[s]] \in Nat /\ csize[inChunk[s]] \in Nat
          BY <3>1 DEF StringInv, StrTypeOK
    <3> QED BY <3>1, <3>2 DEF StringInv, PlaceInv
  <2>2. ASSUME NEW p \in Parsers
        PROVE  /\ ChunksFrom(tail[p]) \subseteq chunkAlive
               /\ \A q \in Parsers \ {p} : ChunksFrom(tail[p]) \cap ChunksFrom(tail[q]) = {}
        BY DEF StringInv, ListInv, Pool, ChunksFrom
  <2>3. ASSUME NEW c \in chunkAlive
        PROVE  /\ ref[c] = Cardinality({s \in live : inChunk[s] = c})
               /\ ref[c] = 0 => Cardinality({p \in Parsers : dying[p] = c}) = 1
    <3>1. ref[c] = Cardinality({s \in live : inChunk[s] = c})
          BY DEF StringInv, RefInv, StringsOf
    <3>2. ASSUME ref[c] = 0 PROVE Cardinality({p \in Parsers : dying[p] = c}) = 1
      <4>1. PICK p \in Parsers : dying[p] = c
            BY <3>2 DEF StringInv, DyingInv
      <4>2. c # Nil
            BY NilAssumption DEF StringInv, StrTypeOK
      <4>3. {q \in Parsers : dying[q] = c} = {p}
            BY <4>1, <4>2 DEF StringInv, DyingInv
      <4> QED BY <4>3, FS_Singleton
    <3> QED BY <3>1, <3>2
  <2> QED BY <2>1, <2>2, <2>3 DEF StringsStand
<1> QED BY <1>1, StringsInductive, PTL

=============================================================================
