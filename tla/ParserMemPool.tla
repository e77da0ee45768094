---------------------------- MODULE ParserMemPool ----------------------------
(***************************************************************************)
(* The memory pool inside every parser, parser_memory_pool.c: the malloc,  *)
(* realloc and free that yajl is given.  Blocks are cut off the front of   *)
(* a fixed buffer; what does not fit comes from the heap; a freed block of *)
(* the buffer is not used again, and only the last block grows in place.   *)
(*                                                                         *)
(* A byte of the buffer is represented by the block whose contents it      *)
(* holds.  The client, yajl, fills what it is given and relies on realloc  *)
(* to carry its contents along.  It never asks for 0 bytes.                *)
(***************************************************************************)
EXTENDS Integers

CONSTANTS
  MemSize,    (* MEMORY_POOL_SIZE                                          *)
  Blocks      (* names for the blocks the client holds                     *)

ASSUME MemSizeAssumption == MemSize \in Nat

Offsets == 0 .. MemSize - 1

(* Blocks longer than the buffer take the same paths as one byte more.     *)
Sizes == 1 .. MemSize + 1

OnHeap == -1        (* where a block of the heap starts                    *)
NoBlock == "none"   (* a byte nobody has written                           *)

ASSUME NoBlockAssumption == NoBlock \notin Blocks

VARIABLES
  prev, current,  (* start and end of the last block, from m->begin        *)
  bytes,          (* the contents of the buffer                            *)
  start, size,    (* where the client's blocks are and how long            *)
  held,           (* the blocks between malloc and free                    *)
  torn            (* blocks of the heap that lost contents on their way    *)

memVars == <<prev, current, bytes, start, size, held, torn>>

InitPool ==
  /\ prev = 0
  /\ current = 0
  /\ bytes = [i \in Offsets |-> NoBlock]
  /\ start = [b \in Blocks |-> OnHeap]
  /\ size = [b \in Blocks |-> 0]
  /\ held = {}
  /\ torn = {}

-----------------------------------------------------------------------------
(* Faulty: an off-by-one in the test for room.                             *)
FitsOffByOne(at, n) == MemSize + 1 >= at + n

Fits(at, n) == MemSize >= at + n

(* mempool_malloc: where the new block starts, and what becomes of the     *)
(* two pointers.                                                           *)
Carve(n) ==
  IF Fits(current, n) THEN /\ prev' = current
                           /\ current' = current + n
                      ELSE UNCHANGED <<prev, current>>

Carved(n) == IF Fits(current, n) THEN current ELSE OnHeap

(* What the client writes: bytes [from, to) of its block.                  *)
Write(contents, b, at, from, to) ==
  IF at = OnHeap THEN contents
  ELSE [i \in Offsets |-> IF i \in at + from .. at + to - 1 THEN b ELSE contents[i]]

(* Nobody asks what a block held outside the place it has now.             *)
Settle(contents, b, at, n) ==
  [i \in Offsets |-> IF contents[i] = b /\ (at = OnHeap \/ i \notin at .. at + n - 1)
                     THEN NoBlock ELSE contents[i]]

Malloc(b, n) ==
  /\ b \notin held
  /\ Carve(n)
  /\ held' = held \cup {b}
  /\ start' = [start EXCEPT ![b] = Carved(n)]
  /\ size' = [size EXCEPT ![b] = n]
  /\ bytes' = Write(bytes, b, Carved(n), 0, n)
  /\ UNCHANGED torn

Least(m, n) == IF m < n THEN m ELSE n

(* How many bytes a block that moves takes with it: the pool does not know *)
(* how long it was, only that it ended before `top'.  Faulty: as far as    *)
(* the last block, not as far as its end.                                  *)
CopiedToPrev(b, n) == Least(prev - start[b], n)

Copied(b, n) == Least(current - start[b], n)

(* mempool_realloc of a block of the heap is libc's.                       *)
ReallocHeap(b, n) ==
  /\ b \in held
  /\ start[b] = OnHeap
  /\ size' = [size EXCEPT ![b] = n]
  /\ UNCHANGED <<prev, current, bytes, start, held, torn>>

IsLast(b) == start[b] = prev

(* Grown or shrunk where it is.                                            *)
ReallocLast(b, n) ==
  /\ b \in held
  /\ start[b] # OnHeap
  /\ IsLast(b)
  /\ Fits(start[b], n)
  /\ current' = start[b] + n
  /\ size' = [size EXCEPT ![b] = n]
  /\ bytes' = Write(Settle(bytes, b, start[b], n), b, start[b], Least(size[b], n), n)
  /\ UNCHANGED <<prev, start, held, torn>>

(* Moved to the front of the free part, or to the heap.  A block of the    *)
(* heap holds its contents whole unless too little of them was copied.     *)
ReallocMoves(b, n) ==
  LET to == Carved(n)
      moved == [i \in Offsets |->
                  IF to # OnHeap /\ i \in to .. to + Copied(b, n) - 1
                  THEN bytes[start[b] + i - to] ELSE bytes[i]]
  IN
  /\ b \in held
  /\ start[b] # OnHeap
  /\ ~(IsLast(b) /\ Fits(start[b], n))
  /\ Carve(n)
  /\ start' = [start EXCEPT ![b] = to]
  /\ size' = [size EXCEPT ![b] = n]
  /\ bytes' = Write(Settle(moved, b, to, n), b, to, Least(size[b], n), n)
  /\ torn' = IF to = OnHeap /\ Copied(b, n) < Least(size[b], n) THEN torn \cup {b} ELSE torn
  /\ UNCHANGED held

(* mempool_free: the heap takes its blocks back, the buffer does not.      *)
FreeBlock(b) ==
  /\ b \in held
  /\ held' = held \ {b}
  /\ start' = [start EXCEPT ![b] = OnHeap]
  /\ size' = [size EXCEPT ![b] = 0]
  /\ bytes' = Settle(bytes, b, OnHeap, 0)
  /\ torn' = torn \ {b}
  /\ UNCHANGED <<prev, current>>

MemNext ==
  \E b \in Blocks :
    \/ \E n \in Sizes :
         \/ Malloc(b, n)
         \/ ReallocHeap(b, n)
         \/ ReallocLast(b, n)
         \/ ReallocMoves(b, n)
    \/ FreeBlock(b)

MemSpec == InitPool /\ [][MemNext]_memVars

-----------------------------------------------------------------------------
(* However the client allocates, grows, shrinks and frees, every block it  *)
(* holds lies within the buffer and has the contents it wrote: no other    *)
(* block overlaps it, and no realloc lost a byte of it (mempool_realloc's  *)
(* copy of "diff" bytes, and growth in place of the last block only).      *)
BlocksKeepContents ==
  \A b \in held :
    /\ b \notin torn
    /\ start[b] # OnHeap =>
         /\ start[b] + size[b] <= MemSize
         /\ \A i \in start[b] .. start[b] + size[b] - 1 : bytes[i] = b
=============================================================================
