---------------------------- MODULE DomStringPool ----------------------------
(***************************************************************************)
(* The memory of the strings and raw numbers of a parsed document,         *)
(* dom_string_memory_pool.c.  jdom_create gives its parser a pool: a list  *)
(* of chunks from which strings are cut.  The pool goes when the parse     *)
(* ends, the chunks live on: each counts the strings in it and is freed    *)
(* with the last of them.                                                  *)
(*                                                                         *)
(* While it parses, a thread releases strings of its own document only     *)
(* (the value of a repeated key, the clean-up after an error), and unlinks *)
(* a chunk that becomes empty from its pool.  Once jdom_create has         *)
(* returned the document, any thread may release its strings, several at a *)
(* time; the counter is the only state the threads share.                  *)
(***************************************************************************)
EXTENDS Integers, FiniteSets

CONSTANTS
  Parsers,   (* threads that call jdom_create and release values           *)
  Chunks,    (* memory blocks malloc can hand out, reused after free       *)
  Strings,   (* names for the strings and numbers alive                    *)
  ChunkSize, (* bytes in a chunk, 16 pages                                 *)
  Lengths    (* lengths of strings, with their pointer to the chunk        *)

ASSUME SizesAssumption == ChunkSize \in Nat \ {0} /\ Lengths \subseteq Nat \ {0}

Nil == "nil"   (* NULL                                                     *)

ASSUME StringsFinite == IsFiniteSet(Strings)
ASSUME NilAssumption == Nil \notin Parsers \cup Chunks \cup Strings

VARIABLES
  chunkAlive,          (* chunks between malloc and free                   *)
  ref, cused, csize, cprev,  (* a chunk's fields: ref, used, size, prev    *)
  tail,                (* the chunks of a thread's pool, cur_pool->tail    *)
  doing,               (* what a thread is about to do                     *)
  dying,               (* the chunk whose last string a thread released    *)
  live,                (* strings between creation and release             *)
  inChunk, offset, length,  (* where a string is                           *)
  author               (* the thread whose parse a string is part of, or   *)
                       (* Nil once its document has been returned          *)

stringVars == <<chunkAlive, ref, cused, csize, cprev, tail, doing, dying,
                live, inChunk, offset, length, author>>

InitStrings ==
  /\ chunkAlive = {}
  /\ ref = [c \in Chunks |-> 0]
  /\ cused = [c \in Chunks |-> 0]
  /\ csize = [c \in Chunks |-> 0]
  /\ cprev = [c \in Chunks |-> Nil]
  /\ tail = [p \in Parsers |-> Nil]
  /\ doing = [p \in Parsers |-> "nothing"]
  /\ dying = [p \in Parsers |-> Nil]
  /\ live = {}
  /\ inChunk = [s \in Strings |-> Nil]
  /\ offset = [s \in Strings |-> 0]
  /\ length = [s \in Strings |-> 0]
  /\ author = [s \in Strings |-> Nil]

-----------------------------------------------------------------------------
(* The list of a pool from a chunk on: the least set that has the chunk    *)
(* and the previous one of each chunk in it.                               *)
Linked(prev, c, list) ==
  /\ c # Nil => c \in list
  /\ \A d \in list : prev[d] # Nil => prev[d] \in list

ListFrom(prev, c) ==
  {d \in Chunks : \A list \in SUBSET Chunks : Linked(prev, c, list) => d \in list}

ChunksFrom(c) == ListFrom(cprev, c)

(* How far down the list a chunk is.                                       *)
IsBefore(c, d) == d \in ChunksFrom(c) \ {c}

-----------------------------------------------------------------------------
(* dom_string_memory_pool_create *)
CreatePool(p) ==
  /\ doing[p] = "nothing"
  /\ doing' = [doing EXCEPT ![p] = "parsing"]
  /\ tail' = [tail EXCEPT ![p] = Nil]
  /\ UNCHANGED <<chunkAlive, ref, cused, csize, cprev, dying, live, inChunk,
                 offset, length, author>>

HasRoom(c, n) == cused[c] + n <= csize[c]

(* find_chunk_with_available_memory: the first from the tail.              *)
Roomy(p, n) ==
  {c \in ChunksFrom(tail[p]) :
     /\ HasRoom(c, n)
     /\ \A d \in ChunksFrom(tail[p]) : IsBefore(d, c) => ~HasRoom(d, n)}

(* store_self and the rest of dom_string_memory_pool_alloc: the string is  *)
(* cut off the chunk at `from'.                                            *)
Cut(p, s, c, from, n) ==
  /\ inChunk' = [inChunk EXCEPT ![s] = c]
  /\ offset' = [offset EXCEPT ![s] = from]
  /\ length' = [length EXCEPT ![s] = n]
  /\ author' = [author EXCEPT ![s] = p]
  /\ live' = live \cup {s}

AllocInChunk(p, s, n) ==
  /\ doing[p] = "parsing"
  /\ s \notin live
  /\ \E c \in Roomy(p, n) :
       /\ Cut(p, s, c, cused[c], n)
       /\ cused' = [cused EXCEPT ![c] = @ + n]
       /\ ref' = [ref EXCEPT ![c] = @ + 1]
  /\ UNCHANGED <<chunkAlive, csize, cprev, tail, doing, dying>>

Largest(m, n) == IF m > n THEN m ELSE n

(* dom_string_memory_pool_chunk_create *)
AllocInNewChunk(p, s, n) ==
  /\ doing[p] = "parsing"
  /\ s \notin live
  /\ Roomy(p, n) = {}
  /\ \E c \in Chunks \ chunkAlive :
       /\ chunkAlive' = chunkAlive \cup {c}
       /\ csize' = [csize EXCEPT ![c] = Largest(n, ChunkSize)]
       /\ cprev' = [cprev EXCEPT ![c] = tail[p]]
       /\ tail' = [tail EXCEPT ![p] = c]
       /\ Cut(p, s, c, 0, n)
       /\ cused' = [cused EXCEPT ![c] = n]
       /\ ref' = [ref EXCEPT ![c] = 1]
  /\ UNCHANGED <<doing, dying>>

(* A thread releases strings of the document it parses, or of a document   *)
(* that has been returned when it parses none.                             *)
MayRelease(p, s) ==
  /\ s \in live
  /\ \/ doing[p] = "parsing" /\ author[s] = p
     \/ doing[p] = "nothing" /\ author[s] = Nil

(* What memory holds after its release does not matter.                    *)
ForgetString(s) ==
  /\ inChunk' = [inChunk EXCEPT ![s] = Nil]
  /\ offset' = [offset EXCEPT ![s] = 0]
  /\ length' = [length EXCEPT ![s] = 0]
  /\ author' = [author EXCEPT ![s] = Nil]

ForgetChunk(c) ==
  /\ cused' = [cused EXCEPT ![c] = 0]
  /\ csize' = [csize EXCEPT ![c] = 0]

(* dom_string_memory_pool_mark_as_free: the decrement is atomic and says   *)
(* whether it was the last.                                                *)
MarkAsFree(p, s) ==
  LET c == inChunk[s] IN
  /\ MayRelease(p, s)
  /\ live' = live \ {s}
  /\ ref' = [ref EXCEPT ![c] = @ - 1]
  /\ IF ref[c] = 1
     THEN /\ dying' = [dying EXCEPT ![p] = c]
          /\ doing' = [doing EXCEPT ![p] = IF @ = "parsing" THEN "unlinking" ELSE "freeing"]
     ELSE UNCHANGED <<dying, doing>>
  /\ ForgetString(s)
  /\ UNCHANGED <<chunkAlive, cused, csize, cprev, tail>>

(* Faulty: only a chunk in the middle of the list is unlinked.             *)
UnlinkNotTail(p) ==
  /\ cprev' = [c \in Chunks |->
                 IF c \in ChunksFrom(tail[p]) /\ cprev[c] = dying[p]
                 THEN cprev[dying[p]] ELSE cprev[c]]
  /\ UNCHANGED tail

(* update_dom_string_memory_pool: a thread has at most one pool, and looks *)
(* for the chunk there.                                                    *)
Unlink(p) ==
  /\ cprev' = [c \in Chunks |->
                 IF c \in ChunksFrom(tail[p]) /\ cprev[c] = dying[p]
                 THEN cprev[dying[p]] ELSE cprev[c]]
  /\ tail' = [tail EXCEPT ![p] = IF @ = dying[p] THEN cprev[@] ELSE @]

(* The rest of dom_string_memory_pool_chunk_unref.                         *)
UnlinkAndFree(p) ==
  /\ doing[p] = "unlinking"
  /\ Unlink(p)
  /\ chunkAlive' = chunkAlive \ {dying[p]}
  /\ doing' = [doing EXCEPT ![p] = "parsing"]
  /\ dying' = [dying EXCEPT ![p] = Nil]
  /\ ForgetChunk(dying[p])
  /\ UNCHANGED <<ref, live, inChunk, offset, length, author>>

FreeChunk(p) ==
  /\ doing[p] = "freeing"
  /\ chunkAlive' = chunkAlive \ {dying[p]}
  /\ doing' = [doing EXCEPT ![p] = "nothing"]
  /\ dying' = [dying EXCEPT ![p] = Nil]
  /\ ForgetChunk(dying[p])
  /\ UNCHANGED <<ref, cprev, tail, live, inChunk, offset, length, author>>

(* jdom_create ends: dom_string_memory_pool_destroy, and the document is   *)
(* returned.  After an error it has released every string before.          *)
ReturnDocument(p) ==
  /\ doing[p] = "parsing"
  /\ doing' = [doing EXCEPT ![p] = "nothing"]
  /\ tail' = [tail EXCEPT ![p] = Nil]
  /\ author' = [s \in Strings |-> IF author[s] = p THEN Nil ELSE author[s]]
  /\ UNCHANGED <<chunkAlive, ref, cused, csize, cprev, dying, live, inChunk, offset, length>>

StringsNext ==
  \E p \in Parsers :
    \/ CreatePool(p)
    \/ \E s \in Strings : \/ \E n \in Lengths : AllocInChunk(p, s, n) \/ AllocInNewChunk(p, s, n)
                          \/ MarkAsFree(p, s)
    \/ UnlinkAndFree(p)
    \/ FreeChunk(p)
    \/ ReturnDocument(p)

StringsSpec == InitStrings /\ [][StringsNext]_stringVars

-----------------------------------------------------------------------------
Overlap(s, t) ==
  /\ inChunk[s] = inChunk[t]
  /\ offset[s] < offset[t] + length[t]
  /\ offset[t] < offset[s] + length[s]

(* A string lies within a chunk that is still allocated, apart from every  *)
(* other string: the chunk is not freed while one of its strings is alive, *)
(* in whatever order and by whichever threads they are released.  A parse  *)
(* that goes on never reaches a freed chunk through its pool, nor a chunk  *)
(* of another thread's pool: update_dom_string_memory_pool has taken every *)
(* chunk that became empty out of the list.  And no chunk outlives its     *)
(* last string: it is counted exactly, and at 0 one thread frees it.       *)
StringsStand ==
  /\ \A s \in live :
       /\ inChunk[s] \in chunkAlive
       /\ offset[s] + length[s] <= csize[inChunk[s]]
       /\ \A t \in live \ {s} : ~Overlap(s, t)
  /\ \A p \in Parsers :
       /\ ChunksFrom(tail[p]) \subseteq chunkAlive
       /\ \A q \in Parsers \ {p} : ChunksFrom(tail[p]) \cap ChunksFrom(tail[q]) = {}
  /\ \A c \in chunkAlive :
       /\ ref[c] = Cardinality({s \in live : inChunk[s] = c})
       /\ ref[c] = 0 => Cardinality({p \in Parsers : dying[p] = c}) = 1
=============================================================================
