----------------------------- MODULE ParserPool ------------------------------
(***************************************************************************)
(* The pool of DOM parsers in jparse_stream.c.  A few parsers are static   *)
(* and shared by all threads; a mutex protects the table of those that are *)
(* taken.  When all are, a parser comes from the heap.  Two threads given  *)
(* the same parser would mix their documents.                              *)
(*                                                                         *)
(* One action is a step another thread can observe; between taking and     *)
(* leaving the mutex a thread reads the table and then writes it.          *)
(***************************************************************************)
EXTENDS Integers, FiniteSets

CONSTANTS
  Users,     (* threads                                                    *)
  PoolSlots  (* DOM_POOL_SIZE                                              *)

ASSUME PoolSlotsAssumption == PoolSlots \in Nat

Slots == 1 .. PoolSlots
HeapParser == 0     (* a parser that is not one of the static ones         *)
Full == PoolSlots + 1
Nobody == "nobody"

ASSUME NobodyAssumption == Nobody \notin Users
ASSUME UsersFinite == IsFiniteSet(Users)

VARIABLES
  used,     (* dompool.used                                                *)
  owner,    (* dompool.lock                                                *)
  at,       (* what a thread is about to do                                *)
  parser,   (* the parser it is taking, using or giving back               *)
  heap      (* how many parsers of the heap are allocated                  *)

poolVars == <<used, owner, at, parser, heap>>

InitParsers ==
  /\ used = [i \in Slots |-> FALSE]
  /\ owner = Nobody
  /\ at = [u \in Users |-> "outside"]
  /\ parser = [u \in Users |-> HeapParser]
  /\ heap = 0

Step(u, from, to) == at[u] = from /\ at' = [at EXCEPT ![u] = to]

-----------------------------------------------------------------------------
(* jdomparser_alloc_memory *)
AskParser(u) ==
  /\ Step(u, "outside", "asking")
  /\ UNCHANGED <<used, owner, parser, heap>>

LockForTake(u) ==
  /\ Step(u, "asking", "searching")
  /\ owner = Nobody
  /\ owner' = u
  /\ UNCHANGED <<used, parser, heap>>

FirstFree(i) ==
  /\ i \in Slots => ~used[i]
  /\ \A j \in Slots : j < i => used[j]

(* Full stands for none.                                                   *)
SearchFree(u) ==
  /\ Step(u, "searching", "taking")
  /\ \E i \in 1 .. Full : FirstFree(i) /\ parser' = [parser EXCEPT ![u] = i]
  /\ UNCHANGED <<used, owner, heap>>

TakeAndUnlock(u) ==
  /\ Step(u, "taking", IF parser[u] = Full THEN "mallocing" ELSE "initialising")
  /\ used' = [i \in Slots |-> used[i] \/ i = parser[u]]
  /\ owner' = Nobody
  /\ UNCHANGED <<parser, heap>>

TakeFromHeap(u) ==
  /\ Step(u, "mallocing", "initialising")
  /\ parser' = [parser EXCEPT ![u] = HeapParser]
  /\ heap' = heap + 1
  /\ UNCHANGED <<used, owner>>

(* jdomparser_new, and jdomparser_create when its initialisation succeeds. *)
StartParsing(u) ==
  /\ Step(u, "initialising", "parsing")
  /\ UNCHANGED <<used, owner, parser, heap>>

(* Faulty: the parser of a failed initialisation is forgotten.             *)
CreateForgets(u) ==
  /\ Step(u, "initialising", "outside")
  /\ UNCHANGED <<used, owner, parser, heap>>

(* jdomparser_create when jdomparser_init_old fails.                       *)
CreateFails(u) ==
  /\ Step(u, "initialising", "returning")
  /\ UNCHANGED <<used, owner, parser, heap>>

(* jdomparser_release *)
ReleaseParser(u) ==
  /\ Step(u, "parsing", "returning")
  /\ UNCHANGED <<used, owner, parser, heap>>

(* jdomparser_free_memory *)
FreeHeapParser(u) ==
  /\ Step(u, "returning", "outside")
  /\ parser[u] = HeapParser
  /\ heap' = heap - 1
  /\ UNCHANGED <<used, owner, parser>>

LockForReturn(u) ==
  /\ Step(u, "returning", "clearing")
  /\ parser[u] # HeapParser
  /\ owner = Nobody
  /\ owner' = u
  /\ UNCHANGED <<used, parser, heap>>

ClearAndUnlock(u) ==
  /\ Step(u, "clearing", "outside")
  /\ used' = [used EXCEPT ![parser[u]] = FALSE]
  /\ parser' = [parser EXCEPT ![u] = HeapParser]
  /\ owner' = Nobody
  /\ UNCHANGED heap

ParsersNext ==
  \E u \in Users :
    \/ AskParser(u) \/ LockForTake(u) \/ SearchFree(u) \/ TakeAndUnlock(u)
    \/ TakeFromHeap(u) \/ StartParsing(u) \/ CreateFails(u) \/ ReleaseParser(u)
    \/ FreeHeapParser(u) \/ LockForReturn(u) \/ ClearAndUnlock(u)

ParsersSpec == InitParsers /\ [][ParsersNext]_poolVars

-----------------------------------------------------------------------------
HoldsParser(u) == at[u] \in {"initialising", "parsing", "returning", "clearing"}

(* No static parser is in two hands, each one that is out of the pool is   *)
(* in someone's hands, and the heap holds one parser for each that came    *)
(* from it: jdomparser_create gives back what it could not initialise.     *)
ParsersAccounted ==
  /\ \A i \in Slots :
       Cardinality({u \in Users : HoldsParser(u) /\ parser[u] = i}) = (IF used[i] THEN 1 ELSE 0)
  /\ heap = Cardinality({u \in Users : HoldsParser(u) /\ parser[u] = HeapParser})
=============================================================================
