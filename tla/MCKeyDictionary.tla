--------------------------- MODULE MCKeyDictionary ---------------------------
(***************************************************************************)
(* Instances of KeyDictionary for TLC.                                     *)
(***************************************************************************)
EXTENDS KeyDictionary, TLC

(* malloc never fails: every handle can own a block of its own, and every  *)
(* thread but the one that inserts can be destroying one more.             *)
ASSUME EnoughCells ==
  Cardinality(Cells) >= Cardinality(Handles) + Cardinality(Threads) - 1

(* Nothing tells two threads, names, blocks or handles apart.              *)
Symmetry ==
  Permutations(Threads) \cup Permutations(Names) \cup
  Permutations(Cells) \cup Permutations(Handles)
=============================================================================
