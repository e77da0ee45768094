---------------------------- MODULE MCJValueGraph ----------------------------
(***************************************************************************)
(* Instances of JValueGraph for TLC.                                       *)
(***************************************************************************)
EXTENDS JValueGraph, TLC

(* Bounds: the places that hold a constant when a call begins, and the     *)
(* references to a value.                                                  *)
FewConstants ==
  Cardinality({h \in Handles : handle[h] = Const}) + Cardinality({c \in Cells : elem[c] = Const})
    + Cardinality({m \in Members : keyOf[m] = Const})
    + Cardinality({m \in Members : value[m] = Const}) <= 1

FewReferences == \A b \in Blocks : refCnt[b] <= 3

(* Nothing tells two blocks or two handles apart.                          *)
Symmetry == Permutations(Blocks) \cup Permutations(Handles)
=============================================================================
