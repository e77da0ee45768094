---------------------------- MODULE MCDomBuilder -----------------------------
(***************************************************************************)
(* Instances of DomBuilder for TLC.                                        *)
(***************************************************************************)
EXTENDS DomTree, TLC

(* The handles are told apart by which of them is taken first.             *)
Symmetry == Permutations(Blocks) \cup Permutations(Keys)
=============================================================================
