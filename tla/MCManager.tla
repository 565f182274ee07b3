----------------------------- MODULE MCManager ------------------------------
(***************************************************************************)
(* Instances of Manager for TLC.                                           *)
(***************************************************************************)
EXTENDS Manager, TLC

Symmetry == Permutations(Rec) \cup Permutations(Path) \cup Permutations(Task)
=============================================================================
