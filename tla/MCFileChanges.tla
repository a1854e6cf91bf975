--------------------------- MODULE MCFileChanges ---------------------------
(***************************************************************************)
(* FileChanges for TLC: changes and tasks are interchangeable.             *)
(***************************************************************************)
EXTENDS FileChanges, TLC

Symmetry == Permutations(Change) \cup Permutations(Task) \cup Permutations(Region)
=============================================================================
