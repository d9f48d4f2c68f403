------------------------------ MODULE MCFiles ------------------------------
(***************************************************************************)
(* Files for TLC.  The inodes other than the root, and the names, are      *)
(* interchangeable.                                                        *)
(***************************************************************************)
EXTENDS Files, TLC

Symmetry == Permutations(Others) \cup Permutations(Names)
=============================================================================
