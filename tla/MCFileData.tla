---------------------------- MODULE MCFileData ----------------------------
(* FileData for TLC: the files are interchangeable. *)
EXTENDS FileData, TLC

Symmetry == Permutations(Files)
=============================================================================
