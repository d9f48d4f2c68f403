------------------------------- MODULE MCLog -------------------------------
(***************************************************************************)
(* Log for TLC.  Processes, blocks and data are interchangeable.           *)
(***************************************************************************)
EXTENDS Log, TLC

MCSymmetry == Permutations(Procs) \cup Permutations(Blocks) \cup Permutations(Data)
=============================================================================
