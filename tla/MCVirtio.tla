------------------------------ MODULE MCVirtio ------------------------------
(***************************************************************************)
(* Instances of Virtio for TLC.  The processes are interchangeable.        *)
(***************************************************************************)
EXTENDS Virtio, TLC

MCSymmetry == Permutations(Procs)
=============================================================================
