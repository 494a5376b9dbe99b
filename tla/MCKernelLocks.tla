---------------------------- MODULE MCKernelLocks ----------------------------
(***************************************************************************)
(* KernelLocks for TLC.  Tasks of a kind are interchangeable.              *)
(***************************************************************************)
EXTENDS KernelLocks, TLC

Symmetry == Permutations(KernelTasks) \cup Permutations(UserTasks)

=============================================================================
