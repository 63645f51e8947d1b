-------------------------- MODULE MCLockedEndpoint --------------------------
(***************************************************************************)
(* LockedEndpoint for TLC.  Processes and inode numbers are only compared  *)
(* for equality, and no liveness is checked, so both may be permuted.      *)
(***************************************************************************)
EXTENDS LockedEndpoint, TLC

Symmetry == Permutations(Procs) \cup Permutations(Inodes)

=============================================================================
