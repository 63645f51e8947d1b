--------------------------- MODULE MCUnixEndpoint ---------------------------
(***************************************************************************)
(* UnixEndpoint for TLC.  Gateways and inode numbers are only compared for *)
(* equality, and no liveness is checked, so both may be permuted.          *)
(***************************************************************************)
EXTENDS UnixEndpoint, TLC

Symmetry == Permutations(Procs) \cup Permutations(Inodes)

=============================================================================
