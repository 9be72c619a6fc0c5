-------------------------- MODULE MCOpenDatabases --------------------------
(***************************************************************************)
(* OpenDatabases: what is interchangeable.                                 *)
(***************************************************************************)
EXTENDS OpenDatabases, TLC

Symmetry == Permutations(Conns) \cup Permutations(Plain) \cup Permutations(Inodes)
============================================================================
