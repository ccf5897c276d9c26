--------------------------- MODULE MCRuntimeHolders ---------------------------
(***************************************************************************)
(* RuntimeHolders on small instances.                                      *)
(***************************************************************************)
EXTENDS RuntimeHolders, TLC

Symmetry == Permutations(Sockets) \cup Permutations(Entries)
=============================================================================
