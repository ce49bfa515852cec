----------------------------- MODULE MCSlaveLock -----------------------------
(* Small instances of SlaveLock.                                            *)
EXTENDS SlaveLock, TLC

Symmetry == Permutations(Slave \ Protected) \cup Permutations(Dc)
==============================================================================
