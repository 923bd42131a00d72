--------------------------- MODULE MCSyResAdapter ---------------------------
(* Instances of SyResAdapter for TLC.                                      *)
EXTENDS SyResAdapter, TLC

Symmetry == Permutations(Clients)
=============================================================================
