------------------------------- MODULE MCAgent -------------------------------
(***************************************************************************)
(* Instances of RuntimeAgent for TLC.                                      *)
(***************************************************************************)
EXTENDS RuntimeAgent, TLC

CONSTANTS n1, n2, ip1, ip2, amd64, arm64

Symmetry == Permutations(Nodes) \cup Permutations(IPs) \cup Permutations(Labels)
=============================================================================
