----------------------------- MODULE MCNameReuse -----------------------------
(***************************************************************************)
(* Instances of NameReuse for TLC.                                         *)
(***************************************************************************)
EXTENDS NameReuse, TLC

CONSTANTS n1, vm1, vm2

Wide == 64
Unreported == [n \in Nodes |-> [r \in {"cpus", "memoryMiB", "storageGiB"} |-> 0]]

Only ==
  [running |-> TRUE, nodeName |-> NoNode, nodeSelector |-> Nodes, parses |-> TRUE,
   size |-> [r \in Compute \cup Disks |-> 1], ports |-> {}]
OneSpec == [v \in VMs |-> {Only}]
=============================================================================
