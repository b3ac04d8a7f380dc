------------------------------ MODULE MCManagers ------------------------------
(***************************************************************************)
(* Instances of SmolVMManagers for TLC.                                    *)
(***************************************************************************)
EXTENDS SmolVMManagers, TLC

CONSTANTS n1, n2, vm1

Wide == 64
Unreported == [n \in Nodes |-> [r \in {"cpus", "memoryMiB", "storageGiB"} |-> 0]]

Only ==
  [running |-> TRUE, nodeName |-> NoNode, nodeSelector |-> Nodes, parses |-> TRUE,
   size |-> [r \in Compute \cup Disks |-> 1], ports |-> {}]

(* The machine is created and not started: one call less to interleave.    *)
StoppedSpec == [v \in VMs |-> {[Only EXCEPT !.running = FALSE]}]
=============================================================================
