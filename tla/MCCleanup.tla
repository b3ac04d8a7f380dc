------------------------------ MODULE MCCleanup ------------------------------
(***************************************************************************)
(* Instances of OrphanCleanup for TLC.                                     *)
(***************************************************************************)
EXTENDS OrphanCleanup, TLC

CONSTANTS n1, n2, vm1

Wide == 64
Unreported == [n \in Nodes |-> [r \in {"cpus", "memoryMiB", "storageGiB"} |-> 0]]

Only ==
  [running |-> TRUE, nodeName |-> NoNode, nodeSelector |-> Nodes, parses |-> TRUE,
   size |-> [r \in Compute \cup Disks |-> 1], ports |-> {}]

(* Stop, and grow the disks.                                               *)
StoppedAndGrown ==
  [Only EXCEPT !.running = FALSE, !.size = [r \in Compute \cup Disks |->
                                              IF r \in Disks THEN 2 ELSE 1]]
CleanupSpecs == [v \in VMs |-> {Only, StoppedAndGrown}]

(* A bound: objects that are to be forced out have the first spec.         *)
ForcedAreRunning == \A v \in VMs : api'[v].forceDelete => api'[v].spec = Only

(* The controller is fair and cleanup need not run: the policy is a flag.  *)
MCCleanupSpec ==
  CleanupInit /\ [][CleanupNext /\ ForcedAreRunning]_cleanupVars /\ Fairness
=============================================================================
