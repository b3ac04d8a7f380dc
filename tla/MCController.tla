----------------------------- MODULE MCController -----------------------------
(***************************************************************************)
(* Instances of SmolVMController for TLC.                                  *)
(***************************************************************************)
EXTENDS SmolVMController, TLC

CONSTANTS n1, n2, vm1, vm2

(* An int32 range that never wraps here.                                   *)
Wide == 64

Capacity(c, m, s) ==
  [n \in Nodes |-> [r \in Resources |->
     CASE r = "cpus" -> c [] r = "memoryMiB" -> m [] r = "storageGiB" -> s]]
Unreported == Capacity(0, 0, 0)
Tight == Capacity(3, 3, 4)

Shape(cpus, mem, storageGiB, overlay) ==
  [r \in Compute \cup Disks |->
     CASE r = "cpus" -> cpus [] r = "memoryMiB" -> mem
       [] r = "storageGiB" -> storageGiB [] r = "overlayGiB" -> overlay]

Port(h) == {[host |-> h, guest |-> 1]}

Base == [running |-> TRUE, nodeName |-> NoNode, nodeSelector |-> Nodes,
         parses |-> TRUE, size |-> Shape(1, 1, 1, 0), ports |-> {}]
Stopped == [Base EXCEPT !.running = FALSE]
Grown(s) == [s EXCEPT !.size = Shape(1, 1, 2, 0)]

(* Start, stop and grow.                                                   *)
LifecycleSpecs == [v \in VMs |-> {Base, Grown(Stopped)}]

(* Updates of every kind, among them a port mapping that the runtime       *)
(* cannot change, and a pin to another node than the selector's, which     *)
(* validateSpec refuses on a bound object.                                 *)
OnFirst(s) == [s EXCEPT !.nodeSelector = {n1}]
Updated ==
  {OnFirst(Base), OnFirst(Grown(Stopped)), OnFirst([Base EXCEPT !.ports = Port(80)]),
   OnFirst([Base EXCEPT !.nodeName = n2])}
AllSpecs == [v \in VMs |-> {Base} \cup Updated]

(* A bound: failures strike an object that keeps its one spec and may be   *)
(* bound to either node, beside one annotation; updates, as many as        *)
(* MaxEdits, a system in which nothing fails.  Neither is multiplied with  *)
(* the other.                                                              *)
FailuresOrUpdates ==
  \/ edits' =< 1 /\ \A v \in VMs : {api[v].spec, api'[v].spec} \subseteq {NoSpec, Base}
  \/ faults' = 0 /\ \A v \in VMs :
       {api[v].spec, api'[v].spec} \subseteq {NoSpec} \cup Updated

MCSpec == Init /\ [][Next /\ FailuresOrUpdates]_vars

(* Contenders for one node: the second clashes with the first on a host    *)
(* port, on disk, on memory, or on cpus, where the sum wraps in a Narrow   *)
(* int32.                                                                  *)
Narrow == 4
ContendingSpecs ==
  [v \in VMs |->
     IF v = vm1 THEN {[Base EXCEPT !.size = Shape(2, 1, 1, 1), !.ports = Port(80)]}
     ELSE {[Base EXCEPT !.ports = Port(80)],
           [Base EXCEPT !.size = Shape(1, 1, 1, 2)],
           [Base EXCEPT !.size = Shape(1, 3, 1, 0)],
           [Base EXCEPT !.size = Shape(3, 1, 1, 0), !.ports = Port(81)]}]

NodeSymmetry == Permutations(Nodes)
=============================================================================
