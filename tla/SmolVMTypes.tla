----------------------------- MODULE SmolVMTypes -----------------------------
(***************************************************************************)
(* The data the operator works on: the SmolVM custom resource (its spec    *)
(* and its status), the machine a node's runtime reports, and the pure     *)
(* functions of smolvm_controller.go that compare one with the other.      *)
(*                                                                         *)
(* Abstractions.  One element of the set of SmolVMs stands for one object  *)
(* UID, so stableMachineName (a hash of the UID) is the element itself and *)
(* status.machineName carries no information.  A node selector is the set  *)
(* of nodes whose labels satisfy it.  Messages, PIDs, transition times and *)
(* the runtime-observed copies of ports and sizes in the status are left   *)
(* out: no decision of the controller reads them.                          *)
(***************************************************************************)
EXTENDS Integers, FiniteSets

CONSTANTS
  Nodes,   \* the Kubernetes nodes that have a SmolVMNode
  NoNode   \* the empty node name

ASSUME NodesAssumption == NoNode \notin Nodes

(* spec.resources, and spec.storage; 0 is an omitted field.                *)
Compute == {"cpus", "memoryMiB"}
Disks == {"storageGiB", "overlayGiB"}
Sizes == [Compute \cup Disks -> Nat]
PortMappings == SUBSET [host : Nat, guest : Nat]

(* "parses" stands for the checks on fields nothing else reads: exactly    *)
(* one of image and from, and every allowedCIDR accepted by net.ParseCIDR. *)
(* The CRD's schema makes the same checks at admission.                    *)
SmolVMSpec ==
  [running : BOOLEAN, nodeName : Nodes \cup {NoNode},
   nodeSelector : SUBSET Nodes, parses : BOOLEAN,
   size : Sizes, ports : PortMappings]

Phases == {"", "Pending", "Scheduled", "Created", "Running", "Stopped",
           "Failed", "Unknown", "Deleting"}

(* The reason of the Reconciled condition names the exit of Reconcile that *)
(* wrote the status.                                                       *)
ReconReasons ==
  {"", "InvalidSpec", "AwaitingNodeAssignment", "RuntimePending",
   "StartPending", "RuntimeUnavailable", "UnsupportedUpdate",
   "InvalidStorageResize", "ResizeRequiresStoppedMachine", "Reconciled",
   "DeletionBlocked"}

SmolVMStatus ==
  [nodeName : Nodes \cup {NoNode}, phase : Phases, ready : BOOLEAN,
   reconciled : ReconReasons, scheduled : {"", "NoEligibleNodes", "Bound"},
   deletionBlocked : BOOLEAN, observedGeneration : Nat]

EmptyStatus ==
  [nodeName |-> NoNode, phase |-> "", ready |-> FALSE, reconciled |-> "",
   scheduled |-> "", deletionBlocked |-> FALSE, observedGeneration |-> 0]

(* A version of a SmolVM object.  "exists" is FALSE before its creation    *)
(* (generation 0) and after its removal.                                   *)
SmolVM ==
  [exists : BOOLEAN, deleting : BOOLEAN, finalizer : BOOLEAN,
   forceDelete : BOOLEAN, generation : Nat, spec : SmolVMSpec,
   status : SmolVMStatus]

NoSpec ==
  [running |-> FALSE, nodeName |-> NoNode, nodeSelector |-> {},
   parses |-> FALSE, size |-> [r \in Compute \cup Disks |-> 0], ports |-> {}]

NoObject ==
  [exists |-> FALSE, deleting |-> FALSE, finalizer |-> FALSE,
   forceDelete |-> FALSE, generation |-> 0, spec |-> NoSpec,
   status |-> EmptyStatus]

MachineInfo ==
  [state : {"absent", "created", "running", "stopped"}, size : Sizes,
   ports : PortMappings]

NoMachine == [state |-> "absent", size |-> NoSpec.size, ports |-> {}]

(***************************************************************************)
(* The checks of Reconcile.                                                *)
(***************************************************************************)
validateSpec(o) ==
  /\ \/ o.status.nodeName = NoNode
     \/ o.spec.nodeName \in {NoNode, o.status.nodeName}
  /\ o.spec.parses
  /\ \A p, q \in o.spec.ports : p.host = q.host => p = q

(* What the runtime makes of a create request; an omitted size is left to  *)
(* the runtime, which then reports none.                                   *)
buildCreateRequest(spec) ==
  [state |-> "created", size |-> spec.size, ports |-> spec.ports]

(* The request carries both disks; an omitted one is left alone.           *)
buildResizeRequest(spec, m) ==
  [m EXCEPT !.size = [r \in DOMAIN m.size |->
     IF r \in Disks /\ spec.size[r] > 0 THEN spec.size[r] ELSE m.size[r]]]

differs(spec, m, r) == spec.size[r] > 0 /\ m.size[r] > 0 /\ spec.size[r] # m.size[r]

validateImmutableRuntimeFields(spec, m) ==
  /\ \A r \in Compute : ~differs(spec, m, r)
  /\ spec.ports = m.ports

validateStorageDoesNotShrink(spec, m) ==
  \A r \in Disks : ~(differs(spec, m, r) /\ spec.size[r] < m.size[r])

needsStorageExpansion(spec, m) ==
  \E r \in Disks : differs(spec, m, r) /\ spec.size[r] > m.size[r]

(* What Reconcile does about the machine GetMachine reports: a call to     *)
(* make, or the reason it reports.  The order is that of the early returns.*)
verdict(spec, m) ==
  IF m.state = "absent" THEN "create"
  ELSE IF ~validateImmutableRuntimeFields(spec, m) THEN "UnsupportedUpdate"
  ELSE IF ~validateStorageDoesNotShrink(spec, m) THEN "InvalidStorageResize"
  ELSE IF needsStorageExpansion(spec, m)
    THEN IF m.state = "running" THEN "ResizeRequiresStoppedMachine" ELSE "resize"
  ELSE IF spec.running /\ m.state # "running" THEN "start"
  ELSE IF ~spec.running /\ m.state = "running" THEN "stop"
  ELSE "Reconciled"

phaseFromMachine(m) ==
  CASE m.state = "running" -> "Running"
    [] m.state = "stopped" -> "Stopped"
    [] m.state = "created" -> "Created"
    [] OTHER -> "Unknown"

readyFromMachine(m) == m.state = "running"
=============================================================================
