------------------------- MODULE SmolVMManagersProofs -------------------------
(***************************************************************************)
(* Two managers, by rely and guarantee: each keeps SharedInv in its own    *)
(* steps and in the steps of the other one, which it hears of as watch     *)
(* events, because every step of a manager keeps Guarantee.                *)
(***************************************************************************)
EXTENDS SmolVMManagers, TLAPS

(* The inductive invariant: what each manager holds stays consistent with  *)
(* the API server both write.                                              *)
ManagersInv == M1!SharedInv /\ M2!SharedInv

(* The managers agree on the objects' types.                               *)
LEMMA SameTypes ==
  /\ M1!SmolVMSpec = SmolVMSpec /\ M2!SmolVMSpec = SmolVMSpec
  /\ M1!SmolVM = M2!SmolVM /\ M1!MachineInfo = M2!MachineInfo
  /\ M1!NoObject = M2!NoObject
<1>1. M1!SmolVMSpec = SmolVMSpec /\ M2!SmolVMSpec = SmolVMSpec
  BY DEF SmolVMSpec, M1!SmolVMSpec, M2!SmolVMSpec, Sizes, M1!Sizes, M2!Sizes, PortMappings,
     M1!PortMappings, M2!PortMappings, Compute, M1!Compute, M2!Compute, Disks, M1!Disks, M2!Disks
<1>2. M1!SmolVMStatus = M2!SmolVMStatus
  BY DEF M1!SmolVMStatus, M2!SmolVMStatus, M1!Phases, M2!Phases, M1!ReconReasons,
     M2!ReconReasons
<1>3. M1!SmolVM = M2!SmolVM
  BY <1>1, <1>2 DEF M1!SmolVM, M2!SmolVM
<1>4. M1!MachineInfo = M2!MachineInfo
  BY DEF M1!MachineInfo, M2!MachineInfo, M1!Sizes, M2!Sizes, M1!PortMappings,
     M2!PortMappings, M1!Compute, M2!Compute, M1!Disks, M2!Disks
<1>5. M1!NoObject = M2!NoObject
  BY DEF M1!NoObject, M2!NoObject, M1!NoSpec, M2!NoSpec, M1!EmptyStatus, M2!EmptyStatus,
     M1!Compute, M2!Compute, M1!Disks, M2!Disks
<1> QED BY <1>1, <1>3, <1>4, <1>5

(* What one manager guarantees is what the other relies on.                *)
LEMMA SameGuarantee ==
  M1!Guarantee <=> M2!Guarantee
<1>1. M1!NodeTypeOK' <=> M2!NodeTypeOK'
  <2>1. M1!Calls = M2!Calls
    BY SameTypes DEF M1!Calls, M2!Calls, M1!Operations, M2!Operations
  <2> QED BY <2>1, SameTypes DEF M1!NodeTypeOK, M2!NodeTypeOK
<1>2. M1!HistoryTypeOK' <=> M2!HistoryTypeOK'
  BY DEF M1!HistoryTypeOK, M2!HistoryTypeOK, M1!Waivers, M2!Waivers
<1>3. M1!ApiGuarantee <=> M2!ApiGuarantee
  <2>1. M1!StoredObjects' <=> M2!StoredObjects'
    BY SameTypes DEF M1!StoredObjects, M2!StoredObjects
  <2> QED BY <2>1 DEF M1!ApiGuarantee, M2!ApiGuarantee
<1>4. M1!SoleOwner' <=> M2!SoleOwner'
  BY DEF M1!SoleOwner, M2!SoleOwner, M1!present, M2!present
<1> QED BY <1>1, <1>2, <1>3, <1>4, SameTypes DEF M1!Guarantee, M2!Guarantee

(* What both instances assume of the constants.                            *)
LEMMA Constants ==
  /\ SpecsOf \in [VMs -> SUBSET M1!SmolVMSpec]
  /\ SpecsOf \in [VMs -> SUBSET M2!SmolVMSpec]
  /\ Allocatable \in [Nodes -> [M1!Resources -> Nat]]
  /\ Allocatable \in [Nodes -> [M2!Resources -> Nat]]
<1>1. M1!Resources = Resources /\ M2!Resources = Resources
  BY DEF M1!Resources, M2!Resources, Resources
<1> QED BY <1>1, SameTypes, ManagersAssumption, SchedulerAssumption

(* A step of the first manager, heard by the second.                       *)
LEMMA Manager1Step ==
  ASSUME ManagersInv, Worker1 \/ Events1
  PROVE  ManagersInv'
<1> USE Constants, ManagersAssumption, SchedulerAssumption, NodesAssumption
<1>1. M1!SharedInv' /\ M1!Guarantee
  BY M1!WorkerShared, M1!EventsShared DEF ManagersInv, Worker1, Events1
<1>2. M2!SharedInv'
  BY <1>1, SameGuarantee, M2!OthersShared
  DEF ManagersInv, Worker1, Events1, Watches2, Hears, StillFresh
<1> QED BY <1>1, <1>2 DEF ManagersInv

(* A step of the second manager, heard by the first.                       *)
LEMMA Manager2Step ==
  ASSUME ManagersInv, Worker2 \/ Events2
  PROVE  ManagersInv'
<1> USE Constants, ManagersAssumption, SchedulerAssumption, NodesAssumption
<1>1. M2!SharedInv' /\ M2!Guarantee
  BY M2!WorkerShared, M2!EventsShared DEF ManagersInv, Worker2, Events2
<1>2. M1!SharedInv'
  BY <1>1, SameGuarantee, M1!OthersShared
  DEF ManagersInv, Worker2, Events2, Watches1, Hears, StillFresh
<1> QED BY <1>1, <1>2 DEF ManagersInv

(* Users and agents, seen by both.                                         *)
LEMMA WorldStep ==
  ASSUME ManagersInv, Users \/ Environment
  PROVE  ManagersInv'
<1> USE Constants, ManagersAssumption, SchedulerAssumption, NodesAssumption
<1>1. M1!SharedInv'
  BY M1!WorldShared DEF ManagersInv, Users, Environment
<1>2. M2!SharedInv'
  BY M2!WorldShared DEF ManagersInv, Users, Environment
<1> QED BY <1>1, <1>2 DEF ManagersInv

(* Two managers, whatever they interleave, hold consistent versions.       *)
LEMMA ManagersInvariant ==
  ManagersSpec => []ManagersInv
<1>1. ManagersInit => ManagersInv
  BY Constants, ManagersAssumption, SchedulerAssumption, NodesAssumption,
     M1!InitShared, M2!InitShared
  DEF ManagersInit, ManagersInv
<1>2. ManagersInv /\ UNCHANGED managersVars => ManagersInv'
  <2> SUFFICES ASSUME ManagersInv, UNCHANGED managersVars PROVE ManagersInv'
    OBVIOUS
  <2>1. UNCHANGED M1!vars /\ UNCHANGED M2!vars
    BY DEF managersVars, world, manager1, manager2, M1!vars, M2!vars
  <2> QED BY <2>1, Constants, ManagersAssumption, SchedulerAssumption, NodesAssumption,
             M1!StutterShared, M2!StutterShared DEF ManagersInv
<1>3. ManagersInv /\ [ManagersNext]_managersVars => ManagersInv'
  BY <1>2, Manager1Step, Manager2Step, WorldStep DEF ManagersNext
<1> QED BY <1>1, <1>3, PTL DEF ManagersSpec

(* Overwriting a binding is the only way in which two managers duplicate a *)
(* machine: however they interleave their passes, calls and writes on      *)
(* stale versions, an object whose binding was never overwritten has its   *)
(* machine on the recorded node alone.                                     *)
THEOREM ManagersDuplicateByMove == ManagersSpec => []OneMachineUnlessMoved
<1>1. ManagersInv => OneMachineUnlessMoved
  BY DEF ManagersInv, OneMachineUnlessMoved, M1!SharedInv
<1> QED BY <1>1, ManagersInvariant, PTL

(* Two managers never leave a bound object without its finalizer, so no    *)
(* deletion passes the machine by, whichever of them wrote last.           *)
THEOREM ManagersHoldBound == ManagersSpec => []BoundIsHeld
<1>1. ASSUME ManagersInv, NEW v \in VMs PROVE M1!sharedVersion(v, api[v])
  BY <1>1, Constants, ManagersAssumption, SchedulerAssumption, NodesAssumption,
     M1!ApiVersion DEF ManagersInv, M1!SharedInv
<1>2. ManagersInv => BoundIsHeld
  BY <1>1 DEF BoundIsHeld, M1!sharedVersion
<1> QED BY <1>2, ManagersInvariant, PTL
=============================================================================
