------------------------- MODULE OrphanCleanupProofs -------------------------
(***************************************************************************)
(* Orphan cleanup beside the controller: what a pass has read stays true,  *)
(* cleanup spares bound objects, and the controller keeps its invariant.   *)
(***************************************************************************)
EXTENDS OrphanCleanup, SmolVMSafetyProofs

-----------------------------------------------------------------------------
(***************************************************************************)
(* Machines that go away never disturb the controller's invariant.         *)
(***************************************************************************)
(* A step that only removes machines, or fails to.                         *)
LEMMA RemovalKeepsIInv ==
  ASSUME IInv,
         UNCHANGED <<apiVars, queue, timer, workerVars, limbo, nodeVars, edits, waiver>>,
         faults' \in 0..MaxFaults,
         machines' \in [Nodes -> [VMs -> MachineInfo]],
         \A n \in Nodes, v \in VMs :
           machines'[n][v].state # "absent" => machines[n][v].state # "absent"
  PROVE  IInv'
<1> USE DEF apiVars, workerVars, nodeVars
<1>1. TypeOK'
  BY DEF IInv, TypeOK, ApiTypeOK, WorkerTypeOK, NodeTypeOK, HistoryTypeOK
<1>2. Lineage' /\ DeletionSeenInOrder' /\ FreshVersions' /\ StoredObjects'
  BY DEF IInv, Lineage, lineage, DeletionSeenInOrder, FreshVersions, StoredObjects
<1>3. LateCreates'
  BY DEF IInv, LateCreates
<1>4. WorkerPlace'
  <2>1. pc = "release" => cur \in VMs
    BY DEF IInv, TypeOK, WorkerTypeOK
  <2> QED BY <2>1 DEF IInv, WorkerPlace, present
<1>5. MachinesHeld' /\ SoleOwner' /\ CleanRelease'
  BY DEF IInv, MachinesHeld, SoleOwner, CleanRelease, removed, present
<1> QED BY <1>1, <1>2, <1>3, <1>4, <1>5 DEF IInv

(* The deletion of one machine removes it and no other.                    *)
LEMMA DeleteExecutes ==
  ASSUME TypeOK, NEW n \in Nodes, NEW v \in VMs, Execute("delete", n, v, NoSpec)
  PROVE  /\ machines' \in [Nodes -> [VMs -> MachineInfo]]
         /\ \A k \in Nodes, w \in VMs :
              /\ machines'[k][w].state # "absent" => machines[k][w].state # "absent"
              /\ k # n \/ w # v => machines'[k][w] = machines[k][w]
<1>1. machines' = [machines EXCEPT ![n][v] = NoMachine]
  BY DEF Execute, Effect
<1>2. NoMachine \in MachineInfo /\ NoMachine.state = "absent"
  BY InitialValues DEF NoMachine
<1> QED BY <1>1, <1>2 DEF TypeOK, NodeTypeOK

(* Cleanup keeps the controller's invariant.                               *)
LEMMA CleanupKeepsIInv ==
  ASSUME IInv, NEW n \in Nodes, CleanupStep(n)
  PROVE  IInv'
<1>u. ASSUME UNCHANGED vars PROVE IInv'
  BY <1>u, IInvStep
<1>f. faults \in 0..MaxFaults /\ machines \in [Nodes -> [VMs -> MachineInfo]]
  BY DEF IInv, TypeOK, HistoryTypeOK, NodeTypeOK
<1>1. CASE ListMachines(n)
  BY <1>1, <1>u DEF ListMachines
<1>2. CASE ListVMs(n)
  <2>1. CASE UNCHANGED vars
    BY <2>1, <1>u
  <2>2. CASE /\ Fault
             /\ UNCHANGED <<apiVars, queue, timer, workerVars, machines, limbo,
                            nodeVars, edits, waiver>>
    BY <2>2, <1>f, FaultType, RemovalKeepsIInv
  <2> QED BY <1>2, <2>1, <2>2 DEF ListVMs
<1>3. ASSUME NEW v \in VMs, DeleteOrphan(n, v) PROVE IInv'
  <2>1. CASE Execute("delete", n, v, NoSpec) /\ UNCHANGED faults
    BY <1>3, <2>1, <1>f, DeleteExecutes, RemovalKeepsIInv DEF DeleteOrphan, IInv
  <2>2. CASE Refused(n) /\ UNCHANGED machines
    BY <1>3, <2>2, <1>f, FaultType, RemovalKeepsIInv DEF DeleteOrphan, Refused
  <2> QED BY <1>3, <2>1, <2>2 DEF DeleteOrphan
<1> QED BY <1>1, <1>2, <1>3 DEF CleanupStep

-----------------------------------------------------------------------------
(***************************************************************************)
(* What a pass has read stays true.                                        *)
(***************************************************************************)
(* A step of the controller, of users or of nodes.                         *)
LEMMA OtherKeepsInv ==
  ASSUME CleanupInv, OtherStep \/ UNCHANGED cleanupVars
  PROVE  CleanupInv'
<1> USE DEF CleanupInv
<1>n. [Next]_vars
  BY DEF OtherStep, cleanupVars
<1>i. IInv'
  BY <1>n, IInvStep
<1>c. \A n \in Nodes : cleaner'[n] \in {cleaner[n], IdleCleaner}
  BY DEF OtherStep, cleanupVars
<1>1. CleanupTypeOK'
  <2>1. cleaner' \in [Nodes -> CleanerStates]
    BY DEF OtherStep, cleanupVars, CleanupTypeOK, CleanerStates, IdleCleaner
  <2> QED BY <1>i, <2>1 DEF CleanupTypeOK, IInv
<1>2. GoneIsDeleted'
  <2> SUFFICES ASSUME NEW v \in VMs, api'[v].generation > 0, ~api'[v].exists
               PROVE  api'[v].deleting
    BY DEF GoneIsDeleted, removed
  <2>1. writes(v)
    BY <1>n, ApiStep
  <2>2. CASE api[v].exists
    BY <2>1, <2>2 DEF writes
  <2>3. CASE ~api[v].exists
    <3>1. api'[v] = api[v]
      BY <2>1, <2>3 DEF writes
    <3> QED BY <2>3, <3>1 DEF GoneIsDeleted, removed
  <2> QED BY <2>2, <2>3
<1>3. PassEndsWithAgent'
  BY DEF PassEndsWithAgent, OtherStep, cleanupVars, vars
<1>4. PassStaysTrue'
  <2> SUFFICES ASSUME NEW n \in Nodes, NEW v \in cleaner'[n].machines,
                      "moved" \notin waiver'[v]
               PROVE  /\ api'[v].status.nodeName = n
                      /\ cleaner'[n].pc = "delete" => api'[v].deleting
    BY DEF PassStaysTrue
  <2>1. cleaner'[n] = cleaner[n] /\ v \in VMs
    BY <1>c DEF IdleCleaner, CleanupTypeOK, CleanerStates
  <2>2. waiver[v] \subseteq waiver'[v] /\ writes(v)
    BY <2>1, <1>n, ApiStep
  <2>3. /\ api[v].status.nodeName = n
        /\ cleaner[n].pc = "delete" => api[v].deleting
    BY <2>1, <2>2 DEF PassStaysTrue
  <2> QED BY <2>1, <2>2, <2>3, NodesAssumption DEF writes
<1> QED BY <1>i, <1>1, <1>2, <1>3, <1>4

(* A step of a pass.                                                       *)
LEMMA PassKeepsInv ==
  ASSUME CleanupInv, NEW n \in Nodes, CleanupStep(n)
  PROVE  CleanupInv'
<1> USE DEF CleanupInv
<1>i. IInv'
  BY CleanupKeepsIInv
<1>t. cleaner \in [Nodes -> CleanerStates] /\ IdleCleaner \in CleanerStates
  BY DEF CleanupTypeOK, CleanerStates, IdleCleaner
<1>u. UNCHANGED <<api, agent, waiver>>
  BY DEF CleanupStep, ListMachines, ListVMs, DeleteOrphan, vars, apiVars, nodeVars
<1>g. GoneIsDeleted'
  BY <1>u DEF GoneIsDeleted, removed
<1>a. cleaner[n] # IdleCleaner \/ agent[n] # "down"
  BY DEF CleanupStep, ListMachines, ListVMs, DeleteOrphan, IdleCleaner
<1>k. ASSUME NEW next \in CleanerStates, cleaner' = [cleaner EXCEPT ![n] = next],
             \A v \in next.machines :
               \/ "moved" \in waiver[v]
               \/ /\ api[v].status.nodeName = n
                  /\ next.pc = "delete" => api[v].deleting
      PROVE  CleanupInv'
  <2>1. cleaner'[n] = next /\ \A k \in Nodes \ {n} : cleaner'[k] = cleaner[k]
    BY <1>k, <1>t
  <2>2. CleanupTypeOK'
    BY <1>k, <1>t, <1>i DEF CleanupTypeOK, IInv
  <2>3. PassEndsWithAgent'
    BY <2>1, <1>u, <1>a DEF PassEndsWithAgent
  <2>4. PassStaysTrue'
    BY <1>k, <2>1, <1>u DEF PassStaysTrue
  <2> QED BY <2>2, <2>3, <2>4, <1>i, <1>g
<1>p. ASSUME NEW todo \in SUBSET VMs, Proceed(n, todo),
             \A v \in todo : \/ "moved" \in waiver[v]
                             \/ api[v].status.nodeName = n /\ api[v].deleting
      PROVE  CleanupInv'
  <2> DEFINE next == IF todo = {} THEN IdleCleaner ELSE [pc |-> "delete", machines |-> todo]
  <2>1. next \in CleanerStates
    BY <1>t DEF CleanerStates
  <2>2. next.machines = todo
    BY DEF IdleCleaner
  <2>3. cleaner' = [cleaner EXCEPT ![n] = next]
    BY <1>p DEF Proceed
  <2> HIDE DEF next
  <2> QED BY <1>p, <1>k, <2>1, <2>2, <2>3
<1>1. CASE ListMachines(n)
  <2> DEFINE next == [pc |-> "listVMs", machines |-> {v \in VMs : present(n, v)}]
  <2>1. next \in CleanerStates /\ cleaner' = [cleaner EXCEPT ![n] = next]
    BY <1>1 DEF ListMachines, CleanerStates
  <2>2. \A v \in next.machines : "moved" \in waiver[v] \/ api[v].status.nodeName = n
    BY DEF IInv, SoleOwner
  <2>3. next.pc # "delete"
    OBVIOUS
  <2> HIDE DEF next
  <2> QED BY <1>k, <2>1, <2>2, <2>3
<1>2. CASE ListVMs(n)
  <2>1. CASE Proceed(n, cleaner[n].machines \ owned(n))
    <3>1. cleaner[n].machines \ owned(n) \in SUBSET VMs
      BY <1>t DEF CleanerStates
    <3>2. ASSUME NEW v \in cleaner[n].machines \ owned(n), "moved" \notin waiver[v]
          PROVE  api[v].status.nodeName = n /\ api[v].deleting
      <4>1. v \in VMs /\ api[v].status.nodeName = n
        BY <3>1, <3>2 DEF PassStaysTrue
      <4>2. ~api[v].exists \/ api[v].deleting
        BY <3>2, <4>1 DEF owned
      <4>3. api[v].generation > 0
        <5>n. NoObject.status.nodeName = NoNode
          BY DEF NoObject, EmptyStatus
        <5>1. api[v] # NoObject
          BY <4>1, <5>n, NodesAssumption
        <5>2. api[v].generation \in Nat
          BY <4>1 DEF IInv, TypeOK, ApiTypeOK, SmolVM
        <5>3. api[v].generation # 0
          BY <4>1, <5>1 DEF IInv, StoredObjects
        <5> QED BY <5>2, <5>3
      <4> QED BY <4>1, <4>2, <4>3 DEF GoneIsDeleted, removed
    <3> QED BY <2>1, <3>1, <3>2, <1>p
  <2>2. CASE cleaner' = [cleaner EXCEPT ![n] = IdleCleaner]
    <3>1. IdleCleaner.machines = {}
      BY DEF IdleCleaner
    <3> QED BY <2>2, <3>1, <1>k, <1>t
  <2> QED BY <1>2, <2>1, <2>2 DEF ListVMs
<1>3. ASSUME NEW w \in VMs, DeleteOrphan(n, w) PROVE CleanupInv'
  <2>1. cleaner[n].machines \ {w} \in SUBSET VMs
    BY <1>t DEF CleanerStates
  <2>2. /\ cleaner[n].pc = "delete"
        /\ Proceed(n, cleaner[n].machines \ {w})
    BY <1>3 DEF DeleteOrphan
  <2>3. \A v \in cleaner[n].machines \ {w} :
          "moved" \in waiver[v] \/ (api[v].status.nodeName = n /\ api[v].deleting)
    BY <2>2 DEF PassStaysTrue
  <2> QED BY <2>1, <2>2, <2>3, <1>p
<1> QED BY <1>1, <1>2, <1>3 DEF CleanupStep

-----------------------------------------------------------------------------
(***************************************************************************)
(* The theorems.                                                           *)
(***************************************************************************)
(* Before the first pass nothing has been read.                            *)
LEMMA InitCleanupInv ==
  CleanupInit => CleanupInv
<1> SUFFICES ASSUME CleanupInit PROVE CleanupInv
  OBVIOUS
<1>1. IInv
  BY InitIInv DEF CleanupInit
<1>2. \A v \in VMs : api[v].generation = 0
  BY DEF CleanupInit, Init, NoObject
<1>3. \A n \in Nodes : cleaner[n] = IdleCleaner /\ cleaner[n].machines = {}
  BY DEF CleanupInit, IdleCleaner
<1>4. CleanupTypeOK
  BY <1>1 DEF CleanupInit, IInv, CleanupTypeOK, CleanerStates, IdleCleaner
<1> QED BY <1>1, <1>2, <1>3, <1>4
        DEF CleanupInv, GoneIsDeleted, removed, PassEndsWithAgent, PassStaysTrue

(* The controller keeps its invariant beside the cleanup of every node,    *)
(* and every pass acts on what is still true.                              *)
THEOREM CleanupInvariant == CleanupSpec => []CleanupInv
<1>1. CleanupInv /\ [CleanupNext]_cleanupVars => CleanupInv'
  BY OtherKeepsInv, PassKeepsInv DEF CleanupNext
<1> QED BY <1>1, InitCleanupInv, PTL DEF CleanupSpec

(* What a pass has read stays true until it acts on it, although it reads  *)
(* the machines and the objects one after the other and deletes later.     *)
THEOREM PassReadsHold == CleanupSpec => []PassStaysTrue
<1>1. CleanupInv => PassStaysTrue
  BY DEF CleanupInv
<1> QED BY <1>1, CleanupInvariant, PTL

(* Cleanup never takes the machine of an object that is bound to its node  *)
(* and not deleted, unless its binding was overwritten.                    *)
THEOREM CleanupSparesBound == CleanupSpec => SparesBound
<1>1. ASSUME CleanupInv, [CleanupNext]_cleanupVars, NEW n \in Nodes, NEW v \in VMs,
             v \in cleaner[n].machines \ cleaner'[n].machines,
             machines[n][v].state # "absent", machines'[n][v].state = "absent",
             "moved" \notin waiver[v]
      PROVE  ~liveBound(v, n)
  <2>t. cleaner \in [Nodes -> CleanerStates]
    BY <1>1 DEF CleanupInv, CleanupTypeOK
  <2>1. CASE OtherStep
    <3>1. agent'[n] = "down" /\ agent[n] # "down"
      BY <1>1, <2>1 DEF OtherStep, CleanupInv, PassEndsWithAgent, IdleCleaner
    <3>2. UNCHANGED machines
      BY <2>1, <3>1 DEF OtherStep, Next, WorkerStep, UserStep, EnvStep, CreateMachine,
         ResizeMachine, EnsureMachineRunning, StopMachine, DeleteMachine, AddFinalizer,
         Schedule, ConnectRuntime, GetMachine, ConnectForDelete, Release, ForceRelease,
         UpdateStatus, Crash, CreateVM, EditVM, DeleteVM, AnnotateForceDelete, UserWrite,
         Deliver, TimerFires, Reconcile, AgentReport, HeartbeatLapses, AgentFails,
         AgentRecovers, NodeChanges, NodeRecovers, MachineChanges, LateCall, nodeVars
    <3> QED BY <1>1, <3>2
  <2>2. ASSUME NEW k \in Nodes, CleanupStep(k) PROVE ~liveBound(v, n)
    <3>1. CASE ListMachines(k) \/ ListVMs(k)
      BY <1>1, <3>1 DEF ListMachines, ListVMs, vars
    <3>2. ASSUME NEW w \in VMs, DeleteOrphan(k, w) PROVE ~liveBound(v, n)
      <4>1. k = n
        BY <1>1, <3>2, <2>t DEF DeleteOrphan, Proceed
      <4>2. cleaner[n].pc = "delete"
        BY <3>2, <4>1 DEF DeleteOrphan
      <4> QED BY <1>1, <4>2 DEF CleanupInv, PassStaysTrue, liveBound
    <3> QED BY <2>2, <3>1, <3>2 DEF CleanupStep
  <2>3. CASE UNCHANGED cleanupVars
    BY <1>1, <2>3 DEF cleanupVars
  <2> QED BY <1>1, <2>1, <2>2, <2>3 DEF CleanupNext
<1>2. CleanupInv /\ [CleanupNext]_cleanupVars =>
        [\A n \in Nodes, v \in VMs :
           v \in cleaner[n].machines \ cleaner'[n].machines
             /\ present(n, v) /\ ~present(n, v)'
             => ~liveBound(v, n) \/ "moved" \in waiver[v]]_cleanupVars
  BY <1>1 DEF present
<1> QED BY <1>2, CleanupInvariant, PTL DEF CleanupSpec, SparesBound
=============================================================================
