------------------------ MODULE SmolVMControllerProofs ------------------------
(***************************************************************************)
(* Type correctness of SmolVMController, one lemma per group of actions,   *)
(* and what a step may do to the versions of an object.                    *)
(***************************************************************************)
EXTENDS SmolVMController, TLAPS

-----------------------------------------------------------------------------
(***************************************************************************)
(* Types of the values the actions build.                                  *)
(***************************************************************************)
(* The initial object, machine and statusInput have their types.           *)
LEMMA InitialValues ==
  /\ NoObject \in SmolVM
  /\ NoMachine \in MachineInfo
  /\ NoInput \in Inputs
<1>1. NoSpec \in SmolVMSpec
  BY DEF NoSpec, SmolVMSpec, Sizes, PortMappings
<1>2. EmptyStatus \in SmolVMStatus
  BY DEF EmptyStatus, SmolVMStatus, Phases, ReconReasons
<1>3. NoObject \in SmolVM
  BY <1>1, <1>2 DEF NoObject, SmolVM
<1>4. NoMachine \in MachineInfo
  BY <1>1 DEF NoMachine, MachineInfo, SmolVMSpec, PortMappings
<1>5. NoInput \in Inputs
  BY DEF NoInput, Inputs, Phases, ReconReasons
<1> QED BY <1>3, <1>4, <1>5

(* updateStatus writes a status.                                           *)
LEMMA StatusFromType ==
  ASSUME NEW latest \in SmolVM, NEW in \in Inputs
  PROVE  statusFrom(latest, in) \in SmolVMStatus
BY DEF statusFrom, SmolVM, SmolVMStatus, Inputs, Phases, ReconReasons

(* Runtime calls turn machines into machines.                              *)
LEMMA EffectType ==
  ASSUME NEW op \in Operations, NEW spec \in SmolVMSpec, NEW m \in MachineInfo
  PROVE  Effect(op, spec, m) \in MachineInfo
<1>1. buildCreateRequest(spec) \in MachineInfo
  BY DEF buildCreateRequest, MachineInfo, SmolVMSpec
<1>2. buildResizeRequest(spec, m) \in MachineInfo
  <2>1. [r \in DOMAIN m.size |->
          IF r \in Disks /\ spec.size[r] > 0 THEN spec.size[r] ELSE m.size[r]] \in Sizes
    BY DEF MachineInfo, SmolVMSpec, Sizes
  <2> QED BY <2>1 DEF buildResizeRequest, MachineInfo
<1> QED BY <1>1, <1>2, InitialValues DEF Effect, Operations, MachineInfo

(* The comparison ends in a call or in a reason to report.                 *)
LEMMA VerdictType ==
  ASSUME NEW spec, NEW m
  PROVE  verdict(spec, m) \in Operations \cup ReconReasons
BY DEF verdict, Operations, ReconReasons

(* What the worker passes to updateStatus.                                 *)
LEMMA StatusInputType ==
  ASSUME obj \in SmolVM, NEW phase \in Phases, NEW r \in BOOLEAN,
         NEW reason \in ReconReasons
  PROVE  /\ statusInput(phase, r, reason) \in Inputs
         /\ statusInput(phase, r, reason).nodeName = obj.status.nodeName
BY DEF statusInput, Inputs, SmolVM, SmolVMStatus

(* What the worker reports of a machine.                                   *)
LEMMA ObservedType ==
  ASSUME obj \in SmolVM, NEW m, NEW reason \in ReconReasons
  PROVE  Observed(m, reason) \in Inputs
<1>1. phaseFromMachine(m) \in Phases
  BY DEF phaseFromMachine, Phases
<1>2. readyFromMachine(m) \in BOOLEAN
  BY DEF readyFromMachine
<1> QED BY <1>1, <1>2, StatusInputType DEF Observed

-----------------------------------------------------------------------------
(***************************************************************************)
(* The ways a step goes on preserve the types.                             *)
(***************************************************************************)
(* A write to the API server keeps objects, cache and events well typed.   *)
LEMMA PublishType ==
  ASSUME ApiTypeOK, NEW v \in VMs, NEW o \in SmolVM, Publish(v, o)
  PROVE  ApiTypeOK'
BY DEF ApiTypeOK, Publish

(* Going on to another call.                                               *)
LEMMA GotoType ==
  ASSUME WorkerTypeOK, cur \in VMs, NEW next \in PCs,
         next \in Bound => obj.status.nodeName \in Nodes, Goto(next)
  PROVE  WorkerTypeOK'
BY DEF WorkerTypeOK, Goto

(* Going on to updateStatus.                                               *)
LEMMA ReportType ==
  ASSUME WorkerTypeOK, cur \in VMs, NEW in \in Inputs, Report(in)
  PROVE  WorkerTypeOK'
BY DEF WorkerTypeOK, Report, PCs, Bound, Operations

(* Returning from Reconcile.                                               *)
LEMMA ReturnType ==
  ASSUME WorkerTypeOK, cur \in VMs, NEW result, Return(result)
  PROVE  WorkerTypeOK'
BY InitialValues DEF WorkerTypeOK, Return, PCs, Bound, Operations

(* Reporting RuntimeUnavailable.                                           *)
LEMMA UnavailableType ==
  ASSUME WorkerTypeOK, cur \in VMs, runtimeUnavailable
  PROVE  WorkerTypeOK'
<1>1. statusInput("Unknown", FALSE, "RuntimeUnavailable") \in Inputs
  BY StatusInputType DEF WorkerTypeOK, Phases, ReconReasons
<1> QED BY <1>1, ReportType DEF runtimeUnavailable

(* The failure budget is respected.                                        *)
LEMMA FaultType ==
  ASSUME faults \in 0..MaxFaults, Fault
  PROVE  faults' \in 0..MaxFaults
BY ControllerAssumption DEF Fault

(* r.Update of the version read first.                                     *)
LEMMA UpdateType ==
  ASSUME TypeOK, cur \in VMs, NEW o \in SmolVM, Update(o)
  PROVE  ApiTypeOK' /\ WorkerTypeOK' /\ faults' \in 0..MaxFaults
<1>1. CASE Publish(cur, o) /\ Written("done")
  BY <1>1, PublishType, ReturnType, FaultType DEF TypeOK, HistoryTypeOK, Written
<1>2. CASE /\ Return("error") /\ UNCHANGED <<apiVars, faults>>
  BY <1>2, ReturnType DEF TypeOK, HistoryTypeOK, ApiTypeOK, apiVars
<1>3. CASE /\ Fault /\ Return("error") /\ UNCHANGED apiVars
  BY <1>3, ReturnType, FaultType DEF TypeOK, HistoryTypeOK, ApiTypeOK, apiVars
<1> QED BY <1>1, <1>2, <1>3 DEF Update

(* The effect of a call, whatever its outcome.                             *)
LEMMA CallType ==
  ASSUME TypeOK, cur \in VMs, obj.status.nodeName \in Nodes, NEW op \in Operations,
         Call(op, TRUE)
  PROVE  /\ machines' \in [Nodes -> [VMs -> MachineInfo]]
         /\ limbo' \in SUBSET Calls
         /\ faults' \in 0..MaxFaults
         /\ waiver' \in [VMs -> SUBSET Waivers]
<1> DEFINE n == obj.status.nodeName
<1>1. obj.spec \in SmolVMSpec
  BY DEF TypeOK, WorkerTypeOK, SmolVM
<1>2. ASSUME Execute(op, n, cur, obj.spec)
      PROVE  machines' \in [Nodes -> [VMs -> MachineInfo]]
  <2>1. Effect(op, obj.spec, machines[n][cur]) \in MachineInfo
    BY <1>1, EffectType DEF TypeOK, NodeTypeOK
  <2> QED BY <1>2, <2>1 DEF Execute, TypeOK, NodeTypeOK
<1>3. [op |-> op, node |-> n, vm |-> cur, spec |-> obj.spec] \in Calls
  BY <1>1 DEF Calls
<1>4. [waiver EXCEPT ![cur] = IF op = "create" THEN @ \cup {"late"} ELSE @]
        \in [VMs -> SUBSET Waivers]
  BY DEF TypeOK, HistoryTypeOK, Waivers
<1>5. faults' \in 0..MaxFaults
  BY FaultType DEF Call, Refused, TypeOK, HistoryTypeOK
<1>6. machines' \in [Nodes -> [VMs -> MachineInfo]]
  BY <1>2 DEF Call, TypeOK, NodeTypeOK
<1>7. limbo' \in SUBSET Calls
  BY <1>3 DEF Call, TypeOK, NodeTypeOK
<1>8. waiver' \in [VMs -> SUBSET Waivers]
  BY <1>4 DEF Call, TypeOK, HistoryTypeOK
<1> QED BY <1>5, <1>6, <1>7, <1>8

-----------------------------------------------------------------------------
(***************************************************************************)
(* Every step preserves TypeOK.                                            *)
(***************************************************************************)
(* The branch Reconcile takes addresses a node only for a bound object.    *)
LEMMA DispatchType ==
  ASSUME NEW o \in SmolVM
  PROVE  /\ Dispatch(o) \in PCs
         /\ Dispatch(o) \in Bound => o.status.nodeName \in Nodes
         /\ Dispatch(o) # "idle"
BY DEF Dispatch, PCs, Bound, Operations, SmolVM, SmolVMStatus

(* A pass of the worker starts.                                            *)
LEMMA ReconcileTypeOK ==
  ASSUME TypeOK, NEW v \in VMs, Reconcile(v)
  PROVE  TypeOK'
<1> USE DEF Reconcile
<1>1. ApiTypeOK' /\ NodeTypeOK' /\ HistoryTypeOK'
  BY DEF TypeOK, ApiTypeOK, NodeTypeOK, HistoryTypeOK, apiVars, nodeVars
<1>2. CASE UNCHANGED workerVars
  BY <1>1, <1>2 DEF TypeOK, WorkerTypeOK, workerVars
<1>3. CASE /\ cur' = v /\ obj' = cache[v] /\ pc' = Dispatch(cache[v])
           /\ fresh' \in BOOLEAN
           /\ input' = IF pc' = "status"
                         THEN [NoInput EXCEPT !.phase = "Failed",
                                 !.nodeName = cache[v].status.nodeName,
                                 !.reconciled = "InvalidSpec"]
                         ELSE NoInput
  <2>1. cache[v] \in SmolVM
    BY DEF TypeOK, ApiTypeOK
  <2>2. input' \in Inputs
    BY <1>3, <2>1, InitialValues
    DEF Inputs, NoInput, SmolVM, SmolVMStatus, Phases, ReconReasons
  <2> QED BY <1>1, <1>3, <2>1, <2>2, DispatchType DEF TypeOK, WorkerTypeOK
<1> QED BY <1>2, <1>3

(* The worker's own steps.                                                 *)
LEMMA WorkerTypeOKStep ==
  ASSUME TypeOK, WorkerStep
  PROVE  TypeOK'
<1> USE DEF TypeOK
<1>0. ASSUME UNCHANGED <<apiVars>> PROVE ApiTypeOK'
  BY <1>0 DEF ApiTypeOK, apiVars
<1>n. ASSUME UNCHANGED <<machines, limbo, nodeVars>> PROVE NodeTypeOK'
  BY <1>n DEF NodeTypeOK, nodeVars
<1>h. ASSUME UNCHANGED <<edits, waiver>>, faults' \in 0..MaxFaults PROVE HistoryTypeOK'
  BY <1>h DEF HistoryTypeOK
<1>f. faults \in 0..MaxFaults
  BY DEF HistoryTypeOK
<1>o. obj \in SmolVM /\ obj.spec \in SmolVMSpec
  BY DEF WorkerTypeOK, SmolVM
<1>c. ASSUME pc # "idle" PROVE cur \in VMs
  BY <1>c DEF WorkerTypeOK
<1>b. ASSUME pc \in Bound PROVE cur \in VMs /\ obj.status.nodeName \in Nodes
  BY <1>b DEF WorkerTypeOK, Bound, Operations
<1>r. ASSUME NEW op \in Operations, pc = op, Call(op, TRUE),
             UNCHANGED <<apiVars, nodeVars, edits>>
      PROVE  ApiTypeOK' /\ NodeTypeOK' /\ HistoryTypeOK'
  BY <1>r, <1>0, <1>b, CallType DEF Bound, NodeTypeOK, HistoryTypeOK, nodeVars
<1>1. CASE AddFinalizer
  <2>1. [obj EXCEPT !.finalizer = TRUE] \in SmolVM
    BY <1>o DEF SmolVM
  <2> QED BY <1>1, <2>1, <1>c, <1>n, <1>h, UpdateType DEF AddFinalizer
<1>2. CASE Schedule
  <2> USE DEF Schedule
  <2>1. cur \in VMs
    BY <1>2, <1>c
  <2>2. ASSUME NEW n \in Nodes
        PROVE  [statusInput("Scheduled", FALSE, "RuntimePending")
                  EXCEPT !.nodeName = n, !.scheduled = "Bound"] \in Inputs
    <3>1. statusInput("Scheduled", FALSE, "RuntimePending") \in Inputs
      BY <1>o, StatusInputType DEF Phases, ReconReasons
    <3> QED BY <3>1 DEF Inputs
  <2>3. [statusInput("Pending", FALSE, "AwaitingNodeAssignment")
           EXCEPT !.scheduled = "NoEligibleNodes"] \in Inputs
    <3>1. statusInput("Pending", FALSE, "AwaitingNodeAssignment") \in Inputs
      BY <1>o, StatusInputType DEF Phases, ReconReasons
    <3> QED BY <3>1 DEF Inputs
  <2>4. WorkerTypeOK'
    BY <1>2, <2>1, <2>2, <2>3, ReportType DEF candidates
  <2> QED BY <1>2, <2>4, <1>0, <1>n, <1>h, <1>f
<1>3. CASE ConnectRuntime
  <2> USE DEF ConnectRuntime
  <2>1. cur \in VMs /\ obj.status.nodeName \in Nodes
    BY <1>3, <1>b DEF Bound
  <2>2. WorkerTypeOK' /\ faults' \in 0..MaxFaults
    BY <1>3, <2>1, <1>f, GotoType, UnavailableType, FaultType DEF PCs
  <2> QED BY <1>3, <2>2, <1>0, <1>n, <1>h
<1>4. CASE GetMachine
  <2> USE DEF GetMachine
  <2>1. cur \in VMs /\ obj.status.nodeName \in Nodes
    BY <1>4, <1>b DEF Bound
  <2> DEFINE m == machines[obj.status.nodeName][cur]
             next == verdict(obj.spec, m)
  <2>2. ASSUME next \in Operations /\ Goto(next) PROVE WorkerTypeOK'
    BY <2>1, <2>2, GotoType DEF PCs
  <2>3. ASSUME next \notin Operations /\ Report(Observed(m, next)) PROVE WorkerTypeOK'
    <3>1. next \in ReconReasons
      BY <2>3, VerdictType
    <3>2. Observed(m, next) \in Inputs
      BY <3>1, <1>o, ObservedType
    <3> QED BY <2>1, <2>3, <3>2, ReportType
  <2>4. ASSUME runtimeUnavailable PROVE WorkerTypeOK'
    BY <2>1, <2>4, UnavailableType
  <2>5. WorkerTypeOK'
    BY <1>4, <2>2, <2>3, <2>4
  <2>6. faults' \in 0..MaxFaults
    BY <1>4, <1>f, FaultType DEF Refused
  <2> QED BY <1>4, <2>5, <2>6, <1>0, <1>n, <1>h
<1>5. CASE CreateMachine
  <2> DEFINE m == machines[obj.status.nodeName][cur]
             in == statusInput(phaseFromMachine(Effect("create", obj.spec, m)),
                               FALSE, "StartPending")
  <2>1. cur \in VMs
    BY <1>5, <1>b DEF CreateMachine, Bound, Operations
  <2>2. Call("create", TRUE) /\ (Report(in) \/ runtimeUnavailable)
    BY <1>5 DEF CreateMachine, Call
  <2>3. in \in Inputs
    BY <1>o, StatusInputType DEF phaseFromMachine, Phases, ReconReasons
  <2>4. WorkerTypeOK'
    BY <2>1, <2>2, <2>3, ReportType, UnavailableType
  <2> QED BY <1>5, <2>2, <2>4, <1>r DEF CreateMachine, Operations
<1>6. CASE ResizeMachine \/ EnsureMachineRunning \/ StopMachine
  <2>1. PICK op \in {"resize", "start", "stop"} :
          pc = op /\ Call(op, Return("requeue")) /\ UNCHANGED <<apiVars, nodeVars, edits>>
    BY <1>6 DEF ResizeMachine, EnsureMachineRunning, StopMachine
  <2>2. cur \in VMs
    BY <2>1, <1>b DEF Bound, Operations
  <2>3. Call(op, TRUE) /\ (Return("requeue") \/ runtimeUnavailable)
    BY <2>1 DEF Call
  <2>4. WorkerTypeOK'
    BY <2>2, <2>3, ReturnType, UnavailableType
  <2> QED BY <2>1, <2>3, <2>4, <1>r DEF Operations
<1>7. CASE ConnectForDelete
  <2> USE DEF ConnectForDelete
  <2>1. cur \in VMs /\ obj.status.nodeName \in Nodes
    BY <1>7, <1>b DEF Bound
  <2>2. [statusInput("Deleting", FALSE, "DeletionBlocked")
           EXCEPT !.scheduled = "Bound", !.deletionBlocked = TRUE] \in Inputs
    <3>1. statusInput("Deleting", FALSE, "DeletionBlocked") \in Inputs
      BY <1>o, StatusInputType DEF Phases, ReconReasons
    <3> QED BY <3>1 DEF Inputs
  <2>3. WorkerTypeOK'
    BY <1>7, <2>1, <2>2, GotoType, ReportType DEF PCs, Operations, Bound
  <2>4. faults' \in 0..MaxFaults
    BY <1>7, <1>f, FaultType
  <2> QED BY <1>7, <2>3, <2>4, <1>0, <1>n, <1>h
<1>8. CASE DeleteMachine
  <2>1. cur \in VMs
    BY <1>8, <1>b DEF DeleteMachine, Bound, Operations
  <2>2. Call("delete", TRUE) /\ (Goto("release") \/ runtimeUnavailable)
    BY <1>8 DEF DeleteMachine, Call
  <2>3. WorkerTypeOK'
    BY <2>1, <2>2, GotoType, UnavailableType DEF PCs, Bound, Operations
  <2> QED BY <1>8, <2>2, <2>3, <1>r DEF DeleteMachine, Operations
<1>9. ASSUME pc \in {"release", "forceRelease"}, Update(RemoveFinalizer(obj))
      PROVE  ApiTypeOK' /\ WorkerTypeOK' /\ faults' \in 0..MaxFaults
  <2>1. RemoveFinalizer(obj) \in SmolVM
    BY <1>o DEF SmolVM, RemoveFinalizer
  <2> QED BY <1>9, <2>1, <1>c, UpdateType
<1>10. CASE Release
  BY <1>10, <1>9, <1>n, <1>h DEF Release
<1>11. CASE ForceRelease
  <2>1. ApiTypeOK' /\ WorkerTypeOK' /\ faults' \in 0..MaxFaults
    BY <1>11, <1>9 DEF ForceRelease
  <2>2. cur \in VMs
    BY <1>11, <1>c DEF ForceRelease
  <2>3. HistoryTypeOK'
    BY <1>11, <2>1, <2>2 DEF ForceRelease, HistoryTypeOK, Waivers
  <2> QED BY <1>11, <2>1, <2>3, <1>n DEF ForceRelease
<1>12. CASE UpdateStatus
  <2> USE DEF UpdateStatus
  <2>1. cur \in VMs
    BY <1>12, <1>c
  <2> DEFINE latest == cache[cur]
             new == statusFrom(latest, input)
  <2>2. latest \in SmolVM
    BY <2>1 DEF ApiTypeOK
  <2>3. [latest EXCEPT !.status = new] \in SmolVM
    <3>1. new \in SmolVMStatus
      BY <2>2, StatusFromType DEF WorkerTypeOK
    <3> QED BY <2>2, <3>1 DEF SmolVM
  <2>4. WorkerTypeOK'
    BY <1>12, <2>1, ReturnType DEF Written
  <2>5. ApiTypeOK'
    BY <1>12, <2>1, <2>3, <1>0, PublishType
  <2>6. faults' \in 0..MaxFaults
    BY <1>12, <1>f, FaultType DEF Written
  <2>7. waiver' \in [VMs -> SUBSET Waivers]
    BY <1>12, <2>1 DEF HistoryTypeOK, Waivers
  <2> QED BY <1>12, <2>4, <2>5, <2>6, <2>7, <1>n DEF HistoryTypeOK
<1> QED BY <1>1, <1>2, <1>3, <1>4, <1>5, <1>6, <1>7, <1>8, <1>10, <1>11, <1>12
        DEF WorkerStep

(* Watch events, timers and a restart of the manager.                      *)
LEMMA ManagerTypeOK ==
  ASSUME TypeOK, Crash \/ \E v \in VMs : Deliver(v) \/ TimerFires(v)
  PROVE  TypeOK'
<1>1. ASSUME NEW v \in VMs, Deliver(v) PROVE TypeOK'
  <2>1. Head(watch[v]) \in SmolVM /\ Tail(watch[v]) \in Seq(SmolVM)
    BY <1>1 DEF Deliver, TypeOK, ApiTypeOK
  <2>2. ApiTypeOK'
    BY <1>1, <2>1 DEF Deliver, TypeOK, ApiTypeOK
  <2>3. WorkerTypeOK'
    BY <1>1 DEF Deliver, TypeOK, WorkerTypeOK, workerVars
  <2> QED BY <1>1, <2>2, <2>3 DEF Deliver, TypeOK, NodeTypeOK, HistoryTypeOK, nodeVars
<1>2. ASSUME NEW v \in VMs, TimerFires(v) PROVE TypeOK'
  BY <1>2 DEF TimerFires, TypeOK, ApiTypeOK, WorkerTypeOK, NodeTypeOK, HistoryTypeOK,
              apiVars, workerVars, nodeVars
<1>3. CASE Crash
  <2>1. ApiTypeOK'
    BY <1>3 DEF Crash, TypeOK, ApiTypeOK
  <2>2. WorkerTypeOK'
    BY <1>3, InitialValues DEF Crash, TypeOK, WorkerTypeOK, PCs, Bound, Operations
  <2> QED BY <1>3, <2>1, <2>2, FaultType
          DEF Crash, TypeOK, NodeTypeOK, HistoryTypeOK, nodeVars
<1> QED BY <1>1, <1>2, <1>3

(* A user's write.                                                         *)
LEMMA UserWriteType ==
  ASSUME TypeOK, NEW v \in VMs, NEW o \in SmolVM, UserWrite(v, o),
         edits' \in 0..MaxEdits
  PROVE  TypeOK'
<1>1. ApiTypeOK'
  BY PublishType DEF UserWrite, TypeOK
<1>2. WorkerTypeOK' /\ NodeTypeOK'
  BY DEF UserWrite, Publish, TypeOK, WorkerTypeOK, NodeTypeOK, nodeVars
<1> QED BY <1>1, <1>2 DEF UserWrite, TypeOK, HistoryTypeOK

(* Create, update, annotate, delete.                                       *)
LEMMA UserTypeOK ==
  ASSUME TypeOK, UserStep
  PROVE  TypeOK'
<1>e. edits \in 0..MaxEdits /\ MaxEdits \in Nat
  BY ControllerAssumption DEF TypeOK, HistoryTypeOK
<1>a. ASSUME NEW v \in VMs PROVE api[v] \in SmolVM
  BY DEF TypeOK, ApiTypeOK
<1>s. ASSUME NEW v \in VMs, NEW s \in SpecsOf[v] PROVE s \in SmolVMSpec
  BY ControllerAssumption
<1>1. ASSUME NEW v \in VMs, NEW s \in SpecsOf[v], CreateVM(v, s) PROVE TypeOK'
  <2>1. [NoObject EXCEPT !.exists = TRUE, !.generation = 1, !.spec = s] \in SmolVM
    BY <1>s, InitialValues DEF SmolVM
  <2> QED BY <1>1, <2>1, <1>e, UserWriteType DEF CreateVM
<1>2. ASSUME NEW v \in VMs, NEW s \in SpecsOf[v], EditVM(v, s) PROVE TypeOK'
  <2>1. [api[v] EXCEPT !.spec = s, !.generation = @ + 1] \in SmolVM
    <3>1. api[v].generation + 1 \in Nat
      BY <1>a DEF SmolVM
    <3> QED BY <1>s, <1>a, <3>1 DEF SmolVM
  <2> QED BY <1>2, <2>1, <1>e, UserWriteType DEF EditVM
<1>3. ASSUME NEW v \in VMs, DeleteVM(v) PROVE TypeOK'
  <2>1. [api[v] EXCEPT !.deleting = TRUE, !.generation = @ + 1,
                       !.exists = api[v].finalizer] \in SmolVM
    <3>1. api[v].generation + 1 \in Nat /\ api[v].finalizer \in BOOLEAN
      BY <1>a DEF SmolVM
    <3> QED BY <1>a, <3>1 DEF SmolVM
  <2> QED BY <1>3, <2>1, <1>e, UserWriteType DEF DeleteVM
<1>4. ASSUME NEW v \in VMs, AnnotateForceDelete(v) PROVE TypeOK'
  <2>1. [api[v] EXCEPT !.forceDelete = TRUE] \in SmolVM
    BY <1>a DEF SmolVM
  <2> QED BY <1>4, <2>1, <1>e, UserWriteType DEF AnnotateForceDelete
<1> QED BY <1>1, <1>2, <1>3, <1>4 DEF UserStep

(* Agents, Kubernetes Nodes, machines and late calls.                      *)
LEMMA EnvTypeOK ==
  ASSUME TypeOK, EnvStep
  PROVE  TypeOK'
<1>u. ASSUME NodeStep, queue' \in SUBSET VMs, faults' \in 0..MaxFaults, NodeTypeOK'
      PROVE  TypeOK'
  BY <1>u DEF NodeStep, TypeOK, ApiTypeOK, WorkerTypeOK, HistoryTypeOK,
              apiVars, workerVars
<1>f. faults \in 0..MaxFaults /\ queue \in SUBSET VMs
  BY DEF TypeOK, HistoryTypeOK, WorkerTypeOK
<1>1. ASSUME NEW n \in Nodes, AgentReport(n) PROVE TypeOK'
  <2>1. NodeTypeOK'
    BY <1>1 DEF AgentReport, NodeStep, TypeOK, NodeTypeOK
  <2> QED BY <1>1, <2>1, <1>u, <1>f DEF AgentReport, requestsForNodeChange
<1>2. ASSUME NEW n \in Nodes, HeartbeatLapses(n) PROVE TypeOK'
  <2>1. NodeTypeOK'
    BY <1>2 DEF HeartbeatLapses, NodeStep, TypeOK, NodeTypeOK
  <2> QED BY <1>2, <2>1, <1>u, <1>f DEF HeartbeatLapses
<1>3. ASSUME NEW n \in Nodes, AgentFails(n) PROVE TypeOK'
  <2>1. NodeTypeOK'
    BY <1>3 DEF AgentFails, NodeStep, TypeOK, NodeTypeOK
  <2> QED BY <1>3, <2>1, <1>u, <1>f, FaultType DEF AgentFails
<1>4. ASSUME NEW n \in Nodes, AgentRecovers(n) PROVE TypeOK'
  <2>1. NodeTypeOK'
    BY <1>4 DEF AgentRecovers, NodeStep, TypeOK, NodeTypeOK
  <2> QED BY <1>4, <2>1, <1>u, <1>f DEF AgentRecovers
<1>5. ASSUME NEW n \in Nodes, NodeChanges(n) PROVE TypeOK'
  <2>1. NodeTypeOK'
    BY <1>5 DEF NodeChanges, NodeStep, TypeOK, NodeTypeOK
  <2> QED BY <1>5, <2>1, <1>u, <1>f, FaultType DEF NodeChanges, requestsForNodeChange
<1>r. ASSUME NEW n \in Nodes, NodeRecovers(n) PROVE TypeOK'
  <2>1. NodeTypeOK'
    BY <1>r DEF NodeRecovers, NodeStep, TypeOK, NodeTypeOK
  <2> QED BY <1>r, <2>1, <1>u, <1>f DEF NodeRecovers, requestsForNodeChange
<1>6. ASSUME NEW n \in Nodes, NEW v \in VMs, MachineChanges(n, v) PROVE TypeOK'
  <2>1. machines[n][v] \in MachineInfo
    BY DEF TypeOK, NodeTypeOK
  <2>2. [machines[n][v] EXCEPT !.state = "stopped"] \in MachineInfo
    BY <2>1 DEF MachineInfo
  <2>3. machines' \in [Nodes -> [VMs -> MachineInfo]]
    <3>1. PICK m \in MachineInfo : machines' = [machines EXCEPT ![n][v] = m]
      BY <1>6, <2>2, InitialValues DEF MachineChanges
    <3> QED BY <3>1 DEF TypeOK, NodeTypeOK
  <2>4. NodeTypeOK'
    BY <1>6, <2>3 DEF MachineChanges, NodeStep, TypeOK, NodeTypeOK, nodeVars
  <2> QED BY <1>6, <2>4, <1>u, <1>f, FaultType DEF MachineChanges
<1>7. ASSUME NEW c \in limbo, LateCall(c) PROVE TypeOK'
  <2>1. /\ c.op \in Operations /\ c.node \in Nodes /\ c.vm \in VMs
        /\ c.spec \in SmolVMSpec
    BY DEF TypeOK, NodeTypeOK, Calls
  <2>2. Effect(c.op, c.spec, machines[c.node][c.vm]) \in MachineInfo
    BY <2>1, EffectType DEF TypeOK, NodeTypeOK
  <2>3. machines' \in [Nodes -> [VMs -> MachineInfo]]
    <3> DEFINE e == Effect(c.op, c.spec, machines[c.node][c.vm])
    <3>1. CASE machines' = [machines EXCEPT ![c.node][c.vm] = e]
      <4>1. e \in MachineInfo
        BY <2>2
      <4> HIDE DEF e
      <4> QED BY <2>1, <4>1, <3>1 DEF TypeOK, NodeTypeOK
    <3>2. CASE UNCHANGED machines
      BY <3>2 DEF TypeOK, NodeTypeOK
    <3> QED BY <1>7, <3>1, <3>2 DEF LateCall, Execute
  <2>4. NodeTypeOK'
    BY <1>7, <2>3 DEF LateCall, TypeOK, NodeTypeOK, nodeVars
  <2> QED BY <1>7, <2>4 DEF LateCall, TypeOK, ApiTypeOK, WorkerTypeOK, HistoryTypeOK,
                            apiVars, workerVars
<1> QED BY <1>1, <1>2, <1>3, <1>4, <1>5, <1>r, <1>6, <1>7 DEF EnvStep

(* No step of the controller, of its users or of the nodes leaves the      *)
(* types.                                                                  *)
LEMMA TypeOKStep ==
  TypeOK /\ [Next]_vars => TypeOK'
<1>1. ASSUME TypeOK, UNCHANGED vars PROVE TypeOK'
  BY <1>1 DEF vars, TypeOK, ApiTypeOK, WorkerTypeOK, NodeTypeOK, HistoryTypeOK
<1> QED BY <1>1, ManagerTypeOK, ReconcileTypeOK, WorkerTypeOKStep, UserTypeOK, EnvTypeOK
        DEF Next

(* The initial state is well typed.                                        *)
LEMMA InitTypeOK ==
  Init => TypeOK
<1> SUFFICES ASSUME Init PROVE TypeOK
  OBVIOUS
<1> USE InitialValues DEF Init
<1>1. ApiTypeOK
  BY DEF ApiTypeOK
<1>2. WorkerTypeOK
  BY DEF WorkerTypeOK, PCs, Bound, Operations
<1>3. NodeTypeOK
  BY DEF NodeTypeOK
<1>4. HistoryTypeOK
  BY ControllerAssumption DEF HistoryTypeOK
<1> QED BY <1>1, <1>2, <1>3, <1>4 DEF TypeOK

(* TypeOK is an invariant of the controller for any number of objects,     *)
(* nodes, edits and failures: the worker never builds a malformed status   *)
(* or call, and never addresses a runtime for an unbound object.           *)
THEOREM TypeCorrect == Spec => []TypeOK
<1> QED BY InitTypeOK, TypeOKStep, PTL DEF Spec

-----------------------------------------------------------------------------
(***************************************************************************)
(* The versions of an object that the cache, the watch events and the pass *)
(* under way hold stay consistent with the API server (VersionStep), and   *)
(* what any step may do to the object the API server holds (ApiStep).      *)
(***************************************************************************)
(* What every action leaves of the versions of an object, if it writes     *)
(* nothing.                                                                *)
VersionInv == Lineage /\ DeletionSeenInOrder /\ FreshVersions /\ StoredObjects

(* A write keeps the versions consistent if it keeps a deletion mark and   *)
(* records an overwritten binding, and if it takes the finalizer only when *)
(* the cache has seen the deletion and the pass ends.                      *)
LEMMA PublishVersions ==
  ASSUME TypeOK, VersionInv, NEW v \in VMs, NEW o \in SmolVM, Publish(v, o),
         waiver' \in [VMs -> SUBSET Waivers],
         \A w \in VMs : waiver[w] \subseteq waiver'[w],
         \/ cur' = cur /\ obj' = obj
         \/ cur' = NoVM /\ ~fresh',
         api[v].deleting => o.deleting,
         o.generation # 0,
         o.finalizer => o.exists,
         \/ o.exists /\ o.finalizer
         \/ ~(api[v].exists /\ api[v].finalizer)
         \/ cache[v].deleting /\ cur' = NoVM,
         "moved" \notin waiver'[v] =>
           api[v].status.nodeName \in {NoNode, o.status.nodeName}
  PROVE  VersionInv'
<1> USE DEF VersionInv
<1>t. /\ \A w \in VMs : api[w] \in SmolVM /\ cache[w] \in SmolVM /\ watch[w] \in Seq(SmolVM)
      /\ api \in [VMs -> SmolVM] /\ watch \in [VMs -> Seq(SmolVM)]
  BY DEF TypeOK, ApiTypeOK
<1>p. /\ api' = [api EXCEPT ![v] = o]
      /\ watch' = [watch EXCEPT ![v] = Append(watch[v], o)]
      /\ cache' = cache
  BY DEF Publish
<1>a. /\ api'[v] = o
      /\ \A w \in VMs \ {v} : api'[w] = api[w] /\ watch'[w] = watch[w]
  BY <1>t, <1>p
<1>w. /\ Len(watch'[v]) = Len(watch[v]) + 1 /\ Len(watch[v]) \in Nat
      /\ \A i \in 1..Len(watch[v]) : watch'[v][i] = watch[v][i]
      /\ watch'[v][Len(watch[v]) + 1] = o
  BY <1>t, <1>p
<1>n. NoVM \notin VMs
  BY ControllerAssumption
<1>1. StoredObjects'
  BY <1>a DEF StoredObjects
<1>3. ASSUME NEW x, lineage(v, x),
             ~(o.exists /\ o.finalizer) => ~(x.finalizer /\ ~x.deleting)
      PROVE  /\ x.finalizer /\ ~x.deleting => api'[v].exists /\ api'[v].finalizer
             /\ x.deleting => api'[v].deleting
             /\ "moved" \notin waiver'[v] =>
                  x.status.nodeName \in {NoNode, api'[v].status.nodeName}
  BY <1>3, <1>a DEF lineage
<1>4. /\ o.finalizer /\ ~o.deleting => api'[v].exists /\ api'[v].finalizer
      /\ o.deleting => api'[v].deleting
      /\ "moved" \notin waiver'[v] =>
           o.status.nodeName \in {NoNode, api'[v].status.nodeName}
  BY <1>a
<1>5. ~(o.exists /\ o.finalizer) =>
        /\ ~(cache[v].finalizer /\ ~cache[v].deleting)
        /\ \A i \in 1..Len(watch[v]) : ~(watch[v][i].finalizer /\ ~watch[v][i].deleting)
        /\ cur' = v => ~(obj.finalizer /\ ~obj.deleting)
  BY <1>n DEF Lineage, lineage, DeletionSeenInOrder
<1>6. Lineage'
  <2> SUFFICES ASSUME NEW w \in VMs
               PROVE  /\ lineage(w, cache[w])'
                      /\ \A i \in 1..Len(watch'[w]) : lineage(w, watch[w][i])'
                      /\ cur' = w => lineage(w, obj)'
    BY DEF Lineage
  <2>1. CASE w # v
    <3>1. cache'[w] = cache[w] /\ watch'[w] = watch[w]
      BY <2>1, <1>a, <1>p
    <3> QED BY <2>1, <3>1, <1>a, <1>n DEF Lineage, lineage
  <2>2. CASE w = v
    <3>1. lineage(v, cache[v])'
      BY <1>3, <1>5, <1>p DEF Lineage, lineage
    <3>2. ASSUME NEW i \in 1..Len(watch'[v]) PROVE lineage(v, watch[v][i])'
      <4>1. CASE i \in 1..Len(watch[v])
        <5>1. lineage(v, watch[v][i]) /\ watch'[v][i] = watch[v][i]
          BY <4>1, <1>w DEF Lineage
        <5> QED BY <4>1, <5>1, <1>3, <1>5 DEF lineage
      <4>2. CASE i = Len(watch[v]) + 1
        BY <4>2, <1>w, <1>4 DEF lineage
      <4> QED BY <4>1, <4>2, <1>w
    <3>3. ASSUME cur' = v PROVE lineage(v, obj)'
      <4>1. cur = v /\ obj' = obj /\ lineage(v, obj)
        BY <3>3, <1>n DEF Lineage
      <4> QED BY <3>3, <4>1, <1>3, <1>5 DEF lineage
    <3> QED BY <2>2, <3>1, <3>2, <3>3
  <2> QED BY <2>1, <2>2
<1>7. DeletionSeenInOrder'
  <2> SUFFICES ASSUME NEW w \in VMs
               PROVE  /\ cur' = w /\ obj'.deleting => cache'[w].deleting
                      /\ \A i \in 1..Len(watch'[w]) :
                           cache'[w].deleting => watch'[w][i].deleting
                      /\ \A i, j \in 1..Len(watch'[w]) :
                           i =< j /\ watch'[w][i].deleting => watch'[w][j].deleting
    BY DEF DeletionSeenInOrder
  <2>1. cur' = w /\ obj'.deleting => cache'[w].deleting
    BY <1>p, <1>n DEF DeletionSeenInOrder
  <2>2. CASE w # v
    BY <2>1, <2>2, <1>a, <1>p DEF DeletionSeenInOrder
  <2>3. CASE w = v
    <3>1. cache[v].deleting => o.deleting
      BY DEF Lineage, lineage
    <3>2. \A i \in 1..Len(watch[v]) : watch[v][i].deleting => o.deleting
      BY DEF Lineage, lineage
    <3>3. \A i \in 1..Len(watch'[v]) : i \in 1..Len(watch[v]) \/ i = Len(watch[v]) + 1
      BY <1>w
    <3>4. \A i \in 1..Len(watch'[v]) : cache'[v].deleting => watch'[v][i].deleting
      BY <3>1, <3>3, <1>w, <1>p DEF DeletionSeenInOrder
    <3>5. ASSUME NEW i \in 1..Len(watch'[v]), NEW j \in 1..Len(watch'[v]),
                 i =< j, watch'[v][i].deleting
          PROVE  watch'[v][j].deleting
      <4>1. CASE j = Len(watch[v]) + 1
        BY <3>2, <3>3, <3>5, <4>1, <1>w
      <4>2. CASE j \in 1..Len(watch[v])
        <5>1. i \in 1..Len(watch[v])
          BY <3>5, <4>2, <1>w
        <5> QED BY <3>5, <4>2, <5>1, <1>w DEF DeletionSeenInOrder
      <4> QED BY <3>3, <4>1, <4>2
    <3> QED BY <2>1, <2>3, <3>4, <3>5
  <2> QED BY <2>2, <2>3
<1>8. FreshVersions'
  <2>1. watch'[v] # <<>> /\ watch'[v][Len(watch'[v])] = api'[v]
    BY <1>t, <1>a, <1>w
  <2>2. fresh' => cur' \in VMs /\ obj' = api'[cur']
    <3>1. fresh' => fresh /\ cur # v /\ cur' = cur /\ obj' = obj
      BY DEF Publish
    <3> QED BY <3>1, <1>a DEF FreshVersions
  <2> QED BY <2>1, <2>2, <1>a, <1>p DEF FreshVersions
<1> QED BY <1>1, <1>6, <1>7, <1>8

(* A step that writes nothing to the API server.                           *)
LEMMA QuietVersions ==
  ASSUME VersionInv, UNCHANGED apiVars,
         \A w \in VMs : waiver[w] \subseteq waiver'[w],
         \/ cur' = cur /\ obj' = obj /\ fresh' = fresh
         \/ cur' = NoVM /\ ~fresh'
  PROVE  VersionInv'
<1>1. NoVM \notin VMs
  BY ControllerAssumption
<1>3. Lineage'
  <2>1. \A v \in VMs : lineage(v, cache[v])'
    BY DEF VersionInv, Lineage, lineage, apiVars
  <2>2. \A v \in VMs : \A i \in 1..Len(watch'[v]) : lineage(v, watch[v][i])'
    BY DEF VersionInv, Lineage, lineage, apiVars
  <2>3. \A v \in VMs : cur' = v => lineage(v, obj)'
    BY <1>1 DEF VersionInv, Lineage, lineage, apiVars
  <2> QED BY <2>1, <2>2, <2>3 DEF Lineage
<1>4. DeletionSeenInOrder' /\ StoredObjects'
  BY <1>1 DEF VersionInv, DeletionSeenInOrder, StoredObjects, apiVars
<1>5. FreshVersions'
  BY DEF VersionInv, FreshVersions, apiVars
<1> QED BY <1>3, <1>4, <1>5 DEF VersionInv

(* Watch events, a restart, and the start of a pass.                       *)
LEMMA ReadVersions ==
  ASSUME TypeOK, VersionInv,
         Crash \/ \E v \in VMs : Deliver(v) \/ Reconcile(v)
  PROVE  VersionInv'
<1>n. NoVM \notin VMs
  BY ControllerAssumption
<1>1. ASSUME NEW v \in VMs, Deliver(v) PROVE VersionInv'
  <2>1. /\ watch[v] \in Seq(SmolVM) /\ watch[v] # <<>>
        /\ api' = api /\ waiver' = waiver /\ cur' = cur /\ obj' = obj /\ fresh' = fresh
        /\ cache' = [cache EXCEPT ![v] = Head(watch[v])]
        /\ watch' = [watch EXCEPT ![v] = Tail(watch[v])]
    BY <1>1 DEF Deliver, TypeOK, ApiTypeOK, workerVars
  <2>2. /\ cache'[v] = watch[v][1] /\ 1 \in 1..Len(watch[v])
        /\ Len(watch'[v]) = Len(watch[v]) - 1 /\ Len(watch[v]) \in Nat
        /\ \A i \in 1..Len(watch'[v]) :
             watch'[v][i] = watch[v][i + 1] /\ i + 1 \in 1..Len(watch[v])
    BY <2>1 DEF TypeOK, ApiTypeOK
  <2>3. \A w \in VMs \ {v} : cache'[w] = cache[w] /\ watch'[w] = watch[w]
    BY <2>1 DEF TypeOK, ApiTypeOK
  <2>4. Lineage'
    <3>1. \A w \in VMs \ {v} :
            /\ lineage(w, cache[w])'
            /\ \A i \in 1..Len(watch'[w]) : lineage(w, watch[w][i])'
      BY <2>1, <2>3 DEF VersionInv, Lineage, lineage
    <3>2. lineage(v, cache[v])'
      BY <2>1, <2>2 DEF VersionInv, Lineage, lineage
    <3>3. ASSUME NEW i \in 1..Len(watch'[v]) PROVE lineage(v, watch[v][i])'
      <4>1. lineage(v, watch[v][i + 1]) /\ watch'[v][i] = watch[v][i + 1]
        BY <2>2 DEF VersionInv, Lineage
      <4> QED BY <4>1, <2>1 DEF lineage
    <3>4. \A w \in VMs : cur' = w => lineage(w, obj)'
      BY <2>1 DEF VersionInv, Lineage, lineage
    <3> QED BY <3>1, <3>2, <3>3, <3>4 DEF Lineage
  <2>5. DeletionSeenInOrder'
    <3> SUFFICES ASSUME NEW w \in VMs
                 PROVE  /\ cur' = w /\ obj'.deleting => cache'[w].deleting
                        /\ \A i \in 1..Len(watch'[w]) :
                             cache'[w].deleting => watch'[w][i].deleting
                        /\ \A i, j \in 1..Len(watch'[w]) :
                             i =< j /\ watch'[w][i].deleting => watch'[w][j].deleting
      BY DEF DeletionSeenInOrder
    <3>1. CASE w # v
      BY <3>1, <2>1, <2>3 DEF VersionInv, DeletionSeenInOrder
    <3>2. CASE w = v
      <4>1. cur' = v /\ obj'.deleting => cache'[v].deleting
        BY <2>1, <2>2 DEF VersionInv, DeletionSeenInOrder
      <4>2. \A i \in 1..Len(watch'[v]) : cache'[v].deleting => watch'[v][i].deleting
        BY <2>2 DEF VersionInv, DeletionSeenInOrder
      <4>3. ASSUME NEW i \in 1..Len(watch'[v]), NEW j \in 1..Len(watch'[v]),
                   i =< j, watch'[v][i].deleting
            PROVE  watch'[v][j].deleting
        <5>1. i + 1 =< j + 1
          BY <4>3
        <5> QED BY <4>3, <5>1, <2>2 DEF VersionInv, DeletionSeenInOrder
      <4> QED BY <3>2, <4>1, <4>2, <4>3
    <3> QED BY <3>1, <3>2
  <2>6. StoredObjects'
    BY <2>1 DEF VersionInv, StoredObjects
  <2>7. FreshVersions'
    <3>1. CASE watch'[v] = <<>>
      <4>1. Len(watch[v]) = 1 /\ cache'[v] = api'[v]
        BY <3>1, <2>1, <2>2 DEF VersionInv, FreshVersions
      <4> QED BY <3>1, <4>1, <2>1, <2>3 DEF VersionInv, FreshVersions
    <3>2. CASE watch'[v] # <<>>
      <4>1. Len(watch'[v]) \in 1..Len(watch'[v])
        BY <3>2, <2>1, <2>2 DEF TypeOK, ApiTypeOK
      <4>2. watch'[v][Len(watch'[v])] = api'[v]
        BY <4>1, <2>1, <2>2 DEF VersionInv, FreshVersions
      <4> QED BY <3>2, <4>2, <2>1, <2>3 DEF VersionInv, FreshVersions
    <3> QED BY <3>1, <3>2
  <2> QED BY <2>4, <2>5, <2>6, <2>7 DEF VersionInv
<1>2. CASE Crash
  <2>1. /\ api' = api /\ cache' = api /\ waiver' = waiver /\ cur' = NoVM
        /\ \A w \in VMs : Len(watch'[w]) = 0 /\ watch'[w] = <<>>
        /\ fresh' = FALSE
    BY <1>2 DEF Crash
  <2>2. \A w \in VMs : lineage(w, api[w])'
    BY <2>1 DEF VersionInv, StoredObjects, lineage
  <2>3. Lineage'
    BY <2>1, <2>2, <1>n DEF Lineage, lineage
  <2>4. DeletionSeenInOrder' /\ StoredObjects' /\ FreshVersions'
    BY <2>1, <1>n DEF VersionInv, DeletionSeenInOrder, StoredObjects, FreshVersions
  <2> QED BY <2>3, <2>4 DEF VersionInv
<1>3. ASSUME NEW v \in VMs, Reconcile(v) PROVE VersionInv'
  <2>1. UNCHANGED apiVars /\ waiver' = waiver
    BY <1>3 DEF Reconcile
  <2>2. CASE UNCHANGED workerVars
    BY <2>1, <2>2, QuietVersions DEF workerVars
  <2>3. CASE cur' = v /\ obj' = cache[v] /\ fresh' = (watch[v] = <<>>)
    <3>1. Lineage'
      BY <2>1, <2>3 DEF VersionInv, Lineage, lineage, apiVars
    <3>2. DeletionSeenInOrder' /\ StoredObjects'
      BY <2>1, <2>3 DEF VersionInv, DeletionSeenInOrder, StoredObjects, apiVars
    <3>3. FreshVersions'
      BY <2>1, <2>3 DEF VersionInv, FreshVersions, apiVars
    <3> QED BY <3>1, <3>2, <3>3 DEF VersionInv
  <2> QED BY <1>3, <2>2, <2>3 DEF Reconcile
<1> QED BY <1>1, <1>2, <1>3

(* The worker's writes: r.Update and Status().Update.                      *)
LEMMA WorkerVersions ==
  ASSUME IInv, WorkerStep
  PROVE  VersionInv'
<1> USE DEF IInv
<1>v. TypeOK /\ VersionInv /\ WorkerPlace
  BY DEF VersionInv
<1>t. TypeOK'
  BY WorkerTypeOKStep
<1>w. waiver' \in [VMs -> SUBSET Waivers] /\ waiver \in [VMs -> SUBSET Waivers]
  BY <1>t DEF TypeOK, HistoryTypeOK
<1>c. pc # "idle" => cur \in VMs /\ obj \in SmolVM /\ api[cur] \in SmolVM /\ obj.exists
  BY DEF TypeOK, WorkerTypeOK, ApiTypeOK, WorkerPlace
<1>g. ASSUME NEW v \in VMs, api[v].exists PROVE api[v].generation # 0
  BY <1>g DEF StoredObjects, NoObject
<1>q. ASSUME UNCHANGED apiVars, \A w \in VMs : waiver[w] \subseteq waiver'[w],
             (cur' = cur /\ obj' = obj /\ fresh' = fresh) \/ (cur' = NoVM /\ ~fresh')
      PROVE  VersionInv'
  BY <1>q, <1>v, QuietVersions
<1>1. CASE AddFinalizer
  <2>1. waiver' = waiver /\ cur \in VMs /\ pc = "addFinalizer" /\ cur' = NoVM /\ ~fresh'
    BY <1>1, <1>c DEF Written, AddFinalizer, Update, Return
  <2>2. CASE UNCHANGED apiVars
    BY <2>1, <2>2, <1>q
  <2>3. CASE obj = api[cur] /\ Publish(cur, [obj EXCEPT !.finalizer = TRUE])
    <3> DEFINE o == [obj EXCEPT !.finalizer = TRUE]
    <3>1. /\ o \in SmolVM /\ o.exists /\ o.finalizer /\ o.status = obj.status
          /\ o.deleting = obj.deleting /\ o.generation = obj.generation
      BY <2>1, <1>c DEF SmolVM
    <3>2. o.generation # 0
      BY <2>1, <2>3, <3>1, <1>c, <1>g
    <3> HIDE DEF o
    <3> QED BY <2>1, <2>3, <3>1, <3>2, <1>v, <1>w, PublishVersions DEF o
  <2> QED BY <1>1, <2>2, <2>3 DEF AddFinalizer, Update, FreshVersions
<1>2. ASSUME pc \in {"release", "forceRelease"}, Update(RemoveFinalizer(obj)),
             \A w \in VMs : waiver[w] \subseteq waiver'[w]
      PROVE  VersionInv'
  <2>1. cur \in VMs /\ obj.deleting /\ cur' = NoVM /\ ~fresh'
    BY <1>2, <1>c DEF Written, WorkerPlace, Update, Return
  <2>2. CASE UNCHANGED apiVars
    BY <1>2, <2>1, <2>2, <1>q
  <2>3. CASE obj = api[cur] /\ Publish(cur, RemoveFinalizer(obj))
    <3> DEFINE o == RemoveFinalizer(obj)
    <3>1. /\ o \in SmolVM /\ o.deleting /\ ~o.finalizer /\ o.status = obj.status
          /\ o.generation = obj.generation
      BY <1>2, <2>1, <1>c DEF SmolVM, RemoveFinalizer
    <3>2. o.generation # 0
      BY <1>2, <2>1, <2>3, <3>1, <1>c, <1>g
    <3>3. cache[cur].deleting
      BY <2>1 DEF DeletionSeenInOrder
    <3> HIDE DEF o
    <3> QED BY <1>2, <2>1, <2>3, <3>1, <3>2, <3>3, <1>v, <1>w, PublishVersions DEF o
  <2> QED BY <1>2, <2>2, <2>3 DEF Update, FreshVersions
<1>3. CASE Release
  BY <1>3, <1>2 DEF Release
<1>4. CASE ForceRelease
  <2>1. \A w \in VMs : waiver[w] \subseteq waiver'[w]
    BY <1>4, <1>w, <1>c DEF ForceRelease
  <2> QED BY <1>4, <2>1, <1>2 DEF ForceRelease
<1>5. CASE UpdateStatus
  <2>1. cur \in VMs /\ cur' = NoVM /\ ~fresh'
    BY <1>5, <1>c DEF Written, UpdateStatus, Return
  <2>2. \A w \in VMs : waiver[w] \subseteq waiver'[w]
    BY <1>5, <1>w, <2>1 DEF UpdateStatus
  <2>3. CASE UNCHANGED apiVars
    BY <2>1, <2>2, <2>3, <1>q
  <2> DEFINE latest == cache[cur]
             new == statusFrom(latest, input)
             o == [latest EXCEPT !.status = new]
  <2>4. CASE /\ latest.exists /\ latest = api[cur] /\ Publish(cur, o)
             /\ waiver' = IF latest.status.nodeName \in {NoNode, new.nodeName}
                            THEN waiver
                          ELSE [waiver EXCEPT ![cur] = @ \cup {"moved"}]
    <3>1. new \in SmolVMStatus
      BY <2>1, StatusFromType DEF TypeOK, ApiTypeOK, WorkerTypeOK
    <3>2. latest \in SmolVM
      BY <2>1 DEF TypeOK, ApiTypeOK
    <3>3. /\ o \in SmolVM /\ o.exists = latest.exists /\ o.status = new
          /\ o.deleting = latest.deleting /\ o.finalizer = latest.finalizer
          /\ o.generation = latest.generation
      BY <3>1, <3>2 DEF SmolVM
    <3>4. o.generation # 0
      BY <2>1, <2>4, <3>3, <1>g
    <3>5. "moved" \notin waiver'[cur] => api[cur].status.nodeName \in {NoNode, o.status.nodeName}
      <4>1. CASE waiver' = [waiver EXCEPT ![cur] = @ \cup {"moved"}]
        BY <4>1, <2>1, <1>w
      <4>2. CASE latest.status.nodeName \in {NoNode, new.nodeName}
        BY <4>2, <2>4, <3>3
      <4> QED BY <2>4, <4>1, <4>2
    <3>6. \/ o.exists /\ o.finalizer
          \/ ~(api[cur].exists /\ api[cur].finalizer)
      BY <2>4, <3>3
    <3>7. (o.finalizer => o.exists) /\ (api[cur].deleting => o.deleting)
      BY <2>4, <3>3
    <3>8. Publish(cur, o)
      BY <2>4
    <3> HIDE DEF o, new, latest
    <3> QED BY <2>1, <2>2, <3>3, <3>4, <3>5, <3>6, <3>7, <3>8, <1>v, <1>w, PublishVersions
  <2> QED BY <1>5, <2>1, <2>3, <2>4 DEF UpdateStatus, FreshVersions
<1>6. CASE Schedule \/ ConnectRuntime \/ GetMachine \/ ConnectForDelete
  <2>1. UNCHANGED <<apiVars, waiver, cur, obj, fresh>>
    BY <1>6 DEF Schedule, ConnectRuntime, GetMachine, ConnectForDelete, Report, Goto,
                runtimeUnavailable
  <2> QED BY <2>1, <1>q
<1>7. CASE CreateMachine \/ ResizeMachine \/ EnsureMachineRunning \/ StopMachine
           \/ DeleteMachine
  <2>1. UNCHANGED apiVars /\ pc # "idle"
    BY <1>7 DEF CreateMachine, ResizeMachine, EnsureMachineRunning, StopMachine, DeleteMachine
  <2>2. (cur' = cur /\ obj' = obj /\ fresh' = fresh) \/ (cur' = NoVM /\ ~fresh')
    BY <1>7 DEF CreateMachine, ResizeMachine, EnsureMachineRunning, StopMachine,
                DeleteMachine, Call, Report, Return, Goto, runtimeUnavailable
  <2>3. PICK op \in Operations : Call(op, TRUE)
    BY <1>7 DEF CreateMachine, ResizeMachine, EnsureMachineRunning, StopMachine,
                DeleteMachine, Call, Operations
  <2>4. \A w \in VMs : waiver[w] \subseteq waiver'[w]
    BY <2>1, <2>3, <1>w, <1>c DEF Call
  <2> QED BY <2>1, <2>2, <2>4, <1>q
<1> QED BY <1>1, <1>3, <1>4, <1>5, <1>6, <1>7 DEF WorkerStep

(* Users' writes keep a deletion mark and take no finalizer.               *)
LEMMA UserVersions ==
  ASSUME IInv, UserStep
  PROVE  VersionInv'
<1> USE DEF IInv
<1>v. TypeOK /\ VersionInv
  BY DEF VersionInv
<1>a. ASSUME NEW v \in VMs PROVE api[v] \in SmolVM
  BY DEF TypeOK, ApiTypeOK
<1>s. ASSUME NEW v \in VMs, NEW s \in SpecsOf[v] PROVE s \in SmolVMSpec
  BY ControllerAssumption
<1>u. ASSUME NEW v \in VMs, NEW o \in SmolVM, UserWrite(v, o),
             api[v].deleting => o.deleting, o.generation # 0,
             o.finalizer => o.exists,
             (o.exists /\ o.finalizer) \/ ~(api[v].exists /\ api[v].finalizer),
             o.status = api[v].status
      PROVE  VersionInv'
  <2>1. Publish(v, o) /\ waiver' = waiver /\ cur' = cur /\ obj' = obj
    BY <1>u DEF UserWrite
  <2>2. waiver \in [VMs -> SUBSET Waivers]
    BY DEF TypeOK, HistoryTypeOK
  <2> QED BY <1>u, <2>1, <2>2, <1>v, PublishVersions
<1>1. ASSUME NEW v \in VMs, NEW s \in SpecsOf[v], CreateVM(v, s) PROVE VersionInv'
  <2> DEFINE o == [NoObject EXCEPT !.exists = TRUE, !.generation = 1, !.spec = s]
  <2>1. /\ o \in SmolVM /\ o.exists /\ ~o.finalizer /\ o.generation = 1
        /\ o.status = NoObject.status
    BY <1>s, InitialValues DEF SmolVM, NoObject
  <2>2. api[v] = NoObject /\ ~api[v].exists /\ ~api[v].deleting
    <3>1. api[v] = NoObject
      BY <1>1 DEF CreateVM, StoredObjects
    <3> QED BY <3>1 DEF NoObject
  <2>3. UserWrite(v, o)
    BY <1>1 DEF CreateVM
  <2>4. o.status = api[v].status
    BY <2>1, <2>2
  <2> HIDE DEF o
  <2> QED BY <2>1, <2>2, <2>3, <2>4, <1>u
<1>2. ASSUME NEW v \in VMs, NEW s \in SpecsOf[v], EditVM(v, s) PROVE VersionInv'
  <2> DEFINE o == [api[v] EXCEPT !.spec = s, !.generation = @ + 1]
  <2>g. api[v].generation + 1 \in Nat \ {0}
    BY <1>a DEF SmolVM
  <2>1. /\ o \in SmolVM /\ o.exists = api[v].exists /\ o.finalizer = api[v].finalizer
        /\ o.generation = api[v].generation + 1 /\ o.status = api[v].status
        /\ o.deleting = api[v].deleting
    BY <1>s, <1>a, <2>g DEF SmolVM
  <2>2. UserWrite(v, o) /\ api[v].exists
    BY <1>2 DEF EditVM
  <2> HIDE DEF o
  <2> QED BY <2>g, <2>1, <2>2, <1>u
<1>3. ASSUME NEW v \in VMs, DeleteVM(v) PROVE VersionInv'
  <2> DEFINE o == [api[v] EXCEPT !.deleting = TRUE, !.generation = @ + 1,
                                 !.exists = api[v].finalizer]
  <2>g. api[v].generation + 1 \in Nat \ {0} /\ api[v].finalizer \in BOOLEAN
    BY <1>a DEF SmolVM
  <2>1. /\ o \in SmolVM /\ o.exists = api[v].finalizer /\ o.finalizer = api[v].finalizer
        /\ o.generation = api[v].generation + 1 /\ o.status = api[v].status
        /\ o.deleting
    BY <1>a, <2>g DEF SmolVM
  <2>2. UserWrite(v, o)
    BY <1>3 DEF DeleteVM
  <2> HIDE DEF o
  <2> QED BY <2>g, <2>1, <2>2, <1>u
<1>4. ASSUME NEW v \in VMs, AnnotateForceDelete(v) PROVE VersionInv'
  <2> DEFINE o == [api[v] EXCEPT !.forceDelete = TRUE]
  <2>1. /\ o \in SmolVM /\ o.exists = api[v].exists /\ o.finalizer = api[v].finalizer
        /\ o.generation = api[v].generation /\ o.status = api[v].status
        /\ o.deleting = api[v].deleting
    BY <1>a DEF SmolVM
  <2>2. UserWrite(v, o) /\ api[v].exists
    BY <1>4 DEF AnnotateForceDelete
  <2>3. api[v].generation # 0
    BY <2>2 DEF StoredObjects, NoObject
  <2> HIDE DEF o
  <2> QED BY <2>1, <2>2, <2>3, <1>u
<1> QED BY <1>1, <1>2, <1>3, <1>4 DEF UserStep

(* Every step keeps the versions of an object consistent.                  *)
LEMMA VersionStep ==
  ASSUME IInv, [Next]_vars
  PROVE  VersionInv'
<1>1. TypeOK /\ VersionInv
  BY DEF IInv, VersionInv
<1>2. ASSUME UNCHANGED <<apiVars, waiver, cur, obj, fresh>> PROVE VersionInv'
  BY <1>1, <1>2, QuietVersions
<1>3. CASE UNCHANGED vars
  BY <1>2, <1>3 DEF vars, apiVars
<1>4. CASE EnvStep
  BY <1>2, <1>4 DEF EnvStep, AgentReport, HeartbeatLapses, AgentFails, AgentRecovers,
     NodeChanges, NodeRecovers, MachineChanges, LateCall, NodeStep, workerVars
<1>5. ASSUME NEW v \in VMs, TimerFires(v) PROVE VersionInv'
  BY <1>2, <1>5 DEF TimerFires, workerVars
<1> QED BY <1>1, <1>3, <1>4, <1>5, ReadVersions, WorkerVersions, UserVersions DEF Next

-----------------------------------------------------------------------------
(***************************************************************************)
(* What a step may do to an object and to its machines.                    *)
(***************************************************************************)
(* A step keeps a binding unless it is waived, keeps the finalizer of an   *)
(* object that stays, removes an object only in the three known ways, once *)
(* its deletion is marked, and changes its status only by updateStatus.    *)
writes(v) ==
  /\ "moved" \notin waiver'[v] /\ api[v].status.nodeName # NoNode
       => api'[v].status.nodeName = api[v].status.nodeName
  /\ api[v].exists /\ api[v].finalizer /\ api'[v].exists => api'[v].finalizer
  /\ api[v].exists /\ ~api'[v].exists =>
       \/ ~api[v].finalizer
       \/ pc = "release" /\ cur = v /\ obj = api[v]
       \/ "forced" \in waiver'[v]
  /\ api[v].exists /\ ~api'[v].exists => api'[v].deleting
  /\ api[v].deleting => api'[v].deleting
  /\ api[v].generation # 0 => api'[v].generation # 0
  /\ api'[v].status # api[v].status =>
       /\ pc = "status" /\ cur = v /\ cur' = NoVM
       /\ api'[v].status.nodeName = input.nodeName
       /\ api'[v].exists = api[v].exists /\ api'[v].finalizer = api[v].finalizer
  /\ ~api[v].exists /\ api'[v].exists => api[v] = NoObject /\ ~api'[v].finalizer
  /\ ~api[v].exists /\ ~api'[v].exists => api'[v] = api[v]

(* Every step writes objects in that way, and history only grows.          *)
LEMMA ApiStep ==
  ASSUME IInv, [Next]_vars, NEW v \in VMs
  PROVE  waiver[v] \subseteq waiver'[v] /\ writes(v)
<1> USE DEF IInv
<1>t. TypeOK'
  BY TypeOKStep
<1>w. waiver \in [VMs -> SUBSET Waivers] /\ waiver' \in [VMs -> SUBSET Waivers]
  BY <1>t DEF TypeOK, HistoryTypeOK
<1>a. api \in [VMs -> SmolVM] /\ cache \in [VMs -> SmolVM]
  BY DEF TypeOK, ApiTypeOK
<1>c. pc # "idle" => cur \in VMs /\ obj \in SmolVM /\ obj.exists
  BY DEF TypeOK, WorkerTypeOK, WorkerPlace
<1>g. ASSUME NEW w \in VMs, api[w].exists PROVE api[w].generation # 0
  BY <1>g DEF StoredObjects, NoObject
<1>q. ASSUME waiver[v] \subseteq waiver'[v], api' = api
      PROVE  waiver[v] \subseteq waiver'[v] /\ writes(v)
  BY <1>q DEF writes
<1>1. CASE UNCHANGED <<api, waiver>>
  BY <1>1, <1>q
<1>2. ASSUME NEW w \in VMs, NEW o, api' = [api EXCEPT ![w] = o], waiver' = waiver,
             o.status = api[w].status, api[w].finalizer => o.finalizer,
             api[w].exists /\ ~o.exists => ~api[w].finalizer,
             api[w].exists \/ (api[w] = NoObject /\ o.exists /\ ~o.finalizer),
             ~o.exists => o.deleting, api[w].deleting => o.deleting, o.generation # 0
      PROVE  waiver[v] \subseteq waiver'[v] /\ writes(v)
  BY <1>2, <1>a DEF writes
<1>3. CASE UserStep
  <2>1. PICK w \in VMs : \/ \E s \in SpecsOf[w] : CreateVM(w, s) \/ EditVM(w, s)
                         \/ DeleteVM(w) \/ AnnotateForceDelete(w)
    BY <1>3 DEF UserStep
  <2>o. api[w] \in SmolVM
    BY <1>a
  <2>2. ASSUME NEW s \in SpecsOf[w], CreateVM(w, s)
        PROVE waiver[v] \subseteq waiver'[v] /\ writes(v)
    <3> DEFINE o == [NoObject EXCEPT !.exists = TRUE, !.generation = 1, !.spec = s]
    <3>1. /\ o.exists /\ o.status = NoObject.status /\ ~o.finalizer /\ o.generation # 0
          /\ ~NoObject.finalizer /\ ~NoObject.exists /\ ~NoObject.deleting
      BY DEF NoObject
    <3>2. api[w] = NoObject /\ api' = [api EXCEPT ![w] = o] /\ waiver' = waiver
      BY <2>2 DEF CreateVM, UserWrite, Publish, StoredObjects
    <3> HIDE DEF o
    <3> QED BY <3>1, <3>2, <1>2
  <2>3. ASSUME NEW s \in SpecsOf[w], EditVM(w, s)
        PROVE waiver[v] \subseteq waiver'[v] /\ writes(v)
    <3> DEFINE o == [api[w] EXCEPT !.spec = s, !.generation = @ + 1]
    <3>1. /\ o.exists = api[w].exists /\ o.status = api[w].status
          /\ o.finalizer = api[w].finalizer /\ o.deleting = api[w].deleting
          /\ o.generation # 0
      BY <2>o DEF SmolVM
    <3>2. api[w].exists /\ api' = [api EXCEPT ![w] = o] /\ waiver' = waiver
      BY <2>3 DEF EditVM, UserWrite, Publish
    <3> HIDE DEF o
    <3> QED BY <3>1, <3>2, <1>2
  <2>4. ASSUME DeleteVM(w) PROVE waiver[v] \subseteq waiver'[v] /\ writes(v)
    <3> DEFINE o == [api[w] EXCEPT !.deleting = TRUE, !.generation = @ + 1,
                                   !.exists = api[w].finalizer]
    <3>1. /\ ~o.exists => ~api[w].finalizer
          /\ api[w].finalizer => o.finalizer
          /\ o.status = api[w].status /\ o.deleting /\ o.generation # 0
      BY <2>o DEF SmolVM
    <3>2. api[w].exists /\ api' = [api EXCEPT ![w] = o] /\ waiver' = waiver
      BY <2>4 DEF DeleteVM, UserWrite, Publish
    <3> HIDE DEF o
    <3> QED BY <3>1, <3>2, <1>2
  <2>5. ASSUME AnnotateForceDelete(w) PROVE waiver[v] \subseteq waiver'[v] /\ writes(v)
    <3> DEFINE o == [api[w] EXCEPT !.forceDelete = TRUE]
    <3>1. /\ o.exists = api[w].exists /\ o.status = api[w].status
          /\ o.finalizer = api[w].finalizer /\ o.deleting = api[w].deleting
          /\ o.generation = api[w].generation
      BY <2>o DEF SmolVM
    <3>2. api[w].exists /\ api' = [api EXCEPT ![w] = o] /\ waiver' = waiver
      BY <2>5 DEF AnnotateForceDelete, UserWrite, Publish
    <3> HIDE DEF o
    <3> QED BY <3>1, <3>2, <1>2, <1>g
  <2> QED BY <2>1, <2>2, <2>3, <2>4, <2>5
<1>4. CASE AddFinalizer
  <2>1. cur \in VMs /\ obj \in SmolVM /\ obj.exists /\ waiver' = waiver
    BY <1>4, <1>c DEF AddFinalizer
  <2>2. CASE UNCHANGED api
    BY <2>1, <2>2, <1>1
  <2>3. CASE obj = api[cur] /\ Publish(cur, [obj EXCEPT !.finalizer = TRUE])
    <3> DEFINE o == [obj EXCEPT !.finalizer = TRUE]
    <3>1. /\ o.exists = obj.exists /\ o.status = obj.status /\ o.finalizer
          /\ o.deleting = obj.deleting /\ o.generation = obj.generation
      BY <2>1 DEF SmolVM
    <3>2. obj = api[cur] /\ api' = [api EXCEPT ![cur] = o]
      BY <2>3 DEF Publish
    <3> HIDE DEF o
    <3> QED BY <2>1, <3>1, <3>2, <1>2, <1>g
  <2> QED BY <1>4, <2>2, <2>3 DEF AddFinalizer, Update, apiVars, FreshVersions
<1>5. ASSUME \/ pc = "release"
             \/ pc = "forceRelease" /\ (api' # api => "forced" \in waiver'[cur]),
             Update(RemoveFinalizer(obj)), \A w \in VMs : waiver[w] \subseteq waiver'[w]
      PROVE  waiver[v] \subseteq waiver'[v] /\ writes(v)
  <2>1. cur \in VMs /\ obj \in SmolVM /\ obj.exists /\ obj.deleting
    BY <1>5, <1>c DEF WorkerPlace
  <2>2. CASE UNCHANGED api
    BY <1>5, <2>2, <1>q
  <2>3. CASE obj = api[cur] /\ Publish(cur, RemoveFinalizer(obj))
    <3> DEFINE o == RemoveFinalizer(obj)
    <3>1. /\ ~o.exists /\ o.status = obj.status /\ o.deleting = obj.deleting
          /\ o.generation = obj.generation
      BY <2>1 DEF SmolVM, RemoveFinalizer
    <3>2. obj = api[cur] /\ api' = [api EXCEPT ![cur] = o]
      BY <2>3 DEF Publish
    <3> HIDE DEF o
    <3>3. api'[cur] = o /\ \A w \in VMs \ {cur} : api'[w] = api[w]
      BY <2>1, <3>2, <1>a
    <3>4. api' # api
      BY <2>1, <3>1, <3>2, <3>3
    <3>5. CASE v = cur
      BY <1>5, <2>1, <3>1, <3>2, <3>3, <3>4, <3>5 DEF writes
    <3>6. CASE v # cur
      BY <1>5, <3>3, <3>6 DEF writes
    <3> QED BY <3>5, <3>6
  <2> QED BY <1>5, <2>2, <2>3 DEF Update, apiVars, FreshVersions
<1>6. CASE Release
  <2>1. \A w \in VMs : waiver[w] \subseteq waiver'[w]
    BY <1>6 DEF Release
  <2>2. pc = "release"
    BY <1>6 DEF Release
  <2>3. Update(RemoveFinalizer(obj))
    BY <1>6 DEF Release
  <2> QED BY <1>5, <2>1, <2>2, <2>3
<1>7. CASE ForceRelease
  <2>1. \A w \in VMs : waiver[w] \subseteq waiver'[w]
    BY <1>7, <1>w, <1>c DEF ForceRelease
  <2>2. api' # api => "forced" \in waiver'[cur]
    BY <1>7, <1>w, <1>c DEF ForceRelease
  <2> QED BY <1>5, <1>7, <2>1, <2>2 DEF ForceRelease
<1>8. CASE UpdateStatus
  <2>1. cur \in VMs
    BY <1>8, <1>c DEF UpdateStatus
  <2>2. waiver[v] \subseteq waiver'[v]
    BY <1>8, <1>w, <2>1 DEF UpdateStatus
  <2>3. CASE UNCHANGED api
    BY <2>2, <2>3, <1>q
  <2> DEFINE latest == cache[cur]
             new == statusFrom(latest, input)
             o == [latest EXCEPT !.status = new]
  <2>4. CASE /\ latest.exists /\ latest = api[cur] /\ Publish(cur, o)
             /\ waiver' = IF latest.status.nodeName \in {NoNode, new.nodeName}
                            THEN waiver
                          ELSE [waiver EXCEPT ![cur] = @ \cup {"moved"}]
    <3>1. latest \in SmolVM
      BY <2>1, <1>a
    <3>2. /\ o.exists = latest.exists /\ o.status = new /\ o.finalizer = latest.finalizer
          /\ o.deleting = latest.deleting /\ o.generation = latest.generation
          /\ new.nodeName = input.nodeName
      BY <3>1 DEF SmolVM, statusFrom
    <3>3. api'[cur] = o /\ \A w \in VMs \ {cur} : api'[w] = api[w]
      BY <2>1, <2>4, <1>a DEF Publish
    <3>4. "moved" \notin waiver'[cur] => api[cur].status.nodeName \in {NoNode, new.nodeName}
      <4>1. CASE waiver' = [waiver EXCEPT ![cur] = @ \cup {"moved"}]
        BY <4>1, <2>1, <1>w
      <4>2. CASE latest.status.nodeName \in {NoNode, new.nodeName}
        BY <4>2, <2>4
      <4> QED BY <2>4, <4>1, <4>2
    <3>5. latest = api[cur] /\ latest.exists /\ pc = "status" /\ cur' = NoVM
      BY <1>8, <2>4 DEF Written, UpdateStatus, Return
    <3> HIDE DEF o, new, latest
    <3>6. CASE v = cur
      BY <2>2, <3>2, <3>3, <3>4, <3>5, <3>6 DEF writes
    <3>7. CASE v # cur
      BY <2>2, <3>3, <3>7 DEF writes
    <3> QED BY <3>6, <3>7
  <2> QED BY <1>8, <2>1, <2>3, <2>4 DEF UpdateStatus, apiVars, FreshVersions
<1>9. CASE CreateMachine \/ ResizeMachine \/ EnsureMachineRunning \/ StopMachine
           \/ DeleteMachine
  <2>1. UNCHANGED api /\ pc # "idle"
    BY <1>9 DEF CreateMachine, ResizeMachine, EnsureMachineRunning, StopMachine,
                DeleteMachine, apiVars
  <2>2. PICK op \in Operations : Call(op, TRUE)
    BY <1>9 DEF CreateMachine, ResizeMachine, EnsureMachineRunning, StopMachine,
                DeleteMachine, Call, Operations
  <2>3. waiver[v] \subseteq waiver'[v]
    BY <2>1, <2>2, <1>w, <1>c DEF Call
  <2> QED BY <2>1, <2>3, <1>q
<1>10. CASE EnvStep
  BY <1>1, <1>10 DEF EnvStep, AgentReport, HeartbeatLapses, AgentFails, AgentRecovers,
     NodeChanges, NodeRecovers, MachineChanges, LateCall, NodeStep, apiVars
<1>11. CASE Schedule \/ ConnectRuntime \/ GetMachine \/ ConnectForDelete \/ Crash
            \/ UNCHANGED vars
  BY <1>1, <1>11 DEF Schedule, ConnectRuntime, GetMachine, ConnectForDelete, Crash,
     apiVars, vars
<1>12. CASE \E w \in VMs : Deliver(w) \/ TimerFires(w) \/ Reconcile(w)
  BY <1>1, <1>12 DEF Deliver, TimerFires, Reconcile, apiVars
<1> QED BY <1>3, <1>4, <1>6, <1>7, <1>8, <1>9, <1>10, <1>11, <1>12 DEF Next, WorkerStep
=============================================================================
