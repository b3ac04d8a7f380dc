------------------------- MODULE SmolVMSafetyProofs -------------------------
(***************************************************************************)
(* CleanRelease, SoleOwner and CreateUnderFinalizer for any number of      *)
(* objects, nodes, edits and failures, from the inductive invariant IInv;  *)
(* and from the same invariant that SmolVMController implements            *)
(* MachineLifecycle: every step of the controller, of its users and of the *)
(* nodes is a step of the lifecycle of one object, or leaves it alone.     *)
(***************************************************************************)
EXTENDS SmolVMControllerProofs

-----------------------------------------------------------------------------
(***************************************************************************)
(* Where machines come from.                                               *)
(***************************************************************************)
(* The only call that makes a machine is create, for the machine it names. *)
LEMMA ExecutePresence ==
  ASSUME TypeOK, NEW op \in Operations, NEW k \in Nodes, NEW w \in VMs, NEW spec,
         Serves(op, spec, machines[k][w]), Execute(op, k, w, spec),
         NEW n \in Nodes, NEW v \in VMs,
         machines[n][v].state = "absent", machines'[n][v].state # "absent"
  PROVE  n = k /\ v = w /\ op = "create"
<1> DEFINE e == Effect(op, spec, machines[k][w])
<1>t. machines \in [Nodes -> [VMs -> MachineInfo]]
  BY DEF TypeOK, NodeTypeOK
<1>1. machines' = [machines EXCEPT ![k][w] = e]
  BY DEF Execute
<1>2. op # "create" => machines[k][w].state # "absent" \/ e.state = "absent"
  BY DEF Serves, Effect, Operations, NoMachine
<1> HIDE DEF e
<1>3. CASE n = k /\ v = w
  <2>1. machines'[n][v] = e
    BY <1>t, <1>1, <1>3
  <2> QED BY <1>2, <1>3, <2>1
<1>4. CASE ~(n = k /\ v = w)
  <2>1. machines'[n][v] = machines[n][v]
    BY <1>t, <1>1, <1>4
  <2> QED BY <2>1
<1> QED BY <1>3, <1>4

(* A machine appears by the worker's own create, or by a late one, in a    *)
(* step that writes no object.                                             *)
LEMMA PresenceStep ==
  ASSUME IInv, [Next]_vars, NEW n \in Nodes, NEW v \in VMs,
         machines[n][v].state = "absent", machines'[n][v].state # "absent"
  PROVE  /\ api' = api
         /\ \/ pc = "create" /\ cur = v /\ obj.status.nodeName = n
            \/ \E c \in limbo : c.op = "create" /\ c.vm = v /\ c.node = n
<1> USE DEF IInv
<1>u. ASSUME UNCHANGED machines PROVE FALSE
  BY <1>u
<1>b. pc \in Bound => cur \in VMs /\ obj.status.nodeName \in Nodes
  BY DEF TypeOK, WorkerTypeOK, Bound, Operations
<1>1. CASE CreateMachine \/ ResizeMachine \/ EnsureMachineRunning \/ StopMachine
           \/ DeleteMachine
  <2>1. PICK op \in Operations : pc = op /\ Call(op, TRUE) /\ UNCHANGED apiVars
    BY <1>1 DEF CreateMachine, ResizeMachine, EnsureMachineRunning, StopMachine,
                DeleteMachine, Call, Operations
  <2>2. /\ cur \in VMs /\ obj.status.nodeName \in Nodes
    BY <2>1, <1>b DEF Bound
  <2>3. /\ Serves(op, obj.spec, machines[obj.status.nodeName][cur])
        /\ Execute(op, obj.status.nodeName, cur, obj.spec)
    BY <2>1, <1>u DEF Call
  <2>4. n = obj.status.nodeName /\ v = cur /\ op = "create"
    BY <2>2, <2>3, ExecutePresence
  <2> QED BY <2>1, <2>4 DEF apiVars
<1>2. ASSUME NEW c \in limbo, LateCall(c)
      PROVE  api' = api /\ c.op = "create" /\ c.vm = v /\ c.node = n
  <2>1. c.op \in Operations /\ c.node \in Nodes /\ c.vm \in VMs
    BY DEF TypeOK, NodeTypeOK, Calls
  <2>2. /\ Serves(c.op, c.spec, machines[c.node][c.vm])
        /\ Execute(c.op, c.node, c.vm, c.spec)
    BY <1>2, <1>u DEF LateCall
  <2>3. n = c.node /\ v = c.vm /\ c.op = "create"
    BY <2>1, <2>2, ExecutePresence
  <2> QED BY <1>2, <2>3 DEF LateCall, apiVars
<1>3. ASSUME NEW k \in Nodes, NEW w \in VMs, MachineChanges(k, w) PROVE FALSE
  <2>1. /\ machines[k][w].state # "absent"
        /\ machines \in [Nodes -> [VMs -> MachineInfo]]
    BY <1>3 DEF MachineChanges, TypeOK, NodeTypeOK
  <2>2. PICK m : machines' = [machines EXCEPT ![k][w] = m]
    BY <1>3 DEF MachineChanges
  <2> QED BY <2>1, <2>2
<1>4. CASE EnvStep
  BY <1>4, <1>2, <1>3, <1>u DEF EnvStep, AgentReport, HeartbeatLapses, AgentFails,
     AgentRecovers, NodeChanges, NodeRecovers
<1>5. CASE AddFinalizer \/ Schedule \/ ConnectRuntime \/ GetMachine \/ ConnectForDelete
           \/ Release \/ ForceRelease \/ UpdateStatus \/ Crash \/ UNCHANGED vars
  BY <1>5, <1>u DEF AddFinalizer, Schedule, ConnectRuntime, GetMachine,
     ConnectForDelete, Release, ForceRelease, UpdateStatus, Crash, vars
<1>6. CASE UserStep \/ \E w \in VMs : Deliver(w) \/ TimerFires(w) \/ Reconcile(w)
  BY <1>6, <1>u DEF UserStep, CreateVM, EditVM, DeleteVM, AnnotateForceDelete,
     UserWrite, Deliver, TimerFires, Reconcile
<1> QED BY <1>1, <1>4, <1>5, <1>6 DEF Next, WorkerStep

(* A machine appears on the node its object is bound to, and while the     *)
(* object is held by its finalizer unless a create came late.              *)
LEMMA CreatedInPlace ==
  ASSUME IInv, [Next]_vars, NEW n \in Nodes, NEW v \in VMs,
         machines[n][v].state = "absent", machines'[n][v].state # "absent"
  PROVE  /\ "moved" \notin waiver[v] => api[v].status.nodeName = n
         /\ \/ "late" \in waiver[v]
            \/ pc = "create" /\ cur = v /\ api[v].exists /\ api[v].finalizer
<1> USE DEF IInv
<1>1. CASE pc = "create" /\ cur = v /\ obj.status.nodeName = n
  <2>1. obj.finalizer /\ ~obj.deleting /\ lineage(v, obj)
    BY <1>1 DEF WorkerPlace, Lineage
  <2> QED BY <1>1, <2>1, NodesAssumption DEF lineage
<1>2. CASE \E c \in limbo : c.op = "create" /\ c.vm = v /\ c.node = n
  BY <1>2 DEF LateCreates
<1> QED BY <1>1, <1>2, PresenceStep

-----------------------------------------------------------------------------
(***************************************************************************)
(* Every step preserves the parts of IInv.                                 *)
(***************************************************************************)
(* A machine stays on the node the API server names.                       *)
LEMMA SoleOwnerStep ==
  ASSUME IInv, [Next]_vars
  PROVE  SoleOwner'
<1> SUFFICES ASSUME NEW v \in VMs, NEW n \in Nodes,
                    machines'[n][v].state # "absent", "moved" \notin waiver'[v]
             PROVE  api'[v].status.nodeName = n
  BY DEF SoleOwner, present
<1>1. "moved" \notin waiver[v] /\ writes(v)
  BY ApiStep
<1>2. CASE machines[n][v].state = "absent"
  BY <1>1, <1>2, PresenceStep, CreatedInPlace
<1>3. CASE machines[n][v].state # "absent"
  <2>1. api[v].status.nodeName = n
    BY <1>1, <1>3 DEF IInv, SoleOwner, present
  <2> QED BY <1>1, <2>1, NodesAssumption DEF writes
<1> QED BY <1>2, <1>3

(* An object with a machine keeps its finalizer.                           *)
LEMMA MachinesHeldStep ==
  ASSUME IInv, [Next]_vars
  PROVE  MachinesHeld'
<1> SUFFICES ASSUME NEW v \in VMs, NEW n \in Nodes, machines'[n][v].state # "absent",
                    api'[v].exists, waiver'[v] = {}
             PROVE  api'[v].finalizer
  BY DEF MachinesHeld, present
<1>1. waiver[v] = {} /\ writes(v)
  BY ApiStep
<1>2. CASE machines[n][v].state = "absent"
  BY <1>1, <1>2, PresenceStep, CreatedInPlace
<1>3. CASE machines[n][v].state # "absent"
  <2>1. api[v].status.nodeName = n
    BY <1>1, <1>3 DEF IInv, SoleOwner, present
  <2>2. api[v] # NoObject
    <3>1. NoObject.status.nodeName = NoNode
      BY DEF NoObject, EmptyStatus
    <3> QED BY <2>1, <3>1, NodesAssumption
  <2>3. api[v].exists
    BY <1>1, <2>2 DEF writes
  <2>4. api[v].finalizer
    BY <1>1, <1>3, <2>3 DEF IInv, MachinesHeld, present
  <2> QED BY <1>1, <2>3, <2>4 DEF writes
<1> QED BY <1>2, <1>3

(* An object goes only when its machine is gone.                           *)
LEMMA CleanReleaseStep ==
  ASSUME IInv, [Next]_vars
  PROVE  CleanRelease'
<1> SUFFICES ASSUME NEW v \in VMs, NEW n \in Nodes, machines'[n][v].state # "absent",
                    api'[v].generation > 0, ~api'[v].exists, waiver'[v] = {}
             PROVE  FALSE
  BY DEF CleanRelease, removed, present
<1>1. waiver[v] = {} /\ writes(v)
  BY ApiStep
<1>2. machines[n][v].state # "absent"
  BY <1>1, PresenceStep, CreatedInPlace
<1>3. api[v].status.nodeName = n
  BY <1>1, <1>2 DEF IInv, SoleOwner, present
<1>4. CASE ~api[v].exists
  <2>1. api'[v] = api[v]
    BY <1>1, <1>4 DEF writes
  <2> QED BY <1>1, <1>2, <1>4, <2>1 DEF IInv, CleanRelease, removed, present
<1>5. CASE api[v].exists
  <2>1. api[v].finalizer
    BY <1>1, <1>2, <1>5 DEF IInv, MachinesHeld, present
  <2>2. pc = "release" /\ cur = v /\ obj = api[v]
    BY <1>1, <1>5, <2>1 DEF writes
  <2>3. \/ obj.status.nodeName = NoNode
        \/ machines[obj.status.nodeName][cur].state = "absent"
        \/ "late" \in waiver[cur]
    BY <2>2 DEF IInv, WorkerPlace, present
  <2> QED BY <1>1, <1>2, <1>3, <2>2, <2>3, NodesAssumption
<1> QED BY <1>4, <1>5

(* A create given up on names the node its object is bound to.             *)
LEMMA LateCreatesStep ==
  ASSUME IInv, [Next]_vars
  PROVE  LateCreates'
<1> SUFFICES ASSUME NEW c \in limbo', c.op = "create"
             PROVE  /\ "late" \in waiver'[c.vm]
                    /\ "moved" \notin waiver'[c.vm] => api'[c.vm].status.nodeName = c.node
  BY DEF LateCreates
<1>1. CASE c \in limbo
  <2>1. c.vm \in VMs /\ c.node \in Nodes
    BY <1>1 DEF IInv, TypeOK, NodeTypeOK, Calls
  <2>2. waiver[c.vm] \subseteq waiver'[c.vm] /\ writes(c.vm)
    BY <2>1, ApiStep
  <2>3. /\ "late" \in waiver[c.vm]
        /\ "moved" \notin waiver[c.vm] => api[c.vm].status.nodeName = c.node
    BY <1>1 DEF IInv, LateCreates
  <2> QED BY <2>1, <2>2, <2>3, NodesAssumption DEF writes
<1>2. CASE c \notin limbo
  <2>b. pc \in Bound => cur \in VMs /\ obj.status.nodeName \in Nodes
    BY DEF IInv, TypeOK, WorkerTypeOK, Bound, Operations
  <2>w. waiver \in [VMs -> SUBSET Waivers]
    BY DEF IInv, TypeOK, HistoryTypeOK
  <2>1. PICK op \in Operations : pc = op /\ Call(op, TRUE) /\ UNCHANGED api
    BY <1>2 DEF Next, WorkerStep, UserStep, EnvStep, CreateMachine, ResizeMachine,
       EnsureMachineRunning, StopMachine, DeleteMachine, Operations, Call, vars,
       AddFinalizer, Schedule, ConnectRuntime, GetMachine, ConnectForDelete, Release,
       ForceRelease, UpdateStatus, Crash, CreateVM, EditVM, DeleteVM,
       AnnotateForceDelete, UserWrite, Deliver, TimerFires, Reconcile, AgentReport,
       HeartbeatLapses, AgentFails, AgentRecovers, NodeChanges, NodeRecovers, MachineChanges,
       NodeStep, LateCall, apiVars
  <2>2. cur \in VMs /\ obj.status.nodeName \in Nodes
    BY <2>1, <2>b DEF Bound
  <2>3. /\ c = [op |-> op, node |-> obj.status.nodeName, vm |-> cur, spec |-> obj.spec]
        /\ waiver' = [waiver EXCEPT ![cur] = IF op = "create" THEN @ \cup {"late"} ELSE @]
    BY <1>2, <2>1 DEF Call
  <2>4. pc = "create" /\ c.vm = cur /\ c.node = obj.status.nodeName
    BY <2>1, <2>3
  <2>5. "late" \in waiver'[cur] /\ waiver[cur] \subseteq waiver'[cur]
    BY <2>1, <2>2, <2>3, <2>4, <2>w
  <2>6. lineage(cur, obj)
    BY <2>2 DEF IInv, Lineage
  <2> QED BY <2>1, <2>2, <2>4, <2>5, <2>6, NodesAssumption DEF lineage
<1> QED BY <1>1, <1>2

(* Reconcile's comparison never asks for a delete.                         *)
LEMMA VerdictNotDelete ==
  ASSUME NEW spec, NEW m
  PROVE  verdict(spec, m) # "delete"
BY DEF verdict

(* The branch Reconcile takes says what it read.                           *)
LEMMA DispatchPlace ==
  ASSUME NEW o
  PROVE  /\ Dispatch(o) \in {"release", "deleteRuntime", "addFinalizer", "status",
                             "schedule", "runtime"}
         /\ Dispatch(o) \in {"release", "deleteRuntime"} => o.deleting
         /\ Dispatch(o) \in {"addFinalizer", "schedule", "runtime"} => ~o.deleting
         /\ Dispatch(o) \in {"schedule", "runtime"} => o.finalizer
         /\ Dispatch(o) = "release" => o.status.nodeName = NoNode
BY DEF Dispatch

(* The worker's place in Reconcile keeps meaning what it says, whatever    *)
(* happens to the machine between its steps.                               *)
LEMMA WorkerPlaceStep ==
  ASSUME IInv, [Next]_vars
  PROVE  WorkerPlace'
<1> USE DEF IInv
<1>c. pc # "idle" => cur \in VMs
  BY DEF TypeOK, WorkerTypeOK
<1>1. ASSUME UNCHANGED <<pc, cur, obj>> PROVE WorkerPlace'
  <2>1. ASSUME pc = "release"
        PROVE  \/ obj.status.nodeName = NoNode
               \/ /\ obj.status.nodeName \in Nodes
                  /\ machines'[obj.status.nodeName][cur].state = "absent"
               \/ "late" \in waiver'[cur]
    <3>1. cur \in VMs
      BY <1>c, <2>1
    <3>2. waiver[cur] \subseteq waiver'[cur]
      BY <3>1, ApiStep
    <3>3. CASE "late" \in waiver[cur] \/ obj.status.nodeName = NoNode
      BY <3>2, <3>3
    <3>4. CASE /\ obj.status.nodeName \in Nodes
               /\ machines[obj.status.nodeName][cur].state = "absent"
               /\ "late" \notin waiver[cur]
      BY <2>1, <3>1, <3>4, CreatedInPlace
    <3> QED BY <2>1, <3>3, <3>4 DEF WorkerPlace, present
  <2> QED BY <1>1, <2>1 DEF WorkerPlace, present
<1>2. ASSUME pc' = "idle" PROVE WorkerPlace'
  BY <1>2 DEF WorkerPlace
<1>3. ASSUME pc # "idle", pc' = "status", obj' = obj PROVE WorkerPlace'
  BY <1>3 DEF WorkerPlace
<1>4. ASSUME NEW v \in VMs, Reconcile(v) PROVE WorkerPlace'
  <2>1. CASE UNCHANGED workerVars
    BY <2>1, <1>1 DEF workerVars
  <2>2. CASE cache[v].exists /\ cur' = v /\ obj' = cache[v] /\ pc' = Dispatch(cache[v])
    BY <2>2, DispatchPlace DEF WorkerPlace
  <2> QED BY <1>4, <2>1, <2>2 DEF Reconcile
<1>5. CASE AddFinalizer \/ Release \/ ForceRelease \/ UpdateStatus \/ Crash
  BY <1>5, <1>2 DEF Written, AddFinalizer, Release, ForceRelease, UpdateStatus, Crash,
     Update, Return
<1>6. CASE Schedule
  BY <1>6, <1>3 DEF Schedule, Report
<1>7. CASE ConnectRuntime
  <2>1. CASE Goto("get")
    BY <1>7, <2>1 DEF ConnectRuntime, Goto, WorkerPlace
  <2>2. CASE runtimeUnavailable
    BY <1>7, <2>2, <1>3 DEF ConnectRuntime, runtimeUnavailable, Report
  <2> QED BY <1>7, <2>1, <2>2 DEF ConnectRuntime
<1>8. CASE GetMachine
  <2> DEFINE next == verdict(obj.spec, machines[obj.status.nodeName][cur])
  <2>1. CASE next \in Operations /\ Goto(next)
    <3>1. next \in {"create", "resize", "start", "stop"}
      BY <2>1, VerdictNotDelete DEF Operations
    <3> HIDE DEF next
    <3> QED BY <1>8, <2>1, <3>1 DEF GetMachine, Goto, WorkerPlace
  <2>2. CASE pc' = "status" /\ obj' = obj
    BY <1>8, <2>2, <1>3 DEF GetMachine
  <2> QED BY <1>8, <2>1, <2>2 DEF GetMachine, Report, runtimeUnavailable
<1>9. CASE CreateMachine \/ ResizeMachine \/ EnsureMachineRunning \/ StopMachine
  BY <1>9, <1>2, <1>3 DEF CreateMachine, ResizeMachine, EnsureMachineRunning,
     StopMachine, Call, Return, Report, runtimeUnavailable
<1>10. CASE ConnectForDelete
  <2>1. CASE Goto("delete") \/ Goto("forceRelease")
    BY <1>10, <2>1 DEF ConnectForDelete, Goto, WorkerPlace
  <2>2. CASE pc' = "status" /\ obj' = obj
    BY <1>10, <2>2, <1>3 DEF ConnectForDelete
  <2> QED BY <1>10, <2>1, <2>2 DEF ConnectForDelete, Report
<1>11. CASE DeleteMachine
  <2> DEFINE n == obj.status.nodeName
  <2>1. CASE pc' = "status" /\ obj' = obj
    BY <1>11, <2>1, <1>3 DEF DeleteMachine
  <2>2. CASE Goto("release") /\ Execute("delete", n, cur, obj.spec)
    <3>1. pc = "delete" /\ cur \in VMs /\ n \in Nodes
      BY <1>11, <1>c DEF DeleteMachine, TypeOK, WorkerTypeOK, Bound, Operations
    <3>2. machines'[n][cur] = NoMachine
      BY <2>2, <3>1 DEF Execute, Effect, TypeOK, NodeTypeOK
    <3>3. machines'[n][cur].state = "absent"
      BY <3>2 DEF NoMachine
    <3> QED BY <2>2, <3>1, <3>3 DEF Goto, WorkerPlace, present
  <2> QED BY <1>11, <2>1, <2>2 DEF DeleteMachine, Call, runtimeUnavailable, Report
<1>12. CASE UserStep
  BY <1>12, <1>1 DEF UserStep, CreateVM, EditVM, DeleteVM, AnnotateForceDelete,
     UserWrite
<1>13. CASE EnvStep
  BY <1>13, <1>1 DEF EnvStep, AgentReport, HeartbeatLapses, AgentFails, AgentRecovers,
     NodeChanges, NodeRecovers, MachineChanges, LateCall, NodeStep, workerVars
<1>14. CASE UNCHANGED vars \/ \E v \in VMs : Deliver(v) \/ TimerFires(v)
  BY <1>14, <1>1 DEF vars, Deliver, TimerFires, workerVars
<1> QED BY <1>4, <1>5, <1>6, <1>7, <1>8, <1>9, <1>10, <1>11, <1>12, <1>13, <1>14
        DEF Next, WorkerStep

(* updateStatus is called with the binding of the version read first, but  *)
(* by Schedule.                                                            *)
LEMMA StatusCall ==
  ASSUME [Next]_vars, pc' = "status"
  PROVE  \/ UNCHANGED <<pc, cur, obj, input>>
         \/ input'.nodeName = obj'.status.nodeName
         \/ Schedule
<1> DEFINE same == \/ UNCHANGED <<pc, cur, obj, input>>
                   \/ input'.nodeName = obj'.status.nodeName
<1>p. pc' \notin Operations \cup {"idle", "get", "release", "forceRelease"}
  BY DEF Operations
<1>u. ASSUME runtimeUnavailable PROVE same
  BY <1>u DEF runtimeUnavailable, Report, statusInput
<1>1. ASSUME NEW v \in VMs, Reconcile(v) PROVE same
  <2>1. CASE UNCHANGED workerVars
    BY <2>1 DEF workerVars
  <2>2. CASE /\ obj' = cache[v]
             /\ pc' = "status" => input' = [NoInput EXCEPT !.phase = "Failed",
                                              !.nodeName = cache[v].status.nodeName,
                                              !.reconciled = "InvalidSpec"]
    BY <2>2 DEF NoInput
  <2> QED BY <1>1, <2>1, <2>2 DEF Reconcile
<1>3. CASE ConnectRuntime
  BY <1>3, <1>u, <1>p DEF ConnectRuntime, Goto
<1>4. CASE GetMachine
  <2> DEFINE m == machines[obj.status.nodeName][cur]
             next == verdict(obj.spec, m)
  <2>1. CASE next \in Operations /\ Goto(next)
    BY <2>1, <1>p DEF Goto, Operations
  <2>2. CASE Report(Observed(m, next))
    BY <2>2 DEF Report, Observed, statusInput
  <2>3. CASE runtimeUnavailable
    BY <2>3, <1>u
  <2> QED BY <1>4, <2>1, <2>2, <2>3 DEF GetMachine
<1>5. CASE CreateMachine \/ ResizeMachine \/ EnsureMachineRunning \/ StopMachine
           \/ DeleteMachine
  <2>1. \/ runtimeUnavailable \/ Return("requeue") \/ Goto("release")
        \/ \E phase : Report(statusInput(phase, FALSE, "StartPending"))
    BY <1>5 DEF CreateMachine, ResizeMachine, EnsureMachineRunning, StopMachine,
       DeleteMachine, Call
  <2>2. ASSUME NEW phase, Report(statusInput(phase, FALSE, "StartPending"))
        PROVE  same
    BY <2>2 DEF Report, statusInput
  <2> QED BY <2>1, <2>2, <1>p, <1>u DEF Return, Goto
<1>6. CASE ConnectForDelete
  <2>1. \/ Goto("delete") \/ Goto("forceRelease")
        \/ Report([statusInput("Deleting", FALSE, "DeletionBlocked")
                     EXCEPT !.scheduled = "Bound", !.deletionBlocked = TRUE])
    BY <1>6 DEF ConnectForDelete
  <2>2. ASSUME Report([statusInput("Deleting", FALSE, "DeletionBlocked")
                         EXCEPT !.scheduled = "Bound", !.deletionBlocked = TRUE])
        PROVE  same
    BY <2>2 DEF Report, statusInput
  <2> QED BY <2>1, <2>2, <1>p DEF Goto
<1>7. CASE AddFinalizer \/ Release \/ ForceRelease \/ UpdateStatus \/ Crash
  BY <1>7, <1>p DEF Written, AddFinalizer, Release, ForceRelease, UpdateStatus, Crash,
     Update, Return
<1>8. CASE UserStep
  BY <1>8 DEF UserStep, CreateVM, EditVM, DeleteVM, AnnotateForceDelete,
     UserWrite
<1>9. CASE EnvStep
  BY <1>9 DEF EnvStep, AgentReport, HeartbeatLapses, AgentFails, AgentRecovers,
     NodeChanges, NodeRecovers, MachineChanges, LateCall, NodeStep, workerVars
<1>10. CASE UNCHANGED vars \/ \E v \in VMs : Deliver(v) \/ TimerFires(v)
  BY <1>10 DEF vars, Deliver, TimerFires, workerVars
<1> QED BY <1>1, <1>3, <1>4, <1>5, <1>6, <1>7, <1>8, <1>9, <1>10
        DEF Next, WorkerStep

-----------------------------------------------------------------------------
(***************************************************************************)
(* The theorems.                                                           *)
(***************************************************************************)
(* IInv holds initially.                                                   *)
LEMMA InitIInv ==
  Init => IInv
<1> SUFFICES ASSUME Init PROVE IInv
  OBVIOUS
<1>t. TypeOK
  BY InitTypeOK
<1>v. NoVM \notin VMs
  BY ControllerAssumption
<1>1. /\ \A v \in VMs : api[v] = NoObject /\ cache[v] = NoObject /\ watch[v] = <<>>
      /\ pc = "idle" /\ ~fresh /\ cur = NoVM /\ limbo = {}
      /\ \A n \in Nodes, v \in VMs : machines[n][v].state = "absent"
  BY DEF Init, NoMachine
<1>2. /\ ~NoObject.finalizer /\ ~NoObject.deleting /\ NoObject.generation = 0
      /\ NoObject.status.nodeName = NoNode
  BY DEF NoObject, EmptyStatus
<1>3. Lineage
  BY <1>1, <1>2, <1>v DEF Lineage, lineage
<1>4. DeletionSeenInOrder /\ StoredObjects /\ FreshVersions
  BY <1>1, <1>2, <1>v DEF DeletionSeenInOrder, StoredObjects, FreshVersions
<1>5. WorkerPlace /\ LateCreates
  BY <1>1 DEF WorkerPlace, LateCreates
<1>6. MachinesHeld /\ SoleOwner /\ CleanRelease
  BY <1>1 DEF MachinesHeld, SoleOwner, CleanRelease, present
<1> QED BY <1>t, <1>3, <1>4, <1>5, <1>6 DEF IInv

(* Every step preserves it.                                                *)
LEMMA IInvStep ==
  IInv /\ [Next]_vars => IInv'
<1> SUFFICES ASSUME IInv, [Next]_vars PROVE IInv'
  OBVIOUS
<1>1. TypeOK'
  BY TypeOKStep DEF IInv
<1>2. Lineage' /\ DeletionSeenInOrder' /\ FreshVersions' /\ StoredObjects'
  BY VersionStep DEF VersionInv
<1>3. WorkerPlace' /\ LateCreates' /\ MachinesHeld' /\ SoleOwner' /\ CleanRelease'
  BY WorkerPlaceStep, LateCreatesStep, MachinesHeldStep, SoleOwnerStep, CleanReleaseStep
<1> QED BY <1>1, <1>2, <1>3 DEF IInv

(* The inductive invariant holds for ever: stale versions, late calls and  *)
(* the pass under way never contradict the API server.                     *)
THEOREM Inductive == Spec => []IInv
<1> QED BY InitIInv, IInvStep, PTL DEF Spec

(* The finalizer's promise: a removed object leaves no machine behind,     *)
(* unless it was forced, moved, or a create came late.                     *)
THEOREM FinalizerHolds == Spec => []CleanRelease
<1>1. IInv => CleanRelease
  BY DEF IInv
<1> QED BY <1>1, Inductive, PTL

(* A machine is only ever on the node recorded in status.nodeName, unless  *)
(* a stale pass overwrote the binding.                                     *)
THEOREM MachineOnBoundNode == Spec => []SoleOwner
<1>1. IInv => SoleOwner
  BY DEF IInv
<1> QED BY <1>1, Inductive, PTL

(* The worker creates machines only for objects whose finalizer is stored, *)
(* however stale the version it acts on.                                   *)
THEOREM CreatesUnderFinalizer == Spec => CreateUnderFinalizer
<1>1. ASSUME IInv, [Next]_vars, NEW v \in VMs, NEW n \in Nodes,
             pc = "create", cur = v
      PROVE  api[v].exists /\ api[v].finalizer
  <2>1. obj.finalizer /\ ~obj.deleting /\ lineage(v, obj)
    BY <1>1 DEF IInv, WorkerPlace, Lineage
  <2> QED BY <2>1 DEF lineage
<1>2. IInv /\ [Next]_vars =>
        [\A v \in VMs, n \in Nodes :
           pc = "create" /\ cur = v /\ ~present(n, v) /\ present(n, v)'
             => api[v].exists /\ api[v].finalizer]_vars
  BY <1>1
<1> QED BY <1>2, Inductive, PTL DEF Spec, CreateUnderFinalizer

-----------------------------------------------------------------------------
(***************************************************************************)
(* A step concerns one object, and its record or one machine of it.        *)
(***************************************************************************)
(* The step writes the object v and nothing else.                          *)
recordsOnly(v) ==
  /\ machines' = machines
  /\ \A w \in VMs \ {v} : api'[w] = api[w] /\ waiver'[w] = waiver[w]

(* The step touches the machine of v on node k and nothing else.           *)
runsOnly(k, v) ==
  /\ api' = api
  /\ \A w \in VMs \ {v} : waiver'[w] = waiver[w]
  /\ \A n \in Nodes, w \in VMs : n # k \/ w # v => machines'[n][w] = machines[n][w]

(* No step touches two objects, or an object's record together with its    *)
(* machine.                                                                *)
LEMMA OneObject ==
  ASSUME IInv, [Next]_vars
  PROVE  \/ UNCHANGED <<api, machines, waiver>>
         \/ \E v \in VMs : recordsOnly(v) \/ \E k \in Nodes : runsOnly(k, v)
<1> USE DEF IInv
<1>t. /\ api \in [VMs -> SmolVM] /\ waiver \in [VMs -> SUBSET Waivers]
      /\ machines \in [Nodes -> [VMs -> MachineInfo]]
  BY DEF TypeOK, ApiTypeOK, NodeTypeOK, HistoryTypeOK
<1>c. pc # "idle" => cur \in VMs
  BY DEF TypeOK, WorkerTypeOK
<1>p. ASSUME NEW v \in VMs, NEW o, Publish(v, o), UNCHANGED machines,
             \A w \in VMs \ {v} : waiver'[w] = waiver[w]
      PROVE  recordsOnly(v)
  BY <1>p, <1>t DEF Publish, recordsOnly
<1>e. ASSUME NEW k \in Nodes, NEW v \in VMs, NEW m,
             machines' = [machines EXCEPT ![k][v] = m], UNCHANGED <<api, waiver>>
      PROVE  runsOnly(k, v)
  BY <1>e, <1>t DEF runsOnly
<1>1. CASE UserStep
  <2>1. PICK v \in VMs : \E o : UserWrite(v, o)
    BY <1>1 DEF UserStep, CreateVM, EditVM, DeleteVM, AnnotateForceDelete
  <2> QED BY <2>1, <1>p DEF UserWrite
<1>2. CASE AddFinalizer \/ Release \/ ForceRelease
  <2>1. cur \in VMs /\ UNCHANGED machines
    BY <1>2, <1>c DEF AddFinalizer, Release, ForceRelease
  <2>2. \A w \in VMs \ {cur} : waiver'[w] = waiver[w]
    BY <1>2, <2>1, <1>t DEF AddFinalizer, Release, ForceRelease
  <2>3. PICK o : Update(o)
    BY <1>2 DEF AddFinalizer, Release, ForceRelease
  <2>4. CASE Publish(cur, o)
    BY <2>1, <2>2, <2>4, <1>p
  <2>5. CASE UNCHANGED api
    BY <2>1, <2>2, <2>5 DEF recordsOnly
  <2> QED BY <2>3, <2>4, <2>5 DEF Update, apiVars
<1>3. CASE UpdateStatus
  <2>1. cur \in VMs /\ UNCHANGED machines
    BY <1>3, <1>c DEF UpdateStatus
  <2>2. \A w \in VMs \ {cur} : waiver'[w] = waiver[w]
    BY <1>3, <2>1, <1>t DEF UpdateStatus
  <2>3. UNCHANGED api \/ \E o : Publish(cur, o)
    BY <1>3 DEF UpdateStatus, apiVars
  <2>4. CASE \E o : Publish(cur, o)
    BY <2>1, <2>2, <2>4, <1>p
  <2>5. CASE UNCHANGED api
    BY <2>1, <2>2, <2>5 DEF recordsOnly
  <2> QED BY <2>3, <2>4, <2>5
<1>4. CASE CreateMachine \/ ResizeMachine \/ EnsureMachineRunning \/ StopMachine
           \/ DeleteMachine
  <2>1. PICK op \in Operations : pc = op /\ Call(op, TRUE) /\ UNCHANGED apiVars
    BY <1>4 DEF CreateMachine, ResizeMachine, EnsureMachineRunning, StopMachine,
                DeleteMachine, Call, Operations
  <2>2. cur \in VMs /\ obj.status.nodeName \in Nodes
    BY <2>1 DEF TypeOK, WorkerTypeOK, Bound, Operations
  <2>3. CASE Execute(op, obj.status.nodeName, cur, obj.spec) /\ UNCHANGED waiver
    <3>1. PICK m : machines' = [machines EXCEPT ![obj.status.nodeName][cur] = m]
      BY <2>3 DEF Execute
    <3> QED BY <2>1, <2>2, <2>3, <3>1, <1>e DEF apiVars
  <2>4. CASE UNCHANGED machines /\ \A w \in VMs \ {cur} : waiver'[w] = waiver[w]
    BY <2>1, <2>2, <2>4 DEF recordsOnly, apiVars
  <2> QED BY <2>1, <2>2, <2>3, <2>4, <1>t DEF Call
<1>5. ASSUME NEW c \in limbo, LateCall(c)
      PROVE  UNCHANGED <<api, machines, waiver>> \/ runsOnly(c.node, c.vm)
  <2>1. c.node \in Nodes /\ c.vm \in VMs
    BY DEF TypeOK, NodeTypeOK, Calls
  <2>2. CASE Execute(c.op, c.node, c.vm, c.spec)
    <3>1. PICK m : machines' = [machines EXCEPT ![c.node][c.vm] = m]
      BY <2>2 DEF Execute
    <3> QED BY <1>5, <2>1, <3>1, <1>e DEF LateCall, apiVars
  <2> QED BY <1>5, <2>2 DEF LateCall, apiVars
<1>6. ASSUME NEW k \in Nodes, NEW v \in VMs, MachineChanges(k, v) PROVE runsOnly(k, v)
  <2>1. PICK m : machines' = [machines EXCEPT ![k][v] = m]
    BY <1>6 DEF MachineChanges
  <2> QED BY <1>6, <2>1, <1>e DEF MachineChanges, NodeStep, apiVars
<1>7. CASE EnvStep
  <2>1. ASSUME NEW c \in limbo, LateCall(c)
        PROVE  \/ UNCHANGED <<api, machines, waiver>>
               \/ \E v \in VMs : \E k \in Nodes : runsOnly(k, v)
    <3>1. c.node \in Nodes /\ c.vm \in VMs
      BY DEF TypeOK, NodeTypeOK, Calls
    <3> QED BY <2>1, <3>1, <1>5
  <2> QED BY <1>7, <1>6, <2>1 DEF EnvStep, AgentReport, HeartbeatLapses, AgentFails,
             AgentRecovers, NodeChanges, NodeRecovers, NodeStep, apiVars
<1>8. CASE Schedule \/ ConnectRuntime \/ GetMachine \/ ConnectForDelete \/ Crash
           \/ UNCHANGED vars
  BY <1>8 DEF Schedule, ConnectRuntime, GetMachine, ConnectForDelete, Crash,
     apiVars, vars
<1>9. CASE \E w \in VMs : Deliver(w) \/ TimerFires(w) \/ Reconcile(w)
  BY <1>9 DEF Deliver, TimerFires, Reconcile, apiVars
<1> QED BY <1>1, <1>2, <1>3, <1>4, <1>7, <1>8, <1>9 DEF Next, WorkerStep

-----------------------------------------------------------------------------
(***************************************************************************)
(* What updateStatus is called with.                                       *)
(***************************************************************************)
(* updateStatus writes the binding of the version read first, or a new one *)
(* of an object that was held and not deleted.                             *)
StatusTarget ==
  pc = "status" => \/ input.nodeName = obj.status.nodeName
                   \/ obj.finalizer /\ ~obj.deleting

(* Every step that goes on to updateStatus passes such a binding.          *)
LEMMA StatusTargetStep ==
  ASSUME IInv, StatusTarget, [Next]_vars
  PROVE  StatusTarget'
<1>1. CASE Schedule
  BY <1>1 DEF StatusTarget, Schedule, Report, IInv, WorkerPlace
<1> QED BY <1>1, StatusCall DEF StatusTarget

-----------------------------------------------------------------------------
(***************************************************************************)
(* The simulation.                                                         *)
(***************************************************************************)
(* The state of the lifecycle as functions of the controller's.            *)
stages == [v \in VMs |-> stageOf(api[v])]
homes == [v \in VMs |-> api[v].status.nodeName]
places == [v \in VMs |-> {n \in Nodes : present(n, v)}]
waived == {v \in VMs : waiver[v] # {}}

(* The actions of the lifecycle, read through the mapping.                 *)
LEMMA Mapped ==
  \A v \in VMs :
    /\ stages[v] = "none" /\ stages' = [stages EXCEPT ![v] = "declared"]
         /\ UNCHANGED <<homes, places, waived>> => Lifecycle!Declare(v)
    /\ stages[v] = "declared" /\ stages' = [stages EXCEPT ![v] = "held"]
         /\ UNCHANGED <<homes, places, waived>> => Lifecycle!Hold(v)
    /\ stages[v] = "declared" /\ stages' = [stages EXCEPT ![v] = "gone"]
         /\ UNCHANGED <<homes, places, waived>> => Lifecycle!Withdraw(v)
    /\ stages[v] = "held" /\ stages' = [stages EXCEPT ![v] = "gone"]
         /\ places[v] = {} /\ UNCHANGED <<homes, places, waived>>
         => Lifecycle!Release(v)
    /\ stages[v] = "held" /\ homes[v] # NoNode
         /\ places' = [places EXCEPT ![v] = @ \cup {homes[v]}]
         /\ UNCHANGED <<stages, homes, waived>> => Lifecycle!Boot(v)
    /\ \A n \in Nodes :
         /\ stages[v] = "held" /\ homes[v] = NoNode
              /\ homes' = [homes EXCEPT ![v] = n]
              /\ UNCHANGED <<stages, places, waived>> => Lifecycle!Bind(v, n)
         /\ n \in places[v] /\ places' = [places EXCEPT ![v] = @ \ {n}]
              /\ UNCHANGED <<stages, homes, waived>> => Lifecycle!Vanish(v, n)
    /\ v \in waived' /\ waived' \in {waived, waived \cup {v}}
         /\ (\A w \in VMs \ {v} : /\ stages'[w] = stages[w] /\ homes'[w] = homes[w]
                                  /\ places'[w] = places[w])
         => Lifecycle!Excused(v)
BY DEF stages, homes, places, waived, Lifecycle!Declare, Lifecycle!Hold,
   Lifecycle!Withdraw, Lifecycle!Release, Lifecycle!Boot, Lifecycle!Bind,
   Lifecycle!Vanish, Lifecycle!Excused, Lifecycle!Advance

(* A step that starts or stops a machine, of an object not excused.        *)
LEMMA MachineSimulation ==
  ASSUME IInv, [Next]_vars, NEW v \in VMs, NEW k \in Nodes, runsOnly(k, v),
         waiver'[v] = {}
  PROVE  \/ UNCHANGED <<stages, homes, places, waived>>
         \/ Lifecycle!Boot(v) \/ Lifecycle!Vanish(v, k)
<1>1. waiver[v] = {}
  BY ApiStep
<1>2. UNCHANGED <<stages, homes, waived>>
  BY <1>1 DEF runsOnly, stages, homes, waived
<1>3. places' = [places EXCEPT ![v] = {n \in Nodes : machines'[n][v].state # "absent"}]
  BY DEF runsOnly, places, present
<1>4. \A n \in Nodes \ {k} : machines'[n][v] = machines[n][v]
  BY DEF runsOnly
<1>5. places[v] = {n \in Nodes : machines[n][v].state # "absent"}
  BY DEF places, present
<1>p. places = [w \in VMs |-> places[w]]
  BY DEF places
<1>6. CASE machines[k][v].state = "absent" /\ machines'[k][v].state # "absent"
  <2>1. api[v].status.nodeName = k /\ api[v].exists /\ api[v].finalizer
    BY <1>1, <1>6, CreatedInPlace
  <2>2. stages[v] = "held" /\ homes[v] = k /\ k # NoNode
    BY <2>1, NodesAssumption DEF IInv, StoredObjects, NoObject, stages, homes, stageOf
  <2>3. places' = [places EXCEPT ![v] = @ \cup {k}]
    BY <1>3, <1>4, <1>5, <1>6
  <2> QED BY <1>2, <2>2, <2>3, Mapped
<1>7. CASE machines[k][v].state # "absent" /\ machines'[k][v].state = "absent"
  <2>1. k \in places[v] /\ places' = [places EXCEPT ![v] = @ \ {k}]
    BY <1>3, <1>4, <1>5, <1>7
  <2> QED BY <1>2, <2>1, Mapped
<1>8. CASE (machines[k][v].state = "absent") = (machines'[k][v].state = "absent")
  <2>1. {n \in Nodes : machines'[n][v].state # "absent"} = places[v]
    BY <1>4, <1>5, <1>8
  <2>2. places' = places
    BY <1>3, <1>p, <2>1
  <2> QED BY <1>2, <2>2
<1> QED BY <1>6, <1>7, <1>8

(* A step that writes an object that is not excused.                       *)
LEMMA RecordSimulation ==
  ASSUME IInv, StatusTarget, [Next]_vars, NEW v \in VMs, recordsOnly(v),
         waiver'[v] = {}
  PROVE  \/ UNCHANGED <<stages, homes, places, waived>>
         \/ Lifecycle!Declare(v) \/ Lifecycle!Hold(v) \/ Lifecycle!Withdraw(v)
         \/ Lifecycle!Release(v) \/ \E n \in Nodes : Lifecycle!Bind(v, n)
<1>1. waiver[v] = {} /\ writes(v)
  BY ApiStep
<1>2. UNCHANGED <<places, waived>>
  BY <1>1 DEF recordsOnly, places, waived, present
<1>3. /\ stages' = [stages EXCEPT ![v] = stageOf(api'[v])]
      /\ homes' = [homes EXCEPT ![v] = api'[v].status.nodeName]
  BY DEF recordsOnly, stages, homes
<1>4. /\ stages[v] = stageOf(api[v]) /\ homes[v] = api[v].status.nodeName
      /\ stages = [w \in VMs |-> stages[w]] /\ homes = [w \in VMs |-> homes[w]]
  BY DEF stages, homes
<1>s. /\ api[v].exists => api[v].generation # 0
      /\ api'[v].exists => api'[v].generation # 0
      /\ api[v].finalizer => api[v].exists
      /\ api'[v].finalizer => api'[v].exists
  <2>1. StoredObjects /\ StoredObjects'
    BY IInvStep DEF IInv
  <2> QED BY <2>1 DEF StoredObjects, NoObject
<1>5. CASE api'[v].status.nodeName # api[v].status.nodeName
  <2>1. /\ pc = "status" /\ cur = v /\ api'[v].status.nodeName = input.nodeName
        /\ api'[v].exists = api[v].exists /\ api'[v].finalizer = api[v].finalizer
    BY <1>1, <1>5 DEF writes
  <2>2. api[v].status.nodeName = NoNode
    BY <1>1, <1>5 DEF writes
  <2>3. lineage(v, obj)
    BY <2>1 DEF IInv, Lineage
  <2>4. input.nodeName # obj.status.nodeName
    BY <1>1, <1>5, <2>1, <2>2, <2>3 DEF lineage
  <2>5. api[v].exists /\ api[v].finalizer
    BY <2>1, <2>3, <2>4 DEF StatusTarget, lineage
  <2>6. input.nodeName \in Nodes
    BY <1>5, <2>1, <2>2 DEF IInv, TypeOK, WorkerTypeOK, Inputs
  <2>7. stages[v] = "held" /\ stageOf(api'[v]) = "held"
    BY <1>4, <1>s, <2>1, <2>5 DEF stageOf
  <2>8. stages' = stages
    BY <1>3, <1>4, <2>7
  <2> QED BY <1>2, <1>3, <1>4, <2>1, <2>2, <2>6, <2>7, <2>8, Mapped
<1>6. CASE api'[v].status.nodeName = api[v].status.nodeName
  <2>1. homes' = homes
    BY <1>3, <1>4, <1>6
  <2>2. CASE stageOf(api'[v]) = stageOf(api[v])
    BY <1>2, <1>3, <1>4, <2>1, <2>2
  <2>3. CASE ~api[v].exists /\ api'[v].exists
    <3>1. api[v] = NoObject /\ ~api'[v].finalizer
      BY <1>1, <2>3 DEF writes
    <3>2. stages[v] = "none" /\ stageOf(api'[v]) = "declared"
      BY <1>4, <1>s, <2>3, <3>1 DEF stageOf, NoObject
    <3> QED BY <1>2, <1>3, <2>1, <3>2, Mapped
  <2>4. CASE ~api[v].exists /\ ~api'[v].exists
    BY <1>1, <2>2, <2>4 DEF writes
  <2>5. CASE api[v].exists /\ api'[v].exists
    <3>1. CASE api[v].finalizer = api'[v].finalizer
      BY <1>s, <2>2, <2>5, <3>1 DEF stageOf
    <3>2. CASE ~api[v].finalizer /\ api'[v].finalizer
      <4>1. stages[v] = "declared" /\ stageOf(api'[v]) = "held"
        BY <1>4, <1>s, <2>5, <3>2 DEF stageOf
      <4> QED BY <1>2, <1>3, <2>1, <4>1, Mapped
    <3>b. api[v].finalizer \in BOOLEAN /\ api'[v].finalizer \in BOOLEAN
      <4>1. TypeOK /\ TypeOK'
        BY TypeOKStep DEF IInv
      <4> QED BY <4>1 DEF TypeOK, ApiTypeOK, SmolVM
    <3> QED BY <1>1, <2>5, <3>1, <3>2, <3>b DEF writes
  <2>6. CASE api[v].exists /\ ~api'[v].exists
    <3>1. stageOf(api'[v]) = "gone"
      BY <1>1, <1>s, <2>6 DEF stageOf, writes
    <3>2. CASE ~api[v].finalizer
      <4>1. stages[v] = "declared"
        BY <1>4, <1>s, <2>6, <3>2 DEF stageOf
      <4> QED BY <1>2, <1>3, <2>1, <3>1, <4>1, Mapped
    <3>3. CASE api[v].finalizer
      <4>1. stages[v] = "held"
        BY <1>4, <1>s, <2>6, <3>3 DEF stageOf
      <4>2. pc = "release" /\ cur = v /\ obj = api[v]
        BY <1>1, <2>6, <3>3 DEF writes
      <4>3. \A n \in Nodes : machines[n][v].state = "absent"
        BY <1>1, <4>2, NodesAssumption
        DEF IInv, WorkerPlace, SoleOwner, present
      <4>4. places[v] = {}
        BY <4>3 DEF places, present
      <4> QED BY <1>2, <1>3, <2>1, <3>1, <4>1, <4>4, Mapped
    <3> QED BY <3>2, <3>3
  <2> QED BY <2>3, <2>4, <2>5, <2>6
<1> QED BY <1>5, <1>6

(* Every step is a step of the lifecycle or changes nothing it shows.      *)
LEMMA LifecycleStep ==
  ASSUME IInv, StatusTarget, [Next]_vars
  PROVE  [Lifecycle!Next]_(Lifecycle!vars)
<1>s. UNCHANGED Lifecycle!vars <=> UNCHANGED <<stages, homes, places, waived>>
  BY DEF Lifecycle!vars, stages, homes, places, waived
<1>1. CASE UNCHANGED <<api, machines, waiver>>
  BY <1>1 DEF Lifecycle!vars, present
<1>2. ASSUME NEW v \in VMs, recordsOnly(v) \/ \E k \in Nodes : runsOnly(k, v)
      PROVE  [Lifecycle!Next]_(Lifecycle!vars)
  <2>1. CASE waiver'[v] = {}
    <3>1. CASE recordsOnly(v)
      BY <2>1, <3>1, <1>s, RecordSimulation DEF Lifecycle!Next
    <3>2. CASE \E k \in Nodes : runsOnly(k, v)
      BY <2>1, <3>2, <1>s, MachineSimulation DEF Lifecycle!Next
    <3> QED BY <1>2, <3>1, <3>2
  <2>2. CASE waiver'[v] # {}
    <3>1. \A w \in VMs \ {v} : /\ api'[w] = api[w] /\ waiver'[w] = waiver[w]
                               /\ \A n \in Nodes : machines'[n][w] = machines[n][w]
      BY <1>2 DEF recordsOnly, runsOnly
    <3>2. v \in waived' /\ waived' \in {waived, waived \cup {v}}
      BY <2>2, <3>1 DEF waived
    <3>3. \A w \in VMs \ {v} :
            stages'[w] = stages[w] /\ homes'[w] = homes[w] /\ places'[w] = places[w]
      BY <3>1 DEF stages, homes, places, present
    <3> QED BY <3>2, <3>3, Mapped DEF Lifecycle!Next
  <2> QED BY <2>1, <2>2
<1> QED BY <1>1, <1>2, OneObject

(* The mapping of an initial state is an initial state of the lifecycle.   *)
LEMMA LifecycleInit ==
  Init => Lifecycle!Init
<1> SUFFICES ASSUME Init PROVE Lifecycle!Init
  OBVIOUS
<1>1. stageOf(NoObject) = "none" /\ NoObject.status.nodeName = NoNode
  BY DEF stageOf, NoObject, EmptyStatus
<1>2. /\ \A v \in VMs : api[v] = NoObject /\ waiver[v] = {}
      /\ \A v \in VMs : \A n \in Nodes : ~present(n, v)
  BY DEF Init, NoMachine, present
<1>3. [v \in VMs |-> {n \in Nodes : present(n, v)}] = [v \in VMs |-> {}]
  BY <1>2
<1>4. /\ [v \in VMs |-> stageOf(api[v])] = [v \in VMs |-> "none"]
      /\ [v \in VMs |-> api[v].status.nodeName] = [v \in VMs |-> NoNode]
  BY <1>1, <1>2
<1>5. {v \in VMs : waiver[v] # {}} = {}
  BY <1>2
<1> QED BY <1>3, <1>4, <1>5 DEF Lifecycle!Init

(* The controller implements the lifecycle it promises, for any number of  *)
(* objects, nodes, edits and failures: through caches, stale versions,     *)
(* conflicts, retries, crashes and late calls an object is declared, held, *)
(* bound once, its machine runs only at its home, and it goes last; only   *)
(* objects that were forced, moved or met by a late create are excused.    *)
THEOREM Refinement == Spec => ImplementsLifecycle
<1>1. Init => StatusTarget
  BY DEF Init, StatusTarget
<1>2. IInv /\ StatusTarget /\ [Next]_vars => StatusTarget'
  BY StatusTargetStep
<1>3. IInv /\ StatusTarget /\ [Next]_vars => [Lifecycle!Next]_(Lifecycle!vars)
  BY LifecycleStep
<1> QED BY <1>1, <1>2, <1>3, LifecycleInit, Inductive, PTL
        DEF Spec, ImplementsLifecycle, Lifecycle!Spec
=============================================================================
