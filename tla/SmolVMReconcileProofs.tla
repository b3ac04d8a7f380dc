------------------------ MODULE SmolVMReconcileProofs ------------------------
(***************************************************************************)
(* Reconcile forgets no object (UnattendedIsExplained).                    *)
(***************************************************************************)
EXTENDS SmolVMSafetyProofs

-----------------------------------------------------------------------------
(***************************************************************************)
(* No lost wake-up.                                                        *)
(***************************************************************************)
(* The argument of updateStatus gives a true reason to leave the object    *)
(* alone: it is explained, as far as the version read first can tell.      *)
honest ==
  /\ ~obj.deleting /\ obj.finalizer /\ input.nodeName = obj.status.nodeName
  /\ \/ input.reconciled = "InvalidSpec" /\ ~validateSpec(obj)
     \/ input.reconciled = "AwaitingNodeAssignment" /\ obj.status.nodeName = NoNode
     \/ /\ input.reconciled \in Refusals /\ obj.status.nodeName \in Nodes
        /\ faults = 0 =>
             verdict(obj.spec, machines[obj.status.nodeName][cur]) = input.reconciled

(* The worker has an object in hand only while it reconciles, schedules    *)
(* only objects without a node, and a call is late only by a failure.      *)
WorkerInHand ==
  /\ pc = "idle" => cur = NoVM
  /\ pc = "schedule" => obj.status.nodeName = NoNode
  /\ faults = 0 => limbo = {}

(* The version in hand is the API server's unless an event that will wake  *)
(* the object is pending or has enqueued it.                               *)
InHandIsCurrent ==
  cur \in VMs /\ cur \notin queue /\ watch[cur] = <<>> => obj = api[cur]

(* A pass asks for another one or gives a true reason.                     *)
ReportsHonestly ==
  pc = "status" => input.reconciled \in Requeued \/ honest

WakeInv == WorkerInHand /\ InHandIsCurrent /\ ReportsHonestly /\ UnattendedIsExplained

(* The worker's place, step by step.                                       *)
LEMMA WorkerInHandStep ==
  ASSUME IInv, WorkerInHand, [Next]_vars
  PROVE  WorkerInHand'
<1> USE DEF WorkerInHand
<1>f. faults \in Nat
  BY DEF IInv, TypeOK, HistoryTypeOK
<1>n. NoVM \notin VMs
  BY ControllerAssumption
<1>q. ASSUME UNCHANGED <<pc, cur, obj>>, limbo' \subseteq limbo,
             faults' = faults \/ Fault
      PROVE  WorkerInHand'
  BY <1>q, <1>f DEF Fault
<1>r. ASSUME (pc' = "idle" /\ cur' = NoVM) \/ pc' \notin {"idle", "schedule"},
             limbo' = limbo \/ Fault, faults' = faults \/ Fault
      PROVE  WorkerInHand'
  BY <1>r, <1>f DEF Fault
<1>1. ASSUME NEW v \in VMs, Reconcile(v) PROVE WorkerInHand'
  <2>1. CASE UNCHANGED workerVars
    BY <1>1, <2>1, <1>q DEF Reconcile, workerVars
  <2>2. CASE cur' = v /\ obj' = cache[v] /\ pc' = Dispatch(cache[v])
    <3>1. pc' # "idle" /\ (pc' = "schedule" => cache[v].status.nodeName = NoNode)
      BY <2>2 DEF Dispatch
    <3> QED BY <1>1, <2>2, <3>1 DEF Reconcile
  <2> QED BY <1>1, <2>1, <2>2 DEF Reconcile
<1>2. CASE AddFinalizer \/ Release \/ ForceRelease
  BY <1>2, <1>r DEF Written, AddFinalizer, Release, ForceRelease, Update, Return
<1>3. CASE UpdateStatus \/ Schedule
  BY <1>3, <1>r DEF Written, UpdateStatus, Schedule, Return, Report
<1>4. CASE ConnectRuntime \/ ConnectForDelete
  BY <1>4, <1>r DEF ConnectRuntime, ConnectForDelete, Goto, Report, runtimeUnavailable
<1>5. CASE GetMachine
  BY <1>5, <1>r DEF GetMachine, Refused, Goto, Report, runtimeUnavailable, Operations
<1>6. CASE CreateMachine \/ ResizeMachine \/ EnsureMachineRunning \/ StopMachine
           \/ DeleteMachine
  <2>1. (pc' = "idle" /\ cur' = NoVM) \/ pc' \in {"status", "release"}
    BY <1>6 DEF CreateMachine, ResizeMachine, EnsureMachineRunning, StopMachine,
       DeleteMachine, Call, Goto, Report, Return, runtimeUnavailable
  <2>2. PICK op : Call(op, TRUE)
    BY <1>6 DEF CreateMachine, ResizeMachine, EnsureMachineRunning, StopMachine,
       DeleteMachine, Call
  <2>3. (limbo' = limbo \/ Fault) /\ (faults' = faults \/ Fault)
    BY <2>2 DEF Call, Refused
  <2> QED BY <2>1, <2>3, <1>r
<1>7. CASE Crash
  BY <1>7, <1>r DEF Crash
<1>8. CASE UserStep
  BY <1>8, <1>q DEF UserStep, CreateVM, EditVM, DeleteVM, AnnotateForceDelete, UserWrite
<1>9. CASE EnvStep
  BY <1>9, <1>q DEF EnvStep, AgentReport, HeartbeatLapses, AgentFails, AgentRecovers,
     NodeChanges, NodeRecovers, MachineChanges, LateCall, NodeStep, workerVars
<1>10. CASE UNCHANGED vars \/ \E v \in VMs : Deliver(v) \/ TimerFires(v)
  BY <1>10, <1>q DEF vars, Deliver, TimerFires, workerVars
<1> QED BY <1>1, <1>2, <1>3, <1>4, <1>5, <1>6, <1>7, <1>8, <1>9, <1>10
        DEF Next, WorkerStep

(* Where an event was added one is pending.                                *)
LEMMA EventAdded ==
  ASSUME NEW s \in Seq(SmolVM), NEW o \in SmolVM
  PROVE  Append(s, o) # <<>>
<1>1. Len(Append(s, o)) = Len(s) + 1 /\ Len(s) \in Nat /\ Len(<<>>) = 0
  OBVIOUS
<1> QED BY <1>1

(* A write leaves an event, an event and a timer enqueue, and only the     *)
(* start of a pass (or a restart, which lists everything) takes an object  *)
(* from the queue.                                                         *)
LEMMA Woken ==
  ASSUME IInv, [Next]_vars, NEW v \in VMs
  PROVE  \/ Crash \/ Reconcile(v)
         \/ /\ watch'[v] = <<>> => (watch[v] = <<>> /\ api'[v] = api[v]) \/ v \in queue'
            /\ v \in queue => v \in queue'
            /\ v \in timer => v \in timer' \cup queue'
<1> DEFINE kept == /\ watch'[v] = <<>> => (watch[v] = <<>> /\ api'[v] = api[v]) \/ v \in queue'
                   /\ v \in queue => v \in queue'
                   /\ v \in timer => v \in timer' \cup queue'
<1>t. /\ api \in [VMs -> SmolVM] /\ watch \in [VMs -> Seq(SmolVM)]
      /\ pc # "idle" => cur \in VMs
  BY DEF IInv, TypeOK, ApiTypeOK, WorkerTypeOK
<1>q. ASSUME UNCHANGED apiVars, queue \subseteq queue', timer \subseteq timer' PROVE kept
  BY <1>q DEF apiVars
<1>p. ASSUME NEW w \in VMs, NEW o \in SmolVM, Publish(w, o), queue \subseteq queue',
             timer \subseteq timer'
      PROVE  kept
  <2>1. watch[w] \in Seq(SmolVM)
    BY <1>t
  <2>2. watch' = [watch EXCEPT ![w] = Append(watch[w], o)] /\ api' = [api EXCEPT ![w] = o]
    BY <1>p DEF Publish
  <2>3. Append(watch[w], o) # <<>>
    BY <2>1, EventAdded
  <2>4. watch'[v] = <<>> => v # w /\ watch[v] = <<>> /\ api'[v] = api[v]
    <3>1. CASE v = w
      BY <3>1, <1>t, <2>2, <2>3
    <3>2. CASE v # w
      <4>1. watch'[v] = watch[v] /\ api'[v] = api[v]
        BY <3>2, <1>t, <2>2
      <4> QED BY <3>2, <4>1
    <3> QED BY <3>1, <3>2
  <2> QED BY <1>p, <2>4
<1>1. CASE UserStep
  <2>1. PICK w \in VMs : \E o : UserWrite(w, o)
    BY <1>1 DEF UserStep, CreateVM, EditVM, DeleteVM, AnnotateForceDelete
  <2>2. PICK o : UserWrite(w, o)
    BY <2>1
  <2>3. TypeOK'
    BY TypeOKStep DEF IInv
  <2>4. api'[w] = o /\ api'[w] \in SmolVM
    BY <2>2, <2>3, <1>t DEF UserWrite, Publish, TypeOK, ApiTypeOK
  <2> QED BY <2>2, <2>4, <1>p DEF UserWrite
<1>2. CASE AddFinalizer \/ Release \/ ForceRelease
  <2>1. cur \in VMs /\ obj \in SmolVM
    BY <1>2 DEF AddFinalizer, Release, ForceRelease, IInv, TypeOK, WorkerTypeOK
  <2>2. PICK o \in SmolVM : Update(o)
    BY <1>2, <2>1 DEF AddFinalizer, Release, ForceRelease, RemoveFinalizer, SmolVM
  <2>3. queue \subseteq queue' /\ timer \subseteq timer'
    BY <2>2 DEF Written, Update, Return
  <2> QED BY <2>1, <2>2, <2>3, <1>p, <1>q DEF Update
<1>3. CASE UpdateStatus
  <2>1. cur \in VMs /\ cache[cur] \in SmolVM /\ input \in Inputs
    BY <1>3 DEF UpdateStatus, IInv, TypeOK, ApiTypeOK, WorkerTypeOK
  <2>2. [cache[cur] EXCEPT !.status = statusFrom(cache[cur], input)] \in SmolVM
    BY <2>1, StatusFromType DEF SmolVM
  <2>3. queue \subseteq queue' /\ timer \subseteq timer'
    BY <1>3 DEF Written, UpdateStatus, Return
  <2> QED BY <1>3, <2>1, <2>2, <2>3, <1>p, <1>q DEF UpdateStatus
<1>4. CASE Schedule \/ ConnectRuntime \/ ConnectForDelete \/ GetMachine
  BY <1>4, <1>q DEF Schedule, ConnectRuntime, ConnectForDelete, GetMachine, Goto, Report,
     runtimeUnavailable
<1>5. CASE CreateMachine \/ ResizeMachine \/ EnsureMachineRunning \/ StopMachine
           \/ DeleteMachine
  <2>1. UNCHANGED apiVars
    BY <1>5 DEF CreateMachine, ResizeMachine, EnsureMachineRunning, StopMachine,
       DeleteMachine
  <2>2. queue \subseteq queue' /\ timer \subseteq timer'
    BY <1>5 DEF CreateMachine, ResizeMachine, EnsureMachineRunning, StopMachine,
       DeleteMachine, Call, Goto, Report, Return, runtimeUnavailable
  <2> QED BY <2>1, <2>2, <1>q
<1>6. CASE EnvStep
  BY <1>6, <1>q DEF EnvStep, AgentReport, HeartbeatLapses, AgentFails, AgentRecovers,
     NodeChanges, NodeRecovers, MachineChanges, LateCall, NodeStep
<1>7. CASE UNCHANGED vars
  BY <1>7, <1>q DEF vars, apiVars
<1>8. ASSUME NEW w \in VMs, Deliver(w) PROVE kept
  <2>1. /\ watch' = [watch EXCEPT ![w] = Tail(watch[w])] /\ api' = api /\ timer' = timer
        /\ queue' = queue \cup {w}
    BY <1>8 DEF Deliver
  <2> QED BY <2>1, <1>t
<1>9. ASSUME NEW w \in VMs, TimerFires(w) PROVE kept
  BY <1>9 DEF TimerFires, apiVars
<1>10. ASSUME NEW w \in VMs, Reconcile(w), w # v PROVE kept
  BY <1>10 DEF Reconcile, apiVars
<1> QED BY <1>1, <1>2, <1>3, <1>4, <1>5, <1>6, <1>7, <1>8, <1>9, <1>10
        DEF Next, WorkerStep

(* The worker keeps the object it has in hand until it returns; it returns *)
(* an object to the queue, with a timer or with an event of its own write, *)
(* or because the status it would write is there already.                  *)
LEMMA InHand ==
  ASSUME IInv, WorkerInHand, [Next]_vars, cur \in VMs
  PROVE  \/ UNCHANGED <<cur, obj>>
         \/ Crash
         \/ /\ cur' = NoVM
            /\ \/ cur \in queue' \cup timer' \/ watch'[cur] # <<>>
               \/ /\ pc = "status" /\ input.reconciled \notin Requeued
                  /\ cache[cur].exists =>
                       statusFrom(cache[cur], input) = cache[cur].status
                  /\ UNCHANGED <<apiVars, machines, faults>>
<1>t. watch \in [VMs -> Seq(SmolVM)]
  BY DEF IInv, TypeOK, ApiTypeOK
<1>n. NoVM \notin VMs
  BY ControllerAssumption
<1>p. ASSUME NEW o \in SmolVM, Publish(cur, o) PROVE watch'[cur] # <<>>
  <2>1. watch'[cur] = Append(watch[cur], o) /\ watch[cur] \in Seq(SmolVM)
    BY <1>p, <1>t DEF Publish
  <2> QED BY <2>1, EventAdded
<1>1. CASE AddFinalizer \/ Release \/ ForceRelease
  <2>1. obj \in SmolVM
    BY DEF IInv, TypeOK, WorkerTypeOK
  <2>2. PICK o \in SmolVM : Update(o)
    BY <1>1, <2>1 DEF AddFinalizer, Release, ForceRelease, RemoveFinalizer, SmolVM
  <2> QED BY <2>2, <1>p DEF Written, Update, Return
<1>2. CASE UpdateStatus
  <2>1. cache[cur] \in SmolVM /\ input \in Inputs
    BY DEF IInv, TypeOK, ApiTypeOK, WorkerTypeOK
  <2>2. [cache[cur] EXCEPT !.status = statusFrom(cache[cur], input)] \in SmolVM
    BY <2>1, StatusFromType DEF SmolVM
  <2>3. CASE Publish(cur, [cache[cur] EXCEPT !.status = statusFrom(cache[cur], input)])
    BY <1>2, <2>2, <2>3, <1>p DEF Written, UpdateStatus, Return
  <2>4. CASE Return("error")
    BY <2>4 DEF Return
  <2>5. CASE /\ ~cache[cur].exists
                \/ ~statusChanged(cache[cur].status, statusFrom(cache[cur], input))
             /\ Return(IF input.reconciled \in Requeued THEN "requeue" ELSE "done")
             /\ UNCHANGED <<apiVars, faults>>
    <3>1. CASE input.reconciled \in Requeued
      BY <2>5, <3>1 DEF Return
    <3>2. CASE input.reconciled \notin Requeued
      BY <1>2, <2>5, <3>2 DEF UpdateStatus, Return, statusChanged
    <3> QED BY <3>1, <3>2
  <2> QED BY <1>2, <2>3, <2>4, <2>5 DEF UpdateStatus
<1>3. CASE Schedule \/ ConnectRuntime \/ ConnectForDelete \/ GetMachine
  BY <1>3 DEF Schedule, ConnectRuntime, ConnectForDelete, GetMachine, Goto, Report,
     runtimeUnavailable
<1>4. CASE CreateMachine \/ ResizeMachine \/ EnsureMachineRunning \/ StopMachine
           \/ DeleteMachine
  <2>1. Return("requeue") \/ UNCHANGED <<cur, obj>>
    BY <1>4 DEF CreateMachine, ResizeMachine, EnsureMachineRunning, StopMachine,
       DeleteMachine, Call, Goto, Report, runtimeUnavailable
  <2> QED BY <2>1 DEF Return
<1>5. CASE EnvStep
  BY <1>5 DEF EnvStep, AgentReport, HeartbeatLapses, AgentFails, AgentRecovers,
     NodeChanges, NodeRecovers, MachineChanges, LateCall, NodeStep, workerVars
<1>6. CASE UserStep
  BY <1>6 DEF UserStep, CreateVM, EditVM, DeleteVM, AnnotateForceDelete, UserWrite
<1>7. CASE UNCHANGED vars \/ \E v \in VMs : Deliver(v) \/ TimerFires(v)
  BY <1>7 DEF vars, Deliver, TimerFires, workerVars
<1>8. ~ \E v \in VMs : Reconcile(v)
  BY <1>n DEF Reconcile, WorkerInHand
<1> QED BY <1>1, <1>2, <1>3, <1>4, <1>5, <1>6, <1>7, <1>8 DEF Next, WorkerStep

(* While nothing fails, only the pass under way changes a machine.         *)
LEMMA MachinesStill ==
  ASSUME IInv, WorkerInHand, [Next]_vars, NEW v \in VMs, NEW n \in Nodes,
         faults' = 0, cur # v \/ pc \notin Operations
  PROVE  faults = 0 /\ machines'[n][v] = machines[n][v]
<1>t. faults \in Nat /\ machines \in [Nodes -> [VMs -> MachineInfo]]
  BY DEF IInv, TypeOK, NodeTypeOK, HistoryTypeOK
<1>f. ~Fault
  BY <1>t DEF Fault
<1>1. CASE UserStep
  BY <1>1 DEF UserStep, CreateVM, EditVM, DeleteVM, AnnotateForceDelete, UserWrite
<1>2. CASE AddFinalizer \/ Release \/ ForceRelease
  BY <1>2, <1>f DEF Written, AddFinalizer, Release, ForceRelease, Update
<1>3. CASE UpdateStatus \/ Schedule \/ ConnectRuntime \/ ConnectForDelete \/ GetMachine
  BY <1>3, <1>f DEF Written, UpdateStatus, Schedule, ConnectRuntime, ConnectForDelete,
     GetMachine, Refused
<1>4. CASE CreateMachine \/ ResizeMachine \/ EnsureMachineRunning \/ StopMachine
           \/ DeleteMachine
  <2>1. PICK op \in Operations : pc = op /\ Call(op, TRUE)
    BY <1>4 DEF CreateMachine, ResizeMachine, EnsureMachineRunning, StopMachine,
                DeleteMachine, Call, Operations
  <2>2. faults' = faults
    BY <2>1, <1>f DEF Call, Refused
  <2>3. cur # v
    BY <2>1
  <2>4. CASE Execute(op, obj.status.nodeName, cur, obj.spec)
    BY <2>2, <2>3, <2>4, <1>t DEF Execute
  <2>5. CASE UNCHANGED machines
    BY <2>2, <2>5
  <2> QED BY <2>1, <2>4, <2>5 DEF Call
<1>5. CASE EnvStep
  <2>1. ~ \E c \in limbo : LateCall(c)
    BY <1>t, <1>f DEF LateCall, WorkerInHand
  <2> QED BY <1>5, <1>f, <2>1 DEF EnvStep, AgentReport, HeartbeatLapses, AgentFails,
             AgentRecovers, NodeChanges, NodeRecovers, MachineChanges
<1>6. CASE Crash \/ UNCHANGED vars
  BY <1>6, <1>f DEF Crash, vars
<1>7. CASE \E w \in VMs : Deliver(w) \/ TimerFires(w) \/ Reconcile(w)
  BY <1>7 DEF Deliver, TimerFires, Reconcile
<1> QED BY <1>1, <1>2, <1>3, <1>4, <1>5, <1>6, <1>7 DEF Next, WorkerStep

(* Every exit of Reconcile that does not ask for another pass gives a true *)
(* reason, and it stays true of the version read first until it is         *)
(* written.                                                                *)
LEMMA ReportsHonestlyStep ==
  ASSUME IInv, WorkerInHand, ReportsHonestly, [Next]_vars
  PROVE  ReportsHonestly'
<1> USE DEF ReportsHonestly
<1>c. pc # "idle" => cur \in VMs
  BY DEF IInv, TypeOK, WorkerTypeOK
<1>1. ASSUME UNCHANGED <<pc, cur, obj, input>>, pc = "status" PROVE ReportsHonestly'
  <2>1. cur \in VMs /\ pc \notin Operations
    BY <1>1, <1>c DEF Operations
  <2>2. CASE input.reconciled \in Requeued
    BY <1>1, <2>2 DEF Requeued
  <2>3. ASSUME obj.status.nodeName \in Nodes, faults' = 0
        PROVE  /\ faults = 0
               /\ machines'[obj.status.nodeName][cur] = machines[obj.status.nodeName][cur]
    BY <2>1, <2>3, MachinesStill
  <2>4. CASE honest
    BY <1>1, <2>3, <2>4 DEF honest
  <2> QED BY <1>1, <2>2, <2>4
<1>2. ASSUME pc' # "status" PROVE ReportsHonestly'
  BY <1>2
<1>3. ASSUME Report(input'), input'.reconciled \in Requeued PROVE ReportsHonestly'
  BY <1>3 DEF Requeued
<1>q. ASSUME UNCHANGED <<pc, cur, obj, input>> PROVE ReportsHonestly'
  BY <1>q, <1>1, <1>2
<1>u. ASSUME runtimeUnavailable PROVE ReportsHonestly'
  <2>1. Report(input') /\ input'.reconciled = "RuntimeUnavailable"
    BY <1>u DEF runtimeUnavailable, Report, statusInput
  <2> QED BY <2>1, <1>3 DEF Requeued
<1>4. ASSUME NEW v \in VMs, Reconcile(v) PROVE ReportsHonestly'
  <2>1. CASE UNCHANGED workerVars
    BY <2>1, <1>q DEF workerVars
  <2>2. CASE /\ cur' = v /\ obj' = cache[v] /\ pc' = Dispatch(cache[v])
             /\ input' = IF pc' = "status"
                           THEN [NoInput EXCEPT !.phase = "Failed",
                                   !.nodeName = cache[v].status.nodeName,
                                   !.reconciled = "InvalidSpec"]
                           ELSE NoInput
    <3>1. Dispatch(cache[v]) = "status" =>
            ~cache[v].deleting /\ cache[v].finalizer /\ ~validateSpec(cache[v])
      BY DEF Dispatch
    <3>2. pc' = "status" => /\ input'.reconciled = "InvalidSpec"
                            /\ input'.nodeName = obj'.status.nodeName
      BY <2>2 DEF NoInput
    <3>3. pc' = "status" => ~obj'.deleting /\ obj'.finalizer /\ ~validateSpec(obj)'
      BY <2>2, <3>1 DEF validateSpec
    <3> QED BY <3>2, <3>3 DEF honest
  <2> QED BY <1>4, <2>1, <2>2 DEF Reconcile
<1>5. CASE Schedule
  <2>1. obj.finalizer /\ ~obj.deleting /\ obj.status.nodeName = NoNode
    BY <1>5 DEF Schedule, IInv, WorkerPlace, WorkerInHand
  <2>2. CASE Report([statusInput("Pending", FALSE, "AwaitingNodeAssignment")
                       EXCEPT !.scheduled = "NoEligibleNodes"])
    BY <2>1, <2>2 DEF Report, statusInput, honest
  <2>3. CASE \E n \in Nodes : Report([statusInput("Scheduled", FALSE, "RuntimePending")
                                       EXCEPT !.nodeName = n, !.scheduled = "Bound"])
    <3>1. Report(input') /\ input'.reconciled = "RuntimePending"
      BY <2>3 DEF Report, statusInput
    <3> QED BY <3>1, <1>3 DEF Requeued
  <2> QED BY <1>5, <2>2, <2>3 DEF Schedule, candidates
<1>6. CASE ConnectRuntime
  BY <1>6, <1>u, <1>2 DEF ConnectRuntime, Goto
<1>7. CASE GetMachine
  <2> DEFINE n == obj.status.nodeName
             m == machines[n][cur]
             next == verdict(obj.spec, m)
  <2>1. CASE next \in Operations /\ Goto(next)
    BY <2>1, <1>2 DEF Goto, Operations
  <2>2. CASE next \notin Operations /\ Report(Observed(m, next)) /\ UNCHANGED faults
    <3>1. n \in Nodes /\ obj.finalizer /\ ~obj.deleting /\ UNCHANGED machines
      BY <1>7 DEF GetMachine, IInv, TypeOK, WorkerTypeOK, WorkerPlace, Bound
    <3>2. next \in Refusals \cup {"Reconciled"}
      BY <2>2 DEF verdict, Operations, Refusals
    <3>3. UNCHANGED <<cur, obj>> /\ Report(input') /\ input'.reconciled = next
          /\ input'.nodeName = n
      BY <2>2 DEF Report, Observed, statusInput
    <3>4. CASE next = "Reconciled"
      BY <3>3, <3>4, <1>3 DEF Requeued
    <3>5. CASE next \in Refusals
      BY <2>2, <3>1, <3>3, <3>5 DEF honest
    <3> QED BY <3>2, <3>4, <3>5
  <2>3. CASE runtimeUnavailable
    BY <2>3, <1>u
  <2> QED BY <1>7, <2>1, <2>2, <2>3 DEF GetMachine
<1>8. CASE CreateMachine \/ ResizeMachine \/ EnsureMachineRunning \/ StopMachine
           \/ DeleteMachine
  <2>1. \/ runtimeUnavailable \/ Return("requeue") \/ Goto("release")
        \/ \E phase : Report(statusInput(phase, FALSE, "StartPending"))
    BY <1>8 DEF CreateMachine, ResizeMachine, EnsureMachineRunning, StopMachine,
       DeleteMachine, Call
  <2>2. ASSUME NEW phase, Report(statusInput(phase, FALSE, "StartPending"))
        PROVE  ReportsHonestly'
    <3>1. Report(input') /\ input'.reconciled = "StartPending"
      BY <2>2 DEF Report, statusInput
    <3> QED BY <3>1, <1>3 DEF Requeued
  <2> QED BY <2>1, <2>2, <1>2, <1>u DEF Return, Goto
<1>9. CASE ConnectForDelete
  <2>1. \/ Goto("delete") \/ Goto("forceRelease")
        \/ Report([statusInput("Deleting", FALSE, "DeletionBlocked")
                     EXCEPT !.scheduled = "Bound", !.deletionBlocked = TRUE])
    BY <1>9 DEF ConnectForDelete
  <2>2. ASSUME Report([statusInput("Deleting", FALSE, "DeletionBlocked")
                         EXCEPT !.scheduled = "Bound", !.deletionBlocked = TRUE])
        PROVE  ReportsHonestly'
    <3>1. Report(input') /\ input'.reconciled = "DeletionBlocked"
      BY <2>2 DEF Report, statusInput
    <3> QED BY <3>1, <1>3 DEF Requeued
  <2> QED BY <2>1, <2>2, <1>2 DEF Goto
<1>10. CASE AddFinalizer \/ Release \/ ForceRelease \/ UpdateStatus \/ Crash
  BY <1>10, <1>2 DEF Written, AddFinalizer, Release, ForceRelease, UpdateStatus, Crash,
     Update, Return
<1>11. CASE UserStep
  BY <1>11, <1>q DEF UserStep, CreateVM, EditVM, DeleteVM, AnnotateForceDelete,
     UserWrite
<1>12. CASE EnvStep
  BY <1>12, <1>q DEF EnvStep, AgentReport, HeartbeatLapses, AgentFails, AgentRecovers,
     NodeChanges, NodeRecovers, MachineChanges, LateCall, NodeStep, workerVars
<1>13. CASE UNCHANGED vars \/ \E v \in VMs : Deliver(v) \/ TimerFires(v)
  BY <1>13, <1>q DEF vars, Deliver, TimerFires, workerVars
<1> QED BY <1>4, <1>5, <1>6, <1>7, <1>8, <1>9, <1>10, <1>11, <1>12, <1>13
        DEF Next, WorkerStep

(* The worker goes on with its object, returns, or picks the next one.     *)
LEMMA NextInHand ==
  ASSUME IInv, WorkerInHand, [Next]_vars
  PROVE  \/ UNCHANGED <<cur, obj>> \/ cur' = NoVM
         \/ \E v \in VMs : Reconcile(v) /\ cur' = v /\ obj' = cache[v]
<1>1. CASE cur \in VMs
  BY <1>1, InHand DEF Crash
<1>2. CASE pc = "idle"
  <2>1. CASE \E v \in VMs : Reconcile(v)
    BY <2>1 DEF Reconcile, workerVars
  <2>2. CASE Crash
    BY <2>2 DEF Crash
  <2>3. CASE UserStep
    BY <2>3 DEF UserStep, CreateVM, EditVM, DeleteVM, AnnotateForceDelete, UserWrite
  <2>4. CASE EnvStep
    BY <2>4 DEF EnvStep, AgentReport, HeartbeatLapses, AgentFails, AgentRecovers,
       NodeChanges, NodeRecovers, MachineChanges, LateCall, NodeStep, workerVars
  <2>5. CASE UNCHANGED vars \/ \E v \in VMs : Deliver(v) \/ TimerFires(v)
    BY <2>5 DEF vars, Deliver, TimerFires, workerVars
  <2>6. ~WorkerStep
    BY <1>2 DEF WorkerStep, AddFinalizer, Schedule, ConnectRuntime, GetMachine,
       CreateMachine, ResizeMachine, EnsureMachineRunning, StopMachine,
       ConnectForDelete, DeleteMachine, Release, ForceRelease, UpdateStatus
  <2> QED BY <2>1, <2>2, <2>3, <2>4, <2>5, <2>6 DEF Next
<1> QED BY <1>1, <1>2 DEF IInv, TypeOK, WorkerTypeOK

(* The version in hand stays current until an event tells.                 *)
LEMMA InHandIsCurrentStep ==
  ASSUME IInv, WorkerInHand, InHandIsCurrent, [Next]_vars
  PROVE  InHandIsCurrent'
<1>n. NoVM \notin VMs
  BY ControllerAssumption
<1> SUFFICES ASSUME cur' \in VMs, cur' \notin queue', watch'[cur'] = <<>>
             PROVE  obj' = api'[cur']
  BY DEF InHandIsCurrent
<1>1. CASE \E v \in VMs : Reconcile(v) /\ cur' = v /\ obj' = cache[v]
  BY <1>1 DEF Reconcile, apiVars, IInv, FreshVersions
<1>2. CASE UNCHANGED <<cur, obj>>
  <2>1. ~Reconcile(cur)
    BY <1>2, <1>n DEF Reconcile, WorkerInHand
  <2>2. ~Crash
    BY <1>n DEF Crash
  <2>3. watch[cur] = <<>> /\ api'[cur] = api[cur] /\ cur \notin queue
    BY <1>2, <2>1, <2>2, Woken
  <2> QED BY <1>2, <2>3 DEF InHandIsCurrent
<1>3. CASE cur' = NoVM
  BY <1>3, <1>n
<1> QED BY <1>1, <1>2, <1>3, NextInHand

(* An object becomes unattended only when a pass ends on a status that is  *)
(* there already, and stays explained as long as nothing wakes it.         *)
LEMMA UnattendedStep ==
  ASSUME IInv, WakeInv, [Next]_vars
  PROVE  UnattendedIsExplained'
<1> USE DEF WakeInv
<1>n. NoVM \notin VMs
  BY ControllerAssumption
<1> SUFFICES ASSUME NEW v \in VMs, unattended(v)' PROVE explained(v)'
  BY DEF UnattendedIsExplained
<1>u. /\ api'[v].exists /\ watch'[v] = <<>> /\ cur' # v
      /\ v \notin queue' /\ v \notin timer'
  BY DEF unattended
<1>1. ~Crash
  BY <1>u DEF Crash
<1>2. ~Reconcile(v)
  BY <1>u DEF Reconcile, workerVars, apiVars, IInv, FreshVersions, WorkerInHand
<1>3. watch[v] = <<>> /\ api'[v] = api[v] /\ v \notin queue /\ v \notin timer
  BY <1>u, <1>1, <1>2, Woken
<1>m. ASSUME cur # v \/ pc \notin Operations, explained(v) PROVE explained(v)'
  <2>1. ASSUME NEW n \in Nodes, faults' = 0
        PROVE  faults = 0 /\ machines'[n][v] = machines[n][v]
    BY <1>m, <2>1, MachinesStill
  <2> DEFINE o == api[v]
             n == o.status.nodeName
  <2>2. ASSUME n \in Nodes, faults = 0 => verdict(o.spec, machines[n][v]) = o.status.reconciled
        PROVE  faults' = 0 => verdict(o.spec, machines'[n][v]) = o.status.reconciled
    BY <2>1, <2>2
  <2>3. validateSpec(api[v])' <=> validateSpec(api[v])
    BY <1>3 DEF validateSpec
  <2> QED BY <1>m, <1>3, <2>2, <2>3 DEF explained
<1>4. CASE cur # v
  <2>1. unattended(v)
    BY <1>u, <1>3, <1>4 DEF unattended
  <2> QED BY <1>4, <1>m, <2>1 DEF UnattendedIsExplained
<1>5. CASE cur = v
  <2>1. /\ pc = "status" /\ input.reconciled \notin Requeued
        /\ cache[v].exists => statusFrom(cache[v], input) = cache[v].status
    BY <1>u, <1>1, <1>5, InHand
  <2>2. obj = api[v] /\ cache[v] = api[v] /\ honest
    BY <1>3, <1>5, <2>1 DEF InHandIsCurrent, ReportsHonestly, IInv, FreshVersions
  <2>3. statusFrom(api[v], input) = api[v].status
    BY <1>u, <1>3, <2>1, <2>2
  <2>4. /\ api[v].status.reconciled = input.reconciled
        /\ api[v].status.nodeName = input.nodeName
        /\ api[v].status.observedGeneration = api[v].generation
    <3>1. /\ statusFrom(api[v], input).reconciled = input.reconciled
          /\ statusFrom(api[v], input).nodeName = input.nodeName
          /\ statusFrom(api[v], input).observedGeneration = api[v].generation
      BY DEF statusFrom
    <3> QED BY <2>3, <3>1
  <2>5. explained(v)
    BY <1>5, <2>2, <2>4 DEF honest, explained
  <2> QED BY <1>m, <2>1, <2>5 DEF Operations
<1> QED BY <1>4, <1>5

(* The four parts hold together for ever, along with IInv.                 *)
LEMMA WakeInvariant == Spec => [](IInv /\ WakeInv)
<1>1. Init => WakeInv
  <2> SUFFICES ASSUME Init PROVE WakeInv
    OBVIOUS
  <2>1. \A v \in VMs : ~api[v].exists
    BY DEF Init, NoObject
  <2> QED BY <2>1, ControllerAssumption
          DEF Init, WakeInv, WorkerInHand, InHandIsCurrent, ReportsHonestly,
              UnattendedIsExplained, unattended
<1>2. IInv /\ WakeInv /\ [Next]_vars => WakeInv'
  BY WorkerInHandStep, InHandIsCurrentStep, ReportsHonestlyStep, UnattendedStep DEF WakeInv
<1> QED BY <1>1, <1>2, Inductive, PTL DEF Spec

(* No lost wake-up, whatever the cache lag, the updates and the failures:  *)
(* an object without a pending event, queue entry, timer or pass carries a *)
(* current status that gives a true reason to wait for its user.           *)
THEOREM NoLostWakeUp == Spec => []UnattendedIsExplained
<1>1. WakeInv => UnattendedIsExplained
  BY DEF WakeInv
<1> QED BY <1>1, WakeInvariant, PTL
=============================================================================
