--------------------------- MODULE SmolVMController ---------------------------
(***************************************************************************)
(* The SmolVM controller between the API server, its informer cache and    *)
(* the runtimes of the nodes.                                              *)
(*                                                                         *)
(* One worker runs Reconcile; every read of the cache, every call to a     *)
(* runtime and every write to the API server is a step of its own, and     *)
(* users, watch events, agents, machines and failures interleave with      *)
(* them.  The worker reads objects from the cache, which lags the API      *)
(* server by the events in "watch"; a write succeeds only if it is based   *)
(* on the version the API server holds (metadata.resourceVersion): the     *)
(* version in the cache is that one while no event is pending, the one     *)
(* read first as long as "fresh" says that nobody has written since.       *)
(***************************************************************************)
EXTENDS SmolVMScheduler, Sequences

CONSTANTS
  VMs,         \* the SmolVM objects (one per UID)
  NoVM,        \* the worker's current object when it has none
  SpecsOf,     \* the specs users may give each object
  CacheLags,   \* FALSE: the worker waits for pending events before it reads
  MaxEdits,    \* bound on user updates
  MaxFaults    \* bound on failures

ASSUME ControllerAssumption ==
  /\ NoVM \notin VMs
  /\ SpecsOf \in [VMs -> SUBSET SmolVMSpec]
  /\ CacheLags \in BOOLEAN
  /\ MaxEdits \in Nat
  /\ MaxFaults \in Nat

VARIABLES
  api,         \* the objects of the API server
  cache,       \* the informer cache of the manager
  watch,       \* per object: versions written and not yet delivered
  queue,       \* the workqueue
  timer,       \* objects with a pending RequeueAfter
  pc, cur, obj, input,  \* the worker: next call, object, version read first,
                        \* argument of updateStatus
  fresh,       \* obj is still the version the API server holds
  machines,    \* the machines on each node
  limbo,       \* runtime calls given up on by the client, not yet executed
  agent,       \* the runtime of each node: ok, degraded (answers 503), down
  ready,       \* smolVMNodeEligible of the cached SmolVMNode
  kube,        \* the Kubernetes Node: ready, cordoned or notReady
  edits, faults,
  waiver       \* history: why a machine of the object may be out of reach

apiVars == <<api, cache, watch>>
workerVars == <<pc, cur, obj, input, fresh>>
nodeVars == <<agent, ready, kube>>
vars == <<api, cache, watch, queue, timer, pc, cur, obj, input, fresh,
          machines, limbo, agent, ready, kube, edits, faults, waiver>>

Inputs ==
  [phase : Phases, nodeName : Nodes \cup {NoNode}, ready : BOOLEAN,
   reconciled : ReconReasons, scheduled : {"", "NoEligibleNodes", "Bound"},
   deletionBlocked : BOOLEAN]

NoInput ==
  [phase |-> "", nodeName |-> NoNode, ready |-> FALSE, reconciled |-> "",
   scheduled |-> "", deletionBlocked |-> FALSE]

Operations == {"create", "resize", "start", "stop", "delete"}
PCs == Operations \cup {"idle", "addFinalizer", "schedule", "runtime", "get",
         "deleteRuntime", "release", "forceRelease", "status"}

(* The steps that address the node the object is bound to.                 *)
Bound == Operations \cup {"runtime", "get", "deleteRuntime"}

Calls == [op : Operations, node : Nodes, vm : VMs, spec : SmolVMSpec]

Waivers == {"forced", "moved", "late"}

Init ==
  /\ api = [v \in VMs |-> NoObject]
  /\ cache = [v \in VMs |-> NoObject]
  /\ watch = [v \in VMs |-> <<>>]
  /\ queue = {} /\ timer = {}
  /\ pc = "idle" /\ cur = NoVM /\ obj = NoObject /\ input = NoInput
  /\ fresh = FALSE
  /\ machines = [n \in Nodes |-> [v \in VMs |-> NoMachine]]
  /\ limbo = {}
  /\ agent = [n \in Nodes |-> "ok"]
  /\ ready = [n \in Nodes |-> TRUE]
  /\ kube = [n \in Nodes |-> "ready"]
  /\ edits = 0 /\ faults = 0
  /\ waiver = [v \in VMs |-> {}]

(***************************************************************************)
(* The API server and the informer.                                        *)
(***************************************************************************)
(* A write makes a version and a watch event that carries it.              *)
Publish(v, o) ==
  /\ api' = [api EXCEPT ![v] = o]
  /\ watch' = [watch EXCEPT ![v] = Append(@, o)]
  /\ cache' = cache
  /\ fresh' = (fresh /\ cur # v)

Fault == faults < MaxFaults /\ faults' = faults + 1

(* The For(SmolVM) watch: the cache is updated and the object enqueued.    *)
Deliver(v) ==
  /\ watch[v] # <<>>
  /\ cache' = [cache EXCEPT ![v] = Head(watch[v])]
  /\ watch' = [watch EXCEPT ![v] = Tail(@)]
  /\ queue' = queue \cup {v}
  /\ UNCHANGED <<api, timer, workerVars, machines, limbo, nodeVars, edits,
                 faults, waiver>>

TimerFires(v) ==
  /\ v \in timer
  /\ timer' = timer \ {v}
  /\ queue' = queue \cup {v}
  /\ UNCHANGED <<apiVars, workerVars, machines, limbo, nodeVars, edits,
                 faults, waiver>>

(* Mutant: only bound objects are enqueued.                                *)
RequestsForBoundVMs(n) ==
  {v \in VMs : cache[v].exists /\ cache[v].status.nodeName = n}

(* The objects the Node and SmolVMNode watches enqueue.                    *)
requestsForNodeChange(n) ==
  {v \in VMs :
     /\ cache[v].exists
     /\ \/ cache[v].status.nodeName = n
        \/ /\ cache[v].status.nodeName = NoNode
           /\ cache[v].spec.nodeName \in {NoNode, n}}

(***************************************************************************)
(* How a step of the worker goes on.                                       *)
(***************************************************************************)
(* A read of the cache, which may lag the API server.                      *)
ReadCache == CacheLags \/ \A v \in VMs : watch[v] = <<>>

Goto(next) ==
  /\ pc' = next
  /\ UNCHANGED <<cur, obj, input, fresh, queue, timer>>

(* Call updateStatus with this statusInput.                                *)
Report(in) ==
  /\ pc' = "status" /\ input' = in
  /\ UNCHANGED <<cur, obj, fresh, queue, timer>>

(* Return from Reconcile: an error is retried by the workqueue, "requeue"  *)
(* is RequeueAfter, "done" leaves the object to the next event.            *)
Return(result) ==
  /\ pc' = "idle" /\ cur' = NoVM /\ obj' = NoObject /\ input' = NoInput
  /\ fresh' = FALSE
  /\ queue' = IF result = "error" THEN queue \cup {cur} ELSE queue
  /\ timer' = IF result = "requeue" THEN timer \cup {cur} ELSE timer

statusInput(phase, isReady, reason) ==
  [phase |-> phase, nodeName |-> obj.status.nodeName, ready |-> isReady,
   reconciled |-> reason, scheduled |-> "", deletionBlocked |-> FALSE]

Observed(m, reason) == statusInput(phaseFromMachine(m), readyFromMachine(m), reason)

runtimeUnavailable == Report(statusInput("Unknown", FALSE, "RuntimeUnavailable"))

(***************************************************************************)
(* Reconcile, up to its first call: read the object from the cache and     *)
(* find the branch it takes.                                               *)
(***************************************************************************)
(* Mutant: a deleted object always goes to the runtime, bound or not.      *)
DispatchDeletionToRuntime(o) ==
  IF o.deleting THEN "deleteRuntime"
  ELSE IF ~o.finalizer THEN "addFinalizer"
  ELSE IF ~validateSpec(o) THEN "status"
  ELSE IF o.status.nodeName = NoNode THEN "schedule" ELSE "runtime"

(* Mutant: a deleted object is released at once.                           *)
DispatchReleaseFirst(o) ==
  IF o.deleting THEN "release"
  ELSE IF ~o.finalizer THEN "addFinalizer"
  ELSE IF ~validateSpec(o) THEN "status"
  ELSE IF o.status.nodeName = NoNode THEN "schedule" ELSE "runtime"

(* Mutant: no finalizer is added.                                          *)
DispatchWithoutFinalizer(o) ==
  IF o.deleting
    THEN IF o.status.nodeName = NoNode THEN "release" ELSE "deleteRuntime"
  ELSE IF ~validateSpec(o) THEN "status"
  ELSE IF o.status.nodeName = NoNode THEN "schedule" ELSE "runtime"

(* The early returns of Reconcile before its first call.                   *)
Dispatch(o) ==
  IF o.deleting
    THEN IF o.status.nodeName = NoNode THEN "release" ELSE "deleteRuntime"
  ELSE IF ~o.finalizer THEN "addFinalizer"
  ELSE IF ~validateSpec(o) THEN "status"
  ELSE IF o.status.nodeName = NoNode THEN "schedule" ELSE "runtime"

Reconcile(v) ==
  /\ pc = "idle"
  /\ v \in queue /\ ReadCache
  /\ queue' = queue \ {v}
  /\ \/ ~cache[v].exists /\ UNCHANGED workerVars
     \/ /\ cache[v].exists
        /\ cur' = v /\ obj' = cache[v] /\ fresh' = (watch[v] = <<>>)
        /\ pc' = Dispatch(cache[v])
        /\ input' = IF pc' = "status"
                      THEN [NoInput EXCEPT !.phase = "Failed",
                              !.nodeName = cache[v].status.nodeName,
                              !.reconciled = "InvalidSpec"]
                      ELSE NoInput
  /\ UNCHANGED <<apiVars, timer, machines, limbo, nodeVars, edits, faults, waiver>>

(* The reply to a write that took effect arrives, or is lost and counts as *)
(* an error.                                                               *)
Written(result) ==
  \/ Return(result) /\ UNCHANGED faults
  \/ Return("error") /\ Fault

(* r.Update(vm) of the version read first.                                 *)
Update(o) ==
  \/ /\ fresh
     /\ Publish(cur, o)
     /\ Written("done")
  \/ /\ ~fresh
     /\ Return("error")
     /\ UNCHANGED <<apiVars, faults>>
  \/ /\ Fault
     /\ Return("error")
     /\ UNCHANGED apiVars

AddFinalizer ==
  /\ pc = "addFinalizer"
  /\ Update([obj EXCEPT !.finalizer = TRUE])
  /\ UNCHANGED <<machines, limbo, nodeVars, edits, waiver>>

(* Mutant: the machine is created before the binding is recorded.          *)
ScheduleThenCreate ==
  /\ pc = "schedule" /\ ReadCache
  /\ \E n \in candidates(cache, cur, obj.spec, ready, kube) :
       obj' = [obj EXCEPT !.status.nodeName = n]
  /\ pc' = "runtime"
  /\ UNCHANGED <<apiVars, queue, timer, cur, input, fresh, machines, limbo, nodeVars,
                 edits, faults, waiver>>

(* schedule(): the cache is read again, for the other objects' bindings.   *)
Schedule ==
  /\ pc = "schedule" /\ ReadCache
  /\ LET found == candidates(cache, cur, obj.spec, ready, kube)
     IN \/ /\ found = {}
           /\ Report([statusInput("Pending", FALSE, "AwaitingNodeAssignment")
                        EXCEPT !.scheduled = "NoEligibleNodes"])
        \/ \E n \in found :
             Report([statusInput("Scheduled", FALSE, "RuntimePending")
                       EXCEPT !.nodeName = n, !.scheduled = "Bound"])
  /\ UNCHANGED <<apiVars, machines, limbo, nodeVars, edits, faults, waiver>>

(***************************************************************************)
(* Calls to the runtime of the node the object is bound to.                *)
(***************************************************************************)
(* A call fails without effect when the agent is down, by a transient      *)
(* failure, and perhaps when the runtime is degraded: the agent's machine  *)
(* handlers do not look at its health and pass every call on.              *)
Refused(n) ==
  \/ agent[n] # "ok" /\ UNCHANGED faults
  \/ agent[n] = "ok" /\ Fault

(* The node's health, identity and protocol are checked before any call.   *)
runtimeForNode(n) == ready[n] /\ agent[n] = "ok"

ConnectRuntime ==
  /\ pc = "runtime"
  /\ \/ runtimeForNode(obj.status.nodeName) /\ Goto("get") /\ UNCHANGED faults
     \/ ~runtimeForNode(obj.status.nodeName) /\ runtimeUnavailable /\ UNCHANGED faults
     \/ Fault /\ runtimeUnavailable
  /\ UNCHANGED <<apiVars, machines, limbo, nodeVars, edits, waiver>>

GetMachine ==
  /\ pc = "get"
  /\ LET n == obj.status.nodeName
         m == machines[n][cur]
         next == verdict(obj.spec, m)
     IN \/ /\ agent[n] # "down"
           /\ \/ next \in Operations /\ Goto(next)
              \/ next \notin Operations /\ Report(Observed(m, next))
           /\ UNCHANGED faults
        \/ Refused(n) /\ runtimeUnavailable
  /\ UNCHANGED <<apiVars, machines, limbo, nodeVars, edits, waiver>>

(* The runtime's side of a call.                                           *)
Serves(op, spec, m) ==
  \/ op \in {"create", "delete"}
  \/ m.state # "absent" /\ op \in {"start", "stop"}
  \/ /\ op = "resize" /\ m.state \notin {"absent", "running"}
     /\ validateStorageDoesNotShrink(spec, m)

Effect(op, spec, m) ==
  CASE op = "create" -> IF m.state = "absent" THEN buildCreateRequest(spec) ELSE m
    [] op = "delete" -> NoMachine
    [] op = "resize" -> buildResizeRequest(spec, m)
    [] op = "start" -> [m EXCEPT !.state = "running"]
    [] op = "stop" -> [m EXCEPT !.state = "stopped"]

Execute(op, n, v, spec) ==
  machines' = [machines EXCEPT ![n][v] = Effect(op, spec, @)]

(* One call of the worker.  The reply may be lost after the effect, and a  *)
(* call whose client has given up (30 s) may still be executed later.      *)
Call(op, Success) ==
  LET n == obj.status.nodeName
      m == machines[n][cur]
  IN \/ /\ agent[n] # "down" /\ Serves(op, obj.spec, m)
        /\ Execute(op, n, cur, obj.spec)
        /\ \/ Success /\ UNCHANGED faults
           \/ runtimeUnavailable /\ Fault
        /\ UNCHANGED <<limbo, waiver>>
     \/ /\ \/ Refused(n)
           \/ agent[n] # "down" /\ ~Serves(op, obj.spec, m) /\ UNCHANGED faults
        /\ runtimeUnavailable
        /\ UNCHANGED <<machines, limbo, waiver>>
     \/ /\ agent[n] # "down" /\ Fault
        /\ limbo' = limbo \cup {[op |-> op, node |-> n, vm |-> cur, spec |-> obj.spec]}
        /\ waiver' = [waiver EXCEPT ![cur] =
                        IF op = "create" THEN @ \cup {"late"} ELSE @]
        /\ runtimeUnavailable
        /\ UNCHANGED machines

CreateMachine ==
  /\ pc = "create"
  /\ LET m == machines[obj.status.nodeName][cur]
     IN Call("create", Report(statusInput(
          phaseFromMachine(Effect("create", obj.spec, m)), FALSE, "StartPending")))
  /\ UNCHANGED <<apiVars, nodeVars, edits>>

ResizeMachine ==
  /\ pc = "resize"
  /\ Call("resize", Return("requeue"))
  /\ UNCHANGED <<apiVars, nodeVars, edits>>

EnsureMachineRunning ==
  /\ pc = "start"
  /\ Call("start", Return("requeue"))
  /\ UNCHANGED <<apiVars, nodeVars, edits>>

StopMachine ==
  /\ pc = "stop"
  /\ Call("stop", Return("requeue"))
  /\ UNCHANGED <<apiVars, nodeVars, edits>>

(* A late call is executed, or the runtime never got it.                   *)
LateCall(c) ==
  /\ c \in limbo
  /\ limbo' = limbo \ {c}
  /\ \/ /\ agent[c.node] # "down" /\ Serves(c.op, c.spec, machines[c.node][c.vm])
        /\ Execute(c.op, c.node, c.vm, c.spec)
     \/ UNCHANGED machines
  /\ UNCHANGED <<apiVars, queue, timer, workerVars, nodeVars, edits, faults, waiver>>

(***************************************************************************)
(* reconcileDelete.                                                        *)
(***************************************************************************)
(* Mutant: the finalizer goes when the runtime is unavailable.             *)
ConnectForDeleteUnguarded ==
  /\ pc = "deleteRuntime"
  /\ Goto(IF runtimeForNode(obj.status.nodeName) THEN "delete" ELSE "release")
  /\ UNCHANGED <<apiVars, machines, limbo, nodeVars, edits, faults, waiver>>

ConnectForDelete ==
  /\ pc = "deleteRuntime"
  /\ \/ runtimeForNode(obj.status.nodeName) /\ Goto("delete") /\ UNCHANGED faults
     \/ /\ \/ ~runtimeForNode(obj.status.nodeName) /\ UNCHANGED faults
           \/ Fault
        /\ \/ obj.forceDelete /\ Goto("forceRelease")
           \/ /\ ~obj.forceDelete
              /\ Report([statusInput("Deleting", FALSE, "DeletionBlocked")
                           EXCEPT !.scheduled = "Bound", !.deletionBlocked = TRUE])
  /\ UNCHANGED <<apiVars, machines, limbo, nodeVars, edits, waiver>>

(* Mutant: a machine that is already gone (404) is an error.               *)
DeleteMachineStrict ==
  /\ pc = "delete"
  /\ \/ /\ machines[obj.status.nodeName][cur].state # "absent"
        /\ Call("delete", Goto("release"))
     \/ /\ machines[obj.status.nodeName][cur].state = "absent"
        /\ runtimeUnavailable
        /\ UNCHANGED <<machines, limbo, faults, waiver>>
  /\ UNCHANGED <<apiVars, nodeVars, edits>>

(* IsNotFound counts as success.                                           *)
DeleteMachine ==
  /\ pc = "delete"
  /\ Call("delete", Goto("release"))
  /\ UNCHANGED <<apiVars, nodeVars, edits>>

(* Without its last finalizer a deleted object is removed.                 *)
RemoveFinalizer(o) == [o EXCEPT !.finalizer = FALSE, !.exists = FALSE]

Release ==
  /\ pc = "release"
  /\ Update(RemoveFinalizer(obj))
  /\ UNCHANGED <<machines, limbo, nodeVars, edits, waiver>>

ForceRelease ==
  /\ pc = "forceRelease"
  /\ Update(RemoveFinalizer(obj))
  /\ waiver' = IF api' = api THEN waiver
               ELSE [waiver EXCEPT ![cur] = @ \cup {"forced"}]
  /\ UNCHANGED <<machines, limbo, nodeVars, edits>>

(***************************************************************************)
(* updateStatus: read the object from the cache once more, overwrite its   *)
(* status, and write it unless nothing changed.                            *)
(***************************************************************************)
statusFrom(latest, in) ==
  [nodeName |-> in.nodeName, phase |-> in.phase, ready |-> in.ready,
   reconciled |-> in.reconciled,
   scheduled |-> IF in.scheduled = "" /\ in.nodeName # NoNode THEN "Bound"
                 ELSE IF in.scheduled = "" THEN latest.status.scheduled
                 ELSE in.scheduled,
   deletionBlocked |-> latest.status.deletionBlocked \/ in.deletionBlocked,
   observedGeneration |-> latest.generation]

(* Mutant: runtimeUnavailable returns without RequeueAfter.                *)
RequeuedUnlessUnavailable ==
  {"RuntimePending", "StartPending", "Reconciled", "DeletionBlocked"}

(* The exits of Reconcile that ask for another pass after 10 s.            *)
Requeued == {"RuntimePending", "StartPending", "RuntimeUnavailable",
             "Reconciled", "DeletionBlocked"}

(* Nothing is written when the new status equals the old.                  *)
statusChanged(old, new) == new # old

UpdateStatus ==
  LET latest == cache[cur]
      new == statusFrom(latest, input)
      result == IF input.reconciled \in Requeued THEN "requeue" ELSE "done"
  IN /\ pc = "status" /\ ReadCache
     /\ \/ /\ ~latest.exists \/ ~statusChanged(latest.status, new)
           /\ Return(result)
           /\ UNCHANGED <<apiVars, faults, waiver>>
        \/ /\ latest.exists /\ statusChanged(latest.status, new)
           /\ watch[cur] = <<>>
           /\ Publish(cur, [latest EXCEPT !.status = new])
           /\ Written(result)
           /\ waiver' = IF latest.status.nodeName \in {NoNode, new.nodeName}
                          THEN waiver
                        ELSE [waiver EXCEPT ![cur] = @ \cup {"moved"}]
        \/ /\ latest.exists /\ statusChanged(latest.status, new)
           /\ \/ watch[cur] # <<>> /\ UNCHANGED faults
              \/ Fault
           /\ Return("error")
           /\ UNCHANGED <<apiVars, waiver>>
     /\ UNCHANGED <<machines, limbo, nodeVars, edits>>

WorkerStep ==
  \/ AddFinalizer \/ Schedule \/ ConnectRuntime \/ GetMachine
  \/ CreateMachine \/ ResizeMachine \/ EnsureMachineRunning \/ StopMachine
  \/ ConnectForDelete \/ DeleteMachine \/ Release \/ ForceRelease
  \/ UpdateStatus

(* The manager restarts: it lists every object and enqueues it.            *)
Crash ==
  /\ Fault
  /\ cache' = api
  /\ watch' = [v \in VMs |-> <<>>]
  /\ queue' = {v \in VMs : api[v].exists}
  /\ timer' = {}
  /\ pc' = "idle" /\ cur' = NoVM /\ obj' = NoObject /\ input' = NoInput
  /\ fresh' = FALSE
  /\ UNCHANGED <<api, machines, limbo, nodeVars, edits, waiver>>

(***************************************************************************)
(* Users, through the API server and the CRD's validation.                 *)
(***************************************************************************)
UserWrite(v, o) ==
  /\ Publish(v, o)
  /\ UNCHANGED <<queue, timer, pc, cur, obj, input, machines, limbo, nodeVars,
                 faults, waiver>>

CreateVM(v, s) ==
  /\ api[v].generation = 0
  /\ UserWrite(v, [NoObject EXCEPT !.exists = TRUE, !.generation = 1, !.spec = s])
  /\ UNCHANGED edits

(* The CEL rule on spec.nodeName: once set it cannot change.               *)
AdmitsUpdate(old, new) == old.nodeName \in {NoNode, new.nodeName}

EditVM(v, s) ==
  /\ edits < MaxEdits /\ edits' = edits + 1
  /\ api[v].exists /\ s # api[v].spec
  /\ AdmitsUpdate(api[v].spec, s)
  /\ UserWrite(v, [api[v] EXCEPT !.spec = s, !.generation = @ + 1])

(* The API server sets deletionTimestamp while a finalizer is present.     *)
DeleteVM(v) ==
  /\ api[v].exists /\ ~api[v].deleting
  /\ UserWrite(v, [api[v] EXCEPT !.deleting = TRUE, !.generation = @ + 1,
                                 !.exists = api[v].finalizer])
  /\ UNCHANGED edits

(* The annotation vm.smolvm.dev/force-delete-local-state.                  *)
AnnotateForceDelete(v) ==
  /\ edits < MaxEdits /\ edits' = edits + 1
  /\ api[v].exists /\ ~api[v].forceDelete
  /\ UserWrite(v, [api[v] EXCEPT !.forceDelete = TRUE])

(***************************************************************************)
(* Nodes: agents and their reports, Kubernetes Nodes, machines.            *)
(***************************************************************************)
NodeStep == UNCHANGED <<apiVars, timer, workerVars, limbo, edits, waiver>>

(* report(): the conditions (Ready, Schedulable...) and the heartbeat; the *)
(* SmolVMNode watch enqueues.                                              *)
AgentReport(n) ==
  /\ agent[n] # "down"
  /\ ready' = [ready EXCEPT ![n] = agent[n] = "ok" /\ kube[n] # "notReady"]
  /\ queue' = queue \cup requestsForNodeChange(n)
  /\ UNCHANGED <<agent, kube, machines, faults>> /\ NodeStep

(* Two minutes without a heartbeat: no event tells the controller.         *)
HeartbeatLapses(n) ==
  /\ ready[n] /\ agent[n] = "down"
  /\ ready' = [ready EXCEPT ![n] = FALSE]
  /\ UNCHANGED <<agent, kube, machines, queue, faults>> /\ NodeStep

AgentFails(n) ==
  /\ Fault
  /\ agent[n] = "ok"
  /\ \E state \in {"degraded", "down"} : agent' = [agent EXCEPT ![n] = state]
  /\ UNCHANGED <<ready, kube, machines, queue>> /\ NodeStep

AgentRecovers(n) ==
  /\ agent[n] # "ok"
  /\ agent' = [agent EXCEPT ![n] = "ok"]
  /\ UNCHANGED <<ready, kube, machines, queue, faults>> /\ NodeStep

(* The Kubernetes Node is cordoned, uncordoned or not Ready.               *)
NodeChanges(n) ==
  /\ Fault
  /\ \E state \in {"ready", "cordoned", "notReady"} \ {kube[n]} :
       kube' = [kube EXCEPT ![n] = state]
  /\ queue' = queue \cup requestsForNodeChange(n)
  /\ UNCHANGED <<agent, ready, machines>> /\ NodeStep

NodeRecovers(n) ==
  /\ kube[n] = "notReady"
  /\ kube' = [kube EXCEPT ![n] = "ready"]
  /\ queue' = queue \cup requestsForNodeChange(n)
  /\ UNCHANGED <<agent, ready, machines, faults>> /\ NodeStep

(* A guest powers off, or a node loses its local data.                     *)
MachineChanges(n, v) ==
  /\ Fault
  /\ machines[n][v].state # "absent"
  /\ \/ /\ machines[n][v].state = "running"
        /\ machines' = [machines EXCEPT ![n][v].state = "stopped"]
     \/ machines' = [machines EXCEPT ![n][v] = NoMachine]
  /\ UNCHANGED <<nodeVars, queue>> /\ NodeStep

-----------------------------------------------------------------------------
UserStep ==
  \E v \in VMs :
    \/ \E s \in SpecsOf[v] : CreateVM(v, s) \/ EditVM(v, s)
    \/ DeleteVM(v) \/ AnnotateForceDelete(v)

EnvStep ==
  \/ \E n \in Nodes :
       \/ AgentReport(n) \/ HeartbeatLapses(n) \/ AgentFails(n)
       \/ AgentRecovers(n) \/ NodeChanges(n) \/ NodeRecovers(n)
       \/ \E v \in VMs : MachineChanges(n, v)
  \/ \E c \in limbo : LateCall(c)

Next ==
  \/ \E v \in VMs : Deliver(v) \/ TimerFires(v) \/ Reconcile(v)
  \/ WorkerStep \/ Crash \/ UserStep \/ EnvStep

Spec == Init /\ [][Next]_vars

(* The worker goroutine runs, watches and timers deliver, the workqueue is *)
(* first-in first-out (so no object is passed over for ever), a DaemonSet  *)
(* restarts a failed agent, a running agent reports every interval and a   *)
(* node that is not Ready comes back.                                      *)
Fairness ==
  /\ WF_vars(WorkerStep)
  /\ \A v \in VMs :
       WF_vars(Deliver(v)) /\ WF_vars(TimerFires(v)) /\ SF_vars(Reconcile(v))
  /\ \A n \in Nodes :
       WF_vars(AgentReport(n)) /\ WF_vars(AgentRecovers(n)) /\ WF_vars(NodeRecovers(n))

FairSpec == Spec /\ Fairness

-----------------------------------------------------------------------------
(***************************************************************************)
(* Properties.                                                             *)
(***************************************************************************)
ApiTypeOK ==
  /\ api \in [VMs -> SmolVM]
  /\ cache \in [VMs -> SmolVM]
  /\ watch \in [VMs -> Seq(SmolVM)]

WorkerTypeOK ==
  /\ queue \in SUBSET VMs /\ timer \in SUBSET VMs
  /\ pc \in PCs /\ cur \in VMs \cup {NoVM} /\ obj \in SmolVM /\ input \in Inputs
  /\ fresh \in BOOLEAN
  /\ pc # "idle" => cur \in VMs
  /\ pc \in Bound => obj.status.nodeName \in Nodes

NodeTypeOK ==
  /\ machines \in [Nodes -> [VMs -> MachineInfo]]
  /\ limbo \in SUBSET Calls
  /\ agent \in [Nodes -> {"ok", "degraded", "down"}]
  /\ ready \in [Nodes -> BOOLEAN]
  /\ kube \in [Nodes -> {"ready", "cordoned", "notReady"}]

HistoryTypeOK ==
  /\ edits \in 0..MaxEdits /\ faults \in 0..MaxFaults
  /\ waiver \in [VMs -> SUBSET Waivers]

(* Every variable stays in its type: in particular the worker only ever    *)
(* builds statuses, requests and calls made of known phases, reasons and   *)
(* nodes, and calls a runtime only for an object bound to a node.          *)
TypeOK == ApiTypeOK /\ WorkerTypeOK /\ NodeTypeOK /\ HistoryTypeOK

present(n, v) == machines[n][v].state # "absent"

removed(v) == api[v].generation > 0 /\ ~api[v].exists

(* The finalizer's promise (reconcileDelete): when the object is gone, no  *)
(* node holds a machine of it.  Excused are the force annotation, a        *)
(* binding that was overwritten and a create executed after its timeout.   *)
CleanRelease ==
  \A v \in VMs : removed(v) /\ waiver[v] = {} => \A n \in Nodes : ~present(n, v)

(* A machine lives only on the node that the API server's status names, so *)
(* at most one node runs it, although the worker acts on cached bindings   *)
(* and calls are executed late; unless the binding was overwritten.        *)
SoleOwner ==
  \A v \in VMs, n \in Nodes :
    present(n, v) /\ "moved" \notin waiver[v] => api[v].status.nodeName = n

(* The controller creates a machine only while the API server holds the    *)
(* object with its finalizer, however stale the version it acts on.        *)
CreateUnderFinalizer ==
  [][\A v \in VMs, n \in Nodes :
       pc = "create" /\ cur = v /\ ~present(n, v) /\ present(n, v)'
         => api[v].exists /\ api[v].finalizer]_vars

unattended(v) ==
  /\ api[v].exists /\ watch[v] = <<>>
  /\ v \notin queue \cup timer /\ cur # v

Refusals == {"UnsupportedUpdate", "InvalidStorageResize",
             "ResizeRequiresStoppedMachine"}

(* The status of v is current and gives a reason to wait that is true.     *)
explained(v) ==
  LET o == api[v]
      n == o.status.nodeName
      reason == o.status.reconciled
  IN /\ ~o.deleting /\ o.finalizer
     /\ o.status.observedGeneration = o.generation
     /\ \/ reason = "InvalidSpec" /\ ~validateSpec(o)
        \/ reason = "AwaitingNodeAssignment" /\ n = NoNode
        \/ /\ reason \in Refusals /\ n \in Nodes
           /\ faults = 0 => verdict(o.spec, machines[n][v]) = reason

(* No lost wake-up: an object that nothing will reconcile again (no event, *)
(* queue entry, timer or pass under way) is not being deleted, its status  *)
(* is stamped with its generation, and gives a reason that is still true   *)
(* (of its machine only while nothing has failed: no event tells that a    *)
(* machine was lost or powered off, or that a late call changed it).       *)
UnattendedIsExplained == \A v \in VMs : unattended(v) => explained(v)

liveBound(v, n) ==
  api[v].exists /\ ~api[v].deleting /\ api[v].status.nodeName = n

settled(v) ==
  LET o == api[v]
      n == o.status.nodeName
      reason == o.status.reconciled
  IN /\ o.status.observedGeneration = o.generation
     /\ IF ~validateSpec(o) THEN reason = "InvalidSpec"
        ELSE IF n = NoNode
          THEN /\ reason = "AwaitingNodeAssignment"
               /\ candidates(api, v, o.spec, ready, kube) = {}
        ELSE /\ reason = verdict(o.spec, machines[n][v])
             /\ o.status.phase = phaseFromMachine(machines[n][v])

(* Once edits and failures stop, every object's status comes to tell the   *)
(* truth about its spec, its node and its machine, for ever: "Reconciled"  *)
(* only if the machine is what the spec asks for.                          *)
Converges == <>[](\A v \in VMs : api[v].exists /\ ~api[v].deleting => settled(v))

(* A deletion is never stuck: the object goes once its agent is back.      *)
DeletionCompletes == \A v \in VMs : api[v].deleting ~> ~api[v].exists

-----------------------------------------------------------------------------
(***************************************************************************)
(* Why CleanRelease, SoleOwner and CreateUnderFinalizer hold: an inductive *)
(* invariant over every version of an object that the controller may still *)
(* act on.                                                                 *)
(***************************************************************************)
(* What a version o of v, however old, still says about the API server.    *)
lineage(v, o) ==
  /\ o.finalizer /\ ~o.deleting => api[v].exists /\ api[v].finalizer
  /\ o.deleting => api[v].deleting
  /\ "moved" \notin waiver[v] =>
       o.status.nodeName \in {NoNode, api[v].status.nodeName}

(* The versions the cache holds and will hold, and the one under way.      *)
Lineage ==
  \A v \in VMs :
    /\ lineage(v, cache[v])
    /\ \A i \in 1..Len(watch[v]) : lineage(v, watch[v][i])
    /\ cur = v => lineage(v, obj)

(* A deletion is seen in order: once one version shows it, later ones do.  *)
DeletionSeenInOrder ==
  \A v \in VMs :
    /\ cur = v /\ obj.deleting => cache[v].deleting
    /\ \A i \in 1..Len(watch[v]) : cache[v].deleting => watch[v][i].deleting
    /\ \A i, j \in 1..Len(watch[v]) :
         i =< j /\ watch[v][i].deleting => watch[v][j].deleting

(* What the two tests on metadata.resourceVersion rest on.                 *)
FreshVersions ==
  /\ \A v \in VMs :
       IF watch[v] = <<>> THEN cache[v] = api[v]
       ELSE watch[v][Len(watch[v])] = api[v]
  /\ fresh => cur \in VMs /\ obj = api[cur]

StoredObjects ==
  \A v \in VMs :
    /\ api[v].generation = 0 => api[v] = NoObject
    /\ api[v].finalizer => api[v].exists

(* What the worker's place in Reconcile says of the version it acts on.    *)
WorkerPlace ==
  /\ pc # "idle" => obj.exists
  /\ pc \in {"addFinalizer", "schedule", "runtime", "get", "create", "resize",
            "start", "stop"} => ~obj.deleting
  /\ pc \in {"schedule", "runtime", "get", "create", "resize", "start", "stop"}
       => obj.finalizer
  /\ pc \in {"deleteRuntime", "delete", "release", "forceRelease"} => obj.deleting
  /\ pc = "release" =>
       \/ obj.status.nodeName = NoNode
       \/ obj.status.nodeName \in Nodes /\ ~present(obj.status.nodeName, cur)
       \/ "late" \in waiver[cur]

LateCreates ==
  \A c \in limbo : c.op = "create" =>
    /\ "late" \in waiver[c.vm]
    /\ "moved" \notin waiver[c.vm] => api[c.vm].status.nodeName = c.node

(* While an object has a machine its finalizer stays.                      *)
MachinesHeld ==
  \A v \in VMs, n \in Nodes :
    present(n, v) /\ api[v].exists /\ waiver[v] = {} => api[v].finalizer

(* The inductive invariant: old versions of an object, late calls and the  *)
(* pass under way never contradict what the API server holds.              *)
IInv ==
  /\ TypeOK /\ Lineage /\ DeletionSeenInOrder /\ FreshVersions /\ StoredObjects
  /\ WorkerPlace /\ LateCreates /\ MachinesHeld /\ SoleOwner /\ CleanRelease

-----------------------------------------------------------------------------
(***************************************************************************)
(* The controller implements MachineLifecycle.                             *)
(***************************************************************************)
stageOf(o) ==
  IF o.generation = 0 THEN "none"
  ELSE IF ~o.exists THEN "gone"
  ELSE IF o.finalizer THEN "held" ELSE "declared"

Lifecycle ==
  INSTANCE MachineLifecycle WITH
    stage <- [v \in VMs |-> stageOf(api[v])],
    home <- [v \in VMs |-> api[v].status.nodeName],
    sites <- [v \in VMs |-> {n \in Nodes : present(n, v)}],
    excused <- {v \in VMs : waiver[v] # {}}

(* Through caches, stale versions, conflicts, retries, crashes and late    *)
(* calls, every step of the system is a step of the lifecycle it promises  *)
(* (or changes nothing the promise is about): an object's only home is     *)
(* recorded before the machine boots there, and the object goes after it.  *)
ImplementsLifecycle == Lifecycle!Spec

-----------------------------------------------------------------------------
(***************************************************************************)
(* What the repository says and the code does not do.                      *)
(***************************************************************************)
(* README: "records the immutable assignment in status.nodeName", "bound   *)
(* VMs do not move automatically".                                         *)
BindingImmutable ==
  [][\A v \in VMs : api[v].status.nodeName # NoNode
       => api'[v].status.nodeName = api[v].status.nodeName]_vars

(* smolvm_controller_test.go: "does not schedule when resource fit or host *)
(* ports would conflict".  Two SmolVMs bound to one node never claim the   *)
(* same host port.                                                         *)
HostPortsExclusive ==
  \A v, w \in VMs, n \in Nodes :
    v # w /\ liveBound(v, n) /\ liveBound(w, n)
      => hosts(api[v].spec) \cap hosts(api[w].spec) = {}

(* The same test: the SmolVMs bound to a node never request more than it   *)
(* reports allocatable, in true (not truncated) sums.                      *)
CapacityRespected ==
  \A n \in Nodes, r \in Resources :
    fits(usage(api, {v \in VMs : liveBound(v, n)}, r), Allocatable[n][r])

(* The ResizeRequiresStoppedMachine message, "set spec.running=false       *)
(* before expanding storage": a machine that stays unwanted is stopped.    *)
StopHonoured ==
  \A v \in VMs :
    <>[](api[v].exists /\ ~api[v].deleting /\ validateSpec(api[v]) /\ ~api[v].spec.running)
      => <>[](\A n \in Nodes : machines[n][v].state # "running")
=============================================================================
