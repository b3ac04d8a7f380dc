-------------------------- MODULE SmolVMSharedProofs --------------------------
(***************************************************************************)
(* What one manager keeps, and what it guarantees, when another manager    *)
(* writes the same objects.  Less holds than of a single manager: the      *)
(* other one may have released an object whose deletion this one has not   *)
(* seen yet, so a version with the finalizer no longer says that the       *)
(* object still exists.                                                    *)
(***************************************************************************)
EXTENDS SmolVMControllerProofs

(* What a version o of v, however old, still says of the API server.       *)
sharedVersion(v, o) ==
  /\ o.exists /\ o.status.nodeName # NoNode => o.finalizer
  /\ o.finalizer => api[v].generation # 0 /\ (api[v].exists => api[v].finalizer)
  /\ "moved" \notin waiver[v] =>
       o.status.nodeName \in {NoNode, api[v].status.nodeName}

SharedVersions ==
  \A v \in VMs :
    /\ sharedVersion(v, cache[v])
    /\ \A i \in 1..Len(watch[v]) : sharedVersion(v, watch[v][i])
    /\ cur = v => sharedVersion(v, obj)

(* The worker binds or keeps bound only an object it read with the         *)
(* finalizer.                                                              *)
SharedPlace ==
  /\ pc # "idle" => obj.exists
  /\ pc = "schedule" => obj.finalizer
  /\ pc = "status" /\ input.nodeName # NoNode => obj.finalizer

SharedInv ==
  TypeOK /\ FreshVersions /\ StoredObjects /\ SharedVersions /\ SharedPlace /\ SoleOwner

(* What a step of anyone leaves of the objects in the API server.          *)
ApiGuarantee ==
  /\ \A v \in VMs :
       /\ waiver[v] \subseteq waiver'[v]
       /\ api[v].generation # 0 => api'[v].generation # 0
       /\ api[v].generation # 0 /\ (api[v].exists => api[v].finalizer)
            => (api'[v].exists => api'[v].finalizer)
       /\ api'[v].exists /\ api'[v].status.nodeName # NoNode => api'[v].finalizer
       /\ "moved" \notin waiver'[v] =>
            api[v].status.nodeName \in {NoNode, api'[v].status.nodeName}
  /\ StoredObjects'

(* What a manager promises the other one of each of its steps.             *)
Guarantee ==
  /\ api' \in [VMs -> SmolVM] /\ NodeTypeOK' /\ HistoryTypeOK'
  /\ ApiGuarantee /\ SoleOwner'

-----------------------------------------------------------------------------
(* The object nobody has created yet.                                      *)
LEMMA NotCreated ==
  /\ ~NoObject.exists /\ ~NoObject.finalizer /\ NoObject.generation = 0
  /\ NoObject.status.nodeName = NoNode
BY DEF NoObject, EmptyStatus

(* The API server's object is one of the versions.                         *)
LEMMA ApiVersion ==
  ASSUME TypeOK, FreshVersions, SharedVersions, NEW v \in VMs
  PROVE  sharedVersion(v, api[v])
<1>1. CASE watch[v] = <<>>
  BY <1>1 DEF FreshVersions, SharedVersions
<1>2. CASE watch[v] # <<>>
  <2>1. Len(watch[v]) \in 1..Len(watch[v])
    BY <1>2 DEF TypeOK, ApiTypeOK
  <2> QED BY <1>2, <2>1 DEF FreshVersions, SharedVersions
<1> QED BY <1>1, <1>2

(* A step in which every write, by whomever, is heard as a watch event.    *)
LEMMA HeardVersions ==
  ASSUME SharedInv, ApiGuarantee, cache' = cache,
         \A v \in VMs : \/ watch'[v] = watch[v] /\ api'[v] = api[v]
                        \/ watch'[v] = Append(watch[v], api'[v]),
         (cur' = cur /\ obj' = obj) \/ cur' = NoVM,
         fresh' => fresh /\ cur' = cur /\ obj' = obj /\ api'[cur] = api[cur]
  PROVE  FreshVersions' /\ SharedVersions'
<1>n. NoVM \notin VMs
  BY ControllerAssumption
<1>t. \A v \in VMs : watch[v] \in Seq(SmolVM)
  BY DEF SharedInv, TypeOK, ApiTypeOK
<1>1. ASSUME NEW v \in VMs, NEW o, sharedVersion(v, o)
      PROVE  /\ o.exists /\ o.status.nodeName # NoNode => o.finalizer
             /\ o.finalizer => api'[v].generation # 0 /\ (api'[v].exists => api'[v].finalizer)
             /\ "moved" \notin waiver'[v] =>
                  o.status.nodeName \in {NoNode, api'[v].status.nodeName}
  BY <1>1 DEF sharedVersion, ApiGuarantee
<1>w. ASSUME NEW v \in VMs, watch'[v] = Append(watch[v], api'[v])
      PROVE  /\ Len(watch'[v]) = Len(watch[v]) + 1 /\ Len(watch[v]) \in Nat
             /\ \A i \in 1..Len(watch[v]) : watch'[v][i] = watch[v][i]
             /\ watch'[v][Len(watch[v]) + 1] = api'[v] /\ watch'[v] # <<>>
  BY <1>t, <1>w
<1>2. ASSUME NEW v \in VMs, api'[v] # api[v] PROVE api'[v].generation # 0
  BY <1>2 DEF ApiGuarantee, StoredObjects, SharedInv
<1>3. ASSUME NEW v \in VMs PROVE sharedVersion(v, api[v])'
  BY DEF sharedVersion, ApiGuarantee, StoredObjects, NoObject
<1>4. SharedVersions'
  <2> SUFFICES ASSUME NEW v \in VMs
               PROVE  /\ sharedVersion(v, cache[v])'
                      /\ \A i \in 1..Len(watch'[v]) : sharedVersion(v, watch[v][i])'
                      /\ cur' = v => sharedVersion(v, obj)'
    BY DEF SharedVersions
  <2>1. sharedVersion(v, cache[v])'
    BY <1>1 DEF SharedInv, SharedVersions, sharedVersion
  <2>2. ASSUME NEW i \in 1..Len(watch'[v]) PROVE sharedVersion(v, watch[v][i])'
    <3>1. CASE i \in 1..Len(watch[v]) /\ watch'[v][i] = watch[v][i]
      <4>1. sharedVersion(v, watch[v][i])
        BY <3>1 DEF SharedInv, SharedVersions
      <4> QED BY <3>1, <4>1, <1>1 DEF sharedVersion
    <3>2. CASE watch'[v][i] = api'[v]
      BY <3>2, <1>3 DEF sharedVersion
    <3>3. CASE watch'[v] = watch[v]
      BY <3>1, <3>3
    <3>4. CASE watch'[v] = Append(watch[v], api'[v])
      <4>1. i \in 1..Len(watch[v]) \/ i = Len(watch[v]) + 1
        BY <3>4, <1>w
      <4> QED BY <3>1, <3>2, <3>4, <4>1, <1>w
    <3> QED BY <3>3, <3>4
  <2>3. ASSUME cur' = v PROVE sharedVersion(v, obj)'
    <3>1. obj' = obj /\ sharedVersion(v, obj)
      BY <2>3, <1>n DEF SharedInv, SharedVersions
    <3> QED BY <3>1, <1>1 DEF sharedVersion
  <2> QED BY <2>1, <2>2, <2>3
<1>5. FreshVersions'
  <2>1. ASSUME NEW v \in VMs
        PROVE  IF watch'[v] = <<>> THEN cache'[v] = api'[v]
               ELSE watch'[v][Len(watch'[v])] = api'[v]
    BY <2>1, <1>w DEF SharedInv, FreshVersions
  <2>2. fresh' => cur' \in VMs /\ obj' = api'[cur']
    BY DEF SharedInv, FreshVersions
  <2> QED BY <2>1, <2>2 DEF FreshVersions
<1> QED BY <1>4, <1>5

(* A write of the version o keeps the guarantee if it takes the finalizer  *)
(* only with the object, and records an overwritten binding.               *)
LEMMA WriteGuarantee ==
  ASSUME SharedInv, NEW v \in VMs, NEW o, api' = [api EXCEPT ![v] = o],
         \A w \in VMs : waiver[w] \subseteq waiver'[w],
         o.generation # 0,
         o.finalizer => o.exists,
         o.exists /\ o.status.nodeName # NoNode => o.finalizer,
         api[v].generation # 0 /\ (api[v].exists => api[v].finalizer)
           => (o.exists => o.finalizer),
         "moved" \notin waiver'[v] =>
           api[v].status.nodeName \in {NoNode, o.status.nodeName}
  PROVE  ApiGuarantee
<1>1. api'[v] = o /\ \A w \in VMs \ {v} : api'[w] = api[w]
  BY DEF SharedInv, TypeOK, ApiTypeOK
<1>2. \A w \in VMs : sharedVersion(w, api[w])
  BY ApiVersion DEF SharedInv
<1>3. StoredObjects'
  BY <1>1 DEF SharedInv, StoredObjects
<1>4. ASSUME NEW w \in VMs, w # v
      PROVE  /\ api'[w].exists /\ api'[w].status.nodeName # NoNode => api'[w].finalizer
             /\ "moved" \notin waiver'[w] =>
                  api[w].status.nodeName \in {NoNode, api'[w].status.nodeName}
  BY <1>1, <1>2, <1>4 DEF sharedVersion
<1> QED BY <1>1, <1>3, <1>4 DEF ApiGuarantee

(* A step that writes nothing.                                             *)
LEMMA NoWriteGuarantee ==
  ASSUME SharedInv, api' = api, \A w \in VMs : waiver[w] \subseteq waiver'[w]
  PROVE  ApiGuarantee
<1>1. \A w \in VMs : sharedVersion(w, api[w])
  BY ApiVersion DEF SharedInv
<1>2. StoredObjects'
  BY DEF SharedInv, StoredObjects
<1> QED BY <1>1, <1>2 DEF ApiGuarantee, sharedVersion

(* A write moves no machine away from the recorded node.                   *)
LEMMA WriteOwner ==
  ASSUME SharedInv, ApiGuarantee, machines' = machines
  PROVE  SoleOwner'
<1>1. ASSUME NEW v \in VMs, NEW n \in Nodes, present(n, v)', "moved" \notin waiver'[v]
      PROVE  api'[v].status.nodeName = n
  <2>1. present(n, v) /\ "moved" \notin waiver[v]
    BY <1>1 DEF present, ApiGuarantee
  <2>2. api[v].status.nodeName = n
    BY <2>1 DEF SharedInv, SoleOwner
  <2> QED BY <1>1, <2>2, NodesAssumption DEF ApiGuarantee
<1> QED BY <1>1 DEF SoleOwner

(* A call of the worker touches the machine on the recorded node only.     *)
LEMMA CallOwner ==
  ASSUME SharedInv, NEW op, pc \in Operations, Call(op, TRUE), api' = api
  PROVE  SoleOwner' /\ \A w \in VMs : waiver[w] \subseteq waiver'[w]
<1> DEFINE k == obj.status.nodeName
<1>t. /\ cur \in VMs /\ k \in Nodes /\ machines \in [Nodes -> [VMs -> MachineInfo]]
      /\ waiver \in [VMs -> SUBSET Waivers]
  BY DEF SharedInv, TypeOK, WorkerTypeOK, NodeTypeOK, HistoryTypeOK, Operations, Bound
<1>1. \A w \in VMs : waiver[w] \subseteq waiver'[w]
  BY <1>t DEF Call
<1>2. \A v \in VMs, n \in Nodes :
        v # cur \/ n # k => machines'[n][v] = machines[n][v]
  BY <1>t DEF Call, Execute
<1>3. "moved" \notin waiver[cur] => api[cur].status.nodeName = k
  BY <1>t, NodesAssumption DEF SharedInv, SharedVersions, sharedVersion
<1>4. ASSUME NEW v \in VMs, NEW n \in Nodes, present(n, v)', "moved" \notin waiver'[v]
      PROVE  api'[v].status.nodeName = n
  <2>1. CASE v = cur /\ n = k
    BY <1>1, <1>3, <1>4, <2>1
  <2>2. CASE v # cur \/ n # k
    BY <1>1, <1>2, <1>4, <2>2 DEF present, SharedInv, SoleOwner
  <2> QED BY <2>1, <2>2
<1> QED BY <1>1, <1>4 DEF SoleOwner

-----------------------------------------------------------------------------
(* The worker's writes keep the guarantee.                                 *)
LEMMA WorkerGuarantee ==
  ASSUME SharedInv, WorkerStep
  PROVE  ApiGuarantee /\ SoleOwner'
<1>c. pc # "idle" => cur \in VMs /\ obj \in SmolVM /\ obj.exists
  BY DEF SharedInv, TypeOK, WorkerTypeOK, SharedPlace
<1>w. waiver \in [VMs -> SUBSET Waivers] /\ cache \in [VMs -> SmolVM]
  BY DEF SharedInv, TypeOK, HistoryTypeOK, ApiTypeOK
<1>g. ASSUME NEW v \in VMs, api[v].exists PROVE api[v].generation # 0
  BY <1>g DEF SharedInv, StoredObjects, NoObject
<1>v. ASSUME NEW v \in VMs PROVE sharedVersion(v, api[v])
  BY ApiVersion DEF SharedInv
<1>q. ASSUME api' = api, machines' = machines, \A w \in VMs : waiver[w] \subseteq waiver'[w]
      PROVE  ApiGuarantee /\ SoleOwner'
  BY <1>q, NoWriteGuarantee, WriteOwner
<1>1. CASE AddFinalizer
  <2>1. cur \in VMs /\ obj \in SmolVM /\ obj.exists /\ waiver' = waiver /\ machines' = machines
    BY <1>1, <1>c DEF AddFinalizer
  <2>2. CASE api' = api
    BY <2>1, <2>2, <1>q
  <2>3. CASE obj = api[cur] /\ Publish(cur, [obj EXCEPT !.finalizer = TRUE])
    <3> DEFINE o == [obj EXCEPT !.finalizer = TRUE]
    <3>1. /\ o.exists = obj.exists /\ o.finalizer /\ o.status = obj.status
          /\ o.generation = obj.generation
      BY <2>1 DEF SmolVM
    <3>2. api' = [api EXCEPT ![cur] = o] /\ o.generation # 0
      BY <2>1, <2>3, <3>1, <1>g DEF Publish
    <3> HIDE DEF o
    <3>3. ApiGuarantee
      BY <2>1, <2>3, <3>1, <3>2, WriteGuarantee
    <3> QED BY <2>1, <3>3, WriteOwner
  <2> QED BY <1>1, <2>2, <2>3 DEF AddFinalizer, Update, apiVars, SharedInv, FreshVersions
<1>2. ASSUME pc # "idle", Update(RemoveFinalizer(obj)), machines' = machines,
             \A w \in VMs : waiver[w] \subseteq waiver'[w]
      PROVE  ApiGuarantee /\ SoleOwner'
  <2>1. cur \in VMs /\ obj \in SmolVM /\ obj.exists
    BY <1>2, <1>c
  <2>2. CASE api' = api
    BY <1>2, <2>2, <1>q
  <2>3. CASE obj = api[cur] /\ Publish(cur, RemoveFinalizer(obj))
    <3> DEFINE o == RemoveFinalizer(obj)
    <3>1. ~o.exists /\ ~o.finalizer /\ o.status = obj.status /\ o.generation = obj.generation
      BY <2>1 DEF SmolVM, RemoveFinalizer
    <3>2. api' = [api EXCEPT ![cur] = o] /\ o.generation # 0
      BY <2>1, <2>3, <3>1, <1>g DEF Publish
    <3> HIDE DEF o
    <3>3. ApiGuarantee
      BY <1>2, <2>1, <2>3, <3>1, <3>2, WriteGuarantee
    <3> QED BY <1>2, <3>3, WriteOwner
  <2> QED BY <1>2, <2>2, <2>3 DEF Update, apiVars, SharedInv, FreshVersions
<1>3. CASE Release
  BY <1>3, <1>2 DEF Release
<1>4. CASE ForceRelease
  <2>1. \A w \in VMs : waiver[w] \subseteq waiver'[w]
    BY <1>4, <1>w, <1>c DEF ForceRelease
  <2> QED BY <1>4, <2>1, <1>2 DEF ForceRelease
<1>5. CASE UpdateStatus
  <2> DEFINE latest == cache[cur]
             new == statusFrom(latest, input)
             o == [latest EXCEPT !.status = new]
  <2>1. cur \in VMs /\ machines' = machines /\ latest \in SmolVM
    BY <1>5, <1>c, <1>w DEF UpdateStatus
  <2>2. \A w \in VMs : waiver[w] \subseteq waiver'[w]
    BY <1>5, <1>w, <2>1 DEF UpdateStatus
  <2>3. CASE api' = api
    BY <2>1, <2>2, <2>3, <1>q
  <2>4. CASE /\ latest.exists /\ latest = api[cur] /\ Publish(cur, o)
             /\ waiver' = IF latest.status.nodeName \in {NoNode, new.nodeName}
                            THEN waiver
                          ELSE [waiver EXCEPT ![cur] = @ \cup {"moved"}]
    <3>1. /\ o.exists = latest.exists /\ o.status = new /\ o.finalizer = latest.finalizer
          /\ o.generation = latest.generation /\ new.nodeName = input.nodeName
      BY <2>1 DEF SmolVM, statusFrom
    <3>2. api' = [api EXCEPT ![cur] = o] /\ o.generation # 0
      BY <2>1, <2>4, <3>1, <1>g DEF Publish
    <3>3. "moved" \notin waiver'[cur] => api[cur].status.nodeName \in {NoNode, new.nodeName}
      <4>1. CASE waiver' = [waiver EXCEPT ![cur] = @ \cup {"moved"}]
        BY <4>1, <2>1, <1>w
      <4>2. CASE latest.status.nodeName \in {NoNode, new.nodeName}
        BY <4>2, <2>4
      <4> QED BY <2>4, <4>1, <4>2
    <3>4. new.nodeName # NoNode => api[cur].finalizer
      <4>1. input.nodeName # NoNode => obj.finalizer
        BY <1>5 DEF UpdateStatus, SharedInv, SharedPlace
      <4> QED BY <2>1, <2>4, <3>1, <4>1 DEF SharedInv, SharedVersions, sharedVersion
    <3>5. latest = api[cur] /\ latest.exists /\ (latest.finalizer => latest.exists)
      BY <2>4
    <3> HIDE DEF o, new, latest
    <3>6. ApiGuarantee
      BY <2>1, <2>2, <3>1, <3>2, <3>3, <3>4, <3>5, WriteGuarantee
    <3> QED BY <2>1, <3>6, WriteOwner
  <2> QED BY <1>5, <2>1, <2>3, <2>4 DEF UpdateStatus, apiVars, SharedInv, FreshVersions
<1>6. CASE CreateMachine \/ ResizeMachine \/ EnsureMachineRunning \/ StopMachine
           \/ DeleteMachine
  <2>1. api' = api /\ pc \in Operations
    BY <1>6 DEF CreateMachine, ResizeMachine, EnsureMachineRunning, StopMachine,
                DeleteMachine, apiVars, Operations
  <2>2. PICK op : Call(op, TRUE)
    BY <1>6 DEF CreateMachine, ResizeMachine, EnsureMachineRunning, StopMachine,
                DeleteMachine, Call
  <2> QED BY <2>1, <2>2, CallOwner, NoWriteGuarantee
<1>7. CASE Schedule \/ ConnectRuntime \/ GetMachine \/ ConnectForDelete
  BY <1>7, <1>q DEF Schedule, ConnectRuntime, GetMachine, ConnectForDelete, apiVars
<1> QED BY <1>1, <1>3, <1>4, <1>5, <1>6, <1>7 DEF WorkerStep

(* Where a step of the worker leaves it.                                   *)
LEMMA WorkerPlaceStep ==
  ASSUME SharedInv, WorkerStep
  PROVE  /\ SharedPlace'
         /\ (cur' = cur /\ obj' = obj) \/ cur' = NoVM
         /\ fresh' => fresh /\ cur' = cur /\ obj' = obj /\ api'[cur] = api[cur]
<1>o. pc # "idle" => cur \in VMs /\ obj \in SmolVM /\ obj.exists
  BY DEF SharedInv, TypeOK, WorkerTypeOK, SharedPlace
<1>b. pc \in Bound => obj.finalizer
  BY <1>o, NodesAssumption
  DEF SharedInv, TypeOK, WorkerTypeOK, SharedVersions, sharedVersion, Bound, Operations
<1>r. ASSUME NEW result, Return(result)
      PROVE  SharedPlace' /\ cur' = NoVM /\ ~fresh'
  BY <1>r DEF Return, SharedPlace, NoInput
<1>p. ASSUME NEW in, Report(in), pc # "idle", in.nodeName # NoNode => obj.finalizer
      PROVE  SharedPlace' /\ cur' = cur /\ obj' = obj /\ fresh' = fresh
  BY <1>p, <1>o DEF Report, SharedPlace
<1>s. ASSUME NEW phase, NEW r, NEW reason
      PROVE  statusInput(phase, r, reason).nodeName = obj.status.nodeName
  BY DEF statusInput
<1>u. ASSUME runtimeUnavailable, pc \in Bound
      PROVE  SharedPlace' /\ cur' = cur /\ obj' = obj /\ fresh' = fresh
  BY <1>u, <1>b, <1>p DEF runtimeUnavailable, Bound, Operations
<1>g. ASSUME NEW next \in PCs, Goto(next), next \notin {"schedule", "status"}, pc # "idle"
      PROVE  SharedPlace' /\ cur' = cur /\ obj' = obj /\ fresh' = fresh
  BY <1>g, <1>o DEF Goto, SharedPlace
<1>1. CASE AddFinalizer \/ Release \/ ForceRelease \/ UpdateStatus
  BY <1>1, <1>r DEF Written, AddFinalizer, Release, ForceRelease, Update, UpdateStatus
<1>a. ASSUME UNCHANGED apiVars, cur' = cur, obj' = obj, fresh' = fresh
      PROVE  fresh' => fresh /\ cur' = cur /\ obj' = obj /\ api'[cur] = api[cur]
  BY <1>a DEF apiVars
<1>2. CASE Schedule
  <2>1. PICK in : Report(in)
    BY <1>2 DEF Schedule
  <2>2. pc # "idle" /\ obj.finalizer /\ UNCHANGED apiVars
    BY <1>2 DEF Schedule, SharedInv, SharedPlace
  <2> QED BY <2>1, <2>2, <1>p, <1>a
<1>3. CASE ConnectRuntime
  <2>1. pc \in Bound /\ pc # "idle" /\ UNCHANGED apiVars
    BY <1>3 DEF ConnectRuntime, Bound
  <2>2. Goto("get") \/ runtimeUnavailable
    BY <1>3 DEF ConnectRuntime
  <2> QED BY <2>1, <2>2, <1>g, <1>u, <1>a DEF PCs
<1>4. CASE GetMachine
  <2>1. pc \in Bound /\ pc # "idle" /\ UNCHANGED apiVars
    BY <1>4 DEF GetMachine, Bound
  <2>2. \/ \E next \in Operations : Goto(next)
        \/ \E in : Report(in)
    BY <1>4 DEF GetMachine, runtimeUnavailable
  <2> QED BY <2>1, <2>2, <1>g, <1>p, <1>b, <1>a DEF PCs, Operations
<1>5. CASE ConnectForDelete
  <2>1. pc \in Bound /\ pc # "idle" /\ UNCHANGED apiVars
    BY <1>5 DEF ConnectForDelete, Bound
  <2>2. Goto("delete") \/ Goto("forceRelease") \/ \E in : Report(in)
    BY <1>5 DEF ConnectForDelete
  <2> QED BY <2>1, <2>2, <1>g, <1>p, <1>b, <1>a DEF PCs, Operations
<1>6. CASE CreateMachine \/ ResizeMachine \/ EnsureMachineRunning \/ StopMachine
           \/ DeleteMachine
  <2>1. pc \in Bound /\ pc # "idle" /\ UNCHANGED apiVars
    BY <1>6 DEF CreateMachine, ResizeMachine, EnsureMachineRunning, StopMachine,
                DeleteMachine, Bound, Operations
  <2>2. Goto("release") \/ Return("requeue") \/ \E in : Report(in)
    BY <1>6 DEF CreateMachine, ResizeMachine, EnsureMachineRunning, StopMachine,
                DeleteMachine, Call, runtimeUnavailable
  <2> QED BY <2>1, <2>2, <1>g, <1>r, <1>p, <1>b, <1>a DEF PCs, Operations
<1> QED BY <1>1, <1>2, <1>3, <1>4, <1>5, <1>6 DEF WorkerStep

(* The API server and its watch, as a step of the worker leaves them.      *)
LEMMA WorkerHeard ==
  ASSUME SharedInv, WorkerStep
  PROVE  /\ cache' = cache
         /\ \A v \in VMs : \/ watch'[v] = watch[v] /\ api'[v] = api[v]
                           \/ watch'[v] = Append(watch[v], api'[v])
<1>t. api \in [VMs -> SmolVM] /\ watch \in [VMs -> Seq(SmolVM)]
  BY DEF SharedInv, TypeOK, ApiTypeOK
<1>1. UNCHANGED apiVars \/ \E o : Publish(cur, o)
  BY DEF WorkerStep, AddFinalizer, Schedule, ConnectRuntime, GetMachine, CreateMachine,
     ResizeMachine, EnsureMachineRunning, StopMachine, ConnectForDelete, DeleteMachine,
     Release, ForceRelease, UpdateStatus, Update
<1> QED BY <1>1, <1>t DEF Publish, apiVars

(* A step of the worker.                                                   *)
LEMMA WorkerShared ==
  ASSUME SharedInv, WorkerStep
  PROVE  SharedInv' /\ Guarantee
<1>1. TypeOK'
  BY WorkerTypeOKStep DEF SharedInv
<1>2. ApiGuarantee /\ SoleOwner'
  BY WorkerGuarantee
<1>3. FreshVersions' /\ SharedVersions'
  BY <1>2, WorkerPlaceStep, WorkerHeard, HeardVersions
<1> QED BY <1>1, <1>2, <1>3, WorkerPlaceStep
        DEF SharedInv, Guarantee, ApiGuarantee, TypeOK, ApiTypeOK

(* Watch events, timers and the start of a pass write nothing.             *)
LEMMA EventsShared ==
  ASSUME SharedInv, \E v \in VMs : Deliver(v) \/ TimerFires(v) \/ Reconcile(v)
  PROVE  SharedInv' /\ Guarantee
<1>n. NoVM \notin VMs
  BY ControllerAssumption
<1>1. TypeOK'
  BY ManagerTypeOK, ReconcileTypeOK DEF SharedInv
<1>2. api' = api /\ waiver' = waiver /\ machines' = machines
  BY DEF Deliver, TimerFires, Reconcile, apiVars
<1>3. ApiGuarantee
  BY <1>2, NoWriteGuarantee
<1>4. SoleOwner'
  BY <1>2, <1>3, WriteOwner
<1>5. ASSUME NEW v \in VMs, Deliver(v)
      PROVE  FreshVersions' /\ SharedVersions' /\ SharedPlace'
  <2>1. /\ watch[v] \in Seq(SmolVM) /\ watch[v] # <<>>
        /\ UNCHANGED <<pc, cur, obj, input, fresh>>
        /\ cache' = [cache EXCEPT ![v] = Head(watch[v])]
        /\ watch' = [watch EXCEPT ![v] = Tail(watch[v])]
    BY <1>5 DEF Deliver, SharedInv, TypeOK, ApiTypeOK, workerVars
  <2>2. /\ cache'[v] = watch[v][1] /\ 1 \in 1..Len(watch[v])
        /\ Len(watch'[v]) = Len(watch[v]) - 1 /\ Len(watch[v]) \in Nat
        /\ \A i \in 1..Len(watch'[v]) :
             watch'[v][i] = watch[v][i + 1] /\ i + 1 \in 1..Len(watch[v])
    BY <2>1 DEF SharedInv, TypeOK, ApiTypeOK
  <2>3. \A w \in VMs \ {v} : cache'[w] = cache[w] /\ watch'[w] = watch[w]
    BY <2>1 DEF SharedInv, TypeOK, ApiTypeOK
  <2>4. SharedVersions'
    <3>1. \A w \in VMs \ {v} :
            /\ sharedVersion(w, cache[w])'
            /\ \A i \in 1..Len(watch'[w]) : sharedVersion(w, watch[w][i])'
      BY <1>2, <2>3 DEF SharedInv, SharedVersions, sharedVersion
    <3>2. sharedVersion(v, cache[v])'
      BY <1>2, <2>2 DEF SharedInv, SharedVersions, sharedVersion
    <3>3. ASSUME NEW i \in 1..Len(watch'[v]) PROVE sharedVersion(v, watch[v][i])'
      <4>1. sharedVersion(v, watch[v][i + 1]) /\ watch'[v][i] = watch[v][i + 1]
        BY <2>2 DEF SharedInv, SharedVersions
      <4> QED BY <4>1, <1>2 DEF sharedVersion
    <3>4. \A w \in VMs : cur' = w => sharedVersion(w, obj)'
      BY <1>2, <2>1 DEF SharedInv, SharedVersions, sharedVersion
    <3> QED BY <3>1, <3>2, <3>3, <3>4 DEF SharedVersions
  <2>5. FreshVersions'
    <3>1. CASE watch'[v] = <<>>
      <4>1. Len(watch[v]) = 1 /\ cache'[v] = api'[v]
        BY <3>1, <1>2, <2>1, <2>2 DEF SharedInv, FreshVersions
      <4> QED BY <3>1, <4>1, <1>2, <2>1, <2>3 DEF SharedInv, FreshVersions
    <3>2. CASE watch'[v] # <<>>
      <4>1. Len(watch'[v]) \in 1..Len(watch'[v])
        BY <3>2, <2>1, <2>2
      <4>2. watch'[v][Len(watch'[v])] = api'[v]
        BY <4>1, <1>2, <2>1, <2>2 DEF SharedInv, FreshVersions
      <4> QED BY <3>2, <4>2, <1>2, <2>1, <2>3 DEF SharedInv, FreshVersions
    <3> QED BY <3>1, <3>2
  <2>6. SharedPlace'
    BY <2>1 DEF SharedInv, SharedPlace
  <2> QED BY <2>4, <2>5, <2>6
<1>q. ASSUME UNCHANGED <<apiVars, workerVars>>
      PROVE  FreshVersions' /\ SharedVersions' /\ SharedPlace'
  BY <1>q, <1>2
  DEF apiVars, workerVars, SharedInv, FreshVersions, SharedVersions, sharedVersion, SharedPlace
<1>6. ASSUME NEW v \in VMs, TimerFires(v)
      PROVE  FreshVersions' /\ SharedVersions' /\ SharedPlace'
  BY <1>6, <1>q DEF TimerFires
<1>7. ASSUME NEW v \in VMs, Reconcile(v)
      PROVE  FreshVersions' /\ SharedVersions' /\ SharedPlace'
  <2>1. UNCHANGED apiVars
    BY <1>7 DEF Reconcile
  <2>2. CASE UNCHANGED workerVars
    BY <2>1, <2>2, <1>q
  <2>3. CASE /\ cache[v].exists
             /\ cur' = v /\ obj' = cache[v] /\ fresh' = (watch[v] = <<>>)
             /\ pc' = Dispatch(cache[v])
    <3>1. SharedVersions'
      BY <1>2, <2>1, <2>3 DEF SharedInv, SharedVersions, sharedVersion, apiVars
    <3>2. FreshVersions'
      BY <2>1, <2>3 DEF SharedInv, FreshVersions, apiVars
    <3>3. pc' \in {"schedule", "status"} => cache[v].finalizer
      BY <2>3 DEF Dispatch
    <3> QED BY <2>3, <3>1, <3>2, <3>3 DEF SharedPlace
  <2> QED BY <1>7, <2>2, <2>3 DEF Reconcile
<1>8. FreshVersions' /\ SharedVersions' /\ SharedPlace'
  BY <1>5, <1>6, <1>7
<1> QED BY <1>1, <1>3, <1>4, <1>8
        DEF SharedInv, Guarantee, ApiGuarantee, TypeOK, ApiTypeOK

(* What users write, and an agent's report.                                *)
LEMMA WorldShared ==
  ASSUME SharedInv,
         \/ \E v \in VMs : \/ \E s \in SpecsOf[v] : CreateVM(v, s)
                           \/ DeleteVM(v)
         \/ \E n \in Nodes : AgentReport(n)
  PROVE  SharedInv'
<1>1. TypeOK'
  BY UserTypeOK, EnvTypeOK DEF SharedInv, UserStep, EnvStep
<1>t. api \in [VMs -> SmolVM] /\ watch \in [VMs -> Seq(SmolVM)]
  BY DEF SharedInv, TypeOK, ApiTypeOK
<1>w. ASSUME NEW v \in VMs, NEW o, UserWrite(v, o), ApiGuarantee
      PROVE  SharedInv'
  <2>1. /\ api' = [api EXCEPT ![v] = o] /\ watch' = [watch EXCEPT ![v] = Append(@, o)]
        /\ cache' = cache /\ (fresh' => fresh /\ cur # v)
        /\ UNCHANGED <<pc, cur, obj, input, machines>>
    BY <1>w DEF UserWrite, Publish
  <2>2. \A w \in VMs : \/ watch'[w] = watch[w] /\ api'[w] = api[w]
                       \/ watch'[w] = Append(watch[w], api'[w])
    BY <1>t, <2>1
  <2>3. fresh' => fresh /\ api'[cur] = api[cur]
    BY <1>t, <2>1 DEF SharedInv, FreshVersions
  <2>4. FreshVersions' /\ SharedVersions'
    BY <1>w, <2>1, <2>2, <2>3, HeardVersions
  <2>5. SharedPlace' /\ SoleOwner'
    BY <1>w, <2>1, WriteOwner DEF SharedInv, SharedPlace
  <2> QED BY <1>1, <1>w, <2>4, <2>5 DEF SharedInv, ApiGuarantee
<1>2. ASSUME NEW v \in VMs, NEW s \in SpecsOf[v], CreateVM(v, s) PROVE SharedInv'
  <2> DEFINE o == [NoObject EXCEPT !.exists = TRUE, !.generation = 1, !.spec = s]
  <2>o. /\ o.generation = 1 /\ o.finalizer = NoObject.finalizer /\ o.exists
        /\ o.status = NoObject.status
    BY InitialValues DEF SmolVM
  <2>a. api[v] = NoObject
    BY <1>2 DEF CreateVM, SharedInv, StoredObjects
  <2>2. UserWrite(v, o) /\ api' = [api EXCEPT ![v] = o] /\ waiver' = waiver
    BY <1>2 DEF CreateVM, UserWrite, Publish
  <2> HIDE DEF o
  <2>1. /\ o.generation # 0 /\ ~o.finalizer /\ o.exists /\ o.status.nodeName = NoNode
        /\ api[v].generation = 0 /\ api[v].status.nodeName = NoNode
    BY <2>o, <2>a, NotCreated
  <2>3. ApiGuarantee
    BY <2>1, <2>2, WriteGuarantee
  <2> QED BY <2>2, <2>3, <1>w
<1>3. ASSUME NEW v \in VMs, DeleteVM(v) PROVE SharedInv'
  <2> DEFINE o == [api[v] EXCEPT !.deleting = TRUE, !.generation = @ + 1,
                                 !.exists = api[v].finalizer]
  <2>1. /\ o.generation = api[v].generation + 1 /\ o.finalizer = api[v].finalizer
        /\ o.exists = api[v].finalizer /\ o.status = api[v].status
        /\ api[v].generation \in Nat
    BY <1>t DEF SmolVM
  <2>g. o.generation # 0 /\ (o.finalizer => o.exists) /\ (o.exists => o.finalizer)
    BY <2>1
  <2>2. UserWrite(v, o) /\ api' = [api EXCEPT ![v] = o] /\ waiver' = waiver
    BY <1>3 DEF DeleteVM, UserWrite, Publish
  <2> HIDE DEF o
  <2>3. ApiGuarantee
    BY <2>1, <2>g, <2>2, WriteGuarantee
  <2> QED BY <2>2, <2>3, <1>w
<1>4. ASSUME NEW n \in Nodes, AgentReport(n) PROVE SharedInv'
  <2>1. UNCHANGED <<apiVars, workerVars, machines, waiver>>
    BY <1>4 DEF AgentReport, NodeStep
  <2>2. FreshVersions' /\ StoredObjects' /\ SharedVersions' /\ SharedPlace' /\ SoleOwner'
    BY <2>1 DEF apiVars, workerVars, SharedInv, FreshVersions, StoredObjects, SharedVersions,
       sharedVersion, SharedPlace, SoleOwner, present
  <2> QED BY <1>1, <2>2 DEF SharedInv
<1> QED BY <1>2, <1>3, <1>4

(* A step of the other manager, heard as watch events.                     *)
LEMMA OthersShared ==
  ASSUME SharedInv, Guarantee,
         watch' = [v \in VMs |-> IF api'[v] = api[v] THEN watch[v]
                                 ELSE Append(watch[v], api'[v])],
         fresh' = (fresh /\ api'[cur] = api[cur]),
         UNCHANGED <<cache, queue, timer, pc, cur, obj, input>>
  PROVE  SharedInv'
<1>1. TypeOK'
  <2>1. ApiTypeOK'
    BY DEF SharedInv, TypeOK, ApiTypeOK, Guarantee
  <2>2. WorkerTypeOK'
    BY DEF SharedInv, TypeOK, WorkerTypeOK
  <2> QED BY <2>1, <2>2 DEF TypeOK, Guarantee
<1>2. FreshVersions' /\ SharedVersions'
  BY HeardVersions DEF Guarantee
<1>3. SharedPlace'
  BY DEF SharedInv, SharedPlace
<1> QED BY <1>1, <1>2, <1>3 DEF SharedInv, Guarantee, ApiGuarantee

(* A manager starts before any object exists.                              *)
LEMMA InitShared ==
  Init => SharedInv
<1> SUFFICES ASSUME Init PROVE SharedInv
  OBVIOUS
<1>1. TypeOK
  BY InitTypeOK
<1>2. FreshVersions /\ StoredObjects /\ SharedPlace
  BY DEF Init, FreshVersions, StoredObjects, SharedPlace, NoObject
<1>3. SharedVersions
  BY ControllerAssumption, NotCreated DEF Init, SharedVersions, sharedVersion
<1>4. SoleOwner
  BY DEF Init, SoleOwner, present, NoMachine
<1> QED BY <1>1, <1>2, <1>3, <1>4 DEF SharedInv

(* A step of nobody.                                                       *)
LEMMA StutterShared ==
  ASSUME SharedInv, UNCHANGED vars
  PROVE  SharedInv'
<1>1. TypeOK'
  BY TypeOKStep DEF SharedInv
<1>2. FreshVersions' /\ StoredObjects' /\ SharedVersions' /\ SharedPlace' /\ SoleOwner'
  BY DEF vars, SharedInv, FreshVersions, StoredObjects, SharedVersions, sharedVersion,
     SharedPlace, SoleOwner, present
<1> QED BY <1>1, <1>2 DEF SharedInv
=============================================================================
