----------------------------- MODULE RuntimeAgent -----------------------------
(***************************************************************************)
(* The runtime agents: how a node's state reaches its SmolVMNode, and how  *)
(* the controller finds and checks a runtime through that object.          *)
(*                                                                         *)
(* report() is a sequence of API calls whose errors are dropped; pods die, *)
(* come back under other IPs, Nodes are replaced and users touch the       *)
(* SmolVMNode in between.  The controller resolves an endpoint from its    *)
(* cache and checks health, identity and protocol in calls of their own    *)
(* before the one it is about, here the delete of a machine.               *)
(*                                                                         *)
(* Time is the age of what was stamped: Tick makes everything older, and   *)
(* ages are not told apart beyond Stale, the two minutes of                *)
(* smolVMNodeEligible.  The agent that stamps a heartbeat and the          *)
(* controller that compares it read one clock: skew between their machines *)
(* would add to, or take from, the two minutes.  Every agent speaks the    *)
(* same protocol version, and the controller has the token.                *)
(***************************************************************************)
EXTENDS Integers

CONSTANTS
  Nodes,
  IPs,         \* the pod network: live pods have different addresses
  NoIP,        \* no pod; also an empty status.endpoint
  Labels,      \* what a Node's labels may be
  NoLabels,    \* no labels at all
  Stale,       \* the age beyond which a heartbeat is stale
  QuickReuse,  \* TRUE: an IP may be given away during a pass that uses it
  MaxFaults    \* bound on failures

ASSUME AgentAssumption ==
  /\ NoIP \notin IPs /\ NoLabels \notin Labels /\ Labels # {}
  /\ Stale \in Nat /\ MaxFaults \in Nat /\ QuickReuse \in BOOLEAN

VARIABLES
  kube,      \* the Kubernetes Nodes: uid, labels, Ready condition
  probes,    \* per node: which of socket, state directory and KVM work
  pod,       \* per node: the IP of its agent's pod
  agent,     \* per node: the agent process and the report under way
  store,     \* the SmolVMNodes of the API server
  cached,    \* the SmolVMNodes in the controller's cache
  conn,      \* runtimeForNode and the call that follows
  machine,   \* the nodes that hold the machine under deletion
  released,  \* its object's finalizer was removed
  goodAge,   \* history, per node: time since its agent last ran and was healthy
  faults

clusterVars == <<kube, probes, pod, goodAge>>
controllerVars == <<conn, machine, released>>
vars == <<clusterVars, agent, store, cached, controllerVars, faults>>

(***************************************************************************)
(* Data.                                                                   *)
(***************************************************************************)
Ages == 0..(Stale + 1)
Older(age) == IF age > Stale THEN age ELSE age + 1

Probes == {"socket", "state", "kvm"}
Conditions == {"Ready", "KVMAvailable", "RuntimeReady", "Schedulable"}

(* A UID is the number of the Node's incarnation, 0 the empty string.      *)
NodeUIDs == Nat

(* Allocatable cpus as reported, or 0: "not reported".                     *)
CPUs == {0, 1}

KubeNodes ==
  [uid : NodeUIDs, labels : Labels \cup {NoLabels}, ready : BOOLEAN]

(* The conditions that are True, and the age of the heartbeat.             *)
Statuses ==
  [nodeUID : NodeUIDs, beat : Ages, podIP : IPs \cup {NoIP}, cpus : CPUs,
   conditions : SUBSET Conditions]

NoStatus ==
  [nodeUID |-> 0, beat |-> Stale + 1, podIP |-> NoIP, cpus |-> 0,
   conditions |-> {}]

SmolVMNodes ==
  [exists : BOOLEAN, labels : Labels \cup {NoLabels}, status : Statuses]

NoSmolVMNode == [exists |-> FALSE, labels |-> NoLabels, status |-> NoStatus]

(* The agent struct (nodeUID) and the variables of report(): k8sNode, now, *)
(* the values read for the status, and whether latest is still the version *)
(* that the API server holds.                                              *)
AgentPCs == {"idle", "ensure", "get", "labels", "capabilities", "health", "status"}

Agents ==
  [pc : AgentPCs, nodeUID : NodeUIDs, k8sNode : KubeNodes, now : Ages,
   cpus : CPUs, conditions : SUBSET Conditions, fresh : BOOLEAN]

NoKubeNode == [uid |-> 0, labels |-> NoLabels, ready |-> FALSE]

NewAgent ==
  [pc |-> "idle", nodeUID |-> 0, k8sNode |-> NoKubeNode, now |-> 0,
   cpus |-> 0, conditions |-> {}, fresh |-> FALSE]

Conns ==
  [pc : {"idle", "health", "identity", "capabilities", "call"},
   node : Nodes, podIP : IPs \cup {NoIP}, nodeUID : NodeUIDs]

(* No agent runs yet; the machine is on some node.                         *)
Init ==
  /\ \E l \in [Nodes -> Labels] :
       kube = [n \in Nodes |-> [uid |-> 1, labels |-> l[n], ready |-> TRUE]]
  /\ probes = [n \in Nodes |-> Probes]
  /\ pod = [n \in Nodes |-> NoIP]
  /\ agent = [n \in Nodes |-> NewAgent]
  /\ store = [n \in Nodes |-> NoSmolVMNode]
  /\ cached = store
  /\ \E home \in Nodes :
       /\ conn = [pc |-> "idle", node |-> home, podIP |-> NoIP, nodeUID |-> 0]
       /\ machine = {home}
  /\ released = FALSE
  /\ goodAge = [n \in Nodes |-> Stale + 1]
  /\ faults = 0

Fault == faults < MaxFaults /\ faults' = faults + 1

(***************************************************************************)
(* report().                                                               *)
(***************************************************************************)
health(n) == probes[n] = Probes

good(n) == pod[n] # NoIP /\ health(n)

(* The next step of report() in agent n, with these variables.             *)
Step(n, a) ==
  /\ agent' = [agent EXCEPT ![n] = a]
  /\ UNCHANGED <<clusterVars, cached, controllerVars>>

At(n, pc) == pod[n] # NoIP /\ agent[n].pc = pc

(* Get the Node, and then the time; a failure leaves an empty Node.        *)
ReadNode(n) ==
  LET read(k, uid) == [agent[n] EXCEPT !.pc = "ensure", !.k8sNode = k,
                                       !.nodeUID = uid, !.now = 0]
  IN /\ At(n, "idle")
     /\ \/ Step(n, read(kube[n], kube[n].uid)) /\ UNCHANGED faults
        \/ Step(n, read(NoKubeNode, agent[n].nodeUID)) /\ Fault
     /\ UNCHANGED store

(* CreateOrUpdate with nothing to update.                                  *)
Ensure(n) ==
  /\ At(n, "ensure")
  /\ Step(n, [agent[n] EXCEPT !.pc = "get"])
  /\ \/ /\ store' = IF store[n].exists THEN store
                    ELSE [store EXCEPT ![n].exists = TRUE,
                                       ![n].labels = agent[n].k8sNode.labels]
        /\ UNCHANGED faults
     \/ Fault /\ UNCHANGED store

GetLatest(n) ==
  /\ At(n, "get")
  /\ \/ /\ store[n].exists
        /\ Step(n, [agent[n] EXCEPT !.pc = "labels", !.fresh = TRUE])
        /\ UNCHANGED faults
     \/ /\ \/ ~store[n].exists /\ UNCHANGED faults
           \/ Fault
        /\ Step(n, [agent[n] EXCEPT !.pc = "idle"])
  /\ UNCHANGED store

(* Update(latest): a conflict, a failure and a lost reply are all dropped. *)
(* A write that changes nothing makes no version.                          *)
UpdateLabels(n) ==
  LET labels == agent[n].k8sNode.labels
      next(fresh) == Step(n, [agent[n] EXCEPT !.pc = "capabilities", !.fresh = fresh])
      written == store' = [store EXCEPT ![n].labels = labels]
  IN /\ At(n, "labels")
     /\ \/ agent[n].fresh /\ written /\ next(TRUE) /\ UNCHANGED faults
        \/ agent[n].fresh /\ written /\ next(store[n].labels = labels) /\ Fault
        \/ ~agent[n].fresh /\ next(FALSE) /\ UNCHANGED <<store, faults>>
        \/ Fault /\ next(agent[n].fresh) /\ UNCHANGED store

(* capabilityReport: the Node is read a second time.                       *)
ReadCapabilities(n) ==
  /\ At(n, "capabilities")
  /\ \/ Step(n, [agent[n] EXCEPT !.pc = "health", !.cpus = 1]) /\ UNCHANGED faults
     \/ Step(n, [agent[n] EXCEPT !.pc = "health", !.cpus = 0]) /\ Fault
  /\ UNCHANGED store

conditions(n) ==
  {c \in Conditions :
     CASE c = "Ready" -> health(n)
       [] c = "KVMAvailable" -> "kvm" \in probes[n]
       [] c = "RuntimeReady" -> "socket" \in probes[n]
       [] c = "Schedulable" -> health(n) /\ agent[n].k8sNode.ready}

SampleHealth(n) ==
  /\ At(n, "health")
  /\ Step(n, [agent[n] EXCEPT !.pc = "status", !.conditions = conditions(n)])
  /\ UNCHANGED <<store, faults>>

(* The variables of a finished report are of no more use.                  *)
Done(n) == [NewAgent EXCEPT !.nodeUID = agent[n].nodeUID]

(* Mutant: the heartbeat is the time of the write.                         *)
StatusStampedLate(n) ==
  [nodeUID |-> agent[n].nodeUID, beat |-> 0, podIP |-> pod[n],
   cpus |-> agent[n].cpus, conditions |-> agent[n].conditions]

(* Mutant: an endpoint that is set is left alone.                          *)
EndpointOnce(n) ==
  [nodeUID |-> agent[n].nodeUID, beat |-> agent[n].now,
   podIP |-> IF store[n].status.podIP = NoIP THEN pod[n] ELSE store[n].status.podIP,
   cpus |-> agent[n].cpus, conditions |-> agent[n].conditions]

(* Every field of the status is overwritten.                               *)
status(n) ==
  [nodeUID |-> agent[n].nodeUID, beat |-> agent[n].now, podIP |-> pod[n],
   cpus |-> agent[n].cpus, conditions |-> agent[n].conditions]

(* Status().Update(latest).                                                *)
UpdateNodeStatus(n) ==
  /\ At(n, "status")
  /\ Step(n, Done(n))
  /\ \/ /\ agent[n].fresh
        /\ store' = [store EXCEPT ![n].status = status(n)]
        /\ UNCHANGED faults
     \/ ~agent[n].fresh /\ UNCHANGED <<store, faults>>
     \/ Fault /\ UNCHANGED store

ReportStep(n) ==
  \/ ReadNode(n) \/ Ensure(n) \/ GetLatest(n) \/ UpdateLabels(n)
  \/ ReadCapabilities(n) \/ SampleHealth(n) \/ UpdateNodeStatus(n)

(***************************************************************************)
(* The controller: runtimeForNode, then a call.                            *)
(***************************************************************************)
Sync(n) ==
  /\ cached' = [cached EXCEPT ![n] = store[n]]
  /\ UNCHANGED <<clusterVars, agent, store, controllerVars, faults>>

smolVMNodeEligible(node) ==
  /\ node.status.conditions = Conditions
  /\ node.status.beat =< Stale
  /\ node.status.podIP # NoIP

(* Who answers at an address.                                              *)
at(ip) == {n \in Nodes : pod[n] = ip}

ConnStep(c) ==
  /\ conn' = c
  /\ UNCHANGED <<clusterVars, agent, store, cached>>

(* Any failure ends the attempt; a later pass starts again.                *)
Abort == [conn EXCEPT !.pc = "idle", !.podIP = NoIP, !.nodeUID = 0]

Resolve ==
  /\ conn.pc = "idle" /\ ~released
  /\ cached[conn.node].exists /\ smolVMNodeEligible(cached[conn.node])
  /\ ConnStep([conn EXCEPT !.pc = "health",
                           !.podIP = cached[conn.node].status.podIP,
                           !.nodeUID = cached[conn.node].status.nodeUID])
  /\ UNCHANGED <<machine, released, faults>>

(* One of the checks: whoever holds the address answers it.                *)
Check(pc, next, Passes(_)) ==
  /\ conn.pc = pc
  /\ \/ /\ \E m \in at(conn.podIP) : Passes(m)
        /\ ConnStep([conn EXCEPT !.pc = next])
        /\ UNCHANGED faults
     \/ /\ \A m \in at(conn.podIP) : ~Passes(m)
        /\ ConnStep(Abort)
        /\ UNCHANGED faults
     \/ ConnStep(Abort) /\ Fault
  /\ UNCHANGED <<machine, released>>

CheckHealth == Check("health", "identity", health)

(* Mutant: the identity is asked for and not compared.                     *)
AnyIdentity(m) == TRUE

identifies(m) ==
  /\ m = conn.node
  /\ \/ conn.nodeUID = 0 \/ agent[m].nodeUID = 0
     \/ agent[m].nodeUID = conn.nodeUID

CheckIdentity == Check("identity", "capabilities", identifies)

(* One protocol version is in use.                                         *)
speaksProtocol(m) == TRUE

CheckCapabilities == Check("capabilities", "call", speaksProtocol)

(* The delete; a machine that is missing counts as deleted, and the        *)
(* finalizer goes.                                                         *)
Delete ==
  /\ conn.pc = "call"
  /\ ConnStep(Abort)
  /\ \/ /\ at(conn.podIP) # {}
        /\ machine' = machine \ at(conn.podIP)
        /\ released' = TRUE
        /\ UNCHANGED faults
     \/ at(conn.podIP) = {} /\ UNCHANGED <<machine, released, faults>>
     \/ Fault /\ machine' \in {machine, machine \ at(conn.podIP)} /\ UNCHANGED released

ControllerStep ==
  Resolve \/ CheckHealth \/ CheckIdentity \/ CheckCapabilities \/ Delete

(***************************************************************************)
(* The cluster.                                                            *)
(***************************************************************************)
Tick ==
  /\ agent' = [n \in Nodes |-> [agent[n] EXCEPT !.now =
                 IF agent[n].pc = "idle" THEN @ ELSE Older(@)]]
  /\ store' = [n \in Nodes |-> [store[n] EXCEPT !.status.beat = Older(@)]]
  /\ cached' = [n \in Nodes |-> [cached[n] EXCEPT !.status.beat = Older(@)]]
  /\ goodAge' = [n \in Nodes |-> IF good(n) THEN 0 ELSE Older(goodAge[n])]
  /\ UNCHANGED <<kube, probes, pod, controllerVars, faults>>

(* A step of the cluster, seen by no one but the agents it ends.           *)
ClusterStep ==
  /\ goodAge' = [n \in Nodes |-> IF good(n)' THEN 0 ELSE goodAge[n]]
  /\ UNCHANGED <<store, cached, controllerVars>>

PodStops(n) ==
  /\ pod[n] # NoIP /\ Fault
  /\ pod' = [pod EXCEPT ![n] = NoIP]
  /\ agent' = [agent EXCEPT ![n] = NewAgent]
  /\ UNCHANGED <<kube, probes>> /\ ClusterStep

(* The DaemonSet starts a pod once the old one is gone, at any free IP.    *)
(* Without QuickReuse the network keeps an IP back while a pass that has   *)
(* just identified its holder goes on to its call.                         *)
PodStarts(n) ==
  /\ pod[n] = NoIP
  /\ \E ip \in IPs :
       /\ at(ip) = {}
       /\ QuickReuse \/ conn.pc \notin {"capabilities", "call"} \/ ip # conn.podIP
       /\ pod' = [pod EXCEPT ![n] = ip]
  /\ UNCHANGED <<kube, probes, agent, faults>> /\ ClusterStep

(* The Node is replaced by a new one of the same name, with empty disks.   *)
ReplaceNode(n) ==
  /\ Fault
  /\ kube' = [kube EXCEPT ![n].uid = @ + 1]
  /\ pod' = [pod EXCEPT ![n] = NoIP]
  /\ agent' = [agent EXCEPT ![n] = NewAgent]
  /\ machine' = machine \ {n}
  /\ UNCHANGED <<probes, store, cached, conn, released, goodAge>>

NodeChanges(n) ==
  /\ Fault
  /\ \/ kube' = [kube EXCEPT ![n].ready = FALSE]
     \/ \E l \in Labels : kube' = [kube EXCEPT ![n].labels = l]
  /\ UNCHANGED <<probes, pod, agent>> /\ ClusterStep

NodeRecovers(n) ==
  /\ ~kube[n].ready
  /\ kube' = [kube EXCEPT ![n].ready = TRUE]
  /\ UNCHANGED <<probes, pod, agent, faults>> /\ ClusterStep

HealthFails(n) ==
  /\ Fault
  /\ \E p \in probes[n] : probes' = [probes EXCEPT ![n] = @ \ {p}]
  /\ UNCHANGED <<kube, pod, agent>> /\ ClusterStep

(* supervise() starts smolvm serve again; a device or a directory returns. *)
HealthRecovers(n) ==
  /\ \E p \in Probes \ probes[n] : probes' = [probes EXCEPT ![n] = @ \cup {p}]
  /\ UNCHANGED <<kube, pod, agent, faults>> /\ ClusterStep

(* A user deletes the SmolVMNode, or writes to it.                         *)
UserTouches(n) ==
  /\ Fault /\ store[n].exists
  /\ store' \in {store, [store EXCEPT ![n] = NoSmolVMNode]}
  /\ agent' = [agent EXCEPT ![n].fresh = FALSE]
  /\ UNCHANGED <<clusterVars, cached, controllerVars>>

Next ==
  \/ Tick \/ ControllerStep
  \/ \E n \in Nodes :
       \/ ReportStep(n) \/ Sync(n) \/ PodStops(n) \/ PodStarts(n)
       \/ ReplaceNode(n) \/ NodeChanges(n) \/ NodeRecovers(n)
       \/ HealthFails(n) \/ HealthRecovers(n) \/ UserTouches(n)

Spec == Init /\ [][Next]_vars

(* The report loop runs, the watch delivers, the DaemonSet restarts pods,  *)
(* and what failed on a node is repaired.                                  *)
FairSpec ==
  /\ Spec
  /\ \A n \in Nodes :
       /\ WF_vars(ReportStep(n)) /\ WF_vars(Sync(n)) /\ WF_vars(PodStarts(n))
       /\ WF_vars(NodeRecovers(n)) /\ WF_vars(HealthRecovers(n))

-----------------------------------------------------------------------------
(***************************************************************************)
(* Properties.                                                             *)
(***************************************************************************)
(* Every report, every version of a SmolVMNode and every resolved endpoint *)
(* is well formed, and live pods have different addresses.                 *)
TypeOK ==
  /\ kube \in [Nodes -> KubeNodes] /\ probes \in [Nodes -> SUBSET Probes]
  /\ pod \in [Nodes -> IPs \cup {NoIP}]
  /\ \A m, n \in Nodes : pod[m] = pod[n] /\ pod[m] # NoIP => m = n
  /\ agent \in [Nodes -> Agents]
  /\ store \in [Nodes -> SmolVMNodes] /\ cached \in [Nodes -> SmolVMNodes]
  /\ conn \in Conns /\ machine \in SUBSET Nodes /\ released \in BOOLEAN
  /\ goodAge \in [Nodes -> Ages] /\ faults \in 0..MaxFaults

(* A node the controller takes for eligible had a healthy runtime within   *)
(* the last two minutes, however long the report took, whichever of its    *)
(* writes failed and however far the cache lags: the heartbeat is taken    *)
(* before the health is.                                                   *)
FreshlyHealthy ==
  \A n \in Nodes : smolVMNodeEligible(cached[n]) => goodAge[n] =< Stale

(* What a status that says Ready tells about its node.                     *)
truthful(n, ready, beat) == ready => goodAge[n] =< beat

(* Every status in the system tells when its node was last healthy: the    *)
(* one in the cache, the one in the API server and the one to be written.  *)
HeartbeatsTruthful ==
  \A n \in Nodes :
    /\ truthful(n, "Ready" \in cached[n].status.conditions, cached[n].status.beat)
    /\ truthful(n, "Ready" \in store[n].status.conditions, store[n].status.beat)
    /\ truthful(n, agent[n].pc = "status" /\ "Ready" \in agent[n].conditions,
                agent[n].now)

(* The history is exact: while the agent runs and is healthy, it is now.   *)
GoodIsNow == \A n \in Nodes : good(n) => goodAge[n] = 0

(* The inductive invariant behind FreshlyHealthy.                          *)
AgentInv == TypeOK /\ GoodIsNow /\ HeartbeatsTruthful

(* The finalizer goes only when the machine is gone from its node: though  *)
(* the endpoint was read from a cache, up to two minutes old, and its IP   *)
(* may have gone to another node's agent by then.                          *)
ReleasedIsClean == released => machine = {}

(* From the identity check to the call no other agent gets the address.    *)
IdentifiedStays ==
  /\ conn.pc # "idle" => conn.podIP # NoIP
  /\ conn.pc \in {"capabilities", "call"} => at(conn.podIP) \subseteq {conn.node}
  /\ machine \subseteq {conn.node}

(* The inductive invariant behind ReleasedIsClean.                         *)
EndpointInv == TypeOK /\ IdentifiedStays /\ ReleasedIsClean

(* In spite of dropped errors and lost writes the controller's view of     *)
(* every node comes to be true once failures stop: endpoint, UID, labels   *)
(* and conditions.                                                         *)
ViewConverges ==
  <>[](\A n \in Nodes :
         /\ cached[n].exists /\ cached[n].labels = kube[n].labels
         /\ cached[n].status.podIP = pod[n] /\ pod[n] # NoIP
         /\ cached[n].status.nodeUID = kube[n].uid
         /\ cached[n].status.cpus # 0
         /\ cached[n].status.conditions = Conditions)
=============================================================================
