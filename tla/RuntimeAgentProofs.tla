-------------------------- MODULE RuntimeAgentProofs --------------------------
(***************************************************************************)
(* Proofs about RuntimeAgent: what a fresh heartbeat tells, and that the   *)
(* identity check protects a deletion.                                     *)
(***************************************************************************)
EXTENDS RuntimeAgent, TLAPS

(* An age grows and stays an age.                                          *)
LEMMA OlderAges ==
  ASSUME NEW a \in Ages
  PROVE  Older(a) \in Ages /\ a =< Older(a)
  BY AgentAssumption DEF Older, Ages

(* Two ages grow together.                                                 *)
LEMMA OlderMonotone ==
  ASSUME NEW a \in Ages, NEW b \in Ages, a =< b
  PROVE  Older(a) =< Older(b)
  BY AgentAssumption DEF Older, Ages

LEMMA TypeInit == Init => TypeOK
  <1> SUFFICES ASSUME Init PROVE TypeOK
    OBVIOUS
  <1> USE AgentAssumption
  <1>1. kube \in [Nodes -> KubeNodes]
    BY DEF Init, KubeNodes, NodeUIDs
  <1>2. NoSmolVMNode \in SmolVMNodes /\ NewAgent \in Agents
    BY DEF NoSmolVMNode, SmolVMNodes, NoStatus, Statuses, NewAgent, Agents,
      NoKubeNode, KubeNodes, NodeUIDs, Ages, CPUs, AgentPCs
  <1>3. conn \in Conns
    BY DEF Init, Conns, NodeUIDs
  <1>4. goodAge \in [Nodes -> Ages] /\ faults \in 0..MaxFaults
    BY DEF Init, Ages
  <1>5. agent \in [Nodes -> Agents] /\ store \in [Nodes -> SmolVMNodes]
    BY <1>2 DEF Init
  <1> QED
    BY <1>1, <1>3, <1>4, <1>5 DEF Init, TypeOK, Probes

(* The failures stay within their bound.                                   *)
LEMMA FaultTypes ==
  ASSUME TypeOK, UNCHANGED faults \/ Fault
  PROVE  faults' \in 0..MaxFaults
  BY AgentAssumption DEF TypeOK, Fault

(* A step of report() keeps the types when what it makes of the agent and  *)
(* of the SmolVMNode is well formed.                                       *)
LEMMA StepTypes ==
  ASSUME TypeOK, NEW n \in Nodes, NEW a \in Agents, Step(n, a),
         store' \in [Nodes -> SmolVMNodes],
         UNCHANGED faults \/ Fault
  PROVE  TypeOK'
  <1>1. faults' \in 0..MaxFaults
    BY FaultTypes
  <1> QED
    BY <1>1 DEF TypeOK, Step, clusterVars, controllerVars

LEMMA ReportTypes ==
  ASSUME TypeOK, NEW n \in Nodes, ReportStep(n)
  PROVE  TypeOK'
  <1> USE AgentAssumption
  <1>1. agent[n] \in Agents /\ kube[n] \in KubeNodes /\ store[n] \in SmolVMNodes
        /\ pod[n] \in IPs \cup {NoIP}
    BY DEF TypeOK
  <1>2. NewAgent \in Agents /\ NoKubeNode \in KubeNodes /\ 0 \in Ages
    BY DEF NewAgent, Agents, NoKubeNode, KubeNodes, NodeUIDs, Ages, CPUs, AgentPCs
  <1>3. store \in [Nodes -> SmolVMNodes]
    BY DEF TypeOK
  <1>4. CASE ReadNode(n)
    <2>1. PICK k \in KubeNodes, uid \in NodeUIDs :
            /\ Step(n, [agent[n] EXCEPT !.pc = "ensure", !.k8sNode = k,
                                        !.nodeUID = uid, !.now = 0])
            /\ UNCHANGED store
            /\ UNCHANGED faults \/ Fault
      BY <1>1, <1>2, <1>4 DEF ReadNode, KubeNodes, Agents
    <2>2. [agent[n] EXCEPT !.pc = "ensure", !.k8sNode = k, !.nodeUID = uid,
                           !.now = 0] \in Agents
      BY <1>1, <1>2 DEF Agents, AgentPCs
    <2> QED
      BY <1>3, <2>1, <2>2, StepTypes
  <1>5. CASE Ensure(n)
    <2>1. [agent[n] EXCEPT !.pc = "get"] \in Agents
      BY <1>1 DEF Agents, AgentPCs
    <2>2. store' \in [Nodes -> SmolVMNodes]
      <3>1. [store[n] EXCEPT !.exists = TRUE, !.labels = agent[n].k8sNode.labels]
              \in SmolVMNodes
        BY <1>1 DEF SmolVMNodes, Agents, KubeNodes
      <3>2. store' \in {store, [store EXCEPT ![n] =
              [store[n] EXCEPT !.exists = TRUE, !.labels = agent[n].k8sNode.labels]]}
        BY <1>1, <1>3, <1>5 DEF Ensure, SmolVMNodes
      <3> QED
        BY <1>3, <3>1, <3>2
    <2> QED
      BY <1>5, <2>1, <2>2, StepTypes DEF Ensure
  <1>6. CASE GetLatest(n)
    <2>1. /\ [agent[n] EXCEPT !.pc = "labels", !.fresh = TRUE] \in Agents
          /\ [agent[n] EXCEPT !.pc = "idle"] \in Agents
      BY <1>1 DEF Agents, AgentPCs
    <2> QED
      BY <1>3, <1>6, <2>1, StepTypes DEF GetLatest
  <1>7. CASE UpdateLabels(n)
    <2>1. \A f \in BOOLEAN :
            [agent[n] EXCEPT !.pc = "capabilities", !.fresh = f] \in Agents
      BY <1>1 DEF Agents, AgentPCs
    <2>2. PICK f \in BOOLEAN :
            Step(n, [agent[n] EXCEPT !.pc = "capabilities", !.fresh = f])
      BY <1>1, <1>7 DEF UpdateLabels, Agents
    <2>3. store' \in [Nodes -> SmolVMNodes]
      BY <1>1, <1>3, <1>7 DEF UpdateLabels, SmolVMNodes, Agents, KubeNodes
    <2> QED
      BY <1>7, <2>1, <2>2, <2>3, StepTypes DEF UpdateLabels
  <1>8. CASE ReadCapabilities(n)
    <2>1. \A c \in CPUs : [agent[n] EXCEPT !.pc = "health", !.cpus = c] \in Agents
      BY <1>1 DEF Agents, AgentPCs
    <2> QED
      BY <1>3, <1>8, <2>1, StepTypes DEF ReadCapabilities, CPUs
  <1>9. CASE SampleHealth(n)
    <2>1. [agent[n] EXCEPT !.pc = "status", !.conditions = conditions(n)] \in Agents
      BY <1>1 DEF Agents, AgentPCs, conditions
    <2> QED
      BY <1>3, <1>9, <2>1, StepTypes DEF SampleHealth
  <1>10. CASE UpdateNodeStatus(n)
    <2>1. Done(n) \in Agents
      BY <1>1, <1>2 DEF Done, Agents
    <2>2. status(n) \in Statuses
      BY <1>1 DEF status, Statuses, Agents
    <2>3. store' \in [Nodes -> SmolVMNodes]
      BY <1>3, <1>10, <2>2 DEF UpdateNodeStatus, SmolVMNodes
    <2> QED
      BY <1>10, <2>1, <2>3, StepTypes DEF UpdateNodeStatus
  <1> QED
    BY <1>4, <1>5, <1>6, <1>7, <1>8, <1>9, <1>10 DEF ReportStep

(* A step of the controller only moves its connection along.               *)
LEMMA ControllerTypes ==
  ASSUME TypeOK, ControllerStep
  PROVE  TypeOK'
  <1> USE AgentAssumption
  <1>1. conn' \in Conns
    <2>1. CASE Resolve
      <3>1. cached[conn.node] \in SmolVMNodes
        BY DEF TypeOK, Conns
      <3> QED
        BY <2>1, <3>1 DEF Resolve, ConnStep, TypeOK, Conns, SmolVMNodes, Statuses
    <2>2. Abort \in Conns
      <3>1. conn \in Conns
        BY DEF TypeOK
      <3> QED
        BY <3>1 DEF Abort, Conns, NodeUIDs
    <2>3. CASE CheckHealth \/ CheckIdentity \/ CheckCapabilities \/ Delete
      BY <2>2, <2>3 DEF CheckHealth, CheckIdentity, CheckCapabilities, Check,
        Delete, ConnStep, TypeOK, Conns
    <2> QED
      BY <2>1, <2>3 DEF ControllerStep
  <1>2. machine' \in SUBSET Nodes /\ released' \in BOOLEAN
    BY DEF ControllerStep, Resolve, CheckHealth, CheckIdentity, CheckCapabilities,
      Check, Delete, TypeOK
  <1>4. faults' \in 0..MaxFaults
    <2>1. UNCHANGED faults \/ Fault
      BY DEF ControllerStep, Resolve, CheckHealth, CheckIdentity, CheckCapabilities,
        Check, Delete
    <2> QED
      BY <2>1, FaultTypes
  <1>3. UNCHANGED <<kube, probes, pod, goodAge, agent, store, cached>>
    BY DEF ControllerStep, Resolve, CheckHealth, CheckIdentity, CheckCapabilities,
      Check, Delete, ConnStep, clusterVars
  <1> QED
    BY <1>1, <1>2, <1>3, <1>4 DEF TypeOK

(* What the nodes and their pods do.                                       *)
ClusterNext(n) ==
  \/ PodStops(n) \/ PodStarts(n) \/ ReplaceNode(n) \/ NodeChanges(n)
  \/ NodeRecovers(n) \/ HealthFails(n) \/ HealthRecovers(n) \/ UserTouches(n)

LEMMA TickTypes ==
  ASSUME TypeOK, Tick
  PROVE  TypeOK'
  <1> USE AgentAssumption
  <1>1. ASSUME NEW n \in Nodes, NEW f \in [Nodes -> SmolVMNodes]
        PROVE  [f[n] EXCEPT !.status.beat = Older(@)] \in SmolVMNodes
    <2>1. f[n].status \in Statuses /\ f[n] \in SmolVMNodes
      BY DEF SmolVMNodes
    <2>2. [f[n].status EXCEPT !.beat = Older(@)] \in Statuses
      BY <2>1, OlderAges DEF Statuses
    <2>3. [f[n] EXCEPT !.status.beat = Older(@)]
            = [f[n] EXCEPT !.status = [f[n].status EXCEPT !.beat = Older(@)]]
      BY <2>1 DEF SmolVMNodes
    <2> QED
      BY <2>1, <2>2, <2>3 DEF SmolVMNodes
  <1>2. store' \in [Nodes -> SmolVMNodes] /\ cached' \in [Nodes -> SmolVMNodes]
    BY <1>1 DEF Tick, TypeOK
  <1>3. agent' \in [Nodes -> Agents]
    BY OlderAges DEF Tick, TypeOK, Agents
  <1>4. goodAge' \in [Nodes -> Ages]
    <2>1. 0 \in Ages
      BY DEF Ages
    <2> QED
      BY <2>1, OlderAges DEF Tick, TypeOK
  <1> QED
    BY <1>2, <1>3, <1>4 DEF Tick, TypeOK, controllerVars

LEMMA ClusterTypes ==
  ASSUME TypeOK, NEW n \in Nodes, ClusterNext(n)
  PROVE  TypeOK'
  <1> USE AgentAssumption
  <1>1. NewAgent \in Agents /\ NoSmolVMNode \in SmolVMNodes /\ 0 \in Ages
    BY DEF NoSmolVMNode, SmolVMNodes, NoStatus, Statuses, NewAgent, Agents,
      NoKubeNode, KubeNodes, NodeUIDs, Ages, CPUs, AgentPCs
  <1>2. kube' \in [Nodes -> KubeNodes]
    <2>1. kube[n] \in KubeNodes /\ kube \in [Nodes -> KubeNodes]
      BY DEF TypeOK
    <2>2. /\ [kube[n] EXCEPT !.uid = @ + 1] \in KubeNodes
          /\ \A b \in BOOLEAN : [kube[n] EXCEPT !.ready = b] \in KubeNodes
          /\ \A l \in Labels : [kube[n] EXCEPT !.labels = l] \in KubeNodes
      BY <2>1 DEF KubeNodes, NodeUIDs
    <2> QED
      BY <2>1, <2>2 DEF ClusterNext, PodStops, PodStarts, ReplaceNode, NodeChanges,
        NodeRecovers, HealthFails, HealthRecovers, UserTouches, clusterVars
  <1>3. probes' \in [Nodes -> SUBSET Probes]
    BY DEF TypeOK, ClusterNext, PodStops, PodStarts, ReplaceNode, NodeChanges,
      NodeRecovers, HealthFails, HealthRecovers, UserTouches, clusterVars
  <1>4. /\ pod' \in [Nodes -> IPs \cup {NoIP}]
        /\ \A m, k \in Nodes : pod'[m] = pod'[k] /\ pod'[m] # NoIP => m = k
    <2>1. CASE PodStarts(n)
      BY <2>1 DEF TypeOK, PodStarts, at
    <2>2. CASE pod' = [pod EXCEPT ![n] = NoIP] \/ pod' = pod
      BY <2>2 DEF TypeOK
    <2> QED
      BY <2>1, <2>2 DEF ClusterNext, PodStops, ReplaceNode, NodeChanges,
        NodeRecovers, HealthFails, HealthRecovers, UserTouches, clusterVars
  <1>5. agent' \in [Nodes -> Agents]
    <2>1. [agent[n] EXCEPT !.fresh = FALSE] \in Agents
      BY DEF TypeOK, Agents
    <2> QED
      BY <1>1, <2>1 DEF TypeOK, ClusterNext, PodStops, PodStarts, ReplaceNode,
        NodeChanges, NodeRecovers, HealthFails, HealthRecovers, UserTouches
  <1>6. store' \in [Nodes -> SmolVMNodes]
    BY <1>1 DEF TypeOK, ClusterNext, PodStops, PodStarts, ReplaceNode, NodeChanges,
      NodeRecovers, HealthFails, HealthRecovers, UserTouches, ClusterStep
  <1>7. goodAge' \in [Nodes -> Ages]
    <2>1. CASE ClusterStep
      BY <1>1, <2>1 DEF ClusterStep, TypeOK
    <2>2. CASE UNCHANGED goodAge
      BY <2>2 DEF TypeOK
    <2> QED
      BY <2>1, <2>2 DEF ClusterNext, PodStops, PodStarts, ReplaceNode, NodeChanges,
        NodeRecovers, HealthFails, HealthRecovers, UserTouches, clusterVars
  <1>8. UNCHANGED <<cached, conn, released>> /\ machine' \in SUBSET Nodes
    BY DEF TypeOK, ClusterNext, PodStops, PodStarts, ReplaceNode, NodeChanges,
      NodeRecovers, HealthFails, HealthRecovers, UserTouches, ClusterStep, controllerVars
  <1>9. faults' \in 0..MaxFaults
    <2>1. UNCHANGED faults \/ Fault
      BY DEF ClusterNext, PodStops, PodStarts, ReplaceNode, NodeChanges,
        NodeRecovers, HealthFails, HealthRecovers, UserTouches
    <2> QED
      BY <2>1, FaultTypes
  <1> QED
    BY <1>2, <1>3, <1>4, <1>5, <1>6, <1>7, <1>8, <1>9 DEF TypeOK

LEMMA TypeStep ==
  ASSUME TypeOK, [Next]_vars
  PROVE  TypeOK'
  <1>1. CASE Tick
    BY <1>1, TickTypes
  <1>2. CASE ControllerStep
    BY <1>2, ControllerTypes
  <1>3. ASSUME NEW n \in Nodes, ReportStep(n) PROVE TypeOK'
    BY <1>3, ReportTypes
  <1>4. ASSUME NEW n \in Nodes, Sync(n) PROVE TypeOK'
    BY <1>4 DEF Sync, TypeOK, clusterVars, controllerVars
  <1>5. ASSUME NEW n \in Nodes, ClusterNext(n) PROVE TypeOK'
    BY <1>5, ClusterTypes
  <1>6. CASE UNCHANGED vars
    BY <1>6 DEF vars, clusterVars, controllerVars, TypeOK
  <1> QED
    BY <1>1, <1>2, <1>3, <1>4, <1>5, <1>6 DEF Next, ClusterNext

-----------------------------------------------------------------------------
(* The part of HeartbeatsTruthful about one node.                          *)
truthfulAt(n) ==
  /\ truthful(n, "Ready" \in cached[n].status.conditions, cached[n].status.beat)
  /\ truthful(n, "Ready" \in store[n].status.conditions, store[n].status.beat)
  /\ truthful(n, agent[n].pc = "status" /\ "Ready" \in agent[n].conditions,
              agent[n].now)

(* The health goes into the status after its heartbeat was taken: what a   *)
(* step of report() makes of the statuses stays truthful.                  *)
LEMMA ReportTruthful ==
  ASSUME AgentInv, NEW n \in Nodes, ReportStep(n), TypeOK'
  PROVE  HeartbeatsTruthful' /\ GoodIsNow'
  <1>1. /\ UNCHANGED <<cached, goodAge, probes, pod>>
        /\ \A m \in Nodes \ {n} : agent'[m] = agent[m]
    BY DEF ReportStep, ReadNode, Ensure, GetLatest, UpdateLabels, ReadCapabilities,
      SampleHealth, UpdateNodeStatus, Step, clusterVars, AgentInv, TypeOK
  <1>2. agent[n] \in Agents /\ agent \in [Nodes -> Agents]
        /\ store \in [Nodes -> SmolVMNodes] /\ store[n] \in SmolVMNodes
        /\ goodAge[n] \in Ages
    BY DEF AgentInv, TypeOK
  <1>3. CASE UpdateNodeStatus(n)
    <2>1. agent'[n].pc = "idle"
      BY <1>2, <1>3 DEF UpdateNodeStatus, Step, Done, NewAgent
    <2>2. store' \in {store, [store EXCEPT ![n].status = status(n)]}
      BY <1>3 DEF UpdateNodeStatus
    <2>3. truthful(n, "Ready" \in status(n).conditions, status(n).beat)
      BY <1>3 DEF UpdateNodeStatus, At, status, AgentInv, HeartbeatsTruthful, truthful
    <2>4. ASSUME NEW m \in Nodes PROVE truthfulAt(m)'
      <3>1. CASE m = n /\ store' = [store EXCEPT ![n].status = status(n)]
        BY <1>1, <1>2, <2>1, <2>3, <3>1
          DEF truthfulAt, AgentInv, HeartbeatsTruthful, truthful, SmolVMNodes
      <3>2. CASE m = n /\ store' = store
        BY <1>1, <2>1, <3>2 DEF truthfulAt, AgentInv, HeartbeatsTruthful, truthful
      <3>3. CASE m # n
        BY <1>1, <1>2, <2>2, <3>3
          DEF truthfulAt, AgentInv, HeartbeatsTruthful, truthful
      <3> QED
        BY <2>2, <3>1, <3>2, <3>3
    <2> QED
      BY <1>1, <2>4 DEF truthfulAt, HeartbeatsTruthful, GoodIsNow, good, health, AgentInv
  <1>4. CASE SampleHealth(n)
    <2>1. store' = store /\ agent'[n].now = agent[n].now
          /\ agent'[n].conditions = conditions(n) /\ pod[n] # NoIP
      BY <1>2, <1>4 DEF SampleHealth, Step, At, Agents
    <2>2. "Ready" \in conditions(n) => goodAge[n] = 0
      BY <2>1 DEF conditions, Conditions, AgentInv, GoodIsNow, good
    <2>3. 0 =< agent[n].now
      BY <1>2, AgentAssumption DEF Agents, Ages
    <2>4. ASSUME NEW m \in Nodes PROVE truthfulAt(m)'
      BY <1>1, <2>1, <2>2, <2>3 DEF truthfulAt, AgentInv, HeartbeatsTruthful, truthful
    <2> QED
      BY <1>1, <2>4 DEF truthfulAt, HeartbeatsTruthful, GoodIsNow, good, health, AgentInv
  <1>5. CASE ReadNode(n) \/ Ensure(n) \/ GetLatest(n) \/ UpdateLabels(n)
             \/ ReadCapabilities(n)
    <2>1. agent'[n].pc # "status"
      <3>1. CASE ReadNode(n)
        BY <1>2, <3>1 DEF ReadNode, Step, Agents
      <3>2. CASE Ensure(n) \/ GetLatest(n)
        BY <1>2, <3>2 DEF Ensure, GetLatest, Step, Agents
      <3>3. CASE UpdateLabels(n)
        <4>1. PICK f \in BOOLEAN :
                Step(n, [agent[n] EXCEPT !.pc = "capabilities", !.fresh = f])
          BY <1>2, <3>3 DEF UpdateLabels, Agents
        <4> QED
          BY <1>2, <4>1 DEF Step, Agents
      <3>4. CASE ReadCapabilities(n)
        BY <1>2, <3>4 DEF ReadCapabilities, Step, Agents
      <3> QED
        BY <1>5, <3>1, <3>2, <3>3, <3>4
    <2>2. \A m \in Nodes : store'[m].status = store[m].status
      BY <1>2, <1>5 DEF ReadNode, Ensure, GetLatest, UpdateLabels, ReadCapabilities,
        SmolVMNodes
    <2>3. ASSUME NEW m \in Nodes PROVE truthfulAt(m)'
      BY <1>1, <2>1, <2>2 DEF truthfulAt, AgentInv, HeartbeatsTruthful, truthful
    <2> QED
      BY <1>1, <2>3 DEF truthfulAt, HeartbeatsTruthful, GoodIsNow, good, health, AgentInv
  <1> QED
    BY <1>3, <1>4, <1>5 DEF ReportStep

LEMMA TickTruthful ==
  ASSUME AgentInv, Tick, TypeOK'
  PROVE  HeartbeatsTruthful' /\ GoodIsNow'
  <1>1. ASSUME NEW n \in Nodes PROVE truthfulAt(n)'
    <2>1. /\ agent[n] \in Agents /\ store[n] \in SmolVMNodes
          /\ cached[n] \in SmolVMNodes /\ goodAge[n] \in Ages
      BY DEF AgentInv, TypeOK
    <2>2. /\ agent[n].now \in Ages
          /\ store[n].status \in Statuses /\ store[n].status.beat \in Ages
          /\ cached[n].status \in Statuses /\ cached[n].status.beat \in Ages
      BY <2>1 DEF Agents, SmolVMNodes, Statuses
    <2>3. ASSUME NEW b \in Ages PROVE 0 =< Older(b)
      BY AgentAssumption DEF Ages, Older
    <2>4. ASSUME NEW b \in Ages, goodAge[n] =< b PROVE goodAge'[n] =< Older(b)
      BY <2>1, <2>3, <2>4, OlderMonotone DEF Tick
    <2>5. /\ cached'[n].status.conditions = cached[n].status.conditions
          /\ cached'[n].status.beat = Older(cached[n].status.beat)
      BY <2>1, <2>2 DEF Tick, SmolVMNodes, Statuses
    <2>6. /\ store'[n].status.conditions = store[n].status.conditions
          /\ store'[n].status.beat = Older(store[n].status.beat)
      BY <2>1, <2>2 DEF Tick, SmolVMNodes, Statuses
    <2>7. /\ agent'[n].pc = agent[n].pc /\ agent'[n].conditions = agent[n].conditions
          /\ agent[n].pc = "status" => agent'[n].now = Older(agent[n].now)
      BY <2>1 DEF Tick, Agents
    <2> QED
      BY <2>2, <2>4, <2>5, <2>6, <2>7
        DEF truthfulAt, truthful, AgentInv, HeartbeatsTruthful
  <1>2. GoodIsNow'
    BY DEF Tick, GoodIsNow, good, health
  <1> QED
    BY <1>1, <1>2 DEF truthfulAt, HeartbeatsTruthful

LEMMA ClusterTruthful ==
  ASSUME AgentInv, NEW n \in Nodes, ClusterNext(n), TypeOK'
  PROVE  HeartbeatsTruthful' /\ GoodIsNow'
  <1>1. \A m \in Nodes : store'[m].status \in {store[m].status, NoStatus}
    BY DEF ClusterNext, PodStops, PodStarts, ReplaceNode, NodeChanges, NodeRecovers,
      HealthFails, HealthRecovers, UserTouches, ClusterStep, AgentInv, TypeOK,
      NoSmolVMNode
  <1>2. \A m \in Nodes : agent'[m] \in {agent[m], NewAgent,
                                         [agent[m] EXCEPT !.fresh = FALSE]}
    BY DEF ClusterNext, PodStops, PodStarts, ReplaceNode, NodeChanges, NodeRecovers,
      HealthFails, HealthRecovers, UserTouches, AgentInv, TypeOK
  <1>3. UNCHANGED cached
    BY DEF ClusterNext, PodStops, PodStarts, ReplaceNode, NodeChanges, NodeRecovers,
      HealthFails, HealthRecovers, UserTouches, ClusterStep
  <1>4. \A m \in Nodes : goodAge'[m] \in {0, goodAge[m]}
    BY DEF ClusterNext, PodStops, PodStarts, ReplaceNode, NodeChanges, NodeRecovers,
      HealthFails, HealthRecovers, UserTouches, ClusterStep, clusterVars
  <1>5. ASSUME NEW m \in Nodes PROVE truthfulAt(m)'
    <2>1. /\ agent[m] \in Agents /\ store[m].status \in Statuses
          /\ cached[m].status \in Statuses /\ goodAge[m] \in Ages
      BY DEF AgentInv, TypeOK, SmolVMNodes
    <2>2. \A b \in Ages : goodAge[m] =< b => goodAge'[m] =< b
      BY <1>4, <2>1, AgentAssumption DEF Ages
    <2>3. truthful(m, "Ready" \in cached[m].status.conditions, cached[m].status.beat)'
      BY <1>3, <2>1, <2>2 DEF truthful, AgentInv, HeartbeatsTruthful, Statuses
    <2>4. truthful(m, "Ready" \in store[m].status.conditions, store[m].status.beat)'
      BY <1>1, <2>1, <2>2 DEF truthful, AgentInv, HeartbeatsTruthful, Statuses, NoStatus
    <2>5. truthful(m, agent[m].pc = "status" /\ "Ready" \in agent[m].conditions,
                   agent[m].now)'
      BY <1>2, <2>1, <2>2 DEF truthful, AgentInv, HeartbeatsTruthful, Agents, NewAgent
    <2> QED
      BY <2>3, <2>4, <2>5 DEF truthfulAt
  <1>6. GoodIsNow'
    <2>1. CASE ClusterStep
      BY <2>1 DEF ClusterStep, GoodIsNow
    <2>2. CASE ReplaceNode(n)
      BY <2>2 DEF ReplaceNode, GoodIsNow, good, health, AgentInv, TypeOK
    <2>3. CASE UserTouches(n)
      BY <2>3 DEF UserTouches, GoodIsNow, good, health, AgentInv, clusterVars
    <2> QED
      BY <2>1, <2>2, <2>3 DEF ClusterNext, PodStops, PodStarts, NodeChanges,
        NodeRecovers, HealthFails, HealthRecovers
  <1> QED
    BY <1>5, <1>6 DEF truthfulAt, HeartbeatsTruthful

LEMMA AgentInvStep ==
  ASSUME AgentInv, [Next]_vars
  PROVE  AgentInv'
  <1>1. TypeOK'
    BY TypeStep DEF AgentInv
  <1>2. CASE Tick
    BY <1>1, <1>2, TickTruthful DEF AgentInv
  <1>3. CASE ControllerStep
    <2>1. UNCHANGED <<kube, probes, pod, goodAge, agent, store, cached>>
      BY <1>3 DEF ControllerStep, Resolve, CheckHealth, CheckIdentity,
        CheckCapabilities, Check, Delete, ConnStep, clusterVars
    <2> QED
      BY <1>1, <2>1 DEF AgentInv, HeartbeatsTruthful, truthful, GoodIsNow, good, health
  <1>4. ASSUME NEW n \in Nodes, ReportStep(n) PROVE AgentInv'
    BY <1>1, <1>4, ReportTruthful DEF AgentInv
  <1>5. ASSUME NEW n \in Nodes, Sync(n) PROVE AgentInv'
    BY <1>1, <1>5 DEF Sync, AgentInv, HeartbeatsTruthful, truthful, GoodIsNow, good,
      health, clusterVars, TypeOK
  <1>6. ASSUME NEW n \in Nodes, ClusterNext(n) PROVE AgentInv'
    BY <1>1, <1>6, ClusterTruthful DEF AgentInv
  <1>7. CASE UNCHANGED vars
    BY <1>1, <1>7 DEF vars, clusterVars, controllerVars, AgentInv, HeartbeatsTruthful,
      truthful, GoodIsNow, good, health
  <1> QED
    BY <1>2, <1>3, <1>4, <1>5, <1>6, <1>7 DEF Next, ClusterNext

(* In every state each status, cached, stored or about to be written, that *)
(* says Ready has a heartbeat at least as old as the last moment at which  *)
(* its node's agent ran and was healthy.                                   *)
THEOREM HeartbeatInvariant == Spec => []AgentInv
  <1>1. Init => AgentInv
    <2> SUFFICES ASSUME Init PROVE AgentInv
      OBVIOUS
    <2>1. ASSUME NEW n \in Nodes
          PROVE  /\ cached[n].status = NoStatus /\ store[n].status = NoStatus
                 /\ agent[n].pc = "idle" /\ ~good(n)
      BY DEF Init, NoSmolVMNode, NewAgent, good
    <2>2. HeartbeatsTruthful /\ GoodIsNow
      BY <2>1 DEF HeartbeatsTruthful, truthful, GoodIsNow, NoStatus
    <2> QED
      BY <2>2, TypeInit DEF AgentInv
  <1>2. AgentInv /\ [Next]_vars => AgentInv'
    BY AgentInvStep
  <1> QED
    BY <1>1, <1>2, PTL DEF Spec

(* A node that smolVMNodeEligible accepts was healthy at most two minutes  *)
(* ago, for any number of nodes, pods, users and failures.                 *)
THEOREM EligibleWasHealthy == Spec => []FreshlyHealthy
  <1>1. AgentInv => FreshlyHealthy
    <2> SUFFICES ASSUME AgentInv, NEW n \in Nodes, smolVMNodeEligible(cached[n])
                 PROVE  goodAge[n] =< Stale
      BY DEF FreshlyHealthy
    <2>1. goodAge[n] =< cached[n].status.beat /\ cached[n].status.beat =< Stale
      BY DEF AgentInv, HeartbeatsTruthful, truthful, smolVMNodeEligible, Conditions
    <2>2. goodAge[n] \in Ages /\ cached[n].status.beat \in Ages
      BY DEF AgentInv, TypeOK, SmolVMNodes, Statuses
    <2> QED
      BY <2>1, <2>2, AgentAssumption DEF Ages
  <1> QED
    BY <1>1, HeartbeatInvariant, PTL

-----------------------------------------------------------------------------
(* A step of the controller: only an identified runtime is called.         *)
LEMMA ControllerEndpoint ==
  ASSUME EndpointInv, ControllerStep
  PROVE  IdentifiedStays' /\ ReleasedIsClean'
  <1>1. UNCHANGED pod
    BY DEF ControllerStep, Resolve, CheckHealth, CheckIdentity, CheckCapabilities,
      Check, Delete, ConnStep, clusterVars
  <1>2. conn \in Conns /\ \A m, n \in Nodes : pod[m] = pod[n] /\ pod[m] # NoIP => m = n
    BY DEF EndpointInv, TypeOK
  <1>3. Abort.pc = "idle" /\ Abort.node = conn.node
    BY <1>2 DEF Abort, Conns
  <1>4. CASE Resolve
    BY <1>2, <1>4 DEF Resolve, ConnStep, smolVMNodeEligible, EndpointInv,
      IdentifiedStays, ReleasedIsClean, Conns
  <1>5. CASE CheckHealth
    BY <1>1, <1>2, <1>3, <1>5 DEF CheckHealth, Check, ConnStep, EndpointInv,
      IdentifiedStays, ReleasedIsClean, Conns
  <1>6. CASE CheckIdentity
    <2>1. conn.podIP # NoIP
      BY <1>6 DEF CheckIdentity, Check, EndpointInv, IdentifiedStays
    <2>2. conn' = [conn EXCEPT !.pc = "capabilities"] => at(conn.podIP) \subseteq {conn.node}
      BY <1>2, <1>3, <1>6, <2>1 DEF CheckIdentity, Check, ConnStep, identifies, at, Conns
    <2>3. conn' \in {Abort, [conn EXCEPT !.pc = "capabilities"]}
          /\ UNCHANGED <<machine, released>>
      BY <1>6 DEF CheckIdentity, Check, ConnStep
    <2> QED
      BY <1>1, <1>2, <1>3, <2>1, <2>2, <2>3 DEF EndpointInv, IdentifiedStays,
        ReleasedIsClean, Conns, at
  <1>7. CASE CheckCapabilities
    BY <1>1, <1>2, <1>3, <1>7 DEF CheckCapabilities, Check, ConnStep, EndpointInv,
      IdentifiedStays, ReleasedIsClean, Conns, at
  <1>8. CASE Delete
    BY <1>1, <1>2, <1>3, <1>8 DEF Delete, ConnStep, EndpointInv, IdentifiedStays,
      ReleasedIsClean, Conns
  <1> QED
    BY <1>4, <1>5, <1>6, <1>7, <1>8 DEF ControllerStep

(* No pod takes the address of an identified runtime.                      *)
LEMMA ClusterEndpoint ==
  ASSUME EndpointInv, ~QuickReuse, NEW n \in Nodes, ClusterNext(n)
  PROVE  IdentifiedStays' /\ ReleasedIsClean'
  <1>1. UNCHANGED <<conn, released>> /\ machine' \subseteq machine
    BY DEF ClusterNext, PodStops, PodStarts, ReplaceNode, NodeChanges, NodeRecovers,
      HealthFails, HealthRecovers, UserTouches, ClusterStep, controllerVars
  <1>2. ReleasedIsClean'
    BY <1>1 DEF EndpointInv, ReleasedIsClean
  <1>3. ASSUME conn.pc \in {"capabilities", "call"}, conn.podIP # NoIP
        PROVE  at(conn.podIP)' \subseteq at(conn.podIP)
    <2>1. CASE PodStarts(n)
      BY <1>1, <1>3, <2>1 DEF PodStarts, at, EndpointInv, TypeOK
    <2>2. CASE pod' = [pod EXCEPT ![n] = NoIP] \/ pod' = pod
      BY <1>1, <1>3, <2>2 DEF at, EndpointInv, TypeOK
    <2> QED
      BY <2>1, <2>2 DEF ClusterNext, PodStops, ReplaceNode, NodeChanges,
        NodeRecovers, HealthFails, HealthRecovers, UserTouches, clusterVars
  <1> QED
    BY <1>1, <1>2, <1>3 DEF EndpointInv, IdentifiedStays

LEMMA EndpointInvStep ==
  ASSUME EndpointInv, ~QuickReuse, [Next]_vars
  PROVE  EndpointInv'
  <1>1. TypeOK'
    BY TypeStep DEF EndpointInv
  <1>2. CASE ControllerStep
    BY <1>1, <1>2, ControllerEndpoint DEF EndpointInv
  <1>3. ASSUME NEW n \in Nodes, ClusterNext(n) PROVE EndpointInv'
    BY <1>1, <1>3, ClusterEndpoint DEF EndpointInv
  <1>4. CASE UNCHANGED <<pod, conn, machine, released>>
    BY <1>1, <1>4 DEF EndpointInv, IdentifiedStays, ReleasedIsClean, at
  <1>5. CASE Tick \/ UNCHANGED vars
    BY <1>4, <1>5 DEF Tick, vars, clusterVars, controllerVars
  <1>6. ASSUME NEW n \in Nodes, ReportStep(n) \/ Sync(n) PROVE EndpointInv'
    BY <1>4, <1>6 DEF ReportStep, ReadNode, Ensure, GetLatest, UpdateLabels,
      ReadCapabilities, SampleHealth, UpdateNodeStatus, Step, Sync, clusterVars,
      controllerVars
  <1> QED
    BY <1>2, <1>3, <1>5, <1>6 DEF Next, ClusterNext

(* If the network keeps an address back for the moment between a check and *)
(* the call that follows, an endpoint that went to another node is always  *)
(* found out: the invariant behind that is inductive.                      *)
LEMMA EndpointInvariant == Spec /\ ~QuickReuse => []EndpointInv
  <1>1. Init => EndpointInv
    <2>1. Init => IdentifiedStays /\ ReleasedIsClean
      BY DEF Init, IdentifiedStays, ReleasedIsClean
    <2> QED
      BY <2>1, TypeInit DEF EndpointInv
  <1>2. EndpointInv /\ ~QuickReuse /\ [Next]_vars => EndpointInv'
    BY EndpointInvStep
  <1>3. CASE ~QuickReuse
    <2>1. EndpointInv /\ [Next]_vars => EndpointInv'
      BY <1>2, <1>3
    <2> QED
      BY <1>1, <2>1, PTL DEF Spec
  <1>4. CASE QuickReuse
    BY <1>4
  <1> QED
    BY <1>3, <1>4

(* Then the finalizer goes only when the machine is gone from its node.    *)
THEOREM DeleteReachesItsNode == Spec /\ ~QuickReuse => []ReleasedIsClean
  <1>1. EndpointInv => ReleasedIsClean
    BY DEF EndpointInv
  <1> QED
    BY <1>1, EndpointInvariant, PTL

=============================================================================
