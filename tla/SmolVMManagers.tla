---------------------------- MODULE SmolVMManagers ----------------------------
(***************************************************************************)
(* Two managers at once.  Leader election is off by default and the        *)
(* Deployment's rolling update starts the new manager before it stops the  *)
(* old one, so both reconcile the same objects for a while.                *)
(*                                                                         *)
(* Each manager is an instance of SmolVMController with its own cache,     *)
(* workqueue and worker; they share the API server, the nodes and their    *)
(* machines.  A step of the world is a step of both; a step of one manager *)
(* reaches the other only as watch events of what it wrote.  Nodes stay    *)
(* healthy and users only create and delete: what two managers add is      *)
(* their interleaving; restarts and failures are SmolVMController's.       *)
(***************************************************************************)
EXTENDS SmolVMScheduler, Sequences

CONSTANTS VMs, NoVM, SpecsOf, CacheLags, MaxEdits, MaxFaults

(* What SmolVMController assumes of them.                                  *)
ASSUME ManagersAssumption ==
  /\ NoVM \notin VMs
  /\ SpecsOf \in [VMs -> SUBSET SmolVMSpec]
  /\ CacheLags \in BOOLEAN
  /\ MaxEdits \in Nat
  /\ MaxFaults \in Nat

VARIABLES
  api, machines, limbo, agent, ready, kube, edits, faults, waiver,
  cache1, watch1, queue1, timer1, pc1, cur1, obj1, input1, fresh1,
  cache2, watch2, queue2, timer2, pc2, cur2, obj2, input2, fresh2

world == <<api, machines, limbo, agent, ready, kube, edits, faults, waiver>>
manager1 == <<cache1, watch1, queue1, timer1, pc1, cur1, obj1, input1, fresh1>>
manager2 == <<cache2, watch2, queue2, timer2, pc2, cur2, obj2, input2, fresh2>>
managersVars == <<world, manager1, manager2>>

(* Each manager is SmolVMController, by way of the module that extends it  *)
(* with the lemmas about one manager among others.                         *)
M1 == INSTANCE SmolVMSharedProofs WITH
  cache <- cache1, watch <- watch1, queue <- queue1, timer <- timer1, pc <- pc1,
  cur <- cur1, obj <- obj1, input <- input1, fresh <- fresh1

M2 == INSTANCE SmolVMSharedProofs WITH
  cache <- cache2, watch <- watch2, queue <- queue2, timer <- timer2, pc <- pc2,
  cur <- cur2, obj <- obj2, input <- input2, fresh <- fresh2

ManagersInit == M1!Init /\ M2!Init

(* The events of what the other manager writes, and its effect on the      *)
(* version the worker holds.                                               *)
Hears(watch, watchNext) ==
  watchNext = [v \in VMs |-> IF api'[v] = api[v] THEN watch[v] ELSE Append(watch[v], api'[v])]

StillFresh(fresh, cur) == fresh /\ api'[cur] = api[cur]

Watches1 ==
  /\ Hears(watch1, watch1') /\ fresh1' = StillFresh(fresh1, cur1)
  /\ UNCHANGED <<cache1, queue1, timer1, pc1, cur1, obj1, input1>>

Watches2 ==
  /\ Hears(watch2, watch2') /\ fresh2' = StillFresh(fresh2, cur2)
  /\ UNCHANGED <<cache2, queue2, timer2, pc2, cur2, obj2, input2>>

(* The worker, the informer and the timers of a manager.                   *)
Worker1 == (M1!WorkerStep \/ \E v \in VMs : M1!Reconcile(v)) /\ Watches2
Worker2 == (M2!WorkerStep \/ \E v \in VMs : M2!Reconcile(v)) /\ Watches1

Events1 == (\E v \in VMs : M1!Deliver(v) \/ M1!TimerFires(v)) /\ Watches2
Events2 == (\E v \in VMs : M2!Deliver(v) \/ M2!TimerFires(v)) /\ Watches1

Users ==
  \E v \in VMs :
    \/ \E s \in SpecsOf[v] : M1!CreateVM(v, s) /\ M2!CreateVM(v, s)
    \/ M1!DeleteVM(v) /\ M2!DeleteVM(v)

Environment == \E n \in Nodes : M1!AgentReport(n) /\ M2!AgentReport(n)

ManagersNext ==
  \/ Worker1 \/ Events1
  \/ Worker2 \/ Events2
  \/ Users \/ Environment

ManagersSpec == ManagersInit /\ [][ManagersNext]_managersVars

(* One of the managers goes on; the other may be stuck in the middle of a  *)
(* pass for ever.                                                          *)
ManagersFairSpec ==
  ManagersSpec /\ WF_managersVars(Worker1 \/ Events1 \/ Worker2 \/ Events2)

-----------------------------------------------------------------------------
(* A bound object is held by its finalizer as long as it exists, whichever *)
(* manager added the finalizer, bound the object or is releasing it, and   *)
(* however old the version it acts on: no deletion goes past the machine.  *)
BoundIsHeld ==
  \A v \in VMs :
    api[v].exists /\ api[v].status.nodeName # NoNode => api[v].finalizer

(* The managers duplicate a machine in one way only, by overwriting the    *)
(* binding that the other one recorded (or that they read as missing):     *)
(* without that, the machine is on the recorded node alone, although both  *)
(* schedule, create and start the same object on versions of any age.      *)
OneMachineUnlessMoved == M1!SoleOwner

(* The managers do not fight: once users stop, every object's status comes *)
(* to tell the truth for ever, and a deletion completes, although each     *)
(* manager keeps overwriting what the other wrote on the way.              *)
BothConverge == M1!Converges /\ M1!DeletionCompletes

(* docs/operations.md, on upgrades: "Confirm no duplicate runtime machines *)
(* are created".  A rolling update runs both managers, and each may        *)
(* schedule the object to a node of its own choice and boot it there.      *)
NoDuplicateMachines ==
  \A v \in VMs, m, n \in Nodes : M1!present(m, v) /\ M1!present(n, v) => m = n
=============================================================================
