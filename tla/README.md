# smolvm-operator: TLA+ specification and proofs

smolvm-operator runs micro-VMs ("machines") on Kubernetes nodes. A user writes a
`SmolVM` object; one controller binds it to a node, creates and operates its machine
through that node's runtime agent, and deletes the machine before the object goes.
This directory models the controller with everything it races against (its cache, a second
manager, the runtime agents and their orphan cleanup), checks it with TLC, and proves its main
safety properties with TLAPS for any number of objects, nodes, updates and failures.

## The system

| Part | State it keeps | Operations | Talks to |
| --- | --- | --- | --- |
| Reconciler (`internal/controller/smolvm_controller.go`) | informer cache, workqueue, timers, one pass under way | `Reconcile`, `reconcileDelete`, `updateStatus`, watches | API server (reads through the cache, writes with optimistic concurrency), node runtimes over HTTPS |
| Scheduler (same file) | none | `schedule`, `nodeRejectReason`, `resourceFitReason`, `hostPortConflictReason` | the cached lists of SmolVMs, SmolVMNodes and Nodes |
| SmolVM API (`api/v1alpha1`) | spec, status, finalizer, generation, deletion mark, force annotation | create, update (CEL transition rule), delete, annotate | users, controller |
| SmolVMNode API | conditions, heartbeat, endpoint, allocatable | written by the agent | controller |
| Runtime agent (`cmd/runtime-agent`) | node UID, health | `report` every 20 s, machine API, `cleanupOrphans`, `supervise` | API server, `smolvm serve` |
| Runtime client (`internal/smolvm`) | none | create, get, exec, stop, resize, delete; 30 s timeout | agent |
| `smolvm serve` (external) | the machines of a node | executes the calls | agent |

What is hard about it:

- *Stale reads.* `Reconcile` reads the object from the cache, acts on that version through
  several remote calls, and `updateStatus` reads the cache a second time. The API server may
  be ahead of both reads, and the second may be ahead of the first.
- *Remote calls that half happen.* A reply may be lost after the effect; a call the client
  gave up on may be executed much later; the manager may stop between any two steps.
- *Waking up.* Some exits of `Reconcile` ask for another pass and some do not. A heartbeat
  expires silently.
- *Several changes in one update*, of which the order of the early returns picks one.
- *Placement from a list* that may miss the binding written a moment ago.
- *Reports that half happen.* `report` is six API calls whose errors are dropped; its heartbeat,
  its health and its write are taken at different times, and pods move between addresses.
- *Two actors on one machine.* Orphan cleanup deletes from two lists read one after the other; a
  rolling update runs two managers, since leader election is off by default.

What makes each part correct: the reconciler never loses or duplicates a machine and never forgets
an object; the scheduler never adds to what it rightly placed on a node a second claim on a port or
more than the node has; the agent's report makes the controller see a dead node as dead and a
recovered one as alive; the cleanup deletes orphans only.

## Modules

| Module | Contents |
| --- | --- |
| `SmolVMTypes` | spec, status, object and machine, and the pure functions that compare them (`validateSpec`, `validateImmutableRuntimeFields`, ...). `verdict` is the chain of early returns of `Reconcile` once the machine is known. |
| `SmolVMScheduler` | the node filter as functions of the objects the scheduler lists, with the int32 sum of cpus (`CPUHalf` is half its range). |
| `SmolVMController` | the state machine, its properties and its inductive invariant. |
| `SmolVMPlacement` | the controller with two history variables: which claims (ports, cpus, memory, storage) of a binding were truly checked (extends `SmolVMController`). |
| `MachineLifecycle` | abstract: what the operator promises about an object and its machines, without caches, versions or agents. `SmolVMController` implements it (`ImplementsLifecycle`). |
| `OrphanCleanup` | the controller with the agents' cleanup loops beside it (extends `SmolVMController`). |
| `SmolVMManagers` | two instances of `SmolVMController` (by way of `SmolVMSharedProofs`, which extends it, so that its lemmas can be cited for each) over one API server and one set of nodes. |
| `NameReuse` | the controller when an object is created under the name of a deleted one. |
| `RuntimeAgent` | `report` call by call, heartbeat age, pods and addresses, `smolVMNodeEligible`, and `runtimeForNode` with the delete that follows, in full. |
| `MCController`, `MCPlacement`, `MCCleanup`, `MCManagers`, `MCNameReuse`, `MCAgent` | the instances for TLC. |
| `SmolVMControllerProofs` | type correctness; stale versions stay consistent with the API server; what a step may do to a stored object. |
| `SmolVMSafetyProofs` | the remaining parts of the invariant, the theorems about machines, and the refinement of `MachineLifecycle`. |
| `SmolVMReconcileProofs` | `Reconcile` forgets no object. |
| `SmolVMPlacementProofs` | sums over finite sets; truly checked claims stay exclusive and within the node. |
| `OrphanCleanupProofs` | cleanup beside the controller: its reads stay true, it spares bound machines. |
| `SmolVMSharedProofs` | one manager among others: what it keeps and what it guarantees. |
| `SmolVMManagersProofs` | two managers duplicate a machine only by overwriting a binding, and hold bound objects. |
| `RuntimeAgentProofs` | heartbeats tell the truth; a delete reaches its node. |

### State and steps of SmolVMController

`api` is what the API server holds, `watch` the versions written and not yet delivered,
`cache` what the controller reads. One element of `VMs` is one object UID; an object is
created once (`NameReuse` models the reuse of a name). `queue` and `timer` are the workqueue and the
pending `RequeueAfter`s; a repeated error is retried at once, which is back-off with the time
left out. `pc`, `cur`, `obj`, `input` are the one worker: the call it makes next, its object,
the version it read first, the argument of `updateStatus`. `machines` is what the runtimes
hold; `limbo` the calls given up on; `agent` the state of each runtime; `ready` is
`smolVMNodeEligible` of the SmolVMNode as the controller sees it; `kube` the Kubernetes Node.
`waiver` is history: it records, per object, the three known reasons for which a machine may
be out of the controller's reach (below).

A pass is `Reconcile` (read the cache, take the early returns: `Dispatch`) and then one action
per call: `AddFinalizer`; `Schedule`; `ConnectRuntime`, `GetMachine` and one of `CreateMachine`,
`ResizeMachine`, `EnsureMachineRunning`, `StopMachine`; `ConnectForDelete`, `DeleteMachine`,
`Release` or `ForceRelease`; `UpdateStatus`. Everything else interleaves with them. The step
labels in `pc` name the next call, so the order of calls is that of the source, and every
error path is a disjunct. The Reconciled condition's reason identifies the exit that wrote the
status, which is how `UpdateStatus` knows whether the code asks for another pass (`Requeued`).

The test on `metadata.resourceVersion` has two forms. A write based on the cache's version
succeeds if no event of the object is pending (then the cache holds the API server's version); a
write based on the version read first succeeds if nobody has written since (`fresh`).
`FreshVersions`, a part of the invariant, ties both to the stored object. A write that takes
effect may lose its reply (`Written`): the worker then sees an error and runs again.

`CacheLags` chooses how stale the cache is: if FALSE the worker reads only when no event is
pending. The code has no such wait. It is FALSE only where it makes a run possible (`cleanup`,
`managers`) or a counterexample stronger (`cpu_wrap`, `duplicate_machines`, `stop_before_resize`: the
code fails even then), and it does not make the cache up to date for the rest of the pass. Every
theorem is proved for both values.

External behaviour, modelled from how the code uses it: the API server removes an object when
its deletion mark is set and its last finalizer goes; `smolvm serve` executes create and
delete idempotently (README.md "Runtime operations are node-local and idempotent") and refuses
to resize a running machine; whether it goes on with a call whose client has timed out is not
known from this repository, so it may or may not.

### The compositions

`OrphanCleanup` adds one variable, the pass of each node's cleanup: idle, between its two lists,
or deleting. Lists are read from the API server (the agent's client has no cache). Any step of
the controller, of users and of nodes may come in between; an agent that goes down takes its pass
with it. Machines without the `k8s-` prefix are skipped by the code and are not in the model.

`SmolVMManagers` instantiates the controller twice. The worker, informer and timers of a manager
are its own; a step of one reaches the other as watch events and through `fresh`. Nodes stay
healthy, users create and delete, and no manager restarts: what is added is the interleaving.

`SmolVMPlacement` watches the controller and changes nothing in it. `clear` are the claims of the
object in hand that `schedule` judged on the truth: the version in hand claims no less than the
stored object, the list shows every other object bound to the chosen node with no less than its
stored claims (`listTrue`), and the sum did not wrap (`addsUp`). `vetted` keeps, per object, the
claims that were clear when its binding was written and have not grown since. Whatever is bound on
a stale list, by a wrapped sum, or grown by an update is not vetted, and it happens in the model.

`NameReuse` lets the pass over the first object meet the second in `updateStatus`, which looks up
by name; both share one informer key, so events come in order. `machineName` is explicit here.

### State and steps of RuntimeAgent

`kube`, `probes` and `pod` are what is true of a node: its Node object, which of socket, state
directory and KVM work, and the address of its agent. `agent` holds the agent's `nodeUID` and the
local variables of the `report` under way; `store` and `cached` are the SmolVMNode in the API
server and in the controller's cache. `ReadNode`, `Ensure`, `GetLatest`, `UpdateLabels`,
`ReadCapabilities`, `SampleHealth` and `UpdateNodeStatus` are the calls of `report` in order; each
may fail, and a write may conflict or lose its reply. `Resolve`, `CheckHealth`, `CheckIdentity`,
`CheckCapabilities` and `Delete` are `runtimeForNode` and the call it is made for. Whoever has the
address answers. Time is relative: `Tick` ages every stamp, and ages beyond `Stale` (two minutes)
are not told apart. One clock serves the agent's stamp and the controller's comparison: skew between
nodes, which the code adds to or takes from the two minutes, is left out. `goodAge` is history: how long ago the agent last ran and was healthy.
`QuickReuse` FALSE says that the pod network does not hand an address to another pod between the
identity check and the call; the code relies on it (see below).

### Refinement

`MachineLifecycle` has a stage (none, declared, held, gone), a home and the sites of the machines
for each object. Boot needs a home and happens there, Bind happens once, Release needs that no
machine is left. The mapping takes the stage from the stored object's generation, existence and
finalizer, the home from `status.nodeName`, the sites from the runtimes; an object with a waiver
is `excused`, and then only that object is free. Worker, cache, queue and agents are hidden.

## Runs

| Run | Instance | Shows |
| --- | --- | --- |
| `lifecycle` | 1 object, lag; either 2 nodes, 1 annotation, 1 failure, or 3 updates among 4 specs | `TypeOK`, `CleanRelease`, `SoleOwner`, `CreateUnderFinalizer`, no lost wake-up (`UnattendedIsExplained`), the inductive invariant `IInv`, and the refinement `ImplementsLifecycle` |
| `placement` | 2 objects, 2 nodes, lag, 1 update, an int32 that wraps | `VettedPortsExclusive`, `VettedFits` |
| `cleanup` | 1 object, 1 node, no lag, 1 update or annotation, 1 failure, the controller fair, cleanup running or not | `Converges`, `DeletionCompletes`, `PassStaysTrue`, `SparesBound`, and `OrphansGo` where cleanup runs |
| `managers` | 2 managers, 1 object that stays stopped, 1 node, no lag, fair | `BoundIsHeld`, `BothConverge` |
| `reports` | 1 node, 2 addresses, heartbeats that expire at the next tick, 2 failures, fair | `AgentInv`, `FreshlyHealthy`, `ViewConverges` |
| `endpoints` | 2 nodes, 2 addresses, 1 failure | `ReleasedIsClean` |

*Bounds.* Two nodes are what a machine on the wrong node, or two machines of one object, need; two
objects what a conflict needs. Objects interact only through the scheduler's list and the queue, so
the other runs have one. One failure reaches every error path of the code; two, in `reports`,
are what a label lost by one report and a heartbeat lost by the next need. The watch queue is
unbounded: it is limited by the writes the other bounds allow. Updates are bounded by `MaxEdits`
(the force annotation counts), failures by `MaxFaults` (crash, lost reply, refused call, late call,
agent failure, node change, machine loss). Deletion and creation are not counted. `Wide` is an int32
range that never wraps; `Narrow`, in `placement` and `cpu_wrap`, is one that does.

Three bounds are conjuncts of an instance's next-state relation. `FailuresOrUpdates` splits
`lifecycle` in two halves: an object that keeps its spec and meets a failure, and one that is updated
while nothing fails (its updates all select one node). `SchedulingOnly` leaves the passes over an
object that is seen bound out of `placement`: they call a runtime and claim nothing.
`ForcedAreRunning` gives the force annotation in `cleanup` to objects of one spec.

In `managers` each read of a cache is current, and the pass then goes on with what it read: with two
workers that is where the races are, and lag as well is beyond TLC. One node is enough there for the
finalizer and for the fight over the status; two nodes are in `duplicate_machines`. `cleanup` needs
only one node for its races, since a cleanup pass touches no other node than its own. In `reports` a
heartbeat is either fresh or expired, which is enough for every order of stamp, sample, write,
failure and expiry; the proof covers any lifetime. Lag is in `lifecycle` and `placement`, where
acting on old versions is at stake; the fair runs go without it (an event is then delivered before
the next read, so a pass may still be overtaken in its middle), and the theorems about safety cover it.

*The waivers.* `CleanRelease` and `SoleOwner` are checked and proved for every object but the
ones in `waiver`: `forced` (the annotation gave the machine up on purpose), `moved` (the
binding was overwritten, finding 1) and `late` (a create was given up on after 30 s, and may be
executed after the release). The exceptions are recorded at the step that causes them and not at
its consequences, so nothing else can hide behind them.

*Fairness* (the runs marked fair). The worker goroutine keeps running; watch events
and timers arrive; the workqueue is first-in first-out, so an object that is queued again and
again is taken (strong fairness of `Reconcile`); the DaemonSet and `supervise` restart a failed
runtime; a running agent reports every interval; a Node that is not Ready comes back. Cleanup is a
flag, so the run does not assume it: `OrphansGo` says what holds if its loop runs (`CleanupRuns`). Of
two managers only one has to go on: the other may hang in the middle of a pass for ever, with an old
version in hand. No fairness is assumed of users, of failures, of a late call, or of a cordoned node.

### Where the repository says otherwise

Each of these runs has one property, quoted from the repository, and a counterexample.

1. `stale_rebind`: `status.nodeName` is "immutable" and VMs "do not move" (README.md:52, 58).
   A pass reads the unbound object, the cache then learns of the binding an earlier pass wrote,
   and `updateStatus` overwrites it with another node.
2. `stop_before_resize`: "set spec.running=false before expanding storage". An update that does
   both is stuck: the expansion check returns before the stop.
3. `name_reuse`: "MachineName is the stable smolvm runtime name owned by this CR." A pass that
   is about to write the status of a deleted object finds the object created under its name, and
   gives it the old machine name, which later passes keep.
4. `stale_list`: "does not schedule when resource fit or host ports would conflict"
   (smolvm_controller_test.go:140). Two objects with one host port are bound to one node, because
   the cached list does not have the first binding yet.
5. `cpu_wrap`: the same line. On a current list, the int32 sum of cpus wraps and the second object
   is bound to a node that is full.
6. `duplicate_machines`: "Confirm no duplicate runtime machines are created" (docs/operations.md:30).
   During a rollout both managers schedule the object, to different nodes, and it gets a machine on
   each.

### Other disagreements

Seen on the way with the same modules, and recorded here for whoever changes the code; no run is
kept for them.

- `observedGeneration` is "the metadata generation last reconciled" (smolvm_types.go:164); it is the
  generation of the second read.
- The finalizer holds deletion "until node-local cleanup completes" (docs/security-review.md:11). A
  create that timed out, or one by a second manager whose pass began before the deletion, may be
  executed after the release.
- "spec.nodeName is immutable after binding" (smolvm_types.go:34). A first pin is accepted after
  binding, and makes the object InvalidSpec for good.
- "does not schedule when resource fit or host ports would conflict" (smolvm_controller_test.go:140).
  Besides findings 4 and 5, it does when the spec is edited between `schedule` and `updateStatus`,
  and when the conflicting machine's object is being deleted.
- "Bound VMs [...] require operator action after node-local data loss" (docs/release-candidate.md:26).
  The next pass creates an empty machine.
- `status.nodeUID` lets the controller detect "stale endpoints after node replacement"
  (README.md:28). An agent that has not reported yet answers an empty UID, which passes.
- "CPUs is the available vCPU count" (smolvmnode_types.go:85). A failed read of the Node is published
  as 0, which the scheduler takes for no limit.
- The finalizer goes "only after local deletion succeeds or the runtime reports the VM missing"
  (README.md:64). With `QuickReuse`, another node's agent may be the one that reports it.

## Proofs

Assumptions on constants: `NoNode` is not a node, `NoVM` not an object, the specs are specs, the
bounds are naturals, `CPUHalf` positive and `Allocatable` a table of naturals. Nothing is
assumed about sizes, but that `SmolVMPlacement` adds up finitely many objects; the one theorem with
a hypothesis (`~QuickReuse`) has it in its statement.

- `TypeCorrect`: `Spec => []TypeOK`, action by action.
- `Inductive`: `Spec => []IInv`, and from it `FinalizerHolds` (`CleanRelease`),
  `MachineOnBoundNode` (`SoleOwner`) and `CreatesUnderFinalizer` (the action property).

`CleanRelease` is not inductive: the worker acts on an old version, so what it does next depends
on how that version relates to the API server. `IInv` adds

- `Lineage`: every version still in the cache, in the watch queue or in the worker's hands tells
  something that stays true of the API server. If it has the finalizer and no deletion mark, the
  object still exists with its finalizer; a deletion mark is never taken back; its binding is
  empty or the current one unless the binding was overwritten.
- `DeletionSeenInOrder`: versions are seen in the order written, so a worker that acts on a
  deletion mark knows the cache shows it too, and the versions that could still cause a create
  are gone when the finalizer goes. This is the step that makes `Lineage` inductive across
  `Release`.
- `StoredObjects`, `WorkerPlace` (what the worker's place says of its version; before a release
  the machine is absent, or a late create is on record), `LateCreates`, `MachinesHeld`.

`SmolVMControllerProofs` proves the first three preserved (`VersionStep`) and bounds what any step
does to a stored object (`ApiStep`); `SmolVMSafetyProofs` shows that machines appear only by a
create (`PresenceStep`) and in the right place (`CreatedInPlace`), and closes the induction.
TLC checks `IInv` in the `lifecycle` run.

`RuntimeAgentProofs` assumes that `NoIP` is no address, that there are labels and that the bounds
are naturals.

- `HeartbeatInvariant`: `Spec => []AgentInv`, and from it `EligibleWasHealthy` (`FreshlyHealthy`).
  What is inductive is that each of the three places a status may be (cached, stored, about to be
  written) is no younger than the last healthy moment; `GoodIsNow` gives the step at which
  health is sampled, where the heartbeat, taken before it, is already older.
- `DeleteReachesItsNode`: `Spec /\ ~QuickReuse => []ReleasedIsClean`, by the inductive `EndpointInv`,
  in which `IdentifiedStays` carries the identity check over to the call.

The second half of `SmolVMSafetyProofs`

- `Refinement`: `Spec => ImplementsLifecycle`. `OneObject` says that a step concerns one object and
  either its record or one machine of it; `RecordSimulation` and `MachineSimulation` then find the
  step of `MachineLifecycle`, from `ApiStep`, `PresenceStep` and `CreatedInPlace`. One more
  invariant is needed: `StatusTarget`, that `updateStatus` writes the binding of the version read
  first, or a new one of an object that was held and not deleted. The simulation uses no
  assumption on the fairness or on the order of events.

`SmolVMReconcileProofs`

- `NoLostWakeUp`: `Spec => []UnattendedIsExplained`. Strengthened by `InHandIsCurrent` (the version
  in the worker's hands is the stored one, unless an event that will wake the object is pending or
  has enqueued it) and `ReportsHonestly` (what is passed to `updateStatus` asks for another pass,
  or gives a reason that is true of the version in hand and, as long as nothing has failed, of its
  machine). `Woken` shows that nothing but the start of a pass takes an object from the queue, and
  `InHand` that a pass which ends without an event, a queue entry or a timer has found its own
  status written already. Once something has failed the machine may change behind the back of an
  object that waits: no event tells, so the property says nothing of the machine then.

`SmolVMPlacementProofs`

- `VettedPortsKept`: `PlacementSpec => []VettedPortsExclusive`, and `VettedFitsKept`:
  `PlacementSpec => []VettedFits`, for any cache lag, int32 width, updates, failures and restarts.
  That ports are exclusive and that a node's capacity is respected are false of the code (findings 4
  and 5), so the theorems say where the excess comes from: every conflict involves a claim that
  `schedule` judged on a list or a sum that was not true, or that an update made later. They do not
  follow from the check alone. Between `schedule` and the write of `updateStatus` users and events
  interleave; a stale pass may move an object, an update may take claims away and another
  give them back, and the next list is compared with versions that are older than the stored ones.
  `PlacementInv` adds `ClearChoice`: from the moment of a true check until the write, the claims of
  the object in hand fit beside the vetted claims of every other object on the chosen node. It is
  inductive because only the pass itself binds. TLC has checked `PlacementInv` on the instance of the
  `placement` run.
  `usage` is the library's `SumFunctionOnSet`, a recursion over the subsets of a set that takes out
  an element chosen by `CHOOSE`. Induction over sets with a predicate as parameter is out of the
  prover's reach, but a minimal counterexample is first-order: a set of subsets of a finite set has
  a minimal one (`MinimalSet`, from the well-foundedness of inclusion). From it come the equation of
  the recursion (`SumUnfolds`, which includes that the recursion has a solution), that any
  element may be taken out (`SumSplit`: the order does not matter) and monotony (`SumMonotone`).
  `SoundBefore` and `SoundShrinks` apply them: in a step nothing but the object of the pass becomes
  vetted, and what stays vetted uses no more than before.

`OrphanCleanupProofs`

- `CleanupInvariant`: `CleanupSpec => []CleanupInv`, and from it `PassReadsHold` (`PassStaysTrue`)
  and `CleanupSparesBound` (`SparesBound`, an action property). `IInv` survives a cleanup's delete,
  since a machine that disappears endangers none of its parts; a pass needs besides that an
  object that is gone was marked for deletion first (`GoneIsDeleted`), that the mark is never taken
  back, and that a pass ends with its agent.

`SmolVMSharedProofs` and `SmolVMManagersProofs`

- `ManagersHoldBound`: `ManagersSpec => []BoundIsHeld`, and `ManagersDuplicateByMove`:
  `ManagersSpec => []OneMachineUnlessMoved` (finding 6 has no other cause than an overwritten binding), for any number of objects and nodes, any cache lag and any number
  of failed calls. `IInv` does not hold here: one manager may release an object while the other still
  holds a version without the deletion mark. The inductive invariant is `SharedInv` of each manager.
  Every version it holds still says this much (`sharedVersion`): a bound object has its finalizer;
  a finalizer once seen is there as long as the object is, and an object that went does not come
  back; a binding is the stored one unless it was overwritten. The worker binds only what it
  read with the finalizer (`SharedPlace`).
  The argument is rely and guarantee. `WorkerShared` and `EventsShared` show that a step of a manager
  keeps its own `SharedInv` and leaves `Guarantee`; `OthersShared` that a manager which hears of such a
  step as watch events keeps `SharedInv` too; `SameGuarantee` that the two instances mean the same.
  TLC has checked `SharedInv` of both managers on an instance with two nodes.

Only model-checked: the liveness properties (`Converges`, `DeletionCompletes`, `OrphansGo`,
`BothConverge`, `ViewConverges`), liveness under fairness being out of the prover's reach. Every
safety property of a passing run has a theorem.

## Not modelled

Kubernetes events, logging, metrics, TLS, authentication and flags; messages, PIDs and transition
times; the runtime-observed copies in the status; generated deep copies. Allocatable storage as the
space free at the moment, which depends on how the external runtime allocates disks. `RuntimeAgent`
is not composed with `SmolVMController`: the product is out of TLC's reach, and the controller uses
its summary (`ready`, `agent`).

## Plan

Done: types, scheduler, the controller with its environment, its abstract specification and the
refinement, orphan cleanup, two managers, name reuse, the runtime agent; proofs of the release
invariant, of the refinement, of the wake-ups, of placement, of the cleanup, of
heartbeats, of endpoints and of two managers. Left: the liveness properties stay with TLC.
