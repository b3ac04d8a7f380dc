--------------------------- MODULE SmolVMScheduler ---------------------------
(***************************************************************************)
(* Placement: the node filter of schedule() as functions of the objects    *)
(* the scheduler lists.  "objs" maps every SmolVM to the version of it     *)
(* that is read: the controller passes its informer cache.                 *)
(***************************************************************************)
EXTENDS SmolVMTypes, FiniteSetsExt

CONSTANTS
  CPUHalf,      \* int32 values run from -CPUHalf to CPUHalf - 1
  Allocatable   \* SmolVMNode.status.allocatable; 0 is "not reported"

(* What a node has to give: the fields of status.allocatable.              *)
Resources == {"cpus", "memoryMiB", "storageGiB"}

ASSUME SchedulerAssumption ==
  /\ CPUHalf \in Nat \ {0}
  /\ Allocatable \in [Nodes -> [Resources -> Nat]]

(* Two's-complement truncation: usedCPU is an int32, the other sums int64. *)
(* Sums wrap, so it does not matter after which addition they do.          *)
Int32(x) == ((x + CPUHalf) % (2 * CPUHalf)) - CPUHalf

truncated(x, r) == IF r = "cpus" THEN Int32(x) ELSE x

(* Both disks come out of the node's storage.                              *)
request(spec, r) ==
  IF r = "storageGiB" THEN spec.size["storageGiB"] + spec.size["overlayGiB"]
  ELSE spec.size[r]

(* The sum of the requests of a set of objects.                            *)
usage(objs, on, r) ==
  SumFunctionOnSet([w \in DOMAIN objs |-> request(objs[w].spec, r)], on)

boundVMs(objs, v) ==
  {w \in DOMAIN objs \ {v} :
     objs[w].exists /\ objs[w].status.nodeName # NoNode /\ ~objs[w].deleting}

onNode(objs, v, n) == {w \in boundVMs(objs, v) : objs[w].status.nodeName = n}

fits(total, allocatable) == allocatable = 0 \/ total =< allocatable

(* Mutant: the pending object's own request is left out of the sums.       *)
ResourcesFitUsedOnly(objs, v, spec, n) ==
  \A r \in Resources :
    fits(truncated(usage(objs, onNode(objs, v, n), r), r), Allocatable[n][r])

resourcesFit(objs, v, spec, n) ==
  \A r \in Resources :
    fits(truncated(usage(objs, onNode(objs, v, n), r) + request(spec, r), r),
         Allocatable[n][r])

hosts(spec) == {p.host : p \in spec.ports}

(* Mutant: the loop skips the objects on this node instead of the others.  *)
HostPortsFreeElsewhere(objs, v, spec, n) ==
  \A w \in boundVMs(objs, v) \ onNode(objs, v, n) :
    hosts(objs[w].spec) \cap hosts(spec) = {}

hostPortsFree(objs, v, spec, n) ==
  \A w \in onNode(objs, v, n) : hosts(objs[w].spec) \cap hosts(spec) = {}

(* nodeRejectReason = "": "eligible" is smolVMNodeEligible of the cached   *)
(* SmolVMNode, "kubeNode" the state of the Kubernetes Node: ready (and not *)
(* cordoned), cordoned (spec.unschedulable) or notReady.                   *)
nodeAccepts(objs, v, spec, n, eligible, kubeNode) ==
  /\ eligible
  /\ n \in spec.nodeSelector
  /\ kubeNode = "ready"
  /\ resourcesFit(objs, v, spec, n)
  /\ hostPortsFree(objs, v, spec, n)

(* The nodes schedule() may return: it takes the first node of a list the  *)
(* cache returns in no particular order, or the pinned node only.          *)
candidates(objs, v, spec, eligible, kubeNodes) ==
  {n \in Nodes : /\ spec.nodeName \in {NoNode, n}
                 /\ nodeAccepts(objs, v, spec, n, eligible[n], kubeNodes[n])}
=============================================================================
