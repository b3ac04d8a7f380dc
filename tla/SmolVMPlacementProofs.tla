------------------------ MODULE SmolVMPlacementProofs ------------------------
(***************************************************************************)
(* Placement: whatever the cache lags, the sums wrap and users update, no  *)
(* two objects that were truly checked share a host port of their node     *)
(* (VettedPortsExclusive), and their requests fit it (VettedFits).         *)
(***************************************************************************)
EXTENDS SmolVMReconcileProofs, SmolVMPlacement, FiniteSetTheorems

-----------------------------------------------------------------------------
(***************************************************************************)
(* Sums over finite sets.  The library defines SumFunctionOnSet by         *)
(* recursion over the subsets of the set, taking out one element at a      *)
(* time; its equations are proved here from a minimal counterexample, a    *)
(* set of sets for which one fails being well-founded by inclusion.        *)
(***************************************************************************)
(* The sum of the values of W at the elements of S.                        *)
total(W, S) == SumFunctionOnSet(W, S)

(* The element the fold takes out.                                         *)
pick(s) == CHOOSE x \in s : TRUE

(* One step of the fold: h gives the sums of the smaller sets.             *)
unfold(W, h, s) == IF s = {} THEN 0 ELSE W[pick(s)] + h[s \ {pick(s)}]

(* The element taken out is one of the set.                                *)
LEMMA PickIn == ASSUME NEW s, s # {} PROVE pick(s) \in s
  BY DEF pick

(* The sum as the library defines it.                                      *)
LEMMA SumIsFold ==
  ASSUME NEW W, NEW T
  PROVE  SumFunctionOnSet(W, T) =
           (CHOOSE g : g = [s \in SUBSET T |-> unfold(W, g, s)])[T]
  BY DEF SumFunctionOnSet, FoldFunctionOnSet, MapThenFoldSet, unfold, pick

(* A set of subsets of a finite set has a minimal one.                     *)
LEMMA MinimalSet ==
  ASSUME NEW D, IsFiniteSet(D), NEW X, X \subseteq SUBSET D, X # {}
  PROVE  \E T \in X : \A s \in X : s \subseteq T => s = T
<1>1. X \subseteq FiniteSubsetsOf(D)
  BY FS_FiniteSubsetsOfFinite
<1>2. \E T \in X : \A s \in X : ~(<<s, T>> \in StrictSubsetOrdering(D))
  BY <1>1, FS_StrictSubsetOrderingWellFounded, WFMin
<1> QED BY <1>2 DEF StrictSubsetOrdering

(* The recursion has a solution, and the sum satisfies its equation.       *)
LEMMA SumUnfolds ==
  ASSUME NEW D, IsFiniteSet(D), NEW W, NEW S \in SUBSET D
  PROVE  total(W, S) = IF S = {} THEN 0 ELSE W[pick(S)] + total(W, S \ {pick(S)})
<1> DEFINE rhs(s) == IF s = {} THEN 0 ELSE W[pick(s)] + total(W, s \ {pick(s)})
           X == {s \in SUBSET D : total(W, s) # rhs(s)}
<1> SUFFICES ASSUME X # {} PROVE FALSE
  OBVIOUS
<1>1. PICK T \in X : \A s \in X : s \subseteq T => s = T
  <2>1. X \subseteq SUBSET D
    OBVIOUS
  <2> HIDE DEF X
  <2> QED BY <2>1, MinimalSet
<1>2. ASSUME NEW s \in SUBSET T, s # T PROVE total(W, s) = rhs(s)
  BY <1>1, <1>2
<1> DEFINE fix(g) == g = [s \in SUBSET T |-> unfold(W, g, s)]
           h == CHOOSE g : fix(g)
           k == [s \in SUBSET T |-> IF s = T THEN rhs(T) ELSE total(W, s)]
<1>3. fix(k)
  <2>1. ASSUME NEW s \in SUBSET T PROVE k[s] = unfold(W, k, s)
    <3>1. s # {} => pick(s) \in s
      BY PickIn
    <3>2. s # {} => s \ {pick(s)} \in SUBSET T /\ s \ {pick(s)} # T
      BY <3>1
    <3>3. k[s] = rhs(s)
      BY <1>2
    <3>4. s # {} => k[s \ {pick(s)}] = total(W, s \ {pick(s)})
      BY <3>2
    <3> HIDE DEF k
    <3> QED BY <3>3, <3>4 DEF unfold
  <2>2. k = [s \in SUBSET T |-> k[s]]
    OBVIOUS
  <2> HIDE DEF k
  <2> QED BY <2>1, <2>2
<1>4. fix(h)
  <2> HIDE DEF fix, k
  <2> QED BY <1>3
<1>5. total(W, T) = h[T]
  BY SumIsFold DEF total
<1> HIDE DEF h
<1>6. ASSUME NEW s \in SUBSET T PROVE h[s] = unfold(W, h, s)
  BY <1>4
<1> HIDE DEF fix
<1>7. ASSUME NEW s \in SUBSET T, s # T PROVE h[s] = total(W, s)
  <2> DEFINE Y == {u \in SUBSET T : u # T /\ h[u] # total(W, u)}
  <2> SUFFICES ASSUME Y # {} PROVE FALSE
    BY <1>7
  <2>1. PICK u \in Y : \A t \in Y : t \subseteq u => t = u
    <3>1. Y \subseteq SUBSET D
      BY <1>1
    <3> HIDE DEF Y
    <3> QED BY <3>1, MinimalSet
  <2>2. u \in SUBSET T /\ u # T /\ h[u] # total(W, u)
    OBVIOUS
  <2>3. total(W, u) = rhs(u) /\ h[u] = unfold(W, h, u)
    BY <1>2, <1>6, <2>2
  <2>4. CASE u = {}
    BY <2>2, <2>3, <2>4 DEF unfold
  <2>5. CASE u # {}
    <3>1. pick(u) \in u
      BY <2>5, PickIn
    <3>2. u \ {pick(u)} \notin Y
      BY <2>1, <3>1
    <3>3. h[u \ {pick(u)}] = total(W, u \ {pick(u)})
      BY <2>2, <3>1, <3>2
    <3> QED BY <2>2, <2>3, <2>5, <3>3 DEF unfold
  <2> QED BY <2>4, <2>5
<1>8. h[T] = rhs(T)
  <2>1. h[T] = unfold(W, h, T)
    BY <1>6
  <2>2. T # {} => h[T \ {pick(T)}] = total(W, T \ {pick(T)})
    BY <1>7, PickIn
  <2> QED BY <2>1, <2>2 DEF unfold
<1> QED BY <1>1, <1>5, <1>8

(* A sum of naturals is a natural.                                         *)
LEMMA SumNat ==
  ASSUME NEW D, IsFiniteSet(D), NEW W \in [D -> Nat], NEW S \in SUBSET D
  PROVE  total(W, S) \in Nat
<1> DEFINE X == {s \in SUBSET D : total(W, s) \notin Nat}
<1> SUFFICES ASSUME X # {} PROVE FALSE
  OBVIOUS
<1>1. PICK T \in X : \A s \in X : s \subseteq T => s = T
  <2>1. X \subseteq SUBSET D
    OBVIOUS
  <2> HIDE DEF X
  <2> QED BY <2>1, MinimalSet
<1>2. total(W, T) = IF T = {} THEN 0 ELSE W[pick(T)] + total(W, T \ {pick(T)})
  BY SumUnfolds
<1>3. CASE T = {}
  BY <1>2, <1>3
<1>4. CASE T # {}
  <2>1. pick(T) \in T
    BY <1>4, PickIn
  <2>2. T \ {pick(T)} \notin X
    BY <1>1, <2>1
  <2>3. W[pick(T)] \in Nat /\ total(W, T \ {pick(T)}) \in Nat
    BY <2>1, <2>2
  <2> QED BY <1>2, <1>4, <2>3
<1> QED BY <1>3, <1>4

(* Any element may be taken out: the order of the fold does not matter.    *)
LEMMA SumSplit ==
  ASSUME NEW D, IsFiniteSet(D), NEW W \in [D -> Nat], NEW S \in SUBSET D, NEW y \in S
  PROVE  total(W, S) = W[y] + total(W, S \ {y})
<1> DEFINE X == {s \in SUBSET D : \E x \in s : total(W, s) # W[x] + total(W, s \ {x})}
<1> SUFFICES ASSUME X # {} PROVE FALSE
  OBVIOUS
<1>1. PICK T \in X : \A s \in X : s \subseteq T => s = T
  <2>1. X \subseteq SUBSET D
    OBVIOUS
  <2> HIDE DEF X
  <2> QED BY <2>1, MinimalSet
<1>2. PICK x \in T : total(W, T) # W[x] + total(W, T \ {x})
  OBVIOUS
<1> DEFINE c == pick(T)
<1>3. c \in T
  BY PickIn
<1>4. total(W, T) = W[c] + total(W, T \ {c})
  BY SumUnfolds
<1> HIDE DEF c
<1>5. x # c
  BY <1>2, <1>4
<1>6. T \ {c} \notin X /\ T \ {x} \notin X
  BY <1>1, <1>3
<1>7. /\ total(W, T \ {c}) = W[x] + total(W, (T \ {c}) \ {x})
      /\ total(W, T \ {x}) = W[c] + total(W, (T \ {x}) \ {c})
  BY <1>3, <1>5, <1>6
<1>8. (T \ {c}) \ {x} = (T \ {x}) \ {c}
  OBVIOUS
<1>9. /\ W[x] \in Nat /\ W[c] \in Nat /\ total(W, (T \ {c}) \ {x}) \in Nat
  BY <1>3, SumNat
<1> QED BY <1>2, <1>4, <1>7, <1>8, <1>9

(* The empty sum.                                                         *)
LEMMA SumEmpty == ASSUME NEW W PROVE total(W, {}) = 0
  BY SumUnfolds, FS_EmptySet

(* Fewer elements with no larger values have no larger sum.                *)
LEMMA SumMonotone ==
  ASSUME NEW D, IsFiniteSet(D), NEW V \in [D -> Nat], NEW W \in [D -> Nat],
         NEW S \in SUBSET D, NEW T \in SUBSET D, S \subseteq T,
         \A x \in S : V[x] =< W[x]
  PROVE  total(V, S) =< total(W, T)
<1> DEFINE X == {t \in SUBSET T : ~(total(V, t \cap S) =< total(W, t))}
<1> SUFFICES ASSUME X # {} PROVE FALSE
  <2>1. T \cap S = S /\ T \notin X
    OBVIOUS
  <2> QED BY <2>1
<1>1. PICK t \in X : \A s \in X : s \subseteq t => s = t
  <2>1. X \subseteq SUBSET D
    OBVIOUS
  <2> HIDE DEF X
  <2> QED BY <2>1, MinimalSet
<1>m. ~(total(V, t \cap S) =< total(W, t))
  OBVIOUS
<1>2. t # {}
  <2>1. total(V, {}) = 0 /\ total(W, {}) = 0
    BY SumEmpty
  <2>2. t = {} => t \cap S = {}
    OBVIOUS
  <2> HIDE DEF X
  <2> QED BY <2>1, <2>2, <1>m
<1>3. PICK y \in t : TRUE
  BY <1>2
<1>4. t \ {y} \notin X
  BY <1>1
<1>5. total(V, (t \ {y}) \cap S) =< total(W, t \ {y})
  BY <1>4
<1>6. total(W, t) = W[y] + total(W, t \ {y})
  BY SumSplit
<1>7. /\ total(V, (t \ {y}) \cap S) \in Nat /\ total(W, t \ {y}) \in Nat
      /\ V[y] \in Nat /\ W[y] \in Nat
  <2>1. (t \ {y}) \cap S \in SUBSET D /\ t \ {y} \in SUBSET D /\ y \in D
    OBVIOUS
  <2> QED BY <2>1, SumNat
<1>8. CASE y \in S
  <2>1. y \in t \cap S /\ t \cap S \in SUBSET D /\ (t \cap S) \ {y} = (t \ {y}) \cap S
    BY <1>8
  <2>2. total(V, t \cap S) = V[y] + total(V, (t \ {y}) \cap S)
    BY <2>1, SumSplit
  <2>3. V[y] =< W[y]
    BY <1>8
  <2> HIDE DEF X
  <2> QED BY <1>m, <1>5, <1>6, <1>7, <2>2, <2>3
<1>9. CASE y \notin S
  <2>1. t \cap S = (t \ {y}) \cap S
    BY <1>9
  <2> HIDE DEF X
  <2> QED BY <1>m, <1>5, <1>6, <1>7, <2>1
<1> QED BY <1>8, <1>9

-----------------------------------------------------------------------------
(***************************************************************************)
(* The worker and the bindings.                                            *)
(***************************************************************************)
(* An object is bound anew only by the updateStatus of its own pass.       *)
LEMMA BoundBefore ==
  ASSUME IInv, [Next]_vars, NEW v \in VMs, NEW n \in Nodes, liveBound(v, n)'
  PROVE  \/ liveBound(v, n)
         \/ /\ pc = "status" /\ cur = v /\ input.nodeName = n
            /\ api[v].status.nodeName # n /\ api[v].generation # 0
<1>1. writes(v)
  BY ApiStep
<1>2. api'[v].exists /\ ~api'[v].deleting /\ api'[v].status.nodeName = n
  BY DEF liveBound
<1>3. ~api[v].deleting
  BY <1>1, <1>2 DEF writes
<1>4. CASE ~api[v].exists
  <2>1. api[v] = NoObject /\ api'[v].status = api[v].status
    BY <1>1, <1>2, <1>4 DEF writes
  <2>2. NoObject.status.nodeName = NoNode
    BY DEF NoObject, EmptyStatus
  <2> QED BY <1>2, <2>1, <2>2, NodesAssumption
<1>5. CASE api[v].exists
  <2>1. api[v].generation # 0
    BY <1>5 DEF IInv, StoredObjects, NoObject
  <2>2. CASE api[v].status.nodeName = n
    BY <1>3, <1>5, <2>2 DEF liveBound
  <2>3. CASE api[v].status.nodeName # n
    BY <1>1, <1>2, <2>1, <2>3 DEF writes
  <2> QED BY <2>2, <2>3
<1> QED BY <1>4, <1>5

(* The object of a choice under way stays in hand until it is written.     *)
LEMMA StatusHeld ==
  ASSUME IInv, WorkerInHand, Next, pc = "status", pc' = "status"
  PROVE  cur \in VMs /\ cur' = cur /\ input' = input
<1>1. cur \in VMs
  BY DEF IInv, TypeOK, WorkerTypeOK
<1>2. CASE UserStep
  BY <1>1, <1>2 DEF UserStep, CreateVM, EditVM, DeleteVM, AnnotateForceDelete, UserWrite
<1>3. CASE EnvStep
  BY <1>1, <1>3 DEF EnvStep, AgentReport, HeartbeatLapses, AgentFails, AgentRecovers,
     NodeChanges, NodeRecovers, MachineChanges, LateCall, NodeStep, workerVars
<1>4. CASE UpdateStatus \/ Crash
  BY <1>4 DEF UpdateStatus, Written, Return, Crash
<1>5. CASE WorkerStep /\ ~UpdateStatus
  BY <1>1, <1>5 DEF WorkerStep, AddFinalizer, Schedule, ConnectRuntime, GetMachine,
     CreateMachine, ResizeMachine, EnsureMachineRunning, StopMachine,
     ConnectForDelete, DeleteMachine, Release, ForceRelease
<1>6. CASE \E v \in VMs : Deliver(v) \/ TimerFires(v) \/ Reconcile(v)
  BY <1>1, <1>6 DEF Deliver, TimerFires, Reconcile, workerVars
<1> QED BY <1>1, <1>2, <1>3, <1>4, <1>5, <1>6 DEF Next

(* Only schedule() goes from the scheduler to updateStatus.                *)
LEMMA ScheduleTaken ==
  ASSUME Next, pc = "schedule", pc' = "status"
  PROVE  Schedule
<1>2. CASE UserStep
  BY <1>2 DEF UserStep, CreateVM, EditVM, DeleteVM, AnnotateForceDelete, UserWrite
<1>3. CASE EnvStep
  BY <1>3 DEF EnvStep, AgentReport, HeartbeatLapses, AgentFails, AgentRecovers,
     NodeChanges, NodeRecovers, MachineChanges, LateCall, NodeStep, workerVars
<1>4. CASE Crash
  BY <1>4 DEF Crash
<1>5. CASE WorkerStep
  BY <1>5 DEF WorkerStep, AddFinalizer, UpdateStatus, ConnectRuntime, GetMachine,
     CreateMachine, ResizeMachine, EnsureMachineRunning, StopMachine,
     ConnectForDelete, DeleteMachine, Release, ForceRelease
<1>6. CASE \E v \in VMs : Deliver(v) \/ TimerFires(v) \/ Reconcile(v)
  BY <1>6 DEF Deliver, TimerFires, Reconcile, workerVars
<1> QED BY <1>2, <1>3, <1>4, <1>5, <1>6 DEF Next

-----------------------------------------------------------------------------
(***************************************************************************)
(* Requests and their sums.                                                *)
(***************************************************************************)
(* Requests are naturals.                                                  *)
LEMMA RequestNat ==
  ASSUME NEW s \in SmolVMSpec, NEW r \in Resources
  PROVE  request(s, r) \in Nat
<1>1. s.size \in [{"cpus", "memoryMiB", "storageGiB", "overlayGiB"} -> Nat]
  BY DEF SmolVMSpec, Sizes, Compute, Disks
<1> QED BY <1>1 DEF request, Resources

(* The requests of all objects, as a function.                             *)
LEMMA DemandNat ==
  ASSUME NEW a \in [VMs -> SmolVM], NEW r \in Resources
  PROVE  [w \in DOMAIN a |-> request(a[w].spec, r)] \in [VMs -> Nat]
<1>1. ASSUME NEW w \in VMs PROVE request(a[w].spec, r) \in Nat
  <2>1. a[w].spec \in SmolVMSpec
    BY DEF SmolVM
  <2> QED BY <2>1, RequestNat
<1> QED BY <1>1

(* The usage of some objects is a natural.                                 *)
LEMMA UsageNat ==
  ASSUME NEW a \in [VMs -> SmolVM], NEW r \in Resources,
         NEW S \in SUBSET VMs
  PROVE  usage(a, S, r) \in Nat
<1> DEFINE W == [w \in DOMAIN a |-> request(a[w].spec, r)]
<1>1. W \in [VMs -> Nat]
  BY DemandNat
<1>2. usage(a, S, r) = total(W, S)
  BY DEF usage, total
<1> HIDE DEF W
<1> QED BY <1>1, <1>2, SumNat, PlacementAssumption

(* One object's share of a usage.                                          *)
LEMMA UsageSplit ==
  ASSUME NEW a \in [VMs -> SmolVM], NEW r \in Resources,
         NEW S \in SUBSET VMs, NEW y \in S
  PROVE  usage(a, S, r) = request(a[y].spec, r) + usage(a, S \ {y}, r)
<1> DEFINE W == [w \in DOMAIN a |-> request(a[w].spec, r)]
<1>1. W \in [VMs -> Nat]
  BY DemandNat
<1>2. usage(a, S, r) = total(W, S) /\ usage(a, S \ {y}, r) = total(W, S \ {y})
  BY DEF usage, total
<1>3. W[y] = request(a[y].spec, r)
  OBVIOUS
<1> HIDE DEF W
<1> QED BY <1>1, <1>2, <1>3, SumSplit, PlacementAssumption

(* Fewer objects with no larger requests use no more.                      *)
LEMMA UsageShrinks ==
  ASSUME NEW a \in [VMs -> SmolVM], NEW b \in [VMs -> SmolVM],
         NEW r \in Resources, NEW S \in SUBSET VMs, NEW T \in SUBSET VMs, S \subseteq T,
         \A w \in S : request(a[w].spec, r) =< request(b[w].spec, r)
  PROVE  usage(a, S, r) =< usage(b, T, r)
<1> DEFINE V == [w \in DOMAIN a |-> request(a[w].spec, r)]
           W == [w \in DOMAIN b |-> request(b[w].spec, r)]
<1>1. V \in [VMs -> Nat] /\ W \in [VMs -> Nat]
  BY DemandNat
<1>2. usage(a, S, r) = total(V, S) /\ usage(b, T, r) = total(W, T)
  BY DEF usage, total
<1>4. \A w \in S : V[w] =< W[w]
  OBVIOUS
<1> HIDE DEF V, W
<1> QED BY <1>1, <1>2, <1>4, SumMonotone, PlacementAssumption

(* Less than what fits fits.                                               *)
LEMMA FitsLess ==
  ASSUME NEW x \in Nat, NEW y \in Nat, NEW a \in Nat, x =< y, fits(y, a)
  PROVE  fits(x, a)
  BY DEF fits

-----------------------------------------------------------------------------
(***************************************************************************)
(* One step.  "Before" is what the proof knows of the state it starts from.*)
(***************************************************************************)
(* The hypotheses of a step.                                               *)
Before == IInv /\ WorkerInHand /\ PlacementInv

(* A claim counts as checked after a step if it did before, or if the      *)
(* object was bound by a choice that was clear; and it has not grown.      *)
LEMMA SoundBefore ==
  ASSUME Before, PlacementNext, NEW n \in Nodes, NEW c \in Claims,
         NEW v \in sound(n, c)'
  PROVE  /\ v \in VMs /\ within(api'[v].spec, api[v].spec, c)
         /\ \/ v \in sound(n, c)
            \/ pc = "status" /\ cur = v /\ input.nodeName = n /\ c \in clear
<1>1. v \in VMs /\ liveBound(v, n)' /\ c \in stillVetted(v)
  BY DEF sound, PlacementNext, Track
<1>2. CASE liveBound(v, n)
  <2>1. api'[v].status.nodeName = api[v].status.nodeName
    BY <1>1, <1>2 DEF liveBound
  <2> QED BY <1>1, <1>2, <2>1 DEF stillVetted, sound
<1>3. CASE /\ pc = "status" /\ cur = v /\ input.nodeName = n
           /\ api[v].status.nodeName # n
  <2>1. api'[v].status.nodeName # api[v].status.nodeName
    BY <1>1, <1>3 DEF liveBound
  <2> QED BY <1>1, <1>3, <2>1 DEF stillVetted
<1> QED BY <1>1, <1>2, <1>3, BoundBefore DEF Before, PlacementNext

(* What was checked before and still is takes no more room than it did.    *)
LEMMA SoundShrinks ==
  ASSUME Before, PlacementNext, NEW n \in Nodes, NEW r \in Resources,
         NEW S, S \subseteq sound(n, r)', NEW T, T \subseteq sound(n, r), S \subseteq T
  PROVE  /\ usage(api', S, r) \in Nat /\ usage(api, T, r) \in Nat
         /\ usage(api', S, r) =< usage(api, T, r)
<1>1. api \in [VMs -> SmolVM] /\ api' \in [VMs -> SmolVM]
  <2>1. TypeOK /\ TypeOK'
    BY TypeOKStep DEF Before, IInv, PlacementNext
  <2> QED BY <2>1 DEF TypeOK, ApiTypeOK
<1>2. S \in SUBSET VMs /\ T \in SUBSET VMs
  BY DEF sound
<1>3. ASSUME NEW w \in S PROVE request(api'[w].spec, r) =< request(api[w].spec, r)
  <2>1. r \in Claims /\ r # "hostPorts"
    BY DEF Claims, Resources
  <2>2. within(api'[w].spec, api[w].spec, r)
    BY <2>1, SoundBefore
  <2> QED BY <2>1, <2>2 DEF within
<1> QED BY <1>1, <1>2, <1>3, UsageNat, UsageShrinks

(* Requests of stored objects.                                             *)
LEMMA StoredRequest ==
  ASSUME IInv, NEW v \in VMs, NEW r \in Resources
  PROVE  request(api[v].spec, r) \in Nat
<1>1. api[v].spec \in SmolVMSpec
  BY DEF IInv, TypeOK, ApiTypeOK, SmolVM
<1> QED BY <1>1, RequestNat

(* The histories keep their types.                                         *)
LEMMA PlacementTypeStep ==
  ASSUME Before, PlacementNext
  PROVE  PlacementTypeOK'
<1>1. clear' \in SUBSET Claims /\ (pc' # "status" => clear' = {})
  BY DEF PlacementNext, Track, stillClear
<1>2. ASSUME NEW v \in VMs PROVE stillVetted(v) \in SUBSET Claims
  BY DEF Before, PlacementInv, PlacementTypeOK, stillVetted
<1>3. vetted' \in [VMs -> SUBSET Claims]
  BY <1>2 DEF PlacementNext, Track
<1> QED BY <1>1, <1>3 DEF PlacementTypeOK

(* A binding is written next to objects that it was compared with.         *)
LEMMA VettedPortsStep ==
  ASSUME Before, PlacementNext
  PROVE  VettedPortsExclusive'
<1> DEFINE P == "hostPorts"
<1>c. P \in Claims
  BY DEF Claims
<1> HIDE DEF P
<1> SUFFICES ASSUME NEW n \in Nodes, NEW v \in sound(n, P)', NEW w \in sound(n, P)', v # w
             PROVE  hosts(api'[v].spec) \cap hosts(api'[w].spec) = {}
  BY DEF VettedPortsExclusive, P
<1>1. /\ v \in VMs /\ w \in VMs
      /\ hosts(api'[v].spec) \subseteq hosts(api[v].spec)
      /\ hosts(api'[w].spec) \subseteq hosts(api[w].spec)
  BY <1>c, SoundBefore DEF within, P
<1>2. ASSUME NEW x \in sound(n, P) \ {cur}, pc = "status", input.nodeName = n, P \in clear
      PROVE  hosts(api[x].spec) \cap hosts(api[cur].spec) = {}
  BY <1>2 DEF Before, PlacementInv, ClearChoice, P
<1>3. CASE v \in sound(n, P) /\ w \in sound(n, P)
  <2>1. hosts(api[v].spec) \cap hosts(api[w].spec) = {}
    BY <1>3 DEF Before, PlacementInv, VettedPortsExclusive, P
  <2> QED BY <1>1, <2>1
<1>4. CASE v \notin sound(n, P)
  <2>1. pc = "status" /\ cur = v /\ input.nodeName = n /\ P \in clear
    BY <1>c, <1>4, SoundBefore
  <2>2. w \in sound(n, P) \ {cur}
    BY <1>c, <2>1, SoundBefore
  <2>3. hosts(api[w].spec) \cap hosts(api[v].spec) = {}
    BY <1>2, <2>1, <2>2
  <2> QED BY <1>1, <2>3
<1>5. CASE w \notin sound(n, P)
  <2>1. pc = "status" /\ cur = w /\ input.nodeName = n /\ P \in clear
    BY <1>c, <1>5, SoundBefore
  <2>2. v \in sound(n, P) \ {cur}
    BY <1>c, <2>1, SoundBefore
  <2>3. hosts(api[v].spec) \cap hosts(api[w].spec) = {}
    BY <1>2, <2>1, <2>2
  <2> QED BY <1>1, <2>3
<1> QED BY <1>3, <1>4, <1>5

(* A binding is written on a node that has room for its object.            *)
LEMMA VettedFitsStep ==
  ASSUME Before, PlacementNext
  PROVE  VettedFits'
<1> SUFFICES ASSUME NEW n \in Nodes, NEW r \in Resources
             PROVE  fits(usage(api', sound(n, r)', r), Allocatable[n][r])
  BY DEF VettedFits
<1> DEFINE a == Allocatable[n][r]
<1>a. a \in Nat
  BY SchedulerAssumption
<1>c. r \in Claims /\ r # "hostPorts"
  BY DEF Claims, Resources
<1>1. CASE sound(n, r)' \subseteq sound(n, r)
  <2>1. /\ usage(api', sound(n, r)', r) \in Nat /\ usage(api, sound(n, r), r) \in Nat
        /\ usage(api', sound(n, r)', r) =< usage(api, sound(n, r), r)
    BY <1>1, SoundShrinks
  <2>2. fits(usage(api, sound(n, r), r), a)
    BY DEF Before, PlacementInv, VettedFits
  <2> HIDE DEF a
  <2>3. fits(usage(api', sound(n, r)', r), a)
    BY <2>1, <2>2, <1>a, FitsLess
  <2> QED BY <2>3 DEF a
<1>2. CASE ~(sound(n, r)' \subseteq sound(n, r))
  <2>1. PICK v \in sound(n, r)' : v \notin sound(n, r)
    BY <1>2
  <2>2. /\ v \in VMs /\ within(api'[v].spec, api[v].spec, r)
        /\ pc = "status" /\ cur = v /\ input.nodeName = n /\ r \in clear
    BY <1>c, <2>1, SoundBefore
  <2> DEFINE S == sound(n, r)' \ {v}
             T == sound(n, r) \ {v}
             q == request(api[v].spec, r)
             p == request(api'[v].spec, r)
  <2>3. S \subseteq sound(n, r)' /\ T \subseteq sound(n, r) /\ S \subseteq T
    BY <1>c, <2>2, SoundBefore
  <2>4. fits(usage(api, T, r) + q, a)
    BY <2>2 DEF Before, PlacementInv, ClearChoice
  <2>5. usage(api', sound(n, r)', r) = p + usage(api', S, r)
    <3>1. api' \in [VMs -> SmolVM]
      BY TypeOKStep DEF Before, IInv, PlacementNext, TypeOK, ApiTypeOK
    <3>2. sound(n, r)' \in SUBSET VMs
      BY DEF sound
    <3> QED BY <2>1, <3>1, <3>2, UsageSplit
  <2>6. q \in Nat /\ p \in Nat /\ p =< q
    <3>1. q \in Nat
      BY <2>2, StoredRequest DEF Before
    <3>2. api'[v].spec \in SmolVMSpec
      BY <2>2, TypeOKStep DEF Before, IInv, PlacementNext, TypeOK, ApiTypeOK, SmolVM
    <3>3. p =< q
      BY <1>c, <2>2 DEF within
    <3> QED BY <3>1, <3>2, <3>3, RequestNat
  <2> HIDE DEF S, T, q, p, a
  <2>7. /\ usage(api', S, r) \in Nat /\ usage(api, T, r) \in Nat
        /\ usage(api', S, r) =< usage(api, T, r)
    BY <2>3, SoundShrinks
  <2>8. fits(usage(api', sound(n, r)', r), a)
    BY <2>4, <2>5, <2>6, <2>7, <1>a DEF fits
  <2> QED BY <2>8 DEF a
<1> QED BY <1>1, <1>2

(* The choice of schedule(): a clear one is free and fits, because what it *)
(* compared was no less than the truth.                                    *)
LEMMA ClearBySchedule ==
  ASSUME Before, PlacementNext, Schedule, input'.nodeName \in Nodes
  PROVE  ClearChoice'
<1>1. /\ UNCHANGED <<api, cache, cur, obj>> /\ cur \in VMs /\ pc = "schedule"
  BY DEF Schedule, Report, apiVars, Before, IInv, TypeOK, WorkerTypeOK
<1>2. PICK n \in candidates(cache, cur, obj.spec, ready, kube) : input'.nodeName = n
  <2>1. obj.status.nodeName = NoNode
    BY <1>1 DEF Before, WorkerInHand
  <2> QED BY <2>1, NodesAssumption DEF Schedule, Report, statusInput
<1>3. n \in Nodes /\ resourcesFit(cache, cur, obj.spec, n) /\ hostPortsFree(cache, cur, obj.spec, n)
  BY <1>2 DEF candidates, nodeAccepts
<1>4. ASSUME NEW c \in clear' PROVE c \in Claims /\ listTrue(n, c)
  BY <1>1, <1>2 DEF PlacementNext, Track, stillClear
<1>5. ASSUME NEW c \in Claims PROVE sound(n, c)' \subseteq sound(n, c)
  BY <1>1, <1>3, <1>5, SoundBefore
<1>6. ASSUME "hostPorts" \in clear', NEW w \in sound(n, "hostPorts")' \ {cur}
      PROVE  hosts(api[w].spec) \cap hosts(api[cur].spec) = {}
  <2>1. w \in VMs \ {cur} /\ liveBound(w, n)
    BY <1>5, <1>6 DEF Claims, sound
  <2>2. /\ hosts(api[cur].spec) \subseteq hosts(obj.spec)
        /\ w \in onNode(cache, cur, n) /\ hosts(api[w].spec) \subseteq hosts(cache[w].spec)
    BY <1>4, <1>6, <2>1 DEF listTrue, within
  <2>3. hosts(cache[w].spec) \cap hosts(obj.spec) = {}
    BY <1>3, <2>2 DEF hostPortsFree
  <2> QED BY <2>2, <2>3
<1>7. ASSUME NEW r \in Resources, r \in clear'
      PROVE  fits(usage(api, sound(n, r)' \ {cur}, r) + request(api[cur].spec, r),
                  Allocatable[n][r])
  <2> DEFINE S == sound(n, r)' \ {cur}
             T == onNode(cache, cur, n)
             q == request(api[cur].spec, r)
             p == request(obj.spec, r)
             a == Allocatable[n][r]
  <2>1. r \in Claims /\ r # "hostPorts"
    BY DEF Claims, Resources
  <2>2. \A w \in S : w \in VMs \ {cur} /\ liveBound(w, n)
    BY <1>5, <2>1 DEF sound
  <2>3. /\ q =< p /\ truncated(usage(cache, T, r) + p, r) = usage(cache, T, r) + p
        /\ \A w \in S : w \in T /\ request(api[w].spec, r) =< request(cache[w].spec, r)
    BY <1>4, <1>7, <2>1, <2>2 DEF listTrue, within, addsUp
  <2>4. fits(truncated(usage(cache, T, r) + p, r), a)
    BY <1>3 DEF resourcesFit
  <2>5. api \in [VMs -> SmolVM] /\ cache \in [VMs -> SmolVM] /\ obj \in SmolVM
    BY DEF Before, IInv, TypeOK, ApiTypeOK, WorkerTypeOK
  <2>6. S \in SUBSET VMs /\ T \in SUBSET VMs /\ S \subseteq T
    BY <2>2, <2>3, <2>5 DEF onNode, boundVMs
  <2>7. q \in Nat /\ p \in Nat /\ a \in Nat
    <3>1. obj.spec \in SmolVMSpec
      BY <2>5 DEF SmolVM
    <3> QED BY <1>1, <1>3, <3>1, RequestNat, StoredRequest, SchedulerAssumption DEF Before
  <2> HIDE DEF S, T, q, p, a
  <2>8. /\ usage(api, S, r) \in Nat /\ usage(cache, T, r) \in Nat
        /\ usage(api, S, r) =< usage(cache, T, r)
    BY <2>3, <2>5, <2>6, UsageNat, UsageShrinks
  <2>9. fits(usage(api, S, r) + q, a)
    BY <2>3, <2>4, <2>7, <2>8 DEF fits
  <2> QED BY <2>9 DEF S, q, a
<1>8. /\ input'.nodeName = n /\ api' = api /\ cur' = cur
      /\ \A c : sound(input.nodeName, c)' = sound(n, c)'
  BY <1>1, <1>2 DEF sound, liveBound
<1> QED BY <1>6, <1>7, <1>8 DEF ClearChoice

(* A clear choice stays free and fits until it is written: other objects   *)
(* are not bound meanwhile, and what grows is no longer counted.           *)
LEMMA ClearWhileInHand ==
  ASSUME Before, PlacementNext, pc = "status", pc' = "status", input'.nodeName \in Nodes
  PROVE  ClearChoice'
<1>1. cur \in VMs /\ cur' = cur /\ input' = input
  BY StatusHeld DEF Before, PlacementNext
<1>2. PICK n \in Nodes : n = input.nodeName
  BY <1>1
<1>3. ASSUME NEW c \in clear'
      PROVE  c \in Claims /\ c \in clear /\ within(api'[cur].spec, api[cur].spec, c)
  BY DEF PlacementNext, Track, stillClear
<1>4. ASSUME NEW c \in Claims PROVE sound(n, c)' \ {cur} \subseteq sound(n, c) \ {cur}
  BY <1>1, <1>2, <1>4, SoundBefore
<1>5. ASSUME "hostPorts" \in clear', NEW w \in sound(n, "hostPorts")' \ {cur}
      PROVE  hosts(api'[w].spec) \cap hosts(api'[cur].spec) = {}
  <2>1. w \in sound(n, "hostPorts") \ {cur} /\ "hostPorts" \in Claims
    BY <1>3, <1>4, <1>5
  <2>2. /\ hosts(api'[w].spec) \subseteq hosts(api[w].spec)
        /\ hosts(api'[cur].spec) \subseteq hosts(api[cur].spec)
    BY <1>2, <1>3, <1>5, <2>1, SoundBefore DEF within
  <2>3. hosts(api[w].spec) \cap hosts(api[cur].spec) = {}
    BY <1>2, <1>3, <1>5, <2>1 DEF Before, PlacementInv, ClearChoice
  <2> QED BY <2>2, <2>3
<1>6. ASSUME NEW r \in Resources, r \in clear'
      PROVE  fits(usage(api', sound(n, r)' \ {cur}, r) + request(api'[cur].spec, r),
                  Allocatable[n][r])
  <2> DEFINE S == sound(n, r)' \ {cur}
             T == sound(n, r) \ {cur}
             q == request(api[cur].spec, r)
             p == request(api'[cur].spec, r)
             a == Allocatable[n][r]
  <2>1. r \in Claims /\ r # "hostPorts" /\ r \in clear
    BY <1>3, <1>6 DEF Claims, Resources
  <2>2. S \subseteq sound(n, r)' /\ T \subseteq sound(n, r) /\ S \subseteq T
    BY <1>4, <2>1
  <2>3. p =< q
    BY <1>3, <1>6, <2>1 DEF within
  <2>4. q \in Nat /\ p \in Nat /\ a \in Nat
    <3>1. q \in Nat /\ a \in Nat
      BY <1>1, <1>2, StoredRequest, SchedulerAssumption DEF Before
    <3>2. api'[cur].spec \in SmolVMSpec
      BY <1>1, TypeOKStep DEF Before, IInv, PlacementNext, TypeOK, ApiTypeOK, SmolVM
    <3> QED BY <3>1, <3>2, RequestNat
  <2>5. fits(usage(api, T, r) + q, a)
    BY <1>2, <2>1 DEF Before, PlacementInv, ClearChoice
  <2> HIDE DEF S, T, q, p, a
  <2>6. /\ usage(api', S, r) \in Nat /\ usage(api, T, r) \in Nat
        /\ usage(api', S, r) =< usage(api, T, r)
    BY <1>2, <2>2, SoundShrinks
  <2>7. fits(usage(api', S, r) + p, a)
    BY <2>3, <2>4, <2>5, <2>6 DEF fits
  <2> QED BY <2>7 DEF S, p, a
<1>7. \A c : sound(input.nodeName, c)' = sound(n, c)'
  BY <1>1, <1>2 DEF sound, liveBound
<1> QED BY <1>1, <1>2, <1>5, <1>6, <1>7 DEF ClearChoice

(* The choice in hand, step by step.                                       *)
LEMMA ClearChoiceStep ==
  ASSUME Before, PlacementNext
  PROVE  ClearChoice'
<1> SUFFICES ASSUME pc' = "status", input'.nodeName \in Nodes
             PROVE  ClearChoice'
  BY DEF ClearChoice
<1>1. CASE pc = "schedule"
  BY <1>1, ScheduleTaken, ClearBySchedule DEF PlacementNext
<1>2. CASE pc = "status"
  BY <1>2, ClearWhileInHand
<1>3. CASE pc \notin {"schedule", "status"}
  <2>1. clear' = {}
    BY <1>3 DEF PlacementNext, Track, stillClear
  <2> QED BY <2>1 DEF ClearChoice
<1> QED BY <1>1, <1>2, <1>3

-----------------------------------------------------------------------------
(* The histories only watch: every behaviour is one of the controller.     *)
LEMMA PlacementRefines == PlacementSpec => Spec
<1>1. PlacementInit => Init
  BY DEF PlacementInit
<1>2. [PlacementNext]_placementVars => [Next]_vars
  BY DEF PlacementNext, placementVars
<1> QED BY <1>1, <1>2, PTL DEF PlacementSpec, Spec

(* The inductive invariant of placement.                                   *)
LEMMA PlacementInvariant == PlacementSpec => []PlacementInv
<1>1. ASSUME PlacementInit PROVE PlacementInv
  <2>1. \A n \in Nodes : \A c : sound(n, c) = {}
    BY <1>1 DEF PlacementInit, sound
  <2>2. \A r \in Resources : usage(api, {}, r) = 0
    BY SumEmpty DEF usage, total
  <2>3. ASSUME NEW n \in Nodes, NEW r \in Resources PROVE fits(0, Allocatable[n][r])
    BY SchedulerAssumption DEF fits
  <2>4. VettedFits /\ VettedPortsExclusive
    BY <2>1, <2>2, <2>3 DEF VettedFits, VettedPortsExclusive
  <2>5. ClearChoice /\ PlacementTypeOK
    BY <1>1 DEF PlacementInit, Init, ClearChoice, PlacementTypeOK
  <2> QED BY <2>4, <2>5 DEF PlacementInv
<1>2. ASSUME IInv, WakeInv, PlacementInv, [PlacementNext]_placementVars
      PROVE  PlacementInv'
  <2>1. CASE PlacementNext
    <3>1. Before
      BY <1>2 DEF Before, WakeInv
    <3> QED BY <2>1, <3>1, PlacementTypeStep, ClearChoiceStep, VettedPortsStep,
            VettedFitsStep DEF PlacementInv
  <2>2. CASE UNCHANGED placementVars
    <3>1. UNCHANGED <<api, pc, cur, input, clear, vetted>>
      BY <2>2 DEF placementVars, vars
    <3>2. \A n, c : sound(n, c)' = sound(n, c)
      BY <3>1 DEF sound, liveBound
    <3>3. PlacementTypeOK' /\ VettedPortsExclusive' /\ VettedFits'
      BY <1>2, <3>1, <3>2 DEF PlacementInv, PlacementTypeOK, VettedPortsExclusive, VettedFits
    <3>4. ClearChoice'
      BY <1>2, <3>1, <3>2 DEF PlacementInv, ClearChoice
    <3> QED BY <3>3, <3>4 DEF PlacementInv
  <2> QED BY <1>2, <2>1, <2>2
<1> QED BY <1>1, <1>2, PlacementRefines, WakeInvariant, PTL DEF PlacementSpec

(* With a cache that lags, cpu sums that wrap and updates at any moment,   *)
(* two objects of a node share a host port only if one of them was bound   *)
(* on a list that was not true, or took the port by a later update.        *)
THEOREM VettedPortsKept == PlacementSpec => []VettedPortsExclusive
<1>1. PlacementInv => VettedPortsExclusive
  BY DEF PlacementInv
<1> QED BY <1>1, PlacementInvariant, PTL

(* Over any number of objects and nodes, the requests that schedule()      *)
(* compared with the truth fit their node for ever, in true sums, beside   *)
(* whatever was bound on a stale list or by a wrapped sum.                 *)
THEOREM VettedFitsKept == PlacementSpec => []VettedFits
<1>1. PlacementInv => VettedFits
  BY DEF PlacementInv
<1> QED BY <1>1, PlacementInvariant, PTL
=============================================================================
