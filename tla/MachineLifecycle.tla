--------------------------- MODULE MachineLifecycle ---------------------------
(***************************************************************************)
(* What the operator promises about the machines of its objects, without   *)
(* caches, versions, retries or agents: an object is declared, held (by    *)
(* its finalizer) and gone; while it is held it gets one home, for good,   *)
(* and machines only there; it goes only when no machine of it is left.    *)
(*                                                                         *)
(* "excused" objects are released from the promise: their user forced the  *)
(* deletion, or one of the two known disagreements of the code with its    *)
(* documentation (an overwritten binding, a create executed late) met      *)
(* them.                                                                   *)
(***************************************************************************)
CONSTANTS VMs, Nodes, NoNode

VARIABLES
  stage,     \* per object: none, declared, held or gone
  home,      \* the node the object is bound to
  sites,     \* the nodes that have a machine of it
  excused    \* the objects the promise no longer covers

vars == <<stage, home, sites, excused>>

Init ==
  /\ stage = [v \in VMs |-> "none"]
  /\ home = [v \in VMs |-> NoNode]
  /\ sites = [v \in VMs |-> {}]
  /\ excused = {}

Advance(v, from, to) == stage[v] = from /\ stage' = [stage EXCEPT ![v] = to]

Declare(v) == Advance(v, "none", "declared") /\ UNCHANGED <<home, sites, excused>>

Hold(v) == Advance(v, "declared", "held") /\ UNCHANGED <<home, sites, excused>>

(* The user deletes the object before the operator holds it.               *)
Withdraw(v) == Advance(v, "declared", "gone") /\ UNCHANGED <<home, sites, excused>>

Bind(v, n) ==
  /\ stage[v] = "held" /\ home[v] = NoNode
  /\ home' = [home EXCEPT ![v] = n]
  /\ UNCHANGED <<stage, sites, excused>>

Boot(v) ==
  /\ stage[v] = "held" /\ home[v] # NoNode
  /\ sites' = [sites EXCEPT ![v] = @ \cup {home[v]}]
  /\ UNCHANGED <<stage, home, excused>>

(* A machine is deleted or lost.                                           *)
Vanish(v, n) ==
  /\ n \in sites[v]
  /\ sites' = [sites EXCEPT ![v] = @ \ {n}]
  /\ UNCHANGED <<stage, home, excused>>

Release(v) ==
  /\ sites[v] = {}
  /\ Advance(v, "held", "gone")
  /\ UNCHANGED <<home, sites, excused>>

(* Whatever happens to an excused object, it is only that object.          *)
Excused(v) ==
  /\ v \in excused'
  /\ excused' \in {excused, excused \cup {v}}
  /\ \A w \in VMs \ {v} :
       stage'[w] = stage[w] /\ home'[w] = home[w] /\ sites'[w] = sites[w]

Next ==
  \E v \in VMs :
    \/ Declare(v) \/ Hold(v) \/ Withdraw(v) \/ Boot(v) \/ Release(v) \/ Excused(v)
    \/ \E n \in Nodes : Bind(v, n) \/ Vanish(v, n)

Spec == Init /\ [][Next]_vars
=============================================================================
