--------------------------- MODULE SmolVMPlacement ---------------------------
(***************************************************************************)
(* What the scheduler's checks are worth.  schedule() compares an object   *)
(* with the ones its list shows, adds cpus up in an int32, and nothing is  *)
(* checked again: not when updateStatus writes the choice (the list may    *)
(* have missed a binding, the object may have been updated meanwhile), and *)
(* not when an update makes a bound object claim more.                     *)
(*                                                                         *)
(* Two history variables record, claim by claim, which bindings rest on a  *)
(* check of the truth.  They watch SmolVMController and change nothing in  *)
(* it: stale lists, wrapped sums and updates all happen.                   *)
(***************************************************************************)
EXTENDS SmolVMController

ASSUME PlacementAssumption == IsFiniteSet(VMs)

(* What an object claims of its node.                                      *)
Claims == Resources \cup {"hostPorts"}

VARIABLES
  clear,   \* the claims of the object in hand that were truly checked
  vetted   \* per object: the claims truly checked for its present binding

placementVars == <<vars, clear, vetted>>

(* The spec s claims no more than t.                                       *)
within(s, t, c) ==
  IF c = "hostPorts" THEN hosts(s) \subseteq hosts(t)
  ELSE request(s, c) =< request(t, c)

(* The sum schedule() compares is the true one, not an int32 that wrapped. *)
addsUp(n, c) ==
  LET sum == usage(cache, onNode(cache, cur, n), c) + request(obj.spec, c)
  IN truncated(sum, c) = sum

(* What schedule() compares for node n and claim c is no less than what    *)
(* the API server holds: of the object in hand, of every other object      *)
(* bound to n, and of their sum.                                           *)
listTrue(n, c) ==
  /\ within(api[cur].spec, obj.spec, c)
  /\ \A w \in VMs \ {cur} :
       liveBound(w, n) => /\ w \in onNode(cache, cur, n)
                          /\ within(api[w].spec, cache[w].spec, c)
  /\ c \in Resources => addsUp(n, c)

(* The claims that are clear after a step: judged by schedule() on a true  *)
(* list, or clear before and not grown by an update since.                 *)
stillClear ==
  {c \in Claims :
     /\ pc' = "status"
     /\ \/ pc = "schedule" /\ listTrue(input'.nodeName, c)
        \/ pc = "status" /\ c \in clear /\ within(api'[cur].spec, api[cur].spec, c)}

(* A new binding is as good as the choice it records; an update that       *)
(* claims more is checked by nobody.                                       *)
stillVetted(v) ==
  {c \in IF api'[v].status.nodeName = api[v].status.nodeName
           THEN vetted[v] ELSE clear :
     within(api'[v].spec, api[v].spec, c)}

PlacementInit == Init /\ clear = {} /\ vetted = [v \in VMs |-> {}]

Track == clear' = stillClear /\ vetted' = [v \in VMs |-> stillVetted(v)]

PlacementNext == Next /\ Track

PlacementSpec == PlacementInit /\ [][PlacementNext]_placementVars

-----------------------------------------------------------------------------
(* The objects of node n whose claim c was truly checked.                  *)
sound(n, c) == {v \in VMs : liveBound(v, n) /\ c \in vetted[v]}

(* Two SmolVMs on one node share a host port only if one of them was bound *)
(* on a list that missed or misjudged another object, or took the port by  *)
(* a later update: otherwise the comparison of schedule() still holds when *)
(* updateStatus has written the binding, and for ever after, whatever      *)
(* other bindings, stale passes, moves, updates and restarts come between. *)
VettedPortsExclusive ==
  \A n \in Nodes : \A v, w \in sound(n, "hostPorts") :
    v # w => hosts(api[v].spec) \cap hosts(api[w].spec) = {}

(* The requests truly checked never exceed what the node has, in true      *)
(* sums: objects placed on a stale list, by a wrapped sum or grown by an   *)
(* update are the only excess, and do not wear down the room of the others.*)
VettedFits ==
  \A n \in Nodes, r \in Resources : fits(usage(api, sound(n, r), r), Allocatable[n][r])

(* The choice in hand is still free and fits when it is written.           *)
ClearChoice ==
  pc = "status" /\ input.nodeName \in Nodes =>
    LET n == input.nodeName
    IN /\ "hostPorts" \in clear =>
            \A w \in sound(n, "hostPorts") \ {cur} :
              hosts(api[w].spec) \cap hosts(api[cur].spec) = {}
       /\ \A r \in Resources \cap clear :
            fits(usage(api, sound(n, r) \ {cur}, r) + request(api[cur].spec, r),
                 Allocatable[n][r])

PlacementTypeOK ==
  /\ clear \in SUBSET Claims /\ vetted \in [VMs -> SUBSET Claims]
  /\ pc # "status" => clear = {}

(* The inductive invariant.                                                *)
PlacementInv == PlacementTypeOK /\ ClearChoice /\ VettedPortsExclusive /\ VettedFits
=============================================================================
