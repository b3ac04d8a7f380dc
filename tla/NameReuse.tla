------------------------------ MODULE NameReuse ------------------------------
(***************************************************************************)
(* A SmolVM is deleted and another created under its name.  The controller *)
(* knows objects by name: updateStatus finds whatever object the cache now *)
(* holds under the name of the one its pass began with.                    *)
(*                                                                         *)
(* Second is created once First is gone; both are one key of the informer, *)
(* so the events of First come first.  status.machineName, which a pass    *)
(* takes from its object or makes from the UID, is a variable of its own.  *)
(***************************************************************************)
EXTENDS SmolVMController

CONSTANTS First, Second

VARIABLE machineName   \* status.machineName of each object, or NoVM

reuseVars == <<vars, machineName>>

ReuseInit == Init /\ machineName = [v \in VMs |-> NoVM]

(* A pass writes the name that its object has, or its stable name.         *)
recorded(v) == IF machineName[v] = NoVM THEN v ELSE machineName[v]

(* updateStatus would find the other object under the name.                *)
findsSecond ==
  pc = "status" /\ cur = First /\ ~cache[First].exists /\ cache[Second].exists

InOrder ==
  /\ api'[Second].exists => ~api'[First].exists
  /\ cache'[Second] # cache[Second] => watch[First] = <<>>

(* Any other step; a restart is the only one that ends a pass here.        *)
OwnStep ==
  /\ Next /\ InOrder
  /\ findsSecond => pc' = pc \/ faults' # faults
  /\ machineName' = [v \in VMs |->
       IF api'[v].status = api[v].status THEN machineName[v] ELSE recorded(v)]

(* updateStatus of a pass over First, on Second.                           *)
UpdateSecondsStatus ==
  LET new == statusFrom(cache[Second], input)
      result == IF input.reconciled \in Requeued THEN "requeue" ELSE "done"
      same == new = cache[Second].status /\ recorded(First) = machineName[Second]
  IN /\ findsSecond /\ ReadCache
     /\ \/ /\ ~same /\ watch[Second] = <<>>
           /\ Publish(Second, [cache[Second] EXCEPT !.status = new])
           /\ Written(result)
           /\ machineName' = [machineName EXCEPT ![Second] = recorded(First)]
        \/ /\ same /\ Return(result) /\ UNCHANGED <<apiVars, machineName, faults>>
        \/ /\ ~same
           /\ \/ watch[Second] # <<>> /\ UNCHANGED faults
              \/ Fault
           /\ Return("error") /\ UNCHANGED <<apiVars, machineName>>
     /\ UNCHANGED <<machines, limbo, nodeVars, edits, waiver>>

ReuseNext == OwnStep \/ UpdateSecondsStatus

ReuseSpec == ReuseInit /\ [][ReuseNext]_reuseVars

(* "MachineName is the stable smolvm runtime name owned by this CR": no    *)
(* object's status names the machine of another.                           *)
MachineNameOwned == \A v \in VMs : machineName[v] \in {NoVM, v}
=============================================================================
