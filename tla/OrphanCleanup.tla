---------------------------- MODULE OrphanCleanup ----------------------------
(***************************************************************************)
(* The orphan cleanup of the runtime agents (-orphan-cleanup-policy=       *)
(* delete), beside the controller.                                         *)
(*                                                                         *)
(* A pass lists the machines of its node, then the SmolVMs, straight from  *)
(* the API server, and then deletes one by one the machines that no SmolVM *)
(* owned.  Every step of the controller, of users and of nodes may come in *)
(* between.  The goroutine ends with its agent.  Machines whose name does  *)
(* not begin with k8s- are skipped by the code and are not in the model.   *)
(***************************************************************************)
EXTENDS SmolVMController

VARIABLE cleaner   \* per node: the next step of the pass and what it read

cleanupVars == <<vars, cleaner>>

CleanerStates ==
  [pc : {"idle", "listVMs", "delete"}, machines : SUBSET VMs]

(* What the pass carries: the machines it listed, then the ones to delete. *)
IdleCleaner == [pc |-> "idle", machines |-> {}]

CleanupInit == Init /\ cleaner = [n \in Nodes |-> IdleCleaner]

(* A pass ends when it has nothing left to delete.                         *)
Proceed(n, todo) ==
  cleaner' = [cleaner EXCEPT ![n] =
    IF todo = {} THEN IdleCleaner ELSE [pc |-> "delete", machines |-> todo]]

ListMachines(n) ==
  /\ cleaner[n].pc = "idle" /\ agent[n] # "down"
  /\ cleaner' = [cleaner EXCEPT ![n] =
       [pc |-> "listVMs", machines |-> {v \in VMs : present(n, v)}]]
  /\ UNCHANGED vars

(* Mutant: an object owns its machine until its status says so (the status *)
(* of an object that is starting is not written yet).                      *)
OwnedWhenReady(n) ==
  {v \in VMs : /\ api[v].exists /\ ~api[v].deleting /\ api[v].status.ready
               /\ api[v].status.nodeName = n}

owned(n) ==
  {v \in VMs : api[v].exists /\ ~api[v].deleting /\ api[v].status.nodeName = n}

(* Mutant: the objects are listed before the machines.                     *)
ListVMsFirst(n) ==
  /\ cleaner[n].pc = "listVMs"
  /\ \E before \in {owned(n), {}} :
       Proceed(n, {v \in VMs : present(n, v)} \ before)
  /\ UNCHANGED vars

(* Mutant: an empty list is taken for a failed one.                        *)
ListVMsUnlessEmpty(n) ==
  /\ cleaner[n].pc = "listVMs"
  /\ Proceed(n, IF \E v \in VMs : api[v].exists
                  THEN cleaner[n].machines \ owned(n) ELSE {})
  /\ UNCHANGED vars

ListVMs(n) ==
  /\ cleaner[n].pc = "listVMs"
  /\ \/ Proceed(n, cleaner[n].machines \ owned(n)) /\ UNCHANGED vars
     \/ /\ Fault
        /\ cleaner' = [cleaner EXCEPT ![n] = IdleCleaner]
        /\ UNCHANGED <<apiVars, queue, timer, workerVars, machines, limbo,
                       nodeVars, edits, waiver>>

(* A failure is dropped: the next pass finds the machine again.            *)
DeleteOrphan(n, v) ==
  /\ cleaner[n].pc = "delete" /\ v \in cleaner[n].machines
  /\ Proceed(n, cleaner[n].machines \ {v})
  /\ \/ Execute("delete", n, v, NoSpec) /\ UNCHANGED faults
     \/ Refused(n) /\ UNCHANGED machines
  /\ UNCHANGED <<apiVars, queue, timer, workerVars, limbo, nodeVars, edits, waiver>>

CleanupStep(n) ==
  ListMachines(n) \/ ListVMs(n) \/ \E v \in VMs : DeleteOrphan(n, v)

(* Any other step; an agent that goes down takes its pass with it.         *)
OtherStep ==
  /\ Next
  /\ cleaner' = [n \in Nodes |-> IF agent'[n] = "down" THEN IdleCleaner ELSE cleaner[n]]

CleanupNext == OtherStep \/ \E n \in Nodes : CleanupStep(n)

CleanupSpec == CleanupInit /\ [][CleanupNext]_cleanupVars

(* The loop goroutine runs as long as its agent does; under another policy *)
(* than delete it does nothing.                                            *)
CleanupRuns == \A n \in Nodes : WF_cleanupVars(CleanupStep(n))

-----------------------------------------------------------------------------
(* Every pass carries SmolVMs' machines, and the controller keeps its      *)
(* types beside it.                                                        *)
CleanupTypeOK == TypeOK /\ cleaner \in [Nodes -> CleanerStates]

(* Cleanup never deletes the machine of an object that is bound to the     *)
(* node and not deleted, although it decides from two reads made one after *)
(* the other and deletes later; unless a stale pass of the controller      *)
(* overwrote the binding.                                                  *)
SparesBound ==
  [][\A n \in Nodes, v \in VMs :
       v \in cleaner[n].machines \ cleaner'[n].machines /\ present(n, v) /\ ~present(n, v)'
         => ~liveBound(v, n) \/ "moved" \in waiver[v]]_cleanupVars

(* What a pass has read stays true until it acts: the machines it listed   *)
(* belong to objects bound to its node, and the ones it will delete to     *)
(* objects under deletion or gone, which never come back.                  *)
PassStaysTrue ==
  \A n \in Nodes : \A v \in cleaner[n].machines :
    \/ "moved" \in waiver[v]
    \/ /\ api[v].status.nodeName = n
       /\ cleaner[n].pc = "delete" => api[v].deleting

(* An object that is gone was deleted first.                               *)
GoneIsDeleted == \A v \in VMs : removed(v) => api[v].deleting

(* A pass ends with its agent.                                             *)
PassEndsWithAgent == \A n \in Nodes : agent[n] = "down" => cleaner[n] = IdleCleaner

(* The inductive invariant of the composition.                             *)
CleanupInv ==
  IInv /\ CleanupTypeOK /\ GoneIsDeleted /\ PassEndsWithAgent /\ PassStaysTrue

(* No orphan stays for ever where cleanup runs: a machine left behind by a *)
(* forced deletion, a late create or an overwritten binding is deleted in  *)
(* the end, or owned again.                                                *)
OrphansGo ==
  CleanupRuns =>
    \A n \in Nodes, v \in VMs :
      present(n, v) /\ ~liveBound(v, n) ~> ~present(n, v) \/ liveBound(v, n)
=============================================================================
