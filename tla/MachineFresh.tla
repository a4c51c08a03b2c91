---------------------------- MODULE MachineFresh ----------------------------
(* What the worker may rely on while the informer cache follows every      *)
(* write (FreshInv), and while no create task is lost sight of and no      *)
(* error is misread either (OneVMInv): the inductive invariants behind the *)
(* properties that MachineController states under these conditions.        *)
EXTENDS MachineRefinement

\* The labels of a reconcile that provisions, before anything is set in m.
ProvisionLabels == {"exists", "setProvisioning", "create", "update"} \cup CreateLabels

-----------------------------------------------------------------------------
(* A fresh cache.                                                          *)

\* What holds of the objects themselves.
SharedFresh ==
    /\ cache = machine
    /\ VmUUIDNamed
    /\ NodeNamed
    /\ node.providerID # None => Born(node.providerID)

\* Nobody else writes what the worker decides on, so its copies stay true.
CopiesFresh ==
    /\ pc # "idle" => m.phase = machine.phase
    /\ pc \notin Touched \cup {"idle"} =>
          m.vmUUID = machine.vmUUID /\ m.providerID = machine.providerID
    /\ pc \in ScopeLabels => base.vmUUID = machine.vmUUID
    /\ pc \in ScopeLabels \ {"patchStatus"} => base.providerID = machine.providerID
    /\ pc = "patchStatus" => m.providerID = machine.providerID

\* Create runs only for a Machine without VmUUID, and whoever has a VmUUID in
\* hand has its ProviderID next to it.
RecordFresh ==
    /\ pc \in ProvisionLabels /\ m.vmUUID # None => m.providerID = m.vmUUID
    /\ pc = "create" \/ op = "create" => machine.vmUUID = None
    /\ pc = "vmState" => m.vmUUID = (IF op = "update" THEN vm ELSE None)
    /\ pc = "vmState" /\ machine.vmUUID # None => vm = machine.vmUUID
    /\ pc \in PatchLabels /\ machine.vmUUID # None => m.vmUUID = machine.vmUUID
    /\ pc \in PatchLabels /\ op # "delete" /\ m.vmUUID # None => m.providerID = m.vmUUID

\* Until its deletion is requested, and to the end of a reconcile that began
\* before, a Machine that has a Node or addresses has a ProviderID, and only
\* one with a Node has had that Node's providerID written.  So Create runs
\* for no Machine whose Node names a VM, whatever its lookups say.
ProvisionedFresh ==
    /\ pc \in ProvisionLabels \/ ~machine.deleting =>
          (machine.nodeRef \/ machine.addresses => machine.providerID # None)
    /\ node.providerID # None \/ m.nodeRef => machine.nodeRef
    /\ pc \in ProvisionLabels \/ (pc \in PatchLabels /\ op # "delete") =>
          (m.addresses => m.providerID # None)
    /\ pc \in CreateLabels \cup {"create"} => m.providerID = None
    /\ pc = "patchSpec" /\ op # "delete" /\ machine.providerID # None => m.providerID # None

\* The Node names u, or a VM that is gone, or none.
NodeNames(u) == node.providerID \notin {None, u} => vmState[node.providerID] = "gone"

NodeFresh ==
    /\ pc \in {"submit", "createWait"} => NodeNames(None)
    /\ pc \in {"powerOn", "powerWait", "vmState"} => NodeNames(vm)
    /\ pc \in PatchLabels /\ m.vmUUID # None => NodeNames(m.vmUUID)

\* A failed Machine is not provisioned or updated.
PhaseFresh ==
    pc \in ProvisionLabels \cup {"setPhase"} \/ op \in {"create", "update"}
        => m.phase # "Failed"

\* Inductive with IndInv and RefInv, for any failures.
FreshInv ==
    SharedFresh /\ CopiesFresh /\ RecordFresh /\ ProvisionedFresh /\ NodeFresh /\ PhaseFresh

-----------------------------------------------------------------------------
(* No create task is lost sight of: no answer is lost or misread and the   *)
(* process does not crash.                                                 *)

\* Nobody but createVM makes VMs, and it waits for the one it asked for.
LoneInv ==
    /\ AtMostOneVM
    /\ pc # "createWait" => Creating = {}
    /\ pc = "createWait" => Alive \cup Creating \subseteq {vm}
    /\ pc = "submit" => Alive = {}

\* With a fresh cache too: the VM in hand, once recorded the VM on record, is
\* the only one, and none is left when the Machine goes.
SoleInv ==
    /\ machine.vmUUID # None => Alive \subseteq {machine.vmUUID}
    /\ pc \in {"powerOn", "powerWait", "vmState"} => Alive \subseteq {vm}
    /\ pc \in PatchLabels /\ m.vmUUID # None => Alive \subseteq {m.vmUUID}
    /\ pc \in {"deleteNode", "removeFinalizer"} => Alive = {}
    /\ ~machine.exists => Alive = {} /\ pc \in {"idle", "addFinalizer", "setDeleting"}

\* Inductive with FreshInv, IndInv and RefInv.
OneVMInv == LoneInv /\ SoleInv
=============================================================================
