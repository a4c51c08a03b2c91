-------------------------- MODULE MachineActuator --------------------------
(***************************************************************************)
(* The Nutanix machine actuator: Actuator.Create, Update and Delete, the   *)
(* Reconciler methods they call, createVM and deleteVM, and patchMachine.  *)
(* Every call that leaves the process (to Prism Central or to the          *)
(* Kubernetes API) is a step of its own, so that the rest of the system    *)
(* moves between any two of them.                                          *)
(*                                                                         *)
(* The worker's local state is the Machine it works on (m), the copy it    *)
(* took to compute patches from (base), the VM it handles (vm), the        *)
(* operation (op) and the error the operation is about to return (err).    *)
(***************************************************************************)
EXTENDS MachineObject

VARIABLES pc, m, base, vm, op, err

locals == <<pc, m, base, vm, op, err>>

ActuatorLabels ==
    { "create", "createVM", "submit", "createWait", "powerOn", "powerWait",
      "update", "vmState",
      "delete", "volumes", "deleteVM", "deleteWait",
      "patchSpec", "patchStatus" }

ControllerLabels ==
    { "idle", "addFinalizer", "exists", "setFailed", "setProvisioning",
      "setPhase", "setDeleting", "deleteExists", "deleteNode", "removeFinalizer" }

\* The labels at which the worker handles a VM.
VMLabels ==
    {"createWait", "powerOn", "powerWait", "vmState", "volumes", "deleteVM", "deleteWait"}

Blank == [NewMachine(FALSE) EXCEPT !.exists = FALSE]

LocalTypeOK ==
    /\ pc \in ActuatorLabels \cup ControllerLabels
    /\ m \in Machine
    /\ base \in Machine
    /\ vm \in Uuids \cup {None}
    /\ op \in {"none", "create", "update", "delete"}
    /\ err \in {"none", "error", "invalid"}
    /\ pc \in VMLabels => vm \in Uuids

LocalInit ==
    pc = "idle" /\ m = Blank /\ base = Blank /\ vm = None /\ op = "none" /\ err = "none"

\* The reconcile ends, whether in success, with a requeue or with an error:
\* the work queue brings the Machine back in every case.
Return ==
    /\ pc' = "idle" /\ m' = Blank /\ base' = Blank
    /\ vm' = None /\ op' = "none" /\ err' = "none"

\* Back in the controller with the Machine as rec.
ReturnTo(label, rec) ==
    /\ pc' = label /\ m' = rec /\ base' = Blank
    /\ vm' = None /\ op' = "none" /\ err' = "none"

Goto(label) == pc' = label /\ UNCHANGED <<m, base, vm, op, err>>

\* newMachineScope keeps a copy of the Machine as the base of later patches.
Begin(operation) == base' = m /\ op' = operation

\* The operation is over: rec is the Machine to be patched.
Finish(rec, u, result) ==
    /\ pc' = "patchSpec" /\ m' = rec /\ vm' = u /\ err' = result

\* The failure branch of Actuator.Create, Update and Delete.
ReadyOnFailure(operation) == IF operation = "create" THEN "False" ELSE "Unknown"

Fail(operation) ==
    Finish([m EXCEPT !.ready = ReadyOnFailure(operation)], None, "error")

kubeVars == <<machine, node, config>>

\* NutanixMachineProviderSpecFromRawExtension in newMachineScope succeeds.
Decodes == config # "undecodable"

-----------------------------------------------------------------------------
(* Actuator.Create                                                         *)

\* newMachineScope, getUserData and validateVMConfig.  Every error that
\* validateVMConfig collects, a failed lookup included, makes the
\* configuration invalid.  A providerSpec that does not decode has failed
\* the Exists before Create or Update already.
Create ==
    /\ pc = "create"
    /\ UNCHANGED <<kubeVars, pcVars>>
    /\ \/ Fault("kube") /\ Return
       \/ Fault("kube") /\ Begin("create") /\ Fail("create")
       \/ /\ (NoFault /\ config = "invalid") \/ Fault("api")
          /\ Begin("create")
          /\ Finish([m EXCEPT !.ready = "False"], None, "invalid")
       \/ /\ NoFault /\ config = "valid"
          /\ Begin("create")
          /\ pc' = "createVM"
          /\ UNCHANGED <<m, vm, err>>

\* createVM looks for a VM of an earlier attempt: by VmUUID, then by name.  A
\* lookup by name that is misread makes it request another VM (one by VmUUID
\* alone does not: the lookup by name follows).
CreateFinds(u) ==
    IF m.vmUUID \in Alive THEN u = m.vmUUID ELSE Alive = {u}

createVM ==
    /\ pc = "createVM"
    /\ UNCHANGED <<kubeVars, pcVars, base, op>>
    /\ \/ /\ NoFault
          /\ \E u \in Uuids : CreateFinds(u) /\ vm' = u
          /\ pc' = "vmState"
          /\ UNCHANGED <<m, err>>
       \/ /\ (NoFault /\ Alive = {}) \/ (Fault("textNotFound") /\ Alive # {})
          /\ pc' = "submit"
          /\ UNCHANGED <<m, vm, err>>
       \/ /\ (NoFault /\ Alive # {} /\ (\A u \in Uuids : ~CreateFinds(u))) \/ Fault("api")
          /\ Fail("create")

\* buildV4VMFromScope and the create request.
SubmitVM ==
    /\ pc = "submit"
    /\ UNCHANGED <<kubeVars, base, op>>
    /\ \/ /\ NoFault
          /\ \E u \in Uuids : SubmitCreate(u) /\ vm' = u
          /\ pc' = "createWait"
          /\ UNCHANGED <<m, err>>
       \/ /\ Fault("api")
          /\ UNCHANGED pcVars
          /\ Fail("create")
       \/ /\ Fault("lost")
          /\ \E u \in Uuids : SubmitCreate(u)
          /\ Fail("create")

\* Mutant: the wait is given up at once.
GiveUpCreate ==
    /\ pc = "createWait"
    /\ UNCHANGED <<kubeVars, pcVars, base, op>>
    /\ \/ NoFault /\ vm \in Alive /\ pc' = "powerOn" /\ UNCHANGED <<m, vm, err>>
       \/ NoFault /\ Fail("create")

\* Operation.Wait of VMs.Create and its Get of the created VM, either of which
\* may fail.
WaitCreated ==
    /\ pc = "createWait"
    /\ UNCHANGED <<kubeVars, pcVars, base, op>>
    /\ \/ NoFault /\ vm \in Alive /\ pc' = "powerOn" /\ UNCHANGED <<m, vm, err>>
       \/ NoFault /\ vmState[vm] = "gone" /\ Fail("create")
       \/ Fault("api") /\ vm \in Alive /\ Fail("create")
       \/ Fault("lost") /\ Fail("create")

PowerOnVM ==
    /\ pc = "powerOn"
    /\ UNCHANGED <<kubeVars, base, op>>
    /\ \/ /\ NoFault
          /\ vm \in Alive
          /\ Submit("powerOn", vm)
          /\ pc' = "powerWait"
          /\ UNCHANGED <<m, vm, err>>
       \/ /\ (NoFault /\ vm \notin Alive) \/ Fault("api")
          /\ UNCHANGED pcVars
          /\ Fail("create")
       \/ /\ Fault("lost")
          /\ vm \in Alive
          /\ Submit("powerOn", vm)
          /\ Fail("create")

\* powerOnOp.Wait and the findVMByUUID that follows it.
WaitPoweredOn ==
    /\ pc = "powerWait"
    /\ UNCHANGED <<kubeVars, pcVars, base, op>>
    /\ \/ NoFault /\ vmState[vm] = "on" /\ pc' = "vmState" /\ UNCHANGED <<m, vm, err>>
       \/ /\ NoFault
          /\ <<"powerOn", vm>> \notin tasks
          /\ vmState[vm] # "on"
          /\ Fail("create")
       \/ Fault("api") /\ vmState[vm] = "on" /\ Fail("create")
       \/ Fault("lost") /\ Fail("create")

-----------------------------------------------------------------------------
(* Actuator.Update                                                         *)

\* newMachineScope and the lookup of Reconciler.update.
Update ==
    /\ pc = "update"
    /\ UNCHANGED <<kubeVars, pcVars>>
    /\ \/ Fault("kube") /\ Return
       \/ /\ NoFault
          /\ Begin("update")
          /\ \E u \in Uuids :
                /\ Finds(m, u)
                /\ vm' = u
                /\ m' = [m EXCEPT !.vmUUID = u]
          /\ pc' = "vmState"
          /\ UNCHANGED err
       \/ /\ (NoFault /\ (FindsNone(m) \/ FindFails(m))) \/ Fault("api")
          /\ Begin("update")
          /\ Fail("update")

\* setProviderID writes the Node too, once the Machine is linked to it.
SetNodeProviderID(u) ==
    node' = IF m.nodeRef THEN [node EXCEPT !.providerID = u] ELSE node

\* The Machine on the way out of updateMachineWithVMState with an error:
\* create drops the VM, update records it all the same.
StateFailed(shown) ==
    LET withID == [m EXCEPT !.providerID = vm, !.ready = ReadyOnFailure(op)]
    IN  IF op = "create" THEN withID ELSE setProviderStatus(withID, vm, shown)

\* updateMachineWithVMState (setProviderID, then the Prism Central cluster
\* lookup) and the provider status that create and update set after it; shown
\* says whether the VM shows an address (buildNodeAddresses).
updateMachineWithVMState ==
    /\ pc = "vmState"
    /\ UNCHANGED <<machine, config, pcVars, base, op>>
    /\ \E shown \in BOOLEAN :
       \/ /\ NoFault
          /\ m.nodeRef => node.exists
          /\ SetNodeProviderID(vm)
          /\ Finish(setProviderStatus([m EXCEPT !.providerID = vm, !.ready = "True"], vm, shown),
                    vm, "none")
       \/ /\ m.nodeRef
          /\ (NoFault /\ ~node.exists) \/ Fault("kube")
          /\ UNCHANGED node
          /\ Finish(StateFailed(shown), vm, "error")
       \/ /\ Fault("api")
          /\ m.nodeRef => node.exists
          /\ SetNodeProviderID(vm)
          /\ Finish(StateFailed(shown), vm, "error")

-----------------------------------------------------------------------------
(* Actuator.Delete                                                         *)

\* Mutant: a VM that is not found is an error.
DeleteNotFoundFails ==
    /\ pc = "delete"
    /\ UNCHANGED <<kubeVars, pcVars>>
    /\ Begin("delete")
    /\ \/ /\ NoFault
          /\ \E u \in Uuids : Finds(m, u) /\ vm' = u
          /\ pc' = "volumes"
          /\ UNCHANGED <<m, err>>
       \/ /\ NoFault /\ (FindsNone(m) \/ FindFails(m))
          /\ Fail("delete")

\* newMachineScope and the lookup of Reconciler.delete.  The controller goes
\* on after an invalid configuration if the Machine has no addresses.
Delete ==
    /\ pc = "delete"
    /\ UNCHANGED <<kubeVars, pcVars>>
    /\ \/ Fault("kube") /\ Return
       \/ /\ NoFault /\ ~Decodes
          /\ IF m.addresses THEN Return ELSE Goto("deleteExists")
       \/ /\ NoFault /\ Decodes
          /\ Begin("delete")
          /\ \E u \in Uuids : Finds(m, u) /\ vm' = u
          /\ pc' = "volumes"
          /\ UNCHANGED <<m, err>>
       \/ /\ Decodes /\ ReadsNone(m)
          /\ Begin("delete")
          /\ Finish([m EXCEPT !.ready = "False"], None, "none")
       \/ /\ Decodes
          /\ (NoFault /\ FindFails(m)) \/ Fault("api")
          /\ Begin("delete")
          /\ Fail("delete")

VolumesAttached == node.exists /\ node.volumes = "attached"

\* Mutant: attached volumes do not stop the deletion.
VolumesIgnored ==
    /\ pc = "volumes"
    /\ UNCHANGED <<kubeVars, pcVars, base, op>>
    /\ NoFault
    /\ pc' = "deleteVM"
    /\ UNCHANGED <<m, vm, err>>

\* nodeHasVolumesAttached: a Node that is not found holds no volumes.
nodeHasVolumesAttached ==
    /\ pc = "volumes"
    /\ UNCHANGED <<kubeVars, pcVars, base, op>>
    /\ \/ /\ NoFault
          /\ m.nodeRef => ~VolumesAttached
          /\ pc' = "deleteVM"
          /\ UNCHANGED <<m, vm, err>>
       \/ /\ m.nodeRef
          /\ (NoFault /\ VolumesAttached) \/ Fault("kube")
          /\ Fail("delete")

\* Mutant: ProviderID becomes an empty string.
DeletedEmptyID ==
    Finish([m EXCEPT !.providerID = "", !.addresses = FALSE, !.ready = "False"], vm, "none")

\* Reconciler.delete after deleteVM returned nil.
Deleted ==
    Finish([m EXCEPT !.providerID = None, !.addresses = FALSE, !.ready = "False"], vm, "none")

deleteVM ==
    /\ pc = "deleteVM"
    /\ UNCHANGED <<kubeVars, base, op>>
    /\ \/ /\ NoFault
          /\ vm \in Alive
          /\ Submit("delete", vm)
          /\ pc' = "deleteWait"
          /\ UNCHANGED <<m, vm, err>>
       \/ /\ ReadsGone(vm)
          /\ UNCHANGED pcVars
          /\ Deleted
       \/ /\ Fault("api")
          /\ UNCHANGED pcVars
          /\ Fail("delete")
       \/ /\ Fault("lost")
          /\ vm \in Alive
          /\ Submit("delete", vm)
          /\ Fail("delete")

\* The wait of deleteVM, in which "not found" counts as success as well.
WaitDeleted ==
    /\ pc = "deleteWait"
    /\ UNCHANGED <<kubeVars, pcVars, base, op>>
    /\ \/ ReadsGone(vm) /\ Deleted
       \/ /\ (NoFault /\ vm \in Alive /\ <<"delete", vm>> \notin tasks) \/ Fault("lost")
          /\ Fail("delete")

-----------------------------------------------------------------------------
(* patchMachine: two calls, the second does not happen if the first fails. *)

\* Where the machine controller goes on, by operation and result.
AfterOperation(rec) ==
    CASE op = "create" /\ err = "invalid" -> ReturnTo("setFailed", rec)
      [] op = "update" /\ err = "none"    -> ReturnTo("setPhase", rec)
      [] op = "delete" /\ err = "none"    -> ReturnTo("deleteExists", rec)
      [] OTHER                            -> Return

patchMachineSpec ==
    /\ pc = "patchSpec"
    /\ UNCHANGED <<node, config, pcVars>>
    /\ \/ /\ NoFault
          /\ machine.exists
          /\ machine' = MergeSpec(machine, base, m)
          /\ m' = WithStatusCopy(machine', m)
          /\ pc' = "patchStatus"
          /\ UNCHANGED <<base, vm, op, err>>
       \/ ((NoFault /\ ~machine.exists) \/ Fault("kube")) /\ UNCHANGED machine /\ Return

patchMachineStatus ==
    /\ pc = "patchStatus"
    /\ UNCHANGED <<node, config, pcVars>>
    /\ \/ /\ NoFault
          /\ machine.exists
          /\ machine' = MergeStatus(machine, base, m)
          /\ AfterOperation(machine')
       \/ ((NoFault /\ ~machine.exists) \/ Fault("kube")) /\ UNCHANGED machine /\ Return

-----------------------------------------------------------------------------
ActuatorStep ==
    \/ Create \/ createVM \/ SubmitVM \/ WaitCreated \/ PowerOnVM \/ WaitPoweredOn
    \/ Update \/ updateMachineWithVMState
    \/ Delete \/ nodeHasVolumesAttached \/ deleteVM \/ WaitDeleted
    \/ patchMachineSpec \/ patchMachineStatus
=============================================================================
