------------------------- MODULE MachineController -------------------------
(***************************************************************************)
(* The machine controller (vendored from machine-api-operator) that drives *)
(* the Nutanix actuator, the actors around it (user, drain controller,     *)
(* nodelink controller, kubelet, administrator) and the whole system's     *)
(* next-state relation.                                                    *)
(***************************************************************************)
EXTENDS MachineActuator

vars == <<vmState, tasks, faults, misreads, machine, cache, node, config,
          pc, m, base, vm, op, err>>

-----------------------------------------------------------------------------
(* ReconcileMachine.Reconcile                                              *)

\* Mutant: a failed Machine is reconciled like any other.
ReconcileFailed ==
    /\ pc = "idle"
    /\ cache.exists
    /\ m' = cache
    /\ pc' = CASE cache.deleting     -> "setDeleting"
               [] ~cache.deleting /\ ~cache.finalizer -> "addFinalizer"
               [] OTHER              -> "exists"
    /\ NoFault
    /\ UNCHANGED <<kubeVars, pcVars, base, vm, op, err>>

\* Mutant: the reconcile goes on without a finalizer.
ReconcileUnprotected ==
    /\ pc = "idle"
    /\ cache.exists
    /\ ~(~cache.deleting /\ cache.phase = "Failed")
    /\ m' = cache
    /\ pc' = IF cache.deleting THEN "setDeleting" ELSE "exists"
    /\ NoFault
    /\ UNCHANGED <<kubeVars, pcVars, base, vm, op, err>>

\* Reconcile reads the Machine from the informer cache and branches on it.
\* With no Machine, one that validateMachine rejects, or one in phase Failed
\* that is not being deleted, it does nothing.
Reconcile ==
    /\ pc = "idle"
    /\ cache.exists
    /\ config # "rejected"
    /\ ~(~cache.deleting /\ cache.finalizer /\ cache.phase = "Failed")
    /\ m' = cache
    /\ pc' = CASE cache.deleting     -> "setDeleting"
               [] ~cache.deleting /\ ~cache.finalizer -> "addFinalizer"
               [] OTHER              -> "exists"
    /\ NoFault
    /\ UNCHANGED <<kubeVars, pcVars, base, vm, op, err>>

\* A full Update is refused when the object changed since it was read.
addFinalizer ==
    /\ pc = "addFinalizer"
    /\ UNCHANGED <<node, config, pcVars>>
    /\ \/ NoFault /\ machine = m /\ machine' = [machine EXCEPT !.finalizer = TRUE]
       \/ ((NoFault /\ machine # m) \/ Fault("kube")) /\ UNCHANGED machine
    /\ Return

\* Actuator.Exists of a Machine that is not being deleted.
Exists ==
    /\ pc = "exists"
    /\ UNCHANGED <<kubeVars, pcVars>>
    /\ \/ NoFault /\ Decodes /\ (\E u \in Uuids : Finds(m, u)) /\ Goto("update")
       \/ /\ Decodes
          /\ ReadsNone(m)
          /\ Goto(IF machineIsProvisioned(m) THEN "setFailed"
                  ELSE IF m.phase = "" THEN "setProvisioning" ELSE "create")
       \/ /\ (NoFault /\ (~Decodes \/ FindFails(m))) \/ Fault("api") \/ Fault("kube")
          /\ Return

\* updateStatus(PhaseFailed): an annotation patch first refreshes m, so the
\* phase is always written.
setFailed ==
    /\ pc = "setFailed"
    /\ UNCHANGED <<node, config, pcVars>>
    /\ \/ NoFault /\ machine.exists /\ machine' = updateStatus(machine, machine, "Failed")
       \/ ((NoFault /\ ~machine.exists) \/ Fault("kube")) /\ UNCHANGED machine
    /\ Return

setProvisioning ==
    /\ pc = "setProvisioning"
    /\ UNCHANGED <<node, config, pcVars>>
    /\ \/ NoFault /\ machine.exists /\ machine' = updateStatus(machine, m, "Provisioning")
       \/ ((NoFault /\ ~machine.exists) \/ Fault("kube")) /\ UNCHANGED machine
    /\ Return

\* Mutant: a running Machine is provisioned again.
PhaseFlaps == IF m.phase = "Running" THEN "Provisioned" ELSE "Running"

\* Mutant: a Machine that got its Node is not noticed.
PhaseIgnoresNode == IF ~machineIsProvisioned(m) THEN m.phase ELSE "Provisioned"

\* The phase after a successful Update.
PhaseAfterUpdate ==
    IF ~machineIsProvisioned(m) THEN m.phase
    ELSE IF m.nodeRef THEN "Running" ELSE "Provisioned"

setPhase ==
    /\ pc = "setPhase"
    /\ UNCHANGED <<node, config, pcVars>>
    /\ \/ NoFault /\ machine.exists /\ machine' = updateStatus(machine, m, PhaseAfterUpdate)
       \/ ((NoFault /\ ~machine.exists) \/ Fault("kube")) /\ UNCHANGED machine
    /\ Return

\* The first step of a deletion: phase Deleting, then the drain and the
\* pre-terminate gates, read from the API server's answer to the patch.
setDeleting ==
    /\ pc = "setDeleting"
    /\ UNCHANGED <<node, config, pcVars>>
    /\ \/ /\ NoFault
          /\ machine.exists
          /\ machine' = updateStatus(machine, m, "Deleting")
          /\ IF machine.finalizer /\ machine.drained /\ ~machine.hook
             THEN ReturnTo("delete", machine')
             ELSE Return
       \/ ((NoFault /\ ~machine.exists) \/ Fault("kube")) /\ UNCHANGED machine /\ Return

\* Mutant: a successful Delete is taken at its word.
TrustDelete ==
    /\ pc = "deleteExists"
    /\ UNCHANGED <<kubeVars, pcVars>>
    /\ NoFault /\ Goto("deleteNode")

\* Actuator.Exists after a successful Actuator.Delete.
deleteExists ==
    /\ pc = "deleteExists"
    /\ UNCHANGED <<kubeVars, pcVars>>
    /\ \/ Decodes /\ ReadsNone(m) /\ Goto("deleteNode")
       \/ /\ (NoFault /\ ~(Decodes /\ FindsNone(m))) \/ Fault("api") \/ Fault("kube")
          /\ Return

deleteNode ==
    /\ pc = "deleteNode"
    /\ UNCHANGED <<machine, config, pcVars>>
    /\ \/ NoFault /\ node' = (IF m.nodeRef THEN NoNode ELSE node) /\ Goto("removeFinalizer")
       \/ m.nodeRef /\ Fault("kube") /\ UNCHANGED node /\ Return

\* Mutant: the finalizer is removed by a patch without optimistic lock.
RemoveAnyway ==
    /\ pc = "removeFinalizer"
    /\ UNCHANGED <<node, config, pcVars>>
    /\ NoFault /\ machine' = [machine EXCEPT !.finalizer = FALSE, !.exists = FALSE]
    /\ Return

\* Without its finalizer a Machine that is being deleted leaves the API server.
removeFinalizer ==
    /\ pc = "removeFinalizer"
    /\ UNCHANGED <<node, config, pcVars>>
    /\ \/ NoFault /\ machine = m /\ machine' = [machine EXCEPT !.finalizer = FALSE, !.exists = FALSE]
       \/ ((NoFault /\ machine # m) \/ Fault("kube")) /\ UNCHANGED machine
    /\ Return

ControllerStep ==
    \/ Reconcile \/ addFinalizer \/ Exists \/ setFailed \/ setProvisioning \/ setPhase
    \/ setDeleting \/ deleteExists \/ deleteNode \/ removeFinalizer

\* The process dies, or loses its leader lease: what it held in memory is lost.
Crash ==
    /\ pc # "idle"
    /\ Fault("crash")
    /\ Return
    /\ UNCHANGED <<kubeVars, pcVars>>

-----------------------------------------------------------------------------
(* The other actors.                                                       *)

UserDelete ==
    /\ machine.exists /\ ~machine.deleting
    /\ machine' = [machine EXCEPT !.deleting = TRUE, !.exists = machine.finalizer]
    /\ UNCHANGED <<node, config>>

RemoveHook ==
    /\ machine.exists /\ machine.hook
    /\ machine' = [machine EXCEPT !.hook = FALSE]
    /\ UNCHANGED <<node, config>>

\* machineDrainController.Reconcile works on a Machine in phase Deleting.
Draining ==
    machine.exists /\ machine.deleting /\ machine.phase = "Deleting" /\ ~machine.drained

\* drainNode cordons the Node first.
Cordon ==
    /\ Draining /\ machine.nodeRef /\ node.exists /\ ~node.cordoned
    /\ node' = [node EXCEPT !.cordoned = TRUE]
    /\ UNCHANGED <<machine, config>>

\* The Drained condition, after the drain or, without a Node, instead of it.
Drain ==
    /\ Draining /\ (machine.nodeRef /\ node.exists => node.cordoned)
    /\ machine' = [machine EXCEPT !.drained = TRUE]
    /\ UNCHANGED <<node, config>>

\* The kubelet of a running VM registers its Node.
NodeJoin ==
    /\ ~node.exists
    /\ \E u \in Uuids : vmState[u] = "on"
    /\ node' = [NoNode EXCEPT !.exists = TRUE]
    /\ UNCHANGED <<machine, config>>

\* The nodelink controller matches Machine and Node by providerID or address.
NodeLink ==
    /\ machine.exists /\ node.exists /\ ~machine.nodeRef /\ machineIsProvisioned(machine)
    /\ machine' = [machine EXCEPT !.nodeRef = TRUE]
    /\ UNCHANGED <<node, config>>

\* Pods bring volumes to a Node that is not cordoned, once per Node.
AttachVolumes ==
    /\ node.exists /\ node.volumes = "never" /\ ~node.cordoned
    /\ node' = [node EXCEPT !.volumes = "attached"]
    /\ UNCHANGED <<machine, config>>

DetachVolumes ==
    /\ node.exists /\ node.volumes = "attached"
    /\ node' = [node EXCEPT !.volumes = "detached"]
    /\ UNCHANGED <<machine, config>>

KubeActor ==
    /\ \/ UserDelete \/ RemoveHook \/ Cordon \/ Drain
       \/ NodeJoin \/ NodeLink \/ AttachVolumes \/ DetachVolumes
    /\ UNCHANGED <<pcVars, faults, misreads, locals>>

-----------------------------------------------------------------------------

\* Without stale reads the informer cache follows every write.
CacheFollows == cache' = IF StaleReads THEN cache ELSE machine'

CacheSync ==
    /\ cache # machine
    /\ cache' = machine
    /\ UNCHANGED <<pcVars, faults, misreads, kubeVars, locals>>

Init == PCInit /\ ObjectInit /\ LocalInit

Worker == ControllerStep \/ ActuatorStep

Next ==
    \/ (Worker \/ Crash) /\ CacheFollows
    \/ KubeActor /\ CacheFollows
    \/ PCNext /\ UNCHANGED <<kubeVars, locals>> /\ CacheFollows
    \/ CacheSync

Spec == Init /\ [][Next]_vars

kubeObjects == <<machine, node>>

\* The work queue retries after an error, requeues after a wait and resyncs
\* every ten minutes, so the worker always moves again.  Prism Central ends
\* the tasks it accepts, and the other controllers do their work.  Nothing
\* is assumed of the user, of failures or of volumes being attached.
Fairness ==
    /\ WF_vars(Worker /\ CacheFollows)
    /\ WF_vars(CacheSync)
    /\ PCFairness
    /\ WF_kubeObjects(RemoveHook)
    /\ WF_kubeObjects(Cordon)
    /\ WF_kubeObjects(Drain)
    /\ WF_kubeObjects(NodeJoin)
    /\ WF_kubeObjects(NodeLink)
    /\ WF_kubeObjects(DetachVolumes)

FairSpec == Spec /\ Fairness

-----------------------------------------------------------------------------
(* What must hold whatever fails and however stale the cache is.           *)

\* Every variable stays in its type: in particular ProviderID is unset or
\* names a VM of Prism Central, never an empty string.
TypeOK == PCTypeOK /\ ObjectTypeOK /\ LocalTypeOK

\* The Machine leaves the API server while the VM recorded in its VmUUID
\* exists only if at least two errors were misread (isNotFoundError): the
\* Exists that follows Actuator.Delete looks again, so the finalizer survives
\* any single misread, and every other failure.
RecordedVMGone == ~machine.exists /\ machine.vmUUID \in Alive => misreads >= 2

\* As long as no error was misread, setProviderStatus replaces a recorded
\* VmUUID only after that VM is gone: no lookup by name, retry or stale copy of
\* the Machine makes the actuator let go of a VM that still exists.
VmUUIDStable ==
    [][(misreads = 0 /\ machine.vmUUID # None /\ machine'.vmUUID # machine.vmUUID)
          => machine.vmUUID \notin Alive]_vars

\* A delete task is submitted for the VM of a cordoned Node only when no
\* volume is attached to it (nodeHasVolumesAttached, then deleteVM).
VolumesDetached ==
    [][\A u \in Uuids :
          (<<"delete", u>> \in tasks' \ tasks /\ node.cordoned) => ~VolumesAttached]_vars

-----------------------------------------------------------------------------
(* What holds as long as the cache is fresh.                               *)

\* VmUUID, once set, does not change for the life of the Machine
\* (NutanixMachineProviderStatus), even if its VM is deleted externally.
VmUUIDFixed == [][machine.vmUUID # None => machine'.vmUUID = machine.vmUUID]_vars

\* patchMachine writes the spec before the status: a Machine with a VmUUID
\* has the ProviderID of that VM until it is deleted, whichever of the two
\* patches failed.
VmUUIDNamed ==
    (machine.vmUUID # None /\ ~machine.deleting) => machine.providerID = machine.vmUUID

\* Once the Machine has recorded its VM, its Node names that VM or one that
\* is gone, never another that exists: setProviderID writes the Node two calls
\* before the record, any of the calls may fail, and a retry may find another
\* VM.  (That it always names the recorded one is not true: an update whose
\* call to the Node fails records the VM it found all the same.)
NodeNamed ==
    (node.providerID # None /\ machine.vmUUID # None) =>
        node.providerID = machine.vmUUID \/ vmState[node.providerID] = "gone"

\* A Machine that is provisioned stays so until its deletion is requested, or
\* else Exists would go on to create another VM: the ProviderID that the first
\* patch wrote outlives addresses that turn out empty and patches that fail.
StaysProvisioned ==
    [][machineIsProvisioned(machine) /\ ~machine.deleting => machineIsProvisioned(machine')]_vars

\* A Machine leaves phase Failed only to be deleted (machineIsFailed).
FailedTerminal ==
    [][machine.phase = "Failed" => machine'.phase \in {"Failed", "Deleting"}]_vars

-----------------------------------------------------------------------------
(* What holds as long as no create task is lost sight of and no error is   *)
(* misread.                                                                *)

\* A Machine that has left the API server leaves no VM behind, neither one
\* that exists nor one that is being created.
NoOrphan == ~machine.exists => Alive \cup Creating = {}

\* Create never leads to a second VM for the Machine.
AtMostOneVM == \A u, w \in Alive \cup Creating : u = w

-----------------------------------------------------------------------------
(* Liveness.                                                               *)

\* A Machine whose deletion was requested leaves the API server, unless its
\* providerSpec does not decode.
DeletionCompletes == (machine.deleting /\ Decodes) ~> ~machine.exists

\* A Machine that is not rejected and whose providerSpec decodes reaches phase
\* Running or Failed unless it is deleted before, or its only VM stays
\* powered off: createVM powers a VM on in the attempt that created it and in
\* no other.
ProvisioningSettles ==
    config \in {"valid", "invalid"} =>
        \/ <>(machine.phase \in {"Running", "Failed"} \/ machine.deleting)
        \/ <>[](\E u \in Uuids : Alive = {u} /\ vmState[u] = "off")

\* The controller stops writing the Machine, but for addresses that follow
\* what the VM shows: no write triggers the next reconcile forever.
Quiescent == <>[][machine' = [machine EXCEPT !.addresses = machine'.addresses]]_vars

-----------------------------------------------------------------------------
(* What documentation says and the code does not do.                       *)

\* "MachineInstanceReady indicates whether the machine's VM gets ready": a
\* VM reported ready is powered on.
ReadyMeansOn ==
    machine.ready = "True" => \A u \in Alive : u = machine.vmUUID => vmState[u] = "on"

\* An invalid configuration "is not a transient error": a Machine that never
\* got a VM is in phase Failed only if its providerSpec is invalid.
FailedMeansInvalid ==
    (machine.phase = "Failed" /\ ~machineIsProvisioned(machine)) => config # "valid"

\* "isInvalidMachineConfiguration will take care of the case where the
\* configuration is invalid from the beginning": a Machine with an invalid
\* configuration can be deleted.
InvalidDeleted == (machine.deleting /\ config # "valid") ~> ~machine.exists

-----------------------------------------------------------------------------
(* The inductive invariant behind RecordedVMGone and VmUUIDStable.         *)

Born(u) == vmState[u] \in {"off", "on", "gone"}

\* The VmUUID on record, if any, may be replaced by u.
MayRecord(u) ==
    Born(u) /\ (machine.vmUUID \notin {None, u} => vmState[machine.vmUUID] = "gone")

\* A copy of the Machine that disagrees with the API server on VmUUID holds
\* the UUID of a VM that is gone.
CopyOK(rec) == rec.vmUUID \notin {None, machine.vmUUID} => vmState[rec.vmUUID] = "gone"

\* Tasks run on VMs that exist, so none brings a deleted VM back.
TasksOK == \A t \in tasks : t[2] \in Alive

RecordOK == machine.vmUUID # None => Born(machine.vmUUID)

\* Every UUID the worker could record has had a VM.
HeldOK ==
    /\ cache.vmUUID # None => Born(cache.vmUUID)
    /\ m.vmUUID # None => Born(m.vmUUID)
    /\ pc \in {"powerOn", "powerWait", "vmState"} => Born(vm)

\* The finalizer is there before anything is recorded.
FinalizerOK ==
    /\ machine.exists /\ ~machine.finalizer => machine.vmUUID = None
    /\ machine.exists /\ cache.finalizer => machine.finalizer
    /\ machine.exists /\ pc \notin {"idle", "addFinalizer", "setDeleting"} => machine.finalizer

\* Unless n errors were misread: the VM on record is gone before the worker
\* goes on to remove the finalizer, and once the Machine is gone.
GoneUnlessMisread(n) ==
    /\ misreads < n /\ pc \in {"deleteNode", "removeFinalizer"} /\ m.vmUUID # None =>
          vmState[m.vmUUID] = "gone"
    /\ misreads < n /\ ~machine.exists /\ machine.vmUUID # None =>
          vmState[machine.vmUUID] = "gone"

\* The labels of Actuator.Create and Actuator.Delete between newMachineScope
\* and patchMachine.
CreateLabels == {"createVM", "submit", "createWait", "powerOn", "powerWait"}
DeleteLabels == {"volumes", "deleteVM", "deleteWait"}

PatchLabels == {"patchSpec", "patchStatus"}

\* The labels at which base is the copy that newMachineScope took.
ScopeLabels == CreateLabels \cup DeleteLabels \cup {"vmState"} \cup PatchLabels

\* Which operation is under way.
OperationOK ==
    /\ pc \notin ScopeLabels => op = "none"
    /\ pc \in CreateLabels => op = "create"
    /\ pc \in DeleteLabels => op = "delete"
    /\ pc = "vmState" => op \in {"create", "update"}

\* Deletion works on the VmUUID on record.  When Actuator.Delete has returned
\* nil without a misread that VM is gone, before Exists looks again.
DeletionSound ==
    /\ op = "delete" \/ pc \in {"delete", "deleteExists", "deleteNode", "removeFinalizer"} =>
          m.vmUUID = machine.vmUUID
    /\ op = "delete" => base.vmUUID = m.vmUUID
    /\ pc \in DeleteLabels /\ m.vmUUID # None => vm = m.vmUUID
    /\ /\ misreads = 0 /\ m.vmUUID # None
       /\ \/ pc \in PatchLabels /\ op = "delete" /\ err = "none"
          \/ pc = "deleteExists" /\ Decodes
       => vmState[m.vmUUID] = "gone"
    /\ GoneUnlessMisread(2)

\* The labels at which the worker may have set VmUUID in its copy.
Touched == {"vmState", "patchSpec", "patchStatus"}

\* Within an operation VmUUID is the one that newMachineScope read, until the
\* operation sets it.
ScopeOK ==
    /\ pc \in CreateLabels \cup DeleteLabels => m.vmUUID = base.vmUUID
    /\ pc \in Touched /\ m.vmUUID # base.vmUUID => m.vmUUID # None

\* What the worker knows as long as no error was misread.
WorkerOK ==
    /\ pc \notin Touched => CopyOK(m)
    /\ pc \in Touched /\ m.vmUUID # base.vmUUID => MayRecord(m.vmUUID)
    /\ pc \in {"powerOn", "powerWait", "vmState"} => MayRecord(vm)
    /\ pc \in {"submit", "createWait"} /\ machine.vmUUID # None =>
          vmState[machine.vmUUID] = "gone"

\* Inductive: every action of Next preserves it, for any constants.
IndInv ==
    /\ TypeOK /\ TasksOK /\ RecordOK /\ HeldOK /\ FinalizerOK
    /\ OperationOK /\ ScopeOK /\ DeletionSound
    /\ misreads = 0 => CopyOK(cache) /\ WorkerOK

-----------------------------------------------------------------------------
(* The inductive invariant behind VolumesDetached.                         *)

\* Only Cordon cordons the Node, before the drain ends and after the Machine
\* was linked to it.  Actuator.Delete comes after the drain and so knows of a
\* cordoned Node, and no volume is attached to one after the check.
DrainInv ==
    /\ node.cordoned => machine.nodeRef
    /\ pc \in {"delete", "volumes", "deleteVM"} =>
          machine.drained /\ (node.cordoned => m.nodeRef)
    /\ pc = "deleteVM" /\ node.cordoned => ~VolumesAttached
=============================================================================
