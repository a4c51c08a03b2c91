------------------------ MODULE MachineSafetyProofs ------------------------
(* The safety of the VM on record, for any set of UUIDs, any failures and  *)
(* any lag of the cache: IndInv is inductive, and RecordedVMGone and       *)
(* VmUUIDStable follow from it.  What depends on errors that are not       *)
(* misread says so by the history variable misreads.                       *)
EXTENDS MachineTypeProofs

-----------------------------------------------------------------------------
(* Prism Central never brings a VM back.                                   *)

VMsKept ==
    \A u \in Uuids : /\ Born(u) => Born(u)'
                     /\ vmState[u] = "gone" => vmState'[u] = "gone"

\* A task that ends, fails or is cut short never revives a VM.
LEMMA ServiceKeepsVMs ==
  ASSUME TypeOK, TasksOK, PCNext
  PROVE  VMsKept /\ TasksOK'
  <1> USE DEF TypeOK, PCTypeOK, VMStates, TasksOK, Alive, VMsKept, Born
  <1>1. CASE \E u \in Uuids : CreateDone(u)
    BY <1>1 DEF CreateDone
  <1>2. CASE \E u \in Uuids : CreateFailed(u)
    BY <1>2 DEF CreateFailed
  <1>3. CASE \E u \in Uuids : PowerOnDone(u)
    BY <1>3 DEF PowerOnDone, Task
  <1>4. CASE \E u \in Uuids : DeleteDone(u)
    BY <1>4 DEF DeleteDone, TasksOf, Task
  <1>5. CASE \E u \in Uuids : ExternalDelete(u)
    BY <1>5 DEF ExternalDelete, TasksOf, Task
  <1>6. CASE \E t \in tasks : TaskFailed(t)
    BY <1>6 DEF TaskFailed
  <1> QED BY <1>1, <1>2, <1>3, <1>4, <1>5, <1>6 DEF PCNext

\* The worker starts tasks only on VMs that exist.
LEMMA WorkerKeepsVMs ==
  ASSUME TypeOK, TasksOK, Worker \/ Crash
  PROVE  VMsKept /\ TasksOK'
  <1> USE DEF TypeOK, PCTypeOK, VMStates, TasksOK, Alive, VMsKept, Born
  <1>1. CASE UNCHANGED pcVars
    BY <1>1 DEF pcVars
  <1>2. CASE \E u \in Uuids : SubmitCreate(u)
    BY <1>2 DEF SubmitCreate
  <1>3. CASE vm \in Alive /\ (Submit("powerOn", vm) \/ Submit("delete", vm))
    BY <1>3 DEF Submit
  <1>4. CASE SubmitVM
    BY <1>1, <1>2, <1>4 DEF SubmitVM
  <1>5. CASE PowerOnVM \/ deleteVM
    BY <1>1, <1>3, <1>5 DEF PowerOnVM, deleteVM
  <1>6. CASE ~SubmitVM /\ ~PowerOnVM /\ ~deleteVM
    <2>1. UNCHANGED pcVars
      BY <1>6 DEF Worker, Crash, ControllerStep, ActuatorStep, Reconcile, addFinalizer, Exists,
         setFailed, setProvisioning, setPhase, setDeleting, deleteExists, deleteNode,
         removeFinalizer, Create, createVM, WaitCreated, WaitPoweredOn, Update,
         updateMachineWithVMState, Delete, nodeHasVolumesAttached, WaitDeleted,
         patchMachineSpec, patchMachineStatus
    <2> QED BY <1>1, <2>1
  <1> QED BY <1>4, <1>5, <1>6

\* No step of the system brings a deleted VM back.
LEMMA KeepsVMs == TypeOK /\ TasksOK /\ [Next]_vars => VMsKept /\ TasksOK'
  <1> SUFFICES ASSUME TypeOK, TasksOK, [Next]_vars PROVE VMsKept /\ TasksOK'
    OBVIOUS
  <1>1. CASE UNCHANGED <<vmState, tasks>>
    BY <1>1 DEF VMsKept, Born, TasksOK, Alive
  <1> QED BY <1>1, ServiceKeepsVMs, WorkerKeepsVMs DEF Next, KubeActor, CacheSync, vars, pcVars

-----------------------------------------------------------------------------
(* Who writes the Machine.                                                 *)

\* Only the second half of patchMachine writes VmUUID, only the controller
\* removes the finalizer, and a Machine that is gone stays gone.
MachineKept ==
    /\ ~machine.exists => ~machine'.exists
    /\ machine.exists /\ machine.finalizer /\ machine'.exists => machine'.finalizer

\* Which fields of the Machine the worker writes, and where.
LEMMA WorkerWrites ==
  ASSUME TypeOK, Worker \/ Crash
  PROVE  /\ MachineKept
         /\ ~patchMachineStatus => machine'.vmUUID = machine.vmUUID
  <1> USE DEF TypeOK, ObjectTypeOK, MachineKept
  <1>1. CASE UNCHANGED machine
    BY <1>1
  <1>2. CASE addFinalizer \/ removeFinalizer
    BY <1>2 DEF addFinalizer, removeFinalizer, Machine
  <1>3. CASE setFailed \/ setProvisioning \/ setPhase \/ setDeleting
    BY <1>3 DEF setFailed, setProvisioning, setPhase, setDeleting, updateStatus, Machine
  <1>4. CASE patchMachineSpec
    BY <1>4 DEF patchMachineSpec, MergeSpec, Machine
  <1>5. CASE patchMachineStatus
    BY <1>5 DEF patchMachineStatus, MergeStatus, Machine
  <1> QED BY <1>1, <1>2, <1>3, <1>4, <1>5 DEF Worker, Crash, ControllerStep, ActuatorStep, kubeVars,
         Reconcile, Exists, deleteExists, deleteNode, Create, createVM, SubmitVM, WaitCreated,
         PowerOnVM, WaitPoweredOn, Update, updateMachineWithVMState, Delete,
         nodeHasVolumesAttached, deleteVM, WaitDeleted

\* The other actors leave VmUUID and the finalizer alone.
LEMMA ActorWrites ==
  ASSUME TypeOK, KubeActor
  PROVE  MachineKept /\ machine'.vmUUID = machine.vmUUID /\ machine'.finalizer = machine.finalizer
  BY DEF KubeActor, UserDelete, RemoveHook, Cordon, Drain, Draining, NodeJoin, NodeLink, AttachVolumes,
     DetachVolumes, TypeOK, ObjectTypeOK, Machine, MachineKept

-----------------------------------------------------------------------------
(* What is known of a UUID outlives every step that leaves VmUUID alone.   *)

\* Born and gone are for good, so what holds of a copy goes on holding.
LEMMA Inherit ==
  ASSUME TypeOK, VMsKept, machine'.vmUUID = machine.vmUUID
  PROVE  /\ RecordOK => RecordOK'
         /\ \A u \in Uuids : MayRecord(u) => MayRecord(u)'
         /\ \A r \in Machine : CopyOK(r) => CopyOK(r)'
  <1>1. machine.vmUUID \in Uuids \cup {None}
    BY DEF TypeOK, ObjectTypeOK, Machine
  <1>2. RecordOK => RecordOK'
    BY <1>1 DEF RecordOK, VMsKept
  <1>3. \A u \in Uuids : MayRecord(u) => MayRecord(u)'
    BY <1>1 DEF MayRecord, VMsKept
  <1>4. \A r \in Machine : CopyOK(r) => CopyOK(r)'
    BY <1>1 DEF CopyOK, VMsKept, Machine
  <1> QED BY <1>2, <1>3, <1>4

\* A reconcile that ends leaves nothing to keep.
LEMMA ReturnOK ==
  ASSUME Return
  PROVE  WorkerOK'
  BY DEF Return, WorkerOK, Touched, CopyOK, Blank, NewMachine

\* The operation ends and its patches are next: VmUUID in the worker's copy
\* is the one it started from, or one that may be recorded.
LEMMA FinishOK ==
  ASSUME pc' = "patchSpec",
         \/ m'.vmUUID = base'.vmUUID
         \/ m'.vmUUID \in Uuids /\ MayRecord(m.vmUUID)'
  PROVE  WorkerOK'
  BY NoneAssumption DEF WorkerOK, Touched

\* The effect of Finish, Fail and Deleted on the local state.
LEMMA FinishEffect ==
  ASSUME TypeOK
  PROVE  /\ \A rec, u, r : Finish(rec, u, r) => pc' = "patchSpec" /\ m' = rec
         /\ \A o : Fail(o) => pc' = "patchSpec" /\ m'.vmUUID = m.vmUUID
         /\ Deleted => pc' = "patchSpec" /\ m'.vmUUID = m.vmUUID
  BY DEF TypeOK, LocalTypeOK, Machine, Finish, Fail, Deleted

\* updateMachineWithVMState leaves VmUUID alone or sets that of its VM.
LEMMA StateEffect ==
  ASSUME TypeOK, updateMachineWithVMState
  PROVE  pc' = "patchSpec" /\ base' = base /\ m'.vmUUID \in {vm, m.vmUUID}
  <1> DEFINE ready(s) == setProviderStatus([m EXCEPT !.providerID = vm, !.ready = "True"], vm, s)
  <1>1. \A s \in BOOLEAN : ready(s).vmUUID = vm /\ StateFailed(s).vmUUID \in {vm, m.vmUUID}
    BY DEF StateFailed, setProviderStatus, TypeOK, LocalTypeOK, Machine
  <1> HIDE DEF ready
  <1>2. PICK s \in BOOLEAN : Finish(ready(s), vm, "none") \/ Finish(StateFailed(s), vm, "error")
    BY DEF updateMachineWithVMState, ready
  <1>3. base' = base
    BY DEF updateMachineWithVMState
  <1> QED BY <1>1, <1>2, <1>3, FinishEffect

-----------------------------------------------------------------------------
(* The worker's steps, one action at a time.                               *)

\* The controller's own steps keep the worker's facts.
LEMMA ControllerOK ==
  ASSUME IndInv, CopyOK(cache), WorkerOK, ControllerStep, VMsKept
  PROVE  WorkerOK'
  <1> USE DEF IndInv
  <1>1. CASE Return
    BY <1>1, ReturnOK
  <1>2. machine'.vmUUID = machine.vmUUID
    BY WorkerWrites DEF Worker, ControllerStep, patchMachineStatus, Reconcile, addFinalizer, Exists,
       setFailed, setProvisioning, setPhase, setDeleting, deleteExists, deleteNode, removeFinalizer
  <1>3. m \in Machine /\ cache \in Machine /\ machine \in Machine
    BY DEF TypeOK, ObjectTypeOK, LocalTypeOK
  <1>4. CASE Reconcile
    <2>1. CopyOK(m)'
      BY <1>2, <1>3, <1>4, Inherit DEF Reconcile, CopyOK
    <2> QED BY <1>4, <2>1 DEF Reconcile, WorkerOK, Touched
  <1>5. CASE (Exists \/ deleteExists \/ deleteNode) /\ ~Return
    <2>1. CopyOK(m) /\ m' = m
      BY <1>5 DEF Exists, deleteExists, deleteNode, Goto, WorkerOK, Touched
    <2>2. CopyOK(m)'
      BY <1>2, <1>3, <2>1, Inherit DEF CopyOK
    <2> QED BY <1>5, <2>2 DEF Exists, deleteExists, deleteNode, Goto, WorkerOK, Touched
  <1>6. CASE setDeleting /\ ~Return
    <2>1. CopyOK(m)'
      BY <1>2, <1>6 DEF setDeleting, ReturnTo, CopyOK
    <2> QED BY <1>6, <2>1 DEF setDeleting, ReturnTo, WorkerOK, Touched
  <1> QED BY <1>1, <1>4, <1>5, <1>6 DEF ControllerStep, addFinalizer, setFailed,
         setProvisioning, setPhase, removeFinalizer

\* Create, up to the patches: a new VM is made only once the recorded one is gone.
LEMMA CreateOK ==
  ASSUME IndInv, WorkerOK, VMsKept, misreads' = misreads,
         Create \/ createVM \/ SubmitVM \/ WaitCreated \/ PowerOnVM \/ WaitPoweredOn
  PROVE  WorkerOK'
  <1> USE DEF IndInv, ScopeOK, CreateLabels, DeleteLabels
  <1>1. machine'.vmUUID = machine.vmUUID
    BY DEF Create, createVM, SubmitVM, WaitCreated, PowerOnVM, WaitPoweredOn, kubeVars
  <1>2. m \in Machine /\ base \in Machine /\ machine \in Machine /\ CopyOK(m)
    BY DEF TypeOK, ObjectTypeOK, LocalTypeOK, WorkerOK, Touched,
       Create, createVM, SubmitVM, WaitCreated, PowerOnVM, WaitPoweredOn
  <1>3. CopyOK(m)' \/ m' # m
    BY <1>1, <1>2, Inherit DEF CopyOK
  <1>4. CASE Return
    BY <1>4, ReturnOK
  <1>5. CASE Create /\ ~Return
    <2>1. base' = m
      BY <1>5 DEF Create, Begin
    <2>2. CASE pc' = "createVM"
      BY <1>3, <1>5, <2>1, <2>2 DEF Create, Fail, Finish, WorkerOK, Touched
    <2>3. CASE pc' # "createVM"
      <3>1. pc' = "patchSpec" /\ m'.vmUUID = m.vmUUID
        BY <1>2, <1>5, <2>3, FinishEffect DEF Create, Machine
      <3> QED BY <2>1, <3>1, FinishOK
    <2> QED BY <2>2, <2>3
  <1>6. CASE ~Create /\ Fail("create")
    <2>1. base' = base /\ m.vmUUID = base.vmUUID
      BY <1>6 DEF createVM, SubmitVM, WaitCreated, PowerOnVM, WaitPoweredOn, WorkerOK
    <2> QED BY <1>6, <2>1, FinishEffect, FinishOK
  <1>7. CASE createVM /\ ~Fail("create")
    <2>1. base' = base /\ m' = m /\ m.vmUUID = base.vmUUID
      BY <1>7 DEF createVM, WorkerOK
    <2>2. CASE pc' = "vmState"
      <3>1. PICK u \in Uuids : CreateFinds(u) /\ vm' = u
        BY <1>7, <2>2 DEF createVM
      <3>2. MayRecord(u)
        BY <1>2, <3>1, NoneAssumption DEF CreateFinds, MayRecord, RecordOK, CopyOK, Born, Alive, Machine
      <3>3. MayRecord(vm)'
        BY <1>1, <3>1, <3>2, Inherit DEF MayRecord, Born
      <3> QED BY <2>1, <2>2, <3>3 DEF WorkerOK, Touched
    <2>3. CASE pc' = "submit" /\ Alive = {} /\ vmState' = vmState
      <3>1. machine.vmUUID # None => vmState[machine.vmUUID] = "gone"
        BY <1>2, <2>3 DEF RecordOK, Born, Alive, Machine
      <3> QED BY <1>1, <1>3, <2>1, <2>3, <3>1 DEF WorkerOK, Touched
    <2>4. ~Fault("textNotFound")
      BY DEF Fault, TypeOK, PCTypeOK
    <2> QED BY <1>7, <2>2, <2>3, <2>4 DEF createVM, pcVars
  <1>8. CASE SubmitVM /\ ~Fail("create")
    <2>1. base' = base /\ m' = m /\ m.vmUUID = base.vmUUID /\ pc' = "createWait"
      BY <1>8 DEF SubmitVM, WorkerOK
    <2>2. machine.vmUUID # None => vmState'[machine.vmUUID] = "gone"
      BY <1>2, <1>8 DEF SubmitVM, WorkerOK, VMsKept, Machine
    <2> QED BY <1>1, <1>3, <2>1, <2>2 DEF WorkerOK, Touched
  <1>9. CASE WaitCreated /\ ~Fail("create")
    <2>1. base' = base /\ m' = m /\ m.vmUUID = base.vmUUID /\ pc' = "powerOn" /\ vm' = vm
      BY <1>9 DEF WaitCreated, WorkerOK
    <2>2. vm \in Uuids /\ MayRecord(vm)
      BY <1>9 DEF WaitCreated, MayRecord, Born, Alive, WorkerOK
    <2>3. MayRecord(vm)'
      BY <1>1, <2>1, <2>2, Inherit DEF MayRecord, Born
    <2> QED BY <1>3, <2>1, <2>3 DEF WorkerOK, Touched
  <1>10. CASE (PowerOnVM \/ WaitPoweredOn) /\ ~Fail("create")
    <2>1. base' = base /\ m' = m /\ m.vmUUID = base.vmUUID /\ vm' = vm
      BY <1>10 DEF PowerOnVM, WaitPoweredOn, WorkerOK
    <2>2. pc' \in {"powerWait", "vmState"}
      BY <1>10 DEF PowerOnVM, WaitPoweredOn
    <2>3. vm \in Uuids /\ MayRecord(vm)
      BY <1>10 DEF PowerOnVM, WaitPoweredOn, WorkerOK, TypeOK, LocalTypeOK, VMLabels
    <2>4. MayRecord(vm)'
      BY <1>1, <2>1, <2>3, Inherit DEF MayRecord, Born
    <2> QED BY <1>3, <2>1, <2>2, <2>4 DEF WorkerOK, Touched
  <1> QED BY <1>4, <1>5, <1>6, <1>7, <1>8, <1>9, <1>10

\* Update, up to the patches: what the lookup finds may be recorded.
LEMMA UpdateOK ==
  ASSUME IndInv, WorkerOK, VMsKept, Update \/ updateMachineWithVMState
  PROVE  WorkerOK'
  <1> USE DEF IndInv, ScopeOK, CreateLabels, DeleteLabels
  <1>1. machine'.vmUUID = machine.vmUUID
    BY DEF Update, updateMachineWithVMState, kubeVars
  <1>2. m \in Machine /\ base \in Machine /\ machine \in Machine
    BY DEF TypeOK, ObjectTypeOK, LocalTypeOK
  <1>3. CASE Update
    <2>1. CASE Return
      BY <2>1, ReturnOK
    <2>2. CASE Begin("update") /\ Fail("update")
      BY <2>2, FinishEffect, FinishOK DEF Begin
    <2>3. CASE ~Return /\ ~Fail("update")
      <3>1. PICK u \in Uuids : Finds(m, u) /\ vm' = u /\ m' = [m EXCEPT !.vmUUID = u] /\ pc' = "vmState"
        BY <1>3, <2>3 DEF Update
      <3>2. MayRecord(u)
        BY <1>2, <1>3, <3>1 DEF Update, Finds, WorkerOK, Touched, MayRecord, RecordOK, CopyOK,
           Born, Alive, Machine
      <3>3. m'.vmUUID = u
        BY <1>2, <3>1 DEF Machine
      <3>4. MayRecord(u)'
        BY <1>1, <3>2, Inherit
      <3>5. MayRecord(vm)' /\ MayRecord(m.vmUUID)'
        BY <3>1, <3>3, <3>4 DEF MayRecord, Born
      <3> QED BY <3>1, <3>3, <3>5, NoneAssumption DEF WorkerOK, Touched
    <2> QED BY <1>3, <2>1, <2>2, <2>3 DEF Update
  <1>4. CASE updateMachineWithVMState
    <2>1. vm \in Uuids /\ MayRecord(vm)
      BY <1>4 DEF updateMachineWithVMState, WorkerOK, TypeOK, LocalTypeOK, VMLabels
    <2>2. pc' = "patchSpec" /\ base' = base /\ m'.vmUUID \in {vm, m.vmUUID}
      BY <1>4, StateEffect
    <2>3. CASE m'.vmUUID = vm
      <3>1. MayRecord(m.vmUUID)'
        BY <1>1, <2>1, <2>3, Inherit DEF MayRecord, Born
      <3> QED BY <2>1, <2>2, <2>3, <3>1, FinishOK
    <2>4. CASE m'.vmUUID = m.vmUUID /\ m.vmUUID # base.vmUUID
      <3>1. m.vmUUID \in Uuids /\ MayRecord(m.vmUUID)
        BY <1>2, <1>4, <2>4 DEF updateMachineWithVMState, WorkerOK, Touched, Machine
      <3>2. MayRecord(m.vmUUID)'
        BY <1>1, <2>4, <3>1, Inherit DEF MayRecord, Born
      <3> QED BY <2>2, <2>4, <3>1, <3>2, FinishOK
    <2>5. CASE m'.vmUUID = base.vmUUID
      BY <2>2, <2>5, FinishOK
    <2> QED BY <2>2, <2>3, <2>4, <2>5
  <1> QED BY <1>3, <1>4

\* Delete, up to the patches: VmUUID stays as it was.
LEMMA DeleteOK ==
  ASSUME IndInv, WorkerOK, VMsKept, Delete \/ nodeHasVolumesAttached \/ deleteVM \/ WaitDeleted
  PROVE  WorkerOK'
  <1> USE DEF IndInv, ScopeOK, CreateLabels, DeleteLabels
  <1>1. machine'.vmUUID = machine.vmUUID
    BY DEF Delete, nodeHasVolumesAttached, deleteVM, WaitDeleted, kubeVars
  <1>2. m \in Machine /\ base \in Machine /\ machine \in Machine /\ CopyOK(m)
    BY DEF TypeOK, ObjectTypeOK, LocalTypeOK, WorkerOK, Touched,
       Delete, nodeHasVolumesAttached, deleteVM, WaitDeleted
  <1>3. CopyOK(m)' \/ m' # m
    BY <1>1, <1>2, Inherit DEF CopyOK
  <1>4. CASE Return
    BY <1>4, ReturnOK
  <1>5. m.vmUUID = base'.vmUUID \/ Return \/ Goto("deleteExists")
    BY DEF Delete, Begin, nodeHasVolumesAttached, deleteVM, WaitDeleted, WorkerOK
  <1>6. CASE pc' = "patchSpec" /\ ~Return
    <2>1. m'.vmUUID = m.vmUUID
      BY <1>2, <1>6, FinishEffect DEF Delete, nodeHasVolumesAttached, deleteVM, WaitDeleted, Machine, Goto
    <2>2. ~Goto("deleteExists")
      BY <1>6 DEF Goto
    <2> QED BY <1>5, <1>6, <2>1, <2>2, FinishOK
  <1>7. CASE pc' # "patchSpec" /\ ~Return /\ ~Goto("deleteExists")
    <2>1. m' = m /\ pc' \in {"volumes", "deleteVM", "deleteWait"}
      BY <1>7, FinishEffect DEF Delete, nodeHasVolumesAttached, deleteVM, WaitDeleted
    <2> QED BY <1>3, <1>5, <1>7, <2>1 DEF WorkerOK, Touched
  <1>8. CASE Goto("deleteExists")
    BY <1>3, <1>8 DEF Goto, WorkerOK, Touched
  <1> QED BY <1>4, <1>6, <1>7, <1>8

\* The first patch leaves VmUUID alone, here and in the API server.
LEMMA PatchSpecOK ==
  ASSUME IndInv, WorkerOK, VMsKept, patchMachineSpec
  PROVE  WorkerOK'
  <1> USE DEF IndInv, ScopeOK, CreateLabels, DeleteLabels
  <1>1. CASE Return
    BY <1>1, ReturnOK
  <1>2. CASE ~Return
    <2>1. pc' = "patchStatus" /\ base' = base /\ m'.vmUUID = m.vmUUID
      BY <1>2 DEF patchMachineSpec, MergeSpec, WithStatusCopy, TypeOK, ObjectTypeOK, Machine
    <2>2. machine'.vmUUID = machine.vmUUID
      BY WorkerWrites DEF Worker, ActuatorStep, patchMachineSpec, patchMachineStatus
    <2>3. m.vmUUID # base.vmUUID => m.vmUUID \in Uuids /\ MayRecord(m.vmUUID)
      BY DEF patchMachineSpec, WorkerOK, Touched, TypeOK, LocalTypeOK, Machine
    <2>4. m.vmUUID # base.vmUUID => MayRecord(m.vmUUID)'
      BY <2>1, <2>2, <2>3, Inherit DEF MayRecord, Born
    <2> QED BY <2>1, <2>3, <2>4, NoneAssumption DEF WorkerOK, Touched
  <1> QED BY <1>1, <1>2

-----------------------------------------------------------------------------
(* The second patch is the only step that may change the VmUUID on record. *)

\* What it replaces, it may replace.
LEMMA RecordChange ==
  ASSUME IndInv, WorkerOK, patchMachineStatus
  PROVE  /\ machine'.vmUUID \in Uuids \cup {None}
         /\ machine'.vmUUID # machine.vmUUID =>
              machine'.vmUUID \in Uuids /\ MayRecord(machine'.vmUUID)
         /\ vmState' = vmState
  <1> USE DEF IndInv, ScopeOK, CreateLabels, DeleteLabels
  <1>1. machine'.vmUUID \in {machine.vmUUID, m.vmUUID}
    BY DEF patchMachineStatus, MergeStatus, Merged, TypeOK, ObjectTypeOK, Machine
  <1>2. machine'.vmUUID # machine.vmUUID => m.vmUUID # base.vmUUID
    BY DEF patchMachineStatus, MergeStatus, Merged, TypeOK, ObjectTypeOK, Machine
  <1>3. m.vmUUID # base.vmUUID => m.vmUUID \in Uuids /\ MayRecord(m.vmUUID)
    BY DEF patchMachineStatus, WorkerOK, Touched, TypeOK, LocalTypeOK, Machine
  <1>4. m.vmUUID \in Uuids \cup {None} /\ machine.vmUUID \in Uuids \cup {None}
    BY DEF TypeOK, ObjectTypeOK, LocalTypeOK, Machine
  <1>5. vmState' = vmState
    BY DEF patchMachineStatus, pcVars
  <1> QED BY <1>1, <1>2, <1>3, <1>4, <1>5

\* It records only a VM that exists or has existed, even after a misread.
LEMMA RecordBorn ==
  ASSUME TypeOK, HeldOK, ScopeOK, patchMachineStatus, machine'.vmUUID # machine.vmUUID
  PROVE  machine'.vmUUID \in Uuids /\ Born(machine'.vmUUID)
  <1>1. machine'.vmUUID = m.vmUUID /\ m.vmUUID # base.vmUUID /\ pc = "patchStatus"
    BY DEF patchMachineStatus, MergeStatus, Merged, TypeOK, ObjectTypeOK, Machine
  <1>2. m.vmUUID \in Uuids
    BY <1>1 DEF ScopeOK, Touched, TypeOK, LocalTypeOK, Machine
  <1> QED BY <1>1, <1>2, NoneAssumption DEF HeldOK

\* The second patch publishes VmUUID and hands the API server's answer on.
LEMMA PatchStatusOK ==
  ASSUME IndInv, WorkerOK, patchMachineStatus
  PROVE  /\ RecordOK'
         /\ \A r \in Machine : CopyOK(r) => CopyOK(r)'
         /\ WorkerOK'
  <1> USE DEF IndInv
  <1>1. RecordOK'
    BY RecordChange DEF RecordOK, MayRecord, Born
  <1>2. \A r \in Machine : CopyOK(r) => CopyOK(r)'
    BY RecordChange DEF CopyOK, MayRecord, Machine
  <1>3. CASE Return
    BY <1>1, <1>2, <1>3, ReturnOK
  <1>4. CASE m' = machine' /\ pc' \in {"setFailed", "setPhase", "deleteExists"}
    <2>1. CopyOK(m)'
      BY <1>4 DEF CopyOK
    <2> QED BY <1>1, <1>2, <1>4, <2>1 DEF WorkerOK, Touched
  <1> QED BY <1>3, <1>4 DEF patchMachineStatus, AfterOperation, ReturnTo

-----------------------------------------------------------------------------
(* The finalizer.                                                          *)

\* The worker takes a Machine away only in removeFinalizer, with its own copy current.
LEMMA WorkerRemoves ==
  ASSUME TypeOK, Worker \/ Crash
  PROVE  /\ machine.exists /\ ~machine'.exists =>
              pc = "removeFinalizer" /\ machine = m /\ machine'.vmUUID = m.vmUUID
         /\ ~machine.exists => machine'.vmUUID = machine.vmUUID
  <1> USE DEF TypeOK, ObjectTypeOK
  <1>1. CASE UNCHANGED machine
    BY <1>1
  <1>2. CASE addFinalizer \/ removeFinalizer
    BY <1>2 DEF addFinalizer, removeFinalizer, Machine
  <1>3. CASE setFailed \/ setProvisioning \/ setPhase \/ setDeleting
    BY <1>3 DEF setFailed, setProvisioning, setPhase, setDeleting, updateStatus, Machine
  <1>4. CASE patchMachineSpec \/ patchMachineStatus
    BY <1>4 DEF patchMachineSpec, patchMachineStatus, MergeSpec, MergeStatus, Machine
  <1> QED BY <1>1, <1>2, <1>3, <1>4 DEF Worker, Crash, ControllerStep, ActuatorStep, kubeVars,
         Reconcile, Exists, deleteExists, deleteNode, Create, createVM, SubmitVM, WaitCreated,
         PowerOnVM, WaitPoweredOn, Update, updateMachineWithVMState, Delete,
         nodeHasVolumesAttached, deleteVM, WaitDeleted

\* The labels at which the finalizer may be missing.
Early == {"idle", "addFinalizer", "setDeleting"}

\* The worker goes past those labels only with the finalizer in place.
LEMMA WorkerAdvances ==
  ASSUME TypeOK, Worker \/ Crash, pc \in Early, pc' \notin Early
  PROVE  \/ pc = "idle" /\ cache.finalizer
         \/ pc = "setDeleting" /\ machine.finalizer
  <1>1. ~Return
    BY DEF Return, Early
  <1>2. ~ActuatorStep /\ ~Crash
    BY <1>1 DEF Early, ActuatorStep, Crash, Create, createVM, SubmitVM, WaitCreated, PowerOnVM,
       WaitPoweredOn, Update, updateMachineWithVMState, Delete, nodeHasVolumesAttached, deleteVM,
       WaitDeleted, patchMachineSpec, patchMachineStatus
  <1> QED BY <1>1, <1>2 DEF Worker, Early, ControllerStep, Reconcile, addFinalizer, Exists, setFailed,
         setProvisioning, setPhase, setDeleting, deleteExists, deleteNode, removeFinalizer

\* The worker's steps keep the facts about the finalizer.
LEMMA WorkerFinalizer ==
  ASSUME TypeOK, FinalizerOK, Worker \/ Crash, CacheFollows
  PROVE  FinalizerOK'
  <1>2. MachineKept /\ (~patchMachineStatus => machine'.vmUUID = machine.vmUUID)
    BY WorkerWrites
  <1>3. patchMachineStatus /\ machine.exists => machine.finalizer
    BY DEF patchMachineStatus, FinalizerOK
  <1>4. (machine.exists /\ ~machine.finalizer => machine.vmUUID = None)'
    BY <1>2, <1>3 DEF FinalizerOK, MachineKept
  <1>5. (machine.exists /\ cache.finalizer => machine.finalizer)'
    BY <1>2 DEF FinalizerOK, MachineKept, CacheFollows
  <1>6. (machine.exists /\ pc \notin Early => machine.finalizer)'
    BY <1>2, WorkerAdvances DEF FinalizerOK, MachineKept, Early
  <1> QED BY <1>4, <1>5, <1>6 DEF FinalizerOK, Early

\* UserDelete is the only other step that takes the Machine away: then it
\* has no finalizer, and so nothing is recorded.
LEMMA ActorFinalizer ==
  ASSUME TypeOK, FinalizerOK, KubeActor, CacheFollows
  PROVE  FinalizerOK' /\ (machine.exists /\ ~machine'.exists => machine.vmUUID = None)
  <1>1. MachineKept /\ machine'.vmUUID = machine.vmUUID /\ machine'.finalizer = machine.finalizer
    BY ActorWrites
  <1>2. vmState' = vmState /\ pc' = pc
    BY DEF KubeActor, pcVars, locals
  <1>3. machine.exists /\ ~machine'.exists => ~machine.finalizer
    BY DEF KubeActor, UserDelete, RemoveHook, Cordon, Drain, Draining, NodeJoin, NodeLink, AttachVolumes,
       DetachVolumes, TypeOK, ObjectTypeOK, Machine
  <1> QED BY <1>1, <1>2, <1>3 DEF FinalizerOK, MachineKept, CacheFollows

-----------------------------------------------------------------------------
(* What the worker holds.                                                  *)

\* Where the worker's copy of VmUUID comes from.
LEMMA WorkerCopies ==
  ASSUME TypeOK, Worker \/ Crash
  PROVE  m'.vmUUID \in {None, m.vmUUID, machine.vmUUID, cache.vmUUID, machine'.vmUUID} \/
         (m'.vmUUID \in Alive /\ vmState' = vmState) \/
         (pc = "vmState" /\ m'.vmUUID = vm)
  <1> USE DEF TypeOK, ObjectTypeOK, LocalTypeOK
  <1>1. CASE Return
    BY <1>1 DEF Return, Blank, NewMachine
  <1>2. CASE ControllerStep /\ ~Return
    BY <1>2 DEF ControllerStep, Reconcile, addFinalizer, Exists, setFailed, setProvisioning, setPhase,
       setDeleting, deleteExists, deleteNode, removeFinalizer, Goto, ReturnTo
  <1>3. CASE UNCHANGED m \/ (\E o : Fail(o)) \/ Deleted
    BY <1>3, FinishEffect
  <1>4. CASE Create
    BY <1>1, <1>3, <1>4, FinishEffect DEF Create, Machine
  <1>5. CASE Update
    <2>1. CASE \E u \in Uuids : Finds(m, u) /\ m' = [m EXCEPT !.vmUUID = u]
      BY <1>5, <2>1 DEF Update, Finds, Alive, Machine, pcVars
    <2> QED BY <1>1, <1>3, <1>5, <2>1 DEF Update
  <1>6. CASE updateMachineWithVMState
    BY <1>6, StateEffect DEF updateMachineWithVMState
  <1>7. CASE Delete
    BY <1>1, <1>3, <1>7, FinishEffect DEF Delete, Goto, Machine
  <1>8. CASE patchMachineSpec /\ ~Return
    <2>1. MergeSpec(machine, base, m) \in Machine
      BY MergeType
    <2>2. m' = WithStatusCopy(MergeSpec(machine, base, m), m)
      BY <1>8 DEF patchMachineSpec
    <2> QED BY <2>1, <2>2 DEF WithStatusCopy, Machine
  <1>9. CASE patchMachineStatus /\ ~Return
    BY <1>9 DEF patchMachineStatus, AfterOperation, ReturnTo
  <1> QED BY <1>1, <1>2, <1>3, <1>4, <1>5, <1>6, <1>7, <1>8, <1>9
      DEF Worker, Crash, ActuatorStep, createVM, SubmitVM, WaitCreated, PowerOnVM, WaitPoweredOn,
          nodeHasVolumesAttached, deleteVM, WaitDeleted

\* A worker that handles a VM to be recorded has found it or brought it along.
LEMMA WorkerHolds ==
  ASSUME Worker \/ Crash, pc' \in {"powerOn", "powerWait", "vmState"}
  PROVE  vm' \in Alive \/ (pc \in {"powerOn", "powerWait"} /\ vm' = vm)
  <1>1. ~Return /\ ~Deleted /\ (\A o : ~Fail(o)) /\ (\A rec, u, r : ~Finish(rec, u, r))
    BY DEF Return, Deleted, Fail, Finish
  <1>2. ~ControllerStep /\ ~Crash
    BY <1>1 DEF Crash, ControllerStep, Reconcile, addFinalizer, Exists, setFailed, setProvisioning,
       setPhase, setDeleting, deleteExists, deleteNode, removeFinalizer, Goto, ReturnTo
  <1> QED BY <1>1, <1>2 DEF Worker, ActuatorStep, Create, createVM, CreateFinds, SubmitVM, WaitCreated,
         PowerOnVM, WaitPoweredOn, Update, Finds, updateMachineWithVMState, Delete, Goto,
         nodeHasVolumesAttached, deleteVM, WaitDeleted, patchMachineSpec, patchMachineStatus,
         AfterOperation, ReturnTo

\* Every UUID the worker could record has had a VM, whoever writes the Machine.
LEMMA WorkerHeld ==
  ASSUME TypeOK, TypeOK', VMsKept, RecordOK, HeldOK, Worker \/ Crash, CacheFollows
  PROVE  RecordOK' /\ HeldOK'
  <1>1. /\ machine.vmUUID \in Uuids \cup {None} /\ m.vmUUID \in Uuids \cup {None}
        /\ machine'.vmUUID \in Uuids \cup {None} /\ m'.vmUUID \in Uuids \cup {None}
        /\ cache.vmUUID \in Uuids \cup {None}
    BY DEF TypeOK, ObjectTypeOK, LocalTypeOK, Machine
  <1>2. RecordOK'
    <2>1. machine'.vmUUID \in {machine.vmUUID, m.vmUUID}
      <3>1. CASE patchMachineStatus
        BY <3>1 DEF patchMachineStatus, MergeStatus, Merged, TypeOK, ObjectTypeOK, Machine
      <3> QED BY <3>1, WorkerWrites
    <2> QED BY <1>1, <2>1 DEF RecordOK, HeldOK, VMsKept
  <1>3. (m.vmUUID # None => Born(m.vmUUID))'
    <2>1. CASE m'.vmUUID \in {None, m.vmUUID, machine.vmUUID, cache.vmUUID}
      BY <1>1, <2>1 DEF RecordOK, HeldOK, VMsKept, Born
    <2>2. CASE m'.vmUUID = machine'.vmUUID
      BY <1>2, <2>2 DEF RecordOK, Born
    <2>3. CASE m'.vmUUID \in Alive /\ vmState' = vmState
      BY <2>3 DEF Alive, Born
    <2>4. CASE pc = "vmState" /\ m'.vmUUID = vm
      BY <1>1, <2>4 DEF HeldOK, VMsKept, Born, TypeOK, LocalTypeOK, VMLabels
    <2> QED BY <2>1, <2>2, <2>3, <2>4, WorkerCopies
  <1>4. (pc \in {"powerOn", "powerWait", "vmState"} => Born(vm))'
    <2> SUFFICES ASSUME pc' \in {"powerOn", "powerWait", "vmState"} PROVE Born(vm)'
      OBVIOUS
    <2>1. \/ vm' \in Alive
          \/ pc \in {"powerOn", "powerWait"} /\ vm' = vm
      BY WorkerHolds
    <2>2. Born(vm') /\ vm' \in Uuids
      BY <2>1 DEF HeldOK, Born, Alive, TypeOK, LocalTypeOK, VMLabels
    <2> QED BY <2>2 DEF VMsKept, Born
  <1>5. (cache.vmUUID # None => Born(cache.vmUUID))'
    BY <1>1, <1>2 DEF HeldOK, RecordOK, CacheFollows, VMsKept, Born
  <1> QED BY <1>2, <1>3, <1>4, <1>5 DEF HeldOK

\* A step of the environment keeps what the worker holds.
LEMMA OthersHeld ==
  ASSUME TypeOK, VMsKept, RecordOK', HeldOK, UNCHANGED locals, cache' \in {cache, machine'}
  PROVE  HeldOK'
  <1>1. /\ m.vmUUID \in Uuids \cup {None} /\ (pc \in VMLabels => vm \in Uuids)
        /\ cache.vmUUID \in Uuids \cup {None}
    BY DEF TypeOK, ObjectTypeOK, LocalTypeOK, Machine
  <1> QED BY <1>1 DEF HeldOK, RecordOK, VMsKept, Born, VMLabels, locals

\* No step takes a misread back.
LEMMA MisreadsGrow == TypeOK /\ [Next]_vars => misreads' >= misreads
  <1> SUFFICES ASSUME TypeOK, [Next]_vars PROVE misreads' >= misreads
    OBVIOUS
  <1>1. CASE misreads' = misreads
    BY <1>1 DEF TypeOK, PCTypeOK
  <1> QED BY <1>1, WorkerPCType, ServicePCType DEF Next, KubeActor, CacheSync, vars

-----------------------------------------------------------------------------
(* Deletion.                                                               *)

\* Labels and operation stay in step.
LEMMA OperationStep ==
  ASSUME TypeOK, OperationOK, Worker \/ Crash
  PROVE  OperationOK'
  <1> USE DEF OperationOK, ScopeLabels, CreateLabels, DeleteLabels, PatchLabels
  <1>1. CASE Return
    BY <1>1 DEF Return
  <1>2. CASE pc' \in PatchLabels
    BY <1>2
  <1>3. CASE ControllerStep /\ ~Return
    BY <1>3 DEF ControllerStep, Reconcile, addFinalizer, Exists, setFailed, setProvisioning, setPhase,
       setDeleting, deleteExists, deleteNode, removeFinalizer, Goto, ReturnTo
  <1>4. CASE (Create \/ Update \/ Delete) /\ ~Return /\ pc' \notin PatchLabels
    BY <1>4, FinishEffect DEF Create, Update, Delete, Begin, Goto
  <1>5. CASE (createVM \/ SubmitVM \/ WaitCreated \/ PowerOnVM \/ WaitPoweredOn) /\ pc' \notin PatchLabels
    BY <1>5, FinishEffect DEF createVM, SubmitVM, WaitCreated, PowerOnVM, WaitPoweredOn
  <1>6. CASE (nodeHasVolumesAttached \/ deleteVM \/ WaitDeleted) /\ pc' \notin PatchLabels
    BY <1>6, FinishEffect DEF nodeHasVolumesAttached, deleteVM, WaitDeleted
  <1>7. CASE updateMachineWithVMState
    BY <1>2, <1>7, FinishEffect DEF updateMachineWithVMState
  <1>8. CASE (patchMachineSpec \/ patchMachineStatus) /\ ~Return
    BY <1>2, <1>8 DEF patchMachineSpec, patchMachineStatus, AfterOperation, ReturnTo
  <1> QED BY <1>1, <1>2, <1>3, <1>4, <1>5, <1>6, <1>7, <1>8 DEF Worker, Crash, ActuatorStep

\* An operation sets VmUUID to that of a VM it holds or leaves it alone.
LEMMA ScopeStep ==
  ASSUME TypeOK, ScopeOK, Worker \/ Crash
  PROVE  ScopeOK'
  <1> USE DEF ScopeOK, CreateLabels, DeleteLabels, Touched
  <1>1. m \in Machine /\ machine \in Machine /\ (pc \in VMLabels => vm \in Uuids)
    BY DEF TypeOK, ObjectTypeOK, LocalTypeOK
  <1>2. CASE Return
    BY <1>2 DEF Return
  <1>3. CASE ControllerStep /\ ~Return
    BY <1>3 DEF ControllerStep, Reconcile, addFinalizer, Exists, setFailed, setProvisioning, setPhase,
       setDeleting, deleteExists, deleteNode, removeFinalizer, Goto, ReturnTo
  <1>4. CASE (Create \/ Delete) /\ ~Return
    BY <1>1, <1>4, FinishEffect DEF Create, Delete, Begin, Goto, Machine
  <1>5. CASE Update /\ ~Return
    <2>1. CASE Fail("update")
      BY <1>5, <2>1, FinishEffect DEF Update, Begin
    <2>2. CASE \E u \in Uuids : m' = [m EXCEPT !.vmUUID = u]
      BY <1>1, <1>5, <2>2, NoneAssumption, FinishEffect DEF Update, Machine
    <2> QED BY <1>5, <2>1, <2>2 DEF Update
  <1>6. CASE createVM \/ SubmitVM \/ WaitCreated \/ PowerOnVM \/ WaitPoweredOn
    BY <1>6, FinishEffect DEF createVM, SubmitVM, WaitCreated, PowerOnVM, WaitPoweredOn
  <1>7. CASE nodeHasVolumesAttached \/ deleteVM \/ WaitDeleted
    BY <1>7, FinishEffect DEF nodeHasVolumesAttached, deleteVM, WaitDeleted
  <1>8. CASE updateMachineWithVMState
    <2>1. pc' = "patchSpec" /\ base' = base /\ m'.vmUUID \in {vm, m.vmUUID}
      BY <1>8, StateEffect
    <2>2. vm \in Uuids /\ (m.vmUUID # base.vmUUID => m.vmUUID # None)
      BY <1>1, <1>8 DEF updateMachineWithVMState, VMLabels
    <2> QED BY <2>1, <2>2, NoneAssumption
  <1>9. CASE patchMachineSpec /\ ~Return
    <2>1. pc' = "patchStatus" /\ base' = base /\ m'.vmUUID = m.vmUUID /\ pc = "patchSpec"
      BY <1>1, <1>9 DEF patchMachineSpec, MergeSpec, WithStatusCopy, Machine
    <2> QED BY <2>1
  <1>10. CASE patchMachineStatus /\ ~Return
    BY <1>10 DEF patchMachineStatus, AfterOperation, ReturnTo
  <1> QED BY <1>2, <1>3, <1>4, <1>5, <1>6, <1>7, <1>8, <1>9, <1>10 DEF Worker, Crash, ActuatorStep

\* The worker is at work on a deletion.
AtDeletion ==
    op = "delete" \/ pc \in {"delete", "deleteExists", "deleteNode", "removeFinalizer"}

\* The way through a deletion, by the steps that leave the worker in it.
LEMMA DeletionPath ==
  ASSUME TypeOK, OperationOK, Worker \/ Crash, AtDeletion', ~Return
  PROVE  \/ setDeleting \/ deleteExists \/ deleteNode
         \/ Delete \/ nodeHasVolumesAttached \/ deleteVM \/ WaitDeleted
         \/ (patchMachineSpec \/ patchMachineStatus) /\ op = "delete"
  <1> USE DEF AtDeletion, OperationOK, ScopeLabels, CreateLabels, DeleteLabels, PatchLabels
  <1>1. ~Reconcile /\ ~addFinalizer /\ ~Exists /\ ~setFailed /\ ~setProvisioning /\ ~setPhase
        /\ ~removeFinalizer /\ ~Crash
    BY DEF Reconcile, addFinalizer, Exists, setFailed, setProvisioning, setPhase, removeFinalizer,
       Crash, Goto
  <1>2. ~Create /\ ~Update
    BY FinishEffect DEF Create, Update, Begin
  <1>3. ~createVM /\ ~SubmitVM /\ ~WaitCreated /\ ~PowerOnVM /\ ~WaitPoweredOn
    BY FinishEffect DEF createVM, SubmitVM, WaitCreated, PowerOnVM, WaitPoweredOn
  <1>4. ~updateMachineWithVMState
    BY FinishEffect DEF updateMachineWithVMState
  <1>5. patchMachineSpec \/ patchMachineStatus => op = "delete"
    BY DEF patchMachineSpec, patchMachineStatus, AfterOperation, ReturnTo
  <1> QED BY <1>1, <1>2, <1>3, <1>4, <1>5 DEF Worker, ControllerStep, ActuatorStep

\* The Node is deleted and the finalizer removed on the word of Exists.
LEMMA WorkerLeaves ==
  ASSUME Worker \/ Crash, pc' \in {"deleteNode", "removeFinalizer"}
  PROVE  /\ m' = m
         /\ \/ FindsNone(m)
            \/ deleteExists /\ Decodes /\ misreads' = misreads + 1
            \/ pc = "deleteNode"
  <1>1. ~Return /\ ~Deleted /\ (\A o : ~Fail(o)) /\ (\A rec, u, r : ~Finish(rec, u, r))
    BY DEF Return, Deleted, Fail, Finish
  <1>2. ~ActuatorStep /\ ~Crash
    BY <1>1 DEF Crash, ActuatorStep, Create, createVM, SubmitVM, WaitCreated,
         PowerOnVM, WaitPoweredOn, Update, updateMachineWithVMState, Delete, Goto,
         nodeHasVolumesAttached, deleteVM, WaitDeleted, patchMachineSpec, patchMachineStatus,
         AfterOperation, ReturnTo
  <1>3. CASE deleteExists
    BY <1>1, <1>3 DEF deleteExists, ReadsNone, Fault, Goto
  <1> QED BY <1>1, <1>2, <1>3 DEF Worker, ControllerStep, Reconcile, addFinalizer, Exists, setFailed,
         setProvisioning, setPhase, setDeleting, deleteNode, removeFinalizer, Goto, ReturnTo

\* A worker that has not met n misreads removes the finalizer of a Machine
\* whose VM is gone, provided that this holds of a misread Exists.
LEMMA WorkerGone ==
  ASSUME NEW n \in Nat, TypeOK, VMsKept, HeldOK, GoneUnlessMisread(n), Worker \/ Crash,
         misreads' >= misreads, misreads' \in Nat,
         deleteExists /\ Decodes /\ misreads' = misreads + 1 /\ misreads' < n /\ m.vmUUID # None =>
            vmState[m.vmUUID] = "gone"
  PROVE  GoneUnlessMisread(n)'
  <1>1. machine.vmUUID \in Uuids \cup {None} /\ m.vmUUID \in Uuids \cup {None}
    BY DEF TypeOK, ObjectTypeOK, LocalTypeOK, Machine
  <1>2. misreads \in Nat /\ (misreads' < n => misreads < n)
    BY DEF TypeOK, PCTypeOK
  <1>3. ASSUME misreads' < n, pc' \in {"deleteNode", "removeFinalizer"}, m'.vmUUID # None
        PROVE  vmState'[m'.vmUUID] = "gone"
    <2>1. m' = m /\ (FindsNone(m) \/ (deleteExists /\ Decodes /\ misreads' = misreads + 1)
                                  \/ pc = "deleteNode")
      BY <1>3, WorkerLeaves
    <2>2. vmState[m.vmUUID] = "gone"
      BY <1>1, <1>2, <1>3, <2>1 DEF FindsNone, Alive, HeldOK, Born, GoneUnlessMisread
    <2> QED BY <1>1, <1>3, <2>1, <2>2 DEF VMsKept
  <1>4. ASSUME misreads' < n, ~machine'.exists, machine'.vmUUID # None
        PROVE  vmState'[machine'.vmUUID] = "gone"
    BY <1>1, <1>2, <1>4, WorkerRemoves DEF VMsKept, GoneUnlessMisread
  <1> QED BY <1>3, <1>4 DEF GoneUnlessMisread

\* The environment takes nothing away that is on record.
LEMMA OthersGone ==
  ASSUME NEW n \in Nat, TypeOK, VMsKept, GoneUnlessMisread(n), UNCHANGED locals,
         misreads' >= misreads, misreads' \in Nat, machine'.vmUUID = machine.vmUUID,
         machine.exists /\ ~machine'.exists => machine.vmUUID = None
  PROVE  GoneUnlessMisread(n)'
  <1>1. machine.vmUUID \in Uuids \cup {None} /\ m.vmUUID \in Uuids \cup {None}
    BY DEF TypeOK, ObjectTypeOK, LocalTypeOK, Machine
  <1>2. misreads \in Nat /\ (misreads' < n => misreads < n)
    BY DEF TypeOK, PCTypeOK
  <1> QED BY <1>1, <1>2 DEF GoneUnlessMisread, VMsKept, locals

\* The worker's steps keep what a deletion knows of the VM on record.
LEMMA DeletionStep ==
  ASSUME TypeOK, TypeOK', TasksOK, RecordOK, HeldOK, OperationOK, OperationOK', DeletionSound,
         VMsKept, misreads' >= misreads, Worker \/ Crash
  PROVE  DeletionSound'
  <1> DEFINE Done == \/ pc \in PatchLabels /\ op = "delete" /\ err = "none"
                     \/ pc = "deleteExists" /\ Decodes
             Same == AtDeletion => m.vmUUID = machine.vmUUID
             Base == op = "delete" => base.vmUUID = m.vmUUID
             Held == pc \in DeleteLabels /\ m.vmUUID # None => vm = m.vmUUID
             Gone == misreads = 0 /\ m.vmUUID # None /\ Done => vmState[m.vmUUID] = "gone"
  <1>1. Same /\ Base /\ Held /\ Gone /\ GoneUnlessMisread(2)
    BY DEF DeletionSound, AtDeletion
  <1>2. /\ misreads \in Nat /\ misreads' \in Nat /\ (misreads' = 0 => misreads = 0)
        /\ m.vmUUID \in Uuids \cup {None} /\ m \in Machine /\ machine \in Machine
    BY DEF TypeOK, PCTypeOK, LocalTypeOK, ObjectTypeOK, Machine
  <1>3. GoneUnlessMisread(2)'
    <2>1. deleteExists /\ Decodes /\ misreads' = misreads + 1 /\ misreads' < 2 /\ m.vmUUID # None =>
             vmState[m.vmUUID] = "gone"
      BY <1>1, <1>2 DEF deleteExists
    <2> HIDE DEF Gone
    <2> QED BY <1>1, <1>2, <2>1, WorkerGone
  <1>4. m.vmUUID # None /\ vmState[m.vmUUID] = "gone" => vmState'[m.vmUUID] = "gone"
    BY <1>2 DEF VMsKept
  <1>5. ~patchMachineStatus => machine'.vmUUID = machine.vmUUID
    BY WorkerWrites
  <1>6. config' = config
    BY DEF Worker, Crash, ControllerStep, ActuatorStep, kubeVars, Reconcile, addFinalizer, Exists,
       setFailed, setProvisioning, setPhase, setDeleting, deleteExists, deleteNode, removeFinalizer,
       Create, createVM, SubmitVM, WaitCreated, PowerOnVM, WaitPoweredOn, Update,
       updateMachineWithVMState, Delete, nodeHasVolumesAttached, deleteVM, WaitDeleted,
       patchMachineSpec, patchMachineStatus
  <1>7. (Same /\ Base /\ Held /\ Gone)'
    <2>1. CASE ~AtDeletion'
      BY <2>1 DEF AtDeletion, OperationOK, PatchLabels, Decodes
    <2>2. CASE Return
      BY <2>2 DEF Return, AtDeletion, DeleteLabels, PatchLabels
    <2>3. CASE setDeleting /\ ~Return
      BY <2>3 DEF setDeleting, ReturnTo, AtDeletion, DeleteLabels, PatchLabels
    <2>4. CASE deleteExists /\ ~Return
      BY <1>1, <1>5, <2>4 DEF deleteExists, Goto, AtDeletion, DeleteLabels, PatchLabels,
         patchMachineStatus
    <2>5. CASE deleteNode /\ ~Return
      BY <1>1, <1>5, <2>5 DEF deleteNode, Goto, AtDeletion, DeleteLabels, PatchLabels,
         patchMachineStatus
    <2>6. CASE Delete /\ ~Return
      <3>1. machine' = machine /\ m.vmUUID = machine.vmUUID /\ vmState' = vmState
        BY <1>1, <2>6 DEF Delete, kubeVars, pcVars, AtDeletion
      <3>2. CASE Goto("deleteExists") /\ ~Decodes
        BY <1>1, <1>6, <2>6, <3>1, <3>2 DEF Delete, Goto, AtDeletion, DeleteLabels, PatchLabels, Decodes
      <3>3. CASE Begin("delete") /\ m' = m /\ pc' = "volumes" /\ (\E u \in Uuids : Finds(m, u) /\ vm' = u)
        BY <3>1, <3>3 DEF Begin, Finds, AtDeletion, DeleteLabels, PatchLabels
      <3>4. CASE Begin("delete") /\ Fail("delete")
        BY <1>2, <3>1, <3>4 DEF Begin, Fail, Finish, AtDeletion, DeleteLabels, PatchLabels, Machine
      <3>5. CASE ReadsNone(m) /\ Begin("delete") /\ Finish([m EXCEPT !.ready = "False"], None, "none")
        <4>1. m'.vmUUID = m.vmUUID /\ base' = m /\ pc' = "patchSpec"
          BY <1>2, <3>5 DEF Begin, Finish, Machine
        <4>2. misreads' = 0 => FindsNone(m)
          BY <1>2, <3>5 DEF ReadsNone, Fault
        <4>3. FindsNone(m) /\ m.vmUUID # None => vmState[m.vmUUID] = "gone"
          BY <1>2 DEF FindsNone, Alive, HeldOK, Born
        <4> QED BY <3>1, <4>1, <4>2, <4>3 DEF AtDeletion, DeleteLabels
      <3> QED BY <2>6, <3>2, <3>3, <3>4, <3>5 DEF Delete
    <2>7. CASE nodeHasVolumesAttached \/ deleteVM \/ WaitDeleted
      <3>1. /\ machine' = machine /\ m.vmUUID = machine.vmUUID /\ op = "delete" /\ op' = op
            /\ base' = base /\ base.vmUUID = m.vmUUID /\ (m.vmUUID # None => vm = m.vmUUID)
        BY <1>1, <2>7 DEF nodeHasVolumesAttached, deleteVM, WaitDeleted, kubeVars, AtDeletion,
           OperationOK, DeleteLabels
      <3>2. CASE m' = m /\ vm' = vm /\ pc' \in DeleteLabels
        BY <3>1, <3>2 DEF AtDeletion, DeleteLabels, PatchLabels
      <3>3. CASE Fail("delete")
        BY <1>2, <3>1, <3>3 DEF Fail, Finish, AtDeletion, DeleteLabels, PatchLabels, Machine
      <3>4. CASE Deleted /\ ReadsGone(vm)
        <4>1. m'.vmUUID = m.vmUUID /\ pc' = "patchSpec"
          BY <1>2, <3>4 DEF Deleted, Finish, Machine
        <4>2. misreads' = 0 => vm \notin Alive
          BY <1>2, <3>4 DEF ReadsGone, Fault
        <4>3. vm \notin Alive /\ m.vmUUID # None => vmState[m.vmUUID] = "gone"
          BY <1>2, <3>1 DEF Alive, HeldOK, Born
        <4> QED BY <1>4, <3>1, <4>1, <4>2, <4>3 DEF AtDeletion, DeleteLabels
      <3> QED BY <2>7, <3>2, <3>3, <3>4 DEF nodeHasVolumesAttached, deleteVM, WaitDeleted, DeleteLabels
    <2>8. CASE patchMachineSpec /\ op = "delete" /\ ~Return
      <3>1. /\ pc = "patchSpec" /\ pc' = "patchStatus" /\ m'.vmUUID = m.vmUUID /\ base' = base
            /\ op' = op /\ err' = err /\ vmState' = vmState
        BY <1>2, <2>8 DEF patchMachineSpec, MergeSpec, WithStatusCopy, Machine, pcVars
      <3>2. machine'.vmUUID = machine.vmUUID
        BY <1>5, <3>1 DEF patchMachineStatus
      <3> QED BY <1>1, <1>2, <2>8, <3>1, <3>2 DEF AtDeletion, DeleteLabels, PatchLabels
    <2>9. CASE patchMachineStatus /\ op = "delete" /\ ~Return
      <3>1. pc' = "deleteExists" /\ m' = machine' /\ op' = "none" /\ err = "none" /\ pc = "patchStatus"
        BY <2>9 DEF patchMachineStatus, AfterOperation, ReturnTo
      <3>2. machine'.vmUUID = machine.vmUUID
        BY <1>1, <1>2, <2>9 DEF patchMachineStatus, MergeStatus, Merged, AtDeletion, Machine
      <3> QED BY <1>1, <1>2, <1>4, <2>9, <3>1, <3>2 DEF AtDeletion, DeleteLabels, PatchLabels
    <2> QED BY <2>1, <2>2, <2>3, <2>4, <2>5, <2>6, <2>7, <2>8, <2>9, DeletionPath
  <1> QED BY <1>3, <1>7 DEF DeletionSound, AtDeletion

\* So do the steps of the environment.
LEMMA OthersSound ==
  ASSUME TypeOK, VMsKept, DeletionSound, UNCHANGED locals, config' = config,
         misreads' >= misreads, misreads' \in Nat, machine'.vmUUID = machine.vmUUID,
         machine.exists /\ ~machine'.exists => machine.vmUUID = None
  PROVE  DeletionSound'
  <1>1. m.vmUUID \in Uuids \cup {None} /\ misreads \in Nat
    BY DEF TypeOK, PCTypeOK, LocalTypeOK, Machine
  <1>2. GoneUnlessMisread(2)'
    BY OthersGone DEF DeletionSound
  <1> QED BY <1>1, <1>2 DEF DeletionSound, VMsKept, Decodes, locals

-----------------------------------------------------------------------------
(* The inductive invariant.                                                *)

\* The invariant holds initially: nothing is recorded and nothing runs.
LEMMA IndInvInit == Init => IndInv
  <1> SUFFICES ASSUME Init PROVE IndInv
    OBVIOUS
  <1>1. TypeOK
    BY InitType
  <1>2. machine.exists /\ machine.vmUUID = None /\ cache = machine /\ pc = "idle"
    <2>1. PICK h \in HookChoices : machine = NewMachine(h)
      BY DEF Init, ObjectInit
    <2>2. cache = machine /\ pc = "idle"
      BY DEF Init, ObjectInit, LocalInit
    <2> QED BY <2>1, <2>2 DEF NewMachine
  <1>3. m.vmUUID = None /\ tasks = {}
    BY DEF Init, PCInit, LocalInit, Blank, NewMachine
  <1>4. TasksOK
    BY <1>3 DEF TasksOK
  <1>5. RecordOK
    BY <1>2 DEF RecordOK
  <1>6. FinalizerOK
    BY <1>2 DEF FinalizerOK
  <1>7. CopyOK(cache)
    BY <1>2 DEF CopyOK
  <1>8. WorkerOK
    BY <1>2, <1>3 DEF WorkerOK, CopyOK, Touched
  <1>9. HeldOK
    BY <1>2, <1>3 DEF HeldOK
  <1>10. OperationOK /\ ScopeOK /\ DeletionSound
    BY <1>2 DEF Init, LocalInit, OperationOK, ScopeOK, Touched, ScopeLabels, CreateLabels,
       DeleteLabels, PatchLabels, DeletionSound, GoneUnlessMisread
  <1> QED BY <1>1, <1>4, <1>5, <1>6, <1>7, <1>8, <1>9, <1>10 DEF IndInv

\* Steps of the environment keep the worker's facts.
LEMMA OthersOK ==
  ASSUME IndInv, WorkerOK, VMsKept, UNCHANGED locals, machine'.vmUUID = machine.vmUUID
  PROVE  WorkerOK'
  <1> USE DEF IndInv
  <1>1. m \in Machine /\ base \in Machine /\ machine \in Machine /\ vm \in Uuids \cup {None}
    BY DEF TypeOK, ObjectTypeOK, LocalTypeOK
  <1>2. CopyOK(m) => CopyOK(m)'
    BY <1>1, Inherit DEF CopyOK, locals
  <1>3. m.vmUUID \in Uuids /\ MayRecord(m.vmUUID) => MayRecord(m.vmUUID)'
    BY Inherit DEF MayRecord, Born, locals
  <1>4. vm \in Uuids /\ MayRecord(vm) => MayRecord(vm)'
    BY Inherit DEF MayRecord, Born, locals
  <1>5. pc \in {"powerOn", "powerWait", "vmState"} => vm \in Uuids
    BY DEF TypeOK, LocalTypeOK, VMLabels
  <1>6. m.vmUUID \in Uuids \cup {None} /\ machine.vmUUID \in Uuids \cup {None}
    BY <1>1 DEF Machine
  <1> QED BY <1>2, <1>3, <1>4, <1>5, <1>6 DEF WorkerOK, ScopeOK, Touched, VMsKept, locals

\* A step of the environment keeps the invariant.
LEMMA OthersStep ==
  ASSUME IndInv, TypeOK', TasksOK', VMsKept, FinalizerOK', UNCHANGED locals, config' = config,
         cache' \in {cache, machine'}, misreads' >= misreads,
         machine'.vmUUID = machine.vmUUID,
         machine.exists /\ ~machine'.exists => machine.vmUUID = None
  PROVE  IndInv'
  <1>1. /\ misreads \in Nat /\ misreads' \in Nat /\ (misreads' = 0 => misreads = 0)
        /\ cache \in Machine /\ machine \in Machine
    BY DEF IndInv, TypeOK, PCTypeOK, ObjectTypeOK
  <1>2. RecordOK'
    BY Inherit DEF IndInv
  <1>3. HeldOK'
    BY <1>2, OthersHeld DEF IndInv
  <1>4. OperationOK' /\ ScopeOK'
    BY DEF IndInv, OperationOK, ScopeOK, locals
  <1>5. DeletionSound'
    BY <1>1, OthersSound DEF IndInv
  <1>6. misreads' = 0 => CopyOK(cache)'
    BY <1>1, Inherit DEF IndInv, CopyOK
  <1>7. misreads' = 0 => WorkerOK'
    BY <1>1, OthersOK DEF IndInv
  <1> QED BY <1>2, <1>3, <1>4, <1>5, <1>6, <1>7 DEF IndInv

\* The invariant is inductive: one case per part of Next.
LEMMA IndInvStep == IndInv /\ [Next]_vars => IndInv'
  <1> SUFFICES ASSUME IndInv, [Next]_vars PROVE IndInv'
    OBVIOUS
  <1>1. TypeOK' /\ VMsKept /\ TasksOK' /\ misreads' >= misreads
    BY TypeStep, KeepsVMs, MisreadsGrow DEF IndInv
  <1>2. /\ machine \in Machine /\ cache \in Machine
        /\ (misreads' = 0 => misreads = 0 /\ misreads' = misreads)
    BY <1>1 DEF IndInv, TypeOK, PCTypeOK, ObjectTypeOK
  <1>3. CASE (Worker \/ Crash) /\ CacheFollows
    <2>1. FinalizerOK'
      BY <1>3, WorkerFinalizer DEF IndInv
    <2>2. RecordOK' /\ HeldOK'
      BY <1>1, <1>3, WorkerHeld DEF IndInv
    <2>3. OperationOK' /\ ScopeOK'
      BY <1>3, OperationStep, ScopeStep DEF IndInv
    <2>4. DeletionSound'
      BY <1>1, <1>3, <2>3, DeletionStep DEF IndInv
    <2>5. ASSUME misreads' = 0 PROVE CopyOK(cache)' /\ WorkerOK'
      <3>1. CopyOK(cache) /\ WorkerOK /\ misreads' = misreads
        BY <1>2, <2>5 DEF IndInv
      <3>2. CASE patchMachineStatus
        BY <1>2, <1>3, <3>1, <3>2, PatchStatusOK DEF CopyOK, CacheFollows
      <3>3. CASE ~patchMachineStatus
        <4>1. machine'.vmUUID = machine.vmUUID
          BY <1>3, <3>3, WorkerWrites DEF IndInv
        <4>2. CopyOK(cache)'
          BY <1>1, <1>2, <1>3, <3>1, <4>1, Inherit DEF IndInv, CopyOK, CacheFollows
        <4>3. WorkerOK'
          BY <1>1, <1>3, <3>1, <3>3, ControllerOK, CreateOK, UpdateOK, DeleteOK, PatchSpecOK, ReturnOK
          DEF Worker, ActuatorStep, Crash
        <4> QED BY <4>2, <4>3
      <3> QED BY <3>2, <3>3
    <2> QED BY <1>1, <2>1, <2>2, <2>3, <2>4, <2>5 DEF IndInv
  <1>4. CASE KubeActor /\ CacheFollows
    <2>1. machine'.vmUUID = machine.vmUUID /\ UNCHANGED locals /\ config' = config
      BY <1>4, ActorWrites DEF IndInv, KubeActor, UserDelete, RemoveHook, Cordon, Drain, Draining, NodeJoin, NodeLink,
         AttachVolumes, DetachVolumes
    <2>2. FinalizerOK' /\ (machine.exists /\ ~machine'.exists => machine.vmUUID = None)
      BY <1>4, ActorFinalizer DEF IndInv
    <2> QED BY <1>1, <1>4, <2>1, <2>2, OthersStep DEF CacheFollows
  <1>5. CASE PCNext /\ UNCHANGED <<kubeVars, locals>> /\ CacheFollows
    <2>1. machine' = machine /\ UNCHANGED locals /\ config' = config /\ cache' \in {cache, machine}
      BY <1>5 DEF kubeVars, CacheFollows
    <2>2. FinalizerOK'
      BY <2>1 DEF IndInv, FinalizerOK, locals
    <2> QED BY <1>1, <2>1, <2>2, OthersStep
  <1>6. CASE CacheSync \/ UNCHANGED vars
    <2>1. machine' = machine /\ UNCHANGED locals /\ config' = config /\ cache' \in {cache, machine}
      BY <1>6 DEF CacheSync, kubeVars, vars, locals
    <2>2. FinalizerOK'
      BY <2>1 DEF IndInv, FinalizerOK, locals
    <2> QED BY <1>1, <2>1, <2>2, OthersStep
  <1> QED BY <1>3, <1>4, <1>5, <1>6 DEF Next

\* IndInv holds in every reachable state, whatever the constants are.
THEOREM IndInvHolds == Spec => []IndInv
  <1> QED BY IndInvInit, IndInvStep, PTL DEF Spec

\* When the Machine has left the API server, the VM it records is gone or two
\* errors were misread.
THEOREM RecordedVMGoneHolds == Spec => []RecordedVMGone
  <1>1. IndInv => RecordedVMGone
    BY NoneAssumption DEF IndInv, TypeOK, PCTypeOK, DeletionSound, GoneUnlessMisread,
       RecordedVMGone, Alive
  <1> QED BY <1>1, IndInvHolds, PTL

\* A recorded VmUUID is replaced only after its VM is gone, or after a misread.
THEOREM VmUUIDStableHolds == Spec => VmUUIDStable
  <1> DEFINE Stable == (misreads = 0 /\ machine.vmUUID # None /\ machine'.vmUUID # machine.vmUUID)
                          => machine.vmUUID \notin Alive
  <1>1. IndInv /\ [Next]_vars => [Stable]_vars
    <2> SUFFICES ASSUME IndInv, Next PROVE Stable
      OBVIOUS
    <2>1. CASE (Worker \/ Crash) /\ ~patchMachineStatus
      BY <2>1, WorkerWrites DEF IndInv
    <2>2. CASE patchMachineStatus
      BY <2>2, RecordChange DEF IndInv, MayRecord, Alive
    <2>3. CASE KubeActor
      BY <2>3, ActorWrites DEF IndInv
    <2>4. CASE UNCHANGED kubeVars
      BY <2>4 DEF kubeVars
    <2> QED BY <2>1, <2>2, <2>3, <2>4 DEF Next, CacheSync
  <1> QED BY <1>1, IndInvHolds, PTL DEF Spec, VmUUIDStable

-----------------------------------------------------------------------------
(* Attached volumes.                                                       *)

\* The worker leaves the marks of a drain alone.
LEMMA WorkerDrain ==
  ASSUME TypeOK, Worker \/ Crash
  PROVE  machine'.drained = machine.drained /\ machine'.nodeRef = machine.nodeRef
  <1> USE DEF TypeOK, ObjectTypeOK
  <1>1. CASE UNCHANGED machine
    BY <1>1
  <1>2. CASE addFinalizer \/ removeFinalizer
    BY <1>2 DEF addFinalizer, removeFinalizer, Machine
  <1>3. CASE setFailed \/ setProvisioning \/ setPhase \/ setDeleting
    BY <1>3 DEF setFailed, setProvisioning, setPhase, setDeleting, updateStatus, Machine
  <1>4. CASE patchMachineSpec \/ patchMachineStatus
    BY <1>4 DEF patchMachineSpec, patchMachineStatus, MergeSpec, MergeStatus, Machine
  <1> QED BY <1>1, <1>2, <1>3, <1>4 DEF Worker, Crash, ControllerStep, ActuatorStep, kubeVars,
         Reconcile, Exists, deleteExists, deleteNode, Create, createVM, SubmitVM, WaitCreated,
         PowerOnVM, WaitPoweredOn, Update, updateMachineWithVMState, Delete,
         nodeHasVolumesAttached, deleteVM, WaitDeleted

\* Nor does it cordon or attach.
LEMMA WorkerNodeMarks ==
  ASSUME TypeOK, Worker \/ Crash
  PROVE  \/ node' = NoNode
         \/ node'.cordoned = node.cordoned /\ node'.exists = node.exists /\ node'.volumes = node.volumes
  <1>1. CASE ControllerStep \/ Crash
    BY <1>1 DEF Crash, ControllerStep, Reconcile, addFinalizer, Exists, setFailed, setProvisioning,
       setPhase, setDeleting, deleteExists, deleteNode, removeFinalizer, kubeVars
  <1>2. CASE updateMachineWithVMState
    BY <1>2 DEF updateMachineWithVMState, SetNodeProviderID, TypeOK, ObjectTypeOK, Node
  <1>3. CASE ActuatorStep /\ ~updateMachineWithVMState
    BY <1>3 DEF ActuatorStep, Create, createVM, SubmitVM, WaitCreated, PowerOnVM, WaitPoweredOn,
       Update, Delete, nodeHasVolumesAttached, deleteVM, WaitDeleted,
       patchMachineSpec, patchMachineStatus, kubeVars
  <1> QED BY <1>1, <1>2, <1>3 DEF Worker

\* The way to deleteVM: the drain in setDeleting, then the check.
LEMMA DeletePath ==
  ASSUME Worker \/ Crash, pc' \in {"delete", "volumes", "deleteVM"}
  PROVE  \/ setDeleting /\ pc' = "delete" /\ machine.drained /\ m' = machine'
         \/ Delete /\ pc' = "volumes" /\ m' = m
         \/ nodeHasVolumesAttached /\ pc' = "deleteVM" /\ m' = m /\ (m.nodeRef => ~VolumesAttached)
  <1>1. ~Return
    BY DEF Return
  <1>2. CASE ControllerStep
    BY <1>1, <1>2 DEF ControllerStep, Reconcile, addFinalizer, Exists, setFailed, setProvisioning,
       setPhase, setDeleting, deleteExists, deleteNode, removeFinalizer, Goto, ReturnTo
  <1>3. CASE ActuatorStep
    BY <1>1, <1>3 DEF ActuatorStep, Create, createVM, SubmitVM, WaitCreated, PowerOnVM,
       WaitPoweredOn, Update, updateMachineWithVMState, Delete, nodeHasVolumesAttached, deleteVM,
       WaitDeleted, patchMachineSpec, patchMachineStatus, AfterOperation, ReturnTo, Goto, Fail,
       Finish, Deleted
  <1> QED BY <1>1, <1>2, <1>3 DEF Worker, Crash

\* DrainInv is inductive.
LEMMA DrainInvStep == TypeOK /\ DrainInv /\ [Next]_vars => DrainInv'
  <1> SUFFICES ASSUME TypeOK, DrainInv, [Next]_vars PROVE DrainInv'
    OBVIOUS
  <1>1. CASE Worker \/ Crash
    <2>1. machine'.drained = machine.drained /\ machine'.nodeRef = machine.nodeRef
      BY <1>1, WorkerDrain
    <2>2. node'.cordoned => node.cordoned /\ (VolumesAttached' => VolumesAttached)
      <3>1. CASE node' = NoNode
        BY <3>1 DEF NoNode
      <3>2. CASE node'.cordoned = node.cordoned /\ node'.exists = node.exists /\ node'.volumes = node.volumes
        BY <3>2 DEF VolumesAttached
      <3> QED BY <1>1, <3>1, <3>2, WorkerNodeMarks
    <2>3. CASE pc' \in {"delete", "volumes", "deleteVM"}
      BY <1>1, <2>1, <2>2, <2>3, DeletePath DEF DrainInv, setDeleting, Delete, nodeHasVolumesAttached
    <2> QED BY <2>1, <2>2, <2>3 DEF DrainInv
  <1>2. CASE KubeActor
    <2>1. pc' = pc /\ m' = m
      BY <1>2 DEF KubeActor, locals
    <2>2. CASE Cordon \/ Drain
      <3>1. /\ machine'.nodeRef = machine.nodeRef
            /\ node'.cordoned => node.cordoned \/ machine.nodeRef
        BY <2>2 DEF Cordon, Drain, TypeOK, ObjectTypeOK, Machine, Node
      <3>2. pc \notin {"delete", "volumes", "deleteVM"}
        BY <2>2 DEF Cordon, Drain, Draining, DrainInv
      <3> QED BY <2>1, <3>1, <3>2 DEF DrainInv
    <2>3. CASE UserDelete \/ RemoveHook \/ NodeLink
      BY <2>1, <2>3 DEF UserDelete, RemoveHook, NodeLink, DrainInv, TypeOK, ObjectTypeOK, Machine,
         VolumesAttached
    <2>4. CASE NodeJoin \/ AttachVolumes \/ DetachVolumes
      BY <2>1, <2>4 DEF NodeJoin, AttachVolumes, DetachVolumes, DrainInv, TypeOK, ObjectTypeOK, Node,
         NoNode, VolumesAttached
    <2> QED BY <1>2, <2>2, <2>3, <2>4 DEF KubeActor
  <1>3. CASE UNCHANGED <<machine, node, pc, m>>
    BY <1>3 DEF DrainInv, VolumesAttached
  <1> QED BY <1>1, <1>2, <1>3 DEF Next, CacheSync, kubeVars, locals, vars

\* A cordoned Node is linked, and the check comes before deleteVM.
THEOREM DrainInvHolds == Spec => []DrainInv
  <1>1. Init => DrainInv
    BY DEF Init, ObjectInit, LocalInit, NoNode, DrainInv
  <1> QED BY <1>1, DrainInvStep, TypeCorrect, PTL DEF Spec

\* A delete task for the VM of a cordoned Node starts only without attached volumes.
THEOREM VolumesDetachedHolds == Spec => VolumesDetached
  <1> DEFINE Safe == \A u \in Uuids :
               (<<"delete", u>> \in tasks' \ tasks /\ node.cordoned) => ~VolumesAttached
  <1>1. DrainInv /\ [Next]_vars => [Safe]_vars
    <2> SUFFICES ASSUME DrainInv, Next PROVE Safe
      OBVIOUS
    <2>1. CASE deleteVM
      BY <2>1 DEF deleteVM, DrainInv
    <2>2. CASE PowerOnVM
      BY <2>2 DEF PowerOnVM, Submit, pcVars
    <2>3. CASE tasks' \subseteq tasks
      BY <2>3
    <2>4. CASE (Worker \/ Crash) /\ ~deleteVM /\ ~PowerOnVM
      <3>1. tasks' = tasks
        BY <2>4 DEF Worker, Crash, ControllerStep, ActuatorStep, Reconcile, addFinalizer, Exists,
           setFailed, setProvisioning, setPhase, setDeleting, deleteExists, deleteNode,
           removeFinalizer, Create, createVM, SubmitVM, SubmitCreate, WaitCreated, WaitPoweredOn,
           Update, updateMachineWithVMState, Delete, nodeHasVolumesAttached, WaitDeleted,
           patchMachineSpec, patchMachineStatus, pcVars
      <3> QED BY <2>3, <3>1
    <2>5. CASE PCNext
      BY <2>3, <2>5 DEF PCNext, CreateDone, CreateFailed, PowerOnDone, DeleteDone, ExternalDelete,
         TaskFailed
    <2> QED BY <2>1, <2>2, <2>3, <2>4, <2>5 DEF Next, KubeActor, CacheSync, pcVars
  <1> QED BY <1>1, DrainInvHolds, PTL DEF Spec, VolumesDetached

-----------------------------------------------------------------------------
(* One worker among others: what holds of a worker, and what it guarantees *)
(* to the rest of the system, when it is not the only one that writes the  *)
(* Machine and requests VMs.                                               *)

\* A worker's step keeps what holds of the Machine and of its own copies.
LEMMA WorkerGuarantee ==
  ASSUME TypeOK, TasksOK, RecordOK, FinalizerOK, HeldOK, GoneUnlessMisread(1),
         Worker \/ Crash, CacheFollows
  PROVE  /\ TypeOK' /\ TasksOK' /\ RecordOK' /\ FinalizerOK' /\ HeldOK' /\ GoneUnlessMisread(1)'
         /\ VMsKept /\ MachineKept /\ misreads' >= misreads
  <1>1. TypeOK' /\ TasksOK' /\ VMsKept /\ MachineKept /\ misreads' >= misreads
    BY TypeStep, WorkerKeepsVMs, WorkerWrites, MisreadsGrow DEF Next
  <1>2. misreads \in Nat /\ misreads' \in Nat
    BY <1>1 DEF TypeOK, PCTypeOK
  <1>3. GoneUnlessMisread(1)'
    BY <1>1, <1>2, WorkerGone
  <1> QED BY <1>1, <1>3, WorkerFinalizer, WorkerHeld

\* So do the steps of the other actors and of Prism Central.
LEMMA OthersGuarantee ==
  ASSUME TypeOK, TasksOK, RecordOK, FinalizerOK, GoneUnlessMisread(1), CacheFollows,
         KubeActor \/ (PCNext /\ UNCHANGED <<kubeVars, locals>>)
  PROVE  /\ TypeOK' /\ TasksOK' /\ RecordOK' /\ FinalizerOK' /\ GoneUnlessMisread(1)'
         /\ VMsKept /\ MachineKept /\ misreads' >= misreads /\ UNCHANGED locals
  <1>1. TypeOK' /\ TasksOK' /\ VMsKept /\ misreads' >= misreads
    BY TypeStep, KeepsVMs, MisreadsGrow DEF Next
  <1>2. MachineKept /\ machine'.vmUUID = machine.vmUUID /\ UNCHANGED locals
    BY ActorWrites DEF MachineKept, KubeActor, kubeVars
  <1>3. RecordOK'
    BY <1>1, <1>2, Inherit
  <1>4. FinalizerOK' /\ (machine.exists /\ ~machine'.exists => machine.vmUUID = None)
    <2>1. CASE KubeActor
      BY <2>1, ActorFinalizer
    <2>2. CASE PCNext /\ UNCHANGED <<kubeVars, locals>>
      BY <2>2 DEF FinalizerOK, CacheFollows, locals, kubeVars
    <2> QED BY <2>1, <2>2
  <1>5. misreads' \in Nat
    BY <1>1 DEF TypeOK, PCTypeOK
  <1> QED BY <1>1, <1>2, <1>3, <1>4, <1>5, OthersGone

\* A worker relies on no more than that of a step that is not its own, whether
\* its cache follows or not.
LEMMA WorkerRelies ==
  ASSUME TypeOK, TypeOK', HeldOK, FinalizerOK, GoneUnlessMisread(1), VMsKept, MachineKept,
         misreads' >= misreads, UNCHANGED locals, cache' \in {cache, machine'}, RecordOK',
         (machine.exists /\ ~machine.finalizer => machine.vmUUID = None)',
         (misreads = 0 /\ ~machine.exists /\ machine.vmUUID # None => vmState[machine.vmUUID] = "gone")'
  PROVE  HeldOK' /\ FinalizerOK' /\ GoneUnlessMisread(1)'
  <1>1. HeldOK'
    BY OthersHeld
  <1>2. FinalizerOK'
    BY DEF FinalizerOK, MachineKept, locals
  <1>3. /\ m.vmUUID \in Uuids \cup {None} /\ misreads \in Nat /\ misreads' \in Nat
        /\ (misreads' < 1 => misreads < 1 /\ misreads' = 0)
    BY DEF TypeOK, PCTypeOK, LocalTypeOK, Machine
  <1>4. GoneUnlessMisread(1)'
    BY <1>3 DEF GoneUnlessMisread, VMsKept, locals
  <1> QED BY <1>1, <1>2, <1>4

-----------------------------------------------------------------------------
(* How many VMs a worker asks for.                                         *)

\* The VMs that exist or are being created.
Requested == Alive \cup Creating

\* The VM under creation that the worker waits for, if any.
Watched == IF pc = "createWait" THEN {vm} ELSE {}

\* A worker asks for a VM in SubmitVM alone, and either watches it afterwards
\* or has met a failure.
LEMMA WorkerRequests ==
  ASSUME TypeOK, Worker \/ Crash
  PROVE  /\ faults' \in {faults, faults + 1}
         /\ \/ vmState' = vmState
            \/ /\ pc = "submit"
               /\ \E u \in Uuids : /\ vmState[u] = "free"
                                   /\ vmState' = [vmState EXCEPT ![u] = "creating"]
                                   /\ faults' = faults + 1 \/ (pc' = "createWait" /\ vm' = u)
  <1>1. faults' \in {faults, faults + 1}
    BY DEF NoFault, Fault, ReadsNone, ReadsGone, Worker, Crash, ControllerStep, ActuatorStep, Reconcile, addFinalizer,
       Exists, setFailed, setProvisioning, setPhase, setDeleting, deleteExists, deleteNode,
       removeFinalizer, Create, createVM, SubmitVM, WaitCreated, PowerOnVM, WaitPoweredOn, Update,
       updateMachineWithVMState, Delete, nodeHasVolumesAttached, deleteVM, WaitDeleted,
       patchMachineSpec, patchMachineStatus
  <1>2. CASE SubmitVM
    BY <1>1, <1>2 DEF SubmitVM, SubmitCreate, Fault, pcVars
  <1>3. CASE ~SubmitVM
    <2>1. vmState' = vmState
      BY <1>3 DEF Submit, pcVars, Worker, Crash, ControllerStep, ActuatorStep, Reconcile, addFinalizer,
         Exists, setFailed, setProvisioning, setPhase, setDeleting, deleteExists, deleteNode,
         removeFinalizer, Create, createVM, WaitCreated, PowerOnVM, WaitPoweredOn, Update,
         updateMachineWithVMState, Delete, nodeHasVolumesAttached, deleteVM, WaitDeleted,
         patchMachineSpec, patchMachineStatus
    <2> QED BY <1>1, <2>1
  <1> QED BY <1>2, <1>3

\* It gets there only after a lookup by name found nothing, or was misread.
LEMMA WorkerLooks ==
  ASSUME Worker \/ Crash, pc' = "submit"
  PROVE  pc = "createVM" /\ vmState' = vmState /\ (Alive = {} \/ faults' = faults + 1)
  <1>1. ~Return /\ ~Deleted /\ (\A o : ~Fail(o)) /\ (\A rec, u, r : ~Finish(rec, u, r))
    BY DEF Return, Deleted, Fail, Finish
  <1>2. ~ControllerStep /\ ~Crash
    BY <1>1 DEF Crash, ControllerStep, Reconcile, addFinalizer, Exists, setFailed, setProvisioning,
       setPhase, setDeleting, deleteExists, deleteNode, removeFinalizer, Goto, ReturnTo
  <1> QED BY <1>1, <1>2 DEF Worker, ActuatorStep, Create, createVM, Fault, SubmitVM, WaitCreated, pcVars,
         PowerOnVM, WaitPoweredOn, Update, updateMachineWithVMState, Delete, Goto,
         nodeHasVolumesAttached, deleteVM, WaitDeleted, patchMachineSpec, patchMachineStatus,
         AfterOperation, ReturnTo

\* It stops watching a VM under creation only when it meets a failure.
LEMMA WorkerWatches ==
  ASSUME Worker \/ Crash, pc = "createWait"
  PROVE  vmState' = vmState /\ pc' # "createWait" /\ (vm \notin Creating \/ faults' = faults + 1)
  <1>1. CASE Crash
    BY <1>1 DEF Crash, Fault, Return, pcVars
  <1>2. CASE WaitCreated
    BY <1>2 DEF WaitCreated, Fault, Fail, Finish, Alive, Creating, pcVars
  <1> QED BY <1>1, <1>2 DEF Worker, ControllerStep, ActuatorStep, Reconcile, addFinalizer,
       Exists, setFailed, setProvisioning, setPhase, setDeleting, deleteExists, deleteNode,
       removeFinalizer, Create, createVM, SubmitVM, PowerOnVM, WaitPoweredOn, Update,
       updateMachineWithVMState, Delete, nodeHasVolumesAttached, deleteVM, WaitDeleted,
       patchMachineSpec, patchMachineStatus

\* Prism Central makes no VM that nobody asked for.
LEMMA OthersRequestNone ==
  ASSUME TypeOK, TasksOK, KubeActor \/ PCNext
  PROVE  Creating' \subseteq Creating /\ Requested' \subseteq Requested /\ faults' \in {faults, faults + 1}
  <1> USE DEF TypeOK, PCTypeOK, TasksOK, Requested, Alive, Creating
  <1>1. CASE KubeActor
    BY <1>1 DEF KubeActor, pcVars
  <1>2. CASE \E u \in Uuids : CreateDone(u) \/ CreateFailed(u)
    BY <1>2 DEF CreateDone, CreateFailed, NoFault, Fault
  <1>3. CASE \E u \in Uuids : PowerOnDone(u) \/ DeleteDone(u)
    BY <1>3 DEF PowerOnDone, DeleteDone, NoFault
  <1>4. CASE \E u \in Uuids : ExternalDelete(u)
    BY <1>4 DEF ExternalDelete, Fault
  <1>5. CASE \E t \in tasks : TaskFailed(t)
    BY <1>5 DEF TaskFailed, Fault
  <1> QED BY <1>1, <1>2, <1>3, <1>4, <1>5 DEF PCNext

\* What a worker's step adds to the VMs, and to those that it does not watch:
\* at most one VM each, the former from SubmitVM and the latter with a failure.
\* It goes on to SubmitVM with no VM in sight, or with a failure.
LEMMA WorkerCounts ==
  ASSUME TypeOK, Worker \/ Crash
  PROVE  /\ faults' \in {faults, faults + 1}
         /\ pc' = "submit" => /\ pc # "submit" /\ pc # "createWait" /\ Creating' = Creating
                              /\ Requested' = Requested /\ (Alive = {} \/ faults' = faults + 1)
         /\ \/ Requested' \subseteq Requested
            \/ pc = "submit" /\ \E u \in Uuids : Requested' \subseteq Requested \cup {u}
         /\ \/ Creating' \ Watched' \subseteq Creating \ Watched
            \/ /\ faults' = faults + 1
               /\ \E u \in Uuids : Creating' \ Watched' \subseteq (Creating \ Watched) \cup {u}
  <1>1. faults' \in {faults, faults + 1}
    BY WorkerRequests
  <1>2. CASE vmState' = vmState
    <2>1. Alive' = Alive /\ Creating' = Creating
      BY <1>2 DEF Alive, Creating
    <2>2. pc' = "submit" => pc = "createVM" /\ (Alive = {} \/ faults' = faults + 1)
      BY WorkerLooks
    <2>3. CASE pc = "createWait"
      <3>1. vm \in Uuids
        BY <2>3 DEF TypeOK, LocalTypeOK, VMLabels
      <3> QED BY <1>1, <2>1, <2>2, <2>3, <3>1, WorkerWatches DEF Watched, Requested
    <2>4. CASE pc # "createWait"
      BY <1>1, <2>1, <2>2, <2>4 DEF Watched, Requested
    <2> QED BY <2>3, <2>4
  <1>3. CASE vmState' # vmState
    <2>1. PICK u \in Uuids : /\ vmState' = [vmState EXCEPT ![u] = "creating"]
                             /\ faults' = faults + 1 \/ (pc' = "createWait" /\ vm' = u)
      BY <1>3, WorkerRequests
    <2>2. pc = "submit" /\ pc' # "submit"
      BY <1>3, WorkerRequests, WorkerLooks
    <2>3. Alive' \subseteq Alive /\ Creating' = Creating \cup {u}
      BY <2>1 DEF Alive, Creating, TypeOK, PCTypeOK
    <2> QED BY <1>1, <2>1, <2>2, <2>3 DEF Watched, Requested
  <1> QED BY <1>2, <1>3
=============================================================================
