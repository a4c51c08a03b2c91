---------------------- MODULE MachineRefinementProofs ----------------------
(* The machine controller implements MachineLifecycle, for any set of      *)
(* UUIDs, any failures and any lag of the cache.                           *)
EXTENDS MachineSafetyProofs, MachineRefinement

-----------------------------------------------------------------------------
(* What the steps leave alone.                                             *)

\* The worker never takes a deletion request back, and only two of its steps
\* touch the finalizer or the existence of the Machine.
LEMMA WorkerFrame ==
  ASSUME TypeOK, Worker \/ Crash
  PROVE  /\ machine'.deleting = machine.deleting
         /\ ~addFinalizer /\ ~removeFinalizer =>
              machine'.exists = machine.exists /\ machine'.finalizer = machine.finalizer
  <1> USE DEF TypeOK, ObjectTypeOK
  <1>1. CASE UNCHANGED machine
    BY <1>1
  <1>2. CASE addFinalizer \/ removeFinalizer
    BY <1>2 DEF addFinalizer, removeFinalizer, Machine
  <1>3. CASE setFailed \/ setProvisioning \/ setPhase \/ setDeleting
    BY <1>3 DEF setFailed, setProvisioning, setPhase, setDeleting, updateStatus, Machine
  <1>4. CASE patchMachineSpec \/ patchMachineStatus
    BY <1>4 DEF patchMachineSpec, patchMachineStatus, MergeSpec, MergeStatus, Machine
  <1> QED BY <1>1, <1>2, <1>3, <1>4 DEF Worker, Crash, ControllerStep, ActuatorStep, kubeVars,
         Reconcile, Exists, deleteExists, deleteNode, Create, createVM, SubmitVM, WaitCreated,
         PowerOnVM, WaitPoweredOn, Update, updateMachineWithVMState, Delete,
         nodeHasVolumesAttached, deleteVM, WaitDeleted

\* SubmitVM is the only step of the worker that changes the state of a VM.
LEMMA WorkerVMs ==
  ASSUME Worker \/ Crash
  PROVE  vmState' = vmState \/ (SubmitVM /\ \E u \in Uuids : SubmitCreate(u))
  <1>1. CASE ControllerStep \/ Crash
    BY <1>1 DEF Crash, ControllerStep, Reconcile, addFinalizer, Exists, setFailed, setProvisioning,
       setPhase, setDeleting, deleteExists, deleteNode, removeFinalizer, pcVars
  <1>2. CASE ActuatorStep
    BY <1>2 DEF ActuatorStep, Create, createVM, SubmitVM, WaitCreated, PowerOnVM, WaitPoweredOn,
       Update, updateMachineWithVMState, Delete, nodeHasVolumesAttached, deleteVM, WaitDeleted,
       patchMachineSpec, patchMachineStatus, Submit, pcVars
  <1> QED BY <1>1, <1>2 DEF Worker

\* The other actors: UserDelete is the only one that requests a deletion.
LEMMA ActorFrame ==
  ASSUME TypeOK, KubeActor
  PROVE  \/ /\ machine.exists /\ ~machine.deleting /\ machine'.deleting
            /\ machine'.exists = machine.finalizer
         \/ machine'.exists = machine.exists /\ machine'.deleting = machine.deleting
  BY DEF KubeActor, UserDelete, RemoveHook, Cordon, Drain, Draining, NodeJoin, NodeLink, AttachVolumes,
     DetachVolumes, TypeOK, ObjectTypeOK, Machine

-----------------------------------------------------------------------------
(* The additional invariants.                                              *)

\* They hold initially.
LEMMA RefInvInit == Init => RefInv
  <1> SUFFICES ASSUME Init PROVE RefInv
    OBVIOUS
  <1>1. cache = machine /\ pc = "idle" /\ op = "none" /\ vmState = [u \in Uuids |-> "free"]
    BY DEF Init, ObjectInit, LocalInit, PCInit
  <1>2. \E h : machine = NewMachine(h)
    BY DEF Init, ObjectInit
  <1> QED BY <1>1, <1>2 DEF RefInv, DeletionOK, ProtectOK, RequestOK, DeletionLabels, NewMachine

\* The worker enters the deletion labels only from a copy that is being deleted.
LEMMA WorkerDeletion ==
  ASSUME TypeOK, DeletionOK, Worker \/ Crash
  PROVE  (pc \in DeletionLabels \/ op = "delete" => machine.deleting)'
  <1> USE DEF DeletionOK, DeletionLabels
  <1>1. machine'.deleting = machine.deleting
    BY WorkerFrame
  <1>2. CASE Return
    BY <1>2 DEF Return
  <1>3. CASE ControllerStep /\ ~Return
    BY <1>1, <1>3 DEF ControllerStep, Reconcile, addFinalizer, Exists, setFailed, setProvisioning,
       setPhase, setDeleting, deleteExists, deleteNode, removeFinalizer, Goto, ReturnTo
  <1>4. CASE Create \/ createVM \/ SubmitVM \/ WaitCreated \/ PowerOnVM \/ WaitPoweredOn
    BY <1>1, <1>2, <1>4 DEF Create, createVM, SubmitVM, WaitCreated, PowerOnVM, WaitPoweredOn,
       Begin, Fail, Finish
  <1>5. CASE Update \/ updateMachineWithVMState
    BY <1>1, <1>2, <1>5 DEF Update, updateMachineWithVMState, Begin, Fail, Finish
  <1>6. CASE Delete \/ nodeHasVolumesAttached \/ deleteVM \/ WaitDeleted
    BY <1>1, <1>2, <1>6 DEF Delete, nodeHasVolumesAttached, deleteVM, WaitDeleted
  <1>7. CASE patchMachineSpec \/ patchMachineStatus
    BY <1>1, <1>2, <1>7 DEF patchMachineSpec, patchMachineStatus, AfterOperation, ReturnTo
  <1> QED BY <1>2, <1>3, <1>4, <1>5, <1>6, <1>7 DEF Worker, ActuatorStep, Crash

\* Only Reconcile leads to addFinalizer.
LEMMA WorkerProtect ==
  ASSUME TypeOK, Worker \/ Crash
  PROVE  ProtectOK'
  <1>1. CASE Reconcile
    BY <1>1 DEF Reconcile, ProtectOK
  <1>2. CASE ~Reconcile
    <2>1. pc' # "addFinalizer"
      <3>1. CASE Return
        BY <3>1 DEF Return
      <3>2. CASE ControllerStep /\ ~Return
        BY <1>2, <3>2 DEF ControllerStep, addFinalizer, Exists, setFailed, setProvisioning,
           setPhase, setDeleting, deleteExists, deleteNode, removeFinalizer, Goto, ReturnTo
      <3>3. CASE ActuatorStep /\ ~Return
        BY <3>3 DEF ActuatorStep, Create, createVM, SubmitVM, WaitCreated, PowerOnVM,
           WaitPoweredOn, Update, updateMachineWithVMState, Delete, nodeHasVolumesAttached,
           deleteVM, WaitDeleted, patchMachineSpec, patchMachineStatus, AfterOperation, ReturnTo,
           Goto, Fail, Finish, Deleted
      <3> QED BY <3>1, <3>2, <3>3 DEF Worker, Crash
    <2> QED BY <2>1 DEF ProtectOK
  <1> QED BY <1>1, <1>2

\* A finalizer, once it was there, is there or the Machine is gone.
LEMMA FinalizerLasts ==
  ASSUME MachineKept, TypeOK, TypeOK', machine.finalizer \/ ~machine.exists
  PROVE  machine'.finalizer \/ ~machine'.exists
  BY DEF MachineKept

\* SubmitVM comes after the finalizer.
LEMMA WorkerRequest ==
  ASSUME IndInv, TypeOK', RequestOK, Worker \/ Crash
  PROVE  RequestOK'
  <1>1. MachineKept
    BY WorkerWrites DEF IndInv
  <1>2. CASE vmState' = vmState
    BY <1>1, <1>2, FinalizerLasts DEF IndInv, RequestOK
  <1>3. CASE SubmitVM
    BY <1>1, <1>3, FinalizerLasts DEF SubmitVM, IndInv, FinalizerOK, RequestOK
  <1> QED BY <1>2, <1>3, WorkerVMs

\* Prism Central touches no UUID that was not requested.
LEMMA ServiceRequest ==
  ASSUME TypeOK, TasksOK, PCNext
  PROVE  \E u \in Uuids : vmState[u] # "free"
  <1> USE DEF TypeOK, PCTypeOK, TasksOK, Alive, Task
  <1>1. CASE \E u \in Uuids : CreateDone(u) \/ CreateFailed(u) \/ ExternalDelete(u)
    BY <1>1 DEF CreateDone, CreateFailed, ExternalDelete
  <1>2. CASE \E u \in Uuids : PowerOnDone(u) \/ DeleteDone(u)
    BY <1>2 DEF PowerOnDone, DeleteDone
  <1>3. CASE \E t \in tasks : TaskFailed(t)
    BY <1>3 DEF TaskFailed
  <1> QED BY <1>1, <1>2, <1>3 DEF PCNext

\* They are preserved: one case per part of Next.
LEMMA RefInvStep == IndInv /\ RefInv /\ [Next]_vars => RefInv'
  <1> SUFFICES ASSUME IndInv, RefInv, [Next]_vars PROVE RefInv'
    OBVIOUS
  <1> USE DEF RefInv
  <1>1. TypeOK /\ TasksOK /\ TypeOK'
    BY TypeStep DEF IndInv
  <1>2. CASE (Worker \/ Crash) /\ CacheFollows
    <2>1. (cache.deleting => machine.deleting)'
      BY <1>1, <1>2, WorkerFrame DEF DeletionOK, CacheFollows
    <2>2. DeletionOK'
      BY <1>1, <1>2, <2>1, WorkerDeletion DEF DeletionOK
    <2> QED BY <1>1, <1>2, <2>2, WorkerProtect, WorkerRequest
  <1>3. CASE KubeActor /\ CacheFollows
    <2>1. machine.deleting => machine'.deleting
      BY <1>1, <1>3, ActorFrame
    <2>2. UNCHANGED locals /\ vmState' = vmState
      BY <1>3 DEF KubeActor, pcVars
    <2>3. MachineKept
      BY <1>1, <1>3, ActorWrites
    <2>4. DeletionOK'
      BY <1>3, <2>1, <2>2 DEF DeletionOK, CacheFollows, locals
    <2>5. ProtectOK'
      BY <2>2 DEF ProtectOK, locals
    <2>6. RequestOK'
      BY <1>1, <2>2, <2>3, FinalizerLasts DEF RequestOK
    <2> QED BY <2>4, <2>5, <2>6
  <1>4. CASE PCNext /\ UNCHANGED <<kubeVars, locals>> /\ CacheFollows
    <2>1. RequestOK'
      BY <1>1, <1>4, ServiceRequest DEF RequestOK, kubeVars
    <2> QED BY <1>4, <2>1 DEF DeletionOK, ProtectOK, CacheFollows, kubeVars, locals
  <1>5. CASE CacheSync
    BY <1>5 DEF CacheSync, DeletionOK, ProtectOK, RequestOK, kubeVars, pcVars, locals
  <1>6. CASE UNCHANGED vars
    BY <1>6 DEF vars, DeletionOK, ProtectOK, RequestOK
  <1> QED BY <1>2, <1>3, <1>4, <1>5, <1>6 DEF Next

\* A reconcile deletes only what was asked to be deleted, and no VM is
\* requested for a Machine that has not got its finalizer.
THEOREM RefInvHolds == Spec => []RefInv
  <1> QED BY RefInvInit, RefInvStep, IndInvHolds, PTL DEF Spec

-----------------------------------------------------------------------------
(* The refinement.                                                         *)

\* Initial states map to initial states.
LEMMA InitRefines == Init => Lifecycle!Init
  <1> SUFFICES ASSUME Init PROVE Lifecycle!Init
    OBVIOUS
  <1>1. PICK h : machine = NewMachine(h)
    BY DEF Init, ObjectInit
  <1>2. vmState = [u \in Uuids |-> "free"]
    BY DEF Init, PCInit
  <1>3. Life = "new" /\ machine.deleting = FALSE /\ machine.vmUUID = None
    BY <1>1 DEF Life, NewMachine
  <1>4. VMLife = [u \in Uuids |-> "unborn"]
    BY <1>2 DEF VMLife
  <1>5. misreads = 0
    BY DEF Init, PCInit
  <1> QED BY <1>3, <1>4, <1>5 DEF Lifecycle!Init

AbstractStep == [Lifecycle!Next]_(Lifecycle!lifecycleVars)

\* What the abstract specification sees does not change, but for an error that
\* is taken for the absence of a VM.
Stutter ==
    /\ Life' = Life
    /\ machine'.deleting = machine.deleting
    /\ machine'.vmUUID = machine.vmUUID
    /\ VMLife' = VMLife
    /\ misreads' \in {misreads, misreads + 1}

\* Such a step is a stuttering step or Deceive.
LEMMA StutterRefines == Stutter => AbstractStep
  <1>1. CASE Stutter /\ misreads' = misreads
    BY <1>1 DEF Stutter, AbstractStep, Lifecycle!lifecycleVars
  <1>2. CASE Stutter /\ misreads' = misreads + 1
    BY <1>2 DEF Stutter, AbstractStep, Lifecycle!Next, Lifecycle!Deceive
  <1> QED BY <1>1, <1>2 DEF Stutter

\* The worker misreads one error at a time, and none in a step that writes the
\* Machine.
LEMMA WorkerMisreads ==
  ASSUME TypeOK, Worker \/ Crash
  PROVE  /\ misreads' \in {misreads, misreads + 1}
         /\ addFinalizer \/ removeFinalizer \/ patchMachineStatus => misreads' = misreads
  <1>1. ASSUME NoFault \/ \E k : Fault(k) PROVE misreads' \in {misreads, misreads + 1}
    BY <1>1 DEF NoFault, Fault
  <1>2. NoFault \/ \E k : Fault(k)
    <2>1. CASE ControllerStep \/ Crash
      BY <2>1 DEF Crash, ControllerStep, Reconcile, addFinalizer, Exists, setFailed, setProvisioning,
         setPhase, setDeleting, deleteExists, deleteNode, removeFinalizer, ReadsNone
    <2>2. CASE Create \/ createVM \/ SubmitVM \/ WaitCreated \/ PowerOnVM \/ WaitPoweredOn
      BY <2>2 DEF Create, createVM, SubmitVM, WaitCreated, PowerOnVM, WaitPoweredOn
    <2>3. CASE Update \/ updateMachineWithVMState \/ patchMachineSpec \/ patchMachineStatus
      BY <2>3 DEF Update, updateMachineWithVMState, patchMachineSpec, patchMachineStatus
    <2>4. CASE Delete \/ nodeHasVolumesAttached \/ deleteVM \/ WaitDeleted
      BY <2>4 DEF Delete, nodeHasVolumesAttached, deleteVM, WaitDeleted, ReadsNone, ReadsGone
    <2> QED BY <2>1, <2>2, <2>3, <2>4 DEF Worker, ActuatorStep
  <1>3. addFinalizer \/ removeFinalizer \/ patchMachineStatus => misreads' = misreads
    BY DEF addFinalizer, removeFinalizer, patchMachineStatus, NoFault, Fault
  <1> QED BY <1>1, <1>2, <1>3

\* Nor does Prism Central, and the other actors misread nothing.
LEMMA OthersMisreads ==
  ASSUME KubeActor \/ PCNext \/ CacheSync \/ UNCHANGED vars
  PROVE  misreads' = misreads
  BY DEF KubeActor, CacheSync, vars, PCNext, CreateDone, CreateFailed, PowerOnDone, DeleteDone,
     ExternalDelete, TaskFailed, NoFault, Fault

\* A create request is not yet visible.
LEMMA WorkerVMLife ==
  ASSUME TypeOK, Worker \/ Crash
  PROVE  VMLife' = VMLife
  <1>1. CASE vmState' = vmState
    BY <1>1 DEF VMLife
  <1>2. CASE \E u \in Uuids : SubmitCreate(u)
    BY <1>2 DEF VMLife, SubmitCreate, TypeOK, PCTypeOK
  <1> QED BY <1>1, <1>2, WorkerVMs

\* The worker's steps.
LEMMA WorkerRefines ==
  ASSUME IndInv, RefInv, Worker \/ Crash
  PROVE  AbstractStep
  <1> USE DEF IndInv
  <1>1. VMLife' = VMLife /\ machine'.deleting = machine.deleting
    BY WorkerVMLife, WorkerFrame
  <1>2. machine \in Machine /\ m \in Machine
    BY DEF TypeOK, ObjectTypeOK, LocalTypeOK
  <1> USE WorkerMisreads
  <1>3. CASE addFinalizer
    <2>1. CASE machine' = machine
      BY <1>1, <2>1, StutterRefines DEF Stutter, Life
    <2>2. CASE machine = m /\ machine' = [machine EXCEPT !.finalizer = TRUE]
      <3>1. machine.exists /\ ~machine.finalizer
        BY <1>3, <2>2 DEF RefInv, ProtectOK, addFinalizer
      <3>2. machine'.exists /\ machine'.finalizer /\ machine'.vmUUID = machine.vmUUID
        BY <1>2, <2>2, <3>1 DEF Machine
      <3>3. Lifecycle!Protect
        BY <1>1, <1>3, <3>1, <3>2 DEF Lifecycle!Protect, Life
      <3> QED BY <3>3 DEF AbstractStep, Lifecycle!Next
    <2> QED BY <1>3, <2>1, <2>2 DEF addFinalizer
  <1>4. CASE removeFinalizer
    <2>1. CASE machine' = machine
      BY <1>1, <2>1, StutterRefines DEF Stutter, Life
    <2>2. CASE machine = m /\ machine' = [machine EXCEPT !.finalizer = FALSE, !.exists = FALSE]
      <3>1. ~machine'.exists /\ machine'.vmUUID = machine.vmUUID
        BY <1>2, <2>2 DEF Machine
      <3>2. CASE ~machine.exists
        BY <1>1, <3>1, <3>2, StutterRefines DEF Stutter, Life
      <3>3. CASE machine.exists
        <4>1. machine.finalizer /\ machine.deleting
          BY <1>4, <3>3 DEF removeFinalizer, FinalizerOK, RefInv, DeletionOK, DeletionLabels
        <4>2. machine.vmUUID # None => VMLife[machine.vmUUID] = "gone" \/ misreads >= 2
          BY <1>2, <1>4, <2>2 DEF removeFinalizer, DeletionSound, GoneUnlessMisread, VMLife, Machine,
             TypeOK, PCTypeOK
        <4>3. Lifecycle!Release
          BY <1>1, <1>4, <3>1, <3>3, <4>1, <4>2 DEF Lifecycle!Release, Lifecycle!BelievedGone, Life
        <4> QED BY <4>3 DEF AbstractStep, Lifecycle!Next
      <3> QED BY <3>2, <3>3
    <2> QED BY <1>4, <2>1, <2>2 DEF removeFinalizer
  <1>5. CASE patchMachineStatus
    <2>1. Life' = Life
      BY <1>5, WorkerFrame DEF Life, patchMachineStatus, addFinalizer, removeFinalizer
    <2>2. CASE machine'.vmUUID = machine.vmUUID
      BY <1>1, <2>1, <2>2, StutterRefines DEF Stutter
    <2>3. CASE machine'.vmUUID # machine.vmUUID
      <3>1. Life = "protected"
        BY <1>5, <2>3 DEF patchMachineStatus, FinalizerOK, Life
      <3>2. machine'.vmUUID \in Uuids /\ Born(machine'.vmUUID)
        BY <1>5, <2>3, RecordBorn
      <3>3. VMLife[machine'.vmUUID] # "unborn"
        BY <3>2 DEF Born, VMLife
      <3>4. machine.vmUUID # None => VMLife[machine.vmUUID] = "gone" \/ misreads >= 1
        <4>1. CASE misreads = 0
          <5>1. MayRecord(machine'.vmUUID)
            BY <1>5, <2>3, <4>1, RecordChange
          <5> QED BY <1>2, <2>3, <5>1 DEF MayRecord, VMLife, Machine
        <4> QED BY <4>1 DEF TypeOK, PCTypeOK
      <3>5. Lifecycle!Record(machine'.vmUUID)
        BY <1>1, <1>5, <2>1, <3>1, <3>3, <3>4 DEF Lifecycle!Record, Lifecycle!BelievedGone
      <3> QED BY <3>2, <3>5 DEF AbstractStep, Lifecycle!Next
    <2> QED BY <2>2, <2>3
  <1>6. CASE ~addFinalizer /\ ~removeFinalizer /\ ~patchMachineStatus
    <2>1. Life' = Life
      BY <1>6, WorkerFrame DEF Life
    <2>2. machine'.vmUUID = machine.vmUUID
      BY <1>6, WorkerWrites
    <2> QED BY <1>1, <2>1, <2>2, StutterRefines DEF Stutter
  <1> QED BY <1>3, <1>4, <1>5, <1>6

\* The other actors: a deletion request, or nothing.
LEMMA ActorRefines ==
  ASSUME IndInv, KubeActor
  PROVE  AbstractStep
  <1> USE DEF IndInv
  <1>1. machine'.vmUUID = machine.vmUUID /\ machine'.finalizer = machine.finalizer
    BY ActorWrites
  <1>2. VMLife' = VMLife /\ misreads' = misreads
    BY OthersMisreads DEF KubeActor, pcVars, VMLife
  <1>3. CASE machine'.exists = machine.exists /\ machine'.deleting = machine.deleting
    BY <1>1, <1>2, <1>3, StutterRefines DEF Stutter, Life
  <1>4. CASE /\ machine.exists /\ ~machine.deleting /\ machine'.deleting
             /\ machine'.exists = machine.finalizer
    <2>1. machine'.deleting = TRUE
      BY <1>4 DEF KubeActor, UserDelete, RemoveHook, Cordon, Drain, Draining, NodeJoin, NodeLink, AttachVolumes,
         DetachVolumes, TypeOK, ObjectTypeOK, Machine
    <2>2. Lifecycle!Request
      BY <1>1, <1>2, <1>4, <2>1 DEF Lifecycle!Request, Life
    <2> QED BY <2>2 DEF AbstractStep, Lifecycle!Next
  <1> QED BY <1>3, <1>4, ActorFrame

\* Prism Central: a VM appears or vanishes, or nothing.
LEMMA ServiceRefines ==
  ASSUME IndInv, RefInv, PCNext, UNCHANGED machine
  PROVE  AbstractStep
  <1> USE DEF IndInv, TypeOK, PCTypeOK
  <1>1. Life' = Life /\ Life # "new" /\ misreads' = misreads
    BY ServiceRequest, OthersMisreads DEF RefInv, RequestOK, Life
  <1>2. ASSUME NEW u \in Uuids, VMLife[u] # "gone",
               vmState' = [vmState EXCEPT ![u] = "gone"]
        PROVE  AbstractStep
    <2>1. VMLife' = [VMLife EXCEPT ![u] = "gone"]
      BY <1>2 DEF VMLife
    <2>2. Lifecycle!Vanish(u)
      BY <1>1, <1>2, <2>1 DEF Lifecycle!Vanish
    <2> QED BY <2>2 DEF AbstractStep, Lifecycle!Next
  <1>3. CASE \E u \in Uuids : CreateDone(u)
    <2>1. PICK u \in Uuids : CreateDone(u)
      BY <1>3
    <2>2. VMLife' = [VMLife EXCEPT ![u] = "alive"] /\ VMLife[u] = "unborn"
      BY <2>1 DEF CreateDone, VMLife
    <2>3. Lifecycle!Appear(u)
      BY <1>1, <2>2 DEF Lifecycle!Appear
    <2> QED BY <2>3 DEF AbstractStep, Lifecycle!Next
  <1>4. CASE \E u \in Uuids : CreateFailed(u)
    BY <1>2, <1>4 DEF CreateFailed, VMLife
  <1>5. CASE \E u \in Uuids : DeleteDone(u)
    BY <1>2, <1>5 DEF DeleteDone, VMLife, TasksOK, Alive
  <1>6. CASE \E u \in Uuids : ExternalDelete(u)
    BY <1>2, <1>6 DEF ExternalDelete, VMLife, Alive
  <1>7. CASE \E u \in Uuids : PowerOnDone(u)
    <2>1. VMLife' = VMLife
      BY <1>7 DEF PowerOnDone, VMLife, TasksOK, Alive
    <2> QED BY <1>1, <2>1, StutterRefines DEF Stutter
  <1>8. CASE \E t \in tasks : TaskFailed(t)
    <2>1. VMLife' = VMLife
      BY <1>8 DEF TaskFailed, VMLife
    <2> QED BY <1>1, <2>1, StutterRefines DEF Stutter
  <1> QED BY <1>3, <1>4, <1>5, <1>6, <1>7, <1>8 DEF PCNext

\* Every step maps to a step of MachineLifecycle or to a stutter.
LEMMA StepRefines == IndInv /\ RefInv /\ [Next]_vars => AbstractStep
  <1> SUFFICES ASSUME IndInv, RefInv, [Next]_vars PROVE AbstractStep
    OBVIOUS
  <1>1. CASE Worker \/ Crash
    BY <1>1, WorkerRefines
  <1>2. CASE KubeActor
    BY <1>2, ActorRefines
  <1>3. CASE PCNext /\ UNCHANGED <<kubeVars, locals>>
    BY <1>3, ServiceRefines DEF kubeVars
  <1>4. CASE CacheSync \/ UNCHANGED vars
    <2>1. machine' = machine /\ vmState' = vmState
      BY <1>4 DEF CacheSync, vars, kubeVars, pcVars
    <2> QED BY <1>4, <2>1, OthersMisreads, StutterRefines DEF Stutter, Life, VMLife
  <1> QED BY <1>1, <1>2, <1>3, <1>4 DEF Next

\* The machine controller implements MachineLifecycle, whatever fails or is
\* misread and however stale its cache is.
THEOREM Implements == Spec => Promise
  <1> QED BY InitRefines, StepRefines, IndInvHolds, RefInvHolds, PTL
      DEF Spec, Promise, Lifecycle!Spec, AbstractStep
=============================================================================
