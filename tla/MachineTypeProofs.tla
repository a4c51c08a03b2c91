------------------------- MODULE MachineTypeProofs -------------------------
(* Type correctness of the machine controller, for any set of UUIDs, any   *)
(* failures and any cache.                                                 *)
EXTENDS MachineController, TLAPS

-----------------------------------------------------------------------------
(* The operators on Machines return Machines.                              *)

\* The blank and the new Machine are Machines.
LEMMA BlankType == Blank \in Machine /\ \A h \in BOOLEAN : NewMachine(h) \in Machine
  BY DEF Blank, NewMachine, Machine, Phases, ReadyStatus

\* Merge patches of Machines are Machines.
LEMMA MergeType ==
  ASSUME NEW s \in Machine, NEW b \in Machine, NEW l \in Machine
  PROVE  /\ MergeSpec(s, b, l) \in Machine
         /\ MergeStatus(s, b, l) \in Machine
         /\ WithStatusCopy(s, l) \in Machine
  BY DEF MergeSpec, MergeStatus, WithStatusCopy, Merged, Machine

\* updateStatus of the controller returns a Machine.
LEMMA UpdateStatusType ==
  ASSUME NEW s \in Machine, NEW l \in Machine, NEW p \in Phases
  PROVE  updateStatus(s, l, p) \in Machine
  BY DEF updateStatus, Merged, Machine

\* setProviderStatus returns a Machine.
LEMMA SetProviderStatusType ==
  ASSUME NEW s \in Machine, NEW u \in Uuids, NEW shown \in BOOLEAN
  PROVE  setProviderStatus(s, u, shown) \in Machine
  BY DEF setProviderStatus, Machine

\* The absent Node is a Node.
LEMMA NodeType == NoNode \in Node
  BY DEF NoNode, Node

-----------------------------------------------------------------------------

\* The initial states are well typed.
THEOREM InitType == Init => TypeOK
  BY BlankType, NodeType, FaultAssumption, ObjectAssumption
  DEF Init, PCInit, ObjectInit, LocalInit, TypeOK, PCTypeOK, ObjectTypeOK, LocalTypeOK,
      VMStates, Task, ActuatorLabels, ControllerLabels, VMLabels

\* The failures stay within their bound and the misreads among the failures.
FaultsTyped ==
    faults' \in 0 .. MaxFaults /\ misreads' \in 0 .. faults' /\ misreads' >= misreads

\* One more failure, or none, keeps the counts in their types.
LEMMA FaultType ==
  ASSUME PCTypeOK, NEW k, NoFault \/ Fault(k)
  PROVE  FaultsTyped
  BY FaultAssumption DEF PCTypeOK, NoFault, Fault, FaultsTyped

Operations == {"none", "create", "update", "delete"}

\* The ways an action leaves the worker's local state.
LEMMA ReturnType == Return => LocalTypeOK'
  BY BlankType DEF Return, LocalTypeOK, ActuatorLabels, ControllerLabels, VMLabels

\* Handing the Machine back to the controller keeps the types.
LEMMA ReturnToType ==
  ASSUME NEW rec \in Machine, NEW l \in (ActuatorLabels \cup ControllerLabels) \ VMLabels,
         ReturnTo(l, rec)
  PROVE  LocalTypeOK'
  BY BlankType DEF ReturnTo, LocalTypeOK

\* A change of label outside VMLabels keeps the types.
LEMMA GotoType ==
  ASSUME LocalTypeOK, NEW l \in (ActuatorLabels \cup ControllerLabels) \ VMLabels, Goto(l)
  PROVE  LocalTypeOK'
  BY DEF Goto, LocalTypeOK

\* Finishing an operation keeps the types.
LEMMA FinishType ==
  ASSUME NEW rec \in Machine, NEW u \in Uuids \cup {None}, NEW r \in {"none", "error", "invalid"},
         Finish(rec, u, r), base' \in Machine, op' \in Operations
  PROVE  LocalTypeOK'
  BY DEF Finish, LocalTypeOK, ActuatorLabels, ControllerLabels, VMLabels, Operations

\* Failing an operation keeps the types.
LEMMA FailType ==
  ASSUME LocalTypeOK, NEW o, Fail(o), base' \in Machine, op' \in Operations
  PROVE  LocalTypeOK'
  <1>1. [m EXCEPT !.ready = ReadyOnFailure(o)] \in Machine
    BY DEF LocalTypeOK, ReadyOnFailure, Machine, ReadyStatus
  <1> QED BY <1>1, FinishType DEF Fail

\* Starting an operation keeps the types.
LEMMA BeginType ==
  ASSUME LocalTypeOK, NEW o \in Operations, Begin(o)
  PROVE  base' \in Machine /\ op' \in Operations
  BY DEF Begin, LocalTypeOK

-----------------------------------------------------------------------------
(* Prism Central and the failure count.                                    *)

\* Requests to Prism Central keep its types.
LEMMA SubmitType ==
  ASSUME PCTypeOK,
         \/ UNCHANGED pcVars
         \/ \E u \in Uuids : SubmitCreate(u)
         \/ \E k \in {"powerOn", "delete"}, u \in Uuids : Submit(k, u)
  PROVE  vmState' \in [Uuids -> VMStates] /\ tasks' \subseteq Task
  BY DEF PCTypeOK, pcVars, SubmitCreate, Submit, VMStates, Task

\* The worker's steps keep the types of Prism Central's state.
LEMMA WorkerPCType ==
  ASSUME TypeOK, Worker \/ Crash
  PROVE  PCTypeOK' /\ misreads' >= misreads
  <1> USE DEF TypeOK
  <1>1. FaultsTyped
    <2>1. CASE ControllerStep
      BY <2>1, FaultType DEF ControllerStep, Reconcile, addFinalizer, Exists, setFailed, ReadsNone,
         setProvisioning, setPhase, setDeleting, deleteExists, deleteNode, removeFinalizer
    <2>2. CASE ActuatorStep
      BY <2>2, FaultType DEF ActuatorStep, Create, createVM, SubmitVM, WaitCreated, PowerOnVM,
         WaitPoweredOn, Update, updateMachineWithVMState, Delete, nodeHasVolumesAttached,
         deleteVM, WaitDeleted, patchMachineSpec, patchMachineStatus, ReadsNone, ReadsGone
    <2>3. CASE Crash
      BY <2>3, FaultType DEF Crash
    <2> QED BY <2>1, <2>2, <2>3 DEF Worker
  <1>2. \/ UNCHANGED pcVars
        \/ \E u \in Uuids : SubmitCreate(u)
        \/ \E k \in {"powerOn", "delete"}, u \in Uuids : Submit(k, u)
    <2>1. CASE ControllerStep
      BY <2>1 DEF ControllerStep, Reconcile, addFinalizer, Exists, setFailed, setProvisioning,
         setPhase, setDeleting, deleteExists, deleteNode, removeFinalizer
    <2>2. CASE SubmitVM
      BY <2>2 DEF SubmitVM
    <2>3. CASE PowerOnVM
      BY <2>3 DEF PowerOnVM, Alive
    <2>4. CASE deleteVM
      BY <2>4 DEF deleteVM, Alive
    <2>5. CASE ActuatorStep /\ ~SubmitVM /\ ~PowerOnVM /\ ~deleteVM
      BY <2>5 DEF ActuatorStep, Create, createVM, WaitCreated, WaitPoweredOn, Update,
         updateMachineWithVMState, Delete, nodeHasVolumesAttached, WaitDeleted,
         patchMachineSpec, patchMachineStatus
    <2>6. CASE Crash
      BY <2>6 DEF Crash
    <2> QED BY <2>1, <2>2, <2>3, <2>4, <2>5, <2>6 DEF Worker
  <1> QED BY <1>1, <1>2, SubmitType DEF PCTypeOK, FaultsTyped

\* Prism Central's own steps keep the types of its state.
LEMMA ServicePCType ==
  ASSUME TypeOK, PCNext
  PROVE  PCTypeOK' /\ misreads' >= misreads
  <1> USE DEF TypeOK
  <1>1. FaultsTyped
    BY FaultType DEF PCNext, CreateDone, CreateFailed, PowerOnDone, DeleteDone, ExternalDelete,
       TaskFailed
  <1>2. vmState' \in [Uuids -> VMStates]
    BY DEF PCNext, CreateDone, CreateFailed, PowerOnDone, DeleteDone, ExternalDelete, TaskFailed,
       PCTypeOK, VMStates
  <1>3. tasks' \subseteq tasks
    BY DEF PCNext, CreateDone, CreateFailed, PowerOnDone, DeleteDone, ExternalDelete, TaskFailed
  <1> QED BY <1>1, <1>2, <1>3 DEF PCTypeOK, FaultsTyped

-----------------------------------------------------------------------------
(* The worker's local state.                                               *)

\* The controller's steps keep the types of the local state.
LEMMA ControllerLocalType ==
  ASSUME TypeOK, ControllerStep
  PROVE  LocalTypeOK'
  <1> USE DEF TypeOK
  <1>1. CASE Reconcile
    BY <1>1 DEF Reconcile, LocalTypeOK, ObjectTypeOK, ControllerLabels, VMLabels
  <1>2. CASE addFinalizer
    BY <1>2, ReturnType DEF addFinalizer
  <1>3. CASE Exists
    BY <1>3, ReturnType, GotoType DEF Exists, ActuatorLabels, ControllerLabels, VMLabels
  <1>4. CASE setFailed \/ setProvisioning \/ setPhase
    BY <1>4, ReturnType DEF setFailed, setProvisioning, setPhase
  <1>5. CASE setDeleting
    <2>1. updateStatus(machine, m, "Deleting") \in Machine
      BY UpdateStatusType DEF ObjectTypeOK, LocalTypeOK, Phases
    <2> QED BY <1>5, <2>1, ReturnType, ReturnToType DEF setDeleting, ActuatorLabels, VMLabels
  <1>6. CASE deleteExists
    BY <1>6, ReturnType, GotoType DEF deleteExists, ControllerLabels, VMLabels
  <1>7. CASE deleteNode
    BY <1>7, ReturnType, GotoType DEF deleteNode, ControllerLabels, VMLabels
  <1>8. CASE removeFinalizer
    BY <1>8, ReturnType DEF removeFinalizer
  <1> QED BY <1>1, <1>2, <1>3, <1>4, <1>5, <1>6, <1>7, <1>8 DEF ControllerStep

\* A label change that keeps the rest of the local state.
LEMMA StayType ==
  ASSUME LocalTypeOK, base' \in Machine, op' \in Operations, vm' \in Uuids \cup {None},
         m' \in Machine, UNCHANGED err, pc' \in ActuatorLabels,
         pc' \in VMLabels => vm' \in Uuids
  PROVE  LocalTypeOK'
  BY DEF LocalTypeOK, Operations

\* Create keeps the types of the local state.
LEMMA CreateLocalType ==
  ASSUME TypeOK,
         Create \/ createVM \/ SubmitVM \/ WaitCreated \/ PowerOnVM \/ WaitPoweredOn
  PROVE  LocalTypeOK'
  <1> USE DEF TypeOK
  <1>1. CASE Create
    <2>1. [m EXCEPT !.ready = "False"] \in Machine
      BY DEF LocalTypeOK, Machine, ReadyStatus
    <2>2. CASE Return
      BY <2>2, ReturnType
    <2>3. CASE Begin("create") /\ Fail("create")
      BY <2>3, BeginType, FailType DEF Operations
    <2>4. CASE Begin("create") /\ Finish([m EXCEPT !.ready = "False"], None, "invalid")
      BY <2>1, <2>4, BeginType, FinishType DEF Operations
    <2>5. CASE Begin("create") /\ pc' = "createVM" /\ UNCHANGED <<m, vm, err>>
      BY <2>5 DEF Begin, LocalTypeOK, ActuatorLabels, VMLabels
    <2> QED BY <1>1, <2>2, <2>3, <2>4, <2>5 DEF Create
  <1>2. CASE ~Create
    <2>1. base' \in Machine /\ op' \in Operations
      BY <1>2 DEF createVM, SubmitVM, WaitCreated, PowerOnVM, WaitPoweredOn, LocalTypeOK, Operations
    <2>2. CASE Fail("create")
      BY <2>1, <2>2, FailType
    <2>3. CASE ~Fail("create")
      <3>1. m' \in Machine /\ UNCHANGED err
        BY <1>2, <2>3 DEF createVM, SubmitVM, WaitCreated, PowerOnVM, WaitPoweredOn, LocalTypeOK
      <3>2. vm' \in Uuids \cup {None}
        BY <1>2, <2>3 DEF createVM, SubmitVM, WaitCreated, PowerOnVM, WaitPoweredOn, LocalTypeOK
      <3>3. pc' \in ActuatorLabels
        BY <1>2, <2>3 DEF createVM, SubmitVM, WaitCreated, PowerOnVM, WaitPoweredOn, ActuatorLabels
      <3>4. pc' \in VMLabels => vm' \in Uuids
        BY <1>2, <2>3 DEF createVM, SubmitVM, WaitCreated, PowerOnVM, WaitPoweredOn, LocalTypeOK,
           VMLabels
      <3> QED BY <2>1, <3>1, <3>2, <3>3, <3>4, StayType
    <2> QED BY <2>2, <2>3
  <1> QED BY <1>1, <1>2

\* Update keeps the types of the local state.
LEMMA UpdateLocalType ==
  ASSUME TypeOK, Update \/ updateMachineWithVMState
  PROVE  LocalTypeOK'
  <1> USE DEF TypeOK
  <1>1. CASE Update
    <2>1. CASE Return
      BY <2>1, ReturnType
    <2>2. CASE Begin("update") /\ Fail("update")
      BY <2>2, BeginType, FailType DEF Operations
    <2>3. CASE /\ Begin("update")
               /\ \E u \in Uuids : vm' = u /\ m' = [m EXCEPT !.vmUUID = u]
               /\ pc' = "vmState"
               /\ UNCHANGED err
      <3>1. m' \in Machine
        BY <2>3 DEF LocalTypeOK, Machine
      <3> QED BY <2>3, <3>1, BeginType, StayType DEF Operations, ActuatorLabels
    <2> QED BY <1>1, <2>1, <2>2, <2>3 DEF Update
  <1>2. CASE updateMachineWithVMState
    <2> vm \in Uuids
      BY <1>2 DEF updateMachineWithVMState, LocalTypeOK, VMLabels
    <2>1. base' \in Machine /\ op' \in Operations
      BY <1>2 DEF updateMachineWithVMState, LocalTypeOK, Operations
    <2>2. [m EXCEPT !.providerID = vm, !.ready = "True"] \in Machine
      BY <1>2 DEF LocalTypeOK, Machine, ReadyStatus
    <2>3. [m EXCEPT !.providerID = vm, !.ready = ReadyOnFailure(op)] \in Machine
      BY <1>2 DEF LocalTypeOK, Machine, ReadyStatus, ReadyOnFailure
    <2>4. \A shown \in BOOLEAN : StateFailed(shown) \in Machine
      BY <1>2, <2>3, SetProviderStatusType DEF StateFailed
    <2>5. \A shown \in BOOLEAN :
             setProviderStatus([m EXCEPT !.providerID = vm, !.ready = "True"], vm, shown) \in Machine
      BY <1>2, <2>2, SetProviderStatusType
    <2> QED BY <1>2, <2>1, <2>4, <2>5, FinishType DEF updateMachineWithVMState
  <1> QED BY <1>1, <1>2

\* Delete keeps the types of the local state.
LEMMA DeleteLocalType ==
  ASSUME TypeOK, Delete \/ nodeHasVolumesAttached \/ deleteVM \/ WaitDeleted
  PROVE  LocalTypeOK'
  <1> USE DEF TypeOK
  <1>1. CASE Delete
    <2>1. [m EXCEPT !.ready = "False"] \in Machine
      BY DEF LocalTypeOK, Machine, ReadyStatus
    <2>2. CASE Return
      BY <2>2, ReturnType
    <2>3. CASE Begin("delete") /\ Fail("delete")
      BY <2>3, BeginType, FailType DEF Operations
    <2>4. CASE Begin("delete") /\ Finish([m EXCEPT !.ready = "False"], None, "none")
      BY <2>1, <2>4, BeginType, FinishType DEF Operations
    <2>5. CASE Begin("delete") /\ (\E u \in Uuids : vm' = u) /\ pc' = "volumes" /\ UNCHANGED <<m, err>>
      BY <2>5 DEF Begin, LocalTypeOK, ActuatorLabels, VMLabels
    <2>6. CASE Goto("deleteExists")
      BY <2>6, GotoType DEF ControllerLabels, VMLabels
    <2> QED BY <1>1, <2>2, <2>3, <2>4, <2>5, <2>6 DEF Delete
  <1>2. CASE ~Delete
    <2>1. base' \in Machine /\ op' \in Operations
      BY <1>2 DEF nodeHasVolumesAttached, deleteVM, WaitDeleted, LocalTypeOK, Operations
    <2>2. CASE Fail("delete")
      BY <2>1, <2>2, FailType
    <2>3. CASE Deleted
      <3>1. [m EXCEPT !.providerID = None, !.addresses = FALSE, !.ready = "False"] \in Machine
        BY DEF LocalTypeOK, Machine, ReadyStatus
      <3> QED BY <2>1, <2>3, <3>1, FinishType DEF Deleted, LocalTypeOK
    <2>4. CASE ~Fail("delete") /\ ~Deleted
      BY <1>2, <2>4 DEF nodeHasVolumesAttached, deleteVM, WaitDeleted, LocalTypeOK, ActuatorLabels, VMLabels
    <2> QED BY <2>2, <2>3, <2>4
  <1> QED BY <1>1, <1>2

\* patchMachine keeps the types of the local state.
LEMMA PatchLocalType ==
  ASSUME TypeOK, patchMachineSpec \/ patchMachineStatus
  PROVE  LocalTypeOK'
  <1> USE DEF TypeOK
  <1>1. MergeSpec(machine, base, m) \in Machine /\ MergeStatus(machine, base, m) \in Machine
    BY MergeType DEF ObjectTypeOK, LocalTypeOK
  <1>2. CASE patchMachineSpec
    <2>1. CASE Return
      BY <2>1, ReturnType
    <2>2. CASE ~Return
      <3>1. m' \in Machine
        BY <1>1, <1>2, <2>2, MergeType DEF patchMachineSpec, LocalTypeOK
      <3> QED BY <1>2, <2>2, <3>1 DEF patchMachineSpec, LocalTypeOK, ActuatorLabels, VMLabels
    <2> QED BY <2>1, <2>2
  <1>3. CASE patchMachineStatus
    BY <1>1, <1>3, ReturnType, ReturnToType DEF patchMachineStatus, AfterOperation, ControllerLabels, VMLabels
  <1> QED BY <1>2, <1>3

-----------------------------------------------------------------------------
(* The Machine, its cached copy and the Node.                              *)

\* The worker's writes keep the types of the Machine and the Node.
LEMMA WorkerObjectType ==
  ASSUME TypeOK, Worker \/ Crash, CacheFollows
  PROVE  ObjectTypeOK'
  <1> USE DEF TypeOK
  <1>1. machine' \in Machine
    <2>1. CASE UNCHANGED machine
      BY <2>1 DEF ObjectTypeOK
    <2>2. CASE addFinalizer \/ removeFinalizer
      BY <2>2 DEF addFinalizer, removeFinalizer, ObjectTypeOK, Machine
    <2>3. CASE setFailed \/ setProvisioning \/ setPhase \/ setDeleting
      <3>1. m.phase \in Phases /\ PhaseAfterUpdate \in Phases
        BY DEF LocalTypeOK, Machine, PhaseAfterUpdate, Phases
      <3>2. {"Failed", "Provisioning", "Deleting"} \subseteq Phases
        BY DEF Phases
      <3>3. \A p \in Phases : /\ updateStatus(machine, m, p) \in Machine
                              /\ updateStatus(machine, machine, p) \in Machine
        BY UpdateStatusType DEF ObjectTypeOK, LocalTypeOK
      <3> QED BY <2>3, <3>1, <3>2, <3>3 DEF setFailed, setProvisioning, setPhase, setDeleting,
             ObjectTypeOK
    <2>4. CASE patchMachineSpec \/ patchMachineStatus
      BY <2>4, MergeType DEF patchMachineSpec, patchMachineStatus, ObjectTypeOK, LocalTypeOK
    <2> QED BY <2>1, <2>2, <2>3, <2>4 DEF Worker, Crash, ControllerStep, ActuatorStep, kubeVars,
           Reconcile, Exists, deleteExists, deleteNode, Create, createVM, SubmitVM, WaitCreated,
           PowerOnVM, WaitPoweredOn, Update, updateMachineWithVMState, Delete,
           nodeHasVolumesAttached, deleteVM, WaitDeleted
  <1>2. node' \in Node
    <2>1. CASE UNCHANGED node
      BY <2>1 DEF ObjectTypeOK
    <2>2. CASE updateMachineWithVMState
      <3> vm \in Uuids
        BY <2>2 DEF updateMachineWithVMState, LocalTypeOK, VMLabels
      <3> QED BY <2>2 DEF updateMachineWithVMState, SetNodeProviderID, ObjectTypeOK, Node
    <2>3. CASE deleteNode
      BY <2>3, NodeType DEF deleteNode, ObjectTypeOK
    <2> QED BY <2>1, <2>2, <2>3 DEF Worker, Crash, ControllerStep, ActuatorStep, kubeVars,
           Reconcile, addFinalizer, Exists, setFailed, setProvisioning, setPhase, setDeleting,
           deleteExists, removeFinalizer, Create, createVM, SubmitVM, WaitCreated, PowerOnVM,
           WaitPoweredOn, Update, Delete, nodeHasVolumesAttached, deleteVM, WaitDeleted,
           patchMachineSpec, patchMachineStatus
  <1>3. config' = config
    BY DEF Worker, Crash, ControllerStep, ActuatorStep, kubeVars,
       Reconcile, addFinalizer, Exists, setFailed, setProvisioning, setPhase, setDeleting,
       deleteExists, deleteNode, removeFinalizer, Create, createVM, SubmitVM, WaitCreated, PowerOnVM,
       WaitPoweredOn, Update, updateMachineWithVMState, Delete, nodeHasVolumesAttached, deleteVM,
       WaitDeleted, patchMachineSpec, patchMachineStatus
  <1> QED BY <1>1, <1>2, <1>3 DEF ObjectTypeOK, CacheFollows

\* The other actors' writes keep the types of the Machine and the Node.
LEMMA ActorObjectType ==
  ASSUME TypeOK, KubeActor, CacheFollows
  PROVE  ObjectTypeOK'
  <1> USE DEF TypeOK
  <1>1. machine' \in Machine
    BY DEF KubeActor, UserDelete, RemoveHook, Cordon, Drain, Draining, NodeJoin, NodeLink, AttachVolumes,
       DetachVolumes, ObjectTypeOK, Machine
  <1>2. node' \in Node
    BY DEF KubeActor, UserDelete, RemoveHook, Cordon, Drain, Draining, NodeJoin, NodeLink, AttachVolumes,
       DetachVolumes, ObjectTypeOK, Node, NoNode
  <1>3. config' = config
    BY DEF KubeActor, UserDelete, RemoveHook, Cordon, Drain, Draining, NodeJoin, NodeLink, AttachVolumes,
       DetachVolumes
  <1> QED BY <1>1, <1>2, <1>3 DEF ObjectTypeOK, CacheFollows

-----------------------------------------------------------------------------

\* Every step keeps the types: one case per part of Next.
LEMMA TypeStep == TypeOK /\ [Next]_vars => TypeOK'
  <1> SUFFICES ASSUME TypeOK, [Next]_vars PROVE TypeOK'
    OBVIOUS
  <1>1. CASE (Worker \/ Crash) /\ CacheFollows
    <2>1. LocalTypeOK'
      BY <1>1, ControllerLocalType, CreateLocalType, UpdateLocalType, DeleteLocalType,
         PatchLocalType, ReturnType DEF Worker, ActuatorStep, Crash
    <2> QED BY <1>1, <2>1, WorkerPCType, WorkerObjectType DEF TypeOK
  <1>2. CASE KubeActor /\ CacheFollows
    <2>1. PCTypeOK' /\ LocalTypeOK'
      BY <1>2 DEF KubeActor, TypeOK, PCTypeOK, LocalTypeOK, pcVars, locals
    <2> QED BY <1>2, <2>1, ActorObjectType DEF TypeOK
  <1>3. CASE PCNext /\ UNCHANGED <<kubeVars, locals>> /\ CacheFollows
    <2>1. ObjectTypeOK' /\ LocalTypeOK'
      BY <1>3 DEF TypeOK, ObjectTypeOK, LocalTypeOK, kubeVars, locals, CacheFollows
    <2> QED BY <1>3, <2>1, ServicePCType DEF TypeOK
  <1>4. CASE CacheSync
    BY <1>4 DEF CacheSync, TypeOK, PCTypeOK, ObjectTypeOK, LocalTypeOK, pcVars, kubeVars, locals
  <1>5. CASE UNCHANGED vars
    BY <1>5 DEF vars, TypeOK, PCTypeOK, ObjectTypeOK, LocalTypeOK
  <1> QED BY <1>1, <1>2, <1>3, <1>4, <1>5 DEF Next

\* Type correctness of the whole system: no sequence of steps, failures and
\* stale reads takes a variable out of its type.
THEOREM TypeCorrect == Spec => []TypeOK
  <1> QED BY InitType, TypeStep, PTL DEF Spec
=============================================================================
