------------------------- MODULE MachineFreshProofs -------------------------
(* What holds while the informer cache follows every write, for any set of *)
(* UUIDs and any failures, errors that are misread included: FreshInv is   *)
(* inductive with IndInv and RefInv.                                       *)
EXTENDS MachineRefinementProofs, MachineFresh

-----------------------------------------------------------------------------
(* Who writes what the worker decides on.                                  *)

\* patchMachine writes ProviderID and addresses, updateStatus the phase, nobody
\* else does.
LEMMA WorkerFields ==
  ASSUME TypeOK, Worker \/ Crash
  PROVE  /\ ~patchMachineSpec => machine'.providerID = machine.providerID
         /\ ~patchMachineStatus => machine'.addresses = machine.addresses
         /\ machine'.phase = machine.phase
               \/ setFailed \/ setProvisioning \/ setPhase \/ setDeleting
  <1> USE DEF TypeOK, ObjectTypeOK
  <1>1. CASE UNCHANGED machine
    BY <1>1
  <1>2. CASE addFinalizer \/ removeFinalizer
    BY <1>2 DEF addFinalizer, removeFinalizer, Machine
  <1>3. CASE setFailed \/ setProvisioning \/ setPhase \/ setDeleting
    BY <1>3 DEF setFailed, setProvisioning, setPhase, setDeleting, updateStatus, Machine
  <1>4. CASE patchMachineSpec \/ patchMachineStatus
    BY <1>4 DEF patchMachineSpec, patchMachineStatus, MergeSpec, MergeStatus, Machine
  <1> QED BY <1>1, <1>2, <1>3, <1>4 DEF Worker, Crash, ControllerStep, ActuatorStep, kubeVars,
         Reconcile, Exists, deleteExists, deleteNode, Create, createVM, SubmitVM, WaitCreated,
         PowerOnVM, WaitPoweredOn, Update, updateMachineWithVMState, Delete,
         nodeHasVolumesAttached, deleteVM, WaitDeleted

\* The other actors write neither.
LEMMA ActorFields ==
  ASSUME TypeOK, KubeActor
  PROVE  machine'.providerID = machine.providerID /\ machine'.phase = machine.phase
  BY DEF KubeActor, UserDelete, RemoveHook, Cordon, Drain, Draining, NodeJoin, NodeLink, AttachVolumes,
     DetachVolumes, TypeOK, ObjectTypeOK, Machine

\* The worker writes the Node in two places.
LEMMA WorkerNode ==
  ASSUME Worker \/ Crash
  PROVE  node' = node \/ updateMachineWithVMState \/ deleteNode
  <1>1. CASE ControllerStep \/ Crash
    BY <1>1 DEF Crash, ControllerStep, Reconcile, addFinalizer, Exists, setFailed, setProvisioning,
       setPhase, setDeleting, deleteExists, removeFinalizer, kubeVars
  <1>2. CASE ActuatorStep
    BY <1>2 DEF ActuatorStep, Create, createVM, SubmitVM, WaitCreated, PowerOnVM, WaitPoweredOn,
       Update, Delete, nodeHasVolumesAttached, deleteVM, WaitDeleted,
       patchMachineSpec, patchMachineStatus, kubeVars
  <1> QED BY <1>1, <1>2 DEF Worker

-----------------------------------------------------------------------------
(* The objects.                                                            *)

\* A Node that names a VM that is gone goes on doing so.
LEMMA NodeNamesLast ==
  ASSUME TypeOK, VMsKept, node'.providerID = node.providerID,
         node.providerID # None => Born(node.providerID)
  PROVE  /\ node'.providerID # None => Born(node.providerID)'
         /\ \A u : NodeNames(u) => NodeNames(u)'
  <1>1. node.providerID \in Uuids \cup {None}
    BY DEF TypeOK, ObjectTypeOK, Node
  <1> QED BY <1>1 DEF VMsKept, NodeNames, Born

\* The worker's copy of what patchMachine is about to write.
LEMMA PatchedFields ==
  ASSUME IndInv, RefInv, FreshInv, patchMachineSpec \/ patchMachineStatus
  PROVE  /\ patchMachineSpec /\ machine' # machine => machine'.providerID = m.providerID
         /\ patchMachineStatus /\ machine' # machine => machine'.vmUUID = m.vmUUID
  <1>1. machine \in Machine
    BY DEF IndInv, TypeOK, ObjectTypeOK
  <1>2. CASE patchMachineSpec
    BY <1>1, <1>2 DEF patchMachineSpec, MergeSpec, Merged, Machine, FreshInv, CopiesFresh,
       ScopeLabels, PatchLabels, patchMachineStatus
  <1>3. CASE patchMachineStatus
    BY <1>1, <1>3 DEF patchMachineStatus, MergeStatus, Merged, Machine, FreshInv, CopiesFresh,
       ScopeLabels, PatchLabels, patchMachineSpec
  <1> QED BY <1>2, <1>3

\* The worker's steps keep what holds of the objects.
LEMMA WorkerShared ==
  ASSUME StaleReads = FALSE, IndInv, RefInv, FreshInv, VMsKept, Worker \/ Crash, CacheFollows
  PROVE  SharedFresh'
  <1> USE DEF FreshInv
  <1>1. TypeOK /\ machine'.deleting = machine.deleting /\ cache' = machine'
    BY WorkerFrame DEF IndInv, CacheFollows
  <1>2. VmUUIDNamed'
    <2>1. CASE patchMachineSpec
      <3>1. machine'.vmUUID = machine.vmUUID
        BY <1>1, <2>1, WorkerWrites DEF patchMachineSpec, patchMachineStatus
      <3>2. machine'.providerID \in {m.providerID, machine.providerID}
        BY <2>1, PatchedFields
      <3> QED BY <1>1, <2>1, <3>1, <3>2 DEF patchMachineSpec, SharedFresh, VmUUIDNamed, RecordFresh,
             PatchLabels, RefInv, DeletionOK
    <2>2. CASE patchMachineStatus
      <3>1. machine'.providerID = machine.providerID
        BY <1>1, <2>2, WorkerFields DEF patchMachineSpec, patchMachineStatus
      <3>2. machine'.vmUUID \in {m.vmUUID, machine.vmUUID}
        BY <2>2, PatchedFields
      <3> QED BY <1>1, <2>2, <3>1, <3>2 DEF patchMachineStatus, SharedFresh, VmUUIDNamed, RecordFresh,
             CopiesFresh, PatchLabels, RefInv, DeletionOK
    <2>3. CASE ~patchMachineSpec /\ ~patchMachineStatus
      BY <1>1, <2>3, WorkerFields, WorkerWrites DEF SharedFresh, VmUUIDNamed
    <2> QED BY <2>1, <2>2, <2>3
  <1>3. (node.providerID # None => Born(node.providerID))' /\ NodeNamed'
    <2>1. CASE node' = node /\ machine'.vmUUID = machine.vmUUID
      BY <1>1, <2>1, NodeNamesLast DEF SharedFresh, NodeNamed, NodeNames
    <2>2. CASE patchMachineStatus
      <3>1. machine'.vmUUID \in {m.vmUUID, machine.vmUUID} /\ node' = node
        BY <2>2, PatchedFields DEF patchMachineStatus
      <3> QED BY <1>1, <2>2, <3>1, NodeNamesLast DEF patchMachineStatus, SharedFresh, NodeNamed,
             NodeNames, NodeFresh, PatchLabels
    <2>3. CASE updateMachineWithVMState /\ node' # node
      <3>1. node' = [node EXCEPT !.providerID = vm] /\ vmState' = vmState /\ machine' = machine
        BY <2>3 DEF updateMachineWithVMState, SetNodeProviderID, pcVars
      <3>2. node'.providerID = vm
        BY <1>1, <3>1 DEF TypeOK, ObjectTypeOK, Node
      <3>3. Born(vm) /\ (machine.vmUUID # None => vm = machine.vmUUID)
        BY <2>3 DEF updateMachineWithVMState, IndInv, HeldOK, RecordFresh
      <3> QED BY <3>1, <3>2, <3>3 DEF NodeNamed, Born
    <2>4. CASE deleteNode /\ node' # node
      BY <2>4 DEF deleteNode, NoNode, NodeNamed
    <2> QED BY <1>1, <2>1, <2>2, <2>3, <2>4, WorkerNode, WorkerWrites
         DEF updateMachineWithVMState, deleteNode, patchMachineStatus
  <1> QED BY <1>1, <1>2, <1>3 DEF SharedFresh

-----------------------------------------------------------------------------
(* The worker's own facts, one group of actions at a time.                 *)

LocalFresh == CopiesFresh /\ RecordFresh /\ NodeFresh /\ PhaseFresh

\* A reconcile that ends leaves nothing to keep.
LEMMA ReturnFresh ==
  ASSUME Return
  PROVE  LocalFresh'
  BY DEF Return, LocalFresh, CopiesFresh, RecordFresh, NodeFresh, PhaseFresh,
     ScopeLabels, CreateLabels, DeleteLabels, PatchLabels, ProvisionLabels, Touched

\* The controller's own steps.
LEMMA ControllerFresh ==
  ASSUME IndInv, RefInv, FreshInv, ControllerStep
  PROVE  LocalFresh'
  <1> USE DEF IndInv, FreshInv, LocalFresh, CopiesFresh, OperationOK, RecordFresh, NodeFresh, PhaseFresh,
          ScopeLabels, CreateLabels, DeleteLabels, PatchLabels, ProvisionLabels, Touched
  <1>1. CASE Return
    BY <1>1, ReturnFresh
  <1>2. CASE Reconcile
    <2>1. m' = machine /\ machine' = machine /\ op' = "none"
      BY <1>2 DEF Reconcile, SharedFresh, kubeVars
    <2>2. pc' = "exists" => machine.phase # "Failed" /\ ~machine.deleting
      BY <1>2 DEF Reconcile, SharedFresh
    <2>3. pc' \in {"setDeleting", "addFinalizer", "exists"}
      BY <1>2 DEF Reconcile
    <2> QED BY <2>1, <2>2, <2>3 DEF SharedFresh, VmUUIDNamed
  <1>3. CASE Exists /\ ~Return
    <2>1. m' = m /\ machine' = machine /\ op' = "none"
      BY <1>3 DEF Exists, Goto, kubeVars
    <2>2. pc' \in {"update", "setFailed", "setProvisioning", "create"}
      BY <1>3 DEF Exists, Goto
    <2>3. pc' = "create" => m.vmUUID = None
      BY <1>3 DEF Exists, Goto, machineIsProvisioned
    <2> QED BY <1>3, <2>1, <2>2, <2>3 DEF Exists
  <1>4. CASE (setDeleting \/ deleteExists \/ deleteNode) /\ ~Return
    <2>1. m'.phase = machine'.phase /\ m'.vmUUID = machine'.vmUUID /\ m'.providerID = machine'.providerID
      BY <1>4 DEF setDeleting, deleteExists, deleteNode, Goto, ReturnTo, kubeVars
    <2>2. pc' \in {"delete", "deleteNode", "removeFinalizer"} /\ op' = "none"
      BY <1>4 DEF setDeleting, deleteExists, deleteNode, Goto, ReturnTo
    <2> QED BY <2>1, <2>2
  <1> QED BY <1>1, <1>2, <1>3, <1>4 DEF ControllerStep, addFinalizer, setFailed, setProvisioning,
         setPhase, removeFinalizer

\* The fields of m after Finish with m as it was, but for the condition.
LEMMA ConditionOnly ==
  ASSUME TypeOK, NEW r, NEW u, NEW e, Finish([m EXCEPT !.ready = r], u, e)
  PROVE  /\ pc' = "patchSpec" /\ m'.vmUUID = m.vmUUID /\ m'.providerID = m.providerID
         /\ m'.phase = m.phase /\ m'.addresses = m.addresses /\ m'.nodeRef = m.nodeRef
  BY DEF TypeOK, LocalTypeOK, Machine, Finish

\* An operation that ends without having set anything but the condition, and
\* for a deletion ProviderID, hands on what the Machine has.
LEMMA UnsetFresh ==
  ASSUME IndInv, FreshInv, VMsKept, machine' = machine, node' = node,
         pc' = "patchSpec", m'.phase = m.phase, pc # "idle",
         m'.vmUUID = machine.vmUUID, base'.vmUUID = machine.vmUUID,
         base'.providerID = machine.providerID, op' \in {"create", "update", "delete"},
         op' = "create" => machine.vmUUID = None,
         op' # "delete" => m'.providerID = m.providerID /\ pc \in ProvisionLabels /\ m.vmUUID = machine.vmUUID
  PROVE  LocalFresh'
  <1> USE DEF IndInv
  <1>1. machine.vmUUID # None => NodeNames(machine.vmUUID)'
    BY NodeNamesLast DEF IndInv, FreshInv, SharedFresh, NodeNamed, NodeNames
  <1>2. m'.vmUUID # None => NodeNames(m.vmUUID)'
    BY <1>1 DEF NodeNames
  <1> QED BY <1>2 DEF FreshInv, LocalFresh, CopiesFresh, OperationOK, RecordFresh, NodeFresh, PhaseFresh,
         ScopeLabels, CreateLabels, DeleteLabels, PatchLabels, ProvisionLabels, Touched

\* Create, up to vmState: the Machine has no VmUUID, and its Node, if it names
\* a VM at all, names one that is gone or the one that is found.
LEMMA CreateFresh ==
  ASSUME IndInv, FreshInv, VMsKept,
         Create \/ createVM \/ SubmitVM \/ WaitCreated \/ PowerOnVM \/ WaitPoweredOn
  PROVE  LocalFresh'
  <1> USE DEF IndInv
  <1> DEFINE Labels == CreateLabels \cup {"create"}
  <1>1. TypeOK /\ machine' = machine /\ node' = node
    BY DEF IndInv, Create, createVM, SubmitVM, WaitCreated, PowerOnVM, WaitPoweredOn, kubeVars
  <1>2. pc \in Labels
    BY DEF CreateLabels, Create, createVM, SubmitVM, WaitCreated, PowerOnVM, WaitPoweredOn
  <1>3. /\ m.vmUUID = None /\ machine.vmUUID = None /\ m.providerID = machine.providerID
        /\ m.phase = machine.phase /\ m.phase # "Failed"
    BY <1>2 DEF FreshInv, CopiesFresh, OperationOK, RecordFresh, PhaseFresh, Touched,
       CreateLabels, ProvisionLabels
  <1>4. CASE Return
    BY <1>4, ReturnFresh
  <1>5. CASE ~Return /\ pc' = "patchSpec"
    <2>1. base'.vmUUID = machine.vmUUID /\ base'.providerID = machine.providerID /\ op' = "create"
      BY <1>2, <1>3, <1>5 DEF Create, Begin, createVM, SubmitVM, WaitCreated, PowerOnVM, WaitPoweredOn,
         FreshInv, CopiesFresh, OperationOK, CreateLabels, ScopeLabels
    <2>2. \E r, u, e : Finish([m EXCEPT !.ready = r], u, e)
      BY <1>5 DEF Create, createVM, SubmitVM, WaitCreated, PowerOnVM, WaitPoweredOn, Fail
    <2>3. m'.vmUUID = m.vmUUID /\ m'.providerID = m.providerID /\ m'.phase = m.phase
      BY <1>1, <2>2, ConditionOnly
    <2> QED BY <1>1, <1>2, <1>3, <1>5, <2>1, <2>3, UnsetFresh DEF CreateLabels, ProvisionLabels
  <1>6. CASE ~Return /\ pc' # "patchSpec"
    <2>1. ~Fail("create") /\ \A rec, u, e : ~Finish(rec, u, e)
      BY <1>6 DEF Fail, Finish
    <2>2. m' = m /\ op' = "create" /\ base'.vmUUID = None /\ base'.providerID = m.providerID
      BY <1>2, <1>3, <1>6, <2>1 DEF Create, Begin, createVM, SubmitVM, WaitCreated, PowerOnVM,
         WaitPoweredOn, FreshInv, CopiesFresh, OperationOK, CreateLabels, ScopeLabels
    <2>3. pc' \in CreateLabels \cup {"vmState"}
      BY <1>6, <2>1 DEF Create, createVM, SubmitVM, WaitCreated, PowerOnVM, WaitPoweredOn, CreateLabels
    <2>4. NodeFresh'
      <3>1. node.providerID \in Uuids \cup {None} /\ (node.providerID # None => Born(node.providerID))
        BY <1>1 DEF TypeOK, ObjectTypeOK, Node, FreshInv, SharedFresh
      <3>2. \A u : NodeNames(u) => NodeNames(u)'
        BY <1>1, <3>1, NodeNamesLast
      <3>3. CASE createVM /\ pc' = "vmState"
        <4>1. Alive = {vm'}
          BY <1>3, <2>1, <3>3, NoneAssumption DEF createVM, CreateFinds, Alive
        <4>2. NodeNames(vm')
          BY <3>1, <4>1 DEF NodeNames, Born, Alive
        <4>3. NodeNames(vm)'
          BY <3>2, <4>2 DEF NodeNames
        <4> QED BY <3>3, <4>3 DEF NodeFresh, PatchLabels
      <3>4. CASE createVM /\ pc' = "submit"
        <4>1. NodeNames(None)
          BY <1>3, <3>4 DEF createVM, NodeNames, FreshInv, ProvisionedFresh, ProvisionLabels, CreateLabels
        <4>2. NodeNames(None)'
          BY <3>2, <4>1
        <4> QED BY <3>4, <4>2 DEF NodeFresh, PatchLabels
      <3>5. CASE SubmitVM
        <4>1. NodeNames(None)' /\ pc' = "createWait"
          BY <2>1, <3>2, <3>5 DEF SubmitVM, FreshInv, NodeFresh
        <4> QED BY <4>1 DEF NodeFresh, PatchLabels
      <3>6. CASE WaitCreated \/ PowerOnVM \/ WaitPoweredOn
        <4>1. vm' = vm /\ pc' \in {"powerOn", "powerWait", "vmState"}
          BY <2>1, <3>6 DEF WaitCreated, PowerOnVM, WaitPoweredOn
        <4>2. NodeNames(vm)
          BY <3>6 DEF WaitCreated, PowerOnVM, WaitPoweredOn, FreshInv, NodeFresh, NodeNames
        <4>3. NodeNames(vm)'
          BY <3>2, <4>1, <4>2 DEF NodeNames
        <4> QED BY <4>1, <4>3 DEF NodeFresh, PatchLabels
      <3>7. CASE Create
        BY <1>6, <2>1, <3>7 DEF Create, NodeFresh, PatchLabels
      <3> QED BY <2>1, <3>3, <3>4, <3>5, <3>6, <3>7 DEF createVM
    <2> QED BY <1>1, <1>3, <2>2, <2>3, <2>4 DEF LocalFresh, CopiesFresh, OperationOK, RecordFresh,
           PhaseFresh, ScopeLabels, CreateLabels, DeleteLabels, PatchLabels, ProvisionLabels, Touched
  <1> QED BY <1>4, <1>5, <1>6

\* Update and updateMachineWithVMState: the VM that is found is the one on
\* record, or the only one when nothing is recorded.
LEMMA UpdateFresh ==
  ASSUME IndInv, FreshInv, VMsKept, Update \/ updateMachineWithVMState
  PROVE  LocalFresh'
  <1> USE DEF IndInv
  <1>1. TypeOK /\ machine' = machine /\ m \in Machine /\ node \in Node
    BY DEF IndInv, TypeOK, ObjectTypeOK, LocalTypeOK, Update, updateMachineWithVMState, kubeVars
  <1>2. CASE Return
    BY <1>2, ReturnFresh
  <1>3. CASE Update /\ ~Return
    <2>1. /\ m.vmUUID = machine.vmUUID /\ m.providerID = machine.providerID
          /\ m.phase = machine.phase /\ m.phase # "Failed"
      BY <1>3 DEF Update, FreshInv, CopiesFresh, RecordFresh, PhaseFresh, Touched, ProvisionLabels
    <2>2. base' = m /\ op' = "update" /\ node' = node /\ vmState' = vmState
      BY <1>3 DEF Update, Begin, kubeVars, pcVars
    <2>3. CASE Fail("update")
      <3>1. pc' = "patchSpec" /\ m'.vmUUID = m.vmUUID /\ m'.providerID = m.providerID /\ m'.phase = m.phase
        BY <1>1, <2>3, ConditionOnly DEF Fail
      <3> QED BY <1>1, <1>3, <2>1, <2>2, <3>1, UnsetFresh DEF Update, ProvisionLabels
    <2>4. CASE ~Fail("update")
      <3>1. Finds(m, vm') /\ vm' \in Uuids /\ m' = [m EXCEPT !.vmUUID = vm'] /\ pc' = "vmState"
        BY <1>3, <2>4 DEF Update
      <3>2. m'.vmUUID = vm' /\ m'.phase = m.phase
        BY <1>1, <3>1 DEF Machine
      <3>3. NodeNames(vm')
        <4>1. CASE m.vmUUID # None
          BY <2>1, <3>1, <4>1 DEF Finds, FreshInv, SharedFresh, NodeNamed, NodeNames
        <4>2. CASE m.vmUUID = None
          BY <1>1, <3>1, <4>2 DEF Finds, FreshInv, SharedFresh, NodeNames, Born, Alive, Node
        <4> QED BY <4>1, <4>2
      <3>4. NodeNames(vm)'
        BY <2>2, <3>3 DEF NodeNames
      <3>5. machine.vmUUID # None => vm' = machine.vmUUID
        BY <2>1, <3>1 DEF Finds
      <3> QED BY <1>1, <2>1, <2>2, <3>1, <3>2, <3>4, <3>5 DEF LocalFresh, CopiesFresh, OperationOK,
             RecordFresh, NodeFresh, PhaseFresh, ScopeLabels, CreateLabels, DeleteLabels,
             PatchLabels, ProvisionLabels, Touched
    <2> QED BY <2>3, <2>4
  <1>4. CASE updateMachineWithVMState
    <2>1. /\ base.vmUUID = machine.vmUUID /\ base.providerID = machine.providerID
          /\ op \in {"create", "update"} /\ m.phase = machine.phase /\ m.phase # "Failed"
          /\ op = "create" => machine.vmUUID = None
          /\ m.vmUUID = (IF op = "update" THEN vm ELSE None)
          /\ machine.vmUUID # None => vm = machine.vmUUID
          /\ NodeNames(vm)
      BY <1>4 DEF updateMachineWithVMState, FreshInv, CopiesFresh, OperationOK, RecordFresh,
         NodeFresh, PhaseFresh, ScopeLabels
    <2>2. base' = base /\ op' = op /\ vmState' = vmState
      BY <1>4 DEF updateMachineWithVMState, pcVars
    <2>3. /\ pc' = "patchSpec" /\ m'.providerID = vm /\ m'.phase = m.phase
          /\ m'.vmUUID = vm \/ (op = "create" /\ m'.vmUUID = None)
      <3> DEFINE ready(s) == setProviderStatus([m EXCEPT !.providerID = vm, !.ready = "True"], vm, s)
      <3>1. \A s \in BOOLEAN : ready(s).vmUUID = vm /\ ready(s).providerID = vm /\ ready(s).phase = m.phase
        BY <1>1 DEF setProviderStatus, Machine
      <3>2. \A s \in BOOLEAN :
               /\ StateFailed(s).providerID = vm /\ StateFailed(s).phase = m.phase
               /\ StateFailed(s).vmUUID = vm \/ (op = "create" /\ StateFailed(s).vmUUID = None)
        BY <1>1, <2>1 DEF StateFailed, setProviderStatus, Machine
      <3> HIDE DEF ready
      <3>3. PICK s \in BOOLEAN : Finish(ready(s), vm, "none") \/ Finish(StateFailed(s), vm, "error")
        BY <1>4 DEF updateMachineWithVMState, ready
      <3> QED BY <1>1, <3>1, <3>2, <3>3, FinishEffect
    <2>4. m'.vmUUID # None => NodeNames(m.vmUUID)'
      BY <1>1, <1>4, <2>1, <2>2, <2>3 DEF updateMachineWithVMState, SetNodeProviderID, NodeNames, Node
    <2> QED BY <1>1, <2>1, <2>2, <2>3, <2>4 DEF LocalFresh, CopiesFresh, OperationOK,
           RecordFresh, NodeFresh, PhaseFresh, ScopeLabels, CreateLabels, DeleteLabels,
           PatchLabels, ProvisionLabels, Touched
  <1> QED BY <1>2, <1>3, <1>4

\* Delete, up to the patches: VmUUID stays as it was.
LEMMA DeleteFresh ==
  ASSUME IndInv, FreshInv, VMsKept, Delete \/ nodeHasVolumesAttached \/ deleteVM \/ WaitDeleted
  PROVE  LocalFresh'
  <1> USE DEF IndInv
  <1>1. TypeOK /\ machine' = machine /\ m \in Machine /\ node' = node
    BY DEF IndInv, TypeOK, LocalTypeOK, Delete, nodeHasVolumesAttached, deleteVM, WaitDeleted, kubeVars
  <1>2. pc \in DeleteLabels \cup {"delete"}
    BY DEF Delete, nodeHasVolumesAttached, deleteVM, WaitDeleted, DeleteLabels
  <1>3. m.vmUUID = machine.vmUUID /\ m.providerID = machine.providerID /\ m.phase = machine.phase
    BY <1>2 DEF FreshInv, CopiesFresh, Touched, DeleteLabels
  <1>4. CASE Return
    BY <1>4, ReturnFresh
  <1>5. CASE Delete /\ Goto("deleteExists")
    <2>1. pc' = "deleteExists" /\ m' = m /\ op' = "none"
      BY <1>5 DEF Delete, Goto, FreshInv, OperationOK, ScopeLabels, CreateLabels, DeleteLabels, PatchLabels
    <2> QED BY <1>1, <1>3, <2>1 DEF LocalFresh, CopiesFresh, OperationOK, RecordFresh, NodeFresh,
           PhaseFresh, ScopeLabels, CreateLabels, DeleteLabels, PatchLabels, ProvisionLabels, Touched
  <1>6. CASE ~Return /\ ~Goto("deleteExists")
    <2>1. base'.vmUUID = machine.vmUUID /\ base'.providerID = machine.providerID /\ op' = "delete"
      BY <1>2, <1>3, <1>6 DEF Delete, nodeHasVolumesAttached, deleteVM, WaitDeleted, Begin,
         FreshInv, CopiesFresh, OperationOK, DeleteLabels, ScopeLabels
    <2>2. CASE pc' = "patchSpec"
      <3>1. (\E r, u, e : Finish([m EXCEPT !.ready = r], u, e)) \/ Deleted
        BY <1>6, <2>2 DEF Delete, nodeHasVolumesAttached, deleteVM, WaitDeleted, Fail
      <3>2. m'.vmUUID = m.vmUUID /\ m'.phase = m.phase
        BY <1>1, <3>1, ConditionOnly DEF Deleted, Finish, Machine
      <3> QED BY <1>1, <1>2, <1>3, <2>1, <2>2, <3>2, UnsetFresh DEF DeleteLabels
    <2>3. CASE pc' # "patchSpec"
      <3>1. m' = m /\ pc' \in DeleteLabels
        BY <1>6, <2>3 DEF Delete, nodeHasVolumesAttached, deleteVM, WaitDeleted, Fail, Finish,
           Deleted, DeleteLabels
      <3> QED BY <1>1, <1>3, <2>1, <3>1 DEF LocalFresh, CopiesFresh, OperationOK, RecordFresh, NodeFresh,
             PhaseFresh, ScopeLabels, CreateLabels, DeleteLabels, PatchLabels, ProvisionLabels, Touched
    <2> QED BY <2>2, <2>3
  <1>7. Goto("deleteExists") => Delete
    BY DEF Goto, nodeHasVolumesAttached, deleteVM, WaitDeleted, Fail, Finish, Deleted
  <1> QED BY <1>4, <1>5, <1>6, <1>7

\* The two patches.
LEMMA PatchFresh ==
  ASSUME IndInv, FreshInv, RefInv, VMsKept, patchMachineSpec \/ patchMachineStatus
  PROVE  LocalFresh'
  <1> USE DEF IndInv
  <1>1. TypeOK /\ machine \in Machine /\ node' = node
    BY DEF IndInv, TypeOK, ObjectTypeOK, patchMachineSpec, patchMachineStatus
  <1>2. CASE Return
    BY <1>2, ReturnFresh
  <1>3. CASE patchMachineSpec /\ ~Return
    <2>1. /\ machine' = MergeSpec(machine, base, m) /\ m' = WithStatusCopy(machine', m)
          /\ pc' = "patchStatus" /\ base' = base /\ op' = op
      BY <1>3 DEF patchMachineSpec
    <2>2. machine'.vmUUID = machine.vmUUID /\ machine'.phase = machine.phase /\ machine'.providerID = m.providerID
      BY <1>1, <1>3, <2>1 DEF MergeSpec, Merged, Machine, FreshInv, CopiesFresh, ScopeLabels, PatchLabels,
         patchMachineSpec
    <2>3. machine' \in Machine
      BY <1>1, <2>1, MergeType DEF TypeOK, LocalTypeOK
    <2>4. m'.vmUUID = m.vmUUID /\ m'.phase = m.phase /\ m'.providerID = m.providerID
      BY <2>1, <2>2, <2>3 DEF WithStatusCopy, Machine
    <2>5. m'.vmUUID # None => NodeNames(m.vmUUID)'
      BY <1>1, <1>3, <2>4, NodeNamesLast DEF patchMachineSpec, FreshInv, SharedFresh, NodeFresh, NodeNames,
         PatchLabels
    <2> QED BY <1>3, <2>1, <2>2, <2>4, <2>5 DEF patchMachineSpec, FreshInv, LocalFresh, CopiesFresh,
           OperationOK, RecordFresh, NodeFresh, PhaseFresh, ScopeLabels, CreateLabels, DeleteLabels,
           PatchLabels, ProvisionLabels, Touched
  <1>4. CASE patchMachineStatus /\ ~Return
    <2>1. m' = machine' /\ op' = "none" /\ pc' \in {"setFailed", "setPhase", "deleteExists"}
      BY <1>4 DEF patchMachineStatus, AfterOperation, ReturnTo
    <2>2. pc' = "setPhase" => machine'.phase # "Failed"
      <3>1. pc' = "setPhase" => op = "update"
        BY <1>4 DEF patchMachineStatus, AfterOperation, ReturnTo
      <3>2. machine'.phase = machine.phase
        BY <1>1, <1>4 DEF patchMachineStatus, MergeStatus, Machine
      <3> QED BY <1>4, <3>1, <3>2 DEF patchMachineStatus, FreshInv, CopiesFresh, PhaseFresh
    <2> QED BY <2>1, <2>2 DEF LocalFresh, CopiesFresh, OperationOK, RecordFresh, NodeFresh, PhaseFresh,
           ScopeLabels, CreateLabels, DeleteLabels, PatchLabels, ProvisionLabels, Touched
  <1> QED BY <1>2, <1>3, <1>4

\* The other actors and Prism Central write nothing that the worker relies on.
LEMMA OthersFresh ==
  ASSUME IndInv, FreshInv, VMsKept, UNCHANGED locals, machine'.vmUUID = machine.vmUUID,
         machine'.providerID = machine.providerID, machine'.phase = machine.phase,
         node'.providerID \in {None, node.providerID}
  PROVE  LocalFresh' /\ NodeNamed' /\ (node.providerID # None => Born(node.providerID))'
  <1>1. pc' = pc /\ m' = m /\ base' = base /\ vm' = vm /\ op' = op
    BY DEF locals
  <1>2. \A u : NodeNames(u) => NodeNames(u)'
    BY NodeNamesLast DEF IndInv, FreshInv, SharedFresh, NodeNames
  <1>3. NodeNames(vm) => NodeNames(vm)'
    BY <1>1, <1>2 DEF NodeNames
  <1>4. NodeNames(m.vmUUID) => NodeNames(m.vmUUID)'
    BY <1>1, <1>2 DEF NodeNames
  <1>5. NodeNames(machine.vmUUID) => NodeNames(machine.vmUUID)'
    BY <1>2 DEF NodeNames
  <1>6. NodeNamed' /\ (node.providerID # None => Born(node.providerID))'
    BY <1>5, NodeNamesLast DEF IndInv, FreshInv, SharedFresh, NodeNamed, NodeNames
  <1>7. NodeFresh'
    BY <1>1, <1>2, <1>3, <1>4 DEF FreshInv, NodeFresh
  <1>8. CopiesFresh' /\ RecordFresh' /\ PhaseFresh'
    BY <1>1 DEF FreshInv, CopiesFresh, RecordFresh, PhaseFresh
  <1> QED BY <1>6, <1>7, <1>8 DEF LocalFresh

-----------------------------------------------------------------------------
(* A Machine that has a Node or addresses has a ProviderID.                *)

\* The worker provisions what Reconcile read, and goes on to Create only with
\* a Machine that is not provisioned.
LEMMA ProvisionPath ==
  ASSUME Worker \/ Crash, pc' \in ProvisionLabels
  PROVE  \/ Reconcile /\ pc' = "exists" /\ ~cache.deleting
         \/ /\ pc \in ProvisionLabels /\ m' = m
            /\ pc' = "create" => ~machineIsProvisioned(m)
            /\ pc' \in CreateLabels => pc \in CreateLabels \cup {"create"}
  <1> USE DEF ProvisionLabels, CreateLabels
  <1>1. ~Return
    BY DEF Return
  <1>2. CASE ControllerStep
    BY <1>1, <1>2 DEF ControllerStep, Reconcile, addFinalizer, Exists, setFailed, setProvisioning,
       setPhase, setDeleting, deleteExists, deleteNode, removeFinalizer, Goto, ReturnTo
  <1>3. CASE ActuatorStep
    BY <1>1, <1>3 DEF ActuatorStep, Create, createVM, SubmitVM, WaitCreated, PowerOnVM,
       WaitPoweredOn, Update, updateMachineWithVMState, Delete, nodeHasVolumesAttached, deleteVM,
       WaitDeleted, patchMachineSpec, patchMachineStatus, AfterOperation, ReturnTo, Goto, Fail,
       Finish, Deleted
  <1> QED BY <1>1, <1>2, <1>3 DEF Worker, Crash

\* The patches of Create and Update begin with ProviderID as it was read, or
\* with the one that setProviderID wrote.
LEMMA FinishPath ==
  ASSUME IndInv, Worker \/ Crash, pc' = "patchSpec", op' # "delete"
  PROVE  \/ pc = "vmState" /\ m'.providerID \in Uuids
         \/ /\ pc \in ProvisionLabels
            /\ m'.providerID = m.providerID /\ m'.addresses = m.addresses
  <1> USE DEF ProvisionLabels, CreateLabels
  <1>1. TypeOK /\ m \in Machine /\ ~Return
    BY DEF IndInv, TypeOK, LocalTypeOK, Return
  <1>2. ~ControllerStep /\ ~patchMachineSpec /\ ~patchMachineStatus
    BY <1>1 DEF ControllerStep, Reconcile, addFinalizer, Exists, setFailed, setProvisioning,
       setPhase, setDeleting, deleteExists, deleteNode, removeFinalizer, Goto, ReturnTo,
       patchMachineSpec, patchMachineStatus, AfterOperation
  <1>3. ~Delete /\ ~nodeHasVolumesAttached /\ ~deleteVM /\ ~WaitDeleted
    BY <1>1 DEF Delete, Begin, Goto, nodeHasVolumesAttached, deleteVM, WaitDeleted, IndInv, OperationOK,
       DeleteLabels
  <1>4. CASE updateMachineWithVMState
    <2> DEFINE ready(s) == setProviderStatus([m EXCEPT !.providerID = vm, !.ready = "True"], vm, s)
    <2>1. \A s \in BOOLEAN : ready(s).providerID = vm /\ StateFailed(s).providerID = vm
      BY <1>1 DEF StateFailed, setProviderStatus, Machine
    <2> HIDE DEF ready
    <2>2. PICK s \in BOOLEAN : Finish(ready(s), vm, "none") \/ Finish(StateFailed(s), vm, "error")
      BY <1>4 DEF updateMachineWithVMState, ready
    <2>3. pc = "vmState" /\ vm \in Uuids
      BY <1>1, <1>4 DEF updateMachineWithVMState, TypeOK, LocalTypeOK, VMLabels
    <2> QED BY <1>1, <2>1, <2>2, <2>3, FinishEffect
  <1>5. CASE Create \/ createVM \/ SubmitVM \/ WaitCreated \/ PowerOnVM \/ WaitPoweredOn \/ Update
    <2>1. \E r, u, e : Finish([m EXCEPT !.ready = r], u, e)
      BY <1>1, <1>5 DEF Create, createVM, SubmitVM, WaitCreated, PowerOnVM, WaitPoweredOn, Update, Fail
    <2>2. pc \in ProvisionLabels
      BY <1>5 DEF Create, createVM, SubmitVM, WaitCreated, PowerOnVM, WaitPoweredOn, Update
    <2> QED BY <1>1, <2>1, <2>2, ConditionOnly
  <1> QED BY <1>1, <1>2, <1>3, <1>4, <1>5 DEF Worker, Crash, ActuatorStep

\* Only the first patch leads to the second.
LEMMA StatusPath ==
  ASSUME Worker \/ Crash, pc' = "patchStatus"
  PROVE  patchMachineSpec /\ ~Return
  <1>1. ~Return
    BY DEF Return
  <1>2. ~ControllerStep
    BY <1>1 DEF ControllerStep, Reconcile, addFinalizer, Exists, setFailed, setProvisioning,
       setPhase, setDeleting, deleteExists, deleteNode, removeFinalizer, Goto, ReturnTo
  <1>3. CASE ActuatorStep
    BY <1>1, <1>3 DEF ActuatorStep, Create, createVM, SubmitVM, WaitCreated, PowerOnVM,
       WaitPoweredOn, Update, updateMachineWithVMState, Delete, nodeHasVolumesAttached, deleteVM,
       WaitDeleted, patchMachineStatus, AfterOperation, ReturnTo, Goto, Fail, Finish, Deleted
  <1> QED BY <1>1, <1>2, <1>3 DEF Worker, Crash

\* Where the worker's copy of nodeRef comes from.
LEMMA NodeRefCopies ==
  ASSUME TypeOK, Worker \/ Crash
  PROVE  m'.nodeRef => m.nodeRef \/ cache.nodeRef \/ machine'.nodeRef
  <1> USE DEF TypeOK, ObjectTypeOK, LocalTypeOK
  <1>1. CASE Return
    BY <1>1 DEF Return, Blank, NewMachine
  <1>2. CASE ControllerStep /\ ~Return
    BY <1>2 DEF ControllerStep, Reconcile, addFinalizer, Exists, setFailed, setProvisioning, setPhase,
       setDeleting, deleteExists, deleteNode, removeFinalizer, Goto, ReturnTo
  <1>3. CASE (\E r, u, e : Finish([m EXCEPT !.ready = r], u, e)) \/ Deleted
    BY <1>3, ConditionOnly DEF Deleted, Finish, Machine
  <1>4. CASE Update /\ \E u \in Uuids : m' = [m EXCEPT !.vmUUID = u]
    BY <1>4 DEF Machine
  <1>5. CASE updateMachineWithVMState
    <2> DEFINE ready(s) == setProviderStatus([m EXCEPT !.providerID = vm, !.ready = "True"], vm, s)
    <2>1. \A s \in BOOLEAN : ready(s).nodeRef = m.nodeRef /\ StateFailed(s).nodeRef = m.nodeRef
      BY DEF StateFailed, setProviderStatus, Machine
    <2> HIDE DEF ready
    <2>2. PICK s \in BOOLEAN : Finish(ready(s), vm, "none") \/ Finish(StateFailed(s), vm, "error")
      BY <1>5 DEF updateMachineWithVMState, ready
    <2> QED BY <2>1, <2>2, FinishEffect
  <1>6. CASE patchMachineSpec /\ ~Return
    <2>1. machine' \in Machine /\ m' = WithStatusCopy(machine', m)
      BY <1>6, MergeType DEF patchMachineSpec
    <2> QED BY <2>1 DEF WithStatusCopy, Machine
  <1>7. CASE patchMachineStatus /\ ~Return
    BY <1>7 DEF patchMachineStatus, AfterOperation, ReturnTo
  <1>8. CASE m' = m
    BY <1>8
  <1> QED BY <1>1, <1>2, <1>3, <1>4, <1>5, <1>6, <1>7, <1>8
      DEF Worker, Crash, ActuatorStep, Create, createVM, SubmitVM, WaitCreated, PowerOnVM,
          WaitPoweredOn, Update, Delete, Goto, nodeHasVolumesAttached, deleteVM, WaitDeleted, Fail

\* The first patch hands ProviderID and addresses on to the second.
LEMMA PatchSpecEffect ==
  ASSUME IndInv, FreshInv, patchMachineSpec, ~Return
  PROVE  /\ pc = "patchSpec" /\ pc' = "patchStatus" /\ op' = op /\ m'.addresses = m.addresses
         /\ m'.providerID = m.providerID /\ machine'.providerID = m.providerID
  <1>1. machine \in Machine /\ m \in Machine /\ base \in Machine
    BY DEF IndInv, TypeOK, ObjectTypeOK, LocalTypeOK
  <1>2. /\ machine' = MergeSpec(machine, base, m) /\ m' = WithStatusCopy(machine', m)
        /\ pc = "patchSpec" /\ pc' = "patchStatus" /\ op' = op
    BY DEF patchMachineSpec
  <1>3. machine' \in Machine /\ machine'.providerID = m.providerID
    BY <1>1, <1>2, MergeType DEF MergeSpec, Merged, Machine, FreshInv, CopiesFresh, ScopeLabels, PatchLabels
  <1> QED BY <1>2, <1>3 DEF WithStatusCopy, Machine

\* The worker's steps.
LEMMA WorkerProvisioned ==
  ASSUME IndInv, RefInv, FreshInv, Worker \/ Crash
  PROVE  ProvisionedFresh'
  <1> USE DEF FreshInv
  <1>1. /\ TypeOK /\ cache = machine /\ machine'.nodeRef = machine.nodeRef
        /\ machine'.deleting = machine.deleting
    BY WorkerDrain, WorkerFrame DEF IndInv, SharedFresh
  <1>2. (pc \in ProvisionLabels \/ ~machine.deleting =>
            (machine.nodeRef \/ machine.addresses => machine.providerID # None))'
    <2> SUFFICES ASSUME pc' \in ProvisionLabels \/ ~machine.deleting,
                        machine.nodeRef \/ machine'.addresses
                 PROVE  machine'.providerID # None
      BY <1>1
    <2>1. pc \in ProvisionLabels \/ ~machine.deleting
      BY <1>1, ProvisionPath
    <2>2. CASE patchMachineSpec /\ machine' # machine
      <3>1. pc = "patchSpec" /\ op # "delete" /\ machine'.providerID = m.providerID
        BY <2>1, <2>2, PatchedFields DEF patchMachineSpec, ProvisionLabels, CreateLabels, RefInv, DeletionOK
      <3>2. machine'.addresses = machine.addresses
        BY <1>1, <2>2, <3>1, WorkerFields DEF patchMachineStatus
      <3> QED BY <2>1, <3>1, <3>2 DEF ProvisionedFresh
    <2>3. CASE patchMachineStatus /\ machine' # machine
      <3>1. pc = "patchStatus" /\ op # "delete" /\ machine'.addresses \in {machine.addresses, m.addresses}
        BY <1>1, <2>1, <2>3 DEF patchMachineStatus, MergeStatus, Merged, ProvisionLabels, CreateLabels,
           RefInv, DeletionOK, TypeOK, ObjectTypeOK, Machine
      <3>2. machine'.providerID = machine.providerID /\ m.providerID = machine.providerID
        BY <1>1, <2>3, <3>1, WorkerFields DEF patchMachineSpec, CopiesFresh
      <3> QED BY <2>1, <3>1, <3>2 DEF ProvisionedFresh, PatchLabels
    <2>4. CASE machine' = machine
      BY <2>1, <2>4 DEF ProvisionedFresh
    <2>5. CASE ~patchMachineSpec /\ ~patchMachineStatus
      BY <1>1, <2>1, <2>5, WorkerFields DEF ProvisionedFresh
    <2> QED BY <2>2, <2>3, <2>4, <2>5
  <1>3. (node.providerID # None \/ m.nodeRef => machine.nodeRef)'
    <2>1. m'.nodeRef => machine.nodeRef
      BY <1>1, NodeRefCopies DEF ProvisionedFresh
    <2>2. CASE node' = node
      BY <1>1, <2>1, <2>2 DEF ProvisionedFresh
    <2>3. CASE updateMachineWithVMState /\ node' # node
      BY <1>1, <2>1, <2>3 DEF updateMachineWithVMState, SetNodeProviderID, ProvisionedFresh
    <2>4. CASE deleteNode /\ node' # node
      BY <1>1, <2>1, <2>4 DEF deleteNode, NoNode
    <2> QED BY <2>2, <2>3, <2>4, WorkerNode
  <1>4. (pc \in ProvisionLabels => (m.addresses => m.providerID # None))'
    BY <1>1, ProvisionPath DEF Reconcile, ProvisionedFresh
  <1>5. (pc \in CreateLabels \cup {"create"} => m.providerID = None)'
    BY ProvisionPath DEF ProvisionLabels, CreateLabels, machineIsProvisioned, ProvisionedFresh
  <1>6. (pc = "patchSpec" /\ op # "delete" =>
            (m.addresses \/ machine.providerID # None => m.providerID # None))'
    <2> SUFFICES ASSUME pc' = "patchSpec", op' # "delete", m'.addresses \/ machine'.providerID # None
                 PROVE  m'.providerID # None
      OBVIOUS
    <2>1. machine'.providerID = machine.providerID
      BY <1>1, WorkerFields DEF patchMachineSpec, Return
    <2>2. CASE pc = "vmState" /\ m'.providerID \in Uuids
      BY <2>2, NoneAssumption
    <2>3. CASE /\ pc \in ProvisionLabels
               /\ m'.providerID = m.providerID /\ m'.addresses = m.addresses
      BY <2>1, <2>3 DEF ProvisionedFresh, CopiesFresh, ProvisionLabels, CreateLabels, Touched
    <2> QED BY <2>2, <2>3, FinishPath
  <1>7. (pc = "patchStatus" /\ op # "delete" => (m.addresses => m.providerID # None))'
    <2>1. pc' = "patchStatus" => patchMachineSpec /\ ~Return
      BY <1>1, StatusPath
    <2> QED BY <2>1, PatchSpecEffect DEF ProvisionedFresh, PatchLabels
  <1> QED BY <1>2, <1>3, <1>4, <1>5, <1>6, <1>7 DEF ProvisionedFresh, PatchLabels

\* The nodelink controller links only a Machine that is provisioned.
LEMMA ActorProvisioned ==
  ASSUME TypeOK, ProvisionedFresh, KubeActor
  PROVE  ProvisionedFresh'
  <1>1. UNCHANGED locals /\ machine'.providerID = machine.providerID
    BY ActorFields DEF KubeActor
  <1>2. /\ machine.deleting => machine'.deleting
        /\ machine'.addresses = machine.addresses
        /\ machine.nodeRef => machine'.nodeRef
        /\ machine'.nodeRef => machine.nodeRef \/ machineIsProvisioned(machine)
        /\ node'.providerID \in {None, node.providerID}
    <2>1. CASE UserDelete \/ RemoveHook \/ Drain \/ NodeLink
      BY <2>1 DEF UserDelete, RemoveHook, Drain, NodeLink, TypeOK, ObjectTypeOK, Machine, Node
    <2>2. CASE NodeJoin \/ Cordon \/ AttachVolumes \/ DetachVolumes
      BY <2>2 DEF NodeJoin, Cordon, AttachVolumes, DetachVolumes, NoNode, TypeOK, ObjectTypeOK, Node
    <2> QED BY <2>1, <2>2 DEF KubeActor
  <1> QED BY <1>1, <1>2 DEF ProvisionedFresh, machineIsProvisioned, locals

-----------------------------------------------------------------------------
(* The invariant.                                                          *)

\* It holds initially.
LEMMA FreshInvInit == Init => FreshInv
  <1> SUFFICES ASSUME Init PROVE FreshInv
    OBVIOUS
  <1>1. cache = machine /\ node = NoNode /\ pc = "idle" /\ op = "none"
    BY DEF Init, ObjectInit, LocalInit
  <1>2. PICK h \in HookChoices : machine = NewMachine(h)
    BY DEF Init, ObjectInit
  <1>3. machine.vmUUID = None
    BY <1>2 DEF NewMachine
  <1>4. ~machine.nodeRef /\ ~machine.addresses /\ ~m.nodeRef
    BY <1>2 DEF Init, LocalInit, Blank, NewMachine
  <1> QED BY <1>1, <1>3, <1>4 DEF FreshInv, SharedFresh, VmUUIDNamed, NodeNamed, NoNode, CopiesFresh,
         RecordFresh, ProvisionedFresh, NodeFresh, PhaseFresh, ScopeLabels, CreateLabels, DeleteLabels, PatchLabels,
         ProvisionLabels, Touched

\* It is preserved as long as the cache follows: one case per part of Next.
LEMMA FreshInvStep ==
  ASSUME StaleReads = FALSE, IndInv, RefInv, FreshInv, [Next]_vars
  PROVE  FreshInv'
  <1>1. VMsKept /\ TypeOK
    BY KeepsVMs DEF IndInv
  <1>2. CASE (Worker \/ Crash) /\ CacheFollows
    <2>1. LocalFresh'
      BY <1>1, <1>2, ControllerFresh, CreateFresh, UpdateFresh, DeleteFresh, PatchFresh, ReturnFresh
      DEF Worker, ActuatorStep, Crash
    <2> QED BY <1>1, <1>2, <2>1, WorkerShared, WorkerProvisioned DEF FreshInv, LocalFresh
  <1>3. CASE KubeActor /\ CacheFollows
    <2>1. /\ machine'.vmUUID = machine.vmUUID /\ machine'.providerID = machine.providerID
          /\ machine'.phase = machine.phase /\ (machine.deleting => machine'.deleting)
      BY <1>1, <1>3, ActorWrites, ActorFields, ActorFrame
    <2>2. node'.providerID \in {None, node.providerID}
      BY <1>1, <1>3 DEF KubeActor, UserDelete, RemoveHook, Cordon, Drain, Draining, NodeJoin, NodeLink, AttachVolumes,
         DetachVolumes, NoNode, TypeOK, ObjectTypeOK, Node
    <2>3. UNCHANGED locals /\ cache' = machine'
      BY <1>3 DEF KubeActor, CacheFollows
    <2>4. VmUUIDNamed'
      BY <2>1 DEF FreshInv, SharedFresh, VmUUIDNamed
    <2> QED BY <1>1, <1>3, <2>1, <2>2, <2>3, <2>4, OthersFresh, ActorProvisioned
         DEF FreshInv, SharedFresh, LocalFresh
  <1>4. CASE (PCNext /\ UNCHANGED <<kubeVars, locals>> /\ CacheFollows) \/ CacheSync \/ UNCHANGED vars
    <2>1. UNCHANGED <<machine, node, locals>> /\ cache' = machine'
      BY <1>4 DEF kubeVars, CacheFollows, CacheSync, vars, locals, FreshInv, SharedFresh
    <2>2. ProvisionedFresh'
      BY <2>1 DEF FreshInv, ProvisionedFresh, locals
    <2> QED BY <1>1, <2>1, <2>2, OthersFresh DEF FreshInv, SharedFresh, LocalFresh, VmUUIDNamed
  <1> QED BY <1>2, <1>3, <1>4 DEF Next

\* The worker's copies stay true, whatever fails.
THEOREM FreshInvHolds ==
  ASSUME StaleReads = FALSE
  PROVE  Spec => []FreshInv
  <1>1. FreshInv /\ IndInv /\ RefInv /\ [Next]_vars => FreshInv'
    BY FreshInvStep
  <1> QED BY <1>1, FreshInvInit, IndInvHolds, RefInvHolds, PTL DEF Spec

\* A Machine with a VmUUID has the ProviderID of that VM.
THEOREM VmUUIDNamedHolds ==
  ASSUME StaleReads = FALSE
  PROVE  Spec => []VmUUIDNamed
  <1>1. FreshInv => VmUUIDNamed
    BY DEF FreshInv, SharedFresh
  <1> QED BY <1>1, FreshInvHolds, PTL

\* The Node names the VM on record or one that is gone.
THEOREM NodeNamedHolds ==
  ASSUME StaleReads = FALSE
  PROVE  Spec => []NodeNamed
  <1>1. FreshInv => NodeNamed
    BY DEF FreshInv, SharedFresh
  <1> QED BY <1>1, FreshInvHolds, PTL

\* A VmUUID on record is never replaced.
THEOREM VmUUIDFixedHolds ==
  ASSUME StaleReads = FALSE
  PROVE  Spec => VmUUIDFixed
  <1> DEFINE Fixed == machine.vmUUID # None => machine'.vmUUID = machine.vmUUID
  <1>1. IndInv /\ RefInv /\ FreshInv /\ [Next]_vars => [Fixed]_vars
    <2> SUFFICES ASSUME IndInv, RefInv, FreshInv, Next PROVE Fixed
      OBVIOUS
    <2>1. CASE (Worker \/ Crash) /\ ~patchMachineStatus
      BY <2>1, WorkerWrites DEF IndInv
    <2>2. CASE patchMachineStatus
      BY <2>2, PatchedFields DEF patchMachineStatus, FreshInv, RecordFresh, PatchLabels
    <2>3. CASE KubeActor
      BY <2>3, ActorWrites DEF IndInv
    <2>4. CASE UNCHANGED kubeVars
      BY <2>4 DEF kubeVars
    <2> QED BY <2>1, <2>2, <2>3, <2>4 DEF Next, CacheSync
  <1> QED BY <1>1, IndInvHolds, RefInvHolds, FreshInvHolds, PTL DEF Spec, VmUUIDFixed

\* A Machine that is provisioned stays so until its deletion is requested.
THEOREM StaysProvisionedHolds ==
  ASSUME StaleReads = FALSE
  PROVE  Spec => StaysProvisioned
  <1> DEFINE Stays == machineIsProvisioned(machine) /\ ~machine.deleting
                         => machineIsProvisioned(machine')
  <1>1. IndInv /\ RefInv /\ FreshInv /\ [Next]_vars => [Stays]_vars
    <2> SUFFICES ASSUME IndInv, RefInv, FreshInv, Next, machine.providerID # None, ~machine.deleting
                 PROVE  machine'.providerID # None
      BY DEF machineIsProvisioned, FreshInv, ProvisionedFresh
    <2>1. CASE (Worker \/ Crash) /\ ~patchMachineSpec
      BY <2>1, WorkerFields DEF IndInv
    <2>2. CASE patchMachineSpec
      BY <2>2, PatchedFields DEF patchMachineSpec, FreshInv, ProvisionedFresh, RefInv, DeletionOK
    <2>3. CASE KubeActor
      BY <2>3, ActorFields DEF IndInv
    <2>4. CASE UNCHANGED kubeVars
      BY <2>4 DEF kubeVars
    <2> QED BY <2>1, <2>2, <2>3, <2>4 DEF Next, CacheSync
  <1> QED BY <1>1, IndInvHolds, RefInvHolds, FreshInvHolds, PTL DEF Spec, StaysProvisioned

\* A Machine leaves phase Failed only to be deleted.
THEOREM FailedTerminalHolds ==
  ASSUME StaleReads = FALSE
  PROVE  Spec => FailedTerminal
  <1> DEFINE Terminal == machine.phase = "Failed" => machine'.phase \in {"Failed", "Deleting"}
  <1>1. IndInv /\ FreshInv /\ [Next]_vars => [Terminal]_vars
    <2> SUFFICES ASSUME IndInv, FreshInv, Next PROVE Terminal
      OBVIOUS
    <2>1. CASE machine'.phase = machine.phase
      BY <2>1
    <2>2. CASE setFailed \/ setDeleting
      BY <2>2 DEF setFailed, setDeleting, updateStatus, Merged, IndInv, TypeOK, ObjectTypeOK, Machine
    <2>3. CASE setProvisioning \/ setPhase
      BY <2>3 DEF setProvisioning, setPhase, FreshInv, CopiesFresh, PhaseFresh, ProvisionLabels
    <2>4. CASE KubeActor
      BY <2>1, <2>4, ActorFields DEF IndInv
    <2> QED BY <2>1, <2>2, <2>3, <2>4, WorkerFields DEF Next, CacheSync, kubeVars, IndInv
  <1> QED BY <1>1, IndInvHolds, FreshInvHolds, PTL DEF Spec, FailedTerminal

-----------------------------------------------------------------------------
(* One VM at most, as long as no create task is lost sight of and no error *)
(* is misread.                                                             *)

NoLostTask == FaultKinds \cap {"lost", "crash", "textNotFound"} = {}

\* Prism Central turns VMs that are being created into VMs that exist, and
\* that is the only way to one.
LEMMA ServiceVMs ==
  ASSUME TypeOK, TasksOK, PCNext
  PROVE  Alive' \subseteq Alive \cup Creating /\ Creating' \subseteq Creating
  <1> USE DEF TypeOK, PCTypeOK, Alive, Creating
  <1>1. CASE \E u \in Uuids : CreateDone(u)
    BY <1>1 DEF CreateDone
  <1>2. CASE \E u \in Uuids : CreateFailed(u)
    BY <1>2 DEF CreateFailed
  <1>3. CASE \E u \in Uuids : PowerOnDone(u)
    BY <1>3 DEF PowerOnDone, TasksOK
  <1>4. CASE \E u \in Uuids : DeleteDone(u)
    BY <1>4 DEF DeleteDone
  <1>5. CASE \E u \in Uuids : ExternalDelete(u)
    BY <1>5 DEF ExternalDelete
  <1>6. CASE \E t \in tasks : TaskFailed(t)
    BY <1>6 DEF TaskFailed
  <1> QED BY <1>1, <1>2, <1>3, <1>4, <1>5, <1>6 DEF PCNext

\* The worker's requests: a VM that is being created does not exist yet.
LEMMA WorkerAlive ==
  ASSUME TypeOK, Worker \/ Crash
  PROVE  Alive' = Alive /\ (SubmitVM \/ Creating' = Creating)
  <1>1. CASE vmState' = vmState
    BY <1>1 DEF Alive, Creating
  <1>2. CASE SubmitVM /\ \E u \in Uuids : SubmitCreate(u)
    BY <1>2 DEF SubmitCreate, TypeOK, PCTypeOK, Alive
  <1> QED BY <1>1, <1>2, WorkerVMs

\* Who leads to submit and to createWait.
LEMMA CreatePath ==
  ASSUME Worker \/ Crash, pc' \in {"submit", "createWait"}
  PROVE  createVM \/ SubmitVM
  <1>1. ~Return
    BY DEF Return
  <1>2. ~ControllerStep
    BY <1>1 DEF ControllerStep, Reconcile, addFinalizer, Exists, setFailed, setProvisioning,
       setPhase, setDeleting, deleteExists, deleteNode, removeFinalizer, Goto, ReturnTo
  <1>3. CASE ActuatorStep
    BY <1>1, <1>3 DEF ActuatorStep, Create, WaitCreated, PowerOnVM,
       WaitPoweredOn, Update, updateMachineWithVMState, Delete, nodeHasVolumesAttached, deleteVM,
       WaitDeleted, patchMachineSpec, patchMachineStatus, AfterOperation, ReturnTo, Goto, Fail,
       Finish, Deleted
  <1> QED BY <1>1, <1>2, <1>3 DEF Worker, Crash

\* The worker asks for a VM only when there is none, and sees to its end.
LEMMA WorkerLone ==
  ASSUME NoLostTask, TypeOK, LoneInv, Worker \/ Crash
  PROVE  LoneInv'
  <1>1. ~Fault("lost") /\ ~Fault("textNotFound") /\ ~Crash
    BY DEF NoLostTask, Fault, Crash
  <1>2. Alive' = Alive
    BY WorkerAlive
  <1>3. CASE SubmitVM
    <2>1. Alive = {} /\ Creating = {}
      BY <1>3 DEF SubmitVM, LoneInv
    <2>2. CASE pc' = "createWait" /\ SubmitCreate(vm')
      <3>1. Creating' \subseteq {vm'}
        BY <2>1, <2>2 DEF SubmitCreate, TypeOK, PCTypeOK, Creating
      <3> QED BY <1>2, <2>1, <2>2, <3>1 DEF LoneInv, AtMostOneVM
    <2>3. CASE pc' = "patchSpec" /\ vmState' = vmState
      BY <1>2, <2>1, <2>3 DEF LoneInv, AtMostOneVM, Creating
    <2> QED BY <1>1, <1>3, <2>2, <2>3 DEF SubmitVM, Fail, Finish, pcVars
  <1>4. CASE WaitCreated
    <2>1. vmState' = vmState /\ pc' \notin {"createWait", "submit"} /\ vmState[vm] # "creating"
      BY <1>1, <1>4 DEF WaitCreated, Fail, Finish, pcVars, Alive
    <2>2. Creating = {} /\ Creating' = {}
      BY <1>4, <2>1 DEF WaitCreated, LoneInv, Creating
    <2> QED BY <1>2, <2>1, <2>2 DEF LoneInv, AtMostOneVM
  <1>5. CASE ~SubmitVM /\ ~WaitCreated
    <2>1. pc # "createWait"
      BY <1>1, <1>5 DEF Worker, ControllerStep, Reconcile, addFinalizer, Exists, setFailed,
         setProvisioning, setPhase, setDeleting, deleteExists, deleteNode, removeFinalizer,
         ActuatorStep, Create, createVM, PowerOnVM, WaitPoweredOn, Update,
         updateMachineWithVMState, Delete, nodeHasVolumesAttached, deleteVM, WaitDeleted,
         patchMachineSpec, patchMachineStatus
    <2>2. Creating = {} /\ Creating' = {}
      BY <1>5, <2>1, WorkerAlive DEF LoneInv
    <2>3. pc' # "createWait" /\ (pc' = "submit" => Alive = {})
      BY <1>1, <1>5, CreatePath DEF createVM, Fail, Finish
    <2> QED BY <1>2, <2>2, <2>3 DEF LoneInv, AtMostOneVM
  <1> QED BY <1>3, <1>4, <1>5

\* LoneInv is inductive, whatever the cache does.
LEMMA LoneInvStep ==
  ASSUME NoLostTask, IndInv, LoneInv, [Next]_vars
  PROVE  LoneInv'
  <1>1. TypeOK /\ TasksOK
    BY DEF IndInv
  <1>2. CASE Worker \/ Crash
    BY <1>1, <1>2, WorkerLone
  <1>3. CASE PCNext /\ UNCHANGED locals
    BY <1>1, <1>3, ServiceVMs DEF LoneInv, AtMostOneVM, locals
  <1>4. CASE UNCHANGED <<vmState, locals>>
    BY <1>4 DEF LoneInv, AtMostOneVM, Alive, Creating, locals
  <1> QED BY <1>2, <1>3, <1>4 DEF Next, KubeActor, CacheSync, vars, locals, pcVars

\* createVM waits for the VM it asked for, and nobody else asks for one.
THEOREM LoneInvHolds ==
  ASSUME NoLostTask
  PROVE  Spec => []LoneInv
  <1>1. Init => LoneInv
    BY DEF Init, PCInit, LocalInit, LoneInv, AtMostOneVM, Alive, Creating
  <1>2. LoneInv /\ IndInv /\ [Next]_vars => LoneInv'
    BY LoneInvStep
  <1> QED BY <1>1, <1>2, IndInvHolds, PTL DEF Spec

\* Create never leads to a second VM, with a stale cache either.
THEOREM AtMostOneVMHolds ==
  ASSUME NoLostTask
  PROVE  Spec => []AtMostOneVM
  <1>1. LoneInv => AtMostOneVM
    BY DEF LoneInv
  <1> QED BY <1>1, LoneInvHolds, PTL

-----------------------------------------------------------------------------
(* No VM is left behind.                                                   *)

\* Who finds the VM that is about to be recorded, and where.
LEMMA FoundPath ==
  ASSUME Worker \/ Crash, pc' \in {"powerOn", "powerWait", "vmState"}
  PROVE  \/ createVM /\ pc' = "vmState" /\ \E u \in Uuids : CreateFinds(u) /\ vm' = u
         \/ Update /\ pc' = "vmState" /\ \E u \in Uuids : Finds(m, u) /\ vm' = u
         \/ pc \in {"createWait", "powerOn", "powerWait"} /\ vm' = vm
  <1>1. ~Return
    BY DEF Return
  <1>2. ~ControllerStep
    BY <1>1 DEF ControllerStep, Reconcile, addFinalizer, Exists, setFailed, setProvisioning,
       setPhase, setDeleting, deleteExists, deleteNode, removeFinalizer, Goto, ReturnTo
  <1>3. CASE Update
    BY <1>1, <1>3 DEF Update, Fail, Finish
  <1>4. CASE ActuatorStep /\ ~Update
    BY <1>1, <1>4 DEF ActuatorStep, Create, createVM, SubmitVM, WaitCreated, PowerOnVM,
       WaitPoweredOn, updateMachineWithVMState, Delete, nodeHasVolumesAttached, deleteVM,
       WaitDeleted, patchMachineSpec, patchMachineStatus, AfterOperation, ReturnTo, Goto, Fail,
       Finish, Deleted
  <1> QED BY <1>1, <1>2, <1>3, <1>4 DEF Worker, Crash

\* What the patches are about to record was in hand at vmState.
LEMMA PatchPath ==
  ASSUME IndInv, FreshInv, Worker \/ Crash, pc' \in PatchLabels
  PROVE  \/ pc = "vmState" /\ m'.vmUUID \in {vm, None}
         \/ pc = "patchSpec" /\ m'.vmUUID = m.vmUUID
         \/ m'.vmUUID = machine.vmUUID
  <1> USE DEF IndInv
  <1>1. ~Return /\ pc' \in {"patchSpec", "patchStatus"}
    BY DEF Return, PatchLabels
  <1>2. TypeOK /\ m \in Machine /\ machine \in Machine
    BY DEF IndInv, TypeOK, ObjectTypeOK, LocalTypeOK
  <1>3. ~ControllerStep
    BY <1>1 DEF ControllerStep, Reconcile, addFinalizer, Exists, setFailed, setProvisioning,
       setPhase, setDeleting, deleteExists, deleteNode, removeFinalizer, Goto, ReturnTo
  <1>4. CASE patchMachineSpec
    BY <1>1, <1>2, <1>4 DEF patchMachineSpec, MergeSpec, WithStatusCopy, Machine
  <1>5. CASE patchMachineStatus
    BY <1>1, <1>5 DEF patchMachineStatus, AfterOperation, ReturnTo
  <1>6. CASE updateMachineWithVMState
    <2>1. pc = "vmState" /\ m.vmUUID \in {vm, None}
      BY <1>6 DEF updateMachineWithVMState, FreshInv, RecordFresh
    <2> QED BY <1>2, <1>6, <2>1, StateEffect
  <1>7. CASE Create \/ createVM \/ SubmitVM \/ WaitCreated \/ PowerOnVM \/ WaitPoweredOn \/ Update
             \/ Delete \/ nodeHasVolumesAttached \/ deleteVM \/ WaitDeleted
    <2>1. m.vmUUID = machine.vmUUID
      BY <1>7 DEF FreshInv, CopiesFresh, Touched, Create, createVM, SubmitVM, WaitCreated, PowerOnVM,
         WaitPoweredOn, Update, Delete, nodeHasVolumesAttached, deleteVM, WaitDeleted
    <2>2. (\E r, u, e : Finish([m EXCEPT !.ready = r], u, e)) \/ Deleted
      BY <1>1, <1>7 DEF Create, createVM, SubmitVM, WaitCreated, PowerOnVM, WaitPoweredOn, Update,
         Delete, nodeHasVolumesAttached, deleteVM, WaitDeleted, Fail, Goto
    <2> QED BY <1>2, <2>1, <2>2, ConditionOnly, FinishEffect
  <1> QED BY <1>1, <1>3, <1>4, <1>5, <1>6, <1>7 DEF Worker, ActuatorStep, Crash

\* The worker's steps.
LEMMA WorkerSole ==
  ASSUME NoLostTask, IndInv, RefInv, FreshInv, FreshInv', LoneInv, SoleInv, Worker \/ Crash
  PROVE  SoleInv'
  <1> USE DEF IndInv
  <1>1. TypeOK /\ Alive' = Alive /\ MachineKept
    BY WorkerAlive, WorkerWrites DEF IndInv
  <1>2. machine'.vmUUID # None => Alive \subseteq {machine'.vmUUID}
    <2>1. CASE patchMachineStatus
      BY <2>1, PatchedFields DEF patchMachineStatus, SoleInv, PatchLabels
    <2> QED BY <1>1, <2>1, WorkerWrites DEF SoleInv
  <1>3. pc' \in {"powerOn", "powerWait", "vmState"} => Alive \subseteq {vm'}
    <2> SUFFICES ASSUME pc' \in {"powerOn", "powerWait", "vmState"} PROVE Alive \subseteq {vm'}
      OBVIOUS
    <2>1. CASE createVM /\ \E u \in Uuids : CreateFinds(u) /\ vm' = u
      <3>1. m.vmUUID = None
        BY <2>1 DEF createVM, FreshInv, CopiesFresh, OperationOK, RecordFresh, Touched, CreateLabels
      <3> QED BY <2>1, <3>1, NoneAssumption DEF CreateFinds, Alive
    <2>2. CASE Update /\ \E u \in Uuids : Finds(m, u) /\ vm' = u
      <3>1. m.vmUUID = machine.vmUUID
        BY <2>2 DEF Update, FreshInv, CopiesFresh, Touched
      <3> QED BY <2>2, <3>1 DEF Finds, SoleInv
    <2>3. CASE pc \in {"createWait", "powerOn", "powerWait"} /\ vm' = vm
      BY <2>3 DEF LoneInv, SoleInv
    <2> QED BY <2>1, <2>2, <2>3, FoundPath
  <1>4. pc' \in PatchLabels /\ m'.vmUUID # None => Alive \subseteq {m'.vmUUID}
    BY PatchPath DEF SoleInv, PatchLabels
  <1>5. pc' \in {"deleteNode", "removeFinalizer"} => Alive = {}
    <2> SUFFICES ASSUME pc' \in {"deleteNode", "removeFinalizer"} PROVE Alive = {}
      OBVIOUS
    <2>1. CASE deleteExists /\ FindsNone(m)
      <3>1. m.vmUUID = machine.vmUUID
        BY <2>1 DEF deleteExists, FreshInv, CopiesFresh, Touched
      <3> QED BY <2>1, <3>1 DEF FindsNone, SoleInv
    <2>2. CASE deleteNode
      BY <2>2 DEF deleteNode, SoleInv
    <2>3. ~Return /\ ~Fault("textNotFound")
      BY DEF Return, NoLostTask, Fault
    <2>4. CASE ControllerStep
      BY <2>1, <2>2, <2>3, <2>4 DEF ReadsNone, ControllerStep, Reconcile, addFinalizer, Exists, setFailed,
         setProvisioning, setPhase, setDeleting, deleteExists, removeFinalizer, Goto, ReturnTo
    <2>5. ~ActuatorStep
      BY <2>3 DEF ActuatorStep, Create, createVM, SubmitVM, WaitCreated, PowerOnVM,
         WaitPoweredOn, Update, updateMachineWithVMState, Delete, nodeHasVolumesAttached, deleteVM,
         WaitDeleted, patchMachineSpec, patchMachineStatus, AfterOperation, ReturnTo, Goto, Fail,
         Finish, Deleted
    <2> QED BY <2>3, <2>4, <2>5 DEF Worker, Crash
  <1>6. ~machine'.exists => Alive = {} /\ pc' \in Early
    <2>1. CASE machine.exists /\ ~machine'.exists
      <3>1. removeFinalizer
        BY <1>1, <2>1, WorkerRemoves, WorkerFrame DEF addFinalizer
      <3> QED BY <3>1 DEF removeFinalizer, SoleInv, Return, Early
    <2>2. CASE ~machine.exists
      <3>1. pc \in Early /\ Alive = {} /\ ~cache.exists
        BY <2>2 DEF SoleInv, Early, FreshInv, SharedFresh
      <3>2. ~ActuatorStep
        BY <3>1 DEF Early, ActuatorStep, Create, createVM, SubmitVM, WaitCreated, PowerOnVM,
           WaitPoweredOn, Update, updateMachineWithVMState, Delete, nodeHasVolumesAttached, deleteVM,
           WaitDeleted, patchMachineSpec, patchMachineStatus
      <3>3. Return
        BY <2>2, <3>1, <3>2 DEF Early, Worker, Crash, ControllerStep, Reconcile, addFinalizer, Exists,
           setFailed, setProvisioning, setPhase, setDeleting, deleteExists, deleteNode, removeFinalizer
      <3> QED BY <3>1, <3>3 DEF Return, Early
    <2> QED BY <2>1, <2>2
  <1> QED BY <1>1, <1>2, <1>3, <1>4, <1>5, <1>6 DEF SoleInv, Early

\* SoleInv is preserved as long as the cache follows.
LEMMA SoleInvStep ==
  ASSUME NoLostTask, IndInv, RefInv, FreshInv, FreshInv', LoneInv, SoleInv, [Next]_vars
  PROVE  SoleInv'
  <1> USE DEF IndInv
  <1>1. TypeOK /\ TasksOK
    BY DEF IndInv
  <1>2. CASE Worker \/ Crash
    BY <1>2, WorkerSole
  <1>3. CASE KubeActor
    <2>1. machine'.vmUUID = machine.vmUUID /\ UNCHANGED locals /\ vmState' = vmState
      BY <1>1, <1>3, ActorWrites DEF KubeActor, pcVars
    <2>2. machine.exists /\ ~machine'.exists => ~machine.finalizer
      BY <1>1, <1>3, ActorFrame
    <2>3. machine.exists /\ ~machine.finalizer => Alive = {} /\ pc \in Early
      BY DEF RefInv, RequestOK, Alive, IndInv, FinalizerOK, Early
    <2>4. ~machine'.exists => Alive = {} /\ pc \in Early
      BY <2>2, <2>3 DEF SoleInv, Early
    <2> QED BY <2>1, <2>4 DEF SoleInv, Alive, locals, Early
  <1>4. CASE PCNext /\ UNCHANGED <<kubeVars, locals>>
    <2>1. Alive' \subseteq Alive \cup Creating
      BY <1>1, <1>4, ServiceVMs
    <2>2. CASE pc = "createWait"
      <3>1. machine.vmUUID = None /\ machine.exists
        BY <2>2 DEF FreshInv, OperationOK, RecordFresh, CreateLabels, SoleInv
      <3> QED BY <1>4, <2>2, <3>1 DEF SoleInv, PatchLabels, kubeVars, locals
    <2>3. CASE pc # "createWait"
      <3>1. Alive' \subseteq Alive
        BY <2>1, <2>3 DEF LoneInv
      <3> QED BY <1>4, <3>1 DEF SoleInv, kubeVars, locals
    <2> QED BY <2>2, <2>3
  <1>5. CASE UNCHANGED <<vmState, machine, locals>>
    BY <1>5 DEF SoleInv, Alive, locals
  <1> QED BY <1>2, <1>3, <1>4, <1>5 DEF Next, CacheSync, vars, locals, pcVars, kubeVars

\* The VM on record is the only one, and it is gone when the Machine goes.
THEOREM OneVMInvHolds ==
  ASSUME NoLostTask, StaleReads = FALSE
  PROVE  Spec => []OneVMInv
  <1>1. Init => SoleInv
    <2> SUFFICES ASSUME Init PROVE SoleInv
      OBVIOUS
    <2>1. PICK h \in HookChoices : machine = NewMachine(h)
      BY DEF Init, ObjectInit
    <2>2. machine.exists /\ machine.vmUUID = None /\ pc = "idle"
      BY <2>1 DEF Init, LocalInit, NewMachine
    <2> QED BY <2>2 DEF SoleInv, PatchLabels
  <1>2. SoleInv /\ IndInv /\ RefInv /\ FreshInv /\ FreshInv' /\ LoneInv /\ [Next]_vars => SoleInv'
    BY SoleInvStep
  <1> QED BY <1>1, <1>2, IndInvHolds, RefInvHolds, FreshInvHolds, LoneInvHolds, PTL
      DEF Spec, OneVMInv

\* A Machine that has left the API server leaves no VM behind.
THEOREM NoOrphanHolds ==
  ASSUME NoLostTask, StaleReads = FALSE
  PROVE  Spec => []NoOrphan
  <1>1. OneVMInv => NoOrphan
    BY DEF OneVMInv, LoneInv, SoleInv, NoOrphan
  <1> QED BY <1>1, OneVMInvHolds, PTL
=============================================================================
