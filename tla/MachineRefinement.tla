------------------------- MODULE MachineRefinement -------------------------
(* The machine controller implements MachineLifecycle: the refinement      *)
(* mapping, and the invariants that its proof adds to IndInv.              *)
EXTENDS MachineController

Life ==
    IF ~machine.exists THEN "released"
    ELSE IF machine.finalizer THEN "protected" ELSE "new"

VMLife ==
    [u \in Uuids |-> IF vmState[u] \in {"free", "creating"} THEN "unborn"
                     ELSE IF vmState[u] = "gone" THEN "gone" ELSE "alive"]

Lifecycle ==
    INSTANCE MachineLifecycle
    WITH life <- Life, requested <- machine.deleting, record <- machine.vmUUID, vms <- VMLife,
         deceptions <- misreads

\* Every behaviour of the controller, whatever fails and however stale its
\* cache is, is one that MachineLifecycle allows: no VM comes before the
\* finalizer of Reconcile, patchMachine records what may be recorded, and
\* the finalizer goes only after the deletion was requested and, unless
\* isNotFoundError misread two errors, done.
Promise == Lifecycle!Spec

-----------------------------------------------------------------------------

\* The labels of a reconcile that deletes.
DeletionLabels ==
    {"setDeleting", "delete", "volumes", "deleteVM", "deleteWait",
     "deleteExists", "deleteNode", "removeFinalizer"}

\* A reconcile deletes only after the deletion was requested: the cache may
\* lag behind the request and is never ahead of it.
DeletionOK ==
    /\ cache.deleting => machine.deleting
    /\ pc \in DeletionLabels \/ op = "delete" => machine.deleting

\* The worker that adds the finalizer holds a Machine without one.
ProtectOK == pc = "addFinalizer" => m.exists /\ ~m.finalizer

\* A VM was requested only for a Machine that had its finalizer.
RequestOK == (\E u \in Uuids : vmState[u] # "free") => machine.finalizer \/ ~machine.exists

\* With IndInv, all that the refinement rests on.
RefInv == DeletionOK /\ ProtectOK /\ RequestOK
=============================================================================
