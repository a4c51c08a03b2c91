--------------------------- MODULE MachineObject ---------------------------
(***************************************************************************)
(* The Machine object in the API server, reduced to the fields the         *)
(* controller decides on, its Node, and the operators that read and write  *)
(* them: merge patches, the provisioned test and the status helpers of     *)
(* machine_scope.go.                                                       *)
(***************************************************************************)
EXTENDS PrismCentral

CONSTANTS
    HookChoices,  \* may the Machine carry a pre-terminate hook: a subset of BOOLEAN
    StaleReads    \* may the informer cache lag behind the API server

ASSUME ObjectAssumption ==
    HookChoices \subseteq BOOLEAN /\ StaleReads \in BOOLEAN

VARIABLES
    machine,    \* the Machine in the API server
    cache,      \* the Machine in the controller's informer cache
    node,       \* the Node the VM registers
    config      \* what the providerSpec is good for

Phases == {"", "Provisioning", "Provisioned", "Running", "Deleting", "Failed"}

\* A providerSpec that Prism Central can satisfy, one that decodes and does
\* not pass the validation, one that newMachineScope cannot decode, and a
\* Machine without providerSpec or cluster ID label, which validateMachine of
\* the machine controller rejects.
Configs == {"valid", "invalid", "undecodable", "rejected"}

\* Status of the provider condition MachineInstanceReady.
ReadyStatus == {"", "True", "False", "Unknown"}

Machine ==
    [ exists     : BOOLEAN,              \* the object is in the API server
      deleting   : BOOLEAN,              \* metadata.deletionTimestamp is set
      finalizer  : BOOLEAN,              \* the machine finalizer is present
      hook       : BOOLEAN,              \* spec.lifecycleHooks.preTerminate is not empty
      providerID : Uuids \cup {None},    \* spec.providerID, by the UUID it holds
      phase      : Phases,               \* status.phase
      nodeRef    : BOOLEAN,              \* status.nodeRef is set
      drained    : BOOLEAN,              \* status condition Drained is True
      addresses  : BOOLEAN,              \* status.addresses is not empty
      vmUUID     : Uuids \cup {None},    \* status.providerStatus.vmUUID
      ready      : ReadyStatus ]         \* status.providerStatus condition

Node ==
    [ exists     : BOOLEAN,
      providerID : Uuids \cup {None},
      cordoned   : BOOLEAN,
      volumes    : {"never", "attached", "detached"} ]

NewMachine(hook) ==
    [ exists |-> TRUE, deleting |-> FALSE, finalizer |-> FALSE, hook |-> hook,
      providerID |-> None, phase |-> "", nodeRef |-> FALSE, drained |-> FALSE,
      addresses |-> FALSE, vmUUID |-> None, ready |-> "" ]

NoNode == [exists |-> FALSE, providerID |-> None, cordoned |-> FALSE, volumes |-> "never"]

ObjectTypeOK ==
    /\ machine \in Machine
    /\ cache \in Machine
    /\ node \in Node
    /\ config \in Configs

ObjectInit ==
    /\ machine \in {NewMachine(h) : h \in HookChoices}
    /\ cache = machine
    /\ node = NoNode
    /\ config \in Configs

-----------------------------------------------------------------------------

\* Mutant: a Machine is provisioned once it has a Node.
ProvisionedByNode(rec) == rec.nodeRef

machineIsProvisioned(rec) == rec.addresses \/ rec.providerID # None

\* A field the caller changed since it took base is written, any other keeps
\* the API server's value: client.MergeFrom(base) without optimistic lock.
Merged(server, base, local) == IF local # base THEN local ELSE server

\* Mutant: the spec is not patched.
MergeNoSpec(server, base, local) == server

\* The first half of patchMachine: metadata and spec.
MergeSpec(server, base, local) ==
    [server EXCEPT !.providerID = Merged(@, base.providerID, local.providerID)]

\* The second half of patchMachine: the status subresource.
MergeStatus(server, base, local) ==
    [server EXCEPT !.addresses = Merged(@, base.addresses, local.addresses),
                   !.vmUUID = Merged(@, base.vmUUID, local.vmUUID),
                   !.ready = Merged(@, base.ready, local.ready)]

\* What the first Patch call leaves in the local object: the API server's
\* metadata and spec, the status the caller saved in statusCopy.
WithStatusCopy(server, local) ==
    [server EXCEPT !.phase = local.phase, !.nodeRef = local.nodeRef,
                   !.drained = local.drained, !.addresses = local.addresses,
                   !.vmUUID = local.vmUUID, !.ready = local.ready]

\* setProviderStatus(vm, condition) with a VM: VmUUID and the addresses, which
\* are empty when the answer shows neither a name nor an IP address.
setProviderStatus(rec, u, shown) == [rec EXCEPT !.vmUUID = u, !.addresses = shown]

\* updateStatus of the machine controller, for the phase: only a difference
\* from the caller's copy is written.
updateStatus(server, local, phase) ==
    [server EXCEPT !.phase = Merged(@, local.phase, phase)]
=============================================================================
