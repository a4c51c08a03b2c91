# Verification of the Nutanix machine API provider

TLA+ models of `openshift/machine-api-provider-nutanix`: the controller that
turns OpenShift `Machine` objects into virtual machines of Nutanix Prism
Central. TLC checks the models on small instances; TLAPS proves all of their
safety properties for all instances. `PROJECT.json` lists every run, every mapped
source line, every hazard and every theorem.

## The system

| part | source | state | operations |
|---|---|---|---|
| machine actuator | `pkg/actuators/machine/actuator.go`, `reconciler.go` | none of its own; reads and patches the Machine | Create, Exists, Update, Delete |
| VM operations | `pkg/actuators/machine/vm.go` | Prism Central's inventory | validateVMConfig, createVM, buildV4VMFromScope, deleteVM, lookups by name and UUID |
| machine scope | `pkg/actuators/machine/machine_scope.go` | a copy of the Machine as the base of patches | newMachineScope, patchMachine, setProviderStatus, buildNodeAddresses, nodeHasVolumesAttached |
| conditions and helpers | `pkg/actuators/machine/utils.go` | provider conditions | setNutanixProviderConditions, condition constructors, GPU matching |
| MachineSet controller | `pkg/actuators/machineset/controller.go` | two annotations | Reconcile |
| machine controller, drain controller | vendored `machine-api-operator/pkg/controller/machine` | phase, finalizer, Drained condition | Reconcile |
| Prism Central client | vendored `prism-go-client/converged/v4` | tasks | CreateAsync, DeleteAsync, PowerOnVM, Wait |
| manager | `cmd/manager/main.go` | leader lease | start-up, leader election, resync |
| client construction | `pkg/client/client.go` | none | Client, V3Client |
| version | `pkg/version` | none | build information |

The machine controller takes a Machine from its work queue, reads it from an
informer cache and calls the actuator. The actuator talks to Prism Central in
requests that start tasks and in waits for those tasks, and reports by two
merge patches, one for the spec (`providerID`) and one for the status
(`vmUUID`, addresses, conditions). The drain controller, the nodelink
controller, users and the kubelet write the same objects meanwhile. The VM is
found by `vmUUID` once that is recorded and by the Machine's name before.

What is hard: every call can fail, with or without its effect; a wait can end
before its task does; the process can stop between any two calls; the cached
Machine can be old; a patch can be done by half; deletion can arrive at any
moment; and the controller decides on the text of errors ("not found"), which
says so for other reasons too, and on phases from which there is no way back
(`Failed`). The hazards in `PROJECT.json` name the
lines where these bite.

What makes the parts correct:

* the Machine: never let go of a VM that exists; never leave the API server
  before its VM has; never make two VMs; stay what it was recorded to be; come
  to rest; complete its deletion;
* the VM request: exactly what the configuration refers to at that time;
* the status: the addresses the VM has, stable under repetition; conditions
  that tell of every operation;
* the MachineSet: annotations that follow the template and disturb nothing else.

## The modules

| module | models | state |
|---|---|---|
| `PrismCentral` | Prism Central seen through its client: VMs of the Machine's name, tasks, lookups; failures are drawn from `FaultKinds` and counted | `vmState`, `tasks`, `faults`, `misreads` |
| `MachineObject` | the Machine and its Node in the API server, the cached Machine, merge patches, status helpers | `machine`, `cache`, `node`, `config` |
| `MachineActuator` | Create, Update, Delete, createVM, deleteVM, updateMachineWithVMState, patchMachine | `pc`, `m`, `base`, `vm`, `op`, `err` |
| `MachineController` | ReconcileMachine.Reconcile, the other actors, the composition, all properties of the Machine | (all of the above) |
| `MachineLifecycle` | abstract specification: what the provider promises of a Machine and its VMs | `life`, `requested`, `record`, `vms`, `deceptions` |
| `MachineRefinement` | the refinement mapping from `MachineController` to `MachineLifecycle` and its invariants | (none of its own) |
| `MachineFresh` | the inductive invariants for a cache that follows (`FreshInv`) and for tasks that are not lost (`OneVMInv`) | (none of its own) |
| `LeaderOverlap` | two replicas of the manager around a change of leader: two workers of `MachineController`, each with its own cache, that share Prism Central and the API server | two workers, two caches, `leader`, `handovers` |
| `MachineScope` | newMachineScope (Infrastructure, failure domain, credentials, client) and getUserData, with administrators who change these objects | `spec`, `env`, `fd`, `client`, `userData`, ... |
| `VMConfig` | validateVMConfig and buildV4VMFromScope as series of calls against an inventory that changes; extends `MachineScope` | `validated`, `errs`, `gpus`, `vm`, `inv`, `seen`, ... |
| `ProviderStatus` | buildNodeAddresses, the provider conditions, the region and zone labels | `addresses`, `conditions`, `labels`, `deleting`, `last` |
| `MachineSet` | the MachineSet controller | `ms`, `cache`, `queued`, `base`, `local`, ... |
| `VMConfigInvariant` | the inductive invariant of `VMConfig` (`ConfigInv`) | (none of its own) |
| `MachineTypeProofs`, `MachineSafetyProofs`, `MachineRefinementProofs`, `MachineFreshProofs` | theorems about `MachineController` | |
| `LeaderOverlapProofs`, `VMConfigProofs`, `MachineSetProofs`, `ProviderStatusProofs` | theorems about these modules | |
| `MC*` | instances for TLC | |

`MachineController` extends `MachineActuator`, which extends `MachineObject`,
which extends `PrismCentral`. In these four modules a call that leaves the
process is one step of the worker; `pc` names the call that comes next. A step
reads what the call would return, changes what the call would change and runs on
to the next call, so that everything else in the system can happen between two
calls. The one exception is `updateMachineWithVMState`: the Get and Update of
the Node, the lookup of the clusters and the list of NICs are one step, with
the outcomes of a failure at each of them. None of these calls reads again what
an earlier one decided on, and a crash between them has the outcome of a crash
before the first or, once the Node is written, before the patch. The provider spec is abstracted there to `config`: it is
valid, invalid for validateVMConfig, does not decode, or is rejected by the
machine controller. `MachineScope` and `VMConfig` open that abstraction.
Likewise `setProviderStatus` records only whether there are addresses, either
way at every update; `ProviderStatus` computes them, and they are empty for a VM
that shows neither a usable IP nor a name.

`MachineLifecycle` knows no controller, cache, patch, task or failure. A VM
appears only for a protected Machine (one with its finalizer); a VM that is gone
stays gone; a VM is recorded only if it has existed, and in place of another one
only if that is gone; a protected Machine is released only when its deletion was
requested and the recorded VM is gone. It admits one weakness: a deception, an
error taken for the absence of a VM. After one of them a VM that exists may be
replaced on record, and after two the Machine may be released before its VM is
gone. `MachineRefinement` maps the finalizer and the presence of the Machine to
`life`, `deletionTimestamp` to `requested`, `vmUUID` to `record`, the state of
every UUID to `vms` and `misreads` to `deceptions`.

`LeaderOverlap` takes its two workers from `MachineSafetyProofs`, which extends
`MachineController`, because its proofs cite the lemmas there about a worker
that is not alone, once for each replica.

In each module the operators marked "Mutant" are plausible bugs, used to show
that the properties notice them. They are not part of any specification.

### Errors that are misread

Whether a VM exists is decided by `isNotFoundError` (`utils.go:144`), a test on
the text of an error. It is used on every lookup (`reconciler.go:166` and `227`,
`vm.go:464` and `472`), on the delete request and on the wait for its task
(`vm.go:832` and `841`). An error that says "not found" for another reason, an
endpoint that answers 404 for instance, reads as the absence of the VM. The
failure of kind `textNotFound` is such an error at any of these places, for a VM
that does exist; `misreads` counts them. What the properties say of it:

| holds | properties |
|---|---|
| however many errors are misread | TypeOK, VmUUIDNamed, NodeNamed, FreshInv, VmUUIDFixed, StaysProvisioned, FailedTerminal, VolumesDetached, RefInv, ExtraVMsBounded (each costs at most one VM) |
| until a second one is | RecordedVMGone, and the release of a Machine in Promise |
| until one is | VmUUIDStable, the record of another VM in Promise, RecordedGone (two replicas) |
| in runs and theorems without that kind of failure | NoOrphan, AtMostOneVM, OneVMInv, DeletionCompletes, ProvisioningSettles, Quiescent |

So a Machine can leave the API server while its VM exists, by two misread errors
in a row: one in Delete and one in the Exists after it. One is never enough.

### Abstractions

* One Machine: names keep Machines apart, and the work queue never hands one
  Machine to two workers of a process. A `Crash` drops the worker's memory. Two
  processes at once are the subject of `LeaderOverlap`; the cache of each may
  lag (`StaleReplicas`).
* Optimistic locking (resource versions) is inequality of the worker's copy
  and the object. Writes that restore an earlier value are the only
  difference. Merge patches write the fields that differ from their base.
* `status.conditions` of the machine controller, error messages and events are
  left out: nothing decides on them (but Drained, which is there). The
  MachineAPIMigration gate is off. The labels of a Machine do not change.
* A list by name and the Get of the one VM it returns are one step, and so are
  the polling of a create task and the Get of the VM at its end, whose failure
  (`api`) does not lose the task. Every VM that is found has an ExtId.
* The drain is two steps, `Cordon` and the Drained condition (`Drain`), between
  which anything can happen; a cordon or an eviction that fails is one that has
  not happened yet. The drain controller reads the current Machine.
* In `MachineActuator` newMachineScope and getUserData are calls that may fail.
  Pre-terminate hooks exist and are removed; pre-drain hooks are not modelled.
  Volumes are attached to a Node at most once.
* In `VMConfig` a name lookup and its cardinality check are one call, sizes are
  in MiB, the GPUs are those of one cluster, and every resource has an ExtId.
  The attempt is taken by itself, so it also covers a Machine without the
  cluster ID label, which the machine controller rejects before it calls Create.
  The user data is its content and whether `/etc/hostname` was added.
* In `MachineSet` integers go from `-Limit` to `Limit - 1`. `Limit` is 2^31 in
  the code and 128 in the run, since TLC's own integers have 32 bits; the proofs
  hold for any.

## The runs

| run | question | bounds | states |
|---|---|---|---|
| `machine_fresh` | TypeOK, VmUUIDNamed, NodeNamed, FreshInv, VmUUIDFixed, StaysProvisioned, FailedTerminal, VolumesDetached with a cache that follows | 3 UUIDs, 4 failures of any kind, with and without hook | 1,944 k |
| `machine_stale` | IndInv, RefInv, RecordedVMGone, VmUUIDStable and the refinement of `MachineLifecycle` (Promise) with a lagging cache | 3 UUIDs, 2 failures of any kind | 2,733 k |
| `machine_no_loss` | NoOrphan, AtMostOneVM, OneVMInv; DeletionCompletes, ProvisioningSettles, Quiescent under fairness | 3 UUIDs, 2 failures but lost calls, crashes and misread errors, with and without hook | 408 k |
| `leader_overlap` | RecordedGone, ExtraVMsBounded with two replicas at work | 4 UUIDs, 1 lost call, misread error or crash, 1 change of leader, the old leader's cache lags until the first failure (`LagUntilFailure`), VMs that show an address (`VMsNamed`) | 2,123 k |
| `vm_config` | RequestMeant, RequestOwned, DisksAsConfigured, VerdictRight, ScopeCurrent, ConfigInv; AttemptsEnd under fairness | 16 specs, 5 environments, 2 changes, 1 failure, any number of attempts | 790 k |
| `provider_status` | IPsComplete, RepeatQuiet, RegionRight | 5 sorts of NIC, 5 sorts of cluster, lists of up to 2, VMs with and without a name | 12 k |
| `machineset` | AtRest, ForeignKept; AnnotationsSettle under fairness | 4 specs, 3 edits, 2 failures | 71 k |
| `orphan`, `ready_off`, `transient_invalid`, `invalid_deleted`, `conditions_dropped` | five statements of the documentation that the code does not keep | one failure (none for the last two) | |

Why the bounds are enough: a new VM is requested only when no VM is alive under
the name, which takes one failure per further VM (or, in `leader_overlap`, a
change of leader), so with as many UUIDs as failures and changes plus one the
supply does not run short and every interesting combination (an abandoned
create, its retry, a VM that died and its successor) occurs; `leader_overlap`
has one more, so that its bound on the number of VMs is not the supply. Two
failures cover a failure during the recovery from a failure, and are what it
takes for RecordedVMGone's second misread error. `machine_fresh` has fewer UUIDs
than failures: its properties are about three VMs at most. (To bring the Node of
a first VM together with the record of a third one, see NodeNamed below, takes
five failures; that case is left to the proof.) The safety runs of
the Machine use symmetry of the UUIDs, `machine_no_loss`, which checks liveness,
does not. The deadlock check is off: a deleted Machine, a Failed one and a
finished attempt are places where the system stops.

`VmUUIDFixed`, `VmUUIDNamed`, `NodeNamed`, `StaysProvisioned` and
`FailedTerminal` need a fresh cache; with a stale one a VM that was deleted externally may be replaced, or a
phase written by a copy that is out of date. What remains true with a stale
cache is `VmUUIDStable`, `RecordedVMGone`, `VolumesDetached`, `Promise` and, as
long as no create task is lost sight of and no error is misread, `AtMostOneVM`.

In `leader_overlap`, `AtMostOneVM`, `NoOrphan` and `VmUUIDStable` do not hold:
both replicas may create a VM, and the second to record its own overwrites the
other. What remains is that the last VM on record is gone before the Machine is,
and that each change of leader and each failure costs at most one VM. Lag and
failures in all combinations are too many states for TLC, hence the bound
`LagUntilFailure`, an action constraint: after a failure the lagging cache
catches up before anything else happens. `VMsNamed` is one too: the addresses,
which no property of this run looks at, are never empty. Other kinds of failure
do not occur in this run. The theorems need none of these bounds.

`Quiescent` leaves the addresses aside, since the model lets them come and go
freely; that they settle when the VM does is `RepeatQuiet`.

### Fairness

`MachineController!Fairness` is weak fairness of the worker (a failed reconcile
is retried by the rate-limited queue, a wait is requeued, and everything is
resynchronised every ten minutes, `cmd/manager/main.go` line 142), of the
informer, of each Prism Central task, of the removal of hooks, of the cordon and
the drain, of node registration and link, and of the detachment of volumes. Nothing is
assumed of users, failures or the attachment of volumes. The `MachineSet`
module assumes the same of its queue and its informer, and `VMConfig` that the
queue brings a Machine back after each failed attempt (`WF_vars(Step)`).

### What the five violations show

1. `orphan`: a lost create request or wait, then a deletion, leaves a VM that
   no Machine knows of (`reconciler.go:166`).
2. `ready_off`: after a failed power-on the VM stays off and the Machine is
   reported ready (`actuator.go:153`, `vm.go:469`).
3. `transient_invalid`: a failing lookup makes a valid configuration invalid
   and the Machine Failed for good (`reconciler.go:58`).
4. `invalid_deleted`: a Machine whose providerSpec does not decode can never be
   deleted, since the Exists after Delete fails in the same way
   (`machine_scope.go:78`, machine controller line 292).
5. `conditions_dropped`: the merge of the provider conditions is discarded
   (`utils.go:282`).

## The proofs

A theorem holds for every value of the constants that the named assumptions of
its module admit: any set of UUIDs, any failures and any number of them, any
inventory, specs and environments, any answers of Prism Central. Where a theorem
needs more, its `ASSUME` says so:

| theorem | states | needs |
|---|---|---|
| `TypeCorrect`, `IndInvHolds`, `RefInvHolds` | `[]TypeOK`, `[]IndInv`, `[]RefInv` | |
| `RecordedVMGoneHolds` | `[]RecordedVMGone` (fewer than two misread errors) | |
| `VmUUIDStableHolds` | `VmUUIDStable` (no misread error so far) | |
| `VolumesDetachedHolds` | `VolumesDetached` | |
| `Implements` | `Promise`, the refinement of `MachineLifecycle` | |
| `FreshInvHolds`, `VmUUIDNamedHolds`, `NodeNamedHolds` | `[]FreshInv`, `[]VmUUIDNamed`, `[]NodeNamed` | `StaleReads = FALSE` |
| `VmUUIDFixedHolds`, `StaysProvisionedHolds`, `FailedTerminalHolds` | `VmUUIDFixed`, `StaysProvisioned`, `FailedTerminal` | `StaleReads = FALSE` |
| `AtMostOneVMHolds` | `[]AtMostOneVM` | no kind of failure that loses sight of a VM (`NoLostTask`: none of "lost", "crash" and "textNotFound") |
| `OneVMInvHolds`, `NoOrphanHolds` | `[]OneVMInv`, `[]NoOrphan` | both |
| `RecordedGoneHolds`, `ExtraVMsBoundedHolds` | `[]RecordedGone`, `[]ExtraVMsBounded` of `LeaderOverlap`, whichever caches lag (the first with no misread error so far) | |
| `ConfigInvHolds`, `RequestMeantHolds`, `RequestOwnedHolds`, `DisksAsConfiguredHolds`, `VerdictRightHolds`, `ScopeCurrentHolds` | the invariants of `VMConfig` | |
| `AtRestHolds`, `ForeignKeptHolds` | `[]AtRest`, `ForeignKept` of `MachineSet` | |
| `StatusInvHolds`, `IPsCompleteHolds` | `[]StatusInv`, `[]IPsComplete` of `ProviderStatus` | |
| `RepeatQuietHolds`, `RegionRightHolds` | `RepeatQuiet`, `RegionRight` of `ProviderStatus` | |

The two hypotheses are not technical: the run `orphan` shows what a lost task
does, an error misread by createVM's lookup leads to a second VM, and the
remarks after the table of runs say what a stale cache does.

### The arguments

`RecordedVMGone` is not inductive: the finalizer is removed on the word of a
lookup made three calls earlier, with a `VmUUID` read earlier still. `IndInv`
adds what makes that word good. Some parts hold whatever is misread: a VM that is
gone stays gone (`TasksOK`: no task runs on a VM that does not exist); what is
recorded or held was born (`RecordOK`, `HeldOK`); the finalizer is there before
anything is recorded and no stale copy brings a reconcile past it
(`FinalizerOK`); an operation keeps the `VmUUID` it began with until it sets one
(`OperationOK`, `ScopeOK`); and a deletion works on the `VmUUID` on record, which
nobody else writes (`DeletionSound`). The last one carries the argument about
two misread errors: a Delete that returns nil without one has seen its VM gone,
and so the Exists after it has to be misread too (`GoneUnlessMisread`). Other
parts hold only while nothing is misread: a cached or local copy that disagrees
with the record on `VmUUID` holds the UUID of a dead VM (`CopyOK`, `WorkerOK`);
and a worker about to record a UUID found it when the recorded VM was gone
already (`MayRecord`). They are what `VmUUIDStable` needs. The proof goes action by action: lemmas say what a group of
actions does to the VMs, to the record and to the local copy, and `IndInvStep`
puts them together.

The refinement needs three facts more, `RefInv`: a reconcile that deletes does so
after the deletion was requested (`DeletionOK`), the worker that adds the
finalizer holds a Machine without one (`ProtectOK`), and no VM was requested
before the finalizer was there (`RequestOK`). With `IndInv` and `RefInv` every
action of the controller, of Prism Central and of the other actors is one step
of `MachineLifecycle` or a stutter.

`VolumesDetached` rests on `DrainInv`: a cordoned Node belongs to a linked
Machine, and `Actuator.Delete` runs on a copy that was read drained and so knows
of the Node; after its check no volume is attached to a Node that is cordoned.

`FreshInv` says what a reconcile may rely on when the cache follows. Nobody else
writes the phase, the `VmUUID` or the `ProviderID`, so the worker's copies of
these stay those of the object until it sets them itself (`CopiesFresh`); Create
runs only for a Machine without a `VmUUID`, and a `VmUUID` in hand always has its
`ProviderID` next to it, which is what makes the two patches of patchMachine
harmless in whichever order they get lost (`RecordFresh`); a Machine with a Node
or addresses has a `ProviderID` until its deletion is requested, so that empty
addresses and misread lookups lead no provisioned Machine back to Create
(`ProvisionedFresh`); the Node names the VM in hand or one that is gone
(`NodeFresh`).

`LoneInv` holds with a stale cache too: outside of the wait for its creation no
VM is under creation, and at the moment of the request none is alive, so the
lookup by name that createVM makes is conclusive. With a fresh cache, `SoleInv`
follows that VM from the hand of the worker into the record and to its deletion;
hence nothing is alive when the finalizer goes.

`LeaderOverlap` is proved by what each worker guarantees and relies on.
`MachineSafetyProofs` states, for a worker among others, that its steps keep the
record, the VMs and what another worker holds (`WorkerGuarantee`,
`OthersGuarantee`), and that its own copies survive any such step
(`WorkerRelies`, with `HeldOK` as what is left of `WorkerOK` when the record can
change under the worker). `HeldOK` covers the cache as well as the worker's
copies, and `WorkerRelies` holds whether the cache follows a step of the other
replica or stays behind; that is why nothing is assumed of the caches.
`OverlapInv` is `HeldOK` for both, and `RecordedGone` follows because
removeFinalizer is refused once the other worker has written.
The number of VMs is bounded by `CountInv`: there are two workers only after a
change of leader; a VM under creation that nobody waits for has cost a failure,
and so has a VM that a misread lookup overlooked; and a worker that is about to request a VM is counted before it does. The last
clause is needed since both workers may be there at once, each with a lookup
that found nothing.

`ConfigInv` follows the working copy of the providerSpec through
validateVMConfig: a field is as configured until it is validated and denotes
what was meant afterwards unless it has an error (`CopyOK`); in an attempt
without failures or changes a field has an error if and only if it cannot be
satisfied (`ErrorsRight`); a scope built while nothing changed is that of now
(`ScopeFresh`). Every step of the validation is treated by itself.

`SetInv` of `MachineSet` is about wake-ups: the cache is behind only while an
event is under way, and a patch in hand was computed from the cached object
unless a further reconcile is queued. So a controller at rest has written the
right annotations (`AtRest`).

`RegionRight` needs that the first Prism Central of a list exists (a minimum of
a set of numbers, from the well-foundedness of `<`), and that the request for a
deletion leaves both the label and the last call alone.

The other properties of `ProviderStatus` rest on `StatusInv`: while there is a
VM, the status is what the operators compute from the last VM reported. What
remains are facts about these operators, for lists of any length:

* `FlattenSeq`, which appends the addresses of the NICs, is in bijection with
  the places in the lists it flattens (`Flattened`), so it loses and invents
  nothing (`IPsComplete`), and lists in another order give a rearrangement
  (`FlattenedMoved`);
* every list can be sorted (`Sortable`): an element goes to the place that is
  the number of those that belong before it, itself included; so the `CHOOSE` in
  `Sort` has something to choose;
* rearranged lists have the same arrangements, hence the same sorted one
  (`SortSame`), which is `RepeatQuiet`.

The induction theorems of the library take a predicate as a parameter, which the
provers cannot instantiate; each induction is therefore an argument about the
least counterexample (`Least`, `UpTo`).

### What proving has changed

* `NodeNamed` once said that the Node has the `ProviderID` of the recorded VM.
  The proof failed, and TLC found why with five failures: a VM that was created,
  registered its Node and was deleted externally before it was recorded leaves
  its Node to the successor. The property now admits a VM that is gone.
* `VerdictRight` compares the verdict with a definition of what can be
  satisfied. The proof showed two provider specs for which that definition was
  wrong and the code right: a GPU with an identifier of unset type, and counts of
  vCPUs and sockets that are both negative. The definition was corrected.
* `getPrismCentralCluster` is stated with the smallest index of a Prism Central
  instead of a selection from the sequence, and `Product` of `MachineSet` with
  `Limit` instead of a power of two; both say the same and can be reasoned about.
* The addresses are collected with `FlattenSeq` instead of a fold, and sorted
  with `Sort`, the ascending arrangement of a list, instead of `SortSeq` of the
  TLC module, of which the provers know nothing.
* `RepeatQuiet` compared a list with its reverse, all the order there is in lists
  of two; for lists of any length it now admits every arrangement.
* `RecordedVMGone`, `VmUUIDStable` and `Promise` once held without exception,
  because only the wait for a delete task could be misread in the model. With
  `isNotFoundError` everywhere the code uses it, they count the misread errors.
* `StaysProvisioned` was a property of `ProviderStatus`, where it followed from
  addresses that always had the VM's name. They may be empty; it is now a
  property of the Machine, and rests on the `ProviderID`.
* The lemmas about a worker among others once assumed a cache that follows. They
  turned out not to need it, and `LeaderOverlap` got a cache for each replica.

### Only model-checked

* `DeletionCompletes`, `ProvisioningSettles`, `Quiescent`, `AnnotationsSettle`
  and `AttemptsEnd`: they hold under fairness, which is beyond the prover.
* The five statements that the code does not keep are refuted by TLC.

## Not modelled

Flag parsing, feature gates and endpoints of the manager; the version; metrics
and events; the MachineAPIMigration gate; pre-drain hooks; the environment
variables of the client (dead code here); the encoding of ignition and
cloud-init; `isMaster` (unused); resources of Prism Central without an ExtId;
the rounding of sizes to MiB; labels that change while a Machine lives; more
than one Machine. The product of vCPUs wraps in the model as it does in the code,
but no property asks what the annotation should be then; nor does one ask for
the zone label after a failing Get, which the code means to be best effort.

## Plan

Done: the Machine's life cycle, its abstract specification and the refinement;
two overlapping leaders with caches that lag; the scope and the VM request; the
provider status and labels; the MachineSet. All their safety properties are
proved. What could come next:

1. `MachineLifecycle` with two replicas: what of its promise remains when the
   second replica may overwrite a record.
2. Several Machines of one MachineSet, to relate the MachineSet controller to
   the Machines it makes.
3. Pre-drain hooks and the MachineAPIMigration gate in `MachineController`.
