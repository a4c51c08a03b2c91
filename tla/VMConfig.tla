------------------------------ MODULE VMConfig ------------------------------
(***************************************************************************)
(* How a create attempt turns the providerSpec into a VM request:          *)
(* validateVMConfig resolves every reference against Prism Central in a    *)
(* copy of the providerSpec, and buildV4VMFromScope makes the request from *)
(* that copy.  Each is a series of calls, the inventory of Prism Central   *)
(* changes in between, calls fail, and the work queue starts an attempt    *)
(* over when the request could not be made.  An attempt begins with the    *)
(* scope of MachineScope.                                                  *)
(***************************************************************************)
EXTENDS MachineScope, FiniteSets, Functions

CONSTANTS
    Specs,          \* providerSpecs
    Universe,       \* the resources Prism Central may hold
    Inventory,      \* those it holds at first
    Owned,          \* key and value of the cluster ownership category
    MaxChanges      \* bound on changes of the inventory and of the environment

\* A resource has a kind, a name and an ExtId.  GPUs have their device ID for
\* ExtId and are those of the one Prism Element; a category's name is its key
\* and value.
ASSUME InventoryAssumption ==
    /\ Inventory \subseteq Universe /\ IsFiniteSet(Universe)
    /\ \A r \in Universe : r.name # None /\ r.id # None
ASSUME BoundsAssumption == MaxChanges \in Nat /\ MaxFails \in Nat

\* What the Machine, a data disk and the objects of the environment consist of.
SpecFields ==
    { "cluster", "image", "subnets", "project", "categories", "gpus", "disks", "vcpus",
      "sockets", "memoryMib", "diskMib", "boot", "failureDomain", "credentialsSecret",
      "userDataSecret", "windows", "clusterID" }
DiskFields == {"sizeMib", "device", "adapter", "index", "mode", "container", "source"}
HasFields(rec, fields) == rec = [f \in fields |-> rec[f]]
IsList(s) == s \in Seq(Range(s))

ASSUME SpecsAssumption ==
    \A s \in Specs :
        /\ HasFields(s, SpecFields) /\ IsList(s.subnets)
        /\ \A d \in Range(s.disks) : HasFields(d, DiskFields)
ASSUME EnvironmentsAssumption ==
    \A e \in Environments :
        /\ \A n \in DOMAIN e.domains : IsList(e.domains[n].subnets)
        /\ e.secret # None => IsList(e.secret)

VARIABLES
    inv,        \* Prism Central's inventory
    validated,  \* providerSpecValidated, None before the first attempt
    errs,       \* the fields for which validateVMConfig has an error
    gpus,       \* the GPUs buildV4GPUList picked
    vm,         \* the VM request, None before it is made
    seen,       \* every resource that was there during the attempt
    changes     \* changes so far

outside == <<spec, env, inv, changes>>
attempt == <<validated, errs, gpus, vm, seen>>
vars == <<outside, pc, scopeVars, attempt, calm, fails>>

Init ==
    /\ spec \in Specs /\ env \in Environments
    /\ inv = Inventory
    /\ pc = "idle" /\ fd = None /\ client = None /\ userData = None
    /\ validated = None /\ errs = {} /\ gpus = <<>> /\ vm = None /\ seen = {}
    /\ calm = TRUE /\ changes = 0 /\ fails = 0

-----------------------------------------------------------------------------
(* Lookups.  A reference is by name or by uuid; an empty type is "unset".  *)

Denotes(ref, kind, r) ==
    r.kind = kind /\ ref.val = (IF ref.by = "name" THEN r.name ELSE r.id)

Matches(kind, ref) == {r \in inv : Denotes(ref, kind, r)}

\* A reference of a valid type, not empty, that exactly one resource answers.
Found(kind, ref) ==
    ref.by \in {"name", "uuid"} /\ ref.val # None /\ Cardinality(Matches(kind, ref)) = 1

Resolved(kind, ref) ==
    IF Found(kind, ref)
    THEN [by |-> "uuid", val |-> (CHOOSE r \in Matches(kind, ref) : TRUE).id]
    ELSE ref

-----------------------------------------------------------------------------
(* validateVMConfig                                                        *)

\* getMachineResourceIdentifierFromFailureDomainConfig: a type that is not
\* known is dropped.
FromFailureDomain(ref) ==
    [by |-> IF ref.by \in {"name", "uuid"} THEN ref.by ELSE "unset", val |-> ref.val]

WithFailureDomain(s) ==
    IF fd = None THEN s
    ELSE [s EXCEPT !.cluster = FromFailureDomain(fd.cluster),
                   !.subnets = [i \in DOMAIN fd.subnets |-> FromFailureDomain(fd.subnets[i])]]

\* Mutant: the scope of the previous attempt is used again.
BeginWithOldScope ==
    /\ pc = "idle"
    /\ pc' = IF client # None /\ client.user # None THEN "userData" ELSE "scope"
    /\ errs' = {} /\ gpus' = <<>> /\ seen' = {} /\ calm' = TRUE
    /\ UNCHANGED <<outside, scopeVars, validated, vm, fails>>

\* A create attempt: everything is read anew.
Begin ==
    /\ pc = "idle"
    /\ pc' = "scope"
    /\ errs' = {} /\ gpus' = <<>> /\ seen' = {} /\ calm' = TRUE
    /\ UNCHANGED <<outside, scopeVars, validated, vm, fails>>

\* Mutant: the copy of the previous attempt is used again.
OldCopy == IF validated = None THEN WithFailureDomain(spec) ELSE validated

\* validateVMConfig starts from a fresh copy of the providerSpec.
FreshCopy == WithFailureDomain(spec)

ReadScope ==
    /\ Scope
    /\ validated' = IF pc' = "cluster" THEN FreshCopy ELSE validated
    /\ UNCHANGED <<outside, errs, gpus, vm, seen>>

\* One field: it is valid and the copy becomes result, or it is not and the
\* error is collected.  A failing call, if calls are made, is an error too.
Validate(field, here, next, valid, calls, result) ==
    /\ pc = here /\ pc' = next
    /\ \/ valid /\ validated' = result /\ UNCHANGED errs /\ CallSucceeds
       \/ ~valid /\ errs' = errs \cup {field} /\ UNCHANGED validated /\ CallSucceeds
       \/ calls /\ CallFails /\ errs' = errs \cup {field} /\ UNCHANGED validated
    /\ seen' = seen \cup inv
    /\ UNCHANGED <<outside, scopeVars, gpus, vm>>

validateClusterConfig ==
    Validate("cluster", "cluster", "image", Found("cluster", validated.cluster), TRUE,
        [validated EXCEPT !.cluster = Resolved("cluster", @)])

validateImageConfig ==
    Validate("image", "image", "subnets", Found("image", validated.image), TRUE,
        [validated EXCEPT !.image = Resolved("image", @)])

MaxSubnets == 32

\* Mutant: the minimum memory is not enough.
SizesAboveMinimum(s) ==
    /\ s.vcpus >= 1 /\ s.sockets >= 1
    /\ s.memoryMib > 2 * 1024 /\ s.diskMib >= 20 * 1024
    /\ s.boot \in {"unset", "Legacy", "UEFI", "SecureBoot"}

\* The sizes and the boot type take no call and are checked after the subnets.
SizesValid(s) ==
    /\ s.vcpus >= 1 /\ s.sockets >= 1
    /\ s.memoryMib >= 2 * 1024 /\ s.diskMib >= 20 * 1024
    /\ s.boot \in {"unset", "Legacy", "UEFI", "SecureBoot"}

validateSubnetsConfig ==
    Validate("subnets", "subnets", "project",
        /\ Len(validated.subnets) \in 1 .. MaxSubnets
        /\ \A ref \in Range(validated.subnets) : Found("subnet", ref)
        /\ SizesValid(validated),
        TRUE,
        [validated EXCEPT !.subnets = [i \in DOMAIN @ |-> Resolved("subnet", @[i])]])

validateProjectConfig ==
    Validate("project", "project", "categories",
        validated.project.by = "unset" \/ Found("project", validated.project),
        validated.project.by # "unset",
        [validated EXCEPT !.project = Resolved("project", @)])

Category(c) == [by |-> "name", val |-> c]

validateCategoriesConfig ==
    Validate("categories", "categories", "gpus",
        \A c \in Range(validated.categories) : Found("category", Category(c)),
        validated.categories # <<>>, validated)

\* getGPUFromListConverged finds a device for the GPU.
GPUMatches(ref) == {r \in inv : Denotes(ref, "gpu", r)}

GPUFound(ref) == ref.by \in {"name", "uuid"} /\ ref.val # None /\ GPUMatches(ref) # {}

\* The GPUs are looked for in the cluster, which must have been resolved.
validateGPUsConfig ==
    Validate("gpus", "gpus", "disks",
        validated.gpus # <<>> =>
            /\ validated.cluster.by = "uuid" /\ validated.cluster.val # None
            /\ \A ref \in Range(validated.gpus) : GPUFound(ref),
        validated.gpus # <<>>, validated)

DiskAdapters == {"SCSI", "IDE", "PCI", "SATA", "SPAPR"}
CDRomAdapters == {"IDE", "SATA"}

\* Mutant: a CD-ROM may have any adapter a disk may have.
AnyAdapterValid(d) ==
    /\ d.sizeMib >= 1024
    /\ d.device # "none" => d.adapter \in DiskAdapters /\ d.index >= 0

\* A disk without device properties, storage configuration or data source has
\* "none" for them.
DiskValid(d) ==
    /\ d.sizeMib >= 1024
    /\ \/ d.device = "none"
       \/ d.device = "disk" /\ d.adapter \in DiskAdapters /\ d.index >= 0
       \/ d.device = "cdrom" /\ d.adapter \in CDRomAdapters /\ d.index >= 0
    /\ d.mode \in {"none", "standard", "flash"}
    /\ d.container.by = "none" \/ (d.container.by = "uuid" /\ d.container.val # None)
    /\ d.source.by = "none" \/ Found("image", d.source)

WithImage(d) == [d EXCEPT !.source = Resolved("image", @)]

\* The last field: the attempt goes on only if no field has an error.
validateDataDisksConfig ==
    Validate("disks", "disks", "checked",
        \A d \in Range(validated.disks) : DiskValid(d),
        \E d \in Range(validated.disks) : d.source.by # "none",
        [validated EXCEPT !.disks = [i \in DOMAIN @ |-> WithImage(@[i])]])

\* create returns InvalidMachineConfiguration if there is an error: the
\* Machine fails for good.  Otherwise createVM goes on.
Checked ==
    /\ pc = "checked"
    /\ pc' = IF errs = {} THEN "gpuList" ELSE "invalid"
    /\ UNCHANGED <<outside, scopeVars, attempt, calm, fails>>

-----------------------------------------------------------------------------
(* buildV4VMFromScope                                                      *)

\* The cluster and image UUIDs are required; then the GPUs are listed again.
buildV4GPUList ==
    /\ pc = "gpuList"
    /\ \/ /\ validated.cluster.val # None /\ validated.image.val # None
          /\ \A ref \in Range(validated.gpus) : GPUFound(ref)
          /\ gpus' = [i \in DOMAIN validated.gpus |->
                         (CHOOSE r \in GPUMatches(validated.gpus[i]) : TRUE).name]
          /\ pc' = "categoryRefs"
          /\ CallSucceeds
       \/ /\ \/ validated.cluster.val = None \/ validated.image.val = None
             \/ \E ref \in Range(validated.gpus) : ~GPUFound(ref)
          /\ Retry /\ CallSucceeds /\ UNCHANGED gpus
       \/ validated.gpus # <<>> /\ Retry /\ CallFails /\ UNCHANGED gpus
    /\ UNCHANGED <<outside, scopeVars, validated, errs, vm, seen>>

\* The names of the buses; what is not known becomes SCSI or IDE.
DiskBusType(adapter) == IF adapter \in DiskAdapters THEN adapter ELSE "SCSI"
CdRomBusType(adapter) == IF adapter \in CDRomAdapters THEN adapter ELSE "IDE"

\* A data disk of the request.
Device(d) ==
    [ kind      |-> IF d.device = "cdrom" THEN "cdrom" ELSE "disk",
      bus       |-> CASE d.device = "none"  -> None
                      [] d.device = "cdrom" -> CdRomBusType(d.adapter)
                      [] OTHER              -> DiskBusType(d.adapter),
      index     |-> IF d.device = "none" THEN None ELSE d.index,
      flash     |-> d.mode = "flash",
      container |-> IF d.container.by = "none" THEN None ELSE d.container.val,
      image     |-> IF d.source.by = "none" THEN None ELSE d.source.val ]

\* The ExtIds of the references that have one: a subnet without is skipped.
ExtIds(refs) ==
    LET ids == [i \in DOMAIN refs |-> refs[i].val]
    IN  IF None \in Range(ids) THEN SelectSeq(ids, LAMBDA id : id # None) ELSE ids

\* Mutant: the ownership category is looked up under another key.
OwnedUnderOtherKey(cats) == Range(cats) \cup {"other"}

\* The categories of the request: those of the providerSpec and the
\* ownership category.
AllCategories(cats) == Range(cats) \cup {Owned}

CategoryIds(cats) == {Resolved("category", Category(c)).val : c \in cats} \ {None}

Request(s) ==
    [ cluster    |-> s.cluster.val,
      image      |-> s.image.val,
      nics       |-> ExtIds(s.subnets),
      project    |-> IF s.project.by = "uuid" THEN s.project.val ELSE None,
      categories |-> CategoryIds(AllCategories(s.categories)),
      gpus       |-> gpus,
      disks      |-> [i \in DOMAIN s.disks |-> Device(s.disks[i])],
      vcpus      |-> s.vcpus, sockets |-> s.sockets,
      memoryMib  |-> s.memoryMib, diskMib |-> s.diskMib, boot |-> s.boot,
      userData   |-> userData ]

\* Mutant: a category that is not found is left out.
CategoriesIfFound ==
    /\ pc = "categoryRefs"
    /\ vm' = Request(validated) /\ pc' = "submit"
    /\ seen' = seen \cup inv /\ CallSucceeds
    /\ UNCHANGED <<outside, scopeVars, validated, errs, gpus>>

\* buildV4CategoryRefs looks every category up again, and the ownership
\* category for the first time; then the request is complete.
buildV4CategoryRefs ==
    /\ pc = "categoryRefs"
    /\ LET all == \A c \in AllCategories(validated.categories) : Found("category", Category(c))
       IN  \/ /\ all
              /\ vm' = Request(validated) /\ pc' = "submit"
              /\ CallSucceeds
           \/ ~all /\ Retry /\ CallSucceeds /\ UNCHANGED vm
           \/ Retry /\ CallFails /\ UNCHANGED vm
    /\ seen' = seen \cup inv
    /\ UNCHANGED <<outside, scopeVars, validated, errs, gpus>>

\* Prism Central refuses the request, and the attempt is over, or accepts it.
SubmitVM ==
    /\ pc = "submit"
    /\ \/ pc' = "done" /\ CallSucceeds /\ UNCHANGED vm
       \/ Retry /\ CallFails /\ vm' = None
    /\ UNCHANGED <<outside, scopeVars, validated, errs, gpus, seen>>

-----------------------------------------------------------------------------

\* Somebody adds, renames or removes a resource of Prism Central.
InventoryChanges ==
    /\ changes < MaxChanges /\ changes' = changes + 1 /\ calm' = FALSE
    /\ pc \notin {"invalid", "submit", "done"}
    /\ \/ \E r \in Universe \ inv : inv' = {x \in inv : x.kind # r.kind \/ x.id # r.id} \cup {r}
       \/ \E r \in inv : inv' = inv \ {r}
    /\ UNCHANGED <<spec, env, pc, scopeVars, attempt, fails>>

\* An administrator changes the Infrastructure, the credentials or the user data.
EnvironmentChanges ==
    /\ changes < MaxChanges /\ changes' = changes + 1 /\ calm' = FALSE
    /\ pc \notin {"invalid", "submit", "done"}
    /\ env' \in Environments \ {env}
    /\ UNCHANGED <<spec, inv, pc, scopeVars, attempt, fails>>

Validation ==
    \/ validateClusterConfig \/ validateImageConfig \/ validateSubnetsConfig
    \/ validateProjectConfig \/ validateCategoriesConfig \/ validateGPUsConfig
    \/ validateDataDisksConfig

Step ==
    \/ Begin \/ ReadScope \/ Validation \/ Checked
    \/ buildV4GPUList \/ buildV4CategoryRefs \/ SubmitVM

Next == Step \/ InventoryChanges \/ EnvironmentChanges

\* The work queue brings the Machine back after every failed attempt.
Spec == Init /\ [][Next]_vars /\ WF_vars(Step)

-----------------------------------------------------------------------------

\* The configuration that counts.
Wanted == WithFailureDomain(spec)

\* id is the ExtId of a resource that ref denoted during this attempt.
Meant(id, kind, ref) == \E r \in seen : r.id = id /\ Denotes(ref, kind, r)

\* The request names the cluster, the image, the subnets (all of them, in
\* order), the project and the disk images that the failure domain, or else
\* the providerSpec, referred to during this attempt: nothing is carried over
\* from an earlier attempt, and nothing of the providerSpec is used where the
\* failure domain decides.
RequestMeant ==
    vm # None =>
        /\ Meant(vm.cluster, "cluster", Wanted.cluster)
        /\ Meant(vm.image, "image", Wanted.image)
        /\ DOMAIN vm.nics = DOMAIN Wanted.subnets
        /\ \A i \in DOMAIN vm.nics : Meant(vm.nics[i], "subnet", Wanted.subnets[i])
        /\ IF Wanted.project.by = "unset" THEN vm.project = None
           ELSE Meant(vm.project, "project", Wanted.project)
        /\ \A i \in DOMAIN vm.disks : Wanted.disks[i].source.by # "none" =>
              Meant(vm.disks[i].image, "image", Wanted.disks[i].source)

\* The request bears the ownership category, by which the installer finds
\* the VMs of a cluster to clean up, and each category of the providerSpec,
\* even if one vanished after it had been validated.
RequestOwned ==
    vm # None =>
        \A c \in Range(Wanted.categories) \cup {Owned} :
            \E id \in vm.categories : Meant(id, "category", Category(c))

\* Every data disk is there and sits on the bus and at the index it was
\* configured with: no adapter that passed the validation is replaced by a
\* default bus.
DisksAsConfigured ==
    vm # None =>
        /\ DOMAIN vm.disks = DOMAIN Wanted.disks
        /\ \A i \in DOMAIN vm.disks : Wanted.disks[i].device # "none" =>
              /\ vm.disks[i].kind = Wanted.disks[i].device
              /\ vm.disks[i].bus = Wanted.disks[i].adapter
              /\ vm.disks[i].index = Wanted.disks[i].index

\* Can the configuration be satisfied by the resources in res?
Unique(res, kind, ref) ==
    /\ ref.by \in {"name", "uuid"}
    /\ \E r \in res : Denotes(ref, kind, r) /\ \A x \in res : Denotes(ref, kind, x) => x = r

SubnetsRight(res) ==
    /\ Wanted.subnets # <<>> /\ Len(Wanted.subnets) <= 32
    /\ \A ref \in Range(Wanted.subnets) : Unique(res, "subnet", ref)
    /\ Wanted.memoryMib >= 2 * 1024 /\ Wanted.diskMib >= 20 * 1024
    /\ Wanted.vcpus >= 1 /\ Wanted.sockets >= 1
    /\ Wanted.boot \in {"unset", "Legacy", "UEFI", "SecureBoot"}

ProjectRight(res) == Wanted.project.by # "unset" => Unique(res, "project", Wanted.project)

CategoriesRight(res) ==
    \A c \in Range(Wanted.categories) : Unique(res, "category", Category(c))

GPUsRight(res) ==
    \A ref \in Range(Wanted.gpus) :
        ref.by \in {"name", "uuid"} /\ \E r \in res : Denotes(ref, "gpu", r)

DisksRight(res) ==
    \A d \in Range(Wanted.disks) :
        /\ d.sizeMib >= 1024
        /\ d.device \in {"none", "disk", "cdrom"} /\ d.mode \in {"none", "standard", "flash"}
        /\ d.device = "disk" => d.adapter \in DiskAdapters /\ d.index >= 0
        /\ d.device = "cdrom" => d.adapter \in CDRomAdapters /\ d.index >= 0
        /\ d.container.by # "none" => d.container.by = "uuid" /\ d.container.val # None
        /\ d.source.by # "none" => Unique(res, "image", d.source)

Satisfiable(res) ==
    /\ Unique(res, "cluster", Wanted.cluster) /\ Unique(res, "image", Wanted.image)
    /\ SubnetsRight(res) /\ ProjectRight(res) /\ CategoriesRight(res)
    /\ GPUsRight(res) /\ DisksRight(res)
    /\ spec.clusterID

\* The verdict of an attempt in which no call fails and nothing changes is
\* right, whatever happened to earlier attempts: a Machine fails for good
\* only if its configuration cannot be satisfied, never for want of
\* credentials, endpoint, failure domain or user data, and a request is made
\* only if it can.
VerdictRight ==
    calm => (pc = "invalid" => ~Satisfiable(inv)) /\ (vm # None => Satisfiable(inv))

\* The request of an attempt in which nothing changes goes to the endpoint
\* that the Infrastructure names now, with the credentials and the user data
\* the secrets hold now and in the failure domain of now: newMachineScope
\* builds its client anew and nothing survives from an earlier attempt.
ScopeCurrent ==
    (calm /\ vm # None) =>
        /\ client.url = <<env.address, env.port>>
        /\ \E c \in Range(env.secret) : client.user = c.user /\ client.password = c.password
        /\ spec.failureDomain # None => fd = env.domains[spec.failureDomain]
        /\ IF spec.userDataSecret
           THEN vm.userData = [content |-> env.userData.content, hostname |-> ~spec.windows]
           ELSE vm.userData = None

\* Create attempts come to an end, with a request or with an invalid
\* configuration, if from some time on the scope can be read and the
\* ownership category is there; without them the work queue retries for ever.
AttemptsEnd ==
    <>[](ScopeOK /\ Found("category", Category(Owned))) => <>(pc \in {"done", "invalid"})
=============================================================================
