--------------------------- MODULE ProviderStatus ---------------------------
(***************************************************************************)
(* What the actuator reports of a VM: the addresses that                   *)
(* buildNodeAddresses extracts from its NICs, the conditions of the        *)
(* provider status, and the labels that updateMachineWithVMState takes     *)
(* from the clusters of Prism Central.  An action is one call of           *)
(* Actuator.Create, Update or Delete; its parameters are what Prism        *)
(* Central answers.                                                        *)
(***************************************************************************)
EXTENDS Integers, Sequences, SequencesExt

CONSTANTS
    VMs,        \* what Prism Central may answer about the VM
    LinkLocal,  \* the addresses in 169.254.0.0/16
    Errors,     \* error messages
    None        \* a nil pointer

\* An address is its place in the string order, and 0 is the empty string.
\* A NIC has a network info of the new kind (oneOf is its type, "none" if it
\* is nil), the deprecated network info, and in each an IPv4 configuration:
\* a static address or None, and the learned addresses.  A cluster has an
\* ExtId, a name and functions; pe is the ExtId of the VM's own cluster.  The
\* VM itself has an ExtId, by which it was found, and a name or None.
ASSUME VMsAssumption ==
    \A v \in VMs : \A nic \in Range(v.nics) \cup Range(v.listed) :
        /\ nic.oneOf \in {"none", "ethernet", "dpOffload", "sriov"}
        /\ \A ipv4 \in {nic.info, nic.old} :
              /\ ipv4.static \in Nat \cup {None}
              /\ ipv4.learned \in Seq(Nat \cup {None})

\* The answer about a VM is never nil, and neither is an error; NICs and
\* clusters come in lists.
ASSUME AnswersAssumption ==
    /\ None \notin VMs /\ None \notin Errors
    /\ \A v \in VMs : \A list \in {v.nics, v.listed, v.clusters} : list \in Seq(Range(list))

VARIABLES
    addresses,   \* status.addresses
    conditions,  \* status.providerStatus.conditions
    labels,      \* region and zone labels and the instance state annotation
    deleting,    \* the deletion of the Machine was requested
    last         \* the call that wrote the status last

vars == <<addresses, conditions, labels, deleting, last>>

Init ==
    /\ addresses = <<>>
    /\ conditions = <<>>
    /\ labels = None
    /\ deleting = FALSE
    /\ last = [op |-> "none"]

-----------------------------------------------------------------------------
(* Addresses.                                                              *)

Empty == 0

isLinkLocal(ip) == ip \in LinkLocal

Usable(ip) == ip \notin {None, Empty} /\ ~isLinkLocal(ip)

\* The IPv4 part that counts: an SR-IOV NIC has none of the new kind.
Ipv4Of(nic) == IF nic.oneOf \in {"ethernet", "dpOffload"} THEN nic.info ELSE nic.old

\* The loop over the learned addresses.
UsableOnes(ips) == FlattenSeq([i \in DOMAIN ips |-> IF Usable(ips[i]) THEN <<ips[i]>> ELSE <<>>])

\* Mutant: a static address that cannot be used hides the learned ones.
StaticOnly(nic) ==
    IF Ipv4Of(nic).static # None THEN UsableOnes(<<Ipv4Of(nic).static>>)
    ELSE UsableOnes(Ipv4Of(nic).learned)

getIPsFromNic(nic) ==
    IF Usable(Ipv4Of(nic).static) THEN <<Ipv4Of(nic).static>>
    ELSE UsableOnes(Ipv4Of(nic).learned)

getIPsFromNics(nics) == FlattenSeq([i \in DOMAIN nics |-> getIPsFromNic(nics[i])])

\* vm holds the NICs of the Get, those of ListNicsByVmId and whether that
\* call fails; it is made only if the Get shows no address.
FoundIPs(vm) ==
    IF getIPsFromNics(vm.nics) # <<>> THEN getIPsFromNics(vm.nics)
    ELSE IF vm.listFails THEN <<>>
    ELSE getIPsFromNics(vm.listed)

\* What a list can be brought into by exchanging its elements.
Arrangements(list) ==
    {[i \in DOMAIN list |-> list[p[i]]] : p \in Bijection(DOMAIN list, DOMAIN list)}

\* slices.Sort: the arrangement in ascending order.
Sort(ips) ==
    CHOOSE t \in Arrangements(ips) : \A i, j \in DOMAIN ips : i < j => t[i] <= t[j]

InternalIP(ip) == [type |-> "InternalIP", address |-> ip]

\* The name of the VM, if Prism Central shows one.
NameAddresses(vm) ==
    IF vm.name \in {None, ""} THEN <<>>
    ELSE << [type |-> "InternalDNS", address |-> vm.name], [type |-> "Hostname", address |-> vm.name] >>

\* Mutant: the addresses are left in the order of the NICs.
Unsorted(vm) ==
    LET ips == FoundIPs(vm)
    IN  [i \in DOMAIN ips |-> InternalIP(ips[i])] \o NameAddresses(vm)

\* Sorted addresses, then the name; a VM with neither leaves the list empty.
buildNodeAddresses(vm) ==
    LET ips == Sort(FoundIPs(vm))
    IN  [i \in DOMAIN ips |-> InternalIP(ips[i])] \o NameAddresses(vm)

-----------------------------------------------------------------------------
(* Labels.                                                                 *)

IsPrismCentral(c) == c.id # None /\ "PRISM_CENTRAL" \in c.functions

\* The places of the Prism Centrals in the list.
PrismCentrals(clusters) == {i \in DOMAIN clusters : IsPrismCentral(clusters[i])}

\* Mutant: any cluster will do if none has the function.
AnyCluster(clusters) ==
    LET ids == {i \in DOMAIN clusters : clusters[i].id # None}
    IN  IF PrismCentrals(clusters) # {} THEN clusters[Min(PrismCentrals(clusters))]
        ELSE IF ids # {} THEN clusters[Min(ids)] ELSE None

\* The first Prism Central, or else the only cluster there is.
getPrismCentralCluster(clusters) ==
    IF PrismCentrals(clusters) # {} THEN clusters[Min(PrismCentrals(clusters))]
    ELSE IF Len(clusters) = 1 /\ clusters[1].id # None THEN clusters[1]
    ELSE None

\* Get of a cluster by its ExtId; one that fails, or that shows no name, is
\* only logged.
getClusterNameByUUID(vm) ==
    LET named == {c \in Range(vm.clusters) : c.id = vm.pe /\ c.name \notin {None, ""}}
    IN  IF vm.pe = None \/ vm.getFails \/ named = {} THEN "Unnamed"
        ELSE (CHOOSE c \in named : TRUE).name

\* The region of a Prism Central without a name is "Unnamed".
RegionOf(c) == IF c.name = None THEN "Unnamed" ELSE c.name

\* The power state: none is "UNKNOWN", and "ON" is shown as "ACTIVE".
InstanceState(power) ==
    CASE power = None -> "UNKNOWN" [] power = "ON" -> "ACTIVE" [] OTHER -> power

LabelsOf(vm) ==
    [ region |-> RegionOf(getPrismCentralCluster(vm.clusters)),
      zone   |-> getClusterNameByUUID(vm),
      state  |-> InstanceState(vm.power) ]

\* updateMachineWithVMState after setProviderID: it needs a Prism Central.
SetLabels(vm) == getPrismCentralCluster(vm.clusters) # None /\ labels' = LabelsOf(vm)

-----------------------------------------------------------------------------
(* Conditions.                                                             *)

Condition(type, status, message) == [type |-> type, status |-> status, message |-> message]

conditionSuccess(type) == Condition(type, "True", "succeeded")

conditionFailed(type, message) == Condition(type, "False", message)

conditionInstanceReady(status) == Condition("MachineInstanceReady", status, status)

\* The loop adds each condition to the current ones or updates it there, and
\* sets its transition time; but what is returned is the argument.
setNutanixProviderConditions(new, current) == new

\* The conditions after an operation: type is the operation's condition.
Report(type, message, ready) ==
    conditions' = setNutanixProviderConditions(
        << IF message = None THEN conditionSuccess(type) ELSE conditionFailed(type, message),
           conditionInstanceReady(ready) >>, conditions)

-----------------------------------------------------------------------------
(* The operations.                                                         *)

CreateSucceeds(vm) ==
    /\ ~deleting
    /\ SetLabels(vm)
    /\ addresses' = buildNodeAddresses(vm)
    /\ Report("MachineCreation", None, "True")
    /\ last' = [op |-> "create", vm |-> vm, error |-> None]
    /\ UNCHANGED deleting

\* No VM, or one whose state could not be taken over: both drop the VM.
CreateFails(e) ==
    /\ ~deleting
    /\ Report("MachineCreation", e, "False")
    /\ last' = [op |-> "create", vm |-> None, error |-> e]
    /\ UNCHANGED <<addresses, labels, deleting>>

UpdateSucceeds(vm) ==
    /\ ~deleting
    /\ SetLabels(vm)
    /\ addresses' = buildNodeAddresses(vm)
    /\ Report("MachineUpdate", None, "True")
    /\ last' = [op |-> "update", vm |-> vm, error |-> None]
    /\ UNCHANGED deleting

\* The VM was not found.
UpdateFails(e) ==
    /\ ~deleting
    /\ Report("MachineUpdate", e, "Unknown")
    /\ last' = [op |-> "update", vm |-> None, error |-> e]
    /\ UNCHANGED <<addresses, labels, deleting>>

\* The VM was found, updateMachineWithVMState failed: for want of the Node
\* or of a Prism Central, or because a call for one failed.
UpdateStateFails(vm, e) ==
    /\ ~deleting
    /\ addresses' = buildNodeAddresses(vm)
    /\ Report("MachineUpdate", e, "Unknown")
    /\ last' = [op |-> "update", vm |-> vm, error |-> e]
    /\ UNCHANGED <<labels, deleting>>

\* The VM is deleted now, or was gone before: then the addresses stay.
DeleteSucceeds(found) ==
    /\ deleting
    /\ addresses' = IF found THEN <<>> ELSE addresses
    /\ Report("MachineDeletion", None, "False")
    /\ last' = [op |-> "delete", vm |-> None, error |-> None]
    /\ UNCHANGED <<labels, deleting>>

DeleteFails(e) ==
    /\ deleting
    /\ Report("MachineDeletion", e, "Unknown")
    /\ last' = [op |-> "delete", vm |-> None, error |-> e]
    /\ UNCHANGED <<addresses, labels, deleting>>

UserDelete == ~deleting /\ deleting' = TRUE /\ UNCHANGED <<addresses, conditions, labels, last>>

Next ==
    \/ \E vm \in VMs : CreateSucceeds(vm) \/ UpdateSucceeds(vm)
    \/ \E vm \in VMs, e \in Errors : UpdateStateFails(vm, e)
    \/ \E e \in Errors : CreateFails(e) \/ UpdateFails(e) \/ DeleteFails(e)
    \/ \E found \in BOOLEAN : DeleteSucceeds(found)
    \/ UserDelete

Spec == Init /\ [][Next]_vars

-----------------------------------------------------------------------------

HasVM == last.op \in {"create", "update"} /\ last.vm # None

\* The usable addresses of a NIC, by definition: its static address if that
\* is usable, otherwise those it learned.
UsableAddressesOf(nic) ==
    LET ipv4 == Ipv4Of(nic)
        ok(ips) == {ip \in ips : ip \notin LinkLocal \cup {None, Empty}}
    IN  IF ok({ipv4.static}) # {} THEN {ipv4.static} ELSE ok(Range(ipv4.learned))

UsableAddressesIn(nics) == UNION {UsableAddressesOf(nic) : nic \in Range(nics)}

\* The InternalIPs reported are the usable addresses of the VM, all of them
\* and nothing else: never an empty or a link-local one, and those of
\* ListNicsByVmId only when the Get shows none (buildNodeAddresses).
IPsComplete ==
    HasVM =>
        {a.address : a \in {b \in Range(addresses) : b.type = "InternalIP"}} =
            IF UsableAddressesIn(last.vm.nics) # {} THEN UsableAddressesIn(last.vm.nics)
            ELSE IF last.vm.listFails THEN {}
            ELSE UsableAddressesIn(last.vm.listed)

\* The same NICs and clusters, one of them Prism Central, perhaps in another
\* order.
SameVM(vm, other) ==
    /\ other.clusters \in Arrangements(vm.clusters)
    /\ Cardinality(PrismCentrals(vm.clusters)) = 1
    /\ other.name = vm.name /\ other.pe = vm.pe /\ other.power = vm.power
    /\ other.getFails = vm.getFails
    /\ other.nics \in Arrangements(vm.nics)
    /\ other.listed \in Arrangements(vm.listed)
    /\ other.listFails = vm.listFails

\* Updating an unchanged VM again writes nothing, in whatever order Prism
\* Central lists its NICs and its clusters; otherwise every reconcile would
\* cause the next.
RepeatQuiet ==
    [][HasVM /\ HasVM' /\ last'.op = last.op /\ last'.error = last.error
          /\ SameVM(last.vm, last'.vm)
          => addresses' = addresses /\ conditions' = conditions /\ labels' = labels]_vars

\* The region is the name of a Prism Central of the VM, or that of a cluster
\* that is none if there is no other.
RegionOfVM(region, vm) ==
    \E c \in Range(vm.clusters) :
        /\ region = RegionOf(c) /\ c.id # None
        /\ "PRISM_CENTRAL" \in c.functions \/ Range(vm.clusters) = {c}

\* After a successful create or update the region label is the name of a
\* Prism Central wherever it stands in the list, and that of a cluster that
\* is none only if there is no other (getPrismCentralCluster); and until the
\* next success it stays, whatever fails meanwhile.
RegionRight ==
    [][IF HasVM' /\ last'.error = None THEN RegionOfVM(labels'.region, last'.vm)
       ELSE labels' = labels]_vars

\* "If the machine does not already have a condition with the specified type,
\* a condition will be added to the slice": the others stay.
ConditionsKept ==
    [][\A i \in DOMAIN conditions : \E j \in DOMAIN conditions' :
          conditions'[j].type = conditions[i].type]_vars
=============================================================================
