------------------------- MODULE VMConfigInvariant -------------------------
(***************************************************************************)
(* The inductive invariant behind the properties of VMConfig: what the     *)
(* copy of the providerSpec, the collected errors and the scope are worth  *)
(* at each step of an attempt.                                             *)
(***************************************************************************)
EXTENDS VMConfig

\* Where the attempt is once a field has been validated.
LateDisks      == {"checked", "gpuList", "categoryRefs", "submit", "done"}
LateGPUs       == {"disks"} \cup LateDisks
LateCategories == {"gpus"} \cup LateGPUs
LateProject    == {"categories"} \cup LateCategories
LateSubnets    == {"project"} \cup LateProject
LateImage      == {"subnets"} \cup LateSubnets
LateCluster    == {"image"} \cup LateImage
InValidation   == {"cluster"} \cup LateCluster

\* The world outside, and a failure domain taken from it.
WorldOK ==
    /\ spec \in Specs /\ env \in Environments
    /\ inv \subseteq Universe
    /\ fd # None => IsList(fd.subnets)
    /\ pc \in {"idle", "scope", "credentials", "userData", "invalid"} \cup InValidation

\* An attempt in which nothing changed works with the objects of now.
ScopeFresh ==
    /\ pc = "credentials" =>
          HasFields(client, {"address", "port", "url", "user", "password"}) /\ client.url = None
    /\ calm /\ pc \in {"credentials", "userData"} \cup InValidation =>
          /\ pc = "credentials" => client.address = env.address /\ client.port = env.port
          /\ spec.failureDomain # None => fd = env.domains[spec.failureDomain]
    /\ calm /\ pc \in {"userData"} \cup InValidation =>
          /\ client.url = <<env.address, env.port>>
          /\ \E c \in Range(env.secret) : client.user = c.user /\ client.password = c.password
    /\ pc \in InValidation =>
          /\ spec.clusterID
          /\ calm => userData = IF spec.userDataSecret
                THEN [content |-> env.userData.content, hostname |-> ~spec.windows] ELSE None

\* A reference that was resolved to a resource it denoted.
Settled(kind, ref, wanted) == ref.by = "uuid" /\ ref.val # None /\ Meant(ref.val, kind, wanted)

\* The disk of the copy, after its validation.
DiskSettled(d, wanted) ==
    /\ d = [wanted EXCEPT !.source = d.source]
    /\ wanted.device = "disk" => wanted.adapter \in DiskAdapters
    /\ wanted.device = "cdrom" => wanted.adapter \in CDRomAdapters
    /\ wanted.device \in {"none", "disk", "cdrom"}
    /\ wanted.source.by # "none" => Settled("image", d.source, wanted.source)

\* What is not resolved yet is as configured; what was resolved is meant.
CopyCluster ==
    IF pc \in LateCluster
    THEN "cluster" \notin errs => Settled("cluster", validated.cluster, Wanted.cluster)
    ELSE validated.cluster = Wanted.cluster

CopyImage ==
    IF pc \in LateImage
    THEN "image" \notin errs => Settled("image", validated.image, Wanted.image)
    ELSE validated.image = Wanted.image

CopySubnets ==
    IF pc \in LateSubnets
    THEN "subnets" \notin errs =>
           /\ validated.subnets = [i \in DOMAIN Wanted.subnets |-> validated.subnets[i]]
           /\ \A i \in DOMAIN Wanted.subnets :
                 Settled("subnet", validated.subnets[i], Wanted.subnets[i])
    ELSE validated.subnets = Wanted.subnets

CopyProject ==
    IF pc \in LateProject
    THEN "project" \notin errs =>
           IF Wanted.project.by = "unset" THEN validated.project = Wanted.project
           ELSE Settled("project", validated.project, Wanted.project)
    ELSE validated.project = Wanted.project

CopyDisks ==
    IF pc \in LateDisks
    THEN "disks" \notin errs =>
           /\ validated.disks = [i \in DOMAIN Wanted.disks |-> validated.disks[i]]
           /\ \A i \in DOMAIN Wanted.disks : DiskSettled(validated.disks[i], Wanted.disks[i])
    ELSE validated.disks = Wanted.disks

CopyRest ==
    /\ HasFields(validated, SpecFields)
    /\ \A f \in SpecFields \ {"cluster", "image", "subnets", "project", "disks"} :
          validated[f] = Wanted[f]

CopyOK == CopyRest /\ CopyCluster /\ CopyImage /\ CopySubnets /\ CopyProject /\ CopyDisks

\* In an attempt in which nothing changed, a field that was validated has an
\* error if and only if it cannot be satisfied.
ErrorsRight ==
    /\ pc \in LateCluster => ("cluster" \notin errs <=> Unique(inv, "cluster", Wanted.cluster))
    /\ pc \in LateImage => ("image" \notin errs <=> Unique(inv, "image", Wanted.image))
    /\ pc \in LateSubnets => ("subnets" \notin errs <=> SubnetsRight(inv))
    /\ pc \in LateProject => ("project" \notin errs <=> ProjectRight(inv))
    /\ pc \in LateCategories => ("categories" \notin errs <=> CategoriesRight(inv))
    /\ pc \in LateGPUs =>
          IF "gpus" \in errs THEN "cluster" \in errs \/ ~GPUsRight(inv) ELSE GPUsRight(inv)
    /\ pc \in LateDisks => ("disks" \notin errs <=> DisksRight(inv))

\* Only fields that were validated have errors, and none when the request is
\* being made.
ErrorsOK ==
    /\ pc \in {"scope", "credentials", "userData"} \cup InValidation =>
          /\ errs \subseteq {"cluster", "image", "subnets", "project", "categories", "gpus", "disks"}
          /\ pc \notin LateCluster => "cluster" \notin errs
          /\ pc \notin LateImage => "image" \notin errs
          /\ pc \notin LateSubnets => "subnets" \notin errs
          /\ pc \notin LateProject => "project" \notin errs
          /\ pc \notin LateCategories => "categories" \notin errs
          /\ pc \notin LateGPUs => "gpus" \notin errs
          /\ pc \notin LateDisks => "disks" \notin errs
    /\ pc \in {"gpuList", "categoryRefs", "submit", "done"} => errs = {}

\* The request is made from the copy, and nothing moves after it.
RequestOK ==
    /\ vm # None => pc \in {"submit", "done"}
    /\ vm # None => vm.userData = userData
    /\ RequestMeant /\ RequestOwned /\ DisksAsConfigured

\* The copy of the providerSpec agrees with the configuration until a
\* reference is resolved and denotes what was meant afterwards, an error is
\* there for a reason, and the scope of a calm attempt is that of now.
ConfigInv ==
    /\ WorldOK /\ ScopeFresh /\ ErrorsOK /\ RequestOK
    /\ pc \in InValidation => CopyOK
    /\ calm /\ pc \in InValidation => ErrorsRight
    /\ calm /\ pc = "invalid" => ~Satisfiable(inv)
=============================================================================
