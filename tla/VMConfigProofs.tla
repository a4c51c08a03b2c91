--------------------------- MODULE VMConfigProofs ---------------------------
(* What a create attempt asks Prism Central for, for any providerSpecs,    *)
(* environments and resources, any changes and any failures: ConfigInv is  *)
(* inductive, and the properties of VMConfig follow from it.               *)
EXTENDS VMConfigInvariant, FiniteSetTheorems, SequenceTheorems, TLAPS

-----------------------------------------------------------------------------
(* References.                                                             *)

\* The lookup finds a reference if and only if one resource answers it.
LEMMA FoundUnique ==
  ASSUME inv \subseteq Universe, NEW kind, NEW ref
  PROVE  Found(kind, ref) <=> Unique(inv, kind, ref)
  <1> DEFINE M == Matches(kind, ref)
  <1>1. M \subseteq inv /\ IsFiniteSet(M)
    <2>1. M \subseteq Universe
      BY DEF Matches
    <2> QED BY <2>1, FS_Subset, InventoryAssumption DEF Matches
  <1>2. Cardinality(M) = 1 <=> \E r : M = {r}
    BY <1>1, FS_Singleton
  <1>3. (\E r : M = {r}) <=>
          \E r \in inv : Denotes(ref, kind, r) /\ \A x \in inv : Denotes(ref, kind, x) => x = r
    BY DEF Matches
  <1>4. ASSUME ref.by \in {"name", "uuid"}, NEW r \in inv, Denotes(ref, kind, r)
        PROVE  ref.val # None
    BY <1>4, InventoryAssumption DEF Denotes
  <1> QED BY <1>2, <1>3, <1>4 DEF Found, Unique

\* It resolves to the ExtId of a resource it denotes.
LEMMA ResolvedDenotes ==
  ASSUME inv \subseteq Universe, NEW kind, NEW ref, Found(kind, ref)
  PROVE  /\ Resolved(kind, ref).by = "uuid" /\ Resolved(kind, ref).val # None
         /\ \E r \in inv : r.id = Resolved(kind, ref).val /\ Denotes(ref, kind, r)
  <1>1. PICK r \in inv : Denotes(ref, kind, r)
    BY FoundUnique DEF Unique
  <1>2. (CHOOSE x \in Matches(kind, ref) : TRUE) \in Matches(kind, ref)
    BY <1>1 DEF Matches
  <1> QED BY <1>2, InventoryAssumption DEF Resolved, Matches

\* A list is empty or has a first element.
LEMMA ShortList ==
  ASSUME NEW s, IsList(s)
  PROVE  Len(s) \in 1 .. 32 <=> s # <<>> /\ Len(s) <= 32
  <1>1. PICK S : s \in Seq(S)
    BY DEF IsList
  <1>2. Len(s) \in Nat /\ (s # <<>> => Len(s) # 0)
    BY <1>1, EmptySeq
  <1>3. s = <<>> => Len(s) = 0
    BY EmptySeq
  <1> DEFINE n == Len(s)
             empty == s = <<>>
  <1>4. n \in Nat /\ (~empty => n # 0) /\ (empty => n = 0)
    BY <1>2, <1>3
  <1> HIDE DEF n, empty
  <1>5. n \in 1 .. 32 <=> ~empty /\ n <= 32
    BY <1>4
  <1> QED BY <1>5 DEF n, empty

\* The configuration that counts has the fields of a providerSpec, and the
\* failure domain decides on cluster and subnets only.
LEMMA WantedShape ==
  ASSUME WorldOK
  PROVE  /\ HasFields(Wanted, SpecFields)
         /\ \A f \in SpecFields \ {"cluster", "subnets"} : Wanted[f] = spec[f]
         /\ IsList(Wanted.subnets)
         /\ \A d \in Range(Wanted.disks) : HasFields(d, DiskFields)
  <1>1. HasFields(spec, SpecFields) /\ IsList(spec.subnets)
        /\ \A d \in Range(spec.disks) : HasFields(d, DiskFields)
    BY SpecsAssumption DEF WorldOK
  <1>2. CASE fd = None
    BY <1>1, <1>2 DEF Wanted, WithFailureDomain, SpecFields
  <1>3. CASE fd # None
    <2> DEFINE c == FromFailureDomain(fd.cluster)
               sn == [i \in DOMAIN fd.subnets |-> FromFailureDomain(fd.subnets[i])]
    <2>1. Wanted = [spec EXCEPT !.cluster = c, !.subnets = sn]
      BY <1>3 DEF Wanted, WithFailureDomain
    <2>2. IsList(sn)
      BY <1>3 DEF WorldOK, IsList, Range
    <2> HIDE DEF c, sn
    <2>3. /\ HasFields(Wanted, SpecFields) /\ Wanted.subnets = sn
          /\ \A f \in SpecFields \ {"cluster", "subnets"} : Wanted[f] = spec[f]
      BY <1>1, <2>1 DEF HasFields, SpecFields
    <2> QED BY <1>1, <2>2, <2>3 DEF SpecFields
  <1> QED BY <1>2, <1>3

-----------------------------------------------------------------------------
(* What a step that leaves the world and the scope alone preserves.        *)

\* Whether the configuration can be satisfied depends on nothing else.
LEMMA RightKept ==
  ASSUME UNCHANGED <<spec, fd, inv>>
  PROVE  /\ Wanted' = Wanted
         /\ Unique(inv, "cluster", Wanted.cluster)' <=> Unique(inv, "cluster", Wanted.cluster)
         /\ Unique(inv, "image", Wanted.image)' <=> Unique(inv, "image", Wanted.image)
         /\ SubnetsRight(inv)' <=> SubnetsRight(inv)
         /\ ProjectRight(inv)' <=> ProjectRight(inv)
         /\ CategoriesRight(inv)' <=> CategoriesRight(inv)
         /\ GPUsRight(inv)' <=> GPUsRight(inv)
         /\ DisksRight(inv)' <=> DisksRight(inv)
         /\ Satisfiable(inv)' <=> Satisfiable(inv)
  <1>1. Wanted' = Wanted
    BY DEF Wanted, WithFailureDomain
  <1>2. /\ Unique(inv, "cluster", Wanted.cluster)' <=> Unique(inv, "cluster", Wanted.cluster)
        /\ Unique(inv, "image", Wanted.image)' <=> Unique(inv, "image", Wanted.image)
    BY <1>1
  <1>3. SubnetsRight(inv)' <=> SubnetsRight(inv)
    BY <1>1 DEF SubnetsRight
  <1>4. ProjectRight(inv)' <=> ProjectRight(inv)
    BY <1>1 DEF ProjectRight
  <1>5. CategoriesRight(inv)' <=> CategoriesRight(inv)
    BY <1>1 DEF CategoriesRight
  <1>6. GPUsRight(inv)' <=> GPUsRight(inv)
    BY <1>1 DEF GPUsRight
  <1>7. DisksRight(inv)' <=> DisksRight(inv)
    BY <1>1 DEF DisksRight
  <1> QED BY <1>1, <1>2, <1>3, <1>4, <1>5, <1>6, <1>7 DEF Satisfiable

\* What was meant during the attempt stays so, field by field.
LEMMA CopyKept ==
  ASSUME UNCHANGED <<spec, fd>>, seen \subseteq seen', CopyOK
  PROVE  /\ /\ validated'.cluster = validated.cluster
            /\ pc' \in LateCluster <=> pc \in LateCluster
            /\ "cluster" \in errs' <=> "cluster" \in errs
            => CopyCluster'
         /\ /\ validated'.image = validated.image
            /\ pc' \in LateImage <=> pc \in LateImage
            /\ "image" \in errs' <=> "image" \in errs
            => CopyImage'
         /\ /\ validated'.subnets = validated.subnets
            /\ pc' \in LateSubnets <=> pc \in LateSubnets
            /\ "subnets" \in errs' <=> "subnets" \in errs
            => CopySubnets'
         /\ /\ validated'.project = validated.project
            /\ pc' \in LateProject <=> pc \in LateProject
            /\ "project" \in errs' <=> "project" \in errs
            => CopyProject'
         /\ /\ validated'.disks = validated.disks
            /\ pc' \in LateDisks <=> pc \in LateDisks
            /\ "disks" \in errs' <=> "disks" \in errs
            => CopyDisks'
  <1>1. Wanted' = Wanted
    BY DEF Wanted, WithFailureDomain
  <1>2. ASSUME NEW id, NEW kind, NEW ref, Meant(id, kind, ref)
        PROVE  \E r \in seen' : r.id = id /\ Denotes(ref, kind, r)
    BY <1>2 DEF Meant
  <1>3. ASSUME validated'.cluster = validated.cluster, pc' \in LateCluster <=> pc \in LateCluster,
               "cluster" \in errs' <=> "cluster" \in errs
        PROVE  CopyCluster'
    BY <1>1, <1>2, <1>3 DEF CopyOK, CopyCluster, Settled, Meant
  <1>4. ASSUME validated'.image = validated.image, pc' \in LateImage <=> pc \in LateImage,
               "image" \in errs' <=> "image" \in errs
        PROVE  CopyImage'
    BY <1>1, <1>2, <1>4 DEF CopyOK, CopyImage, Settled, Meant
  <1>5. ASSUME validated'.subnets = validated.subnets, pc' \in LateSubnets <=> pc \in LateSubnets,
               "subnets" \in errs' <=> "subnets" \in errs
        PROVE  CopySubnets'
    BY <1>1, <1>2, <1>5 DEF CopyOK, CopySubnets, Settled, Meant
  <1>6. ASSUME validated'.project = validated.project, pc' \in LateProject <=> pc \in LateProject,
               "project" \in errs' <=> "project" \in errs
        PROVE  CopyProject'
    BY <1>1, <1>2, <1>6 DEF CopyOK, CopyProject, Settled, Meant
  <1>7. ASSUME validated'.disks = validated.disks, pc' \in LateDisks <=> pc \in LateDisks,
               "disks" \in errs' <=> "disks" \in errs
        PROVE  CopyDisks'
    BY <1>1, <1>2, <1>7 DEF CopyOK, CopyDisks, Settled, Meant, DiskSettled
  <1> QED BY <1>3, <1>4, <1>5, <1>6, <1>7

\* Between scope and request: the validation, and the GPUs.
Middle == InValidation \ {"submit", "done"}

\* The validation leaves the scope alone and makes no request.
LEMMA MiddleFrame ==
  ASSUME ConfigInv, UNCHANGED <<spec, env, inv, fd, client, userData, vm>>,
         pc \in Middle, pc' \in Middle, calm' => calm
  PROVE  WorldOK' /\ ScopeFresh' /\ RequestOK' /\ CopyOK /\ (calm => ErrorsRight)
  <1>1. WorldOK' /\ ScopeFresh'
    BY DEF ConfigInv, WorldOK, ScopeFresh, Middle, InValidation, LateCluster, LateImage,
       LateSubnets, LateProject, LateCategories, LateGPUs, LateDisks
  <1>2. vm = None
    BY DEF ConfigInv, RequestOK, Middle
  <1>3. RequestOK'
    BY <1>2 DEF RequestOK, RequestMeant, RequestOwned, DisksAsConfigured
  <1> QED BY <1>1, <1>3 DEF ConfigInv, Middle

-----------------------------------------------------------------------------
(* validateVMConfig, field by field.                                       *)

\* The cluster is resolved, or has an error for good reason.
LEMMA ClusterStep == ConfigInv /\ validateClusterConfig => ConfigInv'
  <1> SUFFICES ASSUME ConfigInv, validateClusterConfig PROVE ConfigInv'
    OBVIOUS
  <1> DEFINE valid == Found("cluster", validated.cluster)
             result == [validated EXCEPT !.cluster = Resolved("cluster", @)]
  <1>1. /\ pc = "cluster" /\ pc' = "image" /\ seen' = seen \cup inv
        /\ UNCHANGED <<spec, env, inv, fd, client, userData, vm>>
        /\ \/ valid /\ validated' = result /\ errs' = errs /\ calm' = calm
           \/ ~valid /\ validated' = validated /\ errs' = errs \cup {"cluster"} /\ calm' = calm
           \/ validated' = validated /\ errs' = errs \cup {"cluster"} /\ calm' = FALSE
    BY DEF validateClusterConfig, Validate, CallSucceeds, CallFails, outside, scopeVars
  <1>2. pc \in Middle /\ pc' \in Middle
    BY <1>1 DEF Middle, InValidation, LateCluster, LateImage
  <1>3. WorldOK' /\ ScopeFresh' /\ RequestOK' /\ CopyOK /\ (calm => ErrorsRight)
    BY <1>1, <1>2, MiddleFrame
  <1>4. validated.cluster = Wanted.cluster /\ (valid <=> Unique(inv, "cluster", Wanted.cluster))
    <2>1. validated.cluster = Wanted.cluster
      BY <1>1, <1>3 DEF CopyOK, CopyCluster, LateCluster, LateImage, LateSubnets, LateProject,
         LateCategories, LateGPUs, LateDisks
    <2> QED BY <2>1, FoundUnique DEF ConfigInv, WorldOK
  <1>5. ErrorsOK'
    BY <1>1 DEF ConfigInv, ErrorsOK, InValidation, LateCluster, LateImage, LateSubnets,
       LateProject, LateCategories, LateGPUs, LateDisks
  <1>6. CopyOK'
    <2>1. Wanted' = Wanted
      BY <1>1, RightKept
    <2>2. CopyRest' /\ \A f \in SpecFields \ {"cluster"} : validated'[f] = validated[f]
      BY <1>1, <1>3, <2>1 DEF CopyOK, CopyRest, HasFields, SpecFields
    <2>3. CopyCluster'
      <3>1. CASE valid /\ validated' = result
        <4>1. validated'.cluster = Resolved("cluster", Wanted.cluster)
          BY <1>3, <1>4, <3>1 DEF CopyOK, CopyRest, HasFields, SpecFields
        <4> QED BY <1>1, <1>4, <2>1, <3>1, <4>1, ResolvedDenotes
                DEF CopyCluster, Settled, Meant, ConfigInv, WorldOK, LateCluster
      <3>2. CASE "cluster" \in errs'
        BY <1>1, <3>2 DEF CopyCluster, LateCluster
      <3> QED BY <1>1, <3>1, <3>2
    <2>4. CopyImage' /\ CopySubnets' /\ CopyProject' /\ CopyDisks'
      BY <1>1, <1>3, <2>2, CopyKept DEF SpecFields, LateImage, LateSubnets, LateProject,
         LateCategories, LateGPUs, LateDisks
    <2> QED BY <2>2, <2>3, <2>4 DEF CopyOK
  <1>7. calm' => ErrorsRight'
    BY <1>1, <1>3, <1>4, RightKept DEF ConfigInv, ErrorsRight, ErrorsOK, InValidation, LateCluster,
       LateImage, LateSubnets, LateProject, LateCategories, LateGPUs, LateDisks
  <1> QED BY <1>1, <1>3, <1>5, <1>6, <1>7 DEF ConfigInv

\* The image likewise.
LEMMA ImageStep == ConfigInv /\ validateImageConfig => ConfigInv'
  <1> SUFFICES ASSUME ConfigInv, validateImageConfig PROVE ConfigInv'
    OBVIOUS
  <1> DEFINE valid == Found("image", validated.image)
             result == [validated EXCEPT !.image = Resolved("image", @)]
  <1>1. /\ pc = "image" /\ pc' = "subnets" /\ seen' = seen \cup inv
        /\ UNCHANGED <<spec, env, inv, fd, client, userData, vm>>
        /\ \/ valid /\ validated' = result /\ errs' = errs /\ calm' = calm
           \/ ~valid /\ validated' = validated /\ errs' = errs \cup {"image"} /\ calm' = calm
           \/ validated' = validated /\ errs' = errs \cup {"image"} /\ ~calm'
    BY DEF validateImageConfig, Validate, CallSucceeds, CallFails, outside, scopeVars
  <1> HIDE DEF valid, result
  <1>2. pc \in Middle /\ pc' \in Middle
    BY <1>1 DEF Middle, InValidation, LateCluster, LateImage, LateSubnets,
       LateProject, LateCategories, LateGPUs, LateDisks
  <1>3. WorldOK' /\ ScopeFresh' /\ RequestOK' /\ CopyOK /\ (calm => ErrorsRight)
    BY <1>1, <1>2, MiddleFrame
  <1>4. validated.image = Wanted.image /\ (valid <=> Unique(inv, "image", Wanted.image))
    <2>1. validated.image = Wanted.image
      BY <1>1, <1>3 DEF CopyOK, CopyImage, LateImage, LateSubnets, LateProject,
         LateCategories, LateGPUs, LateDisks
    <2> QED BY <2>1, FoundUnique DEF ConfigInv, WorldOK, valid
  <1>5. ErrorsOK'
    BY <1>1 DEF ConfigInv, ErrorsOK, InValidation, LateCluster, LateImage, LateSubnets,
       LateProject, LateCategories, LateGPUs, LateDisks
  <1>6. CopyOK'
    <2>1. Wanted' = Wanted
      BY <1>1, RightKept
    <2>2. CopyRest' /\ \A f \in SpecFields \ {"image"} : validated'[f] = validated[f]
      BY <1>1, <1>3, <2>1 DEF CopyOK, CopyRest, HasFields, SpecFields, result
    <2>3. CopyImage'
      <3>1. CASE valid /\ validated' = result
        <4>1. validated'.image = Resolved("image", Wanted.image)
          BY <1>3, <1>4, <3>1 DEF CopyOK, CopyRest, HasFields, SpecFields, result
        <4> QED BY <1>1, <1>4, <2>1, <3>1, <4>1, ResolvedDenotes
                DEF valid, CopyImage, Settled, Meant, ConfigInv, WorldOK, LateImage
      <3>2. CASE "image" \in errs'
        BY <1>1, <3>2 DEF CopyImage, LateImage
      <3> QED BY <1>1, <3>1, <3>2
    <2>4. CopyCluster' /\ CopySubnets' /\ CopyProject' /\ CopyDisks'
      BY <1>1, <1>3, <2>2, CopyKept DEF SpecFields, LateCluster, LateImage, LateSubnets, LateProject,
         LateCategories, LateGPUs, LateDisks
    <2> QED BY <2>2, <2>3, <2>4 DEF CopyOK
  <1>7. calm' => ErrorsRight'
    <2>1. /\ (Unique(inv, "cluster", Wanted.cluster))' <=> Unique(inv, "cluster", Wanted.cluster)
          /\ (Unique(inv, "image", Wanted.image))' <=> Unique(inv, "image", Wanted.image)
          /\ SubnetsRight(inv)' <=> SubnetsRight(inv)
          /\ ProjectRight(inv)' <=> ProjectRight(inv)
          /\ CategoriesRight(inv)' <=> CategoriesRight(inv)
          /\ GPUsRight(inv)' <=> GPUsRight(inv)
          /\ DisksRight(inv)' <=> DisksRight(inv)
      BY <1>1, RightKept
    <2>2. ASSUME calm' PROVE ErrorsRight'
      <3>1. ErrorsRight /\ ErrorsOK
        BY <1>1, <1>3, <2>2 DEF ConfigInv
      <3>2. (valid /\ errs' = errs) \/ (~valid /\ errs' = errs \cup {"image"})
        BY <1>1, <2>2, Zenon
      <3>3. \A f \in {"cluster", "image", "subnets", "project", "categories", "gpus", "disks"} :
               f # "image" => (f \in errs' <=> f \in errs)
        BY <3>2
      <3>4. "image" \notin errs' <=> valid
        BY <1>1, <3>1, <3>2 DEF ErrorsOK, InValidation, LateCluster, LateImage, LateSubnets,
           LateProject, LateCategories, LateGPUs, LateDisks
      <3> QED BY <1>1, <1>4, <2>1, <3>1, <3>3, <3>4 DEF ErrorsRight, LateCluster, LateImage,
              LateSubnets, LateProject, LateCategories, LateGPUs, LateDisks
    <2> QED BY <2>2
  <1> QED BY <1>1, <1>3, <1>5, <1>6, <1>7 DEF ConfigInv

\* The subnets, each of them, and the sizes.
LEMMA SubnetsStep == ConfigInv /\ validateSubnetsConfig => ConfigInv'
  <1> SUFFICES ASSUME ConfigInv, validateSubnetsConfig PROVE ConfigInv'
    OBVIOUS
  <1> DEFINE valid == /\ Len(validated.subnets) \in 1 .. MaxSubnets
                      /\ \A ref \in Range(validated.subnets) : Found("subnet", ref)
                      /\ SizesValid(validated)
             result == [validated EXCEPT !.subnets =
                           [i \in DOMAIN @ |-> Resolved("subnet", @[i])]]
  <1>1. /\ pc = "subnets" /\ pc' = "project" /\ seen' = seen \cup inv
        /\ UNCHANGED <<spec, env, inv, fd, client, userData, vm>>
        /\ \/ valid /\ validated' = result /\ errs' = errs /\ calm' = calm
           \/ ~valid /\ validated' = validated /\ errs' = errs \cup {"subnets"} /\ calm' = calm
           \/ validated' = validated /\ errs' = errs \cup {"subnets"} /\ ~calm'
    BY DEF validateSubnetsConfig, Validate, CallSucceeds, CallFails, outside, scopeVars
  <1> HIDE DEF valid, result
  <1>2. pc \in Middle /\ pc' \in Middle
    BY <1>1 DEF Middle, InValidation, LateCluster, LateImage, LateSubnets,
       LateProject, LateCategories, LateGPUs, LateDisks
  <1>3. WorldOK' /\ ScopeFresh' /\ RequestOK' /\ CopyOK /\ (calm => ErrorsRight)
    BY <1>1, <1>2, MiddleFrame
  <1>4. validated.subnets = Wanted.subnets /\ (valid <=> SubnetsRight(inv))
    <2>1. validated.subnets = Wanted.subnets
      BY <1>1, <1>3 DEF CopyOK, CopySubnets, LateSubnets, LateProject,
         LateCategories, LateGPUs, LateDisks
    <2>2. \A ref \in Range(Wanted.subnets) : Found("subnet", ref) <=> Unique(inv, "subnet", ref)
      BY FoundUnique DEF ConfigInv, WorldOK
    <2>3. Len(Wanted.subnets) \in 1 .. 32 <=> Wanted.subnets # <<>> /\ Len(Wanted.subnets) <= 32
      BY WantedShape, ShortList DEF ConfigInv
    <2>4. SizesValid(validated) <=>
            /\ Wanted.memoryMib >= 2 * 1024 /\ Wanted.diskMib >= 20 * 1024
            /\ Wanted.vcpus >= 1 /\ Wanted.sockets >= 1
            /\ Wanted.boot \in {"unset", "Legacy", "UEFI", "SecureBoot"}
      <3>1. /\ validated.memoryMib = Wanted.memoryMib /\ validated.diskMib = Wanted.diskMib
            /\ validated.vcpus = Wanted.vcpus /\ validated.sockets = Wanted.sockets
            /\ validated.boot = Wanted.boot
        BY <1>3 DEF CopyOK, CopyRest, SpecFields
      <3> QED BY <3>1 DEF SizesValid
    <2>5. valid <=>
            /\ Len(Wanted.subnets) \in 1 .. 32
            /\ \A ref \in Range(Wanted.subnets) : Found("subnet", ref)
            /\ SizesValid(validated)
      BY <2>1 DEF valid, MaxSubnets
    <2> QED BY <2>1, <2>2, <2>3, <2>4, <2>5 DEF SubnetsRight
  <1>5. ErrorsOK'
    BY <1>1 DEF ConfigInv, ErrorsOK, InValidation, LateCluster, LateImage, LateSubnets,
       LateProject, LateCategories, LateGPUs, LateDisks
  <1>6. CopyOK'
    <2>1. Wanted' = Wanted
      BY <1>1, RightKept
    <2>2. CopyRest' /\ \A f \in SpecFields \ {"subnets"} : validated'[f] = validated[f]
      BY <1>1, <1>3, <2>1 DEF CopyOK, CopyRest, HasFields, SpecFields, result
    <2>3. CopySubnets'
      <3>1. CASE valid /\ validated' = result
        <4>1. validated'.subnets =
                [i \in DOMAIN Wanted.subnets |-> Resolved("subnet", Wanted.subnets[i])]
          BY <1>3, <1>4, <3>1 DEF CopyOK, CopyRest, HasFields, SpecFields, result
        <4>2. ASSUME NEW i \in DOMAIN Wanted.subnets
              PROVE  Settled("subnet", validated.subnets[i], Wanted.subnets[i])'
          <5>1. Found("subnet", Wanted.subnets[i])
            BY <1>4, <3>1 DEF Range, valid
          <5>2. validated'.subnets[i] = Resolved("subnet", Wanted.subnets[i])
            BY <4>1
          <5> QED BY <1>1, <2>1, <5>1, <5>2, ResolvedDenotes
                  DEF Settled, Meant, ConfigInv, WorldOK
        <4> QED BY <1>1, <2>1, <4>1, <4>2 DEF CopySubnets, LateSubnets
      <3>2. CASE "subnets" \in errs'
        BY <1>1, <3>2 DEF CopySubnets, LateSubnets
      <3> QED BY <1>1, <3>1, <3>2
    <2>4. CopyCluster' /\ CopyImage' /\ CopyProject' /\ CopyDisks'
      BY <1>1, <1>3, <2>2, CopyKept DEF SpecFields, LateCluster, LateImage, LateSubnets, LateProject,
         LateCategories, LateGPUs, LateDisks
    <2> QED BY <2>2, <2>3, <2>4 DEF CopyOK
  <1>7. calm' => ErrorsRight'
    <2>1. /\ (Unique(inv, "cluster", Wanted.cluster))' <=> Unique(inv, "cluster", Wanted.cluster)
          /\ (Unique(inv, "image", Wanted.image))' <=> Unique(inv, "image", Wanted.image)
          /\ SubnetsRight(inv)' <=> SubnetsRight(inv)
          /\ ProjectRight(inv)' <=> ProjectRight(inv)
          /\ CategoriesRight(inv)' <=> CategoriesRight(inv)
          /\ GPUsRight(inv)' <=> GPUsRight(inv)
          /\ DisksRight(inv)' <=> DisksRight(inv)
      BY <1>1, RightKept
    <2>2. ASSUME calm' PROVE ErrorsRight'
      <3>1. ErrorsRight /\ ErrorsOK
        BY <1>1, <1>3, <2>2 DEF ConfigInv
      <3>2. (valid /\ errs' = errs) \/ (~valid /\ errs' = errs \cup {"subnets"})
        BY <1>1, <2>2, Zenon
      <3>3. \A f \in {"cluster", "image", "subnets", "project", "categories", "gpus", "disks"} :
               f # "subnets" => (f \in errs' <=> f \in errs)
        BY <3>2
      <3>4. "subnets" \notin errs' <=> valid
        BY <1>1, <3>1, <3>2 DEF ErrorsOK, InValidation, LateCluster, LateImage, LateSubnets,
           LateProject, LateCategories, LateGPUs, LateDisks
      <3> QED BY <1>1, <1>4, <2>1, <3>1, <3>3, <3>4 DEF ErrorsRight, LateCluster, LateImage,
              LateSubnets, LateProject, LateCategories, LateGPUs, LateDisks
    <2> QED BY <2>2
  <1> QED BY <1>1, <1>3, <1>5, <1>6, <1>7 DEF ConfigInv

\* The project, if there is one.
LEMMA ProjectStep == ConfigInv /\ validateProjectConfig => ConfigInv'
  <1> SUFFICES ASSUME ConfigInv, validateProjectConfig PROVE ConfigInv'
    OBVIOUS
  <1> DEFINE valid == validated.project.by = "unset" \/ Found("project", validated.project)
             result == [validated EXCEPT !.project = Resolved("project", @)]
  <1>1. /\ pc = "project" /\ pc' = "categories" /\ seen' = seen \cup inv
        /\ UNCHANGED <<spec, env, inv, fd, client, userData, vm>>
        /\ \/ valid /\ validated' = result /\ errs' = errs /\ calm' = calm
           \/ ~valid /\ validated' = validated /\ errs' = errs \cup {"project"} /\ calm' = calm
           \/ validated' = validated /\ errs' = errs \cup {"project"} /\ ~calm'
    BY DEF validateProjectConfig, Validate, CallSucceeds, CallFails, outside, scopeVars
  <1> HIDE DEF valid, result
  <1>2. pc \in Middle /\ pc' \in Middle
    BY <1>1 DEF Middle, InValidation, LateCluster, LateImage, LateSubnets,
       LateProject, LateCategories, LateGPUs, LateDisks
  <1>3. WorldOK' /\ ScopeFresh' /\ RequestOK' /\ CopyOK /\ (calm => ErrorsRight)
    BY <1>1, <1>2, MiddleFrame
  <1>4. validated.project = Wanted.project /\ (valid <=> ProjectRight(inv))
    <2>1. validated.project = Wanted.project
      BY <1>1, <1>3 DEF CopyOK, CopyProject, LateProject, LateCategories, LateGPUs, LateDisks
    <2> QED BY <2>1, FoundUnique DEF ConfigInv, WorldOK, valid, ProjectRight
  <1>5. ErrorsOK'
    BY <1>1 DEF ConfigInv, ErrorsOK, InValidation, LateCluster, LateImage, LateSubnets,
       LateProject, LateCategories, LateGPUs, LateDisks
  <1>6. CopyOK'
    <2>1. Wanted' = Wanted
      BY <1>1, RightKept
    <2>2. CopyRest' /\ \A f \in SpecFields \ {"project"} : validated'[f] = validated[f]
      BY <1>1, <1>3, <2>1 DEF CopyOK, CopyRest, HasFields, SpecFields, result
    <2>3. CopyProject'
      <3>1. CASE valid /\ validated' = result
        <4>1. validated'.project = Resolved("project", Wanted.project)
          BY <1>3, <1>4, <3>1 DEF CopyOK, CopyRest, HasFields, SpecFields, result
        <4>2. CASE Wanted.project.by = "unset"
          BY <1>1, <2>1, <4>1, <4>2 DEF CopyProject, LateProject, Resolved, Found
        <4>3. CASE Wanted.project.by # "unset"
          <5>1. Found("project", Wanted.project)
            <6>1. validated.project.by = "unset" \/ Found("project", validated.project)
              BY <3>1, Zenon DEF valid
            <6> QED BY <1>4, <4>3, <6>1
          <5>2. inv \subseteq Universe
            BY DEF ConfigInv, WorldOK
          <5>3. Settled("project", validated.project, Wanted.project)'
            BY <1>1, <2>1, <4>1, <5>1, <5>2, ResolvedDenotes DEF Settled, Meant
          <5> QED BY <1>1, <2>1, <4>3, <5>3 DEF CopyProject, LateProject
        <4> QED BY <4>2, <4>3
      <3>2. CASE "project" \in errs'
        BY <1>1, <3>2 DEF CopyProject, LateProject
      <3> QED BY <1>1, <3>1, <3>2
    <2>4. CopyCluster' /\ CopyImage' /\ CopySubnets' /\ CopyDisks'
      BY <1>1, <1>3, <2>2, CopyKept DEF SpecFields, LateCluster, LateImage, LateSubnets, LateProject,
         LateCategories, LateGPUs, LateDisks
    <2> QED BY <2>2, <2>3, <2>4 DEF CopyOK
  <1>7. calm' => ErrorsRight'
    <2>1. /\ (Unique(inv, "cluster", Wanted.cluster))' <=> Unique(inv, "cluster", Wanted.cluster)
          /\ (Unique(inv, "image", Wanted.image))' <=> Unique(inv, "image", Wanted.image)
          /\ SubnetsRight(inv)' <=> SubnetsRight(inv)
          /\ ProjectRight(inv)' <=> ProjectRight(inv)
          /\ CategoriesRight(inv)' <=> CategoriesRight(inv)
          /\ GPUsRight(inv)' <=> GPUsRight(inv)
          /\ DisksRight(inv)' <=> DisksRight(inv)
      BY <1>1, RightKept
    <2>2. ASSUME calm' PROVE ErrorsRight'
      <3>1. ErrorsRight /\ ErrorsOK
        BY <1>1, <1>3, <2>2 DEF ConfigInv
      <3>2. (valid /\ errs' = errs) \/ (~valid /\ errs' = errs \cup {"project"})
        BY <1>1, <2>2, Zenon
      <3>3. \A f \in {"cluster", "image", "subnets", "project", "categories", "gpus", "disks"} :
               f # "project" => (f \in errs' <=> f \in errs)
        BY <3>2
      <3>4. "project" \notin errs' <=> valid
        BY <1>1, <3>1, <3>2 DEF ErrorsOK, InValidation, LateCluster, LateImage, LateSubnets,
           LateProject, LateCategories, LateGPUs, LateDisks
      <3> QED BY <1>1, <1>4, <2>1, <3>1, <3>3, <3>4 DEF ErrorsRight, LateCluster, LateImage,
              LateSubnets, LateProject, LateCategories, LateGPUs, LateDisks
    <2> QED BY <2>2
  <1> QED BY <1>1, <1>3, <1>5, <1>6, <1>7 DEF ConfigInv

\* The categories of the providerSpec.
LEMMA CategoriesStep == ConfigInv /\ validateCategoriesConfig => ConfigInv'
  <1> SUFFICES ASSUME ConfigInv, validateCategoriesConfig PROVE ConfigInv'
    OBVIOUS
  <1> DEFINE valid == \A c \in Range(validated.categories) : Found("category", Category(c))
  <1>1. /\ pc = "categories" /\ pc' = "gpus" /\ seen' = seen \cup inv
        /\ UNCHANGED <<spec, env, inv, fd, client, userData, vm>>
        /\ \/ valid /\ validated' = validated /\ errs' = errs /\ calm' = calm
           \/ ~valid /\ validated' = validated /\ errs' = errs \cup {"categories"} /\ calm' = calm
           \/ validated' = validated /\ errs' = errs \cup {"categories"} /\ ~calm'
    BY DEF validateCategoriesConfig, Validate, CallSucceeds, CallFails, outside, scopeVars
  <1> HIDE DEF valid
  <1>2. pc \in Middle /\ pc' \in Middle
    BY <1>1 DEF Middle, InValidation, LateCluster, LateImage, LateSubnets,
       LateProject, LateCategories, LateGPUs, LateDisks
  <1>3. WorldOK' /\ ScopeFresh' /\ RequestOK' /\ CopyOK /\ (calm => ErrorsRight)
    BY <1>1, <1>2, MiddleFrame
  <1>4. valid <=> CategoriesRight(inv)
    <2>1. validated.categories = Wanted.categories
      BY <1>3 DEF CopyOK, CopyRest, SpecFields
    <2>2. \A c \in Range(Wanted.categories) :
            Found("category", Category(c)) <=> Unique(inv, "category", Category(c))
      BY FoundUnique DEF ConfigInv, WorldOK
    <2> QED BY <2>1, <2>2 DEF CategoriesRight, valid
  <1>5. ErrorsOK'
    BY <1>1 DEF ConfigInv, ErrorsOK, InValidation, LateCluster, LateImage, LateSubnets,
       LateProject, LateCategories, LateGPUs, LateDisks
  <1>6. CopyOK'
    <2>1. Wanted' = Wanted
      BY <1>1, RightKept
    <2>2. CopyRest'
      BY <1>1, <1>3, <2>1 DEF CopyOK, CopyRest
    <2>3. CopyCluster' /\ CopyImage' /\ CopySubnets' /\ CopyProject' /\ CopyDisks'
      BY <1>1, <1>3, <2>2, CopyKept DEF SpecFields, LateCluster, LateImage, LateSubnets, LateProject,
         LateCategories, LateGPUs, LateDisks
    <2> QED BY <2>2, <2>3 DEF CopyOK
  <1>7. calm' => ErrorsRight'
    <2>1. /\ (Unique(inv, "cluster", Wanted.cluster))' <=> Unique(inv, "cluster", Wanted.cluster)
          /\ (Unique(inv, "image", Wanted.image))' <=> Unique(inv, "image", Wanted.image)
          /\ SubnetsRight(inv)' <=> SubnetsRight(inv)
          /\ ProjectRight(inv)' <=> ProjectRight(inv)
          /\ CategoriesRight(inv)' <=> CategoriesRight(inv)
          /\ GPUsRight(inv)' <=> GPUsRight(inv)
          /\ DisksRight(inv)' <=> DisksRight(inv)
      BY <1>1, RightKept
    <2>2. ASSUME calm' PROVE ErrorsRight'
      <3>1. ErrorsRight /\ ErrorsOK
        BY <1>1, <1>3, <2>2 DEF ConfigInv
      <3>2. (valid /\ errs' = errs) \/ (~valid /\ errs' = errs \cup {"categories"})
        BY <1>1, <2>2, Zenon
      <3>3. \A f \in {"cluster", "image", "subnets", "project", "categories", "gpus", "disks"} :
               f # "categories" => (f \in errs' <=> f \in errs)
        BY <3>2
      <3>4. "categories" \notin errs' <=> valid
        BY <1>1, <3>1, <3>2 DEF ErrorsOK, InValidation, LateCluster, LateImage, LateSubnets,
           LateProject, LateCategories, LateGPUs, LateDisks
      <3> QED BY <1>1, <1>4, <2>1, <3>1, <3>3, <3>4 DEF ErrorsRight, LateCluster, LateImage,
              LateSubnets, LateProject, LateCategories, LateGPUs, LateDisks
    <2> QED BY <2>2
  <1> QED BY <1>1, <1>3, <1>5, <1>6, <1>7 DEF ConfigInv

\* The GPUs, for which the cluster must have been resolved.
LEMMA GPUsStep == ConfigInv /\ validateGPUsConfig => ConfigInv'
  <1> SUFFICES ASSUME ConfigInv, validateGPUsConfig PROVE ConfigInv'
    OBVIOUS
  <1> DEFINE valid == validated.gpus # <<>> =>
                        /\ validated.cluster.by = "uuid" /\ validated.cluster.val # None
                        /\ \A ref \in Range(validated.gpus) : GPUFound(ref)
  <1>1. /\ pc = "gpus" /\ pc' = "disks" /\ seen' = seen \cup inv
        /\ UNCHANGED <<spec, env, inv, fd, client, userData, vm>>
        /\ \/ valid /\ validated' = validated /\ errs' = errs /\ calm' = calm
           \/ ~valid /\ validated' = validated /\ errs' = errs \cup {"gpus"} /\ calm' = calm
           \/ validated' = validated /\ errs' = errs \cup {"gpus"} /\ ~calm'
    BY DEF validateGPUsConfig, Validate, CallSucceeds, CallFails, outside, scopeVars
  <1> HIDE DEF valid
  <1>2. pc \in Middle /\ pc' \in Middle
    BY <1>1 DEF Middle, InValidation, LateCluster, LateImage, LateSubnets,
       LateProject, LateCategories, LateGPUs, LateDisks
  <1>3. WorldOK' /\ ScopeFresh' /\ RequestOK' /\ CopyOK /\ (calm => ErrorsRight)
    BY <1>1, <1>2, MiddleFrame
  <1>4. (valid => GPUsRight(inv)) /\ (GPUsRight(inv) /\ "cluster" \notin errs => valid)
    <2>1. validated.gpus = Wanted.gpus
      BY <1>3 DEF CopyOK, CopyRest, SpecFields
    <2>2. ASSUME NEW ref
          PROVE  GPUFound(ref) <=>
                   ref.by \in {"name", "uuid"} /\ \E r \in inv : Denotes(ref, "gpu", r)
      BY InventoryAssumption DEF GPUFound, GPUMatches, Denotes, ConfigInv, WorldOK
    <2>3. "cluster" \notin errs => validated.cluster.by = "uuid" /\ validated.cluster.val # None
      BY <1>1, <1>3 DEF CopyOK, CopyCluster, Settled, LateCluster, LateImage, LateSubnets,
         LateProject, LateCategories
    <2>4. Wanted.gpus = <<>> => Range(Wanted.gpus) = {}
      BY DEF Range
    <2> QED BY <2>1, <2>2, <2>3, <2>4 DEF GPUsRight, valid
  <1>5. ErrorsOK'
    BY <1>1 DEF ConfigInv, ErrorsOK, InValidation, LateCluster, LateImage, LateSubnets,
       LateProject, LateCategories, LateGPUs, LateDisks
  <1>6. CopyOK'
    <2>1. Wanted' = Wanted
      BY <1>1, RightKept
    <2>2. CopyRest'
      BY <1>1, <1>3, <2>1 DEF CopyOK, CopyRest
    <2>3. CopyCluster' /\ CopyImage' /\ CopySubnets' /\ CopyProject' /\ CopyDisks'
      BY <1>1, <1>3, <2>2, CopyKept DEF SpecFields, LateCluster, LateImage, LateSubnets, LateProject,
         LateCategories, LateGPUs, LateDisks
    <2> QED BY <2>2, <2>3 DEF CopyOK
  <1>7. calm' => ErrorsRight'
    <2>1. /\ (Unique(inv, "cluster", Wanted.cluster))' <=> Unique(inv, "cluster", Wanted.cluster)
          /\ (Unique(inv, "image", Wanted.image))' <=> Unique(inv, "image", Wanted.image)
          /\ SubnetsRight(inv)' <=> SubnetsRight(inv)
          /\ ProjectRight(inv)' <=> ProjectRight(inv)
          /\ CategoriesRight(inv)' <=> CategoriesRight(inv)
          /\ GPUsRight(inv)' <=> GPUsRight(inv)
          /\ DisksRight(inv)' <=> DisksRight(inv)
      BY <1>1, RightKept
    <2>2. ASSUME calm' PROVE ErrorsRight'
      <3>1. ErrorsRight /\ ErrorsOK
        BY <1>1, <1>3, <2>2 DEF ConfigInv
      <3>2. (valid /\ errs' = errs) \/ (~valid /\ errs' = errs \cup {"gpus"})
        BY <1>1, <2>2, Zenon
      <3>3. \A f \in {"cluster", "image", "subnets", "project", "categories", "gpus", "disks"} :
               f # "gpus" => (f \in errs' <=> f \in errs)
        BY <3>2
      <3>4. "gpus" \notin errs' <=> valid
        BY <1>1, <3>1, <3>2 DEF ErrorsOK, InValidation, LateCluster, LateImage, LateSubnets,
           LateProject, LateCategories, LateGPUs, LateDisks
      <3> QED BY <1>1, <1>4, <2>1, <3>1, <3>3, <3>4 DEF ErrorsRight, LateCluster, LateImage,
              LateSubnets, LateProject, LateCategories, LateGPUs, LateDisks
    <2> QED BY <2>2
  <1> QED BY <1>1, <1>3, <1>5, <1>6, <1>7 DEF ConfigInv

\* The data disks and the images they are made from.
LEMMA DisksStep == ConfigInv /\ validateDataDisksConfig => ConfigInv'
  <1> SUFFICES ASSUME ConfigInv, validateDataDisksConfig PROVE ConfigInv'
    OBVIOUS
  <1> DEFINE valid == \A d \in Range(validated.disks) : DiskValid(d)
             result == [validated EXCEPT !.disks =
                           [i \in DOMAIN @ |-> WithImage(@[i])]]
  <1>1. /\ pc = "disks" /\ pc' = "checked" /\ seen' = seen \cup inv
        /\ UNCHANGED <<spec, env, inv, fd, client, userData, vm>>
        /\ \/ valid /\ validated' = result /\ errs' = errs /\ calm' = calm
           \/ ~valid /\ validated' = validated /\ errs' = errs \cup {"disks"} /\ calm' = calm
           \/ validated' = validated /\ errs' = errs \cup {"disks"} /\ ~calm'
    BY DEF validateDataDisksConfig, Validate, CallSucceeds, CallFails, outside, scopeVars
  <1> HIDE DEF valid, result
  <1>2. pc \in Middle /\ pc' \in Middle
    BY <1>1 DEF Middle, InValidation, LateCluster, LateImage, LateSubnets,
       LateProject, LateCategories, LateGPUs, LateDisks
  <1>3. WorldOK' /\ ScopeFresh' /\ RequestOK' /\ CopyOK /\ (calm => ErrorsRight)
    BY <1>1, <1>2, MiddleFrame
  <1>4. validated.disks = Wanted.disks /\ (valid <=> DisksRight(inv))
    <2>1. validated.disks = Wanted.disks
      BY <1>1, <1>3 DEF CopyOK, CopyDisks, LateDisks
    <2>2. \A ref : Found("image", ref) <=> Unique(inv, "image", ref)
      BY FoundUnique DEF ConfigInv, WorldOK
    <2> QED BY <2>1, <2>2 DEF DisksRight, DiskValid, valid
  <1>5. ErrorsOK'
    BY <1>1 DEF ConfigInv, ErrorsOK, InValidation, LateCluster, LateImage, LateSubnets,
       LateProject, LateCategories, LateGPUs, LateDisks
  <1>6. CopyOK'
    <2>1. Wanted' = Wanted
      BY <1>1, RightKept
    <2>2. CopyRest' /\ \A f \in SpecFields \ {"disks"} : validated'[f] = validated[f]
      BY <1>1, <1>3, <2>1 DEF CopyOK, CopyRest, HasFields, SpecFields, result
    <2>3. CopyDisks'
      <3>1. CASE valid /\ validated' = result
        <4>1. validated'.disks = [i \in DOMAIN Wanted.disks |-> WithImage(Wanted.disks[i])]
          BY <1>3, <1>4, <3>1 DEF CopyOK, CopyRest, HasFields, SpecFields, result
        <4>2. ASSUME NEW i \in DOMAIN Wanted.disks
              PROVE  DiskSettled(validated.disks[i], Wanted.disks[i])'
          <5> DEFINE d == Wanted.disks[i]
                     src == Resolved("image", d.source)
          <5>1. DiskValid(d) /\ HasFields(d, DiskFields)
            BY <1>4, <3>1, WantedShape DEF Range, ConfigInv, valid
          <5>2. validated'.disks[i] = [d EXCEPT !.source = src]
            BY <4>1 DEF WithImage
          <5>3. validated'.disks[i].source = src
            BY <5>1, <5>2 DEF HasFields, DiskFields
          <5>4. d.source.by # "none" =>
                  /\ src.by = "uuid" /\ src.val # None
                  /\ \E r \in seen' : r.id = src.val /\ Denotes(d.source, "image", r)
            <6>1. d.source.by # "none" => Found("image", d.source)
              BY <5>1 DEF DiskValid
            <6>2. inv \subseteq Universe
              BY DEF ConfigInv, WorldOK
            <6>3. CASE d.source.by = "none"
              BY <6>3
            <6>4. CASE Found("image", d.source)
              BY <1>1, <6>2, <6>4, ResolvedDenotes
            <6> QED BY <6>1, <6>3, <6>4
          <5> HIDE DEF src
          <5> QED BY <2>1, <5>1, <5>2, <5>3, <5>4 DEF DiskSettled, DiskValid, Settled, Meant
        <4> QED BY <1>1, <2>1, <4>1, <4>2 DEF CopyDisks, LateDisks
      <3>2. CASE "disks" \in errs'
        BY <1>1, <3>2 DEF CopyDisks, LateDisks
      <3> QED BY <1>1, <3>1, <3>2
    <2>4. CopyCluster' /\ CopyImage' /\ CopySubnets' /\ CopyProject'
      BY <1>1, <1>3, <2>2, CopyKept DEF SpecFields, LateCluster, LateImage, LateSubnets, LateProject,
         LateCategories, LateGPUs, LateDisks
    <2> QED BY <2>2, <2>3, <2>4 DEF CopyOK
  <1>7. calm' => ErrorsRight'
    <2>1. /\ (Unique(inv, "cluster", Wanted.cluster))' <=> Unique(inv, "cluster", Wanted.cluster)
          /\ (Unique(inv, "image", Wanted.image))' <=> Unique(inv, "image", Wanted.image)
          /\ SubnetsRight(inv)' <=> SubnetsRight(inv)
          /\ ProjectRight(inv)' <=> ProjectRight(inv)
          /\ CategoriesRight(inv)' <=> CategoriesRight(inv)
          /\ GPUsRight(inv)' <=> GPUsRight(inv)
          /\ DisksRight(inv)' <=> DisksRight(inv)
      BY <1>1, RightKept
    <2>2. ASSUME calm' PROVE ErrorsRight'
      <3>1. ErrorsRight /\ ErrorsOK
        BY <1>1, <1>3, <2>2 DEF ConfigInv
      <3>2. (valid /\ errs' = errs) \/ (~valid /\ errs' = errs \cup {"disks"})
        BY <1>1, <2>2, Zenon
      <3>3. \A f \in {"cluster", "image", "subnets", "project", "categories", "gpus", "disks"} :
               f # "disks" => (f \in errs' <=> f \in errs)
        BY <3>2
      <3>4. "disks" \notin errs' <=> valid
        BY <1>1, <3>1, <3>2 DEF ErrorsOK, InValidation, LateCluster, LateImage, LateSubnets,
           LateProject, LateCategories, LateGPUs, LateDisks
      <3> QED BY <1>1, <1>4, <2>1, <3>1, <3>3, <3>4 DEF ErrorsRight, LateCluster, LateImage,
              LateSubnets, LateProject, LateCategories, LateGPUs, LateDisks
    <2> QED BY <2>2
  <1> QED BY <1>1, <1>3, <1>5, <1>6, <1>7 DEF ConfigInv

-----------------------------------------------------------------------------
(* The scope.                                                              *)

\* An attempt that ends leaves nothing behind that counts.
LEMMA RetryStep ==
  ASSUME ConfigInv, UNCHANGED <<spec, env, inv>>, pc' = "idle", vm' = None,
         fd' # None => IsList(fd'.subnets)
  PROVE  ConfigInv'
  <1>1. WorldOK' /\ ScopeFresh' /\ ErrorsOK'
    BY DEF ConfigInv, WorldOK, ScopeFresh, ErrorsOK, InValidation, LateCluster, LateImage,
       LateSubnets, LateProject, LateCategories, LateGPUs, LateDisks
  <1>2. RequestOK'
    BY DEF RequestOK, RequestMeant, RequestOwned, DisksAsConfigured
  <1>3. pc' \notin InValidation
    BY DEF InValidation, LateCluster, LateImage, LateSubnets, LateProject, LateCategories,
       LateGPUs, LateDisks
  <1> QED BY <1>1, <1>2, <1>3 DEF ConfigInv

\* Begin claims nothing of the scope yet.
LEMMA BeginStep == ConfigInv /\ Begin => ConfigInv'
  <1> SUFFICES ASSUME ConfigInv, Begin PROVE ConfigInv'
    OBVIOUS
  <1>1. /\ pc = "idle" /\ pc' = "scope" /\ errs' = {}
        /\ UNCHANGED <<spec, env, inv, fd, vm>>
    BY DEF Begin, outside, scopeVars
  <1>2. pc' \notin InValidation /\ vm' = None
    BY <1>1 DEF ConfigInv, RequestOK, InValidation, LateCluster, LateImage, LateSubnets,
       LateProject, LateCategories, LateGPUs, LateDisks
  <1>3. WorldOK' /\ ScopeFresh' /\ ErrorsOK'
    BY <1>1, <1>2 DEF ConfigInv, WorldOK, ScopeFresh, ErrorsOK
  <1>4. RequestOK'
    BY <1>2 DEF RequestOK, RequestMeant, RequestOwned, DisksAsConfigured
  <1> QED BY <1>1, <1>2, <1>3, <1>4 DEF ConfigInv

\* The Infrastructure gives the endpoint and the failure domain of now.
LEMMA InfrastructureStep == ConfigInv /\ ReadScope /\ getInfrastructure => ConfigInv'
  <1> SUFFICES ASSUME ConfigInv, ReadScope, getInfrastructure PROVE ConfigInv'
    OBVIOUS
  <1>1. pc = "scope" /\ UNCHANGED <<spec, env, inv, vm, errs>>
    BY DEF ReadScope, getInfrastructure, outside
  <1>2. vm' = None
    BY <1>1 DEF ConfigInv, RequestOK
  <1>3. CASE pc' = "idle" /\ fd' = fd
    BY <1>1, <1>2, <1>3, RetryStep DEF ConfigInv, WorldOK
  <1>4. CASE /\ InfrastructureOK /\ pc' = "credentials" /\ calm' = calm
             /\ fd' = IF spec.failureDomain = None THEN None ELSE env.domains[spec.failureDomain]
             /\ client' = [ address |-> env.address, port |-> env.port, url |-> None,
                            user |-> None, password |-> None ]
    <2>1. pc' \notin InValidation
      BY <1>4 DEF InValidation, LateCluster, LateImage, LateSubnets, LateProject,
         LateCategories, LateGPUs, LateDisks
    <2>2. spec.failureDomain # None => IsList(env.domains[spec.failureDomain].subnets)
      <3>1. spec.failureDomain # None => spec.failureDomain \in DOMAIN env.domains
        <4>1. InfrastructureOK
          BY <1>4
        <4> QED BY <4>1 DEF InfrastructureOK
      <3>2. env \in Environments
        BY DEF ConfigInv, WorldOK
      <3> QED BY <3>1, <3>2, EnvironmentsAssumption
    <2>3. WorldOK'
      BY <1>1, <1>4, <2>2 DEF ConfigInv, WorldOK
    <2>4. ScopeFresh'
      BY <1>1, <1>4, <2>1 DEF ScopeFresh, HasFields
    <2>5. ErrorsOK'
      BY <1>1, <1>4, <2>1 DEF ConfigInv, ErrorsOK, InValidation, LateCluster, LateImage,
         LateSubnets, LateProject, LateCategories, LateGPUs, LateDisks
    <2>6. RequestOK'
      BY <1>2 DEF RequestOK, RequestMeant, RequestOwned, DisksAsConfigured
    <2> QED BY <1>4, <2>1, <2>3, <2>4, <2>5, <2>6 DEF ConfigInv
  <1> QED BY <1>3, <1>4 DEF getInfrastructure, Retry, CallSucceeds, CallFails

\* The secret gives the credentials; the client is built from both.
LEMMA CredentialsStep == ConfigInv /\ ReadScope /\ getCredentials => ConfigInv'
  <1> SUFFICES ASSUME ConfigInv, ReadScope, getCredentials PROVE ConfigInv'
    OBVIOUS
  <1>1. pc = "credentials" /\ UNCHANGED <<spec, env, inv, vm, errs, fd>>
    BY DEF ReadScope, getCredentials, outside
  <1>2. vm' = None
    BY <1>1 DEF ConfigInv, RequestOK
  <1>3. CASE pc' = "idle"
    BY <1>1, <1>2, <1>3, RetryStep DEF ConfigInv, WorldOK
  <1>4. CASE /\ env.secret # None /\ CredentialsOK(env.secret)
             /\ client' = resolveCredentials([client EXCEPT
                             !.user = Head(env.secret).user,
                             !.password = Head(env.secret).password])
             /\ pc' = "userData" /\ calm' = calm
    <2>1. pc' \notin InValidation
      BY <1>4 DEF InValidation, LateCluster, LateImage, LateSubnets, LateProject,
         LateCategories, LateGPUs, LateDisks
    <2>2. Head(env.secret) \in Range(env.secret)
      <3>1. IsList(env.secret) /\ env.secret # <<>>
        BY <1>4, EnvironmentsAssumption DEF ConfigInv, WorldOK, CredentialsOK
      <3> QED BY <3>1 DEF IsList, Range
    <2>3. /\ client'.url = <<client.address, client.port>>
          /\ client'.user = Head(env.secret).user
          /\ client'.password = Head(env.secret).password
      BY <1>1, <1>4 DEF ConfigInv, ScopeFresh, HasFields, resolveCredentials
    <2>4. WorldOK'
      BY <1>1, <1>4 DEF ConfigInv, WorldOK
    <2>5. ScopeFresh'
      BY <1>1, <1>4, <2>1, <2>2, <2>3 DEF ConfigInv, ScopeFresh
    <2>6. ErrorsOK'
      BY <1>1, <1>4, <2>1 DEF ConfigInv, ErrorsOK, InValidation, LateCluster, LateImage,
         LateSubnets, LateProject, LateCategories, LateGPUs, LateDisks
    <2>7. RequestOK'
      BY <1>2 DEF RequestOK, RequestMeant, RequestOwned, DisksAsConfigured
    <2> QED BY <1>4, <2>1, <2>4, <2>5, <2>6, <2>7 DEF ConfigInv
  <1> QED BY <1>3, <1>4 DEF getCredentials, Retry, CallSucceeds, CallFails

\* The user data, and the fresh copy from which the validation starts.
LEMMA UserDataStep == ConfigInv /\ ReadScope /\ getUserData => ConfigInv'
  <1> SUFFICES ASSUME ConfigInv, ReadScope, getUserData PROVE ConfigInv'
    OBVIOUS
  <1>1. pc = "userData" /\ UNCHANGED <<spec, env, inv, vm, errs, fd, client>>
    BY DEF ReadScope, getUserData, outside
  <1>2. vm' = None
    BY <1>1 DEF ConfigInv, RequestOK
  <1>3. RequestOK'
    BY <1>2 DEF RequestOK, RequestMeant, RequestOwned, DisksAsConfigured
  <1>4. CASE pc' = "idle"
    BY <1>1, <1>2, <1>4, RetryStep DEF ConfigInv, WorldOK
  <1>5. CASE ~spec.clusterID /\ pc' = "invalid"
    <2>1. pc' \notin InValidation
      BY <1>5 DEF InValidation, LateCluster, LateImage, LateSubnets, LateProject,
         LateCategories, LateGPUs, LateDisks
    <2>2. WorldOK' /\ ScopeFresh' /\ ErrorsOK'
      BY <1>1, <1>5, <2>1 DEF ConfigInv, WorldOK, ScopeFresh, ErrorsOK
    <2>3. ~Satisfiable(inv)'
      BY <1>1, <1>5 DEF Satisfiable
    <2> QED BY <1>3, <1>5, <2>1, <2>2, <2>3 DEF ConfigInv
  <1>6. CASE /\ spec.clusterID /\ pc' = "cluster" /\ calm' = calm
             /\ userData' = IF spec.userDataSecret
                  THEN [content |-> env.userData.content, hostname |-> ~spec.windows] ELSE None
    <2>1. pc' \in InValidation /\ pc' \notin LateCluster
      BY <1>6 DEF InValidation, LateCluster, LateImage, LateSubnets, LateProject,
         LateCategories, LateGPUs, LateDisks
    <2>2. WorldOK' /\ ScopeFresh'
      BY <1>1, <1>6, <2>1 DEF ConfigInv, WorldOK, ScopeFresh
    <2>3. ErrorsOK'
      BY <1>1, <1>6 DEF ConfigInv, ErrorsOK, InValidation, LateCluster, LateImage,
         LateSubnets, LateProject, LateCategories, LateGPUs, LateDisks
    <2>4. validated' = Wanted /\ Wanted' = Wanted
      BY <1>1, <1>6 DEF ReadScope, FreshCopy, Wanted, WithFailureDomain
    <2>5. CopyOK'
      <3>1. CopyRest'
        BY <2>4, WantedShape DEF ConfigInv, CopyRest
      <3> QED BY <1>6, <2>4, <3>1 DEF CopyOK, CopyCluster, CopyImage, CopySubnets, CopyProject,
              CopyDisks, LateCluster, LateImage, LateSubnets, LateProject, LateCategories,
              LateGPUs, LateDisks
    <2>6. ErrorsRight'
      BY <1>6 DEF ErrorsRight, LateCluster, LateImage, LateSubnets, LateProject, LateCategories,
         LateGPUs, LateDisks
    <2> QED BY <1>3, <1>6, <2>2, <2>3, <2>5, <2>6 DEF ConfigInv
  <1> QED BY <1>4, <1>5, <1>6 DEF getUserData, Retry, CallSucceeds, CallFails

-----------------------------------------------------------------------------
(* The verdict and the request.                                            *)

\* Once no field has an error the configuration can be satisfied; as long as
\* nothing has changed, an error means that it cannot.
LEMMA Verdict ==
  ASSUME ConfigInv, calm, pc \in LateDisks
  PROVE  errs = {} <=> Satisfiable(inv)
  <1>1. ErrorsRight /\ spec.clusterID
    BY DEF ConfigInv, ScopeFresh, InValidation, LateCluster, LateImage, LateSubnets, LateProject,
       LateCategories, LateGPUs, LateDisks
  <1>2. errs \subseteq {"cluster", "image", "subnets", "project", "categories", "gpus", "disks"}
    BY DEF ConfigInv, ErrorsOK, InValidation, LateCluster, LateImage, LateSubnets, LateProject,
       LateCategories, LateGPUs
  <1>3. /\ "cluster" \notin errs <=> Unique(inv, "cluster", Wanted.cluster)
        /\ "image" \notin errs <=> Unique(inv, "image", Wanted.image)
        /\ "subnets" \notin errs <=> SubnetsRight(inv)
        /\ "project" \notin errs <=> ProjectRight(inv)
        /\ "categories" \notin errs <=> CategoriesRight(inv)
        /\ IF "gpus" \in errs THEN "cluster" \in errs \/ ~GPUsRight(inv) ELSE GPUsRight(inv)
        /\ "disks" \notin errs <=> DisksRight(inv)
    BY <1>1 DEF ErrorsRight, LateCluster, LateImage, LateSubnets, LateProject, LateCategories,
       LateGPUs
  <1> QED BY <1>1, <1>2, <1>3 DEF Satisfiable

\* The end of validateVMConfig.
LEMMA CheckedStep == ConfigInv /\ Checked => ConfigInv'
  <1> SUFFICES ASSUME ConfigInv, Checked PROVE ConfigInv'
    OBVIOUS
  <1>1. /\ pc = "checked" /\ pc' = IF errs = {} THEN "gpuList" ELSE "invalid"
        /\ UNCHANGED <<spec, env, inv, fd, client, userData, validated, errs, vm, seen, calm>>
    BY DEF Checked, outside, scopeVars, attempt
  <1>2. CASE errs = {}
    <2>1. pc \in Middle /\ pc' \in Middle
      BY <1>1, <1>2 DEF Middle, InValidation, LateCluster, LateImage, LateSubnets,
         LateProject, LateCategories, LateGPUs, LateDisks
    <2>2. WorldOK' /\ ScopeFresh' /\ RequestOK' /\ CopyOK /\ (calm => ErrorsRight)
      BY <1>1, <2>1, MiddleFrame
    <2>3. ErrorsOK'
      BY <1>1, <1>2 DEF ErrorsOK
    <2>4. CopyOK'
      <3>1. Wanted' = Wanted
        BY <1>1, RightKept
      <3>2. CopyRest'
        BY <1>1, <2>2, <3>1 DEF CopyOK, CopyRest
      <3>3. CopyCluster' /\ CopyImage' /\ CopySubnets' /\ CopyProject' /\ CopyDisks'
        BY <1>1, <1>2, <2>2, CopyKept DEF LateCluster, LateImage, LateSubnets, LateProject,
           LateCategories, LateGPUs, LateDisks
      <3> QED BY <3>2, <3>3 DEF CopyOK
    <2>5. calm' => ErrorsRight'
      BY <1>1, <1>2, <2>2, RightKept DEF ErrorsRight, LateCluster, LateImage, LateSubnets,
         LateProject, LateCategories, LateGPUs, LateDisks
    <2> QED BY <1>1, <1>2, <2>2, <2>3, <2>4, <2>5 DEF ConfigInv
  <1>3. CASE errs # {}
    <2>1. pc' \notin InValidation /\ pc \in LateDisks
      BY <1>1, <1>3 DEF InValidation, LateCluster, LateImage, LateSubnets, LateProject,
         LateCategories, LateGPUs, LateDisks
    <2>2. WorldOK' /\ ScopeFresh' /\ ErrorsOK'
      BY <1>1, <1>3, <2>1 DEF ConfigInv, WorldOK, ScopeFresh, ErrorsOK
    <2>3. RequestOK'
      BY <1>1 DEF ConfigInv, RequestOK, RequestMeant, RequestOwned, DisksAsConfigured
    <2>4. calm => ~Satisfiable(inv)
      BY <1>3, <2>1, Verdict
    <2>5. calm' => ~Satisfiable(inv)'
      BY <1>1, <2>4, RightKept
    <2> QED BY <1>1, <1>3, <2>1, <2>2, <2>3, <2>5 DEF ConfigInv
  <1> QED BY <1>2, <1>3

\* The second lookup of the GPUs does not touch the copy.
LEMMA GPUListStep == ConfigInv /\ buildV4GPUList => ConfigInv'
  <1> SUFFICES ASSUME ConfigInv, buildV4GPUList PROVE ConfigInv'
    OBVIOUS
  <1>1. /\ pc = "gpuList"
        /\ pc' = "idle" \/ (pc' = "categoryRefs" /\ calm' = calm)
        /\ UNCHANGED <<spec, env, inv, fd, client, userData, validated, errs, vm, seen>>
    BY DEF buildV4GPUList, Retry, CallSucceeds, outside, scopeVars
  <1>2. CASE pc' = "idle"
    <2>1. vm' = None
      BY <1>1 DEF ConfigInv, RequestOK
    <2> QED BY <1>1, <1>2, <2>1, RetryStep DEF ConfigInv, WorldOK
  <1>3. CASE pc' = "categoryRefs" /\ calm' = calm
    <2>1. pc \in Middle /\ pc' \in Middle
      BY <1>1, <1>3 DEF Middle, InValidation, LateCluster, LateImage, LateSubnets,
         LateProject, LateCategories, LateGPUs, LateDisks
    <2>2. WorldOK' /\ ScopeFresh' /\ RequestOK' /\ CopyOK /\ (calm => ErrorsRight)
      BY <1>1, <1>3, <2>1, MiddleFrame
    <2>3. ErrorsOK'
      BY <1>1, <1>3 DEF ConfigInv, ErrorsOK
    <2>4. CopyOK'
      <3>1. Wanted' = Wanted
        BY <1>1, RightKept
      <3>2. CopyRest'
        BY <1>1, <2>2, <3>1 DEF CopyOK, CopyRest
      <3>3. CopyCluster' /\ CopyImage' /\ CopySubnets' /\ CopyProject' /\ CopyDisks'
        BY <1>1, <1>3, <2>2, CopyKept DEF LateCluster, LateImage, LateSubnets, LateProject,
           LateCategories, LateGPUs, LateDisks
      <3> QED BY <3>2, <3>3 DEF CopyOK
    <2>5. calm' => ErrorsRight'
      BY <1>1, <1>3, <2>2, RightKept DEF ErrorsRight, LateCluster, LateImage, LateSubnets,
         LateProject, LateCategories, LateGPUs, LateDisks
    <2> QED BY <1>3, <2>2, <2>3, <2>4, <2>5 DEF ConfigInv
  <1> QED BY <1>1, <1>2, <1>3

\* The request names what the copy was resolved to.
LEMMA RequestFromCopy ==
  ASSUME WorldOK, CopyOK, errs = {}, pc = "categoryRefs",
         UNCHANGED <<spec, fd>>, seen' = seen \cup inv,
         \A c \in AllCategories(validated.categories) : Found("category", Category(c)),
         vm' = Request(validated)
  PROVE  RequestMeant' /\ RequestOwned' /\ DisksAsConfigured'
  <1>1. Wanted' = Wanted
    BY DEF Wanted, WithFailureDomain
  <1>2. /\ Settled("cluster", validated.cluster, Wanted.cluster)
        /\ Settled("image", validated.image, Wanted.image)
        /\ validated.subnets = [i \in DOMAIN Wanted.subnets |-> validated.subnets[i]]
        /\ \A i \in DOMAIN Wanted.subnets :
              Settled("subnet", validated.subnets[i], Wanted.subnets[i])
        /\ IF Wanted.project.by = "unset" THEN validated.project = Wanted.project
           ELSE Settled("project", validated.project, Wanted.project)
        /\ validated.disks = [i \in DOMAIN Wanted.disks |-> validated.disks[i]]
        /\ \A i \in DOMAIN Wanted.disks : DiskSettled(validated.disks[i], Wanted.disks[i])
        /\ validated.categories = Wanted.categories
    BY DEF CopyOK, CopyRest, CopyCluster, CopyImage, CopySubnets, CopyProject, CopyDisks,
       SpecFields, LateCluster, LateImage, LateSubnets, LateProject, LateCategories, LateGPUs,
       LateDisks
  <1>3. /\ vm'.cluster = validated.cluster.val /\ vm'.image = validated.image.val
        /\ vm'.nics = ExtIds(validated.subnets)
        /\ vm'.project = IF validated.project.by = "uuid" THEN validated.project.val ELSE None
        /\ vm'.categories = CategoryIds(AllCategories(validated.categories))
        /\ vm'.disks = [i \in DOMAIN validated.disks |-> Device(validated.disks[i])]
    BY DEF Request
  <1>4. ASSUME NEW id, NEW kind, NEW ref, Meant(id, kind, ref)
        PROVE  \E r \in seen' : r.id = id /\ Denotes(ref, kind, r)
    BY <1>4 DEF Meant
  <1>5. RequestMeant'
    <2>1. Meant(vm.cluster, "cluster", Wanted.cluster)' /\ Meant(vm.image, "image", Wanted.image)'
      BY <1>1, <1>2, <1>3, <1>4 DEF Settled, Meant
    <2>2. vm'.nics = [i \in DOMAIN Wanted.subnets |-> validated.subnets[i].val]
      <3> DEFINE ids == [i \in DOMAIN validated.subnets |-> validated.subnets[i].val]
      <3>1. ids = [i \in DOMAIN Wanted.subnets |-> validated.subnets[i].val]
        BY <1>2
      <3>2. None \notin Range(ids)
        BY <1>2, <3>1 DEF Range, Settled
      <3> QED BY <1>3, <3>1, <3>2 DEF ExtIds
    <2>3. /\ DOMAIN vm'.nics = DOMAIN Wanted'.subnets
          /\ \A i \in DOMAIN vm'.nics :
                \E r \in seen' : r.id = vm'.nics[i] /\ Denotes(Wanted'.subnets[i], "subnet", r)
      <3>1. DOMAIN vm'.nics = DOMAIN Wanted.subnets
        BY <2>2
      <3>2. ASSUME NEW i \in DOMAIN Wanted.subnets
            PROVE  \E r \in seen' : r.id = vm'.nics[i] /\ Denotes(Wanted.subnets[i], "subnet", r)
        <4>1. vm'.nics[i] = validated.subnets[i].val
          BY <2>2
        <4>2. Meant(validated.subnets[i].val, "subnet", Wanted.subnets[i])
          BY <1>2 DEF Settled
        <4> QED BY <1>4, <4>1, <4>2
      <3> QED BY <1>1, <3>1, <3>2
    <2>4. IF Wanted'.project.by = "unset" THEN vm'.project = None
          ELSE Meant(vm.project, "project", Wanted.project)'
      BY <1>1, <1>2, <1>3, <1>4 DEF Settled, Meant
    <2>5. ASSUME NEW i \in DOMAIN vm'.disks, Wanted'.disks[i].source.by # "none"
          PROVE  \E r \in seen' : /\ r.id = vm'.disks[i].image
                                  /\ Denotes(Wanted'.disks[i].source, "image", r)
      <3>1. i \in DOMAIN Wanted.disks /\ vm'.disks[i] = Device(validated.disks[i])
        BY <1>2, <1>3
      <3>2. Settled("image", validated.disks[i].source, Wanted.disks[i].source)
        BY <1>1, <1>2, <2>5, <3>1 DEF DiskSettled
      <3>3. vm'.disks[i].image = validated.disks[i].source.val
        BY <3>1, <3>2 DEF Device, Settled
      <3> QED BY <1>1, <1>4, <3>2, <3>3 DEF Settled
    <2> QED BY <2>1, <2>3, <2>4, <2>5 DEF RequestMeant, Meant
  <1>6. RequestOwned'
    <2>1. ASSUME NEW c \in Range(Wanted.categories) \cup {Owned}
          PROVE  \E id \in vm'.categories :
                   \E r \in seen' : r.id = id /\ Denotes(Category(c), "category", r)
      <3> DEFINE id == Resolved("category", Category(c)).val
      <3>1. Found("category", Category(c)) /\ c \in AllCategories(validated.categories)
        BY <1>2 DEF AllCategories
      <3>2. id # None /\ \E r \in inv : r.id = id /\ Denotes(Category(c), "category", r)
        BY <3>1, ResolvedDenotes DEF WorldOK
      <3>3. id \in vm'.categories
        BY <1>3, <3>1, <3>2 DEF CategoryIds
      <3> HIDE DEF id
      <3> QED BY <3>2, <3>3
    <2> QED BY <1>1, <2>1 DEF RequestOwned, Meant
  <1>7. DisksAsConfigured'
    <2>1. DOMAIN vm'.disks = DOMAIN Wanted'.disks
      BY <1>1, <1>2, <1>3
    <2>2. ASSUME NEW i \in DOMAIN vm'.disks, Wanted'.disks[i].device # "none"
          PROVE  /\ vm'.disks[i].kind = Wanted'.disks[i].device
                 /\ vm'.disks[i].bus = Wanted'.disks[i].adapter
                 /\ vm'.disks[i].index = Wanted'.disks[i].index
      <3> DEFINE d == validated.disks[i]
                 w == Wanted.disks[i]
      <3>1. i \in DOMAIN Wanted.disks /\ vm'.disks[i] = Device(d)
        BY <1>2, <1>3
      <3>2. HasFields(w, DiskFields) /\ DiskSettled(d, w) /\ w.device # "none"
        BY <1>1, <1>2, <2>2, <3>1, WantedShape DEF Range
      <3>3. d.device = w.device /\ d.adapter = w.adapter /\ d.index = w.index
        BY <3>2 DEF DiskSettled, HasFields, DiskFields
      <3>4. \/ w.device = "disk" /\ w.adapter \in DiskAdapters
            \/ w.device = "cdrom" /\ w.adapter \in CDRomAdapters
        BY <3>2 DEF DiskSettled
      <3> HIDE DEF d, w
      <3>5. Device(d).kind = w.device /\ Device(d).bus = w.adapter /\ Device(d).index = w.index
        BY <3>3, <3>4 DEF Device, DiskBusType, CdRomBusType
      <3> QED BY <1>1, <3>1, <3>5 DEF w
    <2> QED BY <2>1, <2>2 DEF DisksAsConfigured
  <1> QED BY <1>5, <1>6, <1>7

\* buildV4CategoryRefs completes the request.
LEMMA CategoryRefsStep == ConfigInv /\ buildV4CategoryRefs => ConfigInv'
  <1> SUFFICES ASSUME ConfigInv, buildV4CategoryRefs PROVE ConfigInv'
    OBVIOUS
  <1> DEFINE all == \A c \in AllCategories(validated.categories) : Found("category", Category(c))
  <1>1. /\ pc = "categoryRefs" /\ seen' = seen \cup inv
        /\ UNCHANGED <<spec, env, inv, fd, client, userData, validated, errs>>
        /\ \/ pc' = "idle" /\ vm' = vm
           \/ all /\ vm' = Request(validated) /\ pc' = "submit" /\ calm' = calm
    BY DEF buildV4CategoryRefs, Retry, CallSucceeds, outside, scopeVars
  <1> HIDE DEF all
  <1>2. CASE pc' = "idle" /\ vm' = vm
    <2>1. vm' = None
      BY <1>1, <1>2 DEF ConfigInv, RequestOK
    <2> QED BY <1>1, <1>2, <2>1, RetryStep DEF ConfigInv, WorldOK
  <1>3. CASE all /\ vm' = Request(validated) /\ pc' = "submit" /\ calm' = calm
    <2>1. pc \in InValidation /\ pc' \in InValidation
      BY <1>1, <1>3 DEF InValidation, LateCluster, LateImage, LateSubnets,
         LateProject, LateCategories, LateGPUs, LateDisks
    <2>2. WorldOK /\ CopyOK /\ errs = {} /\ (calm => ErrorsRight)
      BY <1>1, <2>1 DEF ConfigInv, ErrorsOK
    <2>3. WorldOK' /\ ScopeFresh' /\ ErrorsOK'
      BY <1>1, <1>3, <2>1, <2>2 DEF ConfigInv, WorldOK, ScopeFresh, ErrorsOK
    <2>4. RequestOK'
      <3>1. RequestMeant' /\ RequestOwned' /\ DisksAsConfigured'
        BY <1>1, <1>3, <2>2, RequestFromCopy DEF all
      <3>2. vm'.userData = userData'
        BY <1>1, <1>3 DEF Request
      <3> QED BY <1>3, <3>1, <3>2 DEF RequestOK
    <2>5. CopyOK'
      <3>1. Wanted' = Wanted
        BY <1>1, RightKept
      <3>2. CopyRest'
        BY <1>1, <2>2, <3>1 DEF CopyOK, CopyRest
      <3>3. CopyCluster' /\ CopyImage' /\ CopySubnets' /\ CopyProject' /\ CopyDisks'
        BY <1>1, <1>3, <2>2, CopyKept DEF LateCluster, LateImage, LateSubnets, LateProject,
           LateCategories, LateGPUs, LateDisks
      <3> QED BY <3>2, <3>3 DEF CopyOK
    <2>6. calm' => ErrorsRight'
      BY <1>1, <1>3, <2>2, RightKept DEF ErrorsRight, LateCluster, LateImage, LateSubnets,
         LateProject, LateCategories, LateGPUs, LateDisks
    <2> QED BY <1>3, <2>3, <2>4, <2>5, <2>6 DEF ConfigInv
  <1> QED BY <1>1, <1>2, <1>3

\* Prism Central's answer changes nothing of the request.
LEMMA SubmitStep == ConfigInv /\ SubmitVM => ConfigInv'
  <1> SUFFICES ASSUME ConfigInv, SubmitVM PROVE ConfigInv'
    OBVIOUS
  <1>1. /\ pc = "submit"
        /\ UNCHANGED <<spec, env, inv, fd, client, userData, validated, errs, seen>>
        /\ \/ pc' = "idle" /\ vm' = None
           \/ pc' = "done" /\ vm' = vm /\ calm' = calm
    BY DEF SubmitVM, Retry, CallSucceeds, outside, scopeVars
  <1>2. CASE pc' = "idle" /\ vm' = None
    BY <1>1, <1>2, RetryStep DEF ConfigInv, WorldOK
  <1>3. CASE pc' = "done" /\ vm' = vm /\ calm' = calm
    <2>1. pc \in InValidation /\ pc' \in InValidation
      BY <1>1, <1>3 DEF InValidation, LateCluster, LateImage, LateSubnets,
         LateProject, LateCategories, LateGPUs, LateDisks
    <2>2. CopyOK /\ errs = {} /\ (calm => ErrorsRight)
      BY <1>1, <2>1 DEF ConfigInv, ErrorsOK
    <2>3. WorldOK' /\ ScopeFresh' /\ ErrorsOK'
      BY <1>1, <1>3, <2>1, <2>2 DEF ConfigInv, WorldOK, ScopeFresh, ErrorsOK
    <2>4. Wanted' = Wanted
      BY <1>1, RightKept
    <2>5. RequestOK'
      BY <1>1, <1>3, <2>4 DEF ConfigInv, RequestOK, RequestMeant, RequestOwned,
         DisksAsConfigured, Meant
    <2>6. CopyOK'
      <3>1. CopyRest'
        BY <1>1, <2>2, <2>4 DEF CopyOK, CopyRest
      <3>2. CopyCluster' /\ CopyImage' /\ CopySubnets' /\ CopyProject' /\ CopyDisks'
        BY <1>1, <1>3, <2>2, CopyKept DEF LateCluster, LateImage, LateSubnets, LateProject,
           LateCategories, LateGPUs, LateDisks
      <3> QED BY <3>1, <3>2 DEF CopyOK
    <2>7. calm' => ErrorsRight'
      BY <1>1, <1>3, <2>2, RightKept DEF ErrorsRight, LateCluster, LateImage, LateSubnets,
         LateProject, LateCategories, LateGPUs, LateDisks
    <2> QED BY <1>3, <2>3, <2>5, <2>6, <2>7 DEF ConfigInv
  <1> QED BY <1>1, <1>2, <1>3

-----------------------------------------------------------------------------
(* The whole.                                                              *)

\* Nobody changes the copy behind the attempt's back; a change of the world
\* ends the calm.
LEMMA WorldStep == ConfigInv /\ (InventoryChanges \/ EnvironmentChanges) => ConfigInv'
  <1> SUFFICES ASSUME ConfigInv, InventoryChanges \/ EnvironmentChanges PROVE ConfigInv'
    OBVIOUS
  <1>1. /\ pc \notin {"invalid", "submit", "done"} /\ ~calm'
        /\ UNCHANGED <<spec, pc, fd, client, userData, validated, errs, vm, seen>>
    BY DEF InventoryChanges, EnvironmentChanges, scopeVars, attempt
  <1>2. WorldOK'
    <2>1. CASE InventoryChanges
      BY <1>1, <2>1 DEF InventoryChanges, ConfigInv, WorldOK
    <2>2. CASE EnvironmentChanges
      BY <1>1, <2>2 DEF EnvironmentChanges, ConfigInv, WorldOK
    <2> QED BY <2>1, <2>2
  <1>3. ScopeFresh' /\ ErrorsOK'
    BY <1>1 DEF ConfigInv, ScopeFresh, ErrorsOK
  <1>4. vm' = None
    BY <1>1 DEF ConfigInv, RequestOK
  <1>5. RequestOK'
    BY <1>4 DEF RequestOK, RequestMeant, RequestOwned, DisksAsConfigured
  <1>6. ASSUME pc' \in InValidation PROVE CopyOK'
    <2>1. CopyOK
      BY <1>1, <1>6 DEF ConfigInv
    <2>2. Wanted' = Wanted
      BY <1>1 DEF Wanted, WithFailureDomain
    <2>3. CopyRest'
      BY <1>1, <2>1, <2>2 DEF CopyOK, CopyRest
    <2>4. CopyCluster' /\ CopyImage' /\ CopySubnets' /\ CopyProject' /\ CopyDisks'
      BY <1>1, <2>1, CopyKept
    <2> QED BY <2>3, <2>4 DEF CopyOK
  <1> QED BY <1>1, <1>2, <1>3, <1>5, <1>6 DEF ConfigInv

\* A step that changes nothing.
LEMMA StutterStep == ConfigInv /\ UNCHANGED vars => ConfigInv'
  <1> SUFFICES ASSUME ConfigInv, UNCHANGED vars PROVE ConfigInv'
    OBVIOUS
  <1>1. UNCHANGED <<spec, env, inv, pc, fd, client, userData, validated, errs, vm, seen, calm>>
    BY DEF vars, outside, scopeVars, attempt
  <1>2. Wanted' = Wanted
    BY <1>1, RightKept
  <1>3. WorldOK' /\ ScopeFresh' /\ ErrorsOK'
    BY <1>1 DEF ConfigInv, WorldOK, ScopeFresh, ErrorsOK
  <1>4. RequestOK'
    BY <1>1, <1>2 DEF ConfigInv, RequestOK, RequestMeant, RequestOwned, DisksAsConfigured, Meant
  <1>5. ASSUME pc' \in InValidation PROVE CopyOK'
    <2>1. CopyOK
      BY <1>1, <1>5 DEF ConfigInv
    <2>2. CopyRest'
      BY <1>1, <1>2, <2>1 DEF CopyOK, CopyRest
    <2>3. CopyCluster' /\ CopyImage' /\ CopySubnets' /\ CopyProject' /\ CopyDisks'
      BY <1>1, <2>1, CopyKept
    <2> QED BY <2>2, <2>3 DEF CopyOK
  <1>6. calm' /\ pc' \in InValidation => ErrorsRight'
    BY <1>1, RightKept DEF ConfigInv, ErrorsRight
  <1>7. calm' /\ pc' = "invalid" => ~Satisfiable(inv)'
    BY <1>1, RightKept DEF ConfigInv
  <1> QED BY <1>3, <1>4, <1>5, <1>6, <1>7 DEF ConfigInv

\* The copy, the errors, the scope and the request are what they should be at
\* every step of every attempt.
THEOREM ConfigInvHolds == Spec => []ConfigInv
  <1>1. Init => ConfigInv
    <2> SUFFICES ASSUME Init PROVE ConfigInv
      OBVIOUS
    <2>1. pc = "idle" /\ vm = None /\ fd = None /\ pc \notin InValidation
      BY DEF Init, InValidation, LateCluster, LateImage, LateSubnets, LateProject,
         LateCategories, LateGPUs, LateDisks
    <2>2. WorldOK /\ ScopeFresh /\ ErrorsOK
      BY <2>1, InventoryAssumption DEF Init, WorldOK, ScopeFresh, ErrorsOK
    <2>3. RequestOK
      BY <2>1 DEF RequestOK, RequestMeant, RequestOwned, DisksAsConfigured
    <2> QED BY <2>1, <2>2, <2>3 DEF ConfigInv
  <1>2. ConfigInv /\ [Next]_vars => ConfigInv'
    <2> SUFFICES ASSUME ConfigInv, [Next]_vars PROVE ConfigInv'
      OBVIOUS
    <2>1. CASE ReadScope
      BY <2>1, InfrastructureStep, CredentialsStep, UserDataStep DEF ReadScope, Scope
    <2>2. CASE Validation
      BY <2>2, ClusterStep, ImageStep, SubnetsStep, ProjectStep, CategoriesStep, GPUsStep,
         DisksStep DEF Validation
    <2>3. CASE InventoryChanges \/ EnvironmentChanges
      BY <2>3, WorldStep
    <2>4. CASE UNCHANGED vars
      BY <2>4, StutterStep
    <2> QED BY <2>1, <2>2, <2>3, <2>4, BeginStep, CheckedStep, GPUListStep, CategoryRefsStep,
            SubmitStep DEF Next, Step
  <1> QED BY <1>1, <1>2, PTL DEF Spec

\* A VM request names only what the failure domain, or else the providerSpec,
\* referred to during this attempt (buildV4VMFromScope).
THEOREM RequestMeantHolds == Spec => []RequestMeant
  <1>1. ConfigInv => RequestMeant
    BY DEF ConfigInv, RequestOK
  <1> QED BY <1>1, ConfigInvHolds, PTL

\* A VM request bears the ownership category and all configured categories
\* (buildV4CategoryRefs).
THEOREM RequestOwnedHolds == Spec => []RequestOwned
  <1>1. ConfigInv => RequestOwned
    BY DEF ConfigInv, RequestOK
  <1> QED BY <1>1, ConfigInvHolds, PTL

\* A VM request has every data disk on the bus and at the index configured.
THEOREM DisksAsConfiguredHolds == Spec => []DisksAsConfigured
  <1>1. ConfigInv => DisksAsConfigured
    BY DEF ConfigInv, RequestOK
  <1> QED BY <1>1, ConfigInvHolds, PTL

\* The verdict of validateVMConfig in a calm attempt is right in both
\* directions.
THEOREM VerdictRightHolds == Spec => []VerdictRight
  <1>1. ConfigInv => VerdictRight
    <2> SUFFICES ASSUME ConfigInv, calm, vm # None PROVE Satisfiable(inv)
      BY DEF ConfigInv, VerdictRight
    <2>1. pc \in LateDisks /\ errs = {}
      BY DEF ConfigInv, RequestOK, ErrorsOK, LateDisks
    <2> QED BY <2>1, Verdict
  <1> QED BY <1>1, ConfigInvHolds, PTL

\* The request of a calm attempt goes to the endpoint, with the credentials,
\* the user data and the failure domain of now (newMachineScope).
THEOREM ScopeCurrentHolds == Spec => []ScopeCurrent
  <1>1. ConfigInv => ScopeCurrent
    <2> SUFFICES ASSUME ConfigInv, calm, vm # None PROVE ScopeCurrent
      BY DEF ScopeCurrent
    <2>1. pc \in InValidation /\ vm.userData = userData
      BY DEF ConfigInv, RequestOK, InValidation, LateCluster, LateImage, LateSubnets,
         LateProject, LateCategories, LateGPUs, LateDisks
    <2> QED BY <2>1 DEF ConfigInv, ScopeFresh, ScopeCurrent
  <1> QED BY <1>1, ConfigInvHolds, PTL
=============================================================================
