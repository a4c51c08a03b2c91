-------------------------- MODULE MachineSetProofs --------------------------
(* The MachineSet controller loses no wake-up and no edit, for any provider *)
(* specs, any number of edits and failures and any lag of the cache.        *)
EXTENDS MachineSet, TLAPS

\* The wrapped product is the product as long as that fits.
LEMMA ProductFits ==
  ASSUME NEW a \in Nat, NEW b \in Nat, a * b < Limit
  PROVE  Product(a, b) = a * b
  <1> DEFINE x == a * b
  <1>1. x \in Nat /\ x < Limit
    OBVIOUS
  <1> HIDE DEF x
  <1>2. ((x + Limit) % (2 * Limit)) - Limit = x
    BY <1>1, LimitAssumption
  <1> QED BY <1>2 DEF x, Product

\* The memory is published in units of 2^20 bytes.
LEMMA MibUnits ==
  ASSUME NEW bytes \in Nat
  PROVE  GetMibValueOfQuantity(bytes) = bytes \div 2^20
  <1>1. 1024 * 1024 = 2^20
    OBVIOUS
  <1> QED BY <1>1 DEF GetMibValueOfQuantity

\* What reconcile does to a MachineSet, field by field.
LEMMA ReconcileFields ==
  ASSUME NEW rec, IsMachineSet(rec)
  PROVE  IF rec.spec.decodes
         THEN /\ reconcile(rec).cpu = Product(rec.spec.vcpus, rec.spec.sockets)
              /\ reconcile(rec).mem = GetMibValueOfQuantity(rec.spec.memory)
         ELSE reconcile(rec) = rec
  BY DEF IsMachineSet, Fields, reconcile

\* The patch touches the two annotations only.
LEMMA PatchedFields ==
  ASSUME IsMachineSet(ms)
  PROVE  /\ IsMachineSet(Patched(ms))
         /\ Patched(ms).spec = ms.spec /\ Patched(ms).other = ms.other
         /\ Patched(ms).exists = ms.exists /\ Patched(ms).deleting = ms.deleting
         /\ Patched(ms).cpu = IF local.cpu # base.cpu THEN local.cpu ELSE ms.cpu
         /\ Patched(ms).mem = IF local.mem # base.mem THEN local.mem ELSE ms.mem
  BY DEF IsMachineSet, Fields, Patched

\* A patch computed from the very object that finds nothing to change means
\* that the annotations are those of the spec.
LEMMA NothingToPatch ==
  ASSUME IsMachineSet(ms), base = ms, local = reconcile(base), Patched(ms) = ms,
         ms.spec.decodes
  PROVE  Annotated
  <1>1. ms.cpu = reconcile(ms).cpu /\ ms.mem = reconcile(ms).mem
    BY PatchedFields
  <1>2. /\ ms.cpu = Product(ms.spec.vcpus, ms.spec.sockets)
        /\ ms.mem = GetMibValueOfQuantity(ms.spec.memory)
    BY <1>1, ReconcileFields
  <1>3. ms.spec.vcpus \in Nat /\ ms.spec.sockets \in Nat /\ ms.spec.memory \in Nat
    BY SpecsAssumption DEF IsMachineSet
  <1> QED BY <1>2, <1>3, ProductFits, MibUnits DEF Annotated

-----------------------------------------------------------------------------

\* A Reconcile that finds nothing to do has looked at the current object.
LEMMA ReconcileStep == SetInv /\ Reconcile => SetInv'
  <1> SUFFICES ASSUME SetInv, Reconcile PROVE SetInv'
    OBVIOUS
  <1>1. pc = "idle" /\ queued /\ UNCHANGED <<ms, cache, events, edits>>
    BY DEF Reconcile, objects
  <1>2. CASE base' = cache /\ local' = reconcile(cache) /\ pc' = "patch" /\ queued' = FALSE
    <2>1. local' = reconcile(base)'
      BY <1>2 DEF reconcile
    <2> QED BY <1>1, <1>2, <2>1 DEF SetInv, AtRest, IsMachineSet
  <1>3. CASE (~cache.exists \/ cache.deleting) /\ UNCHANGED <<pc, base, local>>
    BY <1>1, <1>3 DEF SetInv, AtRest, IsMachineSet
  <1>4. CASE UNCHANGED <<queued, pc, base, local>>
    BY <1>1, <1>4 DEF SetInv, AtRest, IsMachineSet
  <1> QED BY <1>2, <1>3, <1>4 DEF Reconcile

\* A patch that fails puts the MachineSet back into the queue, one that
\* changes the object causes an event, and one that does neither had nothing
\* to change.
LEMMA PatchStep == SetInv /\ Patch => SetInv'
  <1> SUFFICES ASSUME SetInv, Patch PROVE SetInv'
    OBVIOUS
  <1>1. pc = "patch" /\ pc' = "idle" /\ UNCHANGED <<cache, base, local, edits>>
    BY DEF Patch
  <1>2. CASE queued' = TRUE /\ UNCHANGED <<ms, events>>
    BY <1>1, <1>2 DEF SetInv, AtRest, IsMachineSet
  <1>3. CASE ms' = Patched(ms) /\ events' = (events \/ ms' # ms) /\ queued' = queued
    <2>1. IsMachineSet(ms)' /\ IsMachineSet(cache)' /\ edits' \in Nat
      BY <1>1, <1>3, PatchedFields DEF SetInv, IsMachineSet
    <2>2. events' \/ cache' = ms'
      BY <1>1, <1>3 DEF SetInv
    <2>3. AtRest'
      <3> SUFFICES ASSUME ~queued', ~events', ms'.spec.decodes PROVE Annotated'
        BY DEF AtRest
      <3>1. ms' = ms /\ cache = ms /\ base = cache /\ local = reconcile(base)
        BY <1>1, <1>3 DEF SetInv
      <3>2. Annotated
        BY <1>3, <3>1, NothingToPatch DEF SetInv
      <3> QED BY <3>1, <3>2 DEF Annotated
    <2> QED BY <1>1, <2>1, <2>2, <2>3 DEF SetInv
  <1> QED BY <1>2, <1>3 DEF Patch

\* The informer wakes the controller; whoever edits the object causes an event.
LEMMA OthersStep == SetInv /\ (Sync \/ UserEdits) => SetInv'
  <1> SUFFICES ASSUME SetInv, Sync \/ UserEdits PROVE SetInv'
    OBVIOUS
  <1>1. CASE Sync
    BY <1>1 DEF Sync, SetInv, AtRest, IsMachineSet, reconcile
  <1>2. CASE UserEdits
    <2>1. events' = TRUE /\ edits' = edits + 1 /\ UNCHANGED <<cache, queued, pc, base, local>>
      BY <1>2 DEF UserEdits
    <2>2. IsMachineSet(ms)'
      BY <1>2 DEF UserEdits, SetInv, IsMachineSet, Fields
    <2> QED BY <2>1, <2>2 DEF SetInv, AtRest, IsMachineSet, reconcile
  <1> QED BY <1>1, <1>2

\* The cache, the patch in hand and the queue are consistent in every
\* behaviour.
THEOREM SetInvHolds == Spec => []SetInv
  <1>1. Init => SetInv
    <2> SUFFICES ASSUME Init PROVE SetInv
      OBVIOUS
    <2>1. PICK s \in Specs : ms = New(s)
      BY DEF Init
    <2>2. IsMachineSet(ms)
      BY <2>1 DEF New, IsMachineSet, Fields
    <2> QED BY <2>2 DEF Init, SetInv, AtRest
  <1>2. SetInv /\ [Next]_vars => SetInv'
    <2> SUFFICES ASSUME SetInv, [Next]_vars PROVE SetInv'
      OBVIOUS
    <2>1. CASE UNCHANGED vars
      BY <2>1 DEF vars, SetInv, AtRest, Annotated, IsMachineSet, reconcile
    <2> QED BY <2>1, ReconcileStep, PatchStep, OthersStep DEF Next
  <1> QED BY <1>1, <1>2, PTL DEF Spec

\* No wake-up is lost: a controller at rest leaves right annotations.
THEOREM AtRestHolds == Spec => []AtRest
  <1>1. SetInv => AtRest
    BY DEF SetInv
  <1> QED BY <1>1, SetInvHolds, PTL

\* The merge patch never undoes what a user wrote between Get and Patch.
THEOREM ForeignKeptHolds == Spec => ForeignKept
  <1> DEFINE Kept == edits' = edits =>
               ms'.spec = ms.spec /\ ms'.other = ms.other /\ ms'.deleting = ms.deleting
  <1>1. SetInv /\ [Next]_vars => [Kept]_vars
    <2> SUFFICES ASSUME SetInv, [Next]_vars PROVE [Kept]_vars
      OBVIOUS
    <2>1. CASE Reconcile \/ Sync \/ UNCHANGED vars
      BY <2>1 DEF Reconcile, Sync, objects, vars
    <2>2. CASE Patch
      BY <2>2, PatchedFields DEF Patch, SetInv
    <2>3. CASE UserEdits
      BY <2>3 DEF UserEdits, SetInv
    <2> QED BY <2>1, <2>2, <2>3 DEF Next
  <1> QED BY <1>1, SetInvHolds, PTL DEF Spec, ForeignKept
=============================================================================
