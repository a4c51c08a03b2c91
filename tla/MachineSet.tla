----------------------------- MODULE MachineSet -----------------------------
(***************************************************************************)
(* The MachineSet controller: it publishes the CPU count and the memory of *)
(* a MachineSet's template as annotations, for the cluster autoscaler.     *)
(* Reconcile reads the MachineSet from the informer cache, computes the    *)
(* annotations and sends a merge patch; users edit the object, and the     *)
(* cache lags behind, in between.                                          *)
(***************************************************************************)
EXTENDS Integers

CONSTANTS
    Specs,      \* the provider specs a user may write into the template
    None,       \* an absent annotation
    Limit,      \* the first integer that VCPUsPerSocket and VCPUSockets cannot hold:
                \* 2^31, as they are int32
    MaxEdits,   \* bound on what users do
    MaxFails    \* bound on API failures

\* decodes tells whether the raw provider spec unmarshals; memory is in bytes.
ASSUME SpecsAssumption ==
    \A s \in Specs : s.decodes \in BOOLEAN /\ s.vcpus \in Nat /\ s.sockets \in Nat /\ s.memory \in Nat
ASSUME LimitAssumption == Limit \in Nat \ {0}
ASSUME BoundsAssumption == MaxEdits \in Nat /\ MaxFails \in Nat

VARIABLES
    ms,      \* the MachineSet in the API server
    cache,   \* the MachineSet in the informer cache
    events,  \* has the object changed since the cache was brought up to date
    queued,  \* is the MachineSet in the work queue
    pc,      \* where Reconcile is
    base,    \* the copy the merge patch is computed from
    local,   \* the MachineSet with its new annotations
    edits, fails

objects == <<ms, cache, events>>
vars == <<ms, cache, events, queued, pc, base, local, edits, fails>>

\* other stands for the annotations and labels that belong to somebody else.
New(s) == [exists |-> TRUE, deleting |-> FALSE, spec |-> s, cpu |-> None, mem |-> None, other |-> 0]

Init ==
    /\ ms \in {New(s) : s \in Specs}
    /\ cache = ms /\ events = FALSE
    /\ queued = TRUE
    /\ pc = "idle" /\ base = ms /\ local = ms
    /\ edits = 0 /\ fails = 0

-----------------------------------------------------------------------------

\* The product of two signed integers from -Limit to Limit - 1: it wraps.
Product(a, b) == ((a * b + Limit) % (2 * Limit)) - Limit

GetMibValueOfQuantity(bytes) == bytes \div (1024 * 1024)

\* reconcile: a provider spec that does not decode leaves the annotations.
reconcile(rec) ==
    IF ~rec.spec.decodes THEN rec
    ELSE [rec EXCEPT !.cpu = Product(rec.spec.vcpus, rec.spec.sockets),
                     !.mem = GetMibValueOfQuantity(rec.spec.memory)]

\* Reconcile up to the patch.  A MachineSet that is gone or being deleted is
\* left alone; a failed Get puts the request back into the queue.
Reconcile ==
    /\ pc = "idle" /\ queued
    /\ \/ /\ cache.exists /\ ~cache.deleting
          /\ base' = cache /\ local' = reconcile(cache)
          /\ pc' = "patch" /\ queued' = FALSE
          /\ UNCHANGED fails
       \/ /\ ~cache.exists \/ cache.deleting
          /\ queued' = FALSE
          /\ UNCHANGED <<pc, base, local, fails>>
       \/ /\ fails < MaxFails /\ fails' = fails + 1
          /\ UNCHANGED <<queued, pc, base, local>>
    /\ UNCHANGED <<objects, edits>>

\* Mutant: the whole object is written back.
PatchedByUpdate(server) == local

\* The merge patch writes the annotations that reconcile changed and no more.
Patched(server) ==
    [server EXCEPT !.cpu = IF local.cpu # base.cpu THEN local.cpu ELSE @,
                   !.mem = IF local.mem # base.mem THEN local.mem ELSE @]

\* Mutant: the error of the patch is dropped.
PatchErrorDropped ==
    /\ pc = "patch" /\ pc' = "idle"
    /\ \/ ms.exists /\ ms' = Patched(ms) /\ events' = (events \/ ms' # ms) /\ UNCHANGED fails
       \/ ~ms.exists /\ UNCHANGED <<ms, events, fails>>
       \/ fails < MaxFails /\ fails' = fails + 1 /\ UNCHANGED <<ms, events>>
    /\ UNCHANGED <<queued, cache, base, local, edits>>

\* The patch happens even if reconcile failed.  Its own error requeues; an
\* invalid configuration is not retried.
Patch ==
    /\ pc = "patch" /\ pc' = "idle"
    /\ \/ /\ ms.exists
          /\ ms' = Patched(ms)
          /\ events' = (events \/ ms' # ms)
          /\ UNCHANGED <<queued, fails>>
       \/ /\ ~ms.exists
          /\ queued' = TRUE
          /\ UNCHANGED <<ms, events, fails>>
       \/ /\ fails < MaxFails /\ fails' = fails + 1
          /\ queued' = TRUE
          /\ UNCHANGED <<ms, events>>
    /\ UNCHANGED <<cache, base, local, edits>>

-----------------------------------------------------------------------------

\* The informer delivers the current object and its watch event.
Sync ==
    /\ events /\ events' = FALSE
    /\ cache' = ms /\ queued' = TRUE
    /\ UNCHANGED <<ms, pc, base, local, edits, fails>>

\* Users change the template, other annotations or the controller's own;
\* they delete the MachineSet, which stays while its Machines do.
UserEdits ==
    /\ edits < MaxEdits /\ edits' = edits + 1
    /\ ms.exists
    /\ \/ \E s \in Specs : ms' = [ms EXCEPT !.spec = s]
       \/ ms' = [ms EXCEPT !.other = @ + 1]
       \/ ms' = [ms EXCEPT !.cpu = None]
       \/ ms' = [ms EXCEPT !.deleting = TRUE]
       \/ ms.deleting /\ ms' = [ms EXCEPT !.exists = FALSE]
    /\ events' = TRUE
    /\ UNCHANGED <<cache, queued, pc, base, local, fails>>

Next == Reconcile \/ Patch \/ Sync \/ UserEdits

\* The work queue hands out what it holds and the informer keeps up.
Spec == Init /\ [][Next]_vars /\ WF_vars(Reconcile) /\ WF_vars(Patch) /\ WF_vars(Sync)

-----------------------------------------------------------------------------

\* The CPU count (if it fits the integers) and the memory of the template.
Annotated ==
    /\ ms.spec.vcpus * ms.spec.sockets < Limit =>
          ms.cpu = ms.spec.vcpus * ms.spec.sockets
    /\ ms.mem = ms.spec.memory \div 2^20

\* No wake-up is lost: whenever the controller has nothing in its queue, in
\* hand or in the watch, the MachineSet bears the annotations of its spec,
\* whatever Reconcile read from the lagging cache, whoever changed the object
\* before the patch arrived and whichever call failed.
AtRest ==
    (pc = "idle" /\ ~queued /\ ~events) =>
        (ms.exists /\ ~ms.deleting /\ ms.spec.decodes => Annotated)

\* Once users are done, a MachineSet with a provider spec that decodes bears
\* the annotations of that spec, whatever Reconcile read from the lagging
\* cache, whichever call failed and whoever removed an annotation meanwhile.
AnnotationsSettle ==
    <>[](ms.exists /\ ~ms.deleting /\ ms.spec.decodes => Annotated)

\* Reconcile never undoes what a user wrote between its Get and its Patch.
ForeignKept ==
    [][edits' = edits =>
          ms'.spec = ms.spec /\ ms'.other = ms.other /\ ms'.deleting = ms.deleting]_vars

\* A MachineSet of the model: its fields and a spec a user may write.
Fields == {"exists", "deleting", "spec", "cpu", "mem", "other"}
IsMachineSet(rec) == rec = [f \in Fields |-> rec[f]] /\ rec.spec \in Specs

\* The inductive invariant of the proofs: the cache is behind only while an
\* event is under way, and the patch in hand was computed from the cache
\* unless Reconcile will run again.
SetInv ==
    /\ IsMachineSet(ms) /\ IsMachineSet(cache) /\ edits \in Nat
    /\ events \/ cache = ms
    /\ pc \in {"idle", "patch"}
    /\ pc = "patch" => local = reconcile(base) /\ (queued \/ base = cache)
    /\ AtRest
=============================================================================
