--------------------------- MODULE LeaderOverlap ---------------------------
(***************************************************************************)
(* Two replicas of the manager around a change of leader.  Only the holder *)
(* of the lease takes Machines from its queue, but a replica that loses    *)
(* the lease may be in the middle of a reconcile, and nothing in the       *)
(* actuator looks at the lease again: until the process ends, its calls    *)
(* interleave with those of the new leader.  Each replica is a             *)
(* MachineController with a worker and an informer cache of its own; Prism *)
(* Central, the Machine and the Node are shared.                           *)
(***************************************************************************)
EXTENDS Integers, FiniteSets

CONSTANTS Uuids, None, FaultKinds, MaxFaults, HookChoices,
          StaleReplicas,  \* the replicas whose informer cache may lag
          MaxHandovers    \* bound on the number of changes of leader

ASSUME HandoverAssumption == MaxHandovers \in Nat

VARIABLES
    vmState, tasks, faults, misreads, machine, node, config,  \* shared
    cacheA, pcA, mA, baseA, vmA, opA, errA,         \* replica "a"
    cacheB, pcB, mB, baseB, vmB, opB, errB,         \* replica "b"
    leader,                                         \* the replica that holds the lease
    handovers                                       \* changes of leader so far

\* MachineController, with the theorems about a worker that is not alone.
A == INSTANCE MachineSafetyProofs
     WITH StaleReads <- "a" \in StaleReplicas, cache <- cacheA,
          pc <- pcA, m <- mA, base <- baseA, vm <- vmA, op <- opA, err <- errA

B == INSTANCE MachineSafetyProofs
     WITH StaleReads <- "b" \in StaleReplicas, cache <- cacheB,
          pc <- pcB, m <- mB, base <- baseB, vm <- vmB, op <- opB, err <- errB

ASSUME ConstantsAssumption ==
    /\ None \notin Uuids
    /\ FaultKinds \subseteq A!AllFaultKinds /\ MaxFaults \in Nat
    /\ HookChoices \subseteq BOOLEAN /\ StaleReplicas \subseteq {"a", "b"}

shared  == <<vmState, tasks, faults, misreads, machine, node, config>>
workerA == <<pcA, mA, baseA, vmA, opA, errA>>
workerB == <<pcB, mB, baseB, vmB, opB, errB>>
caches  == <<cacheA, cacheB>>
lease   == <<leader, handovers>>

overlapVars == <<shared, workerA, workerB, caches, lease>>

Init == A!Init /\ B!Init /\ leader = "a" /\ handovers = 0

\* Each replica has its own watch on the Machine.
CachesFollow == A!CacheFollows /\ B!CacheFollows

\* A reconcile that has begun goes on without the lease; a new one does not begin.
ReplicaA ==
    /\ pcA = "idle" => leader = "a"
    /\ A!Worker \/ A!Crash
    /\ CachesFollow
    /\ UNCHANGED <<workerB, lease>>

ReplicaB ==
    /\ pcB = "idle" => leader = "b"
    /\ B!Worker \/ B!Crash
    /\ CachesFollow
    /\ UNCHANGED <<workerA, lease>>

Others ==
    /\ A!KubeActor \/ (A!PCNext /\ UNCHANGED <<machine, node, config, workerA>>)
    /\ CachesFollow
    /\ UNCHANGED <<workerB, lease>>

\* The cache of one replica catches up.
Sync ==
    /\ \/ A!CacheSync /\ UNCHANGED <<cacheB, workerB>>
       \/ B!CacheSync /\ UNCHANGED <<cacheA, workerA>>
    /\ UNCHANGED lease

\* The lease expires and the other replica, a process that has just started
\* or waited for it all along, acquires it.
Handover ==
    /\ handovers < MaxHandovers
    /\ handovers' = handovers + 1
    /\ \/ leader = "a" /\ leader' = "b" /\ pcB = "idle"
       \/ leader = "b" /\ leader' = "a" /\ pcA = "idle"
    /\ UNCHANGED <<shared, workerA, workerB, caches>>

Next == ReplicaA \/ ReplicaB \/ Others \/ Sync \/ Handover

Spec == Init /\ [][Next]_overlapVars

-----------------------------------------------------------------------------

\* Also with two replicas at work, and as long as no error is misread, the
\* Machine leaves the API server only when the VM in its VmUUID is gone:
\* removeFinalizer is an Update that is refused if the other replica has
\* recorded a VM meanwhile.
RecordedGone == ~machine.exists /\ machine.vmUUID \in A!Alive => misreads > 0

\* Every change of leader and every failure costs at most one VM that exists
\* beside the first: a worker requests a VM only after the lookups by name
\* of Exists and createVM found none, so it adds to the VMs only if another
\* request was out of sight or a lookup was misread.
ExtraVMsBounded == Cardinality(A!Requested) <= 1 + handovers + faults

-----------------------------------------------------------------------------
(* The inductive invariants of the proofs.                                 *)

\* What holds of the Machine and of each replica's copies.
OverlapInv ==
    /\ A!TypeOK /\ A!TasksOK /\ A!RecordOK
    /\ A!FinalizerOK /\ A!HeldOK /\ A!GoneUnlessMisread(1)
    /\ B!TypeOK /\ B!FinalizerOK /\ B!HeldOK /\ B!GoneUnlessMisread(1)

\* VMs under creation that neither replica waits for.
Unwatched == A!Creating \ (A!Watched \cup B!Watched)

AboutToSubmit(label) == IF label = "submit" THEN 1 ELSE 0

\* Two workers take at least one change of leader, a VM under creation that
\* nobody waits for takes a failure, a VM that exists is overlooked by a
\* failure too, and a worker about to request a VM is counted before it does.
CountInv ==
    /\ handovers \in Nat /\ leader \in {"a", "b"}
    /\ handovers = 0 => leader = "a" /\ pcB = "idle"
    /\ IsFiniteSet(A!Requested)
    /\ Cardinality(Unwatched) <= faults
    /\ Cardinality(A!Requested) + AboutToSubmit(pcA) + AboutToSubmit(pcB) <= 1 + handovers + faults
=============================================================================
