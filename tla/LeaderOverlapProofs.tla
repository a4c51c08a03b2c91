------------------------ MODULE LeaderOverlapProofs ------------------------
(* Two replicas at work, for any number of changes of leader and failures: *)
(* the Machine outlives the VM on record, and the number of VMs is         *)
(* bounded.  What a worker's step does is taken from the theorems about    *)
(* one worker among others, once for each replica.                         *)
EXTENDS LeaderOverlap, FiniteSetTheorems, TLAPS

-----------------------------------------------------------------------------
(* The two replicas see the same system.                                   *)

\* The assumptions of the two instances.
LEMMA Assumptions ==
  /\ None \notin Uuids
  /\ FaultKinds \subseteq A!AllFaultKinds /\ FaultKinds \subseteq B!AllFaultKinds /\ MaxFaults \in Nat
  /\ HookChoices \subseteq BOOLEAN
  /\ ("a" \in StaleReplicas) \in BOOLEAN /\ ("b" \in StaleReplicas) \in BOOLEAN
  BY ConstantsAssumption DEF A!AllFaultKinds, B!AllFaultKinds

\* What is shared has the same type for both.
LEMMA SameTypes ==
  /\ (A!PCTypeOK <=> B!PCTypeOK) /\ (A!PCTypeOK' <=> B!PCTypeOK')
  /\ A!Machine = B!Machine /\ A!Node = B!Node /\ A!Configs = B!Configs
  <1>1. (A!PCTypeOK <=> B!PCTypeOK) /\ (A!PCTypeOK' <=> B!PCTypeOK')
    BY DEF A!PCTypeOK, B!PCTypeOK, A!VMStates, B!VMStates, A!Task, B!Task
  <1>2. A!Phases = B!Phases /\ A!ReadyStatus = B!ReadyStatus
    BY Zenon DEF A!Phases, B!Phases, A!ReadyStatus, B!ReadyStatus
  <1>3. A!Machine = B!Machine
    BY <1>2, Zenon DEF A!Machine, B!Machine
  <1> QED BY <1>1, <1>3 DEF A!Node, B!Node, A!Configs, B!Configs

\* A replica that does not move keeps its types if the shared state does, and
\* its cache stays or catches up.
LEMMA KeepsTypes ==
  /\ A!TypeOK' /\ B!TypeOK /\ UNCHANGED workerB /\ cacheB' \in {cacheB, machine'} => B!TypeOK'
  /\ B!TypeOK' /\ A!TypeOK /\ UNCHANGED workerA /\ cacheA' \in {cacheA, machine'} => A!TypeOK'
  <1>1. ASSUME A!TypeOK', B!TypeOK, UNCHANGED workerB, cacheB' \in {cacheB, machine'} PROVE B!TypeOK'
    <2>1. B!LocalTypeOK'
      BY <1>1 DEF B!TypeOK, B!LocalTypeOK, workerB, B!ActuatorLabels, B!ControllerLabels, B!VMLabels
    <2>2. B!PCTypeOK' /\ B!ObjectTypeOK'
      BY <1>1, SameTypes DEF A!TypeOK, B!TypeOK, A!ObjectTypeOK, B!ObjectTypeOK
    <2> QED BY <2>1, <2>2 DEF B!TypeOK
  <1>2. ASSUME B!TypeOK', A!TypeOK, UNCHANGED workerA, cacheA' \in {cacheA, machine'} PROVE A!TypeOK'
    <2>1. A!LocalTypeOK'
      BY <1>2 DEF A!TypeOK, A!LocalTypeOK, workerA, A!ActuatorLabels, A!ControllerLabels, A!VMLabels
    <2>2. A!PCTypeOK' /\ A!ObjectTypeOK'
      BY <1>2, SameTypes DEF A!TypeOK, B!TypeOK, A!ObjectTypeOK, B!ObjectTypeOK
    <2> QED BY <2>1, <2>2 DEF A!TypeOK
  <1> QED BY <1>1, <1>2

\* So have the facts about the VMs and about the Machine.
LEMMA SameFacts ==
  /\ A!Alive = B!Alive /\ A!Creating = B!Creating /\ A!Creating' = B!Creating'
  /\ A!Requested = B!Requested /\ A!Requested' = B!Requested'
  /\ (A!TasksOK <=> B!TasksOK) /\ (A!TasksOK' <=> B!TasksOK')
  /\ (A!RecordOK <=> B!RecordOK) /\ (A!RecordOK' <=> B!RecordOK')
  /\ A!VMsKept <=> B!VMsKept
  /\ A!MachineKept <=> B!MachineKept
  <1>1. A!Alive = B!Alive /\ A!Creating = B!Creating
    BY DEF A!Alive, B!Alive, A!Creating, B!Creating
  <1>2. A!Alive' = B!Alive' /\ A!Creating' = B!Creating'
    BY DEF A!Alive, B!Alive, A!Creating, B!Creating
  <1>3. (A!RecordOK <=> B!RecordOK) /\ (A!RecordOK' <=> B!RecordOK')
    BY DEF A!RecordOK, B!RecordOK, A!Born, B!Born
  <1>4. A!VMsKept <=> B!VMsKept
    BY DEF A!VMsKept, B!VMsKept, A!Born, B!Born
  <1>5. A!MachineKept <=> B!MachineKept
    BY DEF A!MachineKept, B!MachineKept
  <1> QED BY <1>1, <1>2, <1>3, <1>4, <1>5 DEF A!TasksOK, B!TasksOK, A!Requested, B!Requested

-----------------------------------------------------------------------------
(* The Machine and the VM on record.                                       *)

\* A step of replica "a" keeps the invariant: its own part by what a worker
\* guarantees, the other's by what a worker relies on.
LEMMA ReplicaAKeeps == OverlapInv /\ ReplicaA => OverlapInv'
  <1> SUFFICES ASSUME OverlapInv, ReplicaA PROVE OverlapInv'
    OBVIOUS
  <1>1. /\ A!Worker \/ A!Crash
        /\ UNCHANGED workerB /\ A!CacheFollows /\ cacheB' \in {cacheB, machine'}
    BY DEF ReplicaA, CachesFollow, B!CacheFollows
  <1>2. /\ A!TypeOK' /\ A!TasksOK' /\ A!RecordOK' /\ A!FinalizerOK' /\ A!HeldOK'
        /\ A!GoneUnlessMisread(1)'
        /\ A!VMsKept /\ A!MachineKept /\ misreads' >= misreads
    BY <1>1, Assumptions, A!WorkerGuarantee DEF OverlapInv
  <1>3. UNCHANGED B!locals /\ B!VMsKept /\ B!MachineKept /\ B!RecordOK'
    BY <1>1, <1>2, SameFacts DEF B!locals, workerB
  <1>4. /\ (machine.exists /\ ~machine.finalizer => machine.vmUUID = None)'
        /\ (misreads = 0 /\ ~machine.exists /\ machine.vmUUID # None => vmState[machine.vmUUID] = "gone")'
    BY <1>2 DEF A!FinalizerOK, A!GoneUnlessMisread
  <1>5. B!TypeOK'
    BY <1>1, <1>2, KeepsTypes DEF OverlapInv
  <1>6. B!HeldOK' /\ B!FinalizerOK' /\ B!GoneUnlessMisread(1)'
    BY <1>1, <1>2, <1>3, <1>4, <1>5, Assumptions, B!WorkerRelies DEF OverlapInv
  <1> QED BY <1>2, <1>5, <1>6 DEF OverlapInv

\* The same for replica "b".
LEMMA ReplicaBKeeps == OverlapInv /\ ReplicaB => OverlapInv'
  <1> SUFFICES ASSUME OverlapInv, ReplicaB PROVE OverlapInv'
    OBVIOUS
  <1>1. /\ B!Worker \/ B!Crash
        /\ UNCHANGED workerA /\ B!CacheFollows /\ cacheA' \in {cacheA, machine'}
    BY DEF ReplicaB, CachesFollow, A!CacheFollows
  <1>2. B!TasksOK /\ B!RecordOK
    BY SameFacts DEF OverlapInv
  <1>3. /\ B!TypeOK' /\ B!TasksOK' /\ B!RecordOK' /\ B!FinalizerOK' /\ B!HeldOK'
        /\ B!GoneUnlessMisread(1)'
        /\ B!VMsKept /\ B!MachineKept /\ misreads' >= misreads
    BY <1>1, <1>2, Assumptions, B!WorkerGuarantee DEF OverlapInv
  <1>4. /\ UNCHANGED A!locals /\ A!VMsKept /\ A!MachineKept
        /\ A!TasksOK' /\ A!RecordOK'
    BY <1>1, <1>3, SameFacts DEF A!locals, workerA
  <1>5. /\ (machine.exists /\ ~machine.finalizer => machine.vmUUID = None)'
        /\ (misreads = 0 /\ ~machine.exists /\ machine.vmUUID # None => vmState[machine.vmUUID] = "gone")'
    BY <1>3 DEF B!FinalizerOK, B!GoneUnlessMisread
  <1>6. A!TypeOK'
    BY <1>1, <1>3, KeepsTypes DEF OverlapInv
  <1>7. A!HeldOK' /\ A!FinalizerOK' /\ A!GoneUnlessMisread(1)'
    BY <1>1, <1>3, <1>4, <1>5, <1>6, Assumptions, A!WorkerRelies DEF OverlapInv
  <1> QED BY <1>3, <1>4, <1>6, <1>7 DEF OverlapInv

\* Users, the other controllers and Prism Central disturb neither replica.
LEMMA OthersKeep == OverlapInv /\ Others => OverlapInv'
  <1> SUFFICES ASSUME OverlapInv, Others PROVE OverlapInv'
    OBVIOUS
  <1>1. /\ A!KubeActor \/ (A!PCNext /\ UNCHANGED <<A!kubeVars, A!locals>>)
        /\ A!CacheFollows /\ UNCHANGED workerB
        /\ cacheA' \in {cacheA, machine'} /\ cacheB' \in {cacheB, machine'}
    BY DEF Others, CachesFollow, A!kubeVars, A!locals, A!CacheFollows, B!CacheFollows, workerA
  <1>2. /\ A!TypeOK' /\ A!TasksOK' /\ A!RecordOK' /\ A!FinalizerOK' /\ A!GoneUnlessMisread(1)'
        /\ A!VMsKept /\ A!MachineKept /\ misreads' >= misreads /\ UNCHANGED A!locals
    BY <1>1, Assumptions, A!OthersGuarantee DEF OverlapInv
  <1>3. UNCHANGED B!locals /\ B!VMsKept /\ B!MachineKept /\ B!RecordOK'
    BY <1>1, <1>2, SameFacts DEF B!locals, workerB
  <1>4. /\ (machine.exists /\ ~machine.finalizer => machine.vmUUID = None)'
        /\ (misreads = 0 /\ ~machine.exists /\ machine.vmUUID # None => vmState[machine.vmUUID] = "gone")'
    BY <1>2 DEF A!FinalizerOK, A!GoneUnlessMisread
  <1>5. A!HeldOK'
    BY <1>1, <1>2, <1>4, Assumptions, A!WorkerRelies DEF OverlapInv
  <1>6. B!TypeOK'
    BY <1>1, <1>2, KeepsTypes DEF OverlapInv
  <1>7. B!HeldOK' /\ B!FinalizerOK' /\ B!GoneUnlessMisread(1)'
    BY <1>1, <1>2, <1>3, <1>4, <1>6, Assumptions, B!WorkerRelies DEF OverlapInv
  <1> QED BY <1>2, <1>5, <1>6, <1>7 DEF OverlapInv

\* A change of leader and a stuttering step touch none of it, and a cache
\* that catches up holds what is on record.
LEMMA SyncKeeps ==
  ASSUME OverlapInv, UNCHANGED <<shared, workerA, workerB>>,
         cacheA' \in {cacheA, machine'}, cacheB' \in {cacheB, machine'}
  PROVE  OverlapInv'
  <1>1. UNCHANGED shared /\ UNCHANGED workerA /\ UNCHANGED workerB
    OBVIOUS
  <1>2. A!TypeOK'
    <2>1. A!PCTypeOK' /\ A!ObjectTypeOK'
      BY <1>1 DEF OverlapInv, A!TypeOK, A!PCTypeOK, A!ObjectTypeOK, shared
    <2>2. A!LocalTypeOK'
      BY <1>1 DEF OverlapInv, A!TypeOK, A!LocalTypeOK, workerA, A!ActuatorLabels, A!ControllerLabels, A!VMLabels
    <2> QED BY <2>1, <2>2 DEF A!TypeOK
  <1>3. B!TypeOK'
    BY <1>1, <1>2, KeepsTypes DEF OverlapInv
  <1>4. A!RecordOK' /\ A!FinalizerOK' /\ B!FinalizerOK'
    BY <1>1 DEF OverlapInv, A!RecordOK, A!FinalizerOK, B!FinalizerOK, A!Born, shared, workerA, workerB
  <1>5. A!TasksOK'
    BY <1>1 DEF OverlapInv, A!TasksOK, A!Alive, A!Creating, shared
  <1>6. A!HeldOK' /\ B!HeldOK'
    BY <1>1 DEF OverlapInv, A!RecordOK, A!HeldOK, B!HeldOK, A!Born, B!Born, shared, workerA, workerB
  <1>7. A!GoneUnlessMisread(1)' /\ B!GoneUnlessMisread(1)'
    BY <1>1 DEF OverlapInv, A!GoneUnlessMisread, B!GoneUnlessMisread, shared, workerA, workerB
  <1> QED BY <1>2, <1>3, <1>4, <1>5, <1>6, <1>7 DEF OverlapInv

\* The invariant holds initially: nothing is recorded and nobody works.
LEMMA OverlapInit == Init => OverlapInv
  <1> SUFFICES ASSUME Init PROVE OverlapInv
    OBVIOUS
  <1>1. A!IndInv /\ B!IndInv
    BY Assumptions, A!IndInvInit, B!IndInvInit DEF Init
  <1>2. mA.vmUUID = None /\ mB.vmUUID = None /\ pcA = "idle" /\ pcB = "idle"
    BY DEF Init, A!Init, B!Init, A!LocalInit, B!LocalInit, A!Blank, B!Blank, A!NewMachine, B!NewMachine
  <1>3. cacheA.vmUUID = None /\ cacheB.vmUUID = None
    <2>1. PICK h \in HookChoices : machine = A!NewMachine(h)
      BY DEF Init, A!Init, A!ObjectInit
    <2>2. cacheA = machine /\ cacheB = machine
      BY DEF Init, A!Init, B!Init, A!ObjectInit, B!ObjectInit
    <2>3. A!NewMachine(h).vmUUID = None
      BY DEF A!NewMachine
    <2> QED BY <2>1, <2>2, <2>3
  <1>4. A!HeldOK /\ B!HeldOK
    BY <1>2, <1>3 DEF A!HeldOK, B!HeldOK
  <1>5. A!GoneUnlessMisread(1) /\ B!GoneUnlessMisread(1)
    <2>1. PICK h \in HookChoices : machine = A!NewMachine(h)
      BY DEF Init, A!Init, A!ObjectInit
    <2>2. machine.exists
      BY <2>1 DEF A!NewMachine
    <2> QED BY <1>2, <2>2 DEF A!GoneUnlessMisread, B!GoneUnlessMisread
  <1> QED BY <1>1, <1>4, <1>5 DEF OverlapInv, A!IndInv, B!IndInv

\* Both replicas' facts hold in every reachable state.
THEOREM OverlapInvHolds == Spec => []OverlapInv
  <1>1. OverlapInv /\ [Next]_overlapVars => OverlapInv'
    <2>1. OverlapInv /\ (Handover \/ UNCHANGED overlapVars) => OverlapInv'
      BY SyncKeeps DEF Handover, overlapVars, caches
    <2>2. OverlapInv /\ Sync => OverlapInv'
      <3>1. Sync => /\ UNCHANGED <<shared, workerA, workerB>>
                    /\ cacheA' \in {cacheA, machine'} /\ cacheB' \in {cacheB, machine'}
        BY DEF Sync, A!CacheSync, B!CacheSync, A!pcVars, B!pcVars, A!kubeVars, B!kubeVars,
           A!locals, B!locals, shared, workerA, workerB
      <3> QED BY <3>1, SyncKeeps
    <2> QED BY <2>1, <2>2, ReplicaAKeeps, ReplicaBKeeps, OthersKeep DEF Next
  <1> QED BY <1>1, OverlapInit, PTL DEF Spec

\* Also with two replicas at work, and as long as no error is misread, the
\* Machine leaves the API server only when the VM in its VmUUID is gone.
THEOREM RecordedGoneHolds == Spec => []RecordedGone
  <1>1. OverlapInv => RecordedGone
    <2>1. OverlapInv => misreads \in Nat
      BY DEF OverlapInv, A!TypeOK, A!PCTypeOK
    <2> QED BY <2>1, Assumptions DEF OverlapInv, A!GoneUnlessMisread, RecordedGone, A!Alive
  <1> QED BY <1>1, OverlapInvHolds, PTL


-----------------------------------------------------------------------------
(* The number of VMs.                                                      *)

\* A set that gains at most one element.
LEMMA OneMore ==
  ASSUME NEW S, IsFiniteSet(S), NEW T, NEW x, T \subseteq S \cup {x}
  PROVE  /\ IsFiniteSet(T) /\ Cardinality(T) \in Nat /\ Cardinality(S) \in Nat
         /\ Cardinality(T) <= Cardinality(S) + 1
         /\ T \subseteq S => Cardinality(T) <= Cardinality(S)
  <1>1. /\ IsFiniteSet(S \cup {x}) /\ Cardinality(S) \in Nat
        /\ Cardinality(S \cup {x}) \in {Cardinality(S), Cardinality(S) + 1}
    BY FS_AddElement, FS_CardinalityType
  <1>2. IsFiniteSet(T) /\ Cardinality(T) \in Nat /\ Cardinality(T) <= Cardinality(S \cup {x})
    BY <1>1, FS_Subset, FS_CardinalityType
  <1>3. T \subseteq S => Cardinality(T) <= Cardinality(S)
    BY FS_Subset
  <1> QED BY <1>1, <1>2, <1>3

\* The count, for the VMs requested (vms), those nobody waits for (open), f
\* failures and h changes of leader; s and o are 1 if the worker, or the
\* other one, is about to request a VM.
Bounded(vms, open, f, h, s, o) ==
    /\ f \in Nat /\ h \in Nat /\ s \in {0, 1} /\ o \in {0, 1}
    /\ IsFiniteSet(vms) /\ open \subseteq vms
    /\ Cardinality(open) <= f
    /\ Cardinality(vms) + s + o <= 1 + h + f

\* The other worker waits for the VMs in w, at most one, or is about to
\* request one, and does neither before the first change of leader.
OtherWaits(w, h, o) ==
    \/ w = {} /\ (h = 0 => o = 0)
    \/ (\E x : w = {x}) /\ o = 0 /\ h > 0

\* A worker's step adds a VM only if it was about to, is about to only if it
\* sees no VM or misreads a lookup, and ceases to wait for one only by a
\* failure.
Moves(vms, open, f, s, vms2, open2, f2, s2, w) ==
    /\ f2 \in {f, f + 1} /\ s2 \in {0, 1}
    /\ s2 = 1 => s = 0 /\ (vms2 \subseteq open \cup w \/ (vms2 \subseteq vms /\ f2 = f + 1))
    /\ vms2 \subseteq vms \/ (s = 1 /\ \E x : vms2 \subseteq vms \cup {x})
    /\ open2 \subseteq open \/ (f2 = f + 1 /\ \E x : open2 \subseteq open \cup {x})
    /\ open2 \subseteq vms2

\* Such a step keeps the count.
LEMMA CountStep ==
  ASSUME NEW vms, NEW vms2, NEW open, NEW open2, NEW w,
         NEW f, NEW f2, NEW h, NEW s, NEW s2, NEW o,
         Bounded(vms, open, f, h, s, o), OtherWaits(w, h, o),
         Moves(vms, open, f, s, vms2, open2, f2, s2, w)
  PROVE  Bounded(vms2, open2, f2, h, s2, o)
  <1> USE DEF Bounded, OtherWaits, Moves
  <1>1. IsFiniteSet(open) /\ Cardinality(open) \in Nat /\ Cardinality(vms) \in Nat
    BY FS_Subset, FS_CardinalityType
  <1>2. Cardinality(open2) <= f2
    <2>1. CASE open2 \subseteq open
      <3>1. Cardinality(open2) \in Nat /\ Cardinality(open2) <= Cardinality(open)
        BY <1>1, <2>1, FS_Subset, FS_CardinalityType
      <3> QED BY <1>1, <3>1
    <2>2. CASE f2 = f + 1 /\ \E x : open2 \subseteq open \cup {x}
      <3>1. Cardinality(open2) \in Nat /\ Cardinality(open2) <= Cardinality(open) + 1
        BY <1>1, <2>2, OneMore
      <3> QED BY <1>1, <2>2, <3>1
    <2> QED BY <2>1, <2>2
  <1>3. IsFiniteSet(vms2) /\ Cardinality(vms2) \in Nat
    BY OneMore
  <1>4. CASE s2 = 0
    <2>1. Cardinality(vms2) <= Cardinality(vms) + s
      <3>1. CASE vms2 \subseteq vms
        <4>1. Cardinality(vms2) <= Cardinality(vms)
          BY <3>1, FS_Subset
        <4> QED BY <1>1, <1>3, <4>1
      <3>2. CASE s = 1 /\ \E x : vms2 \subseteq vms \cup {x}
        BY <3>2, OneMore
      <3> QED BY <3>1, <3>2
    <2> QED BY <1>1, <1>2, <1>3, <1>4, <2>1
  <1>5. CASE s2 = 1 /\ vms2 \subseteq vms /\ f2 = f + 1
    <2>1. Cardinality(vms2) <= Cardinality(vms)
      BY <1>5, FS_Subset
    <2> QED BY <1>1, <1>2, <1>3, <1>5, <2>1
  <1>6. CASE s2 = 1 /\ vms2 \subseteq open \cup w
    <2>1. CASE w = {}
      <3>1. vms2 \subseteq open
        BY <1>6, <2>1
      <3>2. Cardinality(vms2) <= Cardinality(open)
        BY <1>1, <3>1, OneMore
      <3> QED BY <1>1, <1>2, <1>3, <1>6, <2>1, <3>2
    <2>2. CASE w # {}
      <3>1. PICK x : vms2 \subseteq open \cup {x}
        BY <1>6, <2>2
      <3>2. Cardinality(vms2) <= Cardinality(open) + 1
        BY <1>1, <3>1, OneMore
      <3> QED BY <1>1, <1>2, <1>3, <1>6, <2>2, <3>2
    <2> QED BY <2>1, <2>2
  <1> QED BY <1>2, <1>3, <1>4, <1>5, <1>6


\* The count and what either replica adds to it while the other moves.
LEMMA Waiting ==
  ASSUME OverlapInv, CountInv
  PROVE  /\ Bounded(A!Requested, Unwatched, faults, handovers, AboutToSubmit(pcA), AboutToSubmit(pcB))
         /\ Bounded(A!Requested, Unwatched, faults, handovers, AboutToSubmit(pcB), AboutToSubmit(pcA))
         /\ OtherWaits(B!Watched, handovers, AboutToSubmit(pcB))
         /\ handovers > 0 => OtherWaits(A!Watched, handovers, AboutToSubmit(pcA))
  <1>1. faults \in Nat
    BY Assumptions DEF OverlapInv, A!TypeOK, A!PCTypeOK
  <1>2. Unwatched \subseteq A!Requested
    BY DEF Unwatched, A!Requested
  <1>3. AboutToSubmit(pcA) \in {0, 1} /\ AboutToSubmit(pcB) \in {0, 1}
    BY DEF AboutToSubmit
  <1>4. Cardinality(A!Requested) \in Nat
    BY FS_CardinalityType DEF CountInv
  <1>5. /\ Bounded(A!Requested, Unwatched, faults, handovers, AboutToSubmit(pcA), AboutToSubmit(pcB))
        /\ Bounded(A!Requested, Unwatched, faults, handovers, AboutToSubmit(pcB), AboutToSubmit(pcA))
    BY <1>1, <1>2, <1>3, <1>4 DEF CountInv, Bounded
  <1> QED BY <1>5 DEF CountInv, OtherWaits, A!Watched, B!Watched, AboutToSubmit

\* A step of replica "a" keeps the count.
LEMMA ReplicaACounts == OverlapInv /\ CountInv /\ ReplicaA => CountInv'
  <1> SUFFICES ASSUME OverlapInv, CountInv, ReplicaA PROVE CountInv'
    OBVIOUS
  <1>1. A!TypeOK /\ (A!Worker \/ A!Crash) /\ UNCHANGED workerB /\ UNCHANGED lease
    BY DEF ReplicaA, OverlapInv
  <1>2. /\ faults' \in {faults, faults + 1}
        /\ pcA' = "submit" => /\ pcA # "submit" /\ pcA # "createWait" /\ A!Creating' = A!Creating
                              /\ A!Requested' = A!Requested
                              /\ A!Alive = {} \/ faults' = faults + 1
        /\ \/ A!Requested' \subseteq A!Requested
           \/ pcA = "submit" /\ \E u \in Uuids : A!Requested' \subseteq A!Requested \cup {u}
        /\ \/ A!Creating' \ A!Watched' \subseteq A!Creating \ A!Watched
           \/ /\ faults' = faults + 1
              /\ \E u \in Uuids : A!Creating' \ A!Watched' \subseteq (A!Creating \ A!Watched) \cup {u}
    BY <1>1, Assumptions, A!WorkerCounts
  <1>3. B!Watched' = B!Watched /\ pcB' = pcB /\ handovers' = handovers /\ leader' = leader
    BY <1>1 DEF B!Watched, workerB, lease
  <1>4. \/ Unwatched' \subseteq Unwatched
        \/ faults' = faults + 1 /\ \E x : Unwatched' \subseteq Unwatched \cup {x}
    BY <1>2, <1>3 DEF Unwatched
  <1>5. pcA' = "submit" => \/ A!Requested' \subseteq Unwatched \cup B!Watched
                           \/ A!Requested' \subseteq A!Requested /\ faults' = faults + 1
    <2>1. A!Alive = {} => A!Requested = A!Creating
      BY DEF A!Requested
    <2>2. A!Watched = {} \/ pcA = "createWait"
      BY DEF A!Watched
    <2>3. A!Creating \subseteq Unwatched \cup A!Watched \cup B!Watched
      BY DEF Unwatched
    <2> QED BY <1>2, <2>1, <2>2, <2>3
  <1>6. Bounded(A!Requested', Unwatched', faults', handovers, AboutToSubmit(pcA'), AboutToSubmit(pcB))
    <2>1. /\ AboutToSubmit(pcA) \in {0, 1} /\ AboutToSubmit(pcA') \in {0, 1}
          /\ AboutToSubmit(pcB) \in {0, 1}
      BY DEF AboutToSubmit
    <2>2. AboutToSubmit(pcA') = 1 =>
             /\ AboutToSubmit(pcA) = 0
             /\ \/ A!Requested' \subseteq Unwatched \cup B!Watched
                \/ A!Requested' \subseteq A!Requested /\ faults' = faults + 1
      BY <1>2, <1>5 DEF AboutToSubmit
    <2>3. \/ A!Requested' \subseteq A!Requested
          \/ AboutToSubmit(pcA) = 1 /\ \E x : A!Requested' \subseteq A!Requested \cup {x}
      BY <1>2 DEF AboutToSubmit
    <2>4. Unwatched' \subseteq A!Requested'
      BY DEF Unwatched, A!Requested
    <2>5. Moves(A!Requested, Unwatched, faults, AboutToSubmit(pcA),
                A!Requested', Unwatched', faults', AboutToSubmit(pcA'), B!Watched)
      BY <1>2, <1>4, <2>1, <2>2, <2>3, <2>4 DEF Moves
    <2> QED BY <2>5, Waiting, CountStep
  <1>7. (handovers = 0 => leader = "a" /\ pcB = "idle")'
    BY <1>3 DEF CountInv
  <1> QED BY <1>3, <1>6, <1>7 DEF CountInv, Bounded, AboutToSubmit

\* A step of replica "b" does too: it works only after a change of leader.
LEMMA ReplicaBCounts == OverlapInv /\ CountInv /\ ReplicaB => CountInv'
  <1> SUFFICES ASSUME OverlapInv, CountInv, ReplicaB PROVE CountInv'
    OBVIOUS
  <1>1. B!TypeOK /\ (B!Worker \/ B!Crash) /\ UNCHANGED workerA /\ UNCHANGED lease
    BY DEF ReplicaB, OverlapInv
  <1>2. /\ faults' \in {faults, faults + 1}
        /\ pcB' = "submit" => /\ pcB # "submit" /\ pcB # "createWait" /\ A!Creating' = A!Creating
                              /\ A!Requested' = A!Requested
                              /\ A!Alive = {} \/ faults' = faults + 1
        /\ \/ A!Requested' \subseteq A!Requested
           \/ pcB = "submit" /\ \E u \in Uuids : A!Requested' \subseteq A!Requested \cup {u}
        /\ \/ A!Creating' \ B!Watched' \subseteq A!Creating \ B!Watched
           \/ /\ faults' = faults + 1
              /\ \E u \in Uuids : A!Creating' \ B!Watched' \subseteq (A!Creating \ B!Watched) \cup {u}
    BY <1>1, Assumptions, SameFacts, B!WorkerCounts
  <1>3. A!Watched' = A!Watched /\ pcA' = pcA /\ handovers' = handovers /\ leader' = leader
    BY <1>1 DEF A!Watched, workerA, lease
  <1>4. handovers \in Nat /\ handovers > 0
    BY DEF ReplicaB, CountInv
  <1>5. \/ Unwatched' \subseteq Unwatched
        \/ faults' = faults + 1 /\ \E x : Unwatched' \subseteq Unwatched \cup {x}
    BY <1>2, <1>3 DEF Unwatched
  <1>6. pcB' = "submit" => \/ A!Requested' \subseteq Unwatched \cup A!Watched
                           \/ A!Requested' \subseteq A!Requested /\ faults' = faults + 1
    <2>1. A!Alive = {} => A!Requested = A!Creating
      BY DEF A!Requested
    <2>2. B!Watched = {} \/ pcB = "createWait"
      BY DEF B!Watched
    <2>3. A!Creating \subseteq Unwatched \cup A!Watched \cup B!Watched
      BY DEF Unwatched
    <2> QED BY <1>2, <2>1, <2>2, <2>3
  <1>7. Bounded(A!Requested', Unwatched', faults', handovers, AboutToSubmit(pcB'), AboutToSubmit(pcA))
    <2>1. /\ AboutToSubmit(pcB) \in {0, 1} /\ AboutToSubmit(pcB') \in {0, 1}
          /\ AboutToSubmit(pcA) \in {0, 1}
      BY DEF AboutToSubmit
    <2>2. AboutToSubmit(pcB') = 1 =>
             /\ AboutToSubmit(pcB) = 0
             /\ \/ A!Requested' \subseteq Unwatched \cup A!Watched
                \/ A!Requested' \subseteq A!Requested /\ faults' = faults + 1
      BY <1>2, <1>6 DEF AboutToSubmit
    <2>3. \/ A!Requested' \subseteq A!Requested
          \/ AboutToSubmit(pcB) = 1 /\ \E x : A!Requested' \subseteq A!Requested \cup {x}
      BY <1>2 DEF AboutToSubmit
    <2>4. Unwatched' \subseteq A!Requested'
      BY DEF Unwatched, A!Requested
    <2>5. Moves(A!Requested, Unwatched, faults, AboutToSubmit(pcB),
                A!Requested', Unwatched', faults', AboutToSubmit(pcB'), A!Watched)
      BY <1>2, <1>5, <2>1, <2>2, <2>3, <2>4 DEF Moves
    <2> QED BY <1>4, <2>5, Waiting, CountStep
  <1>8. /\ Cardinality(A!Requested') \in Nat
        /\ AboutToSubmit(pcA) \in {0, 1} /\ AboutToSubmit(pcB') \in {0, 1}
    BY <1>7, FS_CardinalityType DEF Bounded, AboutToSubmit
  <1> QED BY <1>3, <1>4, <1>7, <1>8 DEF CountInv, Bounded

\* The other actors and Prism Central request no VM.
LEMMA OthersCount == OverlapInv /\ CountInv /\ Others => CountInv'
  <1> SUFFICES ASSUME OverlapInv, CountInv, Others PROVE CountInv'
    OBVIOUS
  <1>1. /\ A!Creating' \subseteq A!Creating /\ A!Requested' \subseteq A!Requested
        /\ faults' \in {faults, faults + 1}
    BY Assumptions, A!OthersRequestNone DEF Others, OverlapInv
  <1>2. UNCHANGED <<pcA, vmA, pcB, vmB, leader, handovers>>
    BY DEF Others, A!KubeActor, A!locals, workerA, workerB, lease
  <1>3. Unwatched' \subseteq Unwatched
    BY <1>1, <1>2 DEF Unwatched, A!Watched, B!Watched
  <1>4. /\ IsFiniteSet(A!Requested) /\ IsFiniteSet(Unwatched) /\ faults \in Nat
        /\ Cardinality(A!Requested) \in Nat /\ Cardinality(Unwatched) \in Nat
    BY Waiting, FS_Subset, FS_CardinalityType DEF Bounded
  <1>5. /\ IsFiniteSet(A!Requested') /\ Cardinality(A!Requested') <= Cardinality(A!Requested)
        /\ Cardinality(A!Requested') \in Nat
        /\ Cardinality(Unwatched') <= Cardinality(Unwatched) /\ Cardinality(Unwatched') \in Nat
    BY <1>1, <1>3, <1>4, FS_Subset, FS_CardinalityType
  <1>6. AboutToSubmit(pcA) \in {0, 1} /\ AboutToSubmit(pcB) \in {0, 1}
    BY DEF AboutToSubmit
  <1>7. /\ handovers \in Nat /\ leader \in {"a", "b"} /\ (handovers = 0 => leader = "a" /\ pcB = "idle")
        /\ Cardinality(Unwatched) <= faults
        /\ Cardinality(A!Requested) + AboutToSubmit(pcA) + AboutToSubmit(pcB) <= 1 + handovers + faults
    BY DEF CountInv
  <1>8. /\ Cardinality(Unwatched') <= faults'
        /\ Cardinality(A!Requested') + AboutToSubmit(pcA) + AboutToSubmit(pcB) <= 1 + handovers + faults'
    BY <1>1, <1>4, <1>5, <1>6, <1>7
  <1> QED BY <1>2, <1>5, <1>7, <1>8 DEF CountInv, AboutToSubmit

\* A change of leader raises the bound.
LEMMA HandoverCounts == OverlapInv /\ CountInv /\ Handover => CountInv'
  <1> SUFFICES ASSUME OverlapInv, CountInv, Handover PROVE CountInv'
    OBVIOUS
  <1>1. /\ UNCHANGED <<vmState, faults, pcA, vmA, pcB, vmB>>
        /\ handovers' = handovers + 1 /\ leader' \in {"a", "b"}
    BY DEF Handover, shared, workerA, workerB
  <1>2. A!Requested' = A!Requested /\ Unwatched' = Unwatched
    BY <1>1 DEF A!Requested, A!Alive, A!Creating, Unwatched, A!Watched, B!Watched
  <1>3. Cardinality(A!Requested) \in Nat /\ faults \in Nat
    BY Waiting, FS_CardinalityType DEF Bounded
  <1>4. AboutToSubmit(pcA) \in {0, 1} /\ AboutToSubmit(pcB) \in {0, 1}
    BY DEF AboutToSubmit
  <1>5. /\ handovers \in Nat /\ IsFiniteSet(A!Requested) /\ Cardinality(Unwatched) <= faults
        /\ Cardinality(A!Requested) + AboutToSubmit(pcA) + AboutToSubmit(pcB) <= 1 + handovers + faults
    BY DEF CountInv
  <1>6. Cardinality(A!Requested) + AboutToSubmit(pcA) + AboutToSubmit(pcB) <= 1 + handovers' + faults
    BY <1>1, <1>3, <1>4, <1>5
  <1> QED BY <1>1, <1>2, <1>5, <1>6 DEF CountInv, AboutToSubmit

\* Initially there is no VM and nobody works.
LEMMA CountInit == Init => CountInv
  <1> SUFFICES ASSUME Init PROVE CountInv
    OBVIOUS
  <1>1. pcA = "idle" /\ pcB = "idle" /\ faults = 0 /\ vmState = [u \in Uuids |-> "free"]
    BY DEF Init, A!Init, B!Init, A!PCInit, A!LocalInit, B!LocalInit
  <1>2. A!Requested = {} /\ Unwatched = {}
    BY <1>1 DEF A!Requested, A!Alive, A!Creating, Unwatched
  <1>3. AboutToSubmit(pcA) = 0 /\ AboutToSubmit(pcB) = 0
    BY <1>1 DEF AboutToSubmit
  <1>4. IsFiniteSet({}) /\ Cardinality({}) = 0
    BY FS_EmptySet
  <1> QED BY <1>1, <1>2, <1>3, <1>4 DEF CountInv, Init

\* The count is kept in every behaviour.
THEOREM CountInvHolds == Spec => []CountInv
  <1>1. OverlapInv /\ CountInv /\ [Next]_overlapVars => CountInv'
    <2>1. Sync \/ UNCHANGED overlapVars => UNCHANGED <<vmState, faults, pcA, vmA, pcB, vmB, lease>>
      BY DEF Sync, A!CacheSync, B!CacheSync, A!pcVars, B!pcVars, A!locals, B!locals,
         overlapVars, shared, workerA, workerB
    <2>2. CountInv /\ UNCHANGED <<vmState, faults, pcA, vmA, pcB, vmB, lease>> => CountInv'
      BY DEF lease, CountInv, Unwatched, A!Requested, A!Alive, A!Creating, A!Watched, B!Watched,
         AboutToSubmit
    <2> QED BY <2>1, <2>2, ReplicaACounts, ReplicaBCounts, OthersCount, HandoverCounts DEF Next
  <1> QED BY <1>1, CountInit, OverlapInvHolds, PTL DEF Spec

\* Every change of leader and every failure costs at most one VM beside the first.
THEOREM ExtraVMsBoundedHolds == Spec => []ExtraVMsBounded
  <1>1. OverlapInv /\ CountInv => ExtraVMsBounded
    <2> SUFFICES ASSUME OverlapInv, CountInv PROVE ExtraVMsBounded
      OBVIOUS
    <2>1. Cardinality(A!Requested) \in Nat /\ faults \in Nat /\ handovers \in Nat
      BY Waiting, FS_CardinalityType DEF Bounded
    <2>2. AboutToSubmit(pcA) \in {0, 1} /\ AboutToSubmit(pcB) \in {0, 1}
      BY DEF AboutToSubmit
    <2>3. Cardinality(A!Requested) + AboutToSubmit(pcA) + AboutToSubmit(pcB) <= 1 + handovers + faults
      BY DEF CountInv
    <2> QED BY <2>1, <2>2, <2>3 DEF ExtraVMsBounded
  <1> QED BY <1>1, CountInvHolds, OverlapInvHolds, PTL
=============================================================================
