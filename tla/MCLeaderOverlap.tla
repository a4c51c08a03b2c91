-------------------------- MODULE MCLeaderOverlap --------------------------
(* Instances of LeaderOverlap for TLC.                                     *)
EXTENDS LeaderOverlap, TLC

UuidSymmetry == Permutations(Uuids)

\* A bound: caches lag until the first failure and follow at once after it;
\* lag and failures in all combinations are too many states.
LagUntilFailure ==
    faults > 0 /\ {cacheA, cacheB} # {machine} => {cacheA', cacheB'} = {machine'}

\* A bound: every VM has a name, so that its status shows an address.
VMsNamed ==
    /\ pcA = "vmState" /\ pcA' = "patchSpec" /\ mA'.vmUUID = vmA => mA'.addresses
    /\ pcB = "vmState" /\ pcB' = "patchSpec" /\ mB'.vmUUID = vmB => mB'.addresses
=============================================================================
