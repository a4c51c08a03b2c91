-------------------------- MODULE MachineLifecycle --------------------------
(***************************************************************************)
(* What the provider promises of a Machine and its VMs, whatever fails, as *)
(* long as Prism Central's errors are read for what they are:              *)
(*  - no VM appears for a Machine that is not protected by its finalizer;  *)
(*  - a VM that is gone stays gone;                                        *)
(*  - a VM is put on record only when it exists or has existed, only in a  *)
(*    protected Machine, and in place of another one only if that is gone; *)
(*  - a protected Machine is released only after its deletion was          *)
(*    requested and the VM on record is gone, and for good.                *)
(* A deception is an error taken for the absence of a VM.  After one of    *)
(* them another VM may take the place of one that exists, and after two    *)
(* the Machine may be released too early; nothing else is ever given up.   *)
(* It says nothing of how: no controller, cache, patch, task or failure.   *)
(***************************************************************************)
EXTENDS Naturals

CONSTANTS Uuids, None

VARIABLES
    life,       \* the Machine: "new", "protected" by its finalizer, "released"
    requested,  \* its deletion was requested
    record,     \* the VM it records
    vms,        \* every VM: "unborn", "alive", "gone"
    deceptions  \* errors taken for the absence of a VM so far

lifecycleVars == <<life, requested, record, vms, deceptions>>

Init ==
    /\ life = "new"
    /\ requested = FALSE
    /\ record = None
    /\ vms = [u \in Uuids |-> "unborn"]
    /\ deceptions = 0

\* The VM on record is gone, or the deceptions suffice to believe it.
BelievedGone(n) == record # None => vms[record] = "gone" \/ deceptions >= n

Deceive ==
    /\ deceptions' = deceptions + 1
    /\ UNCHANGED <<life, requested, record, vms>>

Protect ==
    /\ life = "new"
    /\ life' = "protected"
    /\ UNCHANGED <<requested, record, vms, deceptions>>

\* A Machine without finalizer is gone at once.
Request ==
    /\ life # "released"
    /\ ~requested
    /\ requested' = TRUE
    /\ life' = IF life = "new" THEN "released" ELSE life
    /\ UNCHANGED <<record, vms, deceptions>>

Appear(u) ==
    /\ life # "new"
    /\ vms[u] = "unborn"
    /\ vms' = [vms EXCEPT ![u] = "alive"]
    /\ UNCHANGED <<life, requested, record, deceptions>>

\* Also a VM whose creation fails.
Vanish(u) ==
    /\ life # "new"
    /\ vms[u] # "gone"
    /\ vms' = [vms EXCEPT ![u] = "gone"]
    /\ UNCHANGED <<life, requested, record, deceptions>>

Record(u) ==
    /\ life = "protected"
    /\ vms[u] # "unborn"
    /\ BelievedGone(1)
    /\ record' = u
    /\ UNCHANGED <<life, requested, vms, deceptions>>

Release ==
    /\ life = "protected"
    /\ requested
    /\ BelievedGone(2)
    /\ life' = "released"
    /\ UNCHANGED <<requested, record, vms, deceptions>>

Next ==
    \/ Protect \/ Request \/ Release \/ Deceive
    \/ \E u \in Uuids : Appear(u) \/ Vanish(u) \/ Record(u)

Spec == Init /\ [][Next]_lifecycleVars
=============================================================================
