----------------------------- MODULE MCMachine -----------------------------
(* Instances of MachineController for TLC: the failures a run admits.      *)
EXTENDS MachineFresh, TLC

\* Every kind of failure.
EveryFault == AllFaultKinds

\* All but those that make the controller lose sight of a VM: its create task
\* is lost, or an error is taken for its absence.
NoLoss == AllFaultKinds \ {"lost", "crash", "textNotFound"}

UuidSymmetry == Permutations(Uuids)
=============================================================================
