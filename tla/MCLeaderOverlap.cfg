SPECIFICATION Spec
CONSTANTS
    Uuids = {u1, u2, u3, u4}
    None = None
    FaultKinds = {"lost", "crash", "textNotFound"}
    MaxFaults = 1
    HookChoices = {FALSE}
    StaleReplicas = {"a"}
    MaxHandovers = 1
ACTION_CONSTRAINTS
    LagUntilFailure
    VMsNamed
SYMMETRY UuidSymmetry
INVARIANTS
    RecordedGone
    ExtraVMsBounded
CHECK_DEADLOCK FALSE
