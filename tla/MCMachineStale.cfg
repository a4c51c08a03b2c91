SPECIFICATION Spec
CONSTANTS
    Uuids = {u1, u2, u3}
    None = None
    FaultKinds <- EveryFault
    MaxFaults = 2
    HookChoices = {FALSE}
    StaleReads = TRUE
SYMMETRY UuidSymmetry
INVARIANTS
    IndInv
    RefInv
    RecordedVMGone
PROPERTIES
    VmUUIDStable
    Promise
CHECK_DEADLOCK FALSE
