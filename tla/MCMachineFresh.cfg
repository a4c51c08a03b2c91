SPECIFICATION Spec
CONSTANTS
    Uuids = {u1, u2, u3}
    None = None
    FaultKinds <- EveryFault
    MaxFaults = 4
    HookChoices = {TRUE, FALSE}
    StaleReads = FALSE
SYMMETRY UuidSymmetry
INVARIANTS
    TypeOK
    VmUUIDNamed
    NodeNamed
    FreshInv
PROPERTIES
    VmUUIDFixed
    StaysProvisioned
    FailedTerminal
    VolumesDetached
CHECK_DEADLOCK FALSE
