SPECIFICATION FairSpec
CONSTANTS
    Uuids = {u1, u2, u3}
    None = None
    FaultKinds <- NoLoss
    MaxFaults = 2
    HookChoices = {TRUE, FALSE}
    StaleReads = FALSE
INVARIANTS
    NoOrphan
    AtMostOneVM
    OneVMInv
PROPERTIES
    DeletionCompletes
    ProvisioningSettles
    Quiescent
CHECK_DEADLOCK FALSE
