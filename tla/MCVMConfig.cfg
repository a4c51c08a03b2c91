SPECIFICATION Spec
CONSTANTS
    Specs <- SmallSpecs
    Environments <- SmallEnvironments
    Universe <- SmallUniverse
    Inventory <- SmallInventory
    Owned = "own"
    None = None
    MaxChanges = 2
    MaxFails = 1
INVARIANTS
    RequestMeant
    RequestOwned
    DisksAsConfigured
    VerdictRight
    ScopeCurrent
    ConfigInv
PROPERTY AttemptsEnd
CHECK_DEADLOCK FALSE
