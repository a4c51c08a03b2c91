SPECIFICATION Spec
CONSTANTS
    VMs <- SmallVMs
    LinkLocal = {1}
    Errors = {e1, e2}
    None = None
INVARIANTS
    IPsComplete
PROPERTIES
    RepeatQuiet
    RegionRight
CHECK_DEADLOCK FALSE
