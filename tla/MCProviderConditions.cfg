SPECIFICATION Spec
CONSTANTS
    VMs <- SmallVMs
    LinkLocal = {1}
    Errors = {e1, e2}
    None = None
PROPERTY ConditionsKept
CHECK_DEADLOCK FALSE
