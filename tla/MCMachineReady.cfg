SPECIFICATION Spec
CONSTANTS
    Uuids = {u1, u2}
    None = None
    FaultKinds = {"task"}
    MaxFaults = 1
    HookChoices = {FALSE}
    StaleReads = FALSE
INVARIANT ReadyMeansOn
CHECK_DEADLOCK FALSE
