SPECIFICATION Spec
CONSTANTS
    Specs <- SmallSpecs
    None = None
    Limit = 128
    MaxEdits = 3
    MaxFails = 2
INVARIANT AtRest
PROPERTIES
    AnnotationsSettle
    ForeignKept
CHECK_DEADLOCK FALSE
