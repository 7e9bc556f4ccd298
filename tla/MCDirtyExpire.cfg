CONSTANTS
    Values = {v0, v1}
    Initial = v0
    New = v1
    Strict = FALSE
    Faults = FALSE

SPECIFICATION Spec

PROPERTY KnobRestoredOnExit
CHECK_DEADLOCK FALSE
