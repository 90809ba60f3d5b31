SPECIFICATION Spec
CONSTANTS
    Songs = {so1}
    Versions = {v1, v2}
    None = none
    Handoffs = 2
INVARIANT MovedIsNeverCurrent
CHECK_DEADLOCK FALSE
