CONSTANTS
    MinDown = 2
    MinDtr = 5
    MaxBytes = 4
SPECIFICATION Spec
INVARIANT OnlySlowDropped
CHECK_DEADLOCK FALSE
