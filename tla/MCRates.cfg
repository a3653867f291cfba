CONSTANTS
    MinDown = 2
    MinDtr = 5
    MaxBytes = 4
SPECIFICATION FairSpec
INVARIANTS
    CountersSound
    UploaderKept
PROPERTIES
    FirstPass
    QuietIsDropped
CHECK_DEADLOCK FALSE
