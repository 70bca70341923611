\* The durations of the code, no reset.
SPECIFICATION Spec
CONSTANTS
    C4Wait = 3
    GraceShort = 2
    GraceLong = 5
    LatchWindow = 4
    UiBurst = 1
    Policy = "immediate"
    Replies = {"status"}
    MaxQueries = 4
    MaxQueue = 3
    MaxPulses = 0
    MaxUi = 0
INVARIANTS
    ThirdMissLatches
CHECK_DEADLOCK FALSE
