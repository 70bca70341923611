\* The durations of the code.  An alarm needs one status query and three error-report
\* queries, three of them waiting at once.
SPECIFICATION Spec
CONSTANTS
    C4Wait = 3
    GraceShort = 2
    GraceLong = 5
    LatchWindow = 4
    UiBurst = 1
    Policy = "immediate"
    Replies = {"status"}
    MaxQueries = 4
    MaxQueue = 3
    MaxPulses = 0
    MaxUi = 1
INVARIANTS
    TypeOK
    NoAlarmAfterContract
    ContractEvidence
PROPERTIES
    AlarmRaised
CHECK_DEADLOCK FALSE
