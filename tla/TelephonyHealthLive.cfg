\* Shorter durations in the same order, and the policy that withholds error reports
\* until the alarm or the display has shown; the alarm and a reset are still reachable.
SPECIFICATION Spec
CONSTANTS
    C4Wait = 2
    GraceShort = 1
    GraceLong = 2
    LatchWindow = 2
    UiBurst = 1
    Policy = "latch_then_clear"
    Replies = {"status"}
    MaxQueries = 4
    MaxQueue = 3
    MaxPulses = 1
    MaxUi = 0
PROPERTIES
    ContractCloses
    LinkStaysUp
CHECK_DEADLOCK FALSE
