\* The version query (0x34) is the one report queued on the normal queue.
SPECIFICATION Spec
CONSTANTS
    CfgLen = 5
    Commands = {48, 52}
    CfgData = {0}
    EmitC4 = TRUE
    MaxCommands = 2
    MaxUi = 0
    MaxPulses = 0
INVARIANTS
    FramesIntact
CHECK_DEADLOCK FALSE
