\* One PWR_FAIL pulse in the middle of a download.
SPECIFICATION Spec
CONSTANTS
    CfgLen = 5
    Commands = {48}
    CfgData = {0}
    EmitC4 = TRUE
    MaxCommands = 2
    MaxUi = 0
    MaxPulses = 1
PROPERTIES
    DownloadAckedAlways
CHECK_DEADLOCK FALSE
