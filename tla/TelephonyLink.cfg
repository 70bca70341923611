\* Two commands or downloads, one front-panel report and one PWR_FAIL pulse: every
\* reply can meet every other on the link, and a reset every point of a download.
SPECIFICATION Spec
CONSTANTS
    CfgLen = 5
    Commands = {48, 49, 51, 56, 58, 61}
    CfgData = {0, 49}
    EmitC4 = TRUE
    MaxCommands = 2
    MaxUi = 1
    MaxPulses = 1
INVARIANTS
    TypeOK
    FramesIntact
    BootCodeOnce
    DownloadInStep
PROPERTIES
    DownloadAcked
    NormalDrains
CHECK_DEADLOCK FALSE
