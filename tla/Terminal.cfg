\* Each device on its own small instance.
SPECIFICATION TerminalSpec
CONSTANTS
    Denominations <- MCDenominations
    Offered <- MCOffered
    PulseWidth = 3
    PulseGap = 2
    SamplePeriod = 2
    CardFixtures <- MCCards
    CommandBytes = {1, 180}
    AtrDelay = 1
    MaxWritten = 3
    MaxReads = 4
    TrackBodies <- MCTracks
    CellTicks = {1, 2}
    DefaultCell = 1
    LrcErrors = {TRUE, FALSE}
    SensorFaults <- MCStuck
    WinkTicks = 1
    DeferTicks = 2
    CutoffTicks = 3
    MaxHeard = 4
    MaxTicks = 4
    EstablishedCalls = {"supervised"}
    MaxGain = 1
    ModemFixtures <- MCScripts
    MaxWrites = 2
    Frames <- MCFrames
    MaxRetries = 2
    MaxTimeouts = 3
    MaxFrames = 5
    MaxOnLine = 2
    Messages <- MCMessages
    RawBytes <- MCRaw
    LongestFrame = 2
    MaxCalls = 2
    MaxSends = 2
    Rom <- MCRom
    Phrases = {0, 1, 2, 3, 4, 5}
    FixedNibbles = 4
    Banks = {0, 1}
    PhraseSet = {0, 1}
    Pieces <- MCPiecesOf
    Broken <- MCBroken
    Rows = 2
    Columns = 2
    GlyphColumns = 1
    MaxLogged = 5
    DataOctets = {27, 12, 10, 16, 18, 21, 24, 25, 28, 32, 65, 73}
    CommandOctets = {64, 1, 3}
    Lines = {0, 1}
    ScanReads = 3
    ScanDeltas = 2
    MaxScanReads = 4
    ProgramSize = 8
    Labels = {0}
    StackDepth = 2
    MaxFrames8048 = 3
    MaxExecuted = 5
    StopOnStopTcnt = TRUE
    Decimals = {0, 1, 8, 9, 21, 25, 85, 137, 144, 153}
    Answers = {112, 192, 196}
    MaxQueuedTp = 1
    MaxAnswers = 1
    MaxGivenTp = 3
    DecisionTraced = TRUE
    IdleFixture = TRUE
    NvramSize = 43
    TableSize = 1
    DlaSize = 1
    Octets = {0, 196}
    WriteAt = {1}
    SoftKeys = {"soft_1", "soft_2"}
    EdgeKeys = {"language"}
    Reversals = {"reversal_0"}
    Policies <- MCPolicies
    PollPeriod = 10
    SoftDebounce = 25
    DisableReasons = {"voice", "data"}
    AlarmTimings <- MCTimings
    MemoryOctets = {0, 1, 2}
    MemorySize = 4
    PayloadSize = 2
    Boxes = {"box_1", "box_2"}
    MaxPulses = 2
    MaxCommits = 3
    MaxSamples = 4
    CatalogOctets = {48, 49}
    DownloadHeader = 192
    OtherHeaders = {208, 255}
    FrameOctets = {3, 4, 192}
    FillOctets = {0}
    EdgesPerOctet = {1, 8}
    MaxLength = 126
    SecurityLines = {"vault", "door"}
    DebounceCycles = 2
    MaxSecurityReads = 3
INVARIANTS
    TerminalTypeOK
    PaymentRead
    FramesArrive
    VoiceHeard
    TpBackendRight
    DisconnectEarned
    RouteTold
    DeltaOfOneWrite
    EstablishedMeansArrived
    PanelHonest
    RecordsHonest
PROPERTIES
    ReturnsSpec
