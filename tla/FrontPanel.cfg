\* Keys rolled over each other, through a craft sequence; and a user who leaves the switch
\* alone for longer than the guard and the debounce, and still hooks rapidly enough to be
\* taken for an abuser.
SPECIFICATION PanelSpec
CONSTANTS
    k2 = k2
    k5 = k5
    k7 = k7
    k9 = k9
    NoKey = NoKey
    Order <- ThreeKeys
    CraftSeq <- Seq227
    ReleaseAfter = 6
    RepeatAfter = 2
    RepeatEvery = 2
    CraftIdle = 3
    CraftDone = 4
    MaxDown = 2
    MaxPresses = 4
    Debounce = 1
    Gap = 3
    AbuseWindow = 10
    AbuseLimit = 3
    Stabilise = 8
    Dwell = 5
    MaxMoves = 5
    MaxRelays = 2
INVARIANTS
    PanelTypeOK
    PendingHeld
    ReleasesMatch
    TelAgrees
    AbuseEarned
PROPERTIES
    ReleaseOnce
    RepeatsNeedHold
    ReleaseComes
    HookSettles
