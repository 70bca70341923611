\* Two keys held at once past the synthesised release.
SPECIFICATION Spec
CONSTANTS
    k2 = k2
    k5 = k5
    k7 = k7
    k9 = k9
    NoKey = NoKey
    Order <- TwoKeys
    CraftSeq <- NoSeq
    ReleaseAfter = 6
    RepeatAfter = 2
    RepeatEvery = 2
    CraftIdle = 4
    CraftDone = 5
    MaxDown = 2
    MaxPresses = 2
INVARIANTS
    ReleasesMatchRolled
