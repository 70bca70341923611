\* A user, or a contact, that bounces within the guard.
SPECIFICATION HookSpec
CONSTANTS
    Debounce = 1
    Gap = 3
    AbuseWindow = 6
    AbuseLimit = 3
    Stabilise = 4
    Dwell = 0
    MaxMoves = 4
    MaxRelays = 0
PROPERTIES
    HookSettles
