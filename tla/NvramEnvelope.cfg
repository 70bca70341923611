\* 43 octets: the validity words fit, and the last octet is alone in a group that the encoder pads.
SPECIFICATION NvramSpec
CONSTANTS
    NvramSize = 43
    TableSize = 1
    DlaSize = 1
    Octets = {0, 196}
    WriteAt = {1, 43}
INVARIANTS
    EnvelopeReloads
