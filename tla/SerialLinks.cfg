\* Two data values tell any two bytes of a class apart in order; four waiting
\* bytes fill the register and leave bytes in both queues behind it.
\* Two address bits and two data bits; one word in four behind no NVRAM.
SPECIFICATION SerialSpec
CONSTANTS
    Data = {d1, d2}
    NoByte = NoByte
    OctetBits = 8
    MaxQueued = 4
    AddrBits = 2
    DataBits = 2
    EwenAddrs <- MCEwenAddrs
    Backed <- MCBacked
    Marks <- MCMarks
    Commands <- MCCommands
INVARIANTS
    SerialTypeOK
    LinkInv
    InStep
    MirrorAgrees
PROPERTIES
    FifoSpec
    PriorityFirst
    StoreSpec
