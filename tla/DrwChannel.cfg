CONSTANTS
    Modulus = 8
    Half = 4
    Limit = 3
    Window = 4
    Lag = 4
    Total = 9
    MaxRetransmits = 2
    MaxChunks = 2
    MaxWrites = 2
    Size = 8
    Xor <- MCXor
    Shuffle <- MCShuffle
    F1 = 7
    Dual = {1}
    Encrypted = {2}
    Keys <- MCKeys
    Clears <- MCClears
SPECIFICATION MCSpec
INVARIANTS
    AckedIsKept
    PacketIsRead
    WrittenIsReceived
    NothingForgotten
PROPERTIES
    StreamSpec
    AllArrive
CHECK_DEADLOCK FALSE
