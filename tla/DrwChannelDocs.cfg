\* What the repository says and the code does not do. TLC stops at the first of
\* these; remove the one it has reported to see the next.
CONSTANTS
    Modulus = 8
    Half = 4
    Limit = 2
    Window = 4
    Lag = 4
    Total = 6
    MaxRetransmits = 2
    MaxChunks = 1
    MaxWrites = 2
    Size = 8
    Xor <- MCXor
    Shuffle <- MCShuffle
    F1 = 7
    Dual = {1}
    Encrypted = {2}
    Keys <- MCKeys
    Clears <- MCClears
SPECIFICATION MCSpec
INVARIANTS
    AckedIsKept
    WrittenIsDelivered
    EveryKeyWorks
CHECK_DEADLOCK FALSE
