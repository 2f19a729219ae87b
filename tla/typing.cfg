SPECIFICATION TypingFairSpec
CONSTANTS
    Kinds <- SomeKinds
    MaxResizes = 1
    Early = FALSE
    MaxKeys = 4
    MAX_PAYLOAD = 2
    STDIN_BUF = 3
    SNDBUF = 2
    Settled = 3
INVARIANTS
    TypingTypeOK
    InputConserved
    WireDecoded
    EofAfterAll
    DetachAlone
PROPERTIES
    TypingServed
