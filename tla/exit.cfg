SPECIFICATION Spec
CONSTANTS
    Conn = {1, 2}
    Kind <- AllAttach
    TermSize <- SameSize
    SNDBUF = 2
    PTYIN = 1
    MAX_PAYLOAD = 1
    KEYS = 0
    MaxOutput = 1
    Deaths <- TwoDeaths
    Faults = {"sigterm", "fcntl", "background"}
    HISTORY_CAP = 2
    SEND_QUEUE_CAP = 20
    Newlines = {2}
INVARIANTS
    ExitTruthful
    NoOrphan
PROPERTIES
    
    ExitDecidedOnce
    SignalOwnChild
