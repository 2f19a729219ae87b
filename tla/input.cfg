SPECIFICATION HistorySpec
CONSTANTS
    Conn = {1, 2}
    Kind <- KeysAttach
    TermSize <- SameSize
    SNDBUF = 2
    PTYIN = 4
    MAX_PAYLOAD = 1
    KEYS = 2
    MaxOutput = 1
    Deaths <- OneDeath
    Faults = {"kill"}
    HISTORY_CAP = 2
    SEND_QUEUE_CAP = 20
    Newlines = {2}
INVARIANTS
    KeysDelivered
    InputPrefix
PROPERTIES
    ExitReported
    ServiceKept
