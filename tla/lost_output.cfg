SPECIFICATION Spec
CONSTANTS
    Conn = {1}
    Kind <- AllAttach
    TermSize <- SameSize
    SNDBUF = 2
    PTYIN = 1
    MAX_PAYLOAD = 2
    KEYS = 0
    MaxOutput = 2
    Deaths <- OneDeath
    Faults = {}
    HISTORY_CAP = 2
    SEND_QUEUE_CAP = 8
    Newlines = {2}
INVARIANTS
    OutputComplete
