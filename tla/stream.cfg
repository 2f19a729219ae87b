SPECIFICATION HistorySpec
CONSTANTS
    Conn = {1, 2}
    Kind <- AttachDump
    TermSize <- SameSize
    SNDBUF = 2
    PTYIN = 1
    MAX_PAYLOAD = 2
    KEYS = 0
    MaxOutput = 3
    Deaths <- OneDeath
    Faults = {"fcntl", "background"}
    HISTORY_CAP = 2
    SEND_QUEUE_CAP = 4
    Newlines = {2}
INVARIANTS
    TypeOK
    WireFramed
    StreamComplete
    HistoryExact
    DumpExact
    DumpTail
    QueueBounded
PROPERTIES
    ServiceKept
