SPECIFICATION FairSpec
CONSTANTS
    Conn = {1, 2}
    Kind <- ReadonlyDump
    TermSize <- SameSize
    SNDBUF = 2
    PTYIN = 1
    MAX_PAYLOAD = 1
    KEYS = 0
    MaxOutput = 2
    Deaths <- OneDeath
    Faults = {"slow"}
    HISTORY_CAP = 2
    SEND_QUEUE_CAP = 2
    Newlines = {2}
INVARIANT
    DumpExact
PROPERTIES
    DumpEnds
    ClientsEnd
