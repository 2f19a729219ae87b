SPECIFICATION ServerFairSpec
CONSTANTS
    Conn = {1, 2}
    Kind <- AttachProbe
    TermSize <- SameSize
    SNDBUF = 2
    PTYIN = 1
    MAX_PAYLOAD = 1
    KEYS = 0
    MaxOutput = 1
    Deaths <- OneDeath
    Faults = {"sigterm", "slow", "background"}
    HISTORY_CAP = 2
    SEND_QUEUE_CAP = 6
    Newlines = {2}
PROPERTIES
    ServerEnds
    ShutdownHonoured
