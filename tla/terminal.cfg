SPECIFICATION CommandSpec
CONSTANTS
    Kinds <- AllKinds
    MaxResizes = 3
    Early = FALSE
    Words <- SomeWords
    MaxArgs = 4
    Names <- SomeNames
    Host = "here"
    Entries <- SomeEntries
    Usable <- SomeUsable
INVARIANTS
    TypeOK
    TerminalRestored
    ResizeRemembered
    ParseMeans
    ListComplete
    ListResolves
