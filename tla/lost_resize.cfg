SPECIFICATION FairSpec
CONSTANTS
    Kinds <- AllKinds
    MaxResizes = 1
    Early = FALSE
PROPERTY ResizeForwarded
