SPECIFICATION Spec
CONSTANTS
    i1 = i1
    i2 = i2
    i3 = i3
    Inv = {i1, i2}
    Program <- TwoCreates
    NoFile = NoFile
    Trouble = {"exit"}
PROPERTY GuardOwnFile
