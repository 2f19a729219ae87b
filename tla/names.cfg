SPECIFICATION NamesSpec
CONSTANTS
    i1 = i1
    i2 = i2
    i3 = i3
    Inv = {i1, i2, i3}
    Program <- OneOfEach
    NoFile = NoFile
    Trouble = {"overlap", "exit", "kill", "fork", "forkpty", "exec"}
INVARIANTS TypeOK StartupTruthful Reachable
PROPERTIES InvocationsEnd
