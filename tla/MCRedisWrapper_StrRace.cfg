CONSTANTS
    Clients = {c1, c2}
    StrKeys = {s}
    HashKeys = {}
    ListKeys = {}
    ZKeys = {}
    Fields = {}
    HVals = {}
    LVals = {}
    Elems = {}
    Scores = {}
    Incs = {}
    StrVals = {1}
    Secs = {0}
    IntBits = 2
    MaxTime = 1
    MaxOps = 4
    Cmds <- StrRaceCmds
    Nil = Nil
SPECIFICATION Spec
PROPERTIES CleanupRemovesOnlyExpired
