CONSTANTS
    Clients = {c1, c2}
    StrKeys = {s}
    HashKeys = {h}
    ListKeys = {l}
    ZKeys = {z}
    Fields = {f1, f2}
    HVals = {v1}
    LVals = {x1}
    Elems = {e1}
    Scores = {1}
    Incs = {1}
    StrVals = {1}
    Secs = {0}
    IntBits = 2
    MaxTime = 1
    MaxOps = 3
    Cmds <- IndexCmds
    Nil = Nil
SPECIFICATION Spec
INVARIANTS TypeOK HashIndexConsistent
PROPERTIES CommandsComplete
