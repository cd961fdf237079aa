CONSTANTS
    Clients = {c1}
    StrKeys = {}
    HashKeys = {}
    ListKeys = {}
    ZKeys = {z}
    Fields = {}
    HVals = {}
    LVals = {}
    Elems = {e1, e2}
    Scores = {1, 2}
    Incs = {}
    StrVals = {}
    Secs = {0}
    IntBits = 2
    MaxTime = 1
    MaxOps = 2
    Cmds <- ZAddCmds
    Nil = Nil
SPECIFICATION Spec
INVARIANTS ZSetIndexConsistent
