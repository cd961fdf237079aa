CONSTANTS
    Clients = {c1}
    StrKeys = {}
    HashKeys = {}
    ListKeys = {}
    ZKeys = {z}
    Fields = {}
    HVals = {}
    LVals = {}
    Elems = {e1}
    Scores = {1}
    Incs = {}
    StrVals = {}
    Secs = {0}
    IntBits = 2
    MaxTime = 1
    MaxOps = 2
    Cmds <- ZAddDelCmds
    Nil = Nil
SPECIFICATION Spec
PROPERTIES RefinesRedisStore
