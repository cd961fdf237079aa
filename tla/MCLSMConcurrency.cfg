CONSTANTS
    Keys <- MCKeys
    Vals = {v1}
    Tomb = Tomb
    NoValue = NoValue
    LSM_PER_MEM_SIZE_LIMIT = 2
    LSM_TOL_MEM_SIZE_LIMIT = 2
    LSM_SST_LEVEL_RATIO = 2
    MaxLevel = 2
    Threads = {t1, t2}
    MaxOps = 4
    Calls = {"put", "remove", "get", "clear", "flush", "flush_all", "range"}
    None = None
SPECIFICATION FairSpec
INVARIANTS TypeOK GetLinearizable
PROPERTIES CallsComplete
