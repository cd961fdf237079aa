CONSTANTS
    Keys <- MCKeys
    Vals = {v1}
    Tomb = Tomb
    NoValue = NoValue
    LSM_PER_MEM_SIZE_LIMIT = 2
    LSM_TOL_MEM_SIZE_LIMIT = 4
    LSM_SST_LEVEL_RATIO = 2
    MaxLevel = 2
    Threads = {t1, t2}
    MaxOps = 5
    Calls = {"put", "remove", "range"}
    None = None
SPECIFICATION Spec
INVARIANT RangeSound
