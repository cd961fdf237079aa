CONSTANTS
    Keys <- MCKeys
    Vals = {v1}
    Tomb = Tomb
    NoValue = NoValue
    LSM_PER_MEM_SIZE_LIMIT = 2
    LSM_TOL_MEM_SIZE_LIMIT = 4
    LSM_SST_LEVEL_RATIO = 2
    MaxLevel = 3
    MaxWrites = 5
    BatchKeys <- MCBatchKeys
    MaxRestarts = 1
SPECIFICATION SpecWithRestart
PROPERTIES RecoveryPreservesDurable
CHECK_DEADLOCK FALSE
