SPECIFICATION Spec
CONSTANTS
    MaxPositions = 1
    MaxOrders = 1
    MaxLog = 4
    Retention = 3
    PageLimit = 2
    NoCursor = NoCursor
    MaxPagesPerCycle = 2
    seed = seed
    engine = engine
    junk = junk
    Unset = Unset
    ContractIds = {engine}
    Seeds = {seed}
    Envs <- MC_Envs
    Artifact <- MC_Artifact
    FALLBACK_ENGINE = engine
    DEFAULT_LOOKBACK = 3
    Markets = {1}
    MaxFaults = 0
    NoTx = NoTx
PROPERTIES RetainedServed
CHECK_DEADLOCK FALSE
