SPECIFICATION Spec
CONSTANTS
    MaxPositions = 2
    MaxOrders = 1
    MaxLog = 4
    Retention = 3
    PageLimit = 2
    NoCursor = NoCursor
    MaxPagesPerCycle = 2
    seed = seed
    engine = engine
    junk = junk
    Unset = Unset
    ContractIds = {engine}
    Seeds = {seed}
    Envs <- MC_Envs
    Artifact <- MC_Artifact
    FALLBACK_ENGINE = engine
    DEFAULT_LOOKBACK = 2
    Markets = {1}
    MaxFaults = 1
    NoTx = NoTx
INVARIANTS KeeperTypeOK WindowFolded
PROPERTIES LiveNeverDropped PositionsServed OrdersServed ShutdownFinishes
CHECK_DEADLOCK FALSE
