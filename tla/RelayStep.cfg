SPECIFICATION Spec
CONSTANTS
    mock = mock
    pyth = pyth
    Feeds = {"eur"}
    Assets = {"eurc"}
    Feed = "eur"
    Asset = "eurc"
    OtherQuotes <- MC_OtherQuotes
    Flags <- MC_Flags
    Mock = mock
    Decimals <- MC_Decimals
    PRICE_DECIMALS = 7
    BPS_DENOM = 10000
    Guards <- MC_Guards
    DeployGuards <- DeployedGuards
    RawPrices <- MC_RawPrices
    MaxTime = 1
    NoAsset = NoAsset
    NoQuote = NoQuote
    NoPrice = NoPrice
    BasePrice = 120
    RealPrices = {120, 210}
    MAX_RELAY_STEP = 35
    MAX_TICK = 1
    MAX_DRIFT = 1
    MaxOps = 0
    MaxFaults = 0
INVARIANTS RelayStepAccepted
