SPECIFICATION MCSpec
CONSTANTS
    alice = alice
    bob = bob
    vault = vault
    xau = xau
    feed = feed
    Users <- MC_Users
    Vault = vault
    BPS_DENOM = 10000
    FUNDING_SCALE = 10000
    Amounts = {7}
    ShareAmounts = {}
    FAUCET_MAX = 40
    MaxSupply = 80
    MaxShares = 2000
    Admin = bob
    FirstKeeper = bob
    Grantees = {}
    MarketIds = {xau}
    Configs = {}
    NoMarket = NoMarket
    MaxPositions = 2
    MaxOrders = 2
    MaxCumFunding = 1000
    NoPosition = NoPosition
    NoOrder = NoOrder
    Feeds = {feed}
    Prices = {80, 94}
    Margins = {}
    Notionals = {}
    Triggers = {}
    RefPrices = {}
    Slippages = {}
    Endowment <- MC_Endowment
    SeedLp = bob
    SeedLiquidity = 10
    StartMarkets <- MC_StartMarkets
    StartPrice <- MC_StartPrice
    SCALE = 100
    CENT = 2
    TOL = 1
    AmountInputs = {0, 15}
    TriggerInputs = {90}
    Leverages = {3, 20}
    Slippage = 100
    FaucetAmount = 9
    NoUser = NoUser
    Unfunded = {alice}
    MaxRecords = 2
    MaxWrites = 3
    MaxFaults = 1
    MaxMoves = 1
    Traders <- MC_Users
    Sizes = {20}
    Profits <- MC_Profits
    LOOKBACK_WINDOWS <- MC_Windows
    EVENTS_PAGE_LIMIT = 1
    MAX_PAGES = 2
    Retained = 2
    MaxLedgers = 3
    MaxFetches = 1
    MaxLapses = 1
INVARIANTS TxTypeOK FormsMirrorEngine FormsShowTruth RowsTrackChain RetryDoublesOnlyLost BoardCountsOnce
PROPERTIES LifecycleRefines
CHECK_DEADLOCK FALSE
