SPECIFICATION OrdersSpec
CONSTANTS
    alice = alice
    bob = bob
    vault = vault
    xau = xau
    eur = eur
    feed = feed
    Users <- MC_Users
    Vault = vault
    BPS_DENOM = 10000
    FUNDING_SCALE = 10000
    Amounts = {}
    ShareAmounts = {50}
    FAUCET_MAX = 40
    MaxSupply = 180
    MaxShares = 200
    Admin = bob
    FirstKeeper = bob
    Grantees = {}
    MarketIds = {xau}
    Configs <- MC_Configs
    NoMarket = NoMarket
    MaxPositions = 2
    MaxOrders = 2
    MaxCumFunding = 1000
    NoPosition = NoPosition
    NoOrder = NoOrder
    Feeds = {feed}
    Prices = {80, 94}
    Margins = {13}
    Notionals = {100}
    Triggers = {90}
    RefPrices = {94}
    MaxTxs = 5
    Slippages = {1600}
    Endowment <- MC_Endowment
    SeedLp = bob
    SeedLiquidity = 100
    StartMarkets <- MC_StartMarkets
    StartPrice <- MC_StartPrice
INVARIANTS Backing IndexConsistent StopTargetsOwn ExitsFunded
PROPERTIES LpMarkKept CustodyKept
CHECK_DEADLOCK FALSE
