SPECIFICATION TradeSpec
CONSTANTS
    alice = alice
    bob = bob
    vault = vault
    xau = xau
    eur = eur
    feed = feed
    Users <- MC_Users
    Vault = vault
    BPS_DENOM = 10000
    FUNDING_SCALE = 10000
    Amounts = {3}
    ShareAmounts = {50}
    FAUCET_MAX = 40
    MaxSupply = 90
    MaxShares = 200
    Admin = bob
    FirstKeeper = bob
    Grantees = {}
    MarketIds = {xau}
    Configs <- MC_Configs
    NoMarket = NoMarket
    MaxPositions = 2
    MaxOrders = 1
    MaxCumFunding = 1000
    NoPosition = NoPosition
    NoOrder = NoOrder
    Feeds = {feed}
    Prices = {80, 94, 110}
    Margins = {13}
    Notionals = {40, 100}
    Triggers = {90}
    RefPrices = {94}
    MaxTxs = 5
    Slippages = {1600}
    Endowment <- MC_Endowment
    SeedLp = bob
    SeedLiquidity = 10
    StartMarkets <- MC_StartMarkets
    StartPrice <- MC_StartPrice
INVARIANTS TypeOK Backing OiMatches LivePositions LiquidationPriceTells
PROPERTIES HealthOnlyLostToMarket LpMarkKept FundingBounded CustodyKept
CHECK_DEADLOCK FALSE
