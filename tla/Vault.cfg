SPECIFICATION VaultSpec
CONSTANTS
    u1 = u1
    u2 = u2
    vault = vault
    BPS_DENOM = 10000
    FUNDING_SCALE = 10000
    Users <- MC_Users
    Vault = vault
    Amounts <- MC_Amounts
    ShareAmounts <- MC_ShareAmounts
    FAUCET_MAX = 2
    MaxSupply = 5
    MaxShares = 6
INVARIANTS VaultTypeOK Solvent SharesMatch
PROPERTIES ShareValueKept DepositIsFair LastShareTakesAll
