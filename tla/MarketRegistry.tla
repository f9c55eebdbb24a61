--------------------------- MODULE MarketRegistry ---------------------------
(***************************************************************************)
(* The controller: market configurations, the pause switches and the       *)
(* keeper and pauser roles.  perp_engine reads all of it in every call.    *)
(* Roles live in the access-control library; grant and revoke are the      *)
(* entry points it adds to the contract.                                   *)
(***************************************************************************)
EXTENDS HelixShared

CONSTANTS
    Admin,        \* the super-admin
    FirstKeeper,  \* the keeper named at construction
    Grantees,     \* the users whose roles change in an instance
    MarketIds,
    Feeds,        \* oracle feed keys
    Configs,      \* the configurations an admin submits in an instance
    NoMarket      \* the value of an absent Market(id) key

\* The id is the index of markets, the display symbol is left out.
MarketConfig ==
    [feed : Feeds, max_leverage : Nat, imr_bps : Nat, mmr_bps : Nat,
     taker_fee_bps : Nat, liquidation_fee_bps : Nat, max_oi : Int,
     min_position_size : Int, max_funding_rate_bps : Nat, paused : BOOLEAN]

ASSUME RegistryAssumption ==
    /\ Admin \in Users
    /\ FirstKeeper \in Users
    /\ Grantees \subseteq Users
    /\ Configs \subseteq MarketConfig
    /\ NoMarket \notin MarketConfig

VARIABLES
    markets,       \* markets[m]: the configuration stored under Market(m)
    marketIds,     \* the ids listed under MarketIds
    globalPaused,
    keepers,       \* who holds the `keeper` role
    pausers        \* who holds the `pauser` role

registryVars == <<markets, marketIds, globalPaused, keepers, pausers>>

RegistryTypeOK ==
    /\ markets \in [MarketIds -> MarketConfig \cup {NoMarket}]
    /\ marketIds \subseteq MarketIds
    /\ globalPaused \in BOOLEAN
    /\ keepers \subseteq Users
    /\ pausers \subseteq Users

\* The comparisons of validate.  Its caps on the two fees are 10% and 50%.
Validate(cfg) ==
    /\ cfg.max_leverage >= 1
    /\ cfg.imr_bps > 0
    /\ cfg.mmr_bps > 0
    /\ cfg.mmr_bps < cfg.imr_bps
    /\ cfg.imr_bps * cfg.max_leverage >= BPS_DENOM
    /\ cfg.taker_fee_bps < 1000
    /\ cfg.liquidation_fee_bps < 5000
    /\ cfg.max_oi > 0
    /\ cfg.min_position_size > 0
    /\ cfg.min_position_size <= cfg.max_oi

HasMarket(m) == markets[m] # NoMarket

IsKeeper(who) == who \in keepers

AddMarket(m, cfg) ==
    /\ ~HasMarket(m)
    /\ Validate(cfg)
    /\ marketIds' = marketIds \cup {m}
    /\ markets' = [markets EXCEPT ![m] = cfg]
    /\ UNCHANGED <<globalPaused, keepers, pausers>>

\* Mutation: an update is stored unchecked.
UpdateMarket_Unchecked(m, cfg) ==
    /\ HasMarket(m)
    /\ markets' = [markets EXCEPT ![m] = cfg]
    /\ UNCHANGED <<marketIds, globalPaused, keepers, pausers>>

\* The whole record is replaced, its paused flag included.
UpdateMarket(m, cfg) ==
    /\ HasMarket(m)
    /\ Validate(cfg)
    /\ markets' = [markets EXCEPT ![m] = cfg]
    /\ UNCHANGED <<marketIds, globalPaused, keepers, pausers>>

SetMarketPaused(caller, m, paused) ==
    /\ caller \in pausers
    /\ HasMarket(m)
    /\ markets' = [markets EXCEPT ![m].paused = paused]
    /\ UNCHANGED <<marketIds, globalPaused, keepers, pausers>>

\* The pausable library refuses to pause twice, and to unpause when running.
Pause(caller) ==
    /\ caller \in pausers
    /\ ~globalPaused
    /\ globalPaused' = TRUE
    /\ UNCHANGED <<markets, marketIds, keepers, pausers>>

Unpause(caller) ==
    /\ caller \in pausers
    /\ globalPaused
    /\ globalPaused' = FALSE
    /\ UNCHANGED <<markets, marketIds, keepers, pausers>>

GrantRole(who) ==
    /\ \/ keepers' = keepers \cup {who} /\ UNCHANGED pausers
       \/ pausers' = pausers \cup {who} /\ UNCHANGED keepers
    /\ UNCHANGED <<markets, marketIds, globalPaused>>

\* Revoked by the admin, or renounced by the holder.
RevokeRole(who) ==
    /\ \/ who \in keepers /\ keepers' = keepers \ {who} /\ UNCHANGED pausers
       \/ who \in pausers /\ pausers' = pausers \ {who} /\ UNCHANGED keepers
    /\ UNCHANGED <<markets, marketIds, globalPaused>>

PauseNext ==
    \E c \in Users :
        \/ Pause(c)
        \/ Unpause(c)
        \/ \E m \in MarketIds, p \in BOOLEAN : SetMarketPaused(c, m, p)

AdminNext ==
    \/ \E m \in MarketIds, cfg \in Configs : AddMarket(m, cfg) \/ UpdateMarket(m, cfg)
    \/ \E who \in Grantees : GrantRole(who) \/ RevokeRole(who)

RegistryNext == PauseNext \/ AdminNext

\* Whatever was listed, updated, paused and unpaused, the id list the clients
\* walk names exactly the stored markets, and each stored configuration passes
\* validate: the engine's sizing checks are written against its inequalities.
RegistryConsistent ==
    /\ marketIds = {m \in MarketIds : HasMarket(m)}
    /\ \A m \in marketIds : Validate(markets[m])

=============================================================================
