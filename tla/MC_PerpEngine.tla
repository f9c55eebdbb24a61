--------------------------- MODULE MC_PerpEngine ----------------------------
(***************************************************************************)
(* Instances of the engine: two users who both trade, bob being also the   *)
(* admin, the keeper and the seeding LP.  Amounts and rates are chosen so  *)
(* that every division rounds, prices so that each move makes somebody     *)
(* liquidatable and some make a position worth less than nothing.          *)
(***************************************************************************)
EXTENDS PerpEngine

CONSTANTS alice, bob, vault, xau, eur, feed,
          MaxTxs   \* bound on the transactions of a behaviour (price moves are free)

VARIABLE txs

mcVars == <<vars, txs>>

MC_Users == {alice, bob}
MC_Config(fee, paused) ==
    [feed |-> feed, max_leverage |-> 10, imr_bps |-> 1000, mmr_bps |-> 500,
     taker_fee_bps |-> fee, liquidation_fee_bps |-> 200, max_oi |-> 200,
     min_position_size |-> 50, max_funding_rate_bps |-> 1000, paused |-> paused]

\* Two fee levels, a paused market and one that validate refuses.
MC_Configs == {MC_Config(100, FALSE), MC_Config(300, TRUE), MC_Config(1000, FALSE)}
MC_StartMarkets ==
    [m \in MarketIds |-> IF m = xau THEN MC_Config(100, FALSE) ELSE NoMarket]
MC_StartPrice == [f \in {feed} |-> 94]
MC_Endowment == [u \in MC_Users |-> 40]

MCInit == Init /\ txs = 0

SwitchNext ==
    /\ \E c \in Users : Pause(c) \/ Unpause(c)
    /\ UNCHANGED <<tokenVars, vaultVars, engineVars, price>>

Tx == txs < MaxTxs /\ txs' = txs + 1

\* Trading: positions, liquidations and funding.
TradeNext ==
    \/ Tx /\ (PositionNext \/ KeeperNext)
    \/ PriceMove /\ UNCHANGED txs
TradeSpec == MCInit /\ [][TradeNext]_mcVars

\* Conditional orders, with the positions they open and close, LPs who redeem and
\* the global switch.
OrdersNext ==
    \/ Tx /\ (PositionNext \/ OrderNext \/ KeeperNext \/ PoolNext \/ SwitchNext)
    \/ PriceMove /\ UNCHANGED txs
OrdersSpec == MCInit /\ [][OrdersNext]_mcVars

\* Everything, orders, LPs and the registry included.
FullNext ==
    \/ Tx /\ (PositionNext \/ OrderNext \/ KeeperNext \/ PoolNext \/ ControlNext)
    \/ PriceMove /\ UNCHANGED txs
FullSpec == MCInit /\ [][FullNext]_mcVars

=============================================================================
