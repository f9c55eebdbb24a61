----------------------------- MODULE PerpEngine -----------------------------
(***************************************************************************)
(* The position manager, composed with the vault that holds the money and  *)
(* the registry that configures the markets.  Every entry point is one     *)
(* transaction across the three contracts: any failed check reverts all of *)
(* it, so an action is the conjunction of the checks, in whichever         *)
(* contract they stand, and of the resulting state.                        *)
(*                                                                         *)
(* oracle_adapter is seen through get_price: price[f] is what a call       *)
(* returns now, or NoPrice when it reverts (no feed, stale, deviating).    *)
(*                                                                         *)
(* Ids are allocated from counters and never reused.  Trader and keeper    *)
(* signatures are the choice of the caller in the action's quantifier.     *)
(***************************************************************************)
EXTENDS CollateralVault, MarketRegistry

CONSTANTS
    MaxPositions, MaxOrders,   \* bounds of an instance on the ids allocated
    MaxCumFunding,             \* bound of an instance on the funding index
    NoPosition, NoOrder,       \* the value of an absent Position / Order key
    Prices,                    \* the prices a feed can report
    Margins, Notionals,        \* the arguments callers pass in an instance
    Triggers, RefPrices, Slippages,
    Endowment,                 \* Endowment[u]: tokens of u once deployed
    SeedLp, SeedLiquidity,     \* the deployer's deposit, and who holds its shares
    StartMarkets,              \* StartMarkets[m]: the markets listed at deployment
    StartPrice                 \* StartPrice[f]: the first price of feed f

ASSUME EngineAssumption ==
    /\ MaxPositions \in Nat /\ MaxOrders \in Nat /\ MaxCumFunding \in Nat
    /\ Prices \subseteq Nat
    /\ Margins \subseteq Int /\ Notionals \subseteq Int
    /\ Triggers \subseteq Int /\ RefPrices \subseteq Int /\ Slippages \subseteq Nat
    /\ Endowment \in [Users -> Nat]
    /\ SeedLp \in Users /\ SeedLiquidity \in Nat
    /\ StartPrice \in [Feeds -> Prices]

\* The markets listed at deployment have passed add_market.
ASSUME StartMarketsAssumption ==
    /\ StartMarkets \in [MarketIds -> MarketConfig \cup {NoMarket}]
    /\ \A m \in MarketIds : StartMarkets[m] # NoMarket => Validate(StartMarkets[m])

VARIABLES
    positions,      \* positions[i]: the record stored under Position(i)
    nextId,
    userPositions,  \* userPositions[u]: the ids listed under UserPositions(u)
    orders, nextOrderId, userOrders,
    oi,             \* oi[m][side]: LongOi(m) and ShortOi(m)
    cumFunding,     \* cumFunding[m]: the cumulative funding index
    price

positionVars == <<positions, nextId, userPositions>>
orderVars    == <<orders, nextOrderId, userOrders>>
engineVars   == <<positionVars, orderVars, oi, cumFunding>>
vars == <<tokenVars, vaultVars, registryVars, engineVars, price>>

NoPrice == -1
Above == "Above"
Below == "Below"

PositionIds == 0 .. MaxPositions - 1
OrderIds    == 0 .. MaxOrders - 1

Position ==
    [owner : Users, market : MarketIds, side : Sides, margin : Nat, notional : Nat,
     entry_price : Nat, entry_funding : Int]

Order ==
    [owner : Users, market : MarketIds, side : Sides, margin : Nat, notional : Nat,
     trigger : Nat, dir : {Above, Below}, reduce : BOOLEAN, reduce_position : Nat,
     slippage : Nat]

ASSUME AbsenceAssumption == NoPosition \notin Position /\ NoOrder \notin Order

Open(id) == positions[id] # NoPosition
Resting(id) == orders[id] # NoOrder

Feed(m) == markets[m].feed
Priced(m) == HasMarket(m) /\ price[Feed(m)] # NoPrice
Mark(m) == price[Feed(m)]

-----------------------------------------------------------------------------
(* Reading a position at a price.                                          *)

FundingOwed(p) ==
    FundingPayment(p.notional, cumFunding[p.market], p.entry_funding, p.side)

Pnl(p, notional) == PositionPnl(notional, p.entry_price, Mark(p.market), p.side)

\* A position can be valued: the oracle answers, and the division by the entry
\* price does not trap.
Valued(p) == Priced(p.market) /\ p.entry_price # 0

Equity(p) == p.margin + Pnl(p, p.notional) - FundingOwed(p)
Maintenance(p) == ApplyBps(p.notional, markets[p.market].mmr_bps)
Fee(m, notional) == ApplyBps(notional, markets[m].taker_fee_bps)
Liquidatable(p) == Equity(p) < Maintenance(p)

\* Mutation: the funding that has accrued is forgotten.
LiquidationPrice_FundingForgotten(p) ==
    LET away == MulDiv(p.entry_price, Maintenance(p) - p.margin, p.notional) IN
    MaxOf(IF p.side = Long THEN p.entry_price + away ELSE p.entry_price - away, 0)

\* What position_view reports: the mark at which equity meets maintenance.
LiquidationPrice(p) ==
    LET lacking == Maintenance(p) - p.margin + FundingOwed(p)
        away == MulDiv(p.entry_price, lacking, p.notional)
    IN  MaxOf(IF p.side = Long THEN p.entry_price + away ELSE p.entry_price - away, 0)

EnsureActive(m) == ~globalPaused /\ ~markets[m].paused

SlippageOk(mark, refPrice, maxSlippage) ==
    refPrice > 0 => (AbsDiff(mark, refPrice) * BPS_DENOM) \div refPrice <= maxSlippage

LeverageOk(m, margin, notional) == notional <= margin * markets[m].max_leverage
InitialMarginOk(m, margin, notional) == margin >= ApplyBps(notional, markets[m].imr_bps)
OiRoom(m, side, notional) == oi[m][side] + notional <= markets[m].max_oi

ValidateSizing(m, side, margin, notional) ==
    /\ notional >= markets[m].min_position_size
    /\ LeverageOk(m, margin, notional)
    /\ InitialMarginOk(m, margin, notional)
    /\ OiRoom(m, side, notional)

\* Mutation: a position may be adjusted when funding has eaten all its margin.
FundingCovered_OffByOne(p) == FundingOwed(p) <= p.margin

\* increase and decrease refuse a position whose accrued funding exceeds its margin.
FundingCovered(p) == FundingOwed(p) < p.margin

\* Mutation: a withdrawal is checked against the collateral at cost.
WithdrawalOk_AtCost(p, left) ==
    LeverageOk(p.market, left.margin, p.notional) /\ left.margin >= Maintenance(p)

WithdrawalOk(p, left) ==
    /\ LeverageOk(p.market, left.margin, p.notional)
    /\ Equity(left) >= Maintenance(p)

\* Mutation: the closed part is paid the profit of the whole position.
PartialPayout_WholePnl(p, closedMargin, closeNotional) ==
    MaxOf(closedMargin + Pnl(p, p.notional) - Fee(p.market, closeNotional), 0)

PartialPayout(p, closedMargin, closeNotional) ==
    MaxOf(closedMargin + Pnl(p, closeNotional) - Fee(p.market, closeNotional), 0)

Triggered(dir, mark, trigger) ==
    IF dir = Above THEN mark >= trigger ELSE mark <= trigger

-----------------------------------------------------------------------------
(* Fragments shared by the entry points.                                   *)

SetOi(m, side, value) == oi' = [oi EXCEPT ![m][side] = value]

CreatePosition(trader, m, side, margin, notional) ==
    /\ nextId < MaxPositions
    /\ nextId' = nextId + 1
    /\ positions' = [positions EXCEPT ![nextId] =
           [owner |-> trader, market |-> m, side |-> side, margin |-> margin,
            notional |-> notional, entry_price |-> Mark(m),
            entry_funding |-> cumFunding[m]]]
    /\ userPositions' = [userPositions EXCEPT ![trader] = @ \cup {nextId}]
    /\ SetOi(m, side, oi[m][side] + notional)

\* Mutation: the open interest of the closed position stays counted.
RemovePosition_OiKept(id) ==
    /\ positions' = [positions EXCEPT ![id] = NoPosition]
    /\ userPositions' = [userPositions EXCEPT ![positions[id].owner] = @ \ {id}]
    /\ UNCHANGED <<nextId, oi>>

\* Mutation: the id of the closed position is given out again.
RemovePosition_IdFreed(id) ==
    LET p == positions[id] IN
    /\ positions' = [positions EXCEPT ![id] = NoPosition]
    /\ userPositions' = [userPositions EXCEPT ![p.owner] = @ \ {id}]
    /\ SetOi(p.market, p.side, oi[p.market][p.side] - p.notional)
    /\ nextId' = id

RemovePosition(id) ==
    LET p == positions[id] IN
    /\ positions' = [positions EXCEPT ![id] = NoPosition]
    /\ userPositions' = [userPositions EXCEPT ![p.owner] = @ \ {id}]
    /\ SetOi(p.market, p.side, oi[p.market][p.side] - p.notional)
    /\ UNCHANGED nextId

StorePosition(id, p) ==
    /\ positions' = [positions EXCEPT ![id] = p]
    /\ UNCHANGED <<nextId, userPositions>>

StoreOrder(trader, order) ==
    /\ nextOrderId < MaxOrders
    /\ nextOrderId' = nextOrderId + 1
    /\ orders' = [orders EXCEPT ![nextOrderId] = order]
    /\ userOrders' = [userOrders EXCEPT ![trader] = @ \cup {nextOrderId}]

\* Mutation: the record goes, the owner's index still lists it.
RemoveOrder_IndexKept(id) ==
    orders' = [orders EXCEPT ![id] = NoOrder] /\ UNCHANGED <<nextOrderId, userOrders>>

\* Mutation: the owner's index forgets the order, the record stays.
RemoveOrder_RecordKept(id) ==
    /\ userOrders' = [userOrders EXCEPT ![orders[id].owner] = @ \ {id}]
    /\ UNCHANGED <<nextOrderId, orders>>

RemoveOrder(id) ==
    /\ orders' = [orders EXCEPT ![id] = NoOrder]
    /\ userOrders' = [userOrders EXCEPT ![orders[id].owner] = @ \ {id}]
    /\ UNCHANGED nextOrderId

ClosePayout(p) == MaxOf(Equity(p) - Fee(p.market, p.notional), 0)

\* The whole of close_position after the ownership check; also how a stop fills.
CloseInternal(id) ==
    LET p == positions[id] IN
    /\ Valued(p)
    /\ Settle(p.owner, p.margin, ClosePayout(p))
    /\ RemovePosition(id)

-----------------------------------------------------------------------------
(* Trader entry points.                                                    *)

CanOpen(m, side, margin, notional, refPrice, maxSlippage) ==
    /\ margin > 0 /\ notional > 0
    /\ HasMarket(m) /\ EnsureActive(m)
    /\ Priced(m)
    /\ SlippageOk(Mark(m), refPrice, maxSlippage)
    /\ ValidateSizing(m, side, margin, notional)

OpenPosition(trader, m, side, margin, notional, refPrice, maxSlippage) ==
    /\ CanOpen(m, side, margin, notional, refPrice, maxSlippage)
    /\ LockMargin(trader, margin, Fee(m, notional))
    /\ CreatePosition(trader, m, side, margin, notional)
    /\ UNCHANGED <<registryVars, orderVars, cumFunding, price>>

\* owned_position: the record exists and the signer owns it.
Owned(trader, id) == Open(id) /\ positions[id].owner = trader

ClosePosition(trader, id) ==
    /\ Owned(trader, id)
    /\ CloseInternal(id)
    /\ UNCHANGED <<registryVars, orderVars, cumFunding, price>>

AddPositionMargin(trader, id, amount) ==
    /\ Owned(trader, id)
    /\ AddMargin(trader, amount)
    /\ StorePosition(id, [positions[id] EXCEPT !.margin = @ + amount])
    /\ UNCHANGED <<registryVars, orderVars, oi, cumFunding, price>>

Withdrawn(p, amount) == [p EXCEPT !.margin = @ - amount]

CanWithdraw(trader, id, amount) ==
    LET p == positions[id] IN
    /\ Owned(trader, id)
    /\ amount > 0
    /\ p.margin - amount > 0
    /\ Valued(p)
    /\ WithdrawalOk(p, Withdrawn(p, amount))

RemovePositionMargin(trader, id, amount) ==
    /\ CanWithdraw(trader, id, amount)
    /\ Settle(trader, amount, amount)
    /\ StorePosition(id, Withdrawn(positions[id], amount))
    /\ UNCHANGED <<registryVars, orderVars, oi, cumFunding, price>>

\* Funding is realised, then the margin and the fee are pulled: two vault calls.
Increase(trader, id, margin, notional, refPrice, maxSlippage) ==
    LET p == positions[id]
        m == p.market
        funding == FundingOwed(p)
        fee == Fee(m, notional)
        newNotional == p.notional + notional
        newMargin == p.margin - funding + margin
        newEntry == (p.notional * p.entry_price + notional * Mark(m)) \div newNotional
    IN  /\ Owned(trader, id)
        /\ margin > 0 /\ notional > 0
        /\ HasMarket(m) /\ EnsureActive(m)
        /\ Priced(m)
        /\ SlippageOk(Mark(m), refPrice, maxSlippage)
        /\ FundingCovered(p)
        /\ engineSet /\ CanRealize(pools, funding)
        /\ OiRoom(m, p.side, notional)
        /\ CanLock(balance, trader, margin, fee)
        /\ LeverageOk(m, newMargin, newNotional)
        /\ InitialMarginOk(m, newMargin, newNotional)
        /\ pools' = Locked(Realized(pools, funding), margin, fee)
        /\ balance' = Transferred(balance, trader, Vault, margin + fee)
        /\ StorePosition(id, [p EXCEPT !.notional = newNotional, !.margin = newMargin,
               !.entry_price = newEntry, !.entry_funding = cumFunding[m]])
        /\ SetOi(m, p.side, oi[m][p.side] + notional)
        /\ UNCHANGED <<totalSupply, engineSet, totalShares, shares, registryVars,
                       orderVars, cumFunding, price>>

\* Funding is realised on the whole position, then the closed part is settled.
Decrease(trader, id, closeNotional, refPrice, maxSlippage) ==
    LET p == positions[id]
        m == p.market
        funding == FundingOwed(p)
        margin == p.margin - funding
        closedMargin == MulDiv(margin, closeNotional, p.notional)
        payout == PartialPayout(p, closedMargin, closeNotional)
        realized == Realized(pools, funding)
    IN  /\ Owned(trader, id)
        /\ closeNotional > 0 /\ closeNotional < p.notional
        /\ Valued(p)
        /\ SlippageOk(Mark(m), refPrice, maxSlippage)
        /\ FundingCovered(p)
        /\ engineSet /\ CanRealize(pools, funding)
        /\ CanMovePools(realized, closedMargin, payout)
        /\ CanPay(balance, payout)
        /\ pools' = MovedPools(realized, closedMargin, payout)
        /\ balance' = Paid(balance, trader, payout)
        /\ StorePosition(id, [p EXCEPT !.notional = @ - closeNotional,
               !.margin = margin - closedMargin, !.entry_funding = cumFunding[m]])
        /\ SetOi(m, p.side, oi[m][p.side] - closeNotional)
        /\ UNCHANGED <<totalSupply, engineSet, totalShares, shares, registryVars,
                       orderVars, cumFunding, price>>

CanPlace(m, side, margin, notional, trigger) ==
    /\ margin > 0 /\ notional > 0
    /\ trigger > 0
    /\ HasMarket(m) /\ EnsureActive(m)
    /\ ValidateSizing(m, side, margin, notional)

\* An entry order: its margin and the taker fee are escrowed at once.
PlaceOrder(trader, m, side, margin, notional, trigger, dir, slippage) ==
    /\ CanPlace(m, side, margin, notional, trigger)
    /\ LockMargin(trader, margin, Fee(m, notional))
    /\ StoreOrder(trader,
           [owner |-> trader, market |-> m, side |-> side, margin |-> margin,
            notional |-> notional, trigger |-> trigger, dir |-> dir, reduce |-> FALSE,
            reduce_position |-> 0, slippage |-> slippage])
    /\ UNCHANGED <<registryVars, positionVars, oi, cumFunding, price>>

\* A stop: no escrow, and neither pause switch is read.
PlaceStop(trader, id, trigger, dir) ==
    LET p == positions[id] IN
    /\ Owned(trader, id)
    /\ trigger > 0
    /\ StoreOrder(trader,
           [owner |-> trader, market |-> p.market, side |-> p.side, margin |-> 0,
            notional |-> p.notional, trigger |-> trigger, dir |-> dir, reduce |-> TRUE,
            reduce_position |-> id, slippage |-> 0])
    /\ UNCHANGED <<tokenVars, vaultVars, registryVars, positionVars, oi, cumFunding, price>>

\* The refunded fee is recomputed from the market's current taker fee.
CancelPayout(o) == o.margin + Fee(o.market, o.notional)

CancelOrder(trader, id) ==
    LET o == orders[id] IN
    /\ Resting(id) /\ o.owner = trader
    /\ IF o.reduce
       THEN UNCHANGED <<tokenVars, vaultVars>>
       ELSE /\ HasMarket(o.market)
            /\ Settle(trader, o.margin, CancelPayout(o))
    /\ RemoveOrder(id)
    /\ UNCHANGED <<registryVars, positionVars, oi, cumFunding, price>>

-----------------------------------------------------------------------------
(* Keeper entry points.                                                    *)

Liquidate(keeper, id) ==
    LET p == positions[id]
        left == MaxOf(Equity(p), 0)
        keeperFee == MinOf(ApplyBps(p.notional, markets[p.market].liquidation_fee_bps), left)
    IN  /\ IsKeeper(keeper)
        /\ Open(id)
        /\ Valued(p)
        /\ Liquidatable(p)
        /\ SettleLiquidation(p.owner, keeper, p.margin, left - keeperFee, keeperFee)
        /\ RemovePosition(id)
        /\ UNCHANGED <<registryVars, orderVars, cumFunding, price>>

\* Mutation: the lighter side pays.
FundingRate_Swapped(m) ==
    LET total == oi[m][Long] + oi[m][Short] IN
    IF total = 0 THEN 0
    ELSE MulDiv(oi[m][Short] - oi[m][Long], markets[m].max_funding_rate_bps, total)

FundingRate(m) ==
    LET total == oi[m][Long] + oi[m][Short] IN
    IF total = 0 THEN 0
    ELSE MulDiv(oi[m][Long] - oi[m][Short], markets[m].max_funding_rate_bps, total)

\* Nothing bounds how often a keeper may call this: the timestamp it records is
\* read by no one.
UpdateFunding(keeper, m) ==
    LET cum == cumFunding[m] + FundingRate(m) * (FUNDING_SCALE \div BPS_DENOM) IN
    /\ IsKeeper(keeper)
    /\ Priced(m)
    /\ cum \in -MaxCumFunding .. MaxCumFunding
    /\ cumFunding' = [cumFunding EXCEPT ![m] = cum]
    /\ UNCHANGED <<tokenVars, vaultVars, registryVars, positionVars, orderVars, oi, price>>

\* Mutation: the pause switches are read at placement only.
CanExecute_PauseIgnored(keeper, id) ==
    LET o == orders[id] IN
    /\ IsKeeper(keeper)
    /\ Resting(id)
    /\ Priced(o.market)
    /\ Triggered(o.dir, Mark(o.market), o.trigger)

CanExecute(keeper, id) ==
    LET o == orders[id] IN
    /\ IsKeeper(keeper)
    /\ Resting(id)
    /\ HasMarket(o.market) /\ EnsureActive(o.market)
    /\ Priced(o.market)
    /\ Triggered(o.dir, Mark(o.market), o.trigger)

\* The margin and the fee were escrowed at placement: the vault is not called.
FillEntry(keeper, id) ==
    LET o == orders[id] IN
    /\ CanExecute(keeper, id)
    /\ ~o.reduce
    /\ SlippageOk(Mark(o.market), o.trigger, o.slippage)
    /\ ValidateSizing(o.market, o.side, o.margin, o.notional)
    /\ CreatePosition(o.owner, o.market, o.side, o.margin, o.notional)
    /\ RemoveOrder(id)
    /\ UNCHANGED <<tokenVars, vaultVars, registryVars, cumFunding, price>>

FillStop(keeper, id) ==
    LET o == orders[id] IN
    /\ CanExecute(keeper, id)
    /\ o.reduce
    /\ Open(o.reduce_position)
    /\ positions[o.reduce_position].owner = o.owner
    /\ CloseInternal(o.reduce_position)
    /\ RemoveOrder(id)
    /\ UNCHANGED <<registryVars, cumFunding, price>>

-----------------------------------------------------------------------------
(* The system.  It starts as the deploy script leaves it: the engine wired *)
(* into the vault, liquidity seeded, markets listed and priced.            *)

Init ==
    /\ balance = [a \in Accounts |-> IF a = Vault THEN SeedLiquidity ELSE Endowment[a]]
    /\ totalSupply = Total(Endowment) + SeedLiquidity
    /\ engineSet = TRUE
    /\ pools = [lp_cash |-> SeedLiquidity, margin_pool |-> 0]
    /\ totalShares = SeedLiquidity
    /\ shares = [u \in Users |-> IF u = SeedLp THEN SeedLiquidity ELSE 0]
    /\ markets = StartMarkets
    /\ marketIds = {m \in MarketIds : StartMarkets[m] # NoMarket}
    /\ globalPaused = FALSE
    /\ keepers = {Admin, FirstKeeper}
    /\ pausers = {Admin}
    /\ positions = [i \in PositionIds |-> NoPosition]
    /\ nextId = 0
    /\ userPositions = [u \in Users |-> {}]
    /\ orders = [i \in OrderIds |-> NoOrder]
    /\ nextOrderId = 0
    /\ userOrders = [u \in Users |-> {}]
    /\ oi = [m \in MarketIds |-> [s \in Sides |-> 0]]
    /\ cumFunding = [m \in MarketIds |-> 0]
    /\ price = StartPrice

PositionNext ==
    \E t \in Users :
        \/ \E m \in MarketIds, s \in Sides, c \in Margins, n \in Notionals,
              r \in RefPrices, x \in Slippages : OpenPosition(t, m, s, c, n, r, x)
        \/ \E id \in PositionIds :
            \/ ClosePosition(t, id)
            \/ \E a \in Amounts : AddPositionMargin(t, id, a) \/ RemovePositionMargin(t, id, a)
            \/ \E c \in Margins, n \in Notionals, r \in RefPrices, x \in Slippages :
                  Increase(t, id, c, n, r, x)
            \/ \E n \in Notionals, r \in RefPrices, x \in Slippages : Decrease(t, id, n, r, x)

OrderNext ==
    \E t \in Users :
        \/ \E m \in MarketIds, s \in Sides, c \in Margins, n \in Notionals,
              p \in Triggers, d \in {Above, Below}, x \in Slippages :
                  PlaceOrder(t, m, s, c, n, p, d, x)
        \/ \E id \in PositionIds, p \in Triggers, d \in {Above, Below} : PlaceStop(t, id, p, d)
        \/ \E id \in OrderIds : CancelOrder(t, id)

KeeperNext ==
    \E k \in Users :
        \/ \E id \in PositionIds : Liquidate(k, id)
        \/ \E m \in MarketIds : UpdateFunding(k, m)
        \/ \E id \in OrderIds : FillEntry(k, id) \/ FillStop(k, id)

\* What the next get_price of a feed returns changes: the upstream oracle moved,
\* went stale or deviates, or an admin changed the adapter.
PriceMove ==
    /\ \E f \in Feeds, x \in Prices \cup {NoPrice} : price' = [price EXCEPT ![f] = x]
    /\ UNCHANGED <<tokenVars, vaultVars, registryVars, engineVars>>

PoolNext ==
    /\ LpNext \/ (TokenNext /\ UNCHANGED vaultVars)
    /\ UNCHANGED <<registryVars, engineVars, price>>

ControlNext ==
    /\ RegistryNext
    /\ UNCHANGED <<tokenVars, vaultVars, engineVars, price>>

Next ==
    \/ PositionNext \/ OrderNext \/ KeeperNext
    \/ PriceMove \/ PoolNext \/ ControlNext

Spec == Init /\ [][Next]_vars

-----------------------------------------------------------------------------
(* Properties.                                                             *)

\* Every variable of the engine, the vault, the registry and the feeds has its type;
\* the naturals among them are never negative.
TypeOK ==
    /\ VaultTypeOK
    /\ RegistryTypeOK
    /\ positions \in [PositionIds -> Position \cup {NoPosition}]
    /\ nextId \in 0 .. MaxPositions
    /\ userPositions \in [Users -> SUBSET PositionIds]
    /\ orders \in [OrderIds -> Order \cup {NoOrder}]
    /\ nextOrderId \in 0 .. MaxOrders
    /\ userOrders \in [Users -> SUBSET OrderIds]
    /\ oi \in [MarketIds -> [Sides -> Int]]
    /\ cumFunding \in [MarketIds -> Int]
    /\ price \in [Feeds -> Prices \cup {NoPrice}]

MarginOf == [i \in PositionIds |-> IF Open(i) THEN positions[i].margin ELSE 0]
EscrowOf == [i \in OrderIds |-> IF Resting(i) THEN orders[i].margin ELSE 0]
ExposureOf(m, s) ==
    [i \in PositionIds |->
        IF Open(i) /\ positions[i].market = m /\ positions[i].side = s
        THEN positions[i].notional ELSE 0]

\* The margin pool is exactly the margin of the open positions and the escrow
\* of the resting entry orders.  So a settlement never finds less margin in the
\* pool than the position it settles carries: VaultError::AccountingError
\* "would only fire on a logic bug".
Backing ==
    pools.margin_pool = Total(MarginOf) + Total(EscrowOf)

\* The open interest of each side is the notional of its open positions, through
\* every partial close, liquidation and fill: funding is computed from it.
OiMatches ==
    \A m \in MarketIds, s \in Sides :
        oi[m][s] = Total(ExposureOf(m, s))

\* A stored position has size and collateral; after a decrease or a withdrawal too.
LivePositions ==
    \A i \in PositionIds : Open(i) =>
        i < nextId /\ positions[i].margin > 0 /\ positions[i].notional > 0

\* The per-user indexes the clients read list exactly the stored records.
IndexConsistent ==
    /\ \A u \in Users :
          userPositions[u] = {i \in PositionIds : Open(i) /\ positions[i].owner = u}
    /\ \A u \in Users :
          userOrders[u] = {i \in OrderIds : Resting(i) /\ orders[i].owner = u}

\* A resting stop never comes to point at somebody else's position, or at a
\* position of another market or side: its position is the one it was placed
\* on, or gone.
StopTargetsOwn ==
    \A i \in OrderIds : Resting(i) /\ orders[i].reduce =>
        LET o == orders[i] IN
        /\ o.reduce_position < nextId
        /\ Open(o.reduce_position) =>
              LET p == positions[o.reduce_position] IN
              p.owner = o.owner /\ p.market = o.market /\ p.side = o.side

\* The reported liquidation price is where keepers can liquidate: on the safe side
\* of it they cannot, and they can once the mark is past it by more than the view's
\* division and one unit of the contract's profit can hide.  (The view prices the
\* position at any mark; this is about the present one.)
LiquidationPriceTells ==
    \A i \in PositionIds : Open(i) /\ Valued(positions[i]) =>
        LET p == positions[i]
            past == (IF p.side = Long THEN -1 ELSE 1) * (Mark(p.market) - LiquidationPrice(p))
        IN  /\ past < 0 => ~Liquidatable(p)
            /\ past * p.notional >= p.notional + p.entry_price => Liquidatable(p)

\* The vault pays out, if the LPs' cash covers what is not the claim's own amount.
Funded(amount, out) ==
    out - amount <= pools.lp_cash => CanMovePools(pools, amount, out) /\ CanPay(balance, out)

\* Nothing but the LPs' own cash can keep anybody from getting out: whatever the
\* others hold, withdraw or have been paid, the vault pays a close, a liquidation
\* and a refund as long as the LPs can fund the part that is not the claim's own,
\* and a withdrawal of margin always.
ExitsFunded ==
    /\ \A i \in PositionIds : Open(i) /\ Valued(positions[i]) =>
          LET p == positions[i] IN
          /\ Funded(p.margin, ClosePayout(p))
          /\ Funded(p.margin, MaxOf(Equity(p), 0))
          /\ \A a \in 1 .. p.margin : Funded(a, a)
    /\ \A i \in OrderIds : Resting(i) /\ ~orders[i].reduce /\ HasMarket(orders[i].market) =>
          Funded(orders[i].margin, CancelPayout(orders[i]))

HealthyWithin(slack, id) ==
    LET p == positions[id] IN Valued(p) => Equity(p) + slack >= Maintenance(p)

Healthy(id) == HealthyWithin(0, id)

MarketStill == UNCHANGED <<price, cumFunding, markets>>

NoneGrew ==
    \A i \in PositionIds : Open(i) /\ Open(i)' => positions'[i].notional <= positions[i].notional

Shrank(i) == Open(i) /\ Open(i)' /\ positions'[i].notional < positions[i].notional

\* Only the market makes a position liquidatable: it is born healthy, by an open
\* or by the fill of an entry order, and while the price, the funding index and
\* the market's parameters stand still, a withdrawal does not take a healthy one
\* below maintenance, and a partial close takes it below by the one unit that its
\* divisions can lose, at most.  (increase is left out: the entry price it blends
\* is the average of the prices, and a profit goes by their inverses.)
HealthOnlyLostToMarket ==
    [][MarketStill /\ NoneGrew =>
          \A i \in PositionIds :
              Open(i)' /\ (Open(i) => Healthy(i)) =>
                  IF Shrank(i) THEN HealthyWithin(1, i)' ELSE Healthy(i)']_vars

\* What the vault would keep for the LPs if every position were settled at the
\* mark and every entry order cancelled.
WorthOf ==
    [i \in PositionIds |-> IF Open(i) THEN MaxOf(Equity(positions[i]), 0) ELSE 0]
RefundOf ==
    [i \in OrderIds |->
        IF Resting(i) /\ ~orders[i].reduce
        THEN CancelPayout(orders[i]) ELSE 0]
LpMark ==
    TotalAssets(pools) - Total(WorthOf) - Total(RefundOf)

AllValued == \A i \in PositionIds : Open(i) => Valued(positions[i])

\* Nobody trades value out of the LPs: while the market stands still, no open,
\* close, partial close, margin change, order, cancellation, fill or liquidation
\* lowers what the LPs are owed, by more than the one unit that a partial close
\* can round in the trader's favour.  (Redemptions are left to the vault: see
\* ShareValueKept.)
LpMarkKept ==
    [][MarketStill /\ NoneGrew /\ AllValued /\ AllValued' /\ UNCHANGED totalShares =>
          LpMark' >= LpMark - 1]_vars

\* The funding index moves with the skew of the open interest, so that LPs, who
\* stand between the two sides, are never charged net funding, and one update
\* moves it at most by the market's cap.
FundingBounded ==
    [][\A m \in MarketIds :
          LET step == cumFunding'[m] - cumFunding[m]
              skew == oi[m][Long] - oi[m][Short]
              cap == markets[m].max_funding_rate_bps * (FUNDING_SCALE \div BPS_DENOM)
          IN  step # 0 => step * skew > 0 /\ step \in -cap .. cap]_vars

\* Exposure is only ever added in an active, priced market with room under its
\* cap, also when the exposure was asked for long before, by an order placed
\* while the market was active.
ExposureGuarded ==
    [][\A m \in MarketIds, s \in Sides :
          oi'[m][s] > oi[m][s] =>
              /\ EnsureActive(m) /\ Priced(m)
              /\ oi'[m][s] <= markets[m].max_oi]_vars

\* The claims that the records stand for, as Custody sees them.
Claim(owner, amount) == [stage |-> "held", owner |-> owner, amount |-> amount]
NoClaim(used) == [stage |-> IF used THEN "closed" ELSE "unused"]

Purses == [u \in Users |-> balance[u]]
MarginClaims ==
    [i \in PositionIds |->
        IF Open(i) THEN Claim(positions[i].owner, positions[i].margin) ELSE NoClaim(i < nextId)]
EscrowClaims ==
    [i \in OrderIds |->
        IF Resting(i) /\ ~orders[i].reduce THEN Claim(orders[i].owner, orders[i].margin)
        ELSE NoClaim(i < nextOrderId)]

Segregated == INSTANCE Custody WITH
    account <- balance[Vault], purse <- Purses, pool <- pools.lp_cash,
    margin <- MarginClaims, escrow <- EscrowClaims

\* One token account and one margin pool serve everybody as well as an account for
\* each: a transaction pays out of the claim it is about and the LPs' cash only,
\* to the claim's owner and a liquidator only, and a claim is never revived.
CustodyKept == Segregated!Spec

\* The registry documents the global switch as halting all engine entry points.
PauseHaltsEngine == [][globalPaused => UNCHANGED engineVars]_vars

\* cancel_order documents that the margin and the fee escrowed are refunded and
\* the LPs net to zero: what a resting order is owed does not depend on what
\* happens to the market between placement and cancellation.
RefundFixed ==
    [][\A i \in OrderIds : Resting(i) /\ Resting(i)' => RefundOf'[i] = RefundOf[i]]_vars

=============================================================================
