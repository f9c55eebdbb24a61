------------------------------ MODULE WebForms ------------------------------
(***************************************************************************)
(* What the web app shows of the chain and the calls its forms build from  *)
(* it.  A form sees the cache of queries (view), which the chain leaves    *)
(* behind at will; the call it builds is executed by the engine's actions. *)
(*                                                                         *)
(* Amounts and prices are in the contracts' fixed-point units.  The forms  *)
(* compute in floating point: their fractions are kept exact here, and the *)
(* tolerance the forms add for rounding is TOL.                            *)
(***************************************************************************)
EXTENDS PerpEngine

CONSTANTS
    SCALE,          \* fixed-point one
    CENT,           \* the two decimals the MAX buttons keep
    TOL,            \* 1e-6 of a unit
    AmountInputs, TriggerInputs,  \* what users type in an instance
    Leverages,      \* the slider's positions, counted in its steps of one half
    Slippage,       \* usePrefs' slippageBps
    FaucetAmount,   \* what GetFundsButton asks for
    NoUser          \* no wallet connected

ASSUME WebAssumption ==
    /\ {SCALE, CENT, TOL} \subseteq Nat \ {0}
    /\ AmountInputs \subseteq Nat /\ TriggerInputs \subseteq Nat
    /\ Leverages \subseteq Nat \ {0, 1}
    /\ Slippage \in Nat /\ FaucetAmount \in 1 .. FAUCET_MAX
    /\ NoUser \notin Users

VARIABLES
    wallet,  \* the connected address, or NoUser
    view     \* what the page keeps of the chain: the cached answers of its
             \* queries, and the live-price store it makes of the prices

chainVars == vars

---------------------------------------------------------------------------
(* The queries.  A query without an answer yet shows its default.          *)

EmptyAccount == [balance |-> 0, shares |-> 0, positions |-> {}, orders |-> {}]
EmptyView ==
    [price |-> [f \in Feeds |-> 0], sharePrice |-> 0,
     account |-> [u \in Users |-> EmptyAccount],
     anchors |-> [f \in Feeds |-> NoPrice], live |-> [f \in Feeds |-> NoPrice]]

\* The queries of one address share its key.
Mine == IF wallet = NoUser THEN EmptyAccount ELSE view.account[wallet]

SharePrice == IF totalShares = 0 THEN SCALE ELSE (pools.lp_cash * SCALE) \div totalShares

\* A simulated call: its result, or, when the contract traps, what the caller
\* has without one.
ReadContract(succeeds, result, otherwise) == IF succeeds THEN result ELSE otherwise

\* A position as position_view returns it, as far as a page reads it.
PositionView(id) ==
    LET p == positions[id] IN
    [id |-> id, market |-> p.market, side |-> p.side, margin |-> p.margin,
     notional |-> p.notional, entry_price |-> p.entry_price,
     mark |-> Mark(p.market), funding |-> FundingOwed(p)]

AllViewed(u) == \A id \in userPositions[u] : Valued(positions[id])

\* user_positions traps when one of the positions cannot be valued: the query
\* keeps its last answer.
PositionsAnswer(u) ==
    ReadContract(AllViewed(u),
                 {PositionView(id) : id \in userPositions[u]},
                 view.account[u].positions)

OrdersAnswer(u) == userOrders[u]

\* getAllPrices turns a failed read into a price of zero.
PriceAnswer == [f \in Feeds |-> ReadContract(price[f] # NoPrice, price[f], 0)]

AccountAnswer(u) ==
    [balance |-> balance[u], shares |-> shares[u],
     positions |-> PositionsAnswer(u), orders |-> OrdersAnswer(u)]

\* Mutation: a failed read is taken for a price.
Anchored_AnyPrice(prices) ==
    [view EXCEPT !.price = prices,
                 !.anchors = prices,
                 !.live = [f \in Feeds |-> IF @[f] = NoPrice THEN prices[f] ELSE @[f]]]

\* A new answer is also the anchor of the price shown, unless it is no price; the
\* first one is the price shown itself.
Anchored(prices) ==
    [view EXCEPT !.price = prices,
                 !.anchors = [f \in Feeds |-> IF prices[f] > 0 THEN prices[f] ELSE @[f]],
                 !.live = [f \in Feeds |->
                    IF prices[f] > 0 /\ @[f] = NoPrice THEN prices[f] ELSE @[f]]]

\* Every query is answered by itself, and every feed's price read by itself.
Refetch ==
    /\ \/ \E failed \in SUBSET Feeds :
             view' = Anchored([f \in Feeds |-> IF f \in failed THEN 0 ELSE PriceAnswer[f]])
       \/ view' = [view EXCEPT !.sharePrice = SharePrice]
       \/ /\ wallet # NoUser
          /\ LET answer == AccountAnswer(wallet) IN
             \/ view' = [view EXCEPT !.account[wallet].balance = answer.balance]
             \/ view' = [view EXCEPT !.account[wallet].shares = answer.shares]
             \/ view' = [view EXCEPT !.account[wallet].positions = answer.positions]
             \/ view' = [view EXCEPT !.account[wallet].orders = answer.orders]
    /\ UNCHANGED <<chainVars, wallet>>

\* Up to 2.5% off the anchor.
LiveBand(anchor) == (975 * anchor + 999) \div 1000 .. (1025 * anchor) \div 1000

\* The second's step, as often as it takes: pull and noise reach every price of
\* the band, and the clamp ends a move of the anchor at once.
Ticked(f) == IF view.anchors[f] = NoPrice THEN {view.live[f]} ELSE LiveBand(view.anchors[f])

Tick ==
    /\ \E live \in [Feeds -> UNION {Ticked(f) : f \in Feeds}] :
          /\ \A f \in Feeds : live[f] \in Ticked(f)
          /\ view' = [view EXCEPT !.live = live]
    /\ UNCHANGED <<chainVars, wallet>>

Fresh ==
    /\ wallet # NoUser
    /\ view.price = PriceAnswer
    /\ view.sharePrice = SharePrice
    /\ Mine = AccountAnswer(wallet)

---------------------------------------------------------------------------
(* The calls, and what the contracts do with one.                          *)

FaucetCall(u) == [method |-> "faucet", trader |-> u]
OpenCall(u, m, side, margin, notional, ref) ==
    [method |-> "open_position", trader |-> u, market |-> m, side |-> side,
     margin |-> margin, notional |-> notional, ref |-> ref]
PlaceCall(u, m, side, margin, notional, trigger, dir) ==
    [method |-> "place_order", trader |-> u, market |-> m, side |-> side,
     margin |-> margin, notional |-> notional, trigger |-> trigger, dir |-> dir]
CloseCall(u, id) == [method |-> "close_position", trader |-> u, id |-> id]
CancelCall(u, id) == [method |-> "cancel_order", trader |-> u, id |-> id]
MarginCall(method, u, id, amount) ==
    [method |-> method, trader |-> u, id |-> id, amount |-> amount]
VaultCall(method, u, amount) == [method |-> method, trader |-> u, amount |-> amount]

InVault(action) == action /\ UNCHANGED <<registryVars, engineVars, price>>

Execute(c) ==
    CASE c.method = "faucet" ->
           Faucet(c.trader, FaucetAmount)
             /\ UNCHANGED <<vaultVars, registryVars, engineVars, price>>
      [] c.method = "open_position" ->
           OpenPosition(c.trader, c.market, c.side, c.margin, c.notional, c.ref, Slippage)
      [] c.method = "place_order" ->
           PlaceOrder(c.trader, c.market, c.side, c.margin, c.notional, c.trigger, c.dir,
                      Slippage)
      [] c.method = "close_position" -> ClosePosition(c.trader, c.id)
      [] c.method = "cancel_order" -> CancelOrder(c.trader, c.id)
      [] c.method = "add_margin" -> AddPositionMargin(c.trader, c.id, c.amount)
      [] c.method = "remove_margin" -> RemovePositionMargin(c.trader, c.id, c.amount)
      [] c.method = "add_liquidity" -> InVault(AddLiquidity(c.trader, c.amount))
      [] c.method = "remove_liquidity" -> InVault(RemoveLiquidity(c.trader, c.amount))

\* A call passes every check, of the engine and of the vault: the simulation succeeds.
EngineTakes(c) ==
    CASE c.method = "faucet" -> CanMint(FaucetAmount)
      [] c.method = "open_position" ->
           /\ CanOpen(c.market, c.side, c.margin, c.notional, c.ref, Slippage)
           /\ CanLockMargin(c.trader, c.margin, Fee(c.market, c.notional))
      [] c.method = "place_order" ->
           /\ CanPlace(c.market, c.side, c.margin, c.notional, c.trigger)
           /\ CanLockMargin(c.trader, c.margin, Fee(c.market, c.notional))
      [] c.method = "close_position" ->
           LET p == positions[c.id] IN
           Owned(c.trader, c.id) /\ Valued(p) /\ CanSettle(p.margin, ClosePayout(p))
      [] c.method = "cancel_order" ->
           LET o == orders[c.id] IN
           /\ Resting(c.id) /\ o.owner = c.trader
           /\ ~o.reduce => HasMarket(o.market) /\ CanSettle(o.margin, CancelPayout(o))
      [] c.method = "add_margin" -> Owned(c.trader, c.id) /\ CanAddMargin(c.trader, c.amount)
      [] c.method = "remove_margin" ->
           CanWithdraw(c.trader, c.id, c.amount) /\ CanSettle(c.amount, c.amount)
      [] c.method = "add_liquidity" -> CanDeposit(c.trader, c.amount)
      [] c.method = "remove_liquidity" -> CanRedeem(c.trader, c.amount)

---------------------------------------------------------------------------
(* The order ticket.  Sizes are counted twice, so that a leverage of a     *)
(* number and a half stays whole.                                          *)

Tickets ==
    [type : {"Market", "Limit"}, side : Sides, margin : AmountInputs,
     leverage : Leverages, trigger : TriggerInputs]

InReachOf(m, t) == t.leverage <= 2 * markets[m].max_leverage

TwiceNotional(t) == t.margin * t.leverage
Notional(t) == (TwiceNotional(t) + 1) \div 2  \* toScaled's Math.round

\* margin plus preview.fee, as a numerator over 2 * BPS_DENOM.
TotalCost(m, t) ==
    2 * BPS_DENOM * t.margin + TwiceNotional(t) * markets[m].taker_fee_bps

Price(m) == view.price[Feed(m)]

\* Mutation: the fee is left out of what the trader must hold.
TicketReason_FeeForgotten(m, t) ==
    CASE t.margin = 0 -> "Enter an amount"
      [] t.type = "Limit" /\ t.trigger = 0 -> "Set a trigger price"
      [] TwiceNotional(t) < 2 * markets[m].min_position_size -> "Min size"
      [] t.margin > Mine.balance + TOL -> "Insufficient USDC"
      [] OTHER -> "none"

\* Why the button is disabled.  requiredMargin, the pause flag and the open
\* interest cap are not looked at; the slider keeps the leverage in range.
TicketReason(m, t) ==
    CASE t.margin = 0 -> "Enter an amount"
      [] t.type = "Limit" /\ t.trigger = 0 -> "Set a trigger price"
      [] TwiceNotional(t) < 2 * markets[m].min_position_size -> "Min size"
      [] TotalCost(m, t) > 2 * BPS_DENOM * (Mine.balance + TOL) -> "Insufficient USDC"
      [] OTHER -> "none"

TicketCall(u, m, t) ==
    IF t.type = "Limit"
    THEN PlaceCall(u, m, t.side, t.margin, Notional(t), t.trigger,
                   IF t.trigger >= Price(m) THEN Above ELSE Below)
    ELSE OpenCall(u, m, t.side, t.margin, Notional(t), Price(m))

\* Without a balance the button is the one that gets test funds.
TicketEnabled(m, t) ==
    /\ Mine.balance > 0
    /\ InReachOf(m, t)
    /\ TicketReason(m, t) = "none"

\* The MAX button: what a margin and its fee may cost, down to a cent.
MaxMargin(m, leverage) ==
    LET most == (2 * BPS_DENOM * Mine.balance)
                  \div (2 * BPS_DENOM + leverage * markets[m].taker_fee_bps)
    IN  (most \div CENT) * CENT

\* previewOpen's liquidation price, over BPS_DENOM * leverage: the notional
\* cancels out, and Math.max keeps it from being negative.
PreviewLiquidation(m, t, p) ==
    LET away == BPS_DENOM * 2 - markets[m].mmr_bps * t.leverage
        base == BPS_DENOM * t.leverage
    IN  MaxOf(p * (IF t.side = Long THEN base - away ELSE base + away), 0)

---------------------------------------------------------------------------
(* The other forms.                                                        *)

MyValue == (Mine.shares * view.sharePrice) \div SCALE

\* Typed dollars to shares, never more than the wallet's.
WithdrawShares(amount) ==
    IF view.sharePrice = 0 THEN 0
    ELSE MinOf((amount * SCALE) \div view.sharePrice, Mine.shares)

\* Mutation: the whole balance cannot be deposited.
DepositEnabled_Strict(amount) == amount > 0 /\ amount < Mine.balance

DepositEnabled(amount) == amount > 0 /\ amount <= Mine.balance + TOL
WithdrawEnabled(amount) == amount > 0 /\ amount <= MyValue + TOL

\* Neither the balance nor the position's health is looked at.
ManageEnabled(p, mode, amount) ==
    amount > 0 /\ (mode = "remove_margin" => p.margin - amount > 0)

TicketCalls(u) ==
    UNION {{TicketCall(u, m, t) : t \in {x \in Tickets : TicketEnabled(m, x)}} :
              m \in {x \in MarketIds : HasMarket(x)}}

\* The Close button of a row, and the Cancel button of an order.
CloseCalls(u) == {CloseCall(u, p.id) : p \in Mine.positions}
CancelCalls(u) == {CancelCall(u, id) : id \in Mine.orders}

ManageCalls(u) ==
    {MarginCall(c.mode, u, c.id, c.amount) : c \in
        {x \in [mode : {"add_margin", "remove_margin"}, id : PositionIds, amount : AmountInputs] :
            \E p \in Mine.positions : p.id = x.id /\ ManageEnabled(p, x.mode, x.amount)}}

VaultCalls(u) ==
    {VaultCall("add_liquidity", u, a) : a \in {x \in AmountInputs : DepositEnabled(x)}}
    \cup {VaultCall("remove_liquidity", u, WithdrawShares(a)) :
            a \in {x \in AmountInputs : WithdrawEnabled(x)}}

\* Every call a form lets the user at address u submit now.
FormCalls(u) ==
    {FaucetCall(u)} \cup TicketCalls(u) \cup CloseCalls(u) \cup CancelCalls(u)
        \cup ManageCalls(u) \cup VaultCalls(u)

---------------------------------------------------------------------------
(* What the pages show.                                                    *)

\* The price a position is valued at: the page's own, or else its view's.
LiveMark(p) ==
    LET live == view.live[Feed(p.market)] IN IF live = NoPrice THEN p.mark ELSE live

\* The profit of a row of the positions table, over entry_price, ...
RowPnl(p) ==
    IF p.entry_price = 0 THEN 0
    ELSE p.notional * (LiveMark(p) - p.entry_price) * (IF p.side = Long THEN 1 ELSE -1)

\* ... as it is shown, net of funding, ...
RowNet(p) == RowPnl(p) - p.funding * p.entry_price

\* ... and what the position adds to the portfolio's equity.
RowEquity(p) == p.margin * p.entry_price + RowNet(p)

MarketOi(m) == [long |-> oi[m][Long], short |-> oi[m][Short]]

\* The funding rate of the market's header, over the total open interest.
FundingShown(m) ==
    (MarketOi(m).long - MarketOi(m).short) * markets[m].max_funding_rate_bps

---------------------------------------------------------------------------
(* Properties.                                                             *)

\* What the ticket leaves to the contract.
LeftToEngine(m, t) ==
    \/ ~EnsureActive(m)
    \/ ~OiRoom(m, t.side, Notional(t))
    \/ ~InitialMarginOk(m, t.margin, Notional(t))
    \/ t.type = "Market" /\ ~Priced(m)

Cost(m, t) == t.margin + Fee(m, Notional(t))

\* An enabled ticket is one the engine takes, a disabled one is one it refuses,
\* up to the tolerance on the balance and half a unit of rounding on the size.
TicketMirrors(m, t) ==
    LET taken == EngineTakes(TicketCall(wallet, m, t)) IN
    /\ TicketEnabled(m, t) /\ ~LeftToEngine(m, t) /\ Cost(m, t) <= balance[wallet] => taken
    /\ taken /\ Notional(t) > markets[m].min_position_size => TicketEnabled(m, t)

\* The previewed liquidation price is the one position_view will report of the
\* position, up to the engine's two divisions.
PreviewMirrors(m, t) ==
    LET n == Notional(t)
        p == Mark(m)
        deltaPx == TDiv(p * (ApplyBps(n, markets[m].mmr_bps) - t.margin), n)
        liquidation == MaxOf(IF t.side = Long THEN p + deltaPx ELSE p - deltaPx, 0)
        base == BPS_DENOM * t.leverage
    IN  (n > 0 /\ Priced(m)) =>
            AbsDiff(PreviewLiquidation(m, t, p), liquidation * base) * n <= base * (p + n)

\* What MAX fills in can be paid.
MaxMirrors(m, leverage) ==
    LET margin == MaxMargin(m, leverage) IN
    margin + Fee(m, (margin * leverage + 1) \div 2) <= balance[wallet]

\* The vault takes what its form offers, and the form offers what it takes; a
\* withdrawal that is refused is smaller than one share's worth.
VaultMirrors(a) ==
    /\ DepositEnabled(a) /\ a <= balance[wallet] =>
          EngineTakes(VaultCall("add_liquidity", wallet, a))
    /\ EngineTakes(VaultCall("add_liquidity", wallet, a)) => DepositEnabled(a)
    /\ WithdrawEnabled(a) /\ WithdrawShares(a) > 0 =>
          EngineTakes(VaultCall("remove_liquidity", wallet, WithdrawShares(a)))

\* A withdrawal pays what was typed or less, up to the rounding of the share price.
WithdrawMirrors(a) ==
    WithdrawEnabled(a) /\ WithdrawShares(a) > 0 =>
        CashFor(WithdrawShares(a)) * view.sharePrice <= a * (view.sharePrice + 1)

\* The profit of a row and its equity are what position_view reports, but for its
\* one division and for what the page's price is away from the mark.
RowMirrors(p) ==
    LET q == positions[p.id]
        off == q.notional * AbsDiff(LiveMark(p), Mark(q.market))
    IN  /\ AbsDiff(RowNet(p), (Equity(q) - q.margin) * q.entry_price) < q.entry_price + off
        /\ AbsDiff(RowEquity(p), Equity(q) * q.entry_price) < q.entry_price + off

\* "Mirroring perp_engine.update_funding", up to its division.
FundingMirrors(m) ==
    LET total == MarketOi(m).long + MarketOi(m).short IN
    total # 0 => AbsDiff(FundingShown(m), FundingRate(m) * total) < total

\* What a ticket that is offered costs, fee included, is in the wallet.
CostMirrors(m, t) == TicketEnabled(m, t) => Cost(m, t) <= balance[wallet] + TOL

\* "The contract recomputes and enforces the same numbers on submit": with its
\* queries up to date, every form allows what the contracts accept, in whatever
\* state trades, keepers and LPs have left them.  (The margin form goes by the
\* positions' last answer, which is old as long as one of them cannot be valued.)
FormsMirrorEngine ==
    Fresh =>
        /\ \A m \in MarketIds, t \in Tickets :
              HasMarket(m) /\ InReachOf(m, t) => TicketMirrors(m, t)
        /\ \A a \in AmountInputs : VaultMirrors(a)
        /\ AllViewed(wallet) => \A p \in Mine.positions, a \in AmountInputs :
              \A mode \in {"add_margin", "remove_margin"} :
                  EngineTakes(MarginCall(mode, wallet, p.id, a)) => ManageEnabled(p, mode, a)

\* And the numbers the forms show and fill in are the ones the contracts compute
\* by truncating division, each up to the rounding stated with it.
FormsShowTruth ==
    Fresh =>
        /\ \A m \in MarketIds : HasMarket(m) =>
              /\ \A t \in Tickets : CostMirrors(m, t) /\ (InReachOf(m, t) => PreviewMirrors(m, t))
              /\ \A l \in Leverages : MaxMirrors(m, l)
              /\ FundingMirrors(m)
        /\ \A a \in AmountInputs : WithdrawMirrors(a)

\* "Live mark prices ... around the latest on-chain price": however prices jump
\* and reads fail, no page ever values a position at a price more than 2.5% off
\* one of the chain's.
LiveNearChain ==
    \A f \in Feeds : view.live[f] # NoPrice =>
        \E p \in Prices \ {0} : view.live[f] \in LiveBand(p)

\* The table and the portfolio, whose profits track that price and not the mark:
\* with the list of positions up to date they show the contract's numbers, off by
\* that price's distance and one rounding; and that price is LiveNearChain's.
RowsTrackChain ==
    /\ LiveNearChain
    /\ (wallet # NoUser /\ AllViewed(wallet) /\ Mine.positions = PositionsAnswer(wallet)) =>
          \A p \in Mine.positions : RowMirrors(p)

=============================================================================
