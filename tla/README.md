# Helix perpetuals in TLA+

A verification project for Helix, a perpetual-futures protocol on Soroban
(Rust contracts) with a TypeScript keeper and a web client. It models as TLA+
modules the contracts that hold and move money, the oracle adapter, the keeper
with its event indexer and its price relay, and the web client's forms, writes
and leaderboard. TLC checks them on small instances, and TLAPS proves the
properties that matter most for every value of the constants.

## 1. The system

### Components, their state and their operations

| Component | State it keeps | Operations that change it |
|---|---|---|
| `contracts/shared` | none | fixed-point helpers: `mul_div` (truncates toward zero), `apply_bps`, `position_pnl`, `funding_payment` |
| `contracts/mock_usdc` | balances, total supply, allowances | `faucet`, `transfer`, `burn` and the allowance calls of the token library |
| `contracts/collateral_vault` | `LpCash`, `MarginPool`, `TotalShares`, `Shares(user)`, `Engine` | LPs: `add_liquidity`, `remove_liquidity`; engine only: `lock_margin`, `add_margin`, `settle`, `settle_liquidation`, `realize`; admin: `set_engine` (once) |
| `contracts/market_registry` | `Market(id)`, `MarketIds`, global pause, the `keeper` and `pauser` roles | `add_market`, `update_market`, `set_market_paused`, `pause`, `unpause`, role grants and revocations, `upgrade` |
| `contracts/perp_engine` | `Position(id)`, `NextId`, `UserPositions(u)`, `Order(id)`, `NextOrderId`, `UserOrders(u)`, `LongOi(m)`, `ShortOi(m)`, `CumFunding(m)`, `LastFundingTs(m)` | traders: `open_position`, `close_position`, `add_margin`, `remove_margin`, `increase`, `decrease`, `place_order`, `place_stop`, `cancel_order`; keepers: `liquidate`, `update_funding`, `execute_order` |
| `contracts/oracle_adapter` | `Feed(symbol)`, upstream address, age and deviation guards, `Last(feed)` | `get_price` (writes `Last`), `set_feed`, `remove_feed`, `set_reflector`, `set_guards`, `set_admin` |
| `contracts/mock_oracle` | a price and a timestamp per asset | `set_price`, `set_price_at` |
| keeper cycle (`keeper/src/keeper.ts`) | the relay's own copy of the last price it set | one cycle: relay prices, index events, update funding, liquidate, execute orders; every call individually guarded |
| keeper indexer (`keeper/src/indexer.ts`) | open position and order ids, event cursor, `state.json` | fetch a page of events, apply, save, resume or cold-start |
| keeper RPC client (`keeper/src/stellar.ts`) | none beyond a call in flight | simulate, prepare, send, poll until a result or a timeout |
| keeper configuration (`keeper/src/config.ts`) | none | environment, deploy artifact, defaults; refuses before anything starts |
| web writes (`web/src/lib/tx/store.ts`, `lib/stellar/client.ts`, `lib/wallet`) | the list of transactions and their status, the connected address | sign, submit, confirm, fail, retry, clear; connect, disconnect; a reload forgets all but the address |
| web queries, forms and rows (`hooks/use-chain.ts`, `lib/trade.ts`, `lib/ui/live-price.ts`, the form and table components) | cached answers, per address; the ticker's anchors and live prices | refetch, one query at a time; the ticker's step; the calls the forms build, what they preview and what the rows show |
| web leaderboard (`web/src/lib/stellar/indexer.ts`) | none beyond a query in flight | probe windows, page by cursor, fold, rank |
| web activity feed, charts, landing page, scripts | derived or none | formatting, rendering, sequential set-up |

### How they interact

A call into `perp_engine` is one atomic transaction. It reads the registry (market
configuration, pause switches, keeper role), reads the oracle adapter
(`get_price`), and calls the vault, which calls the token. If any check in any of
the contracts fails, everything the transaction did in all of them is rolled
back. The vault accepts custody calls from the engine only; LPs call the vault
directly, at any time, between any two engine transactions. Concurrency is
therefore an interleaving of whole transactions of traders, LPs, keepers, the
admin and pausers, and of price changes. Off chain, the keeper reads views by
simulation, decides, and sends transactions that may be late, fail, or land
after it gave up on them.

### What is hard, and what makes each part correct

* **Vault.** Two pools share one token account. Correct if the account always
  covers both, if the share register adds up to the total that the share price
  divides by, and if rounding never favours the LP who moves over those who stay.
* **Engine.** The margin pool and the two open-interest counters of a market are
  running sums kept by a dozen entry points of two contracts; `increase` and
  `decrease` make two vault calls in one transaction; profits and funding are
  truncated. Correct if the sums equal what the records add up to, if no stored
  position is without collateral, if only the market can take a position's
  health away, and if no sequence of calls extracts value from the LPs while the
  market stands still.
* **Orders.** An order is placed under one configuration, pause state and price and is
  filled or cancelled, by somebody else or much later, under another; a stop outlives
  the position it names. Correct if the escrow stays backed, if a fill re-checks
  what placement checked, if the per-user lists follow the records, and if a stop
  can never reach another position.
* **Registry.** Configurations change under open positions. Correct if whatever is
  stored has passed `validate` and the id list names exactly the stored markets.
* **Oracle adapter.** The deviation guard compares with the last *accepted* price, which
  callers write and failed transactions roll back. Correct if a returned price is
  positive, fresh and within the guard of the previous one.
* **Price relay.** The keeper's copy of the price it last wrote is advanced after the
  transaction, forgotten at a restart, and steered by three limits (the relay's step,
  the simulation's band, the adapter's guard) set in three places. Correct if a
  real price within the guard does arrive at the engine in the end.
* **Keeper.** Every await of the cycle lets the chain move; calls time out and land later;
  the RPC node forgets ledgers; the process is killed between applying and saving. Correct if the
  ids it holds are what the scanned events say, if it never forgets a live position, and if
  what it knows of is liquidated or filled in the end.
* **Web writes.** A timeout races a late result, a retry races the first attempt, the node
  holds one transaction of an account at a time, a reload drops the runs but not what
  they sent. Correct if a record never claims what the ledger will contradict.
* **Web forms.** The same arithmetic as the contracts in floating point, on answers that may
  be stale. Correct if, with its queries up to date, a form offers what the contracts accept and
  shows what they compute.
* **Web rows.** The table and the portfolio value positions at a random walk around the last price
  read, where a failed read is cached as 0. Correct if that price stays near one of the chain's and
  the rows are the contract's numbers but for its distance from the mark.
* **Leaderboard.** A log that grows and is forgotten while it is read. Correct if each event of
  one contiguous range is counted once and rows and totals agree.

The complete list of hazards, each with its line and the properties that cover
it or the reason none does, is in `PROJECT.json` under `hazards`.

## 2. The modules

| Module | Models | Notes |
|---|---|---|
| `HelixShared` | `contracts/shared` | arithmetic with Rust's truncating division; `Total`, the sum the properties use |
| `MockUsdc` | the token | balances; every holder may transfer to anyone, the vault's account included |
| `CollateralVault` | `contracts/collateral_vault` | extends the token; has a specification of its own, `VaultSpec`, in which the engine may make any custody call with any arguments |
| `Custody` | what vault and engine promise together of everybody's money | abstract: an account for each position and each entry order; `PerpEngine` is shown to implement it |
| `MarketRegistry` | `contracts/market_registry` | state and actions, no specification of its own: nothing reads it but the engine |
| `PerpEngine` | `contracts/perp_engine` | extends the vault and the registry; one action per entry point, `Spec` |
| `OracleAdapter` | `contracts/oracle_adapter` and `contracts/mock_oracle` | feeds, upstreams with their own precision, guards, `Last`; the caller is anyone |
| `PriceFeed` | what the adapter promises about one feed | abstract; `PriceRelay` is shown to implement it |
| `PriceRelay` | `refreshPrices` and `update_funding` of the keeper, on the adapter | extends `OracleAdapter`; one market, since markets share nothing here |
| `EventLog` | the engine as its off-chain readers see it, and the RPC node | positions and orders reduced to what the readers ask; events, retention, pages |
| `KeeperIndexer` | `keeper/src/indexer.ts` | extends `EventLog`; the functions of one step |
| `KeeperConfig` | `keeper/src/config.ts` | which environments start a keeper, and with what |
| `Keeper` | `keeper/src/index.ts`, `keeper.ts`, `stellar.ts` | extends both; one action per await, `Spec` with fairness |
| `WebForms` | the queries, the ticker, the forms, the rows and the calls they build | extends `PerpEngine`: a form is compared with the contract it calls |
| `TxStore` | the transaction list, `invokeContract`, the wallet, the node's queue | extends `WebForms`; one action per await, `WebSpec` with fairness |
| `TxLifecycle` | what the transaction list promises of a write | abstract; `TxStore` is shown to implement it |
| `Leaderboard` | `web/src/lib/stellar/indexer.ts` | stands alone, over a log of trades |
| `MC_CollateralVault`, `MC_PerpEngine`, `MC_PriceRelay`, `MC_Keeper`, `MC_Web` | instances for TLC | values of the constants, and the parts of `Next` each run enables |
| `HelixShared_proofs` | lemmas | facts about `Total`, about quotients and about the truncated arithmetic |
| `CollateralVault_proofs` | theorems about the vault | under `VaultSpec` |
| `PerpEngine_proofs` | theorems about the composed system: books, backing, guards, exits | under `Spec` |
| `PerpValue_proofs` | theorems about value: a position's health and liquidation price, what the LPs are owed, whose money is whose | extends `PerpEngine_proofs`; under `Spec` |
| `PriceRelay_proofs` | theorems about the adapter under the relay | under `PriceRelay!Spec` |
| `Keeper_proofs` | theorems about the ids the keeper holds | under `Keeper!Spec` |
| `Leaderboard_proofs` | the theorem about the leaderboard | under `BoardSpec` |
| `TxStore_proofs` | theorems about the web client's writes, the chain under them and the forms | extends `PerpEngine_proofs`; under `WebSpec` |

### How state and actions correspond to the code

*Keys* become functions: `positions[i]` is the record stored under `Position(i)` or
`NoPosition` when the key is absent; `shares[u]` is 0 when the key is absent, as
`unwrap_or(0)` reads it. *Lists of ids* (`UserPositions`, `UserOrders`, `MarketIds`)
become sets: no code depends on their order. *Ids* are allocated from a counter and
never reused, as in the code; the order kinds share one record, with the fields the
kind does not use set to the same defaults the code stores.

*A transaction is an action.* Its guard is the conjunction of every check it passes,
in whichever contract it stands; its primed variables are what it leaves in all of
them. Traps (a missing market, a division by a zero entry price, an oracle that
reverts) are guards too. `require_auth` of the caller is the choice of the caller
by the action's quantifier; `require_keeper`, ownership and `require_engine` are guards.

*The vault's custody calls* are given twice: as operators on the pools and balances
(`CanMovePools`/`MovedPools`, `CanRealize`/`Realized`, `CanLock`/`Locked`,
`CanPay`/`Paid`) and as actions built from them. An engine transaction with a single
vault call uses the action; `Increase` and `Decrease`, which make two calls, chain the
operators, the second on the pools the first one left.

*The oracle* is the engine's environment: `price[f]` is what a call to `get_price(f)`
returns now, or `NoPrice` when it reverts. `PriceMove` lets it change to anything, at
any time: this over-approximates the adapter, whose guards only restrict the sequence.

*The oracle adapter* itself is in `OracleAdapter`. A transaction that calls `get_price` and then fails
leaves no trace of it, so `GetPrice` is the call of a transaction that succeeds. Prices of the mock
oracle are raw, in its own precision; `Normalize` divides as the code does, after the positivity guard.

*An await is an action boundary.* In `Keeper`, `PriceRelay` and `TxStore` everything between two awaits is one
step, and anything else may happen between two steps. A call of the keeper comes back as one of: applied;
refused (the simulation reverts, or the node still holds another transaction of the account); failed before it
was sent; sent, with an outcome nobody waits for (`late`), which lands, fails or expires on its own. A for loop
over ids is a set the phase still has to visit, in any order.

*One event stands in one ledger* in `EventLog`, so that an event's index is its ledger. `Retention` is how many
ledgers the node serves; a request outside of them is an error. `state.json` is written by renaming a file,
so a save happens or does not. The variable `from` in the indexer's state is the only one the code does not have:
it records where a scan began, to say what the ids should be.

*A write* in `TxStore` is one run of a call: its record, and the local variables of `run` and
`invokeContract`. `tx` is the write that first sent the transaction, which stands for the hash: two builds of the
same call with the same sequence number within a second are the same transaction. The node's answers
`PENDING`, `DUPLICATE`, `TRY_AGAIN_LATER` and `ERROR` are the disjuncts of `Send`. Inclusion, expiry and the ledger's
verdict are the network's. Building is two awaits, `GetAccount` and `Simulate`, between which the account's number may be used up by another
transaction. The ledger checks what the simulation only records: that a call is signed by the trader it names, for every method but the faucet, which mints to
anybody (`Authorized`). `EngineTakes(c)`, that the simulation of a call succeeds, is the conjunction of the checks the
contracts make on it (`CanOpen`, `CanLockMargin`, `CanRedeem`, ...), the same operators that guard the contracts' own actions.

*The queries* are refetched one at a time, and each feed's price is read by itself, so the answers on a page may be of different ages;
a read that fails is cached as 0 (`Refetch`). An answer that is a price becomes the ticker's anchor, and the first one the price shown (`Anchored`). The ticker's
step pulls toward the anchor, adds noise and clamps to 2.5% around it; the model takes what its repetition reaches, any price of that band (`Tick`).
`LiveMark` is the price a row is valued at: the ticker's, or the view's as long as no price was read.

*Floating point* in the forms is modelled by exact fractions, compared with the contracts' truncating division; what
the comparison must allow for is stated in each property. `SCALE`, `CENT` and `TOL` are 10^7, the cent and the 10^-6 of the code
at the scale of an instance.

*The initial state of `Spec`* is what `scripts/deploy_testnet.ps1` leaves: the engine
wired into the vault, liquidity seeded by the deployer, markets listed.

*Operators named `X_Something`*, each under a "Mutation:" comment, are used by no
specification. Each is a plausible bug in `X`; substituting it for `X` must break the
property paired with it in `PROJECT.json` under `mutants`, which shows that the
property constrains the code.

## 3. What is checked

The runs of the contracts share the arithmetic: amounts, fees and rates are chosen so that every
division rounds, `FUNDING_SCALE` is 10 000 (the code's 10^18 only refines it), and the
prices 80, 94 and 110 are chosen so that a move of one step makes a position at ten
times leverage liquidatable, and a move of two makes it worth less than nothing.

| Run | Instance | What it shows |
|---|---|---|
| `vault` | two users, amounts -1..3, at most `MaxShares` shares and `MaxSupply` tokens | the vault keeps its types and its solvency (`Solvent`), its register (`SharesMatch`), and the promises of its share arithmetic (`ShareValueKept`, `DepositIsFair`, `LastShareTakesAll`) against an engine that makes any custody call |
| `trading` | two traders, one market, a pool of 10, `MaxTxs` = 5 | every position and keeper entry point: `Backing`, `OiMatches`, `LivePositions`, `LiquidationPriceTells`, `HealthOnlyLostToMarket`, `LpMarkKept`, `FundingBounded`; `CustodyKept`, a refinement; the pool is shallow, so that profits run into the vault's limits |
| `orders` | orders, positions, LPs and the global switch | `Backing`, `IndexConsistent`, `StopTargetsOwn`, `ExitsFunded`, `LpMarkKept` and the refinement `CustodyKept` through placements, fills, cancellations, closes and liquidations in every order |
| `system` | every entry point, two markets, two fee levels, role changes | `Solvent`, `RegistryConsistent`, `ExposureGuarded`: exposure is never added in a paused or unpriced market or above its cap, also by an order placed earlier |
| `oracle` | one feed, the mock oracle with one digit more than the protocol and another upstream with one less, two interventions of the operator, one fault | `OracleTypeOK`; `AdapterImplementsFeed`, a refinement; and, as liveness, `RelayDelivers`, under the guard of 2000 bps that `deploy_testnet.ps1` deploys and the 5000 bps `refresh_oracle.ps1` sets |
| `keeper` | two positions, one order, four events besides the keeper's, a node that keeps three ledgers and serves pages of two, one fault | `KeeperTypeOK`, `WindowFolded`, `LiveNeverDropped`; as liveness `PositionsServed`, `OrdersServed`, `ShutdownFinishes` |
| `web` | one trader with and without an account, one LP, one market; three writes, a list of two, one fault | `TxTypeOK`, `RetryDoublesOnlyLost`, `FormsMirrorEngine`, `FormsShowTruth`, `RowsTrackChain`, `BoardCountsOnce`; `LifecycleRefines`, a refinement with its liveness |
| `pause`, `cancel_refund`, `coldstart`, `zero_price`, `relay_step` | as the passing run of the same part, smaller where the counterexample is short | five disagreements between what the repository says and what the code does, section 5 |

### Bounds and why they are enough

* `MaxTxs` bounds the number of transactions of a behaviour (4 or 5). Price changes are
  not counted. Five transactions are enough to open two positions on both sides, move
  the funding index, change one position and settle either; every property is about at most
  two records and three transactions.
* `MaxPositions` = 2 (ids are not reused, so two positions in a behaviour) lets two traders
  hold opposite sides, or one trader two positions of a market; `MaxOrders` = 1 or 2.
* `MaxCumFunding` bounds the funding index on both sides, wide enough that funding exceeds a
  position's whole margin.
* `MaxSupply` and `MaxShares` bound the tokens and the shares in existence; the faucet, and an LP
  deposit, are disabled beyond. `web` has room for the faucet calls of its writes; the tokens in circulation at the start are the
  users' endowments and the seed.
* The seeding LP holds all the seeded shares; the users' endowments allow two positions.

* `MaxFaults` = 1 in `keeper` is one of a crash, a failed RPC call, a lost answer or a failed save: after it, the keeper is
  in whatever state it left, and everything else still interleaves. With two faults the same properties held as well (170 s).
  `Retention` = 3 and `MaxLog` = 4 make the node forget while a keeper is down, with `DEFAULT_LOOKBACK` = 2 inside the retention;
  `coldstart` has it outside. Pages of two events, two pages a cycle, make a backlog longer than one cycle.
* `MAX_RELAY_STEP` = 35 is the code's and the guards are the scripts': 2000 bps as deployed, and 5000 bps with a refreshed age, which the operator may set and
  take back. `RealPrices` 100 and 155 are further apart than one step; in `relay_step` they are the 0.12 and 0.21 of the keeper's comment. In `oracle`
  `MAX_DRIFT` is 1 percent, narrower than the code's 15, which only bounds the number of simulated prices.
* `web` has three state spaces that add up instead of multiplying, chosen by the variable `looking`, which no step changes: every form with one
  write after the other (`forms`), concurrent writes from two of the forms through lost answers, retries, other wallets and reloads
  (`store`), and the leaderboard (`board`). `MaxRecords` = 2 (50 in the code) with three writes overflows the list. The market's
  configuration stays as deployed: the forms read it once per page and it is the admin's to change. Three restrictions only cut interleavings of no
  consequence: the ticker goes to the end of its band and only when there is a row to show it (`TickerAtEnds`), the queries of one account answer in
  one order (`AnswersInOrder`; a step of anybody may fall between them), and a faucet call has no other next write than its retry (`AfterFaucet`). In `store` the
  queries answer before the first write.

The bounds are guards of the model only; each is a constant declared with the word "bound".
Deadlock is checked in `oracle`, where the keeper always has a next step. It is not checked where the system may really
stop: bounded instances of the contracts run out of transactions, and the contracts only react to calls; a keeper with a
configuration that is refused never starts; a user who does nothing ends a behaviour of the web client.

### Fairness

The contracts have none: nothing in them happens unless somebody calls.

* `WF(KeeperStep \/ Boot)` in `Keeper`: the timer fires, every await returns or times out (`pollResult` counts its attempts), so a
  cycle goes on; and whoever supervises the process starts it again. Which of its steps it takes is not assumed:
  each visits one item of a shrinking set.
* `WF(KeeperStep)` in `PriceRelay`, for the same reason.
* `WF(SettleLate)` in both: a transaction has time bounds, so the network applies it, fails it or lets it expire.
* `WF(Poll(i))` in `TxStore`: the polling loop of `invokeContract` runs at most 40 times. A user may never sign, so nothing is
  assumed of `Send`.

Nothing is assumed of traders, prices, LPs, other keepers, the operator and the network's inclusion of a user's transaction.
Faults are bounded in number, so a behaviour has a last one: liveness is that the system recovers after it.

### What the properties say

* `Backing`: `margin_pool` is exactly the margin of the open positions plus the escrow of the
  resting entry orders, so the `AccountingError` of `move_pools` cannot occur.
* `OiMatches`: each open-interest counter is the notional of the open positions of that market and side.
* `LivePositions`: a stored position has margin and size, also after `decrease`, `remove_margin` and
  `increase`, which subtract.
* `HealthOnlyLostToMarket`: while price, funding index and configurations stand still, nobody's
  transaction takes a healthy position below maintenance, and a position is born healthy. A partial close
  may leave it one unit below, which is what its divisions can lose (section 5, observations).
* `LpMarkKept`: while the market stands still, no transaction lowers what the LPs would keep
  if everything were settled at once, by more than one unit of rounding. Steps of `increase` are
  excluded from it and from the former, because the entry price it blends changes the profit made so far (section 5, observations).
* `CustodyKept`: the engine with the vault implements `Custody`, in which every position and every entry order has an account of its own.
  A transaction concerns one claim: what leaves the token account goes to that claim's owner (and a liquidator), what the claim does not
  cover comes from the LPs' cash, what is left of it goes there, and a claim that was settled never comes back. It says more than `Backing`, which an
  engine that paid the wrong trader, or out of the wrong record, would keep.
* `ExitsFunded`: the vault can pay every close, liquidation and refund for which the LPs' cash covers what is not the claim's own amount, and
  every withdrawal of margin: nobody's exit depends on another trader's claim.
* `LiquidationPriceTells`: while the mark is on the safe side of the liquidation price that `position_view` reports, `liquidate` refuses the position,
  and once it is past it by more than the divisions can hide, `liquidate` takes it.
* `FundingBounded`: a funding update moves the index toward the heavier side and by no more than the cap.
* `ExposureGuarded`, `IndexConsistent`, `StopTargetsOwn`, `RegistryConsistent`: above.
* `WindowFolded`: the ids in memory and on disk are what the events from the start of the scan to the cursor say,
  however the pages fell and whatever was read again.
* `LiveNeverDropped`: an id, once known, leaves only when its position is gone from the chain.
* `PositionsServed`, `OrdersServed`: nothing that is known, or within reach of a cold start, stays liquidatable or fillable forever.
* `ShutdownFinishes`: a SIGTERM in mid-cycle ends the process.
* `AdapterImplementsFeed`: an accepted price changes only to the upstream's fresh quote, within the band of the one before it.
* `RelayStepAccepted`: from a copy equal to the accepted price, the relay's step is one the adapter takes; the keeper's comment says so, and it is violated
  under the deployed guard. `RelayDelivers`: a real
  price that stays within the guard of the accepted one does become the accepted one, through lost answers, late writes of older prices, restarts
  and the operator's interventions. Beyond the guard it promises nothing, and the code does not either.
* `FormsMirrorEngine`: with fresh queries, the ticket and the vault's forms offer what the contracts accept, up to the tolerance
  on the balance and half a unit of rounding on the size, and no ticket, deposit or margin change that they accept is refused by its form. The margin
  form is only held to this while all the user's positions can be valued (section 5).
* `FormsShowTruth`: with fresh queries, what an offered ticket costs and what MAX fills in is in the wallet, fee included; a withdrawal
  pays what was typed or less; and the previewed liquidation price and the displayed funding rate are what the contracts
  compute, up to the truncations of the contracts' divisions.
* `RowsTrackChain`: however prices jump and reads fail, no page values a position at a price outside the ticker's band around one the chain can have, 0 excluded; and
  with the list of positions up to date, the profit net of funding of a row and the portfolio's equity are `position_view`'s, but for
  one division and what the ticker's price is away from the mark.
* `LifecycleRefines`: a record moves through sign, submit and confirm in this order, says "confirmed" only of what took effect and
  "refused" only of what never does, and does not stay pending. `RetryDoublesOnlyLost`: only a record that said its outcome was unknown
  can have its retry trade a second time.
* `BoardCountsOnce`: a published leaderboard counts every trade of one contiguous range of ledgers once, in rows and totals,
  and ranks every trader it saw once and in order; a fetch that drained the pages went at least to the ledger that was latest when it began.
* `ShareValueKept`, `DepositIsFair`, `LastShareTakesAll`: rounding of the share conversions favours those
  who stay, by less than one share's worth; the last redeemer leaves nothing behind.

## 4. What is proved

Theorems hold for every value of the constants: any finite set of users, any set of markets and
configurations `validate` admits, any prices, amounts and scales, and any bound on positions,
orders and the funding index. They rest on the modules' named assumptions, which TLC evaluates on
every instance: `ScaleAssumption` (the scales are positive and one divides the other),
`UsersAssumption` (finitely many accounts), `TokenAssumption` (the vault is no user), `ShareAssumption`,
`RegistryAssumption`, `EngineAssumption` (the inputs are integers), `StartMarketsAssumption` (the
deployment script's configurations pass `validate`), `AbsenceAssumption` (the marker of an absent key is
no record). The adapter's theorems add `OracleAssumption`, `RelayAssumption` (the three fractions are at most a half) and
`PowerAssumption` (the powers of ten in use are positive: no installed prover knows exponentiation); the web client's,
`WebAssumption` and `TxAssumption`; the keeper's, `EventLogAssumption`, `IndexerAssumption`, `ConfigAssumption` (the lookback is an
integer or unset) and `KeeperAssumption`; the leaderboard's, `BoardAssumption` (finitely many traders, at least one lookback window).

| Theorem | Property | For |
|---|---|---|
| `VaultTypeCorrect`, `VaultIsSolvent`, `SharesAddUp` | `VaultTypeOK`, `Solvent`, `SharesMatch` | `VaultSpec`: an engine that makes any custody call |
| `TypeCorrect` | `TypeOK` | `Spec` |
| `EngineKeepsVaultSolvent` | `Solvent` | `Spec`, where `increase` and `decrease` make two vault calls in one step |
| `MarginIsBacked`, `NoAccountingError` | `Backing`; no record holds more than the pool | `Spec` |
| `OpenInterestIsExact` | `OiMatches` | `Spec` |
| `PositionsLive` | `LivePositions` | `Spec` |
| `IndexesFollowRecords` | `IndexConsistent` | `Spec` |
| `StopsNameTheirPosition` | `StopTargetsOwn` | `Spec` |
| `RegistryStaysValid` | `RegistryConsistent` | `Spec` |
| `ExposureStaysGuarded` | `ExposureGuarded` | `Spec`, a property of steps |
| `FundingStaysBounded` | `FundingBounded` | `Spec`, a property of steps |
| `SharesKeepValue`, `DepositsAreFair`, `LastShareEmptiesPool` | `ShareValueKept`, `DepositIsFair`, `LastShareTakesAll` | `VaultSpec`, properties of steps |
| `HealthIsKept` | `HealthOnlyLostToMarket` | `Spec`, a property of steps |
| `LpsLoseOnlyToTheMarket` | `LpMarkKept` | `Spec`, a property of steps |
| `LiquidationPriceIsTrue` | `LiquidationPriceTells` | `Spec` |
| `ExitsStayFunded` | `ExitsFunded` | `Spec` |
| `ClaimsAreSegregated` | `CustodyKept`: initial states and every step of the refinement | `Spec` |
| `OracleTypeCorrect` | `OracleTypeOK` | `PriceRelay!Spec` |
| `RelayStepNeedsWideGuard` | what `RelayStepAccepted` depends on: every step is accepted with a guard of 5000 bps or more, no full step with one of 2000 or less | `PriceRelay!Spec`, with the code's 35 percent, for a copy of four units or more |
| `KeeperTyped`, `FoldIsExact` | `KeeperTypeOK`, `WindowFolded` | `Keeper!Spec` |
| `LivePositionsKept` | `LiveNeverDropped` | `Keeper!Spec`, a property of steps |
| `BoardIsExact` | `BoardCountsOnce` | `BoardSpec` |
| `AdapterKeepsPromise` | `AdapterImplementsFeed` | `PriceRelay!Spec`: initial states and every step of the refinement |
| `TxTypeCorrect` | `TxTypeOK` | `WebSpec` |
| `RefusedNotRepeated` | `RetryDoublesOnlyLost` | `WebSpec` |
| `LifecycleKept` | `TxLifecycle`'s `Init` and `Next`, the safety half of `LifecycleRefines` | `WebSpec` |
| `BooksUnderTheApp` | `EngineInv`, the engine's whole invariant | `WebSpec` |
| `FormsShowChain` | `FormsShowTruth` | `WebSpec`, for 500 basis points or more in one (the code has 10 000) |
| `RowsFollowChain` | `RowsTrackChain` | `WebSpec` |
| `FormsOfferWhatIsTaken` | `FormsMirrorEngine` | `WebSpec` |

**Sums.** `Total(f)` is the sum of a function over a finite set of ids or users. It is defined as the
cardinality of the set of pairs of an id and a unit below its value, so that the library's theorems on finite
sets give what an induction would otherwise have to: `TotalUpdate` (changing one value changes the sum by the
difference), `TotalBound` (no value exceeds the sum), `TotalZero`, `TotalOne`.

**The vault.** `VaultInv` is the type invariant with `SharesMatch` and `Solvent`; it is inductive, and no
part is without the others. `remove_liquidity` divides by the total and pays `lp_cash * burned / total`:
that this is no more than `lp_cash` needs `burned <= total`, which is `SharesMatch` with `TotalBound`, and
only then does the account still cover both pools.

The share properties are about steps from a state of `VaultInv`, and about quotients with a product on either side:
`DepositNumbers` and `RedemptionNumbers` state what truncation gives for one deposit and one redemption, with no state in them. A
step of the engine moves the pool but no share, which is why `ShareValueKept` is about the steps of LPs.

**The engine.** `EngineInv` is the conjunction of `VaultInv`, the books of markets, positions and orders, `Backing`
and `StopTargetsOwn`. Each conjunct is needed by an action that does not mention it:

* `execute_order` opens a position without the checks of `open_position`: that the new position is live
  follows from what placement left in the record, so the invariant says that every resting
  entry order has positive margin and notional;
* `execute_order` closes the position a stop names, and removes the stop with no escrow to release: this keeps
  `Backing` because a stop's margin is 0, and finds a position of the right owner because of `StopTargetsOwn`;
* a stop survives its position, and ids come from a counter: `StopTargetsOwn` is kept by `open_position`
  only because every stop's position id is below the counter;
* `close_position`, `liquidate` and `decrease` lower the counters: that they stay natural numbers, and that
  `OiMatches` holds after, needs the counters to be the sums;
* `increase` and a partial close divide by sizes and entry prices: positive by `LivePositions`.

The proof has one lemma for each way a book changes (`CreateBook`, `StoreBook`, `RemoveBook` for positions, their
counterparts for orders), one for each pair of vault calls (`RealizeThenLock`, `RealizeThenSettle`), one for each
entry point, and one for each group of `Next`. `ExposureStaysGuarded` and `FundingStaysBounded` use the invariant
in the state before the step: the sign of the funding rate, and that it is at most the cap, follow from the
counters being sums and so never negative.

**Value.** A position's health after a step is a matter of nested truncations: profit and funding of what is left of it against
maintenance of what is left of its notional. Everything but a partial close leaves the position's profit, funding and maintenance as
they were and moves its margin only, and each entry point that lowers the margin ends with a check that implies `Healthy`. A partial
close divides profit, funding and margin: a part of a truncated quotient and its rest lose at most one unit together, which
`HelixShared_proofs` states for any fraction, and the rest keeps at least the whole's margin per notional. That leaves one unit, and
the attempt to prove the property without it gave the counterexample of section 5; none of the bounded instances reaches it.

`LpMarkKept` compares sums over all records before and after: `WorthStep` and `RefundStep` give what one changed record does to its
sum (`TotalUpdate`), `PoolsMoved` what a pair of vault calls does to the pool, and each entry point has one lemma that adds them up
(`CloseMark`, `DecreaseMark`, `LiquidateMark`, `CancelOrderMark`, ...). It needs one fact `EngineInv` does not have, `ListedOrders`: a
resting entry order names a listed market, or its refund would not be a number; `MarkInv` is the two together.

**The liquidation price.** `position_view` solves `equity = maintenance` for the mark with one truncating division by the notional; `liquidate` compares
after another, by the entry price. `BreakEven` has both with no state in them: writing each truncated quotient as an exact
product and a remainder (`TDivAgainst`), how far the mark is past the reported price, times the notional, is the missing equity times the entry price up to the two
remainders. On the safe side they point the same way, and no slack is needed; past it they cost `entry + notional` at most, which is the
slack of `LiquidationPriceTells`. That the reported price is cut at 0 costs nothing, since a mark is never negative.

**Custody.** `ClaimsAreSegregated` maps the engine's records to the claims of `Custody`: an open position and a resting entry order are held claims, an id below
the counter without a record is closed, an id beyond it unused. The argument has three layers. `MoneyIn` and `MoneyOut` are the token account and the purses
of one vault call, `LockBrings` and `SettlePays` add the pool; `ClaimOpened`, `ClaimHeld`, `ClaimClosed`, `ClaimAdjusted` and their counterparts for
orders are what one change of the books is to the claims; and each entry point has one lemma that joins the two (`CloseCustody`, `DecreaseCustody`,
`LiquidateCustody`, ...). A fill maps to `Fill`, or to `Close` of the position a stop names; a funding update and every step of the registry to a stutter; a direct transfer
of tokens into the vault to `Outside`. `EngineInv` is needed in the state before the step: that the pool covers the
amounts (`Backing`), that a partial close leaves a margin (`LivePositions`), that ids at the counters have no record, and that a stop's position is
its owner's (`StopTargetsOwn`). In `increase` and `decrease` the two vault calls of one transaction become one step of `Custody`: what funding
moved between the pools in between is invisible to it.

`ExitsStayFunded` is a consequence of the invariant: each claim is part of the margin pool (`Backing` with `TotalBound`), and the account covers both pools.

**The adapter.** `OracleTypeOK` is inductive: the cached precision is the upstream's because `set_reflector` reads it, and a relayed or
simulated price is positive because the fractions are below one. `AdapterKeepsPromise` needs it for one fact, that the normalised quote
is the true one (`NormalizeIsTrueQuote`), and then that `Deviation <= band`, with its truncated division, is `Near` (`WithinIsNear`).
Every other step leaves the accepted price alone. `RelayStepNeedsWideGuard` says of the keeper's promise what it rests on, with the code's numbers: a step is
35 percent of the copy at most, and from four units on half a unit of rounding is 12.5 percent at most: less than half of the price together, which the 5000 bps of
`refresh_oracle.ps1` take, while a full step loses no more than that to rounding and stays above the 2000 bps of `deploy_testnet.ps1`, which refuse it. `RelayStepAccepted` without a hypothesis on the guard is false, and is the
finding `relay_step`.

**The writes.** `TxInv` says of a record what its claim rests on: "confirmed" that the ledger says success of its transaction, "refused"
that it was never sent or that the ledger says failure; and of the node's queue that what it holds was sent, for that account, with the next
number, and is not in the ledger. The last is what makes inclusion safe: when the ledger takes a transaction, no record has yet been sure of it
(`IncludeMoves`). That the queue's claim survives needs two facts about accounts: numbers only grow, and one that does not exist yet has no
transaction built for it (`CreateNetwork`). The contracts appear in these proofs as an unknown that may change in any way.

**The forms.** `WebInv` adds to `TxInv` the engine's invariant, the types of the cache (`ViewOK`, however old its answers are) and the
types of the stored calls (`CallsOK`): a call keeps the form it was built with through every retry, so what the node executes is always
one of the entry points the engine's lemmas are about (`ExecuteInv`), also from a stale cache and from the wrong wallet. That gives `BooksUnderTheApp`. What the
forms show is then arithmetic over one state. Three lemmas carry it: `FeeFits` (a budget kept as a fraction is kept by the truncated fee of the rounded
size), `WithdrawNumbers` (the share price and the cash of a withdrawal are both rounded down) and `PreviewNumbers`. The preview cancels
the notional out of the liquidation price, while the engine divides by it; times the notional, their difference is an exact polynomial in what the rounded
size, the basis points and the last division lose, which bounds it by `base * (p + n)`. The invariant is needed for what these divide by: entry prices and open interest are
natural numbers, and a user's shares are part of the total. `FormsShowChain` has one hypothesis on a constant, because the property is
false without it: `validate` caps the taker fee at 999 basis points, and if that were twice the size or more, the half unit of rounding would cost
more than one unit of fee.

`RowsFollowChain` needs of the cache, in `WebInv`, that anchors and live prices are positive prices of the chain and prices of their band: a failed read must not
become an anchor (`AnchorStep`), and an anchor that jumps leaves a live price of the old band, still near a price of the chain, until the ticker's
next step (`LiveIsNear`). The rows are an exact fraction over the entry price, `position_view` its truncation, and between them the distance of two marks times the notional
(`RowNumbers`); that every listed position still has its record, and so an entry price to divide by, is the engine's invariant (`RowShown`).

`FormsOfferWhatIsTaken` compares the forms' conditions with the contracts' checks, one by one. A quoted price is the mark, so that a market
order has no slippage against itself (`QuotedPrice`); the slider's range is the leverage cap, also after rounding (`SliderFits`); what the engine locks
fits the balance exactly when the cost does (`LockIsCost`). The other direction of the budget is `CostFits`: rounding up the size and rounding down the
fee hide less than one unit, which is what the form's tolerance of at least one unit (`WebAssumption`) is for. A redemption is
paid because a user's shares are part of the total and the account covers both pools (`SharesMatch`, `Solvent`). Beside `WebInv` it needs that the engine is wired into
the vault, which no step undoes (`StaysWired`).

**The keeper.** `IInv` of `Keeper_proofs` says of the process's memory and of the file, separately, that each is `Tracked`: its ids name
positions that were opened, and when it has a cursor, the ids are the fold of the events from `from` to the cursor and the cursor stands inside
the log. The two copies need it each: a restart takes the file's, and a save the memory's. `ChainOK` ties the log to the positions (an
event of opening names a position that was opened, one of closing a position that is gone), without which the fold would say nothing of the
chain. `Backed` says that the file is never ahead of the memory of a running process, but for positions that are gone: it is
what makes a save keep the live ids of the file, so `LiveNeverDropped` rests on it. `env \in Envs` makes the start of a cold
scan a ledger. The environment's steps are one lemma, `Grows`: the log only gets longer and a position only goes on in its life, so that what was folded
stays folded. The heart is that folding a page that starts right after the cursor extends the agreement to the new cursor.

**The leaderboard.** `BoardInv` says that rows and totals are what a count over `span` gives, while they are being read and in the
published board. A page keeps it because the node's page holds every trade from its start to its cursor and none beyond (`PageCovers`), so that the
ledgers of the next one are new (`PageRead`); appended events change no sum over older ledgers (`StaysRead`), and forgotten ones
none at all. `RowMore` and `StatsMore` are the step of the fold, one trade more in the set counted. That the published ranking exists for
every outcome, ties included, is `RankingExists`.

**Induction over data.** The library's induction theorems take an operator, which the installed provers cannot instantiate. `Keeper_proofs` and
`Leaderboard_proofs` prove instead, from the well-foundedness of `<`, that a set of naturals which holds 0 and with a number the
next holds them all (`SetInduction`), and cite that with the set of lengths for which a fact holds. The folds over a log are recursive functions in
the models for that reason.

**Only model-checked.** Liveness (`PositionsServed`, `OrdersServed`, `ShutdownFinishes`, `RelayDelivers`, the `Settles` of
`LifecycleRefines`), which is out of the prover's reach; and the disagreements below, which are counterexamples. Every other invariant and
property of steps that a passing run checks is a theorem.

## 5. Where the code and its documentation disagree

1. **The global pause does not halt the engine** (run `pause`, `PauseHaltsEngine`). `market_registry` documents the switch
   as halting all engine entry points; only `open_position`, `increase`, `place_order` and
   `execute_order` read it. With the switch tripped, positions are closed, reduced and liquidated,
   margin is moved, funding is updated, stops are placed and orders cancelled.
2. **The refund of a cancelled order is not what was escrowed** (run `cancel_refund`, `RefundFixed`). `cancel_order`
   recomputes the fee from the market's current configuration; after `update_market` changes the taker
   fee, LPs pay or keep the difference.
3. **A cold start is not clamped to the node's history** (run `coldstart`, `RetainedServed`). The indexer's comment says it is; `buildRequest` clamps to
   ledger 1. With a lookback longer than the retention, every cycle asks for a ledger that is gone, and positions whose opening the node still serves are never
   scanned.
4. **The adapter accepts a price of zero** (run `zero_price`, `AcceptedPositive`). Positivity is checked before the normalisation; a quote below one protocol unit
   becomes 0, which is accepted as the feed's first price; from then on every deviation test of the feed divides by it.
5. **The deployed guard refuses the relay's step** (run `relay_step`, `RelayStepAccepted`). The keeper walks a price in by up to 35 percent a cycle, which its comment
   (`keeper.ts:48-53`) calls comfortably inside the adapter's guard, with a move from 0.12 to 0.21 as the example; `deploy_testnet.ps1:54` deploys a guard of 2000 bps. In
   the run the first step, to 0.162, is accepted as the feed's first price; the next one, to 0.21, is 29 percent from it and refused. From then on `get_price`
   reverts for that feed, the keeper's own copy walks on and stays out of the guard, until an admin widens it as `refresh_oracle.ps1:32` does.

Observations met while modelling, which have no run of their own:

* `increase` blends the entry price as the mean weighted by notional, as `lib.rs:549` says, while profit is `notional * (mark - entry) / entry`; the mean
  that leaves the profit made so far as it was is the harmonic one. Nothing in the repository says that an increase keeps it, so this is no finding;
  `HealthOnlyLostToMarket` and `LpMarkKept` leave increases out.
* A partial close can leave a position one unit below maintenance that was just above it, at an unmoved price: `decrease` divides
  margin, profit and funding, and each division rounds. With a notional of 30, a maintenance rate of 1630 bps, a margin of 3 after funding and
  a profit of 1 (a thirtieth), the position is worth 4 of the 4 it needs; after a partial close of 10 it is worth 2, and needs 3. `decrease`
  checks that margin is left, not that the position is healthy.
* The simulated walk (`keeper.ts:198-208`) steps by more than one percent when it starts from a price the relay left outside its band.
* `onHash` also fires for a transaction answered `TRY_AGAIN_LATER` (`client.ts:92`), which was not accepted.
* Before a price is read, and after a failed read, the ticket sends a reference of 0
  (`trade/page.tsx:32`, `order-ticket.tsx:87`), which the engine reads as "no slippage check" (`perp_engine lib.rs:1073`).
* The web client polls for a minute a transaction that is valid for two, so a record that failed by timeout may still
  apply, and its retry applies again (`RetryDoublesOnlyLost` allows exactly this). A retry goes out from whatever wallet is
  connected, passes its simulation and fails on chain when the call names another trader.
* `user_positions` traps as a whole when one of the user's positions cannot be valued (`perp_engine lib.rs:978`): the app keeps the list it last had,
  and the margin form compares a withdrawal from a position of another market with a margin that may be old. The attempt to prove
  `FormsMirrorEngine` without the hypothesis `AllViewed` found it; the instance has one market, where such a withdrawal is refused anyway.
* The ticket knows neither the pause switches, nor the open-interest cap, nor the initial margin (`LeftToEngine`).
* The leaderboard is cut silently at `MAX_PAGES` or when a page fails; `place_stop` has a call builder and no form.

## 6. What is not modelled, and why

* Timestamps in the engine (`opened_at`, `LastFundingTs`): recorded and read by nothing. Order
  timestamps likewise.
* Storage TTL and archival: the contracts extend every key they touch; an archived key is
  restored, not lost.
* The width of `i128`: overflow traps and reverts; no amount that can exist comes near it.
* Events, views that only format, display symbols, error codes (a failed check reverts whatever its code).
* Token allowances, admin transfer of the access-control library, `upgrade` (it replaces the program).
* The web client's activity feed (`events.ts`: one page of events, formatted), charts, landing page, rendering, toasts, preferences
  and the encoding of arguments. Of the ticker (`live-price.ts`), the distribution of its noise.
* The keeper's log lines and counters, and the file format of earlier versions of `state.json`.
* Reflector's and Stellar's own behaviour beyond what the code relies on: quotes, ledgers, sequence numbers, time bounds.
* The scripts: sequential set-up; the state they leave is the initial state of the models.

## 7. Plan

What is left: the activity feed, with its window of events.
