----------------------------- MODULE PriceRelay -----------------------------
(***************************************************************************)
(* The keeper's price source composed with the oracle it writes to:        *)
(* refreshPrices, then update_funding, which makes the adapter accept the  *)
(* price.  The markets share nothing here, so the module follows one.      *)
(* Prices are in the protocol's units; the floats of the code are rounded  *)
(* to its price granularity, which is one unit here.                       *)
(***************************************************************************)
EXTENDS OracleAdapter

CONSTANTS
    Feed, Asset,   \* the market's feed, and the asset the keeper writes
    BasePrice,     \* the market's basePrice
    Flags,         \* the switches the keepers of an instance run under
    RealPrices,    \* what Reflector's own oracle comes to report
    DeployGuards,  \* the guards the adapter is deployed with
    MAX_RELAY_STEP, MAX_TICK, MAX_DRIFT,  \* the fractions, in percent
    MaxOps,        \* bound of an instance on the operator's interventions
    MaxFaults      \* and on RPC errors and restarts

ASSUME RelayAssumption ==
    /\ Feed \in Feeds /\ Asset \in Assets
    /\ Flags \subseteq [relay : BOOLEAN, simulate : BOOLEAN, symbol : BOOLEAN]
    /\ BasePrice \in Nat \ {0} /\ RealPrices \subseteq Nat
    /\ DeployGuards \in [max_age : Nat, max_deviation_bps : Nat]
    /\ MAX_RELAY_STEP \in 0 .. 50 /\ MAX_DRIFT \in 0 .. 50  \* a price stays a price
    /\ {MAX_TICK, MaxOps, MaxFaults} \subseteq Nat
    /\ Decimals[Mock] >= PRICE_DECIMALS

VARIABLES
    flags,     \* relayReflector, simulatePrices, and whether the feed has a symbol
    real,      \* Reflector's price of the symbol, or NoPrice
    lastSimPrice,  \* the keeper's copy of the price it last wrote
    pc,        \* the await the cycle stands at: "read", "set" or "fund"
    next,      \* the price being written
    late,      \* a transaction whose outcome the keeper did not wait for
    ops, faults

relayVars == <<flags, real, lastSimPrice, pc, next, late, ops, faults>>
vars == <<oracleVars, relayVars>>

Txs == [method : {"set_price"}, price : Int]
          \cup [method : {"update_funding"}, price : {0}]
Tx(method, price) == [method |-> method, price |-> price]
NoTx == Tx("none", 0)

Init ==
    /\ OracleInit(DeployGuards)
    /\ flags \in Flags
    /\ real \in RealPrices
    /\ lastSimPrice = BasePrice
    /\ pc = "read"
    /\ next = NoPrice
    /\ late = NoTx
    /\ ops = 0 /\ faults = 0

Fault ==
    /\ faults < MaxFaults
    /\ faults' = faults + 1

---------------------------------------------------------------------------
(* The prices.                                                             *)

Least(a, b) == IF a < b THEN a ELSE b
Most(a, b) == IF a > b THEN a ELSE b

\* Math.round of n / 100 for positive n.
Rounded(n) == (n + 50) \div 100

StepToward(target) ==
    LET maxStep == lastSimPrice * MAX_RELAY_STEP
        delta == Most(-maxStep, Least(maxStep, (target - lastSimPrice) * 100))
    IN  Rounded(lastSimPrice * 100 + delta)

\* A walk of up to MAX_TICK either way, kept within MAX_DRIFT of the base: the
\* ends of the walk's range and its middle stand for the random step.
NextSimPrice ==
    {Rounded(Most(BasePrice * (100 - MAX_DRIFT),
                  Least(BasePrice * (100 + MAX_DRIFT), lastSimPrice * (100 + step)))) :
        step \in {-MAX_TICK, 0, MAX_TICK}}

PriceToOracle(price) == price * Pow10(Decimals[Mock] - PRICE_DECIMALS)

---------------------------------------------------------------------------
(* Transactions.                                                           *)

Succeeds(tx) == tx.method = "update_funding" => GetPriceOK(Feed)

Effect(tx) ==
    IF tx.method = "set_price"
    THEN SetPrice(Asset, PriceToOracle(tx.price))
    ELSE GetPrice(Feed)

Confirmed(tx) == late = NoTx /\ Succeeds(tx) /\ Effect(tx) /\ UNCHANGED <<late, faults>>

\* The call throws: it reverts or is refused, or the RPC fails before or after
\* the transaction was sent.
Throws(tx) ==
    /\ UNCHANGED oracleVars
    /\ \/ (late # NoTx \/ ~Succeeds(tx)) /\ UNCHANGED <<late, faults>>
       \/ Fault /\ UNCHANGED late
       \/ Fault /\ late = NoTx /\ Succeeds(tx) /\ late' = tx

SettleLate ==
    /\ late # NoTx
    /\ \/ Succeeds(late) /\ Effect(late)
       \/ UNCHANGED oracleVars
    /\ late' = NoTx
    /\ UNCHANGED <<flags, real, lastSimPrice, pc, next, ops, faults>>

---------------------------------------------------------------------------
(* The cycle.                                                              *)

Choose(price) == next' = price /\ pc' = "set"
Skip == UNCHANGED next /\ pc' = "fund"

Simulated ==
    IF flags.simulate THEN \E p \in NextSimPrice : Choose(p) ELSE Skip

\* Reflector's record of the symbol; a read that fails is a feed without one.
ReadReflectorPrice(answer) ==
    \/ answer = real /\ UNCHANGED faults
    \/ answer = NoPrice /\ real # NoPrice /\ Fault

\* A cycle with neither flag set goes straight to funding.
ReadReal ==
    /\ pc = "read"
    /\ IF flags.relay /\ flags.symbol
       THEN \E answer \in {real, NoPrice} :
              /\ ReadReflectorPrice(answer)
              /\ IF answer # NoPrice THEN Choose(StepToward(answer)) ELSE Simulated
       ELSE Simulated /\ UNCHANGED faults
    /\ UNCHANGED <<oracleVars, flags, real, lastSimPrice, late, ops>>

\* Mutation: the copy stays at the base price.
WritePrice_Forgotten ==
    /\ pc = "set"
    /\ Confirmed(Tx("set_price", next)) \/ Throws(Tx("set_price", next))
    /\ pc' = "fund"
    /\ next' = NoPrice
    /\ UNCHANGED <<flags, real, lastSimPrice, ops>>

\* The copy moves only when invoke returns.
WritePrice ==
    /\ pc = "set"
    /\ \/ Confirmed(Tx("set_price", next)) /\ lastSimPrice' = next
       \/ Throws(Tx("set_price", next)) /\ UNCHANGED lastSimPrice
    /\ pc' = "fund"
    /\ next' = NoPrice
    /\ UNCHANGED <<flags, real, ops>>

UpdateFunding ==
    /\ pc = "fund"
    /\ Confirmed(Tx("update_funding", 0)) \/ Throws(Tx("update_funding", 0))
    /\ pc' = "read"
    /\ UNCHANGED <<flags, real, lastSimPrice, next, ops>>

\* A new process: the copy starts from the base price again.
Restart ==
    /\ Fault
    /\ lastSimPrice' = BasePrice
    /\ pc' = "read"
    /\ next' = NoPrice
    /\ UNCHANGED <<oracleVars, flags, real, late, ops>>

KeeperStep == ReadReal \/ WritePrice \/ UpdateFunding

MarketMoves ==
    /\ real' \in RealPrices \cup {NoPrice}
    /\ UNCHANGED <<oracleVars, flags, lastSimPrice, pc, next, late, ops, faults>>

\* A trade, or anyone at all, has the adapter accept the price.
OtherGetPrice == GetPrice(Feed) /\ UNCHANGED relayVars

Operator ==
    /\ ops < MaxOps
    /\ ops' = ops + 1
    /\ OperatorNext
    /\ UNCHANGED <<flags, real, lastSimPrice, pc, next, late, faults>>

Clock == TimePasses /\ UNCHANGED relayVars

Next ==
    KeeperStep \/ SettleLate \/ Restart \/ MarketMoves \/ OtherGetPrice \/ Operator \/ Clock

Spec == Init /\ [][Next]_vars /\ WF_vars(KeeperStep) /\ WF_vars(SettleLate)

---------------------------------------------------------------------------
(* Properties.                                                             *)

\* No accepted price is negative, the cached precision is the upstream's, and
\* the keeper writes a price only where it has chosen one.
OracleTypeOK ==
    /\ feed \in [Feeds -> Assets \cup {NoAsset}]
    /\ reflector \in Upstreams
    /\ decimals = Decimals[reflector]
    /\ guards \in Guards \cup {DeployGuards}
    /\ last \in [Feeds -> Nat \cup {NoPrice}]
    /\ mockPrice \in [Assets -> {NoQuote} \cup [price : Int, timestamp : 0 .. MaxTime]]
    /\ now \in 0 .. MaxTime
    /\ flags \in Flags /\ real \in RealPrices \cup {NoPrice}
    /\ lastSimPrice \in Nat \ {0}
    /\ pc \in {"read", "set", "fund"}
    /\ pc = "set" <=> next # NoPrice
    /\ next # NoPrice => next \in Nat \ {0}
    /\ late = NoTx \/ late \in Txs
    /\ ops \in 0 .. MaxOps /\ faults \in 0 .. MaxFaults

\* The quote as the upstream means it, by its own precision.
TrueQuote ==
    IF Upstream(Feed) = NoQuote \/ Upstream(Feed).price <= 0 THEN NoPrice
    ELSE [price |-> LET d == Decimals[reflector] - PRICE_DECIMALS
                    IN  IF d >= 0 THEN Upstream(Feed).price \div Pow10(d)
                        ELSE Upstream(Feed).price * Pow10(-d),
          fresh |-> now <= Upstream(Feed).timestamp + guards.max_age]

Promise == INSTANCE PriceFeed
    WITH quote <- TrueQuote, accepted <- last[Feed], band <- guards.max_deviation_bps

\* Whoever calls get_price, whenever a late transaction lands, and however the
\* operator swaps upstreams, remaps feeds and moves the guards in between, the
\* price the engine is given changes as PriceFeed promises.
AdapterImplementsFeed == Promise!Spec

\* "Stays comfortably inside the oracle adapter's deviation guard so a large first
\* move is walked in over a couple of cycles": a keeper whose copy is the accepted
\* price never computes a step the adapter refuses.
RelayStepAccepted ==
    (flags.relay /\ flags.symbol /\ real # NoPrice /\ last[Feed] = lastSimPrice) =>
        Within(StepToward(real), Feed)

\* The market's feed goes through the oracle the keeper writes to.
Configured ==
    /\ flags.relay /\ flags.symbol
    /\ reflector = Mock /\ feed[Feed] = Asset

\* A real price that stays put and is near enough to the accepted one to be
\* accepted does reach the engine, after lost answers, late writes of older
\* prices, a restart that forgot the copy, and hands on the oracle in between.
RelayDelivers ==
    \A target \in RealPrices :
        []<>~(/\ Configured
              /\ real = target
              /\ last[Feed] # target /\ Within(target, Feed))

\* "Every price returned by get_price must pass: 1. Positivity - a non-zero,
\* positive price".
AcceptedPositive == \A f \in Feeds : last[f] # NoPrice => last[f] > 0

=============================================================================
