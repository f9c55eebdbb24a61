-------------------------- MODULE PriceRelay_proofs --------------------------
(***************************************************************************)
(* The oracle adapter under any keeper, operator and caller: its state     *)
(* keeps its types, and what it gives the engine changes as PriceFeed      *)
(* promises, for every upstream, precision, guard and price.               *)
(***************************************************************************)
EXTENDS PriceRelay, TLAPS

-----------------------------------------------------------------------------
(* The arithmetic of the adapter.                                          *)

\* A quotient of natural numbers, and what its bound says of the dividend.
LEMMA Quotient ==
    ASSUME NEW a \in Nat, NEW b \in Nat \ {0}
    PROVE  /\ a \div b \in Nat
           /\ \A n \in Nat : a \div b <= n => a < (n + 1) * b
<1>1. /\ a \div b \in Nat
      /\ b * (a \div b) <= a
      /\ a < b * (a \div b) + b
  OBVIOUS
<1>2. ASSUME NEW n \in Nat, a \div b <= n
      PROVE  a < (n + 1) * b
  <2>1. DEFINE q == a \div b
  <2>2. q \in Nat /\ q <= n /\ a < b * q + b
    BY <1>1, <1>2
  <2>3. HIDE DEF q
  <2>4. b * q <= b * n
    BY <2>2
  <2>5. QED
    BY <2>2, <2>4
<1>3. QED
  BY <1>1, <1>2

\* An upstream's quote, when it has one.
LEMMA QuoteType ==
    ASSUME OracleTypeOK, NEW f \in Feeds, Upstream(f) # NoQuote
    PROVE  /\ Upstream(f) \in [price : Int, timestamp : Nat]
           /\ reflector \in Upstreams
<1>1. feed[f] \in Assets
  BY DEF OracleTypeOK, Upstream
<1>2. CASE reflector = Mock
  BY <1>1, <1>2 DEF OracleTypeOK, Upstream
<1>3. CASE reflector # Mock
  BY <1>1, <1>3, OracleAssumption DEF OracleTypeOK, Upstream, Upstreams
<1>4. QED
  BY <1>2, <1>3 DEF OracleTypeOK

\* A positive price stays natural in the protocol's units.
LEMMA NormalizeType ==
    ASSUME OracleTypeOK, NEW raw \in Nat
    PROVE  Normalize(raw) \in Nat
<1>1. decimals = Decimals[reflector] /\ reflector \in Upstreams
  BY DEF OracleTypeOK
<1>2. decimals \in Nat /\ PRICE_DECIMALS \in Nat
  BY <1>1, OracleAssumption
<1>3. CASE decimals >= PRICE_DECIMALS
  <2>1. Pow10(decimals - PRICE_DECIMALS) \in Nat \ {0}
    BY <1>1, <1>2, <1>3, PowerAssumption
  <2>2. QED
    BY <1>3, <2>1, Quotient DEF Normalize
<1>4. CASE ~(decimals >= PRICE_DECIMALS)
  <2>1. -(decimals - PRICE_DECIMALS) = PRICE_DECIMALS - decimals
    BY <1>2
  <2>2. Pow10(PRICE_DECIMALS - decimals) \in Nat \ {0}
    BY <1>1, <1>2, <1>4, <2>1, PowerAssumption
  <2>3. QED
    BY <1>4, <2>2 DEF Normalize
<1>5. QED
  BY <1>3, <1>4

\* What the adapter computes is the quote as the upstream means it.
LEMMA NormalizeIsTrueQuote ==
    ASSUME OracleTypeOK, Upstream(Feed) # NoQuote, Upstream(Feed).price > 0
    PROVE  TrueQuote = [price |-> Normalize(Upstream(Feed).price),
                        fresh |-> now <= Upstream(Feed).timestamp + guards.max_age]
<1> DEFINE q == Upstream(Feed)
<1>1. /\ decimals = Decimals[reflector] /\ decimals \in Nat /\ PRICE_DECIMALS \in Nat
      /\ q.price \in Nat \ {0}
  BY OracleAssumption, RelayAssumption, QuoteType DEF OracleTypeOK
<1>2. TrueQuote = [price |-> LET d == decimals - PRICE_DECIMALS
                             IN  IF d >= 0 THEN q.price \div Pow10(d)
                                 ELSE q.price * Pow10(-d),
                   fresh |-> now <= q.timestamp + guards.max_age]
  BY <1>1 DEF TrueQuote
<1>3. CASE decimals >= PRICE_DECIMALS
  <2>1. decimals - PRICE_DECIMALS >= 0
    BY <1>1, <1>3
  <2>2. QED
    BY <1>2, <1>3, <2>1 DEF Normalize
<1>4. CASE ~(decimals >= PRICE_DECIMALS)
  <2>1. ~(decimals - PRICE_DECIMALS >= 0) /\ -(decimals - PRICE_DECIMALS) = PRICE_DECIMALS - decimals
    BY <1>1, <1>4
  <2>2. QED
    BY <1>2, <1>4, <2>1 DEF Normalize
<1>5. QED
  BY <1>3, <1>4

-----------------------------------------------------------------------------
(* The keeper's prices are prices.                                         *)

\* Rounding to a unit keeps half a unit or more positive.
LEMMA RoundedType ==
    ASSUME NEW n \in Int, n >= 50
    PROVE  Rounded(n) \in Nat \ {0}
BY DEF Rounded

\* A step toward a target leaves half of a price at least.
LEMMA StepType ==
    ASSUME OracleTypeOK, NEW target \in Nat
    PROVE  StepToward(target) \in Nat \ {0}
<1> DEFINE maxStep == lastSimPrice * MAX_RELAY_STEP
           far == (target - lastSimPrice) * 100
           delta == Most(-maxStep, Least(maxStep, far))
<1>1. lastSimPrice \in Nat \ {0} /\ MAX_RELAY_STEP \in 0 .. 50
  BY RelayAssumption DEF OracleTypeOK
<1>2. /\ maxStep \in Nat /\ far \in Int
      /\ lastSimPrice * MAX_RELAY_STEP <= lastSimPrice * 50
  BY <1>1
<1>3. delta \in Int /\ delta >= -maxStep
  BY <1>2 DEF Most, Least
<1>4. lastSimPrice * 100 + delta \in Int /\ lastSimPrice * 100 + delta >= 50
  BY <1>1, <1>2, <1>3
<1>5. StepToward(target) = Rounded(lastSimPrice * 100 + delta)
  BY DEF StepToward
<1>6. QED
  BY <1>4, <1>5, RoundedType

\* The simulated walk stays within its drift of the base price.
LEMMA SimType ==
    ASSUME OracleTypeOK, NEW p \in NextSimPrice
    PROVE  p \in Nat \ {0}
<1>1. PICK step \in {-MAX_TICK, 0, MAX_TICK} :
          p = Rounded(Most(BasePrice * (100 - MAX_DRIFT),
                           Least(BasePrice * (100 + MAX_DRIFT), lastSimPrice * (100 + step))))
  BY DEF NextSimPrice
<1> DEFINE low == BasePrice * (100 - MAX_DRIFT)
           high == BasePrice * (100 + MAX_DRIFT)
           walked == lastSimPrice * (100 + step)
<1>2. /\ BasePrice \in Nat \ {0} /\ MAX_DRIFT \in 0 .. 50 /\ step \in Int
      /\ lastSimPrice \in Nat \ {0}
  BY RelayAssumption DEF OracleTypeOK
<1>3. /\ 100 - MAX_DRIFT \in Int /\ 100 - MAX_DRIFT >= 50
      /\ 100 + MAX_DRIFT \in Int /\ 100 + step \in Int
  BY <1>2
<1>4. low \in Int /\ high \in Int /\ walked \in Int /\ low >= 50
  <2>1. BasePrice * (100 - MAX_DRIFT) >= BasePrice * 50
    BY <1>2, <1>3
  <2>2. QED
    BY <1>2, <1>3, <2>1
<1>5. Most(low, Least(high, walked)) \in Int /\ Most(low, Least(high, walked)) >= 50
  <2>1. HIDE DEF low, high, walked
  <2>2. QED
    BY <1>4 DEF Most, Least
<1>6. QED
  BY <1>1, <1>5, RoundedType

\* And so does what is written to the mock oracle.
LEMMA ToOracleType ==
    ASSUME NEW p \in Int
    PROVE  PriceToOracle(p) \in Int
<1>1. /\ Decimals[Mock] \in Nat /\ PRICE_DECIMALS \in Nat /\ Mock \in Upstreams
      /\ Decimals[Mock] >= PRICE_DECIMALS
  BY OracleAssumption, RelayAssumption DEF Upstreams
<1>2. Pow10(Decimals[Mock] - PRICE_DECIMALS) \in Nat \ {0}
  BY <1>1, PowerAssumption
<1>3. QED
  BY <1>2 DEF PriceToOracle

-----------------------------------------------------------------------------
(* The types.                                                              *)

\* The part of the type invariant the oracle's own actions can disturb.
OracleTypes ==
    /\ feed \in [Feeds -> Assets \cup {NoAsset}]
    /\ reflector \in Upstreams
    /\ decimals = Decimals[reflector]
    /\ guards \in Guards \cup {DeployGuards}
    /\ last \in [Feeds -> Nat \cup {NoPrice}]
    /\ mockPrice \in [Assets -> {NoQuote} \cup [price : Int, timestamp : 0 .. MaxTime]]
    /\ now \in 0 .. MaxTime

\* An accepted price is a natural number.
LEMMA GetPriceTypes ==
    ASSUME OracleTypeOK, NEW f \in Feeds, GetPrice(f)
    PROVE  OracleTypes'
<1>1. Upstream(f) # NoQuote /\ Upstream(f).price > 0
  BY DEF GetPrice, GetPriceOK
<1>2. Upstream(f).price \in Nat
  BY <1>1, QuoteType
<1>3. Normalize(Upstream(f).price) \in Nat
  BY <1>2, NormalizeType
<1>4. QED
  BY <1>3 DEF GetPrice, OracleTypeOK, OracleTypes

\* A price is stored with a timestamp the ledger can have.
LEMMA StoreTypes ==
    ASSUME OracleTypeOK, NEW a \in Assets, NEW p \in Int, NEW t \in 0 .. MaxTime,
           SetPrice(a, p) \/ SetPriceAt(a, p, t)
    PROVE  OracleTypes'
BY DEF SetPrice, SetPriceAt, Store, Quote, OracleTypeOK, OracleTypes

\* Whatever the operator does.
LEMMA OperatorTypes ==
    ASSUME OracleTypeOK, OperatorNext
    PROVE  OracleTypes'
<1>1. ASSUME NEW f \in Feeds, RemoveFeed(f)
      PROVE  OracleTypes'
  BY <1>1 DEF RemoveFeed, OracleTypeOK, OracleTypes
<1>2. ASSUME NEW f \in Feeds, NEW a \in Assets, SetFeed(f, a)
      PROVE  OracleTypes'
  BY <1>2 DEF SetFeed, OracleTypeOK, OracleTypes
<1>3. ASSUME NEW u \in Upstreams, SetReflector(u)
      PROVE  OracleTypes'
  BY <1>3 DEF SetReflector, OracleTypeOK, OracleTypes
<1>4. ASSUME NEW a \in Assets, NEW p \in RawPrices, NEW t \in 0 .. MaxTime,
             SetPrice(a, p) \/ SetPriceAt(a, p, t)
      PROVE  OracleTypes'
  <2>1. p \in Int
    BY OracleAssumption
  <2>2. QED
    BY <1>4, <2>1, StoreTypes
<1>5. ASSUME NEW g \in Guards, SetGuards(g)
      PROVE  OracleTypes'
  BY <1>5 DEF SetGuards, OracleTypeOK, OracleTypes
<1>6. 0 \in 0 .. MaxTime
  BY OracleAssumption
<1>7. QED
  BY <1>1, <1>2, <1>3, <1>4, <1>5, <1>6 DEF OperatorNext

\* A transaction of the keeper, now or late.
LEMMA EffectTypes ==
    ASSUME OracleTypeOK, NEW tx \in Txs, Succeeds(tx), Effect(tx)
    PROVE  OracleTypes'
<1>1. CASE tx.method = "set_price"
  <2>1. Asset \in Assets /\ PriceToOracle(tx.price) \in Int
    <3>1. tx.price \in Int
      BY DEF Txs
    <3>2. QED
      BY <3>1, RelayAssumption, ToOracleType
  <2>2. now \in 0 .. MaxTime
    BY DEF OracleTypeOK
  <2>3. SetPrice(Asset, PriceToOracle(tx.price))
    BY <1>1 DEF Effect
  <2>4. QED
    BY <2>1, <2>2, <2>3, StoreTypes
<1>2. CASE tx.method # "set_price"
  BY <1>2, GetPriceTypes, RelayAssumption DEF Effect
<1>3. QED
  BY <1>1, <1>2

\* How a call of the keeper ends: the oracle keeps its types, and what is left
\* outstanding is a transaction.
LEMMA CallTypes ==
    ASSUME OracleTypeOK, NEW tx \in Txs, Confirmed(tx) \/ Throws(tx)
    PROVE  OracleTypes' /\ (late' = NoTx \/ late' \in Txs) /\ faults' \in 0 .. MaxFaults
<1>1. CASE Confirmed(tx)
  BY <1>1, EffectTypes DEF Confirmed, OracleTypeOK
<1>2. CASE Throws(tx)
  BY <1>2, RelayAssumption DEF Throws, Fault, oracleVars, OracleTypeOK, OracleTypes
<1>3. QED
  BY <1>1, <1>2

LEMMA InitTypes ==
    Init => OracleTypeOK
BY OracleAssumption, RelayAssumption DEF Init, OracleInit, OracleTypeOK, Upstreams

\* A chosen price is one the keeper can write.
LEMMA ChosenTypes ==
    ASSUME OracleTypeOK, ReadReal
    PROVE  /\ pc' = "set" => next' \in Nat \ {0}
           /\ pc' \in {"set", "fund"}
           /\ pc' = "fund" => next' = NoPrice
           /\ faults' \in 0 .. MaxFaults
<1>1. next = NoPrice
  BY DEF ReadReal, OracleTypeOK
<1>2. faults' \in 0 .. MaxFaults
  BY RelayAssumption DEF ReadReal, ReadReflectorPrice, Fault, OracleTypeOK
<1>3. CASE Simulated
  BY <1>1, <1>2, <1>3, SimType DEF Simulated, Choose, Skip
<1>4. CASE real # NoPrice /\ Choose(StepToward(real))
  <2>1. real \in Nat
    BY <1>4, RelayAssumption DEF OracleTypeOK
  <2>2. StepToward(real) \in Nat \ {0}
    BY <2>1, StepType
  <2>3. QED
    BY <1>2, <1>4, <2>2 DEF Choose
<1>5. Simulated \/ (real # NoPrice /\ Choose(StepToward(real)))
  BY DEF ReadReal, ReadReflectorPrice
<1>6. QED
  BY <1>3, <1>4, <1>5

\* A price that is one is not the absence of one.
LEMMA PriceIsPresent ==
    ASSUME NEW p \in Int
    PROVE  p # NoPrice
BY AbsenceAssumption

LEMMA StepTypes ==
    ASSUME OracleTypeOK, [Next]_vars
    PROVE  OracleTypeOK'
<1>1. CASE ReadReal
  <2>1. OracleTypes'
    BY <1>1 DEF ReadReal, oracleVars, OracleTypeOK, OracleTypes
  <2>2. QED
    BY <1>1, <2>1, ChosenTypes, PriceIsPresent DEF ReadReal, OracleTypeOK, OracleTypes
<1>2. CASE WritePrice
  <2> DEFINE tx == Tx("set_price", next)
  <2>1. next \in Nat \ {0}
    BY <1>2 DEF WritePrice, OracleTypeOK
  <2>2. tx \in Txs
    BY <2>1 DEF Tx, Txs
  <2>3. Confirmed(tx) \/ Throws(tx)
    BY <1>2 DEF WritePrice
  <2>4. OracleTypes' /\ (late' = NoTx \/ late' \in Txs) /\ faults' \in 0 .. MaxFaults
    <3>1. HIDE DEF tx
    <3>2. QED
      BY <2>2, <2>3, CallTypes
  <2>5. lastSimPrice' \in Nat \ {0}
    BY <1>2, <2>1 DEF WritePrice, OracleTypeOK
  <2>6. QED
    BY <1>2, <2>4, <2>5 DEF WritePrice, OracleTypeOK, OracleTypes
<1>3. CASE UpdateFunding
  <2> DEFINE tx == Tx("update_funding", 0)
  <2>1. tx \in Txs
    BY DEF Tx, Txs
  <2>2. Confirmed(tx) \/ Throws(tx)
    BY <1>3 DEF UpdateFunding
  <2>3. OracleTypes' /\ (late' = NoTx \/ late' \in Txs) /\ faults' \in 0 .. MaxFaults
    <3>1. HIDE DEF tx
    <3>2. QED
      BY <2>1, <2>2, CallTypes
  <2>4. QED
    BY <1>3, <2>3 DEF UpdateFunding, OracleTypeOK, OracleTypes
<1>4. CASE SettleLate
  <2>1. late \in Txs
    BY <1>4 DEF SettleLate, OracleTypeOK
  <2>2. OracleTypes'
    BY <1>4, <2>1, EffectTypes DEF SettleLate, oracleVars, OracleTypeOK, OracleTypes
  <2>3. QED
    BY <1>4, <2>2 DEF SettleLate, OracleTypeOK, OracleTypes
<1>5. CASE Restart
  BY <1>5, RelayAssumption DEF Restart, Fault, oracleVars, OracleTypeOK
<1>6. CASE MarketMoves
  BY <1>6 DEF MarketMoves, oracleVars, OracleTypeOK
<1>7. CASE OtherGetPrice
  BY <1>7, GetPriceTypes, RelayAssumption DEF OtherGetPrice, relayVars, OracleTypeOK, OracleTypes
<1>8. CASE Operator
  <2>1. OracleTypes' /\ ops' \in 0 .. MaxOps
    BY <1>8, OperatorTypes, RelayAssumption DEF Operator, OracleTypeOK
  <2>2. QED
    BY <1>8, <2>1 DEF Operator, OracleTypeOK, OracleTypes
<1>9. CASE Clock
  BY <1>9, OracleAssumption DEF Clock, TimePasses, relayVars, OracleTypeOK
<1>10. CASE UNCHANGED vars
  BY <1>10 DEF vars, oracleVars, relayVars, OracleTypeOK
<1>11. QED
  BY <1>1, <1>2, <1>3, <1>4, <1>5, <1>6, <1>7, <1>8, <1>9, <1>10 DEF Next, KeeperStep

\* The adapter's and the keeper's state keep their types: no accepted price is
\* negative, the cached precision is that of the upstream in use, and whatever the
\* keeper writes is a positive price.
THEOREM OracleTypeCorrect ==
    Spec => []OracleTypeOK
<1>1. Init => OracleTypeOK
  BY InitTypes
<1>2. OracleTypeOK /\ [Next]_vars => OracleTypeOK'
  BY StepTypes
<1>3. QED
  BY <1>1, <1>2, PTL DEF Spec

-----------------------------------------------------------------------------
(* The adapter implements PriceFeed.                                       *)

\* A deviation of so many whole bps.
LEMMA WithinIsNear ==
    ASSUME OracleTypeOK, NEW p \in Nat, last[Feed] # NoPrice, Within(p, Feed)
    PROVE  Promise!Near(p)
<1> DEFINE from == last[Feed]
           band == guards.max_deviation_bps
           d == IF p < from THEN from - p ELSE p - from
<1>1. from \in Nat \ {0} /\ band \in Nat /\ BPS_DENOM \in Nat
  BY RelayAssumption, OracleAssumption DEF OracleTypeOK, Within
<1>2. d \in Nat
  BY <1>1
<1>3. d * BPS_DENOM \in Nat
  BY <1>1, <1>2
<1>4. (d * BPS_DENOM) \div from <= band
  BY DEF Within, Deviation
<1>5. d * BPS_DENOM < (band + 1) * from
  <2>1. HIDE DEF d, from, band
  <2>2. QED
    BY <1>1, <1>3, <1>4, Quotient
<1>6. Promise!Distance(p, last[Feed]) = d
  BY <1>1 DEF Promise!Distance
<1>7. QED
  BY <1>5, <1>6 DEF Promise!Near

\* A price the adapter accepts is one PriceFeed lets it accept.
LEMMA GetPriceAccepts ==
    ASSUME OracleTypeOK, GetPrice(Feed)
    PROVE  Promise!Accept
<1> DEFINE q == Upstream(Feed)
<1>1. q # NoQuote /\ q.price > 0 /\ IsFresh(q) /\ Within(Normalize(q.price), Feed)
  BY DEF GetPrice, GetPriceOK
<1>2. Feed \in Feeds /\ q \in [price : Int, timestamp : Nat]
  BY <1>1, QuoteType, RelayAssumption
<1>3. Normalize(q.price) \in Nat
  BY <1>1, <1>2, NormalizeType
<1>4. TrueQuote = [price |-> Normalize(q.price), fresh |-> now <= q.timestamp + guards.max_age]
  BY <1>1, NormalizeIsTrueQuote
<1>5. now \in Nat /\ guards.max_age \in Nat
  BY OracleAssumption, RelayAssumption DEF OracleTypeOK
<1>6. now <= q.timestamp + guards.max_age
  BY <1>1, <1>2, <1>5 DEF IsFresh
<1>7. TrueQuote = [price |-> Normalize(q.price), fresh |-> TRUE]
  <2>1. (now <= q.timestamp + guards.max_age) = TRUE
    BY <1>6
  <2>2. QED
    BY <1>4, <2>1
<1>8. /\ TrueQuote \in [price : Int, fresh : BOOLEAN]
      /\ TrueQuote.fresh /\ TrueQuote.price = Normalize(q.price)
  BY <1>3, <1>7
<1>9. TrueQuote # NoPrice /\ TrueQuote.price >= 0
  BY <1>3, <1>8, AbsenceAssumption
<1>10. last[Feed] = NoPrice \/ Promise!Near(TrueQuote.price)
  BY <1>1, <1>3, <1>8, WithinIsNear
<1>11. last'[Feed] = TrueQuote.price
  BY <1>2, <1>8 DEF GetPrice, OracleTypeOK
<1>12. UNCHANGED <<TrueQuote, guards.max_deviation_bps>>
  BY DEF GetPrice, TrueQuote, Upstream
<1>13. QED
  BY <1>8, <1>9, <1>10, <1>11, <1>12 DEF Promise!Accept

\* Every other step leaves the accepted price alone.
LEMMA OperatorElsewhere ==
    ASSUME OperatorNext
    PROVE  UNCHANGED last
BY DEF OperatorNext, RemoveFeed, SetFeed, SetReflector, SetPrice, SetPriceAt, SetGuards

LEMMA EffectAccepts ==
    ASSUME OracleTypeOK, NEW tx, Effect(tx)
    PROVE  UNCHANGED last \/ Promise!Accept
BY GetPriceAccepts DEF Effect, SetPrice

LEMMA CallAccepts ==
    ASSUME OracleTypeOK, NEW tx, Confirmed(tx) \/ Throws(tx)
    PROVE  UNCHANGED last \/ Promise!Accept
BY EffectAccepts DEF Confirmed, Throws, oracleVars

LEMMA StepAccepts ==
    ASSUME OracleTypeOK, [Next]_vars
    PROVE  Promise!Next
<1>1. UNCHANGED last \/ Promise!Accept
  <2>1. CASE ReadReal
    BY <2>1 DEF ReadReal, oracleVars
  <2>2. CASE WritePrice
    BY <2>2, CallAccepts DEF WritePrice
  <2>3. CASE UpdateFunding
    BY <2>3, CallAccepts DEF UpdateFunding
  <2>4. CASE SettleLate
    BY <2>4, EffectAccepts DEF SettleLate, oracleVars
  <2>5. CASE Restart
    BY <2>5 DEF Restart, oracleVars
  <2>6. CASE MarketMoves
    BY <2>6 DEF MarketMoves, oracleVars
  <2>7. CASE OtherGetPrice
    BY <2>7, GetPriceAccepts DEF OtherGetPrice
  <2>8. CASE Operator
    BY <2>8, OperatorElsewhere DEF Operator
  <2>9. CASE Clock
    BY <2>9 DEF Clock, TimePasses
  <2>10. CASE UNCHANGED vars
    BY <2>10 DEF vars, oracleVars
  <2>11. QED
    BY <2>1, <2>2, <2>3, <2>4, <2>5, <2>6, <2>7, <2>8, <2>9, <2>10 DEF Next, KeeperStep
<1>2. QED
  BY <1>1 DEF Promise!Next, Promise!Elsewhere

\* The adapter implements PriceFeed: whoever calls get_price, and whatever the
\* operator, the upstreams and late transactions do in between, an accepted price
\* is what the upstream quotes at that moment, fresh, and within the guard of the
\* price accepted before it.
THEOREM AdapterKeepsPromise ==
    Spec => AdapterImplementsFeed
<1>1. Init => Promise!Init
  BY RelayAssumption DEF Init, OracleInit, Promise!Init
<1>2. OracleTypeOK /\ [Next]_vars
          => [Promise!Next]_<<TrueQuote, last[Feed], guards.max_deviation_bps>>
  BY StepAccepts
<1>3. QED
  BY <1>1, <1>2, OracleTypeCorrect, PTL DEF Spec, AdapterImplementsFeed, Promise!Spec

-----------------------------------------------------------------------------
(* The relay's step and the guard.                                         *)

\* How far a step goes, in percent of the keeper's copy and up to half a unit: no
\* farther than its cap, and as far as that when the target is.
LEMMA StepLength ==
    ASSUME OracleTypeOK, NEW target \in Nat
    PROVE  LET p == StepToward(target)
               d == IF p < lastSimPrice THEN lastSimPrice - p ELSE p - lastSimPrice
               maxStep == lastSimPrice * MAX_RELAY_STEP
               gap == IF target < lastSimPrice THEN lastSimPrice - target
                      ELSE target - lastSimPrice
           IN  /\ d \in Nat /\ maxStep \in Nat
               /\ 100 * d <= maxStep + 50
               /\ 100 * gap >= maxStep => 100 * d >= maxStep - 50
<1> DEFINE p == StepToward(target)
           l == lastSimPrice
           maxStep == l * MAX_RELAY_STEP
           far == (target - l) * 100
           delta == Most(-maxStep, Least(maxStep, far))
           gap == IF target < l THEN l - target ELSE target - l
           d == IF p < l THEN l - p ELSE p - l
<1>1. l \in Nat \ {0} /\ MAX_RELAY_STEP \in 0 .. 50
  BY RelayAssumption DEF OracleTypeOK
<1>2. maxStep \in Nat /\ far \in Int
  BY <1>1
<1>3. /\ delta \in Int /\ -maxStep <= delta /\ delta <= maxStep
      /\ far >= maxStep => delta = maxStep
      /\ far <= -maxStep => delta = -maxStep
  <2> HIDE DEF maxStep, far
  <2> QED
    BY <1>2 DEF Most, Least
<1>4. p = (l * 100 + delta + 50) \div 100
  BY DEF StepToward, Rounded
<1>5. p \in Int /\ 100 * p <= l * 100 + delta + 50 /\ l * 100 + delta + 50 < 100 * p + 100
  <2> HIDE DEF delta, l
  <2> QED
    BY <1>1, <1>3, <1>4
<1>6. d \in Nat /\ 100 * d <= maxStep + 50
  <2> HIDE DEF p, delta, maxStep, l
  <2> QED
    BY <1>1, <1>2, <1>3, <1>5
<1>7. ASSUME 100 * gap >= maxStep
      PROVE  100 * d >= maxStep - 50
  <2>1. far >= maxStep \/ far <= -maxStep
    <3> HIDE DEF maxStep, l
    <3> QED
      BY <1>1, <1>2, <1>7
  <2>2. delta = maxStep \/ delta = -maxStep
    BY <1>3, <2>1
  <2> HIDE DEF p, delta, maxStep, l, far, gap
  <2>3. QED
    BY <1>1, <1>2, <1>5, <2>2
<1>8. QED
  BY <1>2, <1>6, <1>7

\* A move against a guard, with the code's ten thousand bps.
LEMMA MoveAndGuard ==
    ASSUME NEW d \in Nat, NEW from \in Nat \ {0}, NEW band \in Nat, BPS_DENOM = 10000
    PROVE  /\ d * 10000 <= band * from => (d * BPS_DENOM) \div from <= band
           /\ d * 10000 >= (band + 1) * from => ~((d * BPS_DENOM) \div from <= band)
<1> DEFINE n == d * 10000
           q == n \div from
<1>1. n \in Nat /\ q \in Nat /\ from * q <= n /\ n < from * q + from
  OBVIOUS
<1>2. (d * BPS_DENOM) \div from = q
  OBVIOUS
<1> HIDE DEF n, q
<1>3. ASSUME n <= band * from, q > band
      PROVE  FALSE
  <2>1. from * (band + 1) <= from * q
    BY <1>1, <1>3
  <2>2. from * (band + 1) = band * from + from /\ band * from \in Nat
    OBVIOUS
  <2>3. QED
    BY <1>1, <1>3, <2>1, <2>2
<1>4. ASSUME n >= (band + 1) * from, q <= band
      PROVE  FALSE
  <2>1. from * q <= from * band
    BY <1>1, <1>4
  <2>2. (band + 1) * from = from * band + from /\ from * band \in Nat
    OBVIOUS
  <2>3. QED
    BY <1>1, <1>4, <2>1, <2>2
<1>5. QED
  BY <1>1, <1>2, <1>3, <1>4 DEF n

\* With the code's cap of 35%, a keeper whose copy is the accepted price, of four
\* units or more, never computes a step that a guard of 5000 bps refuses (what
\* refresh_oracle.ps1 sets), and its every full step is refused by a guard of
\* 2000 bps (what deploy_testnet.ps1 deploys): a far price is not walked in
\* before the guard is widened.  Whatever the precision and the real price.
THEOREM RelayStepNeedsWideGuard ==
    ASSUME MAX_RELAY_STEP = 35, BPS_DENOM = 10000
    PROVE  Spec => [](flags.relay /\ flags.symbol /\ real # NoPrice
                        /\ last[Feed] = lastSimPrice /\ lastSimPrice >= 4 =>
              /\ guards.max_deviation_bps >= 5000 => Within(StepToward(real), Feed)
              /\ (/\ guards.max_deviation_bps <= 2000
                  /\ 100 * (IF real < lastSimPrice THEN lastSimPrice - real
                            ELSE real - lastSimPrice) >= 35 * lastSimPrice)
                    => ~Within(StepToward(real), Feed))
<1> DEFINE gap == IF real < lastSimPrice THEN lastSimPrice - real ELSE real - lastSimPrice
<1>1. ASSUME OracleTypeOK, real # NoPrice, last[Feed] = lastSimPrice, lastSimPrice >= 4
      PROVE  /\ guards.max_deviation_bps >= 5000 => Within(StepToward(real), Feed)
             /\ guards.max_deviation_bps <= 2000 /\ 100 * gap >= 35 * lastSimPrice
                   => ~Within(StepToward(real), Feed)
  <2> DEFINE p == StepToward(real)
             l == lastSimPrice
             d == IF p < l THEN l - p ELSE p - l
             g == guards.max_deviation_bps
  <2>1. real \in Nat /\ l \in Nat \ {0} /\ g \in Nat
    BY <1>1, OracleAssumption, RelayAssumption DEF OracleTypeOK
  <2>2. /\ d \in Nat /\ 100 * d <= l * 35 + 50
        /\ 100 * gap >= l * 35 => 100 * d >= l * 35 - 50
    BY <1>1, <2>1, StepLength
  <2>3. Within(p, Feed) <=> (d * BPS_DENOM) \div l <= g
    <3>1. l # NoPrice
      BY <2>1, AbsenceAssumption
    <3>2. QED
      BY <1>1, <2>1, <3>1 DEF Within, Deviation
  <2>4. l >= 4
    BY <1>1
  <2> HIDE DEF p, d, l, g
  <2>5. ASSUME g >= 5000
        PROVE  Within(p, Feed)
    <3>1. d * 10000 <= 5000 * l
      BY <2>1, <2>2, <2>4
    <3>2. 5000 * l <= g * l
      BY <2>1, <2>5
    <3>3. d * 10000 <= g * l
      BY <2>1, <2>2, <3>1, <3>2
    <3>4. QED
      BY <2>1, <2>2, <2>3, <3>3, MoveAndGuard
  <2>6. ASSUME g <= 2000, 100 * gap >= l * 35
        PROVE  ~Within(p, Feed)
    <3>1. d * 10000 >= 2001 * l
      BY <2>1, <2>2, <2>4, <2>6
    <3>2. (g + 1) * l <= 2001 * l
      BY <2>1, <2>6
    <3>3. d * 10000 >= (g + 1) * l
      BY <2>1, <2>2, <3>1, <3>2
    <3>4. QED
      BY <2>1, <2>2, <2>3, <3>3, MoveAndGuard
  <2>7. QED
    BY <2>1, <2>5, <2>6 DEF p, l, g
<1>2. QED
  BY <1>1, OracleTypeCorrect, PTL

=============================================================================
