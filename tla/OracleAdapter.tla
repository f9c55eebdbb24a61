---------------------------- MODULE OracleAdapter ----------------------------
(***************************************************************************)
(* The oracle adapter, and the upstreams it can be pointed at: the mock    *)
(* oracle of this repository and any other contract with Reflector's       *)
(* interface.  The ledger's clock is here too, for the age of a quote.     *)
(***************************************************************************)
EXTENDS Integers, FiniteSets

CONSTANTS
    Feeds,        \* the protocol's feed keys
    Assets,       \* Reflector asset selectors
    Mock,         \* the mock oracle, mockOracleId to the keeper
    OtherQuotes,  \* OtherQuotes[u][a]: what any other upstream answers
    Decimals,     \* Decimals[u]: the precision upstream u reports
    PRICE_DECIMALS,  \* 7 in the code: the protocol's precision
    BPS_DENOM,
    Guards,       \* the pairs of max_age and max_deviation_bps an admin sets
    RawPrices,    \* what is written to the mock oracle by hand
    MaxTime,      \* bound of an instance on the ledger's clock
    NoAsset, NoQuote, NoPrice

Upstreams == {Mock} \cup DOMAIN OtherQuotes

ASSUME OracleAssumption ==
    /\ Mock \notin DOMAIN OtherQuotes
    /\ Decimals \in [Upstreams -> Nat]
    /\ PRICE_DECIMALS \in Nat /\ BPS_DENOM \in Nat /\ MaxTime \in Nat
    /\ Guards \subseteq [max_age : Nat, max_deviation_bps : Nat]
    /\ RawPrices \subseteq Int
    /\ \A u \in DOMAIN OtherQuotes, a \in Assets :
          \/ OtherQuotes[u][a] = NoQuote
          \/ OtherQuotes[u][a] \in [price : Int, timestamp : Nat]

ASSUME AbsenceAssumption ==
    /\ NoPrice \notin Int /\ NoPrice \notin [price : Int, fresh : BOOLEAN]
    /\ NoAsset \notin Assets
    /\ NoQuote \notin [price : Int, timestamp : Nat]

VARIABLES
    feed,       \* feed[f]: the asset stored under Feed(f)
    reflector,  \* the upstream in use
    decimals,   \* OracleDecimals, its precision as cached
    guards,     \* MaxAge and MaxDeviationBps
    last,       \* last[f]: the price stored under Last(f)
    mockPrice,  \* mockPrice[a]: what the mock oracle answers to lastprice(a)
    now         \* the ledger's timestamp

oracleVars == <<feed, reflector, decimals, guards, last, mockPrice, now>>

Quote(price, timestamp) == [price |-> price, timestamp |-> timestamp]

OracleInit(g) ==
    /\ feed \in [Feeds -> Assets]
    /\ reflector = Mock
    /\ decimals = Decimals[Mock]
    /\ guards = g
    /\ last = [f \in Feeds |-> NoPrice]
    /\ mockPrice = [a \in Assets |-> NoQuote]
    /\ now = 0

SetFeed(f, a) ==
    /\ feed' = [feed EXCEPT ![f] = a]
    /\ UNCHANGED <<reflector, decimals, guards, last, mockPrice, now>>

\* Last(f) stays: a feed mapped again is still held to its old price.
RemoveFeed(f) ==
    /\ feed' = [feed EXCEPT ![f] = NoAsset]
    /\ UNCHANGED <<reflector, decimals, guards, last, mockPrice, now>>

\* Mutation: the precision of the old upstream stays cached.
SetReflector_Cached(u) ==
    /\ reflector' = u
    /\ UNCHANGED <<feed, decimals, guards, last, mockPrice, now>>

SetReflector(u) ==
    /\ reflector' = u
    /\ decimals' = Decimals[u]
    /\ UNCHANGED <<feed, guards, last, mockPrice, now>>

SetGuards(g) ==
    /\ guards' = g
    /\ UNCHANGED <<feed, reflector, decimals, last, mockPrice, now>>

---------------------------------------------------------------------------

Pow10(n) == 10 ^ n

\* Powers of ten are positive: of the precisions an instance has, since no
\* prover knows it of all.
ASSUME PowerAssumption ==
    \A u \in Upstreams :
        LET d == Decimals[u] - PRICE_DECIMALS
        IN  Pow10(IF d >= 0 THEN d ELSE -d) \in Nat \ {0}

\* Rust's division of positive numbers; a price under one unit becomes 0.
Normalize(raw) ==
    IF decimals >= PRICE_DECIMALS
    THEN raw \div Pow10(decimals - PRICE_DECIMALS)
    ELSE raw * Pow10(PRICE_DECIMALS - decimals)

Deviation(price, from) ==
    ((IF price < from THEN from - price ELSE price - from) * BPS_DENOM) \div from

\* The third guard: against a price of 0 the division itself panics.
Within(price, f) ==
    last[f] # NoPrice =>
        /\ last[f] # 0
        /\ Deviation(price, last[f]) <= guards.max_deviation_bps

IsFresh(q) ==
    ~(now > q.timestamp /\ now - q.timestamp > guards.max_age)

\* lastprice of the asset the feed is mapped to.
Upstream(f) ==
    CASE feed[f] = NoAsset -> NoQuote
      [] feed[f] # NoAsset /\ reflector = Mock -> mockPrice[feed[f]]
      [] OTHER -> OtherQuotes[reflector][feed[f]]

\* Mutation: the positivity guard is gone.
GetPriceOK_AnySign(f) ==
    LET q == Upstream(f)
    IN  q # NoQuote /\ IsFresh(q) /\ Within(Normalize(q.price), f)

\* FeedNotFound, NoPriceData, InvalidPrice, StalePrice, PriceDeviationTooHigh.
GetPriceOK(f) ==
    LET q == Upstream(f)
    IN  /\ q # NoQuote
        /\ q.price > 0
        /\ IsFresh(q)
        /\ Within(Normalize(q.price), f)

\* Called by anyone, or by the engine inside every call that needs a price.
GetPrice(f) ==
    /\ GetPriceOK(f)
    /\ last' = [last EXCEPT ![f] = Normalize(Upstream(f).price)]
    /\ UNCHANGED <<feed, reflector, decimals, guards, mockPrice, now>>

---------------------------------------------------------------------------
(* The mock oracle and the clock.                                          *)

Store(a, price, timestamp) == mockPrice' = [mockPrice EXCEPT ![a] = Quote(price, timestamp)]

SetPrice(a, price) ==
    /\ Store(a, price, now)
    /\ UNCHANGED <<feed, reflector, decimals, guards, last, now>>

SetPriceAt(a, price, timestamp) ==
    /\ Store(a, price, timestamp)
    /\ UNCHANGED <<feed, reflector, decimals, guards, last, now>>

TimePasses ==
    /\ now < MaxTime
    /\ now' = now + 1
    /\ UNCHANGED <<feed, reflector, decimals, guards, last, mockPrice>>

\* The admin of the adapter and of the mock oracle.
OperatorNext ==
    \/ \E f \in Feeds : RemoveFeed(f) \/ \E a \in Assets : SetFeed(f, a)
    \/ \E u \in Upstreams : SetReflector(u)
    \/ \E a \in Assets, p \in RawPrices :
          SetPrice(a, p) \/ \E t \in 0 .. MaxTime : SetPriceAt(a, p, t)
    \/ \E g \in Guards : SetGuards(g)

=============================================================================
