------------------------- MODULE Leaderboard_proofs -------------------------
(***************************************************************************)
(* The published leaderboard, for every log, every page size and every     *)
(* pattern of failed requests: what Ingest folds into rows and totals is   *)
(* what a count over the ledgers read so far gives.                        *)
(***************************************************************************)
EXTENDS Leaderboard, FiniteSetTheorems, WellFoundedInduction, TLAPS

---------------------------------------------------------------------------
(* Induction in a form without an operator parameter, so that the provers  *)
(* can use it: over the naturals, from the well-foundedness of <.          *)

\* A set of naturals that is not empty has a least element.
LEMMA LeastNumber ==
    ASSUME NEW T, T \subseteq Nat, T # {}
    PROVE  \E x \in T : \A y \in T : x <= y
<1>1. PICK x \in T : \A y \in T : ~(<<y, x>> \in OpToRel(<, Nat))
  BY NatLessThanWellFounded, WFMin
<1>2. \A m, n \in Nat : m < n => <<m, n>> \in OpToRel(<, Nat)
  BY Zenon DEF OpToRel
<1>3. ASSUME NEW y \in T
      PROVE  x <= y
  <2>1. ~(y < x)
    BY <1>1, <1>2
  <2>2. QED
    BY <2>1
<1>4. QED
  BY <1>3

\* A set that holds 0, and with a number the next, holds every natural.
LEMMA SetInduction ==
    ASSUME NEW S, 0 \in S, \A n \in Nat : n \in S => n + 1 \in S
    PROVE  Nat \subseteq S
<1>1. SUFFICES ASSUME Nat \ S # {}
               PROVE  FALSE
  OBVIOUS
<1>2. PICK x \in Nat \ S : \A y \in Nat \ S : x <= y
  BY <1>1, LeastNumber
<1>3. x - 1 \in Nat /\ x - 1 \in S
  BY <1>2
<1>4. QED
  BY <1>2, <1>3

---------------------------------------------------------------------------
(* The entries of the log.                                                 *)

Entries == Trades \cup {Quiet, Funding}
Kinds == {"position_opened", "position_closed", "position_liquidated"}

\* IsTrade, of any log.
TradeAt(lg, n) == lg[n].name \notin {"none", "funding_updated"}

LEMMA TradeEntry ==
    ASSUME NEW e \in Entries, e.name \notin {"none", "funding_updated"}
    PROVE  e.name \in Kinds /\ e.trader \in Traders /\ e.amount \in Int
<1>1. \A n \in Sizes : n \in Int
  BY BoardAssumption
<1>2. \A p \in Profits : p \in Int
  BY BoardAssumption
<1>3. e \in Trades
  BY DEF Entries, Quiet, Funding
<1>4. QED
  BY <1>1, <1>2, <1>3 DEF Trades, Trade, Kinds

---------------------------------------------------------------------------
(* Sums over a log.                                                        *)

\* TotalOf, of any log.
SumOf(lg, ns) ==
    LET sum[n \in 0 .. Len(lg)] ==
            IF n = 0 THEN 0 ELSE sum[n - 1] + (IF n \in ns THEN lg[n].amount ELSE 0)
    IN  sum[Len(lg)]

IsSum(f, lg, ns, k) ==
    f = [n \in 0 .. k |->
           IF n = 0 THEN 0 ELSE f[n - 1] + (IF n \in ns THEN lg[n].amount ELSE 0)]

LEMMA SumUnfolds ==
    ASSUME NEW lg, Len(lg) \in Nat, NEW ns
    PROVE  \E f : IsSum(f, lg, ns, Len(lg)) /\ SumOf(lg, ns) = f[Len(lg)]
<1> DEFINE S == {k \in Nat : \E f : IsSum(f, lg, ns, k)}
<1>1. 0 \in S
  <2>1. IsSum([n \in {0} |-> 0], lg, ns, 0)
    BY DEF IsSum
  <2>2. QED
    BY <2>1
<1>2. ASSUME NEW k \in Nat, k \in S
      PROVE  k + 1 \in S
  <2>1. PICK f : IsSum(f, lg, ns, k)
    BY <1>2
  <2> DEFINE a(n) == IF n \in ns THEN lg[n].amount ELSE 0
             g == [n \in 0 .. k + 1 |-> IF n = k + 1 THEN f[k] + a(k + 1) ELSE f[n]]
  <2>2. ASSUME NEW n \in 0 .. k + 1
        PROVE  g[n] = IF n = 0 THEN 0 ELSE g[n - 1] + a(n)
    <3> HIDE DEF a
    <3>1. CASE n = k + 1
      BY <3>1
    <3>2. CASE n \in 0 .. k
      BY <2>1, <3>2 DEF IsSum, a
    <3>3. QED
      BY <3>1, <3>2
  <2>3. IsSum(g, lg, ns, k + 1)
    <3>1. g = [n \in 0 .. k + 1 |-> g[n]]
      OBVIOUS
    <3> HIDE DEF g
    <3>2. QED
      BY <2>2, <3>1 DEF IsSum
  <2>4. QED
    <3> HIDE DEF g
    <3> QED
      BY <2>3
<1>3. Len(lg) \in S
  <2> HIDE DEF S
  <2>1. Nat \subseteq S
    BY <1>1, <1>2, SetInduction
  <2> QED
    BY <2>1
<1> DEFINE sum == CHOOSE f : IsSum(f, lg, ns, Len(lg))
<1>4. IsSum(sum, lg, ns, Len(lg))
  BY <1>3, Zenon
<1>5. SumOf(lg, ns) = sum[Len(lg)]
  BY Zenon DEF SumOf, IsSum
<1>6. QED
  BY <1>4, <1>5

LEMMA SumTyped ==
    ASSUME NEW lg, NEW ns, NEW k \in Nat, NEW f, IsSum(f, lg, ns, k),
           \A n \in ns : lg[n].amount \in Int
    PROVE  \A n \in 0 .. k : f[n] \in Int
<1> DEFINE S == {n \in Nat : n <= k => f[n] \in Int}
<1>1. 0 \in S
  BY DEF IsSum
<1>2. ASSUME NEW n \in Nat, n \in S
      PROVE  n + 1 \in S
  <2>1. SUFFICES ASSUME n + 1 <= k
                 PROVE  f[n + 1] \in Int
    OBVIOUS
  <2>2. f[n + 1] = f[n] + (IF n + 1 \in ns THEN lg[n + 1].amount ELSE 0)
    BY <2>1 DEF IsSum
  <2>3. f[n] \in Int
    BY <1>2, <2>1
  <2>4. QED
    BY <2>2, <2>3
<1>3. Nat \subseteq S
  <2> HIDE DEF S
  <2> QED
    BY <1>1, <1>2, SetInduction
<1>4. QED
  BY <1>3

\* One ledger more in the set.
LEMMA SumMore ==
    ASSUME NEW lg, Len(lg) \in Nat, NEW ns, NEW m \in 1 .. Len(lg), m \notin ns,
           \A n \in ns \cup {m} : lg[n].amount \in Int
    PROVE  SumOf(lg, ns \cup {m}) = SumOf(lg, ns) + lg[m].amount
<1> DEFINE N == Len(lg)
           a == lg[m].amount
<1>1. PICK f : IsSum(f, lg, ns, N) /\ SumOf(lg, ns) = f[N]
  BY SumUnfolds
<1>2. PICK g : IsSum(g, lg, ns \cup {m}, N) /\ SumOf(lg, ns \cup {m}) = g[N]
  BY SumUnfolds
<1>3. \A n \in 0 .. N : f[n] \in Int
  BY <1>1, SumTyped
<1> DEFINE S == {n \in Nat : n <= N => g[n] = f[n] + (IF m <= n THEN a ELSE 0)}
<1>4. 0 \in S
  <2>1. f[0] = 0 /\ g[0] = 0
    BY <1>1, <1>2 DEF IsSum
  <2>2. QED
    BY <2>1
<1>5. ASSUME NEW n \in Nat, n \in S
      PROVE  n + 1 \in S
  <2>1. SUFFICES ASSUME n + 1 <= N
                 PROVE  g[n + 1] = f[n + 1] + (IF m <= n + 1 THEN a ELSE 0)
    OBVIOUS
  <2>2. f[n + 1] = f[n] + (IF n + 1 \in ns THEN lg[n + 1].amount ELSE 0)
    BY <1>1, <2>1 DEF IsSum
  <2>3. g[n + 1] = g[n] + (IF n + 1 \in ns \cup {m} THEN lg[n + 1].amount ELSE 0)
    BY <1>2, <2>1 DEF IsSum
  <2>4. g[n] = f[n] + (IF m <= n THEN a ELSE 0) /\ f[n] \in Int /\ a \in Int
    BY <1>3, <1>5, <2>1
  <2>5. CASE n + 1 = m
    BY <2>2, <2>3, <2>4, <2>5
  <2>6. CASE n + 1 # m /\ n + 1 \in ns
    <3>1. lg[n + 1].amount \in Int
      BY <2>6
    <3>2. QED
      BY <2>2, <2>3, <2>4, <2>6, <3>1
  <2>7. CASE n + 1 # m /\ n + 1 \notin ns
    BY <2>2, <2>3, <2>4, <2>7
  <2>8. QED
    BY <2>5, <2>6, <2>7
<1>6. Nat \subseteq S
  <2> HIDE DEF S
  <2> QED
    BY <1>4, <1>5, SetInduction
<1>7. QED
  BY <1>1, <1>2, <1>6

\* One ledger more in the log, of no concern to the set.
LEMMA SumLonger ==
    ASSUME NEW lg, Len(lg) \in Nat, NEW lg2, Len(lg2) = Len(lg) + 1,
           NEW ns, ns \subseteq 1 .. Len(lg),
           \A n \in ns : lg[n].amount \in Int /\ lg2[n] = lg[n]
    PROVE  SumOf(lg2, ns) = SumOf(lg, ns)
<1> DEFINE N == Len(lg)
<1>1. PICK f : IsSum(f, lg, ns, N) /\ SumOf(lg, ns) = f[N]
  BY SumUnfolds
<1>2. PICK g : IsSum(g, lg2, ns, N + 1) /\ SumOf(lg2, ns) = g[N + 1]
  <2>1. Len(lg2) \in Nat
    OBVIOUS
  <2>2. QED
    BY <2>1, SumUnfolds
<1> DEFINE S == {n \in Nat : n <= N => g[n] = f[n]}
<1>3. 0 \in S
  BY <1>1, <1>2 DEF IsSum
<1>4. ASSUME NEW n \in Nat, n \in S
      PROVE  n + 1 \in S
  <2>1. SUFFICES ASSUME n + 1 <= N
                 PROVE  g[n + 1] = f[n + 1]
    OBVIOUS
  <2>2. f[n + 1] = f[n] + (IF n + 1 \in ns THEN lg[n + 1].amount ELSE 0)
    BY <1>1, <2>1 DEF IsSum
  <2>3. g[n + 1] = g[n] + (IF n + 1 \in ns THEN lg2[n + 1].amount ELSE 0)
    BY <1>2, <2>1 DEF IsSum
  <2>4. g[n] = f[n]
    BY <1>4, <2>1
  <2>5. QED
    BY <2>2, <2>3, <2>4
<1>5. Nat \subseteq S
  <2> HIDE DEF S
  <2> QED
    BY <1>3, <1>4, SetInduction
<1>6. g[N + 1] = g[N] + 0 /\ g[N] = f[N] /\ f[N] \in Int
  <2>1. g[N + 1] = g[N] + 0
    BY <1>2 DEF IsSum
  <2>2. f[N] \in Int
    BY <1>1, SumTyped
  <2>3. QED
    BY <1>5, <2>1, <2>2
<1>7. QED
  BY <1>1, <1>2, <1>6

LEMMA SumOfNone ==
    ASSUME NEW lg, Len(lg) \in Nat
    PROVE  SumOf(lg, {}) = 0
<1>1. PICK f : IsSum(f, lg, {}, Len(lg)) /\ SumOf(lg, {}) = f[Len(lg)]
  BY SumUnfolds
<1> DEFINE S == {n \in Nat : n <= Len(lg) => f[n] = 0}
<1>2. 0 \in S
  BY <1>1 DEF IsSum
<1>3. ASSUME NEW n \in Nat, n \in S
      PROVE  n + 1 \in S
  BY <1>1, <1>3 DEF IsSum
<1>4. Nat \subseteq S
  <2> HIDE DEF S
  <2> QED
    BY <1>2, <1>3, SetInduction
<1>5. QED
  BY <1>1, <1>4

---------------------------------------------------------------------------
(* Rows and totals over a set of ledgers, of any log.                      *)

KindIn(lg, name, who, ns) == {n \in ns : lg[n].name = name /\ lg[n].trader \in who}

RowIn(lg, t, ns) ==
    LET opened == KindIn(lg, "position_opened", {t}, ns)
        closed == KindIn(lg, "position_closed", {t}, ns)
    IN  [volume |-> SumOf(lg, opened), realizedPnl |-> SumOf(lg, closed),
         trades |-> Cardinality(opened),
         wins |-> Cardinality({n \in closed : lg[n].amount > 0}),
         closed |-> Cardinality(closed),
         liquidations |-> Cardinality(KindIn(lg, "position_liquidated", {t}, ns))]

StatsIn(lg, ns) ==
    LET opened == KindIn(lg, "position_opened", Traders, ns)
        closed == KindIn(lg, "position_closed", Traders, ns)
    IN  [volume |-> SumOf(lg, opened), trades |-> Cardinality(opened),
         closed |-> Cardinality(closed),
         liquidations |-> Cardinality(KindIn(lg, "position_liquidated", Traders, ns)),
         netPnl |-> SumOf(lg, closed)]

\* A set of ledgers that hold trades.
TradeLedgers(lg, ns) == ns \subseteq 1 .. Len(lg) /\ \A n \in ns : TradeAt(lg, n)

LEMMA LedgersFinite ==
    ASSUME NEW lg \in Seq(Entries), NEW ns, TradeLedgers(lg, ns)
    PROVE  /\ IsFiniteSet(ns)
           /\ \A n \in ns : /\ lg[n].name \in Kinds
                            /\ lg[n].trader \in Traders /\ lg[n].amount \in Int
<1>1. IsFiniteSet(1 .. Len(lg))
  BY FS_Interval
<1>2. IsFiniteSet(ns)
  BY <1>1, FS_Subset DEF TradeLedgers
<1>3. ASSUME NEW n \in ns
      PROVE  /\ lg[n].name \in Kinds
             /\ lg[n].trader \in Traders /\ lg[n].amount \in Int
  <2>1. lg[n] \in Entries
    BY DEF TradeLedgers
  <2>2. lg[n].name \notin {"none", "funding_updated"}
    BY DEF TradeLedgers, TradeAt
  <2>3. QED
    BY <2>1, <2>2, TradeEntry
<1>4. QED
  BY <1>2, <1>3

\* The trades of one kind are finitely many, and their amounts have a sum.
LEMMA KindTyped ==
    ASSUME NEW lg \in Seq(Entries), NEW ns, TradeLedgers(lg, ns), NEW name, NEW who
    PROVE  /\ IsFiniteSet(KindIn(lg, name, who, ns))
           /\ Cardinality(KindIn(lg, name, who, ns)) \in Nat
           /\ SumOf(lg, KindIn(lg, name, who, ns)) \in Int
<1> DEFINE K == KindIn(lg, name, who, ns)
<1>1. IsFiniteSet(ns) /\ Len(lg) \in Nat /\ \A n \in ns : lg[n].amount \in Int
  BY LedgersFinite
<1>2. K \subseteq ns
  BY DEF KindIn
<1>3. IsFiniteSet(K) /\ Cardinality(K) \in Nat
  BY <1>1, <1>2, FS_Subset, FS_CardinalityType
<1>4. PICK f : IsSum(f, lg, K, Len(lg)) /\ SumOf(lg, K) = f[Len(lg)]
  BY <1>1, SumUnfolds
<1>5. \A n \in K : lg[n].amount \in Int
  BY <1>1, <1>2
<1>6. f[Len(lg)] \in Int
  <2> HIDE DEF K
  <2>1. \A n \in 0 .. Len(lg) : f[n] \in Int
    BY <1>1, <1>4, <1>5, SumTyped
  <2>2. QED
    BY <1>1, <2>1
<1>7. QED
  BY <1>3, <1>4, <1>6

\* One ledger more: their number and their sum, when it is of the kind.
OneMore(lg, name, who, ns, m) ==
    /\ Cardinality(KindIn(lg, name, who, ns \cup {m})) = Cardinality(KindIn(lg, name, who, ns)) + 1
    /\ SumOf(lg, KindIn(lg, name, who, ns \cup {m}))
         = SumOf(lg, KindIn(lg, name, who, ns)) + lg[m].amount

LEMMA KindHit ==
    ASSUME NEW lg \in Seq(Entries), NEW ns, NEW m, m \notin ns, TradeLedgers(lg, ns \cup {m}),
           NEW who, lg[m].trader \in who
    PROVE  OneMore(lg, lg[m].name, who, ns, m)
<1> DEFINE K == KindIn(lg, lg[m].name, who, ns)
           K2 == KindIn(lg, lg[m].name, who, ns \cup {m})
<1>1. TradeLedgers(lg, ns) /\ m \in 1 .. Len(lg) /\ Len(lg) \in Nat
  BY DEF TradeLedgers
<1>2. \A n \in ns \cup {m} : lg[n].amount \in Int
  BY LedgersFinite
<1>3. K \subseteq ns /\ m \notin K /\ K2 = K \cup {m}
  BY DEF KindIn
<1>4. IsFiniteSet(K)
  BY <1>1, KindTyped
<1>5. Cardinality(K \cup {m}) = Cardinality(K) + 1
  BY <1>3, <1>4, FS_AddElement
<1>6. SumOf(lg, K \cup {m}) = SumOf(lg, K) + lg[m].amount
  BY <1>1, <1>2, <1>3, SumMore
<1>7. QED
  BY <1>3, <1>5, <1>6 DEF OneMore

\* And the trades won.
LEMMA WinsMore ==
    ASSUME NEW lg \in Seq(Entries), NEW ns, NEW m, m \notin ns, TradeLedgers(lg, ns \cup {m}),
           NEW t
    PROVE  LET W == {n \in KindIn(lg, "position_closed", {t}, ns) : lg[n].amount > 0}
               W2 == {n \in KindIn(lg, "position_closed", {t}, ns \cup {m}) : lg[n].amount > 0}
               hit == /\ lg[m].name = "position_closed" /\ lg[m].trader = t
                      /\ lg[m].amount > 0
           IN  /\ Cardinality(W) \in Nat
               /\ Cardinality(W2) = Cardinality(W) + (IF hit THEN 1 ELSE 0)
<1> DEFINE W == {n \in KindIn(lg, "position_closed", {t}, ns) : lg[n].amount > 0}
           W2 == {n \in KindIn(lg, "position_closed", {t}, ns \cup {m}) : lg[n].amount > 0}
           hit == /\ lg[m].name = "position_closed" /\ lg[m].trader = t
                  /\ lg[m].amount > 0
<1>1. TradeLedgers(lg, ns)
  BY DEF TradeLedgers
<1>2. IsFiniteSet(ns)
  BY <1>1, LedgersFinite
<1>3. W \subseteq ns /\ m \notin W
  BY DEF KindIn
<1>4. IsFiniteSet(W) /\ Cardinality(W) \in Nat
  BY <1>2, <1>3, FS_Subset, FS_CardinalityType
<1>5. CASE hit
  <2>1. W2 = W \cup {m}
    BY <1>5 DEF KindIn
  <2>2. Cardinality(W \cup {m}) = Cardinality(W) + 1
    BY <1>3, <1>4, FS_AddElement
  <2> HIDE DEF W, W2
  <2>3. QED
    BY <1>4, <1>5, <2>1, <2>2 DEF W, W2
<1>6. CASE ~hit
  <2>1. W2 = W
    BY <1>6 DEF KindIn
  <2>2. Cardinality(W2) = Cardinality(W) + 0
    <3> HIDE DEF W, W2
    <3> QED
      BY <1>4, <2>1
  <2>3. QED
    BY <1>4, <1>6, <2>2
<1>7. QED
  BY <1>5, <1>6

\* A row that is written out, after a trade of each kind.
LEMMA RowOpened ==
    ASSUME NEW v, NEW n, NEW c, NEW l, NEW p, NEW w, NEW r, NEW e, e.name = "position_opened",
           r = [volume |-> v, realizedPnl |-> p, trades |-> n, wins |-> w,
                closed |-> c, liquidations |-> l]
    PROVE  RowAfter(r, e) =
             [volume |-> v + e.amount, realizedPnl |-> p,
              trades |-> n + 1, wins |-> w, closed |-> c,
              liquidations |-> l]
<1>1. RowAfter(r, e) \in
        [volume : {v + e.amount}, realizedPnl : {p},
         trades : {n + 1}, wins : {w}, closed : {c},
         liquidations : {l}]
  BY DEF RowAfter
<1>2. \A s \in [volume : {v + e.amount}, realizedPnl : {p},
             trades : {n + 1}, wins : {w}, closed : {c},
             liquidations : {l}] :
        s = [volume |-> v + e.amount, realizedPnl |-> p,
             trades |-> n + 1, wins |-> w, closed |-> c,
             liquidations |-> l]
  OBVIOUS
<1>3. QED
  BY <1>1, <1>2

LEMMA RowClosed ==
    ASSUME NEW v, NEW n, NEW c, NEW l, NEW p, NEW w, NEW r, NEW e, e.name = "position_closed",
           r = [volume |-> v, realizedPnl |-> p, trades |-> n, wins |-> w,
                closed |-> c, liquidations |-> l]
    PROVE  RowAfter(r, e) =
             [volume |-> v, realizedPnl |-> p + e.amount, trades |-> n,
              wins |-> w + (IF e.amount > 0 THEN 1 ELSE 0),
              closed |-> c + 1, liquidations |-> l]
<1>1. RowAfter(r, e) \in
        [volume : {v}, realizedPnl : {p + e.amount}, trades : {n},
         wins : {w + (IF e.amount > 0 THEN 1 ELSE 0)},
         closed : {c + 1}, liquidations : {l}]
  BY DEF RowAfter
<1>2. \A s \in [volume : {v}, realizedPnl : {p + e.amount}, trades : {n},
             wins : {w + (IF e.amount > 0 THEN 1 ELSE 0)},
             closed : {c + 1}, liquidations : {l}] :
        s = [volume |-> v, realizedPnl |-> p + e.amount, trades |-> n,
             wins |-> w + (IF e.amount > 0 THEN 1 ELSE 0),
             closed |-> c + 1, liquidations |-> l]
  OBVIOUS
<1>3. QED
  BY <1>1, <1>2

LEMMA RowLiquidated ==
    ASSUME NEW v, NEW n, NEW c, NEW l, NEW p, NEW w, NEW r, NEW e, e.name = "position_liquidated",
           r = [volume |-> v, realizedPnl |-> p, trades |-> n, wins |-> w,
                closed |-> c, liquidations |-> l]
    PROVE  RowAfter(r, e) =
             [volume |-> v, realizedPnl |-> p, trades |-> n, wins |-> w,
              closed |-> c, liquidations |-> l + 1]
<1>1. RowAfter(r, e) \in
        [volume : {v}, realizedPnl : {p}, trades : {n}, wins : {w},
         closed : {c}, liquidations : {l + 1}]
  BY DEF RowAfter
<1>2. \A s \in [volume : {v}, realizedPnl : {p}, trades : {n}, wins : {w},
             closed : {c}, liquidations : {l + 1}] :
        s = [volume |-> v, realizedPnl |-> p, trades |-> n, wins |-> w,
             closed |-> c, liquidations |-> l + 1]
  OBVIOUS
<1>3. QED
  BY <1>1, <1>2

\* Totals that are written out, after a trade of each kind.
LEMMA StatsOpened ==
    ASSUME NEW v, NEW n, NEW c, NEW l, NEW p, NEW r, NEW e, e.name = "position_opened",
           r = [volume |-> v, trades |-> n, closed |-> c,
                liquidations |-> l, netPnl |-> p]
    PROVE  StatsAfter(r, e) =
             [volume |-> v + e.amount, trades |-> n + 1, closed |-> c,
              liquidations |-> l, netPnl |-> p]
<1>1. StatsAfter(r, e) \in
        [volume : {v + e.amount}, trades : {n + 1}, closed : {c},
         liquidations : {l}, netPnl : {p}]
  BY DEF StatsAfter
<1>2. \A s \in [volume : {v + e.amount}, trades : {n + 1}, closed : {c},
             liquidations : {l}, netPnl : {p}] :
        s = [volume |-> v + e.amount, trades |-> n + 1, closed |-> c,
             liquidations |-> l, netPnl |-> p]
  OBVIOUS
<1>3. QED
  BY <1>1, <1>2

LEMMA StatsClosed ==
    ASSUME NEW v, NEW n, NEW c, NEW l, NEW p, NEW r, NEW e, e.name = "position_closed",
           r = [volume |-> v, trades |-> n, closed |-> c,
                liquidations |-> l, netPnl |-> p]
    PROVE  StatsAfter(r, e) =
             [volume |-> v, trades |-> n, closed |-> c + 1,
              liquidations |-> l, netPnl |-> p + e.amount]
<1>1. StatsAfter(r, e) \in
        [volume : {v}, trades : {n}, closed : {c + 1},
         liquidations : {l}, netPnl : {p + e.amount}]
  BY DEF StatsAfter
<1>2. \A s \in [volume : {v}, trades : {n}, closed : {c + 1},
             liquidations : {l}, netPnl : {p + e.amount}] :
        s = [volume |-> v, trades |-> n, closed |-> c + 1,
             liquidations |-> l, netPnl |-> p + e.amount]
  OBVIOUS
<1>3. QED
  BY <1>1, <1>2

LEMMA StatsLiquidated ==
    ASSUME NEW v, NEW n, NEW c, NEW l, NEW p, NEW r, NEW e, e.name = "position_liquidated",
           r = [volume |-> v, trades |-> n, closed |-> c,
                liquidations |-> l, netPnl |-> p]
    PROVE  StatsAfter(r, e) =
             [volume |-> v, trades |-> n, closed |-> c,
              liquidations |-> l + 1, netPnl |-> p]
<1>1. StatsAfter(r, e) \in
        [volume : {v}, trades : {n}, closed : {c},
         liquidations : {l + 1}, netPnl : {p}]
  BY DEF StatsAfter
<1>2. \A s \in [volume : {v}, trades : {n}, closed : {c},
             liquidations : {l + 1}, netPnl : {p}] :
        s = [volume |-> v, trades |-> n, closed |-> c,
             liquidations |-> l + 1, netPnl |-> p]
  OBVIOUS
<1>3. QED
  BY <1>1, <1>2

\* A trade more in the set is what ingest makes of its trader's row.
LEMMA RowMore ==
    ASSUME NEW lg \in Seq(Entries), NEW ns, NEW m, m \notin ns, TradeLedgers(lg, ns \cup {m}),
           NEW t
    PROVE  RowIn(lg, t, ns \cup {m}) =
             IF lg[m].trader = t THEN RowAfter(RowIn(lg, t, ns), lg[m]) ELSE RowIn(lg, t, ns)
<1> DEFINE e == lg[m]
           ns2 == ns \cup {m}
           O(s) == KindIn(lg, "position_opened", {t}, s)
           C(s) == KindIn(lg, "position_closed", {t}, s)
           L(s) == KindIn(lg, "position_liquidated", {t}, s)
           W(s) == {n \in C(s) : lg[n].amount > 0}
<1>1. e.name \in Kinds /\ e.amount \in Int
  BY LedgersFinite
<1>2. \A s : RowIn(lg, t, s) =
         [volume |-> SumOf(lg, O(s)), realizedPnl |-> SumOf(lg, C(s)),
          trades |-> Cardinality(O(s)), wins |-> Cardinality(W(s)),
          closed |-> Cardinality(C(s)), liquidations |-> Cardinality(L(s))]
  BY DEF RowIn
<1>3. e.name # "position_opened" \/ e.trader # t => O(ns2) = O(ns)
  BY DEF KindIn
<1>4. e.name # "position_closed" \/ e.trader # t => C(ns2) = C(ns)
  BY DEF KindIn
<1>5. e.name # "position_liquidated" \/ e.trader # t => L(ns2) = L(ns)
  BY DEF KindIn
<1>6. /\ Cardinality(W(ns)) \in Nat
      /\ Cardinality(W(ns2)) = Cardinality(W(ns))
           + (IF e.name = "position_closed" /\ e.trader = t /\ e.amount > 0 THEN 1 ELSE 0)
  BY WinsMore
<1>7. e.trader \in {t} <=> e.trader = t
  OBVIOUS
<1>8. e.trader = t =>
        /\ Cardinality(KindIn(lg, e.name, {t}, ns2)) = Cardinality(KindIn(lg, e.name, {t}, ns)) + 1
        /\ SumOf(lg, KindIn(lg, e.name, {t}, ns2)) = SumOf(lg, KindIn(lg, e.name, {t}, ns)) + e.amount
  <2>1. e.trader = t => OneMore(lg, lg[m].name, {t}, ns, m)
    BY <1>7, KindHit
  <2>2. QED
    BY <2>1 DEF OneMore
<1>9. CASE e.trader # t
  <2>1. O(ns2) = O(ns) /\ C(ns2) = C(ns) /\ L(ns2) = L(ns)
    BY <1>3, <1>4, <1>5, <1>9
  <2>2. RowIn(lg, t, ns2) = RowIn(lg, t, ns)
    BY <1>2, <2>1
  <2>3. QED
    BY <1>9, <2>2
<1>10. CASE e.trader = t /\ e.name = "position_opened"
  <2>1. Cardinality(O(ns2)) = Cardinality(O(ns)) + 1 /\ SumOf(lg, O(ns2)) = SumOf(lg, O(ns)) + e.amount
    BY <1>8, <1>10
  <2>2. C(ns2) = C(ns) /\ L(ns2) = L(ns)
    BY <1>4, <1>5, <1>10
  <2>3. W(ns2) = W(ns)
    BY <2>2
  <2> HIDE DEF O, C, L, W, e, ns2
  <2>4. RowIn(lg, t, ns2) = RowAfter(RowIn(lg, t, ns), e)
    BY <1>2, <1>10, <2>1, <2>2, <2>3, RowOpened
  <2>5. QED
    BY <1>10, <2>4 DEF e, ns2
<1>11. CASE e.trader = t /\ e.name = "position_closed"
  <2>1. Cardinality(C(ns2)) = Cardinality(C(ns)) + 1 /\ SumOf(lg, C(ns2)) = SumOf(lg, C(ns)) + e.amount
    BY <1>8, <1>11
  <2>2. O(ns2) = O(ns) /\ L(ns2) = L(ns)
    BY <1>3, <1>5, <1>11
  <2> HIDE DEF O, C, L, W, ns2
  <2>3. Cardinality(W(ns2)) = Cardinality(W(ns)) + (IF e.amount > 0 THEN 1 ELSE 0)
    BY <1>6, <1>11
  <2> HIDE DEF e
  <2>4. RowIn(lg, t, ns2) = RowAfter(RowIn(lg, t, ns), e)
    BY <1>2, <1>11, <2>1, <2>2, <2>3, RowClosed
  <2>5. QED
    BY <1>11, <2>4 DEF e, ns2
<1>12. CASE e.trader = t /\ e.name = "position_liquidated"
  <2>1. Cardinality(L(ns2)) = Cardinality(L(ns)) + 1
    BY <1>8, <1>12
  <2>2. O(ns2) = O(ns) /\ C(ns2) = C(ns)
    BY <1>3, <1>4, <1>12
  <2>3. W(ns2) = W(ns)
    BY <2>2
  <2> HIDE DEF O, C, L, W, e, ns2
  <2>4. RowIn(lg, t, ns2) = RowAfter(RowIn(lg, t, ns), e)
    BY <1>2, <1>12, <2>1, <2>2, <2>3, RowLiquidated
  <2>5. QED
    BY <1>12, <2>4 DEF e, ns2
<1>13. QED
  BY <1>1, <1>9, <1>10, <1>11, <1>12 DEF Kinds

\* And what ingest makes of the totals.
LEMMA StatsMore ==
    ASSUME NEW lg \in Seq(Entries), NEW ns, NEW m, m \notin ns, TradeLedgers(lg, ns \cup {m})
    PROVE  StatsIn(lg, ns \cup {m}) = StatsAfter(StatsIn(lg, ns), lg[m])
<1> DEFINE e == lg[m]
           ns2 == ns \cup {m}
           O(s) == KindIn(lg, "position_opened", Traders, s)
           C(s) == KindIn(lg, "position_closed", Traders, s)
           L(s) == KindIn(lg, "position_liquidated", Traders, s)
<1>1. e.name \in Kinds /\ e.amount \in Int /\ e.trader \in Traders
  BY LedgersFinite
<1>2. \A s : StatsIn(lg, s) =
         [volume |-> SumOf(lg, O(s)), trades |-> Cardinality(O(s)),
          closed |-> Cardinality(C(s)), liquidations |-> Cardinality(L(s)),
          netPnl |-> SumOf(lg, C(s))]
  BY DEF StatsIn
<1>3. e.name # "position_opened" => O(ns2) = O(ns)
  BY DEF KindIn
<1>4. e.name # "position_closed" => C(ns2) = C(ns)
  BY DEF KindIn
<1>5. e.name # "position_liquidated" => L(ns2) = L(ns)
  BY DEF KindIn
<1>6. /\ Cardinality(KindIn(lg, e.name, Traders, ns2))
           = Cardinality(KindIn(lg, e.name, Traders, ns)) + 1
      /\ SumOf(lg, KindIn(lg, e.name, Traders, ns2))
           = SumOf(lg, KindIn(lg, e.name, Traders, ns)) + e.amount
  <2>1. OneMore(lg, lg[m].name, Traders, ns, m)
    BY <1>1, KindHit
  <2>2. QED
    BY <2>1 DEF OneMore
<1>7. CASE e.name = "position_opened"
  <2>1. Cardinality(O(ns2)) = Cardinality(O(ns)) + 1 /\ SumOf(lg, O(ns2)) = SumOf(lg, O(ns)) + e.amount
    BY <1>6, <1>7
  <2>2. C(ns2) = C(ns) /\ L(ns2) = L(ns)
    BY <1>4, <1>5, <1>7
  <2> HIDE DEF O, C, L, e, ns2
  <2>3. StatsIn(lg, ns2) = StatsAfter(StatsIn(lg, ns), e)
    BY <1>2, <1>7, <2>1, <2>2, StatsOpened
  <2>4. QED
    BY <2>3 DEF e, ns2
<1>8. CASE e.name = "position_closed"
  <2>1. Cardinality(C(ns2)) = Cardinality(C(ns)) + 1 /\ SumOf(lg, C(ns2)) = SumOf(lg, C(ns)) + e.amount
    BY <1>6, <1>8
  <2>2. O(ns2) = O(ns) /\ L(ns2) = L(ns)
    BY <1>3, <1>5, <1>8
  <2> HIDE DEF O, C, L, e, ns2
  <2>3. StatsIn(lg, ns2) = StatsAfter(StatsIn(lg, ns), e)
    BY <1>2, <1>8, <2>1, <2>2, StatsClosed
  <2>4. QED
    BY <2>3 DEF e, ns2
<1>9. CASE e.name = "position_liquidated"
  <2>1. Cardinality(L(ns2)) = Cardinality(L(ns)) + 1
    BY <1>6, <1>9
  <2>2. O(ns2) = O(ns) /\ C(ns2) = C(ns)
    BY <1>3, <1>4, <1>9
  <2> HIDE DEF O, C, L, e, ns2
  <2>3. StatsIn(lg, ns2) = StatsAfter(StatsIn(lg, ns), e)
    BY <1>2, <1>9, <2>1, <2>2, StatsLiquidated
  <2>4. QED
    BY <2>3 DEF e, ns2
<1>10. QED
  BY <1>1, <1>7, <1>8, <1>9 DEF Kinds

\* Over no ledger, everything is zero.
LEMMA NoneCounted ==
    ASSUME NEW lg \in Seq(Entries)
    PROVE  StatsIn(lg, {}) = NoStats /\ \A t : RowIn(lg, t, {}) = EmptyRow
<1>1. \A name, who : KindIn(lg, name, who, {}) = {}
  BY DEF KindIn
<1>2. Len(lg) \in Nat /\ SumOf(lg, {}) = 0 /\ Cardinality({}) = 0
  BY SumOfNone, FS_EmptySet
<1>3. {n \in {} : lg[n].amount > 0} = {}
  OBVIOUS
<1>4. StatsIn(lg, {}) = NoStats
  BY <1>1, <1>2 DEF StatsIn, NoStats
<1>5. \A t : RowIn(lg, t, {}) = EmptyRow
  BY <1>1, <1>2, <1>3 DEF RowIn, EmptyRow
<1>6. QED
  BY <1>4, <1>5

\* What is appended to the log changes neither rows nor totals of what was there.
LEMMA LongerLog ==
    ASSUME NEW lg \in Seq(Entries), NEW e \in Entries, NEW ns, TradeLedgers(lg, ns)
    PROVE  LET lg2 == Append(lg, e)
           IN  /\ TradeLedgers(lg2, ns)
               /\ StatsIn(lg2, ns) = StatsIn(lg, ns)
               /\ \A t : RowIn(lg2, t, ns) = RowIn(lg, t, ns)
<1> DEFINE lg2 == Append(lg, e)
<1>1. /\ Len(lg) \in Nat /\ Len(lg2) = Len(lg) + 1
      /\ \A n \in 1 .. Len(lg) : lg2[n] = lg[n]
  OBVIOUS
<1>2. /\ ns \subseteq 1 .. Len(lg) /\ \A n \in ns : lg2[n] = lg[n]
      /\ \A n \in ns : lg[n].amount \in Int
  BY <1>1, LedgersFinite DEF TradeLedgers
<1> HIDE DEF lg2
<1>3. TradeLedgers(lg2, ns)
  BY <1>1, <1>2 DEF TradeLedgers, TradeAt
<1>4. \A name, who : KindIn(lg2, name, who, ns) = KindIn(lg, name, who, ns)
  BY <1>2 DEF KindIn
<1>5. \A name, who : SumOf(lg2, KindIn(lg, name, who, ns)) = SumOf(lg, KindIn(lg, name, who, ns))
  <2> TAKE name, who
  <2>1. KindIn(lg, name, who, ns) \subseteq ns
    BY DEF KindIn
  <2> HIDE DEF KindIn
  <2>2. QED
    BY <1>1, <1>2, <2>1, SumLonger
<1>6. \A t : {n \in KindIn(lg, "position_closed", {t}, ns) : lg2[n].amount > 0}
               = {n \in KindIn(lg, "position_closed", {t}, ns) : lg[n].amount > 0}
  BY <1>2 DEF KindIn
<1>7. StatsIn(lg2, ns) = StatsIn(lg, ns)
  BY <1>4, <1>5 DEF StatsIn
<1>8. \A t : RowIn(lg2, t, ns) = RowIn(lg, t, ns)
  BY <1>4, <1>5, <1>6 DEF RowIn
<1>9. QED
  BY <1>3, <1>7, <1>8 DEF lg2

---------------------------------------------------------------------------
(* Ingesting a page.                                                       *)

\* Rows and totals are what a count over a set of ledgers gives.
CountedTo(lg, sums, ns) ==
    /\ sums.rows = [t \in Traders |-> RowIn(lg, t, ns)]
    /\ sums.stats = StatsIn(lg, ns)

LEMMA CountedMore ==
    ASSUME NEW lg \in Seq(Entries), NEW ns, NEW m, m \notin ns, TradeLedgers(lg, ns \cup {m}),
           NEW sums, CountedTo(lg, sums, ns)
    PROVE  CountedTo(lg, Counted(sums, lg[m]), ns \cup {m})
<1> DEFINE all == Counted(sums, lg[m]).rows
<1>1. lg[m].trader \in Traders
  BY LedgersFinite
<1>2. sums.rows = [t \in Traders |-> RowIn(lg, t, ns)]
  BY DEF CountedTo
<1>3. all = [sums.rows EXCEPT ![lg[m].trader] = RowAfter(@, lg[m])]
  BY DEF Counted
<1>4. all = [t \in Traders |-> RowIn(lg, t, ns \cup {m})]
  <2>1. all = [t \in Traders |-> IF t = lg[m].trader THEN RowAfter(RowIn(lg, t, ns), lg[m])
                                 ELSE RowIn(lg, t, ns)]
    BY <1>1, <1>2, <1>3
  <2>2. \A t \in Traders : RowIn(lg, t, ns \cup {m}) =
          IF t = lg[m].trader THEN RowAfter(RowIn(lg, t, ns), lg[m]) ELSE RowIn(lg, t, ns)
    BY RowMore
  <2> HIDE DEF all
  <2>3. QED
    BY <2>1, <2>2
<1>5. Counted(sums, lg[m]).stats = StatsIn(lg, ns \cup {m})
  BY StatsMore DEF Counted, CountedTo
<1>6. QED
  BY <1>4, <1>5 DEF CountedTo

\* The recursive function of Ingested exists.
LEMMA IngestedUnfolds ==
    ASSUME log \in Seq(Entries), NEW events
    PROVE  \E f : /\ f = [n \in 0 .. Len(log) |->
                            IF n = 0 THEN [rows |-> rows, stats |-> stats]
                            ELSE IF n \in events /\ IsTrade(n) THEN Counted(f[n - 1], log[n])
                            ELSE f[n - 1]]
                  /\ Ingested(events) = f[Len(log)]
<1> DEFINE Next(s, n) == IF n \in events /\ IsTrade(n) THEN Counted(s, log[n]) ELSE s
           start == [rows |-> rows, stats |-> stats]
           Upto(f, k) == f = [n \in 0 .. k |-> IF n = 0 THEN start ELSE Next(f[n - 1], n)]
           S == {k \in Nat : \E f : Upto(f, k)}
<1>1. 0 \in S
  <2>1. Upto([n \in {0} |-> start], 0)
    OBVIOUS
  <2>2. QED
    BY <2>1
<1>2. ASSUME NEW k \in Nat, k \in S
      PROVE  k + 1 \in S
  <2>1. PICK f : Upto(f, k)
    BY <1>2
  <2> DEFINE g == [n \in 0 .. k + 1 |-> IF n = k + 1 THEN Next(f[k], k + 1) ELSE f[n]]
  <2> HIDE DEF Next, start
  <2>2. ASSUME NEW n \in 0 .. k + 1
        PROVE  g[n] = IF n = 0 THEN start ELSE Next(g[n - 1], n)
    <3>1. CASE n = k + 1
      BY <3>1
    <3>2. CASE n \in 0 .. k
      BY <2>1, <3>2
    <3>3. QED
      BY <3>1, <3>2
  <2>3. Upto(g, k + 1)
    <3>1. g = [n \in 0 .. k + 1 |-> g[n]]
      OBVIOUS
    <3> HIDE DEF g
    <3>2. QED
      BY <2>2, <3>1
  <2>4. QED
    <3> HIDE DEF g, Upto
    <3> QED
      BY <2>3
<1>3. Len(log) \in S
  <2> HIDE DEF S
  <2>1. Nat \subseteq S
    BY <1>1, <1>2, SetInduction
  <2> QED
    BY <2>1
<1> DEFINE after == CHOOSE f : f = [n \in 0 .. Len(log) |->
                            IF n = 0 THEN [rows |-> rows, stats |-> stats]
                            ELSE IF n \in events /\ IsTrade(n) THEN Counted(f[n - 1], log[n])
                            ELSE f[n - 1]]
<1>4. after = [n \in 0 .. Len(log) |->
                            IF n = 0 THEN [rows |-> rows, stats |-> stats]
                            ELSE IF n \in events /\ IsTrade(n) THEN Counted(after[n - 1], log[n])
                            ELSE after[n - 1]]
  BY <1>3, Zenon
<1>5. Ingested(events) = after[Len(log)]
  BY Zenon DEF Ingested
<1>6. QED
  BY <1>4, <1>5, Zenon

\* The trades of a page, once more, on top of those of another set of ledgers.
LEMMA IngestCounts ==
    ASSUME log \in Seq(Entries), NEW ns, TradeLedgers(log, ns),
           CountedTo(log, [rows |-> rows, stats |-> stats], ns),
           NEW events, events \subseteq 1 .. Len(log), events \cap ns = {}
    PROVE  CountedTo(log, Ingested(events), ns \cup {n \in events : IsTrade(n)})
<1> DEFINE T == {n \in events : IsTrade(n)}
           N == Len(log)
           Upto(n) == ns \cup {k \in T : k <= n}
<1>1. PICK f : /\ f = [n \in 0 .. N |->
                         IF n = 0 THEN [rows |-> rows, stats |-> stats]
                         ELSE IF n \in events /\ IsTrade(n) THEN Counted(f[n - 1], log[n])
                         ELSE f[n - 1]]
               /\ Ingested(events) = f[N]
  BY IngestedUnfolds
<1>2. N \in Nat /\ T \subseteq 1 .. N /\ T \cap ns = {}
  <2>1. T \subseteq events
    OBVIOUS
  <2>2. N \in Nat
    OBVIOUS
  <2> HIDE DEF T
  <2>3. QED
    BY <2>1, <2>2
<1> DEFINE S == {n \in Nat : n <= N => CountedTo(log, f[n], Upto(n))}
<1>3. 0 \in S
  <2>1. Upto(0) = ns
    BY <1>2
  <2>2. f[0] = [rows |-> rows, stats |-> stats]
    BY <1>1, <1>2
  <2> HIDE DEF Upto
  <2>3. QED
    BY <2>1, <2>2
<1>4. ASSUME NEW n \in Nat, n \in S
      PROVE  n + 1 \in S
  <2>1. SUFFICES ASSUME n + 1 <= N
                 PROVE  CountedTo(log, f[n + 1], Upto(n + 1))
    OBVIOUS
  <2>2. CountedTo(log, f[n], Upto(n))
    BY <1>4, <2>1
  <2>3. f[n + 1] = IF n + 1 \in T THEN Counted(f[n], log[n + 1]) ELSE f[n]
    BY <1>1, <2>1
  <2>4. CASE n + 1 \in T
    <3>1. Upto(n + 1) = Upto(n) \cup {n + 1} /\ n + 1 \notin Upto(n)
      BY <1>2, <2>4
    <3>2. TradeLedgers(log, Upto(n) \cup {n + 1})
      BY <1>2, <2>4 DEF TradeLedgers, TradeAt, IsTrade
    <3> HIDE DEF Upto, T
    <3>3. CountedTo(log, Counted(f[n], log[n + 1]), Upto(n) \cup {n + 1})
      BY <2>2, <3>1, <3>2, CountedMore
    <3>4. QED
      BY <2>3, <2>4, <3>1, <3>3
  <2>5. CASE n + 1 \notin T
    <3>1. Upto(n + 1) = Upto(n)
      BY <1>2, <2>5
    <3> HIDE DEF Upto, T
    <3>2. QED
      BY <2>2, <2>3, <2>5, <3>1
  <2>6. QED
    BY <2>4, <2>5
<1>5. Nat \subseteq S
  <2> HIDE DEF S
  <2> QED
    BY <1>3, <1>4, SetInduction
<1>6. Upto(N) = ns \cup T
  BY <1>2
<1> HIDE DEF Upto, T
<1>7. CountedTo(log, f[N], Upto(N))
  BY <1>2, <1>5
<1>8. QED
  BY <1>1, <1>6, <1>7 DEF T

---------------------------------------------------------------------------
(* A page: the trades between its cursor and the one before it.            *)

LEMMA GreatestIs ==
    ASSUME NEW S, S \subseteq Int, NEW x \in S, \A y \in S : y <= x
    PROVE  Greatest(S) = x
<1>1. Greatest(S) \in S /\ \A y \in S : y <= Greatest(S)
  BY DEF Greatest
<1>2. Greatest(S) \in Int /\ x \in Int /\ x <= Greatest(S) /\ Greatest(S) <= x
  BY <1>1
<1> HIDE DEF Greatest
<1>3. QED
  BY <1>2

LEMMA GreatestExists ==
    ASSUME NEW N \in Nat, NEW S, S \subseteq 1 .. N, S # {}
    PROVE  Greatest(S) \in S /\ \A y \in S : y <= Greatest(S)
<1> DEFINE T == {N - x : x \in S}
<1>1. PICK z \in T : \A y \in T : z <= y
  <2>1. T \subseteq Nat /\ T # {}
    <3>1. \A x \in S : x \in 1 .. N
      OBVIOUS
    <3>2. \A x \in S : N - x \in Nat
      BY <3>1
    <3>3. QED
      BY <3>2
  <2> HIDE DEF T
  <2>2. QED
    BY <2>1, LeastNumber
<1>2. PICK x \in S : z = N - x
  BY <1>1
<1>3. \A y \in S : y <= x
  <2> TAKE y \in S
  <2>1. N - x <= N - y
    BY <1>1, <1>2
  <2>2. x \in Int /\ y \in Int
    <3>1. 1 .. N \subseteq Int
      OBVIOUS
    <3>2. QED
      BY <3>1
  <2>3. QED
    BY <2>1, <2>2
<1>4. Greatest(S) = x
  <2>1. S \subseteq Int
    OBVIOUS
  <2>2. QED
    BY <1>3, <2>1, GreatestIs
<1>5. QED
  BY <1>3, <1>4

LEMMA GreatestOfTwo ==
    ASSUME NEW x \in Int
    PROVE  Greatest({1, x}) \in Nat \ {0} /\ Greatest({1, x}) >= x
<1>1. CASE x <= 1
  BY <1>1, GreatestIs
<1>2. CASE x > 1
  BY <1>2, GreatestIs
<1>3. QED
  BY <1>1, <1>2

\* Events that come before one of a page are in the page, and it is not longer
\* than its limit.
LEMMA PageIsFirst ==
    ASSUME log \in Seq(Entries), NEW n \in Nat \ {0}
    PROVE  /\ PageFrom(n) \subseteq EventsFrom(n) /\ EventsFrom(n) \subseteq n .. Len(log)
           /\ IsFiniteSet(PageFrom(n)) /\ Cardinality(PageFrom(n)) <= EVENTS_PAGE_LIMIT
           /\ \A g \in PageFrom(n), k \in EventsFrom(n) : k <= g => k \in PageFrom(n)
           /\ ~Full(PageFrom(n)) => PageFrom(n) = EventsFrom(n)
<1> DEFINE E == EventsFrom(n)
           P == PageFrom(n)
           Before(k) == {j \in E : j < k}
<1>1. EVENTS_PAGE_LIMIT \in Nat \ {0}
  BY BoardAssumption
<1>2. P = {k \in E : Cardinality(Before(k)) < EVENTS_PAGE_LIMIT} /\ P \subseteq E
  BY DEF PageFrom
<1>3. E \subseteq n .. Len(log) /\ IsFiniteSet(E) /\ E \subseteq Nat
  <2>1. E \subseteq n .. Len(log) /\ Len(log) \in Nat
    BY DEF EventsFrom
  <2>2. IsFiniteSet(n .. Len(log))
    BY <2>1, FS_Interval
  <2>3. QED
    BY <2>1, <2>2, FS_Subset
<1> HIDE DEF E, P
<1>4. IsFiniteSet(P) /\ Cardinality(P) \in Nat
  BY <1>2, <1>3, FS_Subset, FS_CardinalityType
<1>5. \A k : IsFiniteSet(Before(k)) /\ Cardinality(Before(k)) \in Nat
  <2> TAKE k
  <2>1. Before(k) \subseteq E
    OBVIOUS
  <2> HIDE DEF Before
  <2>2. QED
    BY <1>3, <2>1, FS_Subset, FS_CardinalityType
<1>6. ASSUME NEW g \in P, NEW k \in E, k <= g
      PROVE  k \in P
  <2>1. Before(k) \subseteq Before(g)
    <3>1. g \in Nat /\ k \in Nat /\ E \subseteq Nat
      BY <1>2, <1>3
    <3>2. \A j \in Nat : j < k => j < g
      BY <1>6, <3>1
    <3>3. QED
      BY <3>1, <3>2
  <2> HIDE DEF Before
  <2>2. Cardinality(Before(k)) <= Cardinality(Before(g))
    BY <1>5, <2>1, FS_Subset
  <2>3. Cardinality(Before(g)) < EVENTS_PAGE_LIMIT
    BY <1>2
  <2>4. Cardinality(Before(k)) < EVENTS_PAGE_LIMIT
    BY <1>1, <1>5, <2>2, <2>3
  <2>5. QED
    BY <1>2, <2>4
<1>7. Cardinality(P) <= EVENTS_PAGE_LIMIT
  <2>1. CASE P = {}
    BY <1>1, <2>1, FS_EmptySet
  <2>2. CASE P # {}
    <3>1. PICK g \in P : \A y \in P : y <= g
      <4>1. P \subseteq 1 .. Len(log) /\ Len(log) \in Nat
        <5>1. n .. Len(log) \subseteq 1 .. Len(log) /\ Len(log) \in Nat
          OBVIOUS
        <5>2. QED
          BY <1>2, <1>3, <5>1
      <4>2. QED
        BY <2>2, <4>1, GreatestExists
    <3>2. P \subseteq Before(g) \cup {g} /\ g \notin Before(g)
      <4>1. P \subseteq E /\ E \subseteq Nat /\ g \in Nat
        BY <1>2, <1>3
      <4>2. QED
        BY <3>1, <4>1
    <3>3. Cardinality(Before(g)) < EVENTS_PAGE_LIMIT
      BY <1>2
    <3> HIDE DEF Before
    <3>4. /\ IsFiniteSet(Before(g) \cup {g})
          /\ Cardinality(Before(g) \cup {g}) = Cardinality(Before(g)) + 1
      BY <1>5, <3>2, FS_AddElement
    <3>5. Cardinality(P) <= Cardinality(Before(g) \cup {g})
      BY <3>2, <3>4, FS_Subset
    <3>6. QED
      BY <1>1, <1>4, <1>5, <3>3, <3>4, <3>5
  <2>3. QED
    BY <2>1, <2>2
<1>8. ASSUME ~Full(P)
      PROVE  P = E
  <2>1. SUFFICES ASSUME E \ P # {}
                 PROVE  FALSE
    BY <1>2
  <2>2. PICK k \in E \ P : \A j \in E \ P : k <= j
    BY <1>3, <2>1, LeastNumber
  <2>3. Before(k) \subseteq P
    <3> SUFFICES ASSUME NEW j \in E, j < k
                 PROVE  j \in P
      OBVIOUS
    <3>1. j \in Nat /\ k \in Nat
      BY <1>3, <2>2
    <3>2. ~(k <= j)
      BY <3>1
    <3>3. QED
      BY <2>2, <3>2
  <2>4. ~(Cardinality(Before(k)) < EVENTS_PAGE_LIMIT)
    BY <1>2, <2>2
  <2> HIDE DEF Before
  <2>5. Cardinality(Before(k)) <= Cardinality(P)
    BY <1>4, <2>3, FS_Subset
  <2>6. Cardinality(P) = EVENTS_PAGE_LIMIT
    BY <1>1, <1>4, <1>5, <1>7, <2>4, <2>5
  <2>7. QED
    BY <1>8, <2>6 DEF Full
<1>9. QED
  BY <1>2, <1>3, <1>4, <1>6, <1>7, <1>8 DEF E, P

LEMMA PageCovers ==
    ASSUME log \in Seq(Entries), NEW n \in Nat \ {0}, n <= Len(log) + 1
    PROVE  LET c == CursorAfter(PageFrom(n))
           IN  /\ c \in n - 1 .. Len(log)
               /\ ~Full(PageFrom(n)) => c = Len(log)
               /\ PageFrom(n) \subseteq n .. c
               /\ {k \in PageFrom(n) : IsTrade(k)} = {k \in n .. c : IsTrade(k)}
<1> DEFINE P == PageFrom(n)
           c == CursorAfter(P)
<1>1. /\ P \subseteq EventsFrom(n) /\ EventsFrom(n) \subseteq n .. Len(log)
      /\ IsFiniteSet(P) /\ Cardinality(P) <= EVENTS_PAGE_LIMIT
      /\ \A g \in P, k \in EventsFrom(n) : k <= g => k \in P
      /\ ~Full(P) => P = EventsFrom(n)
  BY PageIsFirst
<1>2. \A k \in n .. Len(log) : IsTrade(k) => k \in EventsFrom(n)
  BY DEF EventsFrom, IsTrade
<1>3. Len(log) \in Nat
  OBVIOUS
<1> HIDE DEF P
<1>4. CASE Full(P)
  <2>1. P # {}
    BY <1>4, BoardAssumption, FS_EmptySet DEF Full
  <2>2. P \subseteq 1 .. Len(log)
    BY <1>1
  <2>3. Greatest(P) \in P /\ \A y \in P : y <= Greatest(P)
    BY <1>3, <2>1, <2>2, GreatestExists
  <2>4. c = Greatest(P)
    BY <1>4 DEF CursorAfter
  <2> HIDE DEF c
  <2>5. c \in n .. Len(log) /\ P \subseteq n .. c
    BY <1>1, <1>3, <2>3, <2>4
  <2>6. \A k \in n .. c : IsTrade(k) => k \in P
    BY <1>1, <1>2, <1>3, <2>3, <2>4, <2>5
  <2>7. {k \in P : IsTrade(k)} = {k \in n .. c : IsTrade(k)}
    BY <2>5, <2>6
  <2>8. QED
    BY <1>3, <1>4, <2>5, <2>7 DEF P, c
<1>5. CASE ~Full(P)
  <2>1. c = Len(log)
    BY <1>5 DEF CursorAfter
  <2> HIDE DEF c
  <2>2. P \subseteq n .. c /\ \A k \in n .. c : IsTrade(k) => k \in P
    BY <1>1, <1>2, <1>5, <2>1
  <2>3. {k \in P : IsTrade(k)} = {k \in n .. c : IsTrade(k)}
    BY <2>2
  <2>4. QED
    BY <1>3, <2>1, <2>2, <2>3 DEF P, c
<1>6. QED
  BY <1>4, <1>5

---------------------------------------------------------------------------
(* The ranking.                                                            *)

\* Every set of traders has one that none of them outranks.
LEMMA TopExists ==
    ASSUME NEW all, \A t \in Traders : all[t].realizedPnl \in Int /\ all[t].volume \in Int,
           NEW T, T \subseteq Traders, T # {}
    PROVE  \E x \in T : \A y \in T : ~Outranks(all, y, x)
<1> DEFINE Above(x) == {y \in T : Outranks(all, y, x)}
           F == {Cardinality(Above(x)) : x \in T}
<1>1. \A x : IsFiniteSet(Above(x)) /\ Cardinality(Above(x)) \in Nat
  <2> TAKE x
  <2>1. Above(x) \subseteq Traders
    OBVIOUS
  <2> HIDE DEF Above
  <2>2. QED
    BY <2>1, BoardAssumption, FS_Subset, FS_CardinalityType
<1>2. PICK f \in F : \A g \in F : f <= g
  <2>1. F \subseteq Nat /\ F # {}
    <3> HIDE DEF Above
    <3> QED
      BY <1>1
  <2> HIDE DEF F
  <2>2. QED
    BY <2>1, LeastNumber
<1>3. PICK x \in T : f = Cardinality(Above(x))
  BY <1>2
<1>4. ASSUME NEW y \in T, Outranks(all, y, x)
      PROVE  FALSE
  <2>1. Above(y) \subseteq Above(x) /\ y \in Above(x) /\ y \notin Above(y)
    BY <1>4 DEF Outranks
  <2> HIDE DEF Above
  <2>2. Cardinality(Above(y) \cup {y}) = Cardinality(Above(y)) + 1
    BY <1>1, <2>1, FS_AddElement
  <2>3. Cardinality(Above(y) \cup {y}) <= Cardinality(Above(x))
    BY <1>1, <2>1, FS_Subset
  <2>4. Cardinality(Above(x)) <= Cardinality(Above(y))
    BY <1>2, <1>3
  <2>5. QED
    BY <1>1, <2>2, <2>3, <2>4
<1>5. QED
  BY <1>4

Ranked(all, T, order) ==
    /\ order \in [1 .. Cardinality(T) -> T]
    /\ \A i, j \in 1 .. Cardinality(T) :
          i < j => order[i] # order[j] /\ ~Outranks(all, order[j], order[i])

LEMMA RankingExists ==
    ASSUME NEW all, \A t \in Traders : all[t].realizedPnl \in Int /\ all[t].volume \in Int,
           NEW T, T \subseteq Traders
    PROVE  Ranked(all, T, Ranking(all, T))
<1> DEFINE S == {n \in Nat : \A U \in SUBSET Traders :
                    Cardinality(U) = n => \E order : Ranked(all, U, order)}
<1>1. \A U \in SUBSET Traders : IsFiniteSet(U) /\ Cardinality(U) \in Nat
  BY BoardAssumption, FS_Subset, FS_CardinalityType
<1>2. 0 \in S
  <2> SUFFICES ASSUME NEW U \in SUBSET Traders, Cardinality(U) = 0
               PROVE  \E order : Ranked(all, U, order)
    OBVIOUS
  <2>1. Ranked(all, U, [i \in {} |-> 0])
    BY DEF Ranked
  <2>2. QED
    BY <2>1
<1>3. ASSUME NEW n \in Nat, n \in S
      PROVE  n + 1 \in S
  <2> SUFFICES ASSUME NEW U \in SUBSET Traders, Cardinality(U) = n + 1
               PROVE  \E order : Ranked(all, U, order)
    OBVIOUS
  <2>1. U # {}
    BY FS_EmptySet
  <2>2. PICK x \in U : \A y \in U : ~Outranks(all, y, x)
    BY <2>1, TopExists
  <2> DEFINE V == U \ {x}
  <2>3. V \in SUBSET Traders /\ Cardinality(V) = n
    <3>1. IsFiniteSet(U)
      BY <1>1
    <3>2. Cardinality(V) = Cardinality(U) - 1
      BY <3>1, FS_RemoveElement
    <3>3. QED
      BY <3>2
  <2>4. PICK order : Ranked(all, V, order)
    BY <1>3, <2>3
  <2> HIDE DEF V
  <2> DEFINE longer == [i \in 1 .. n + 1 |-> IF i = 1 THEN x ELSE order[i - 1]]
  <2>5. \A i \in 2 .. n + 1 : longer[i] = order[i - 1] /\ order[i - 1] \in V
    BY <2>3, <2>4 DEF Ranked
  <2>6. longer[1] = x /\ V \subseteq U /\ x \notin V
    BY DEF V
  <2>7. longer \in [1 .. n + 1 -> U]
    <3>1. \A i \in 1 .. n + 1 : longer[i] \in U
      <4> TAKE i \in 1 .. n + 1
      <4>1. i = 1 \/ i \in 2 .. n + 1
        OBVIOUS
      <4> HIDE DEF longer
      <4>2. QED
        BY <2>5, <2>6, <4>1
    <3>2. longer = [i \in 1 .. n + 1 |-> longer[i]]
      OBVIOUS
    <3> HIDE DEF longer
    <3>3. QED
      BY <3>1, <3>2
  <2>8. ASSUME NEW i \in 1 .. n + 1, NEW j \in 1 .. n + 1, i < j
        PROVE  longer[i] # longer[j] /\ ~Outranks(all, longer[j], longer[i])
    <3>1. j \in 2 .. n + 1 /\ longer[j] \in V
      <4>1. j \in 2 .. n + 1
        BY <2>8
      <4> HIDE DEF longer
      <4>2. QED
        BY <2>5, <4>1
    <3>2. CASE i = 1
      BY <2>2, <2>6, <3>1, <3>2
    <3>3. CASE i # 1
      <4>1. i \in 2 .. n + 1 /\ i - 1 \in 1 .. n /\ j - 1 \in 1 .. n /\ i - 1 < j - 1
        BY <2>8, <3>3
      <4>2. order[i - 1] # order[j - 1] /\ ~Outranks(all, order[j - 1], order[i - 1])
        BY <2>3, <2>4, <4>1 DEF Ranked
      <4> HIDE DEF longer
      <4>3. QED
        BY <2>5, <3>1, <4>1, <4>2
    <3>4. QED
      BY <3>2, <3>3
  <2>9. Ranked(all, U, longer)
    <3> HIDE DEF longer
    <3> QED
      BY <2>7, <2>8 DEF Ranked
  <2>10. QED
    BY <2>9
<1>4. \E order : Ranked(all, T, order)
  <2> HIDE DEF S
  <2>1. Cardinality(T) \in S
    BY <1>1, <1>2, <1>3, SetInduction
  <2>2. QED
    BY <2>1 DEF S
<1>5. \A order \in [1 .. Cardinality(T) -> T] : DOMAIN order = 1 .. Cardinality(T)
  OBVIOUS
<1>6. QED
  BY <1>4, <1>5 DEF Ranked, Ranking

---------------------------------------------------------------------------
(* The invariant: what the query has read so far is counted, and what it   *)
(* last published was.                                                     *)

\* TradesIn, of any log.
TradesAt(lg, s) == {n \in s.first .. s.cursor : s.first # 0 /\ TradeAt(lg, n)}

SpanOK(s, last) ==
    /\ s \in [first : Nat, cursor : 0 .. last]
    /\ s.first <= s.cursor + 1
    /\ s.first = 0 => s.cursor = 0

ReadOK(lg, s, sums) == SpanOK(s, Len(lg)) /\ CountedTo(lg, sums, TradesAt(lg, s))

SheetOK(lg, b) ==
    /\ ReadOK(lg, b.span, [rows |-> b.rows, stats |-> b.stats])
    /\ Len(b.ranking) = b.traders
    /\ \A i, j \in DOMAIN b.ranking :
          i < j => /\ b.ranking[i] # b.ranking[j]
                   /\ ~Outranks(b.rows, b.ranking[j], b.ranking[i])
    /\ b.drained => b.span.cursor >= b.latest

Sums == [rows |-> rows, stats |-> stats]

BoardInv ==
    /\ log \in Seq(Entries)
    /\ latest \in 0 .. Len(log)
    /\ probes \in Seq(Nat)
    /\ stage = "probe" => probes # <<>> /\ span = NoSpan
    /\ stage = "page" => span.first # 0
    /\ ReadOK(log, span, Sums)
    /\ SheetOK(log, board)

LEMMA SpanTrades ==
    ASSUME NEW lg \in Seq(Entries), NEW s, SpanOK(s, Len(lg))
    PROVE  TradeLedgers(lg, TradesAt(lg, s))
  BY DEF SpanOK, TradeLedgers, TradesAt

\* Nothing read, nothing counted.
LEMMA NothingRead ==
    ASSUME NEW lg \in Seq(Entries)
    PROVE  ReadOK(lg, NoSpan, [rows |-> NoRows, stats |-> NoStats])
<1>1. SpanOK(NoSpan, Len(lg)) /\ TradesAt(lg, NoSpan) = {}
  BY DEF SpanOK, NoSpan, TradesAt
<1>2. CountedTo(lg, [rows |-> NoRows, stats |-> NoStats], {})
  BY NoneCounted DEF CountedTo, NoRows
<1>3. QED
  BY <1>1, <1>2 DEF ReadOK

\* The log grows: what was read stays counted.
LEMMA StaysRead ==
    ASSUME NEW lg \in Seq(Entries), NEW e \in Entries, NEW s, NEW sums, ReadOK(lg, s, sums)
    PROVE  ReadOK(Append(lg, e), s, sums)
<1> DEFINE lg2 == Append(lg, e)
           ns == TradesAt(lg, s)
<1>1. TradeLedgers(lg, ns)
  BY SpanTrades DEF ReadOK
<1>2. /\ StatsIn(lg2, ns) = StatsIn(lg, ns)
      /\ \A t : RowIn(lg2, t, ns) = RowIn(lg, t, ns)
  BY <1>1, LongerLog
<1>3. /\ Len(lg) \in Nat /\ Len(lg2) = Len(lg) + 1
      /\ \A n \in 1 .. Len(lg) : lg2[n] = lg[n]
  OBVIOUS
<1>4. SpanOK(s, Len(lg2))
  BY <1>3 DEF ReadOK, SpanOK
<1>5. TradesAt(lg2, s) = ns
  BY <1>3 DEF ReadOK, SpanOK, TradesAt, TradeAt
<1> HIDE DEF lg2, ns
<1>6. CountedTo(lg2, sums, ns)
  BY <1>2 DEF ReadOK, CountedTo, ns
<1>7. QED
  BY <1>4, <1>5, <1>6 DEF ReadOK, lg2

\* The next page of the ledgers after those that are counted.
LEMMA PageRead ==
    ASSUME log \in Seq(Entries), NEW s, ReadOK(log, s, Sums),
           NEW n \in Nat \ {0}, n <= Len(log) + 1, s.first = 0 \/ n = s.cursor + 1,
           Ingest(PageFrom(n))
    PROVE  LET c == CursorAfter(PageFrom(n))
           IN  /\ ReadOK(log, [first |-> IF s.first = 0 THEN n ELSE s.first, cursor |-> c], Sums')
               /\ ~Full(PageFrom(n)) => c = Len(log)
<1> DEFINE P == PageFrom(n)
           c == CursorAfter(P)
           s2 == [first |-> IF s.first = 0 THEN n ELSE s.first, cursor |-> c]
           ns == TradesAt(log, s)
<1>1. /\ c \in n - 1 .. Len(log) /\ (~Full(P) => c = Len(log))
      /\ P \subseteq n .. c
      /\ {k \in P : IsTrade(k)} = {k \in n .. c : IsTrade(k)}
  BY PageCovers
<1>2. TradeLedgers(log, ns) /\ CountedTo(log, Sums, ns) /\ SpanOK(s, Len(log))
  BY SpanTrades DEF ReadOK
<1>3. \A k \in ns : s.first # 0 /\ k <= s.cursor
  BY <1>2 DEF TradesAt, SpanOK
<1>4. ns \cap P = {} /\ P \subseteq 1 .. Len(log)
  <2>1. \A k \in ns : k < n
    BY <1>2, <1>3 DEF SpanOK, TradesAt
  <2>2. \A k \in n .. c : k >= n /\ k \in 1 .. Len(log)
    BY <1>1
  <2> HIDE DEF ns, P, c
  <2>3. \A k \in ns : k \in 1 .. Len(log)
    BY <1>2 DEF TradeLedgers
  <2>4. QED
    BY <1>1, <2>1, <2>2, <2>3
<1>5. CountedTo(log, Ingested(P), ns \cup {k \in P : IsTrade(k)})
  BY <1>2, <1>4, IngestCounts DEF Sums
<1>6. TradesAt(log, s2) = ns \cup {k \in n .. c : IsTrade(k)}
  BY <1>1, <1>2 DEF TradesAt, SpanOK, IsTrade, TradeAt
<1>7. SpanOK(s2, Len(log))
  BY <1>1, <1>2 DEF SpanOK
<1>8. CountedTo(log, Sums', ns \cup {k \in P : IsTrade(k)})
  BY <1>5 DEF CountedTo, Sums, Ingest
<1> HIDE DEF P, c, s2, ns
<1>9. ReadOK(log, s2, Sums')
  BY <1>1, <1>6, <1>7, <1>8 DEF ReadOK
<1>10. QED
  BY <1>1, <1>9 DEF P, c, s2

\* What is published is what was read.
LEMMA PublishedRight ==
    ASSUME log \in Seq(Entries), latest \in 0 .. Len(log), NEW covered, NEW drained,
           ReadOK(log, covered, Sums'), drained => covered.cursor >= latest,
           Publish(covered, drained)
    PROVE  SheetOK(log, board')
<1> DEFINE seen == {t \in Traders : rows'[t] # EmptyRow}
           ns == TradesAt(log, covered)
<1>1. board' = [ranking |-> Ranking(rows', seen), rows |-> rows', stats |-> stats',
                traders |-> Cardinality(seen), span |-> covered, latest |-> latest,
                drained |-> drained]
  BY DEF Publish
<1>2. \A t \in Traders : rows'[t].realizedPnl \in Int /\ rows'[t].volume \in Int
  <2>1. TradeLedgers(log, ns)
    BY SpanTrades DEF ReadOK
  <2> HIDE DEF ns
  <2>2. \A t \in Traders : rows'[t] = RowIn(log, t, ns)
    BY DEF ReadOK, CountedTo, Sums, ns
  <2>3. \A t \in Traders : RowIn(log, t, ns).realizedPnl \in Int /\ RowIn(log, t, ns).volume \in Int
    BY <2>1, KindTyped DEF RowIn
  <2>4. QED
    BY <2>2, <2>3
<1>3. Ranked(rows', seen, Ranking(rows', seen))
  <2>1. seen \subseteq Traders
    OBVIOUS
  <2> HIDE DEF seen
  <2>2. QED
    BY <1>2, <2>1, RankingExists
<1>4. Cardinality(seen) \in Nat
  BY BoardAssumption, FS_Subset, FS_CardinalityType
<1> HIDE DEF seen
<1>5. /\ DOMAIN board'.ranking = 1 .. Cardinality(seen)
      /\ board'.ranking \in [1 .. Cardinality(seen) -> seen]
  BY <1>1, <1>3 DEF Ranked
<1>6. Len(board'.ranking) = board'.traders
  BY <1>1, <1>4, <1>5
<1>7. \A i, j \in DOMAIN board'.ranking :
          i < j => /\ board'.ranking[i] # board'.ranking[j]
                   /\ ~Outranks(board'.rows, board'.ranking[j], board'.ranking[i])
  BY <1>1, <1>3, <1>5 DEF Ranked
<1>8. ReadOK(log, board'.span, [rows |-> board'.rows, stats |-> board'.stats])
  BY <1>1 DEF Sums
<1>9. board'.drained => board'.span.cursor >= board'.latest
  BY <1>1
<1>10. QED
  BY <1>6, <1>7, <1>8, <1>9 DEF SheetOK

---------------------------------------------------------------------------
(* Every action keeps the invariant.                                       *)

LEMMA BoardInitInv == BoardInit => BoardInv
<1> SUFFICES ASSUME BoardInit
             PROVE  BoardInv
  OBVIOUS
<1>1. log \in Seq(Entries) /\ log = <<>> /\ Len(log) = 0
  BY DEF BoardInit
<1>2. ReadOK(log, NoSpan, [rows |-> NoRows, stats |-> NoStats])
  BY <1>1, NothingRead
<1>3. ReadOK(log, span, Sums)
  BY <1>2 DEF BoardInit, Sums
<1>4. SheetOK(log, board)
  <2>1. board.span = NoSpan /\ board.rows = NoRows /\ board.stats = NoStats
    BY DEF BoardInit, NoBoard
  <2>2. board.ranking = <<>> /\ board.traders = 0 /\ ~board.drained
    BY DEF BoardInit, NoBoard
  <2>3. QED
    BY <1>2, <2>1, <2>2 DEF SheetOK
<1>5. latest \in 0 .. Len(log) /\ probes \in Seq(Nat) /\ stage = "idle"
  BY <1>1 DEF BoardInit
<1>6. QED
  BY <1>1, <1>3, <1>4, <1>5 DEF BoardInv

LEMMA EmitKeeps ==
    ASSUME BoardInv, Emit
    PROVE  BoardInv'
<1>1. PICK e \in Entries : log' = Append(log, e)
  BY DEF Emit, Entries
<1>2. UNCHANGED <<stage, latest, probes, span, rows, stats, board>>
  BY DEF Emit
<1>3. log \in Seq(Entries)
  BY DEF BoardInv
<1>4. log' \in Seq(Entries) /\ Len(log') = Len(log) + 1 /\ Len(log) \in Nat
  BY <1>1, <1>3
<1>5. ReadOK(log', span', Sums')
  <2>1. Sums' = Sums /\ span' = span
    BY <1>2 DEF Sums
  <2>2. ReadOK(log, span, Sums)
    BY DEF BoardInv
  <2>3. QED
    BY <1>1, <1>3, <2>1, <2>2, StaysRead
<1>6. SheetOK(log', board')
  <2>1. ReadOK(log, board.span, [rows |-> board.rows, stats |-> board.stats])
    BY DEF BoardInv, SheetOK
  <2>2. ReadOK(log', board.span, [rows |-> board.rows, stats |-> board.stats])
    BY <1>1, <1>3, <2>1, StaysRead
  <2>3. board' = board
    BY <1>2
  <2>4. QED
    BY <2>2, <2>3 DEF BoardInv, SheetOK
<1>7. latest' \in 0 .. Len(log')
  BY <1>2, <1>4 DEF BoardInv
<1>8. QED
  BY <1>2, <1>4, <1>5, <1>6, <1>7 DEF BoardInv

LEMMA FetchKeeps ==
    ASSUME BoardInv, Fetch
    PROVE  BoardInv'
<1>1. log' = log /\ board' = board /\ log \in Seq(Entries)
  BY DEF Fetch, BoardInv
<1>2. ReadOK(log', span', Sums')
  <2>1. span' = NoSpan /\ Sums' = [rows |-> NoRows, stats |-> NoStats]
    BY DEF Fetch, Sums
  <2>2. QED
    BY <1>1, <2>1, NothingRead
<1>3. SheetOK(log', board')
  BY <1>1 DEF BoardInv
<1>4. probes' \in Seq(Nat) /\ probes' # <<>>
  BY BoardAssumption DEF Fetch
<1>5. latest' \in 0 .. Len(log')
  BY <1>1 DEF Fetch
<1>6. stage' = "probe" /\ span' = NoSpan
  BY DEF Fetch
<1>7. QED
  BY <1>1, <1>2, <1>3, <1>4, <1>5, <1>6 DEF BoardInv

LEMMA FirstPageKeeps ==
    ASSUME BoardInv, stage = "probe", Served(StartLedger), FirstPage(PageFrom(StartLedger)),
           log' = log, latest' = latest
    PROVE  BoardInv'
<1> DEFINE n == StartLedger
           c == CursorAfter(PageFrom(n))
<1>1. log \in Seq(Entries) /\ latest \in 0 .. Len(log) /\ Len(log) \in Nat
  BY DEF BoardInv
<1>2. n \in Nat \ {0} /\ n <= Len(log)
  <2>1. probes \in Seq(Nat) /\ probes # <<>>
    BY DEF BoardInv
  <2>2. latest - Head(probes) \in Int
    BY <1>1, <2>1
  <2>3. n \in Nat \ {0}
    BY <2>2, GreatestOfTwo DEF StartLedger
  <2> HIDE DEF n
  <2>4. n \in OldestKept .. Len(log)
    BY DEF Served, n
  <2>5. QED
    BY <2>3, <2>4
<1> HIDE DEF n
<1>3. NoSpan.first = 0 /\ ReadOK(log, NoSpan, Sums)
  BY DEF BoardInv, NoSpan
<1>4. Ingest(PageFrom(n)) /\ span' = [first |-> n, cursor |-> c]
  BY DEF FirstPage, n
<1>5. /\ ReadOK(log, [first |-> n, cursor |-> c], Sums')
      /\ ~Full(PageFrom(n)) => c = Len(log)
  <2>1. n <= Len(log) + 1
    BY <1>1, <1>2
  <2>2. QED
    BY <1>1, <1>2, <1>3, <1>4, <2>1, PageRead
<1> HIDE DEF c
<1>6. ReadOK(log, span', Sums')
  BY <1>4, <1>5
<1>7. span'.first = n /\ span'.cursor = c
  BY <1>4
<1>8. SheetOK(log, board') /\ stage' # "probe"
  <2>1. CASE Full(PageFrom(n))
    <3>1. board' = board /\ stage' = "page"
      BY <2>1 DEF FirstPage, n
    <3>2. QED
      BY <3>1 DEF BoardInv
  <2>2. CASE ~Full(PageFrom(n))
    <3>1. Publish(span', TRUE)
      BY <2>2 DEF FirstPage, n
    <3>2. span'.cursor >= latest
      BY <1>1, <1>5, <1>7, <2>2
    <3>3. SheetOK(log, board')
      BY <1>1, <1>6, <3>1, <3>2, PublishedRight
    <3>4. QED
      BY <3>1, <3>3 DEF Publish
  <2>3. QED
    BY <2>1, <2>2
<1>9. probes' \in Seq(Nat)
  BY DEF FirstPage
<1>10. span'.first # 0
  BY <1>2, <1>7
<1>11. QED
  BY <1>1, <1>6, <1>8, <1>9, <1>10 DEF BoardInv

LEMMA NextWindowKeeps ==
    ASSUME BoardInv, stage = "probe", NextWindow, log' = log, latest' = latest
    PROVE  BoardInv'
<1>1. log \in Seq(Entries) /\ latest \in 0 .. Len(log) /\ probes \in Seq(Nat) /\ probes # <<>>
  BY DEF BoardInv
<1>2. span' = span /\ Sums' = Sums /\ span = NoSpan
  BY DEF NextWindow, Sums, BoardInv
<1>3. ReadOK(log, span', Sums') /\ ReadOK(log, span, Sums')
  BY <1>2 DEF BoardInv
<1>4. probes' = Tail(probes) /\ probes' \in Seq(Nat)
  BY <1>1 DEF NextWindow
<1>5. CASE Tail(probes) = <<>>
  <2>1. Publish(span, FALSE)
    BY <1>5 DEF NextWindow
  <2>2. SheetOK(log, board')
    BY <1>1, <1>3, <2>1, PublishedRight
  <2>3. stage' = "idle"
    BY <2>1 DEF Publish
  <2>4. QED
    BY <1>1, <1>3, <1>4, <2>2, <2>3 DEF BoardInv
<1>6. CASE Tail(probes) # <<>>
  <2>1. stage' = stage /\ board' = board
    BY <1>6 DEF NextWindow
  <2>2. SheetOK(log, board')
    BY <2>1 DEF BoardInv
  <2>3. QED
    BY <1>1, <1>2, <1>3, <1>4, <1>6, <2>1, <2>2 DEF BoardInv
<1>7. QED
  BY <1>5, <1>6

LEMMA NextPageKeeps ==
    ASSUME BoardInv, NextPage
    PROVE  BoardInv'
<1> DEFINE n == span.cursor + 1
           c == CursorAfter(PageFrom(n))
<1>1. /\ log \in Seq(Entries) /\ latest \in 0 .. Len(log) /\ Len(log) \in Nat
      /\ probes \in Seq(Nat)
  BY DEF BoardInv
<1>2. stage = "page" /\ span.first # 0
  BY DEF NextPage, BoardInv
<1>3. ReadOK(log, span, Sums)
  BY DEF BoardInv
<1>4. span \in [first : Nat, cursor : 0 .. Len(log)]
  BY <1>3 DEF ReadOK, SpanOK
<1>5. n \in Nat \ {0} /\ n <= Len(log) + 1
  BY <1>1, <1>4
<1>6. Ingest(PageFrom(n)) /\ span' = [span EXCEPT !.cursor = c]
  BY DEF NextPage
<1>7. span' = [first |-> span.first, cursor |-> c]
  BY <1>4, <1>6
<1>8. /\ ReadOK(log, [first |-> span.first, cursor |-> c], Sums')
      /\ ~Full(PageFrom(n)) => c = Len(log)
  <2> HIDE DEF c
  <2>1. LET d == CursorAfter(PageFrom(n))
        IN  /\ ReadOK(log, [first |-> IF span.first = 0 THEN n ELSE span.first, cursor |-> d], Sums')
            /\ ~Full(PageFrom(n)) => d = Len(log)
    BY <1>1, <1>3, <1>5, <1>6, PageRead
  <2>2. QED
    BY <1>2, <2>1 DEF c
<1>9. log' = log /\ latest' = latest /\ probes' = probes
  BY DEF NextPage
<1>10. \/ ~Full(PageFrom(n)) /\ Publish(span', TRUE)
       \/ Publish(span', FALSE)
       \/ stage' = stage /\ board' = board
  BY DEF NextPage
<1> HIDE DEF n, c
<1>11. ReadOK(log, span', Sums')
  BY <1>7, <1>8
<1>12. span'.first # 0 /\ span'.cursor = c
  BY <1>2, <1>7
<1>13. SheetOK(log, board') /\ stage' # "probe"
  <2>1. CASE ~Full(PageFrom(n)) /\ Publish(span', TRUE)
    <3>1. span'.cursor >= latest
      BY <1>1, <1>8, <1>12, <2>1
    <3>2. SheetOK(log, board')
      BY <1>1, <1>11, <2>1, <3>1, PublishedRight
    <3>3. QED
      BY <2>1, <3>2 DEF Publish
  <2>2. CASE Publish(span', FALSE)
    <3>1. SheetOK(log, board')
      BY <1>1, <1>11, <2>2, PublishedRight
    <3>2. QED
      BY <2>2, <3>1 DEF Publish
  <2>3. CASE stage' = stage /\ board' = board
    BY <1>2, <2>3 DEF BoardInv
  <2>4. QED
    BY <1>10, <2>1, <2>2, <2>3
<1>14. QED
  BY <1>1, <1>9, <1>11, <1>12, <1>13 DEF BoardInv

LEMMA PageFailsKeeps ==
    ASSUME BoardInv, PageFails
    PROVE  BoardInv'
<1>1. log \in Seq(Entries) /\ latest \in 0 .. Len(log) /\ probes \in Seq(Nat)
  BY DEF BoardInv
<1>2. /\ log' = log /\ latest' = latest /\ probes' = probes
      /\ span' = span /\ Sums' = Sums
  BY DEF PageFails, Sums
<1>3. ReadOK(log, span', Sums') /\ ReadOK(log, span, Sums')
  BY <1>2 DEF BoardInv
<1>4. Publish(span, FALSE)
  BY DEF PageFails
<1>5. SheetOK(log, board')
  BY <1>1, <1>3, <1>4, PublishedRight
<1>6. stage' = "idle"
  BY <1>4 DEF Publish
<1>7. QED
  BY <1>1, <1>2, <1>3, <1>5, <1>6 DEF BoardInv

LEMMA BoardInvInductive == BoardInv /\ [BoardNext]_boardVars => BoardInv'
<1> SUFFICES ASSUME BoardInv, [BoardNext]_boardVars
             PROVE  BoardInv'
  OBVIOUS
<1>1. CASE Emit
  BY <1>1, EmitKeeps
<1>2. CASE Fetch
  BY <1>2, FetchKeeps
<1>3. CASE Probe
  <2>1. stage = "probe" /\ log' = log /\ latest' = latest
    BY <1>3 DEF Probe
  <2>2. \/ Served(StartLedger) /\ FirstPage(PageFrom(StartLedger))
        \/ NextWindow
    BY <1>3 DEF Probe
  <2>3. QED
    BY <2>1, <2>2, FirstPageKeeps, NextWindowKeeps
<1>4. CASE NextPage
  BY <1>4, NextPageKeeps
<1>5. CASE PageFails
  BY <1>5, PageFailsKeeps
<1>6. CASE UNCHANGED boardVars
  <2>1. /\ log' = log /\ latest' = latest /\ probes' = probes /\ stage' = stage
        /\ span' = span /\ board' = board /\ Sums' = Sums
    BY <1>6 DEF boardVars, Sums
  <2>2. QED
    BY <2>1 DEF BoardInv
<1>7. QED
  BY <1>1, <1>2, <1>3, <1>4, <1>5, <1>6 DEF BoardNext

LEMMA BoardInvCounts == BoardInv => BoardCountsOnce
<1> SUFFICES ASSUME BoardInv
             PROVE  BoardCountsOnce
  OBVIOUS
<1> DEFINE ns == TradesIn(board.span)
<1>1. ns = TradesAt(log, board.span)
  BY DEF TradesIn, TradesAt, IsTrade, TradeAt
<1>2. SheetOK(log, board)
  BY DEF BoardInv
<1> HIDE DEF ns
<1>3. \A S : TotalOf(S) = SumOf(log, S)
  BY DEF TotalOf, SumOf
<1>4. \A name, who : Kind(name, who, ns) = KindIn(log, name, who, ns)
  BY DEF Kind, KindIn
<1>5. \A t : RowOf(t, ns) = RowIn(log, t, ns)
  BY <1>3, <1>4 DEF RowOf, RowIn
<1>6. StatsOf(ns) = StatsIn(log, ns)
  BY <1>3, <1>4 DEF StatsOf, StatsIn
<1>7. /\ board.rows = [t \in Traders |-> RowIn(log, t, ns)]
      /\ board.stats = StatsIn(log, ns)
  BY <1>1, <1>2 DEF SheetOK, ReadOK, CountedTo
<1>8. board.rows = [t \in Traders |-> RowOf(t, ns)]
  BY <1>5, <1>7
<1>9. QED
  BY <1>2, <1>6, <1>7, <1>8 DEF SheetOK, BoardCountsOnce, ns

\* What fetchLeaderboard returns counts every trade of one contiguous range of
\* ledgers exactly once, in the rows and in the totals, whatever the page size,
\* the number of traders, the events appended and forgotten while it reads and
\* the requests that fail; its ranking is complete and in order; and a fetch that
\* drained the pages went at least to the ledger that was latest at its start.
THEOREM BoardIsExact == BoardSpec => []BoardCountsOnce
<1>1. BoardInit => BoardInv
  BY BoardInitInv
<1>2. BoardInv /\ [BoardNext]_boardVars => BoardInv'
  BY BoardInvInductive
<1>3. BoardInv => BoardCountsOnce
  BY BoardInvCounts
<1>4. QED
  BY <1>1, <1>2, <1>3, PTL DEF BoardSpec

=============================================================================
