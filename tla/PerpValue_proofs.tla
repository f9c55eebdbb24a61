-------------------------- MODULE PerpValue_proofs --------------------------
(***************************************************************************)
(* What a step of the engine does to the value of a position and to what   *)
(* the LPs are owed while the market stands still, for every configuration *)
(* and every amount.  The state of the books comes from the invariant of   *)
(* PerpEngine_proofs, the rounding from the lemmas of HelixShared_proofs   *)
(* on partial closes.  Then the reported liquidation price, and that every *)
(* step books traders and LPs the way Custody allows.                      *)
(***************************************************************************)
EXTENDS PerpEngine_proofs

\* A larger amount has the larger quotient.
LEMMA QuotientMonotone ==
    ASSUME NEW a \in Nat, NEW b \in Nat, a <= b, NEW d \in Nat \ {0}
    PROVE  a \div d <= b \div d
<1> DEFINE x == a \div d
           y == b \div d
<1>1. x \in Nat /\ d * x <= a /\ y \in Nat /\ b < d * y + d
  BY QuotientBounds
<1> HIDE DEF x, y
<1>2. d * (y + 1) = d * y + d /\ d * x \in Nat /\ d * y \in Nat
  BY <1>1
<1>3. d * x < d * (y + 1)
  BY <1>1, <1>2
<1>4. x < y + 1
  BY <1>1, <1>3, CancelFactor
<1>5. QED
  BY <1>1, <1>4 DEF x, y

\* While the market stands still a record is worth what it was, whatever else changes.
LEMMA ValueStill ==
    ASSUME MarketStill, NEW id, NEW p, positions'[id] = p
    PROVE  /\ Equity(positions[id])' = Equity(p)
           /\ Maintenance(positions[id])' = Maintenance(p)
           /\ Valued(positions[id])' <=> Valued(p)
<1>1. markets' = markets /\ price' = price /\ cumFunding' = cumFunding
  BY DEF MarketStill
<1>2. Equity(positions[id])' = Equity(p)
  BY <1>1 DEF Equity, Pnl, FundingOwed, Mark, Feed
<1>3. Maintenance(positions[id])' = Maintenance(p)
  BY <1>1 DEF Maintenance
<1>4. Valued(positions[id])' <=> Valued(p)
  BY <1>1 DEF Valued, Priced, HasMarket, Feed
<1>5. QED
  BY <1>2, <1>3, <1>4

\* A position that was just charged owes no funding.
LEMMA NothingOwed ==
    ASSUME MarketBook, NEW p \in Position, p.entry_funding = cumFunding[p.market]
    PROVE  FundingOwed(p) = 0
<1> DEFINE owed == MulDiv(p.notional, cumFunding[p.market] - p.entry_funding, FUNDING_SCALE)
           paid == -owed
<1>1. /\ p.market \in MarketIds /\ p.notional \in Nat /\ cumFunding[p.market] \in Int
  BY DEF Position, MarketBook, FeedTypeOK
<1>2. MulDiv(p.notional, 0, FUNDING_SCALE) = 0
  BY <1>1, ScaleAssumption DEF MulDiv, TDiv
<1>3. cumFunding[p.market] - p.entry_funding = 0
  BY <1>1
<1>4. owed = 0
  BY <1>2, <1>3
<1>5. owed \in Int
  BY <1>4
<1>6. FundingOwed(p) = IF p.side = Long THEN owed ELSE paid
  BY DEF FundingOwed, FundingPayment
<1>7. paid + owed = 0 /\ paid \in Int
  <2> HIDE DEF owed
  <2> QED
    BY <1>5
<1> HIDE DEF owed, paid
<1>8. paid = 0
  BY <1>4, <1>7
<1>9. QED
  BY <1>4, <1>6, <1>8

\* A position that was created at the mark is worth its margin.
LEMMA BornAtPar ==
    ASSUME MarketBook, NEW p \in Position, Valued(p),
           p.entry_price = Mark(p.market), p.entry_funding = cumFunding[p.market]
    PROVE  Equity(p) = p.margin
<1>1. /\ p.notional \in Nat /\ p.margin \in Nat /\ p.entry_price \in Nat \ {0}
  BY DEF Position, Valued
<1>2. MulDiv(p.notional, 0, p.entry_price) = 0
  BY <1>1 DEF MulDiv, TDiv
<1>3. Pnl(p, p.notional) = 0
  <2>1. p.entry_price - p.entry_price = 0
    BY <1>1
  <2>2. QED
    BY <1>2, <2>1 DEF Pnl, PositionPnl
<1>4. FundingOwed(p) = 0
  BY NothingOwed
<1>5. QED
  BY <1>1, <1>3, <1>4 DEF Equity

\* The initial margin covers the maintenance margin in every listed market.
LEMMA InitialCoversMaintenance ==
    ASSUME MarketBook, NEW p \in Position, HasMarket(p.market),
           InitialMarginOk(p.market, p.margin, p.notional)
    PROVE  p.margin >= Maintenance(p) /\ Maintenance(p) \in Nat
<1> DEFINE cfg == markets[p.market]
           n == p.notional
<1>1. p.market \in MarketIds /\ n \in Nat /\ p.margin \in Nat
  BY DEF Position
<1>2. cfg \in MarketConfig /\ Validate(cfg)
  BY <1>1 DEF MarketBook, RegistryTypeOK, RegistryConsistent, HasMarket
<1>3. cfg.mmr_bps \in Nat /\ cfg.imr_bps \in Nat /\ cfg.mmr_bps <= cfg.imr_bps
  BY <1>2 DEF MarketConfig, Validate
<1>4. /\ n * cfg.mmr_bps \in Nat /\ n * cfg.imr_bps \in Nat
      /\ n * cfg.mmr_bps <= n * cfg.imr_bps
  BY <1>1, <1>3, ProductMonotone
<1>5. (n * cfg.mmr_bps) \div BPS_DENOM <= (n * cfg.imr_bps) \div BPS_DENOM
  BY <1>4, ScaleAssumption, QuotientMonotone
<1>6. \A bps \in Nat : ApplyBps(n, bps) \in Nat /\ ApplyBps(n, bps) = (n * bps) \div BPS_DENOM
  <2> TAKE bps \in Nat
  <2>1. n \in Int /\ bps \in Int /\ BPS_DENOM \in Nat \ {0}
    BY <1>1, ScaleAssumption
  <2>2. MulDiv(n, bps, BPS_DENOM) \in Nat /\ MulDiv(n, bps, BPS_DENOM) = (n * bps) \div BPS_DENOM
    BY <1>1, <2>1, MulDivType
  <2>3. QED
    BY <2>2 DEF ApplyBps
<1>7. p.margin >= ApplyBps(n, cfg.imr_bps)
  BY DEF InitialMarginOk
<1>8. QED
  BY <1>1, <1>3, <1>5, <1>6, <1>7 DEF Maintenance

-----------------------------------------------------------------------------
(* Health.                                                                 *)

\* What HealthOnlyLostToMarket asks of one position.
HealthKept(i) ==
    Open(i)' /\ (Open(i) => Healthy(i)) =>
        IF Shrank(i) THEN HealthyWithin(1, i)' ELSE Healthy(i)'

AllHealthKept == \A i \in PositionIds : HealthKept(i)

\* An open position has a record.
LEMMA OpenRecord ==
    ASSUME EngineInv, NEW i \in PositionIds, Open(i)
    PROVE  /\ positions[i] \in Position
           /\ positions[i].notional \in Nat \ {0} /\ positions[i].margin \in Nat \ {0}
           /\ positions[i].market \in MarketIds /\ positions[i].side \in Sides
           /\ positions[i].owner \in Users /\ i < nextId
  BY DEF EngineInv, PositionBook, PositionTypeOK, LivePositions, Open, Position

\* A position that a step does not write keeps its health.
LEMMA HealthSame ==
    ASSUME EngineInv, MarketStill, NEW i \in PositionIds, positions'[i] = positions[i]
    PROVE  HealthKept(i)
<1> SUFFICES ASSUME Open(i)', Open(i) => Healthy(i)
             PROVE  ~Shrank(i) /\ Healthy(i)'
  BY DEF HealthKept
<1> DEFINE p == positions[i]
<1>1. Open(i) /\ p.notional \in Nat
  BY OpenRecord DEF Open
<1>2. ~Shrank(i)
  BY <1>1 DEF Shrank
<1>3. /\ Equity(positions[i])' = Equity(p) /\ Maintenance(positions[i])' = Maintenance(p)
      /\ Valued(positions[i])' <=> Valued(p)
  BY ValueStill
<1>4. Healthy(i)'
  BY <1>1, <1>3 DEF Healthy, HealthyWithin
<1>5. QED
  BY <1>2, <1>4

\* A position that is removed has no health to lose.
LEMMA HealthRemoved ==
    ASSUME EngineInv, MarketStill, NEW id \in PositionIds, RemovePosition(id)
    PROVE  AllHealthKept
<1> SUFFICES ASSUME NEW i \in PositionIds PROVE HealthKept(i)
  BY DEF AllHealthKept
<1>1. /\ positions \in [PositionIds -> Position \cup {NoPosition}]
      /\ positions' = [positions EXCEPT ![id] = NoPosition]
  BY DEF RemovePosition, EngineInv, PositionBook, PositionTypeOK
<1>2. CASE i = id
  BY <1>1, <1>2 DEF HealthKept, Open
<1>3. CASE i # id
  BY <1>1, <1>3, HealthSame
<1>4. QED
  BY <1>2, <1>3

\* A record that is written must be healthy, to a unit if it got smaller.
LEMMA HealthStored ==
    ASSUME EngineInv, MarketStill, NEW id \in PositionIds, NEW p \in Position,
           positions' = [positions EXCEPT ![id] = p],
           Valued(p) /\ (Open(id) => Healthy(id)) =>
               Equity(p) + (IF Open(id) /\ p.notional < positions[id].notional THEN 1 ELSE 0)
                 >= Maintenance(p)
    PROVE  AllHealthKept
<1> SUFFICES ASSUME NEW i \in PositionIds PROVE HealthKept(i)
  BY DEF AllHealthKept
<1>1. positions \in [PositionIds -> Position \cup {NoPosition}]
  BY DEF EngineInv, PositionBook, PositionTypeOK
<1>2. CASE i # id
  BY <1>1, <1>2, HealthSame
<1>3. CASE i = id
  <2> SUFFICES ASSUME Open(id)', Open(id) => Healthy(id)
               PROVE  IF Shrank(id) THEN HealthyWithin(1, id)' ELSE Healthy(id)'
    BY <1>3 DEF HealthKept
  <2>1. positions'[id] = p
    BY <1>1
  <2>2. /\ Equity(positions[id])' = Equity(p) /\ Maintenance(positions[id])' = Maintenance(p)
        /\ Valued(positions[id])' <=> Valued(p)
    BY <2>1, ValueStill
  <2>3. Shrank(id) <=> Open(id) /\ p.notional < positions[id].notional
    BY <2>1 DEF Shrank
  <2>4. CASE Valued(p)
    BY <2>2, <2>3, <2>4 DEF Healthy, HealthyWithin
  <2>5. CASE ~Valued(p)
    BY <2>2, <2>5 DEF Healthy, HealthyWithin
  <2>6. QED
    BY <2>4, <2>5
<1>4. QED
  BY <1>2, <1>3

\* A position is born healthy, by an open or by a fill.
LEMMA HealthCreated ==
    ASSUME EngineInv, MarketStill, NEW t \in Users, NEW m \in MarketIds, NEW s \in Sides,
           NEW c \in Nat \ {0}, NEW n \in Nat \ {0}, Mark(m) \in Nat, HasMarket(m),
           InitialMarginOk(m, c, n), CreatePosition(t, m, s, c, n)
    PROVE  AllHealthKept
<1> DEFINE p == [owner |-> t, market |-> m, side |-> s, margin |-> c, notional |-> n,
                 entry_price |-> Mark(m), entry_funding |-> cumFunding[m]]
<1>1. /\ positions' = [positions EXCEPT ![nextId] = p] /\ nextId < MaxPositions
      /\ MarketBook
  BY DEF CreatePosition, EngineInv
<1>2. p \in Position
  BY DEF Position, EngineInv, MarketBook, FeedTypeOK
<1>3. /\ p.margin = c /\ p.notional = n /\ p.market = m
      /\ p.entry_price = Mark(p.market) /\ p.entry_funding = cumFunding[p.market]
  OBVIOUS
<1> HIDE DEF p
<1>4. nextId \in PositionIds /\ ~Open(nextId)
  BY <1>1, EngineAssumption
     DEF PositionIds, EngineInv, PositionBook, PositionTypeOK, LivePositions
<1>5. p.margin >= Maintenance(p) /\ Maintenance(p) \in Nat
  BY <1>1, <1>2, <1>3, InitialCoversMaintenance
<1>6. Valued(p) => Equity(p) = p.margin
  BY <1>1, <1>2, <1>3, BornAtPar
<1>7. Valued(p) => Equity(p) + 0 >= Maintenance(p)
  BY <1>3, <1>5, <1>6
<1>8. QED
  BY <1>1, <1>2, <1>4, <1>7, HealthStored

-----------------------------------------------------------------------------
(* The calls that rewrite a position.                                      *)

\* The price change in favour of a position since its entry.
Gain(p) ==
    IF p.side = Long THEN Mark(p.market) - p.entry_price ELSE p.entry_price - Mark(p.market)

\* The profit of a position, and of any part of it, is its size at that gain.
LEMMA ProfitOfGain ==
    ASSUME MarketBook, NEW p \in Position, Valued(p)
    PROVE  /\ p.entry_price \in Nat \ {0} /\ Gain(p) \in Int
           /\ \A n : Pnl(p, n) = MulDiv(n, Gain(p), p.entry_price)
<1>1. p.entry_price \in Nat \ {0}
  BY DEF Position, Valued
<1>2. Mark(p.market) \in Nat
  BY ValueTypes, ConfigTypes DEF Valued, Priced
<1>3. Gain(p) \in Int
  BY <1>1, <1>2 DEF Gain
<1>4. QED
  BY <1>1, <1>3 DEF Pnl, PositionPnl, Gain

\* What decrease makes of position id when it closes n of it: the margin g that is
\* left once the funding is realised is split, the record keeps its entry price.
PartClosed(id, n, g, closed, new) ==
    LET p == positions[id]
        rest == p.notional - n
    IN  /\ Open(id) /\ Valued(p) /\ n \in Nat \ {0} /\ n < p.notional
        /\ closed = (g * n) \div p.notional /\ closed <= g
        /\ g = p.margin - FundingOwed(p)
        /\ positions' = [positions EXCEPT ![id] = new]
        /\ new.notional = rest /\ new.market = p.market
        /\ Valued(new)
        /\ Equity(p) = g + MulDiv(p.notional, Gain(p), p.entry_price)
        /\ Equity(new) = (g - closed) + MulDiv(rest, Gain(p), p.entry_price)
        /\ pools' = MovedPools(Realized(pools, FundingOwed(p)), closed,
                               PartialPayout(p, closed, n))

LEMMA DecreaseFacts ==
    ASSUME EngineInv, NEW t \in Users, NEW id \in PositionIds,
           NEW n \in Int, NEW r, NEW x, Decrease(t, id, n, r, x)
    PROVE  \E g \in Nat, closed \in Nat, new \in Position : PartClosed(id, n, g, closed, new)
<1> DEFINE p == positions[id]
           m == p.market
           funding == FundingOwed(p)
           g == p.margin - funding
           closed == MulDiv(g, n, p.notional)
           rest == p.notional - n
           left == g - closed
           new == [p EXCEPT !.notional = rest, !.margin = left, !.entry_funding = cumFunding[m]]
<1>1. /\ Open(id) /\ n > 0 /\ n < p.notional /\ Valued(p) /\ funding < p.margin
      /\ pools' = MovedPools(Realized(pools, funding), closed, PartialPayout(p, closed, n))
      /\ positions' = [positions EXCEPT ![id] =
             [p EXCEPT !.notional = @ - n, !.margin = g - closed, !.entry_funding = cumFunding[m]]]
  BY DEF Decrease, Owned, FundingCovered, StorePosition
<1>2. p \in Position /\ p.notional \in Nat \ {0} /\ p.margin \in Nat /\ m \in MarketIds /\ MarketBook
  BY <1>1, OpenRecord DEF EngineInv
<1>3. funding \in Int /\ n \in Nat \ {0}
  BY <1>1, <1>2, FundingTypes
<1>4. g \in Nat
  BY <1>1, <1>2, <1>3
<1>5. closed = (g * n) \div p.notional
  <2> HIDE DEF g
  <2>1. g \in Int /\ n \in Int /\ n \in Nat
    BY <1>3, <1>4
  <2>2. QED
    BY <1>2, <1>4, <2>1, MulDivType
<1>6. closed \in Nat /\ closed <= g
  <2> HIDE DEF g, closed, p
  <2> QED
    BY <1>1, <1>2, <1>3, <1>4, <1>5, RestOfAmount
<1>7. left \in Nat /\ rest \in Nat /\ cumFunding[m] \in Int
  <2>1. cumFunding[m] \in Int
    BY <1>2 DEF MarketBook, FeedTypeOK
  <2> HIDE DEF g, closed, p
  <2> QED
    BY <1>1, <1>2, <1>3, <1>4, <1>6, <2>1
<1>8. positions' = [positions EXCEPT ![id] = new]
  BY <1>1
<1>9. /\ new \in Position /\ new.notional = rest /\ new.margin = left /\ new.market = m
      /\ new.side = p.side /\ new.entry_price = p.entry_price
      /\ new.entry_funding = cumFunding[new.market]
  <2>1. new = [p EXCEPT !.notional = rest, !.margin = left, !.entry_funding = cumFunding[m]]
    OBVIOUS
  <2> HIDE DEF p, left, rest, new
  <2> QED
    BY <1>2, <1>7, <2>1 DEF Position, m
<1> HIDE DEF new
<1>10. Valued(new)
  BY <1>1, <1>9 DEF Valued
<1>11. FundingOwed(new) = 0
  BY <1>2, <1>9, NothingOwed
<1>12. Gain(new) = Gain(p)
  BY <1>9 DEF Gain
<1>13. Pnl(new, rest) = MulDiv(rest, Gain(p), p.entry_price)
  BY <1>2, <1>9, <1>10, <1>12, ProfitOfGain
<1>14. Pnl(p, p.notional) = MulDiv(p.notional, Gain(p), p.entry_price)
  BY <1>1, <1>2, ProfitOfGain
<1>15. Pnl(new, rest) \in Int /\ Pnl(p, p.notional) \in Int
  <2>1. rest \in Int /\ p.notional \in Int
    BY <1>2, <1>7
  <2>2. QED
    BY <1>1, <1>2, <1>9, <1>10, <2>1, ValueTypes
<1>16. Equity(new) = left + MulDiv(rest, Gain(p), p.entry_price)
  <2>1. Equity(new) = left + Pnl(new, rest) - 0
    BY <1>9, <1>11 DEF Equity
  <2> HIDE DEF left, rest
  <2>2. QED
    BY <1>7, <1>13, <1>15, <2>1
<1>17. Equity(p) = g + MulDiv(p.notional, Gain(p), p.entry_price)
  <2>1. Equity(p) = p.margin + Pnl(p, p.notional) - funding
    BY DEF Equity
  <2> HIDE DEF funding, p
  <2>2. QED
    BY <1>2, <1>3, <1>14, <1>15, <2>1
<1>18. QED
  <2> HIDE DEF g, closed
  <2>1. g = p.margin - FundingOwed(p)
    BY DEF g
  <2>2. QED
    BY <1>1, <1>3, <1>4, <1>5, <1>6, <1>8, <1>9, <1>10, <1>16, <1>17, <2>1 DEF PartClosed

\* Margin that is added or taken changes the value of a position by as much.
LEMMA MarginChanged ==
    ASSUME MarketBook, NEW p \in Position, Valued(p), NEW q \in Nat,
           NEW new, new = [p EXCEPT !.margin = q]
    PROVE  /\ new \in Position /\ Valued(new) /\ new.notional = p.notional
           /\ Equity(p) \in Int /\ Equity(new) = Equity(p) + (q - p.margin)
           /\ Maintenance(new) = Maintenance(p)
<1>1. /\ new \in Position /\ new.notional = p.notional /\ new.margin = q
      /\ new.market = p.market /\ new.side = p.side /\ new.entry_price = p.entry_price
      /\ new.entry_funding = p.entry_funding
  BY DEF Position
<1>2. Valued(new) /\ Maintenance(new) = Maintenance(p)
  BY <1>1 DEF Valued, Maintenance
<1>3. /\ FundingOwed(new) = FundingOwed(p)
      /\ Pnl(new, new.notional) = Pnl(p, p.notional)
  BY <1>1 DEF FundingOwed, Pnl
<1>4. p.margin \in Nat /\ p.notional \in Int
  BY DEF Position
<1>5. FundingOwed(p) \in Int /\ Pnl(p, p.notional) \in Int /\ Equity(p) \in Int
  BY <1>4, FundingTypes, ValueTypes
<1>6. Equity(new) = Equity(p) + (q - p.margin)
  BY <1>1, <1>3, <1>4, <1>5 DEF Equity
<1>7. QED
  BY <1>1, <1>2, <1>5, <1>6

\* The maintenance margin is a truncated share of the size.
LEMMA MaintenanceOf ==
    ASSUME MarketBook, NEW p \in Position, HasMarket(p.market)
    PROVE  /\ markets[p.market].mmr_bps \in Nat /\ Maintenance(p) \in Nat
           /\ Maintenance(p) = (p.notional * markets[p.market].mmr_bps) \div BPS_DENOM
<1>1. p.market \in MarketIds /\ p.notional \in Nat
  BY DEF Position
<1>2. markets[p.market].mmr_bps \in Nat
  BY <1>1, ConfigTypes DEF MarketConfig
<1>3. Maintenance(p) = MulDiv(p.notional, markets[p.market].mmr_bps, BPS_DENOM)
  BY DEF Maintenance, ApplyBps
<1>4. p.notional \in Int /\ markets[p.market].mmr_bps \in Int /\ BPS_DENOM \in Nat \ {0}
  BY <1>1, <1>2, ScaleAssumption
<1>5. QED
  BY <1>1, <1>2, <1>3, <1>4, MulDivType

\* add_margin only raises the value of the position.
LEMMA AddMarginHealth ==
    ASSUME EngineInv, MarketStill, NEW t \in Users, NEW id \in PositionIds,
           NEW a \in Int, AddPositionMargin(t, id, a)
    PROVE  AllHealthKept
<1> DEFINE p == positions[id]
           q == p.margin + a
           new == [p EXCEPT !.margin = q]
<1>1. Open(id) /\ a > 0 /\ positions' = [positions EXCEPT ![id] = new]
  BY DEF AddPositionMargin, Owned, AddMargin, CanAddMargin, StorePosition
<1>2. p \in Position /\ p.margin \in Nat /\ MarketBook
  BY <1>1, OpenRecord DEF EngineInv
<1>3. q \in Nat /\ q - p.margin = a /\ new = [p EXCEPT !.margin = q]
  BY <1>1, <1>2
<1> HIDE DEF q, new
<1>4. new \in Position /\ new.market = p.market /\ new.entry_price = p.entry_price
      /\ new.notional = p.notional
  BY <1>2, <1>3 DEF Position
<1>5. ASSUME Valued(new), Healthy(id) PROVE Equity(new) + 0 >= Maintenance(new)
  <2>1. Valued(p)
    BY <1>4, <1>5 DEF Valued
  <2>2. /\ Equity(p) \in Int /\ Equity(new) = Equity(p) + a
        /\ Maintenance(new) = Maintenance(p)
    BY <1>2, <1>3, <2>1, MarginChanged
  <2>3. Equity(p) + 0 >= Maintenance(p)
    BY <1>5, <2>1 DEF Healthy, HealthyWithin
  <2>4. Maintenance(p) \in Nat
    BY <1>2, <2>1, ValueTypes, MaintenanceOf
  <2>5. QED
    BY <1>1, <2>2, <2>3, <2>4
<1>6. ~(new.notional < p.notional)
  BY <1>1, <1>4, OpenRecord
<1>7. QED
  BY <1>1, <1>4, <1>5, <1>6, HealthStored

\* remove_margin checks the value that is left.
LEMMA RemoveMarginHealth ==
    ASSUME EngineInv, MarketStill, NEW t \in Users, NEW id \in PositionIds,
           NEW a \in Int, RemovePositionMargin(t, id, a)
    PROVE  AllHealthKept
<1> DEFINE p == positions[id]
           q == p.margin - a
           new == [p EXCEPT !.margin = q]
<1>1. /\ Open(id) /\ a > 0 /\ Valued(p)
      /\ positions' = [positions EXCEPT ![id] = new]
      /\ new.margin > 0 /\ Equity(new) >= Maintenance(p)
  BY DEF RemovePositionMargin, CanWithdraw, Withdrawn, Owned, WithdrawalOk, StorePosition
<1>2. p \in Position /\ p.margin \in Nat /\ MarketBook
  BY <1>1, OpenRecord DEF EngineInv
<1>3. q \in Nat /\ new = [p EXCEPT !.margin = q]
  <2>1. new.margin = q
    BY <1>2 DEF Position
  <2>2. QED
    BY <1>1, <1>2, <2>1
<1> HIDE DEF q, new
<1>4. /\ new \in Position /\ new.notional = p.notional
      /\ Equity(p) \in Int /\ Equity(new) = Equity(p) + (q - p.margin)
      /\ Maintenance(new) = Maintenance(p)
  BY <1>1, <1>2, <1>3, MarginChanged
<1>5. Equity(new) + 0 >= Maintenance(new)
  <2>1. Equity(new) \in Int
    BY <1>2, <1>3, <1>4
  <2>2. QED
    BY <1>1, <1>4, <2>1
<1>6. ~(new.notional < p.notional)
  BY <1>1, <1>4, OpenRecord
<1>7. QED
  BY <1>1, <1>4, <1>5, <1>6, HealthStored

\* decrease divides the margin and the profit separately: one unit at most.
LEMMA DecreaseHealth ==
    ASSUME EngineInv, MarketStill, NEW t \in Users, NEW id \in PositionIds,
           NEW n \in Int, NEW r, NEW x, Decrease(t, id, n, r, x)
    PROVE  AllHealthKept
<1> DEFINE p == positions[id]
           mmr == markets[p.market].mmr_bps
           rest == p.notional - n
<1>1. PICK g \in Nat, closed \in Nat, new \in Position : PartClosed(id, n, g, closed, new)
  BY DecreaseFacts
<1>2. /\ Open(id) /\ Valued(p) /\ n \in Nat \ {0} /\ n < p.notional
      /\ closed = (g * n) \div p.notional
      /\ positions' = [positions EXCEPT ![id] = new]
      /\ new.notional = rest /\ new.market = p.market /\ Valued(new)
      /\ Equity(p) = g + MulDiv(p.notional, Gain(p), p.entry_price)
      /\ Equity(new) = (g - closed) + MulDiv(rest, Gain(p), p.entry_price)
  BY <1>1 DEF PartClosed
<1>3. p \in Position /\ p.notional \in Nat \ {0} /\ MarketBook
  BY <1>2, OpenRecord DEF EngineInv
<1>4. p.entry_price \in Nat \ {0} /\ Gain(p) \in Int /\ HasMarket(p.market)
  BY <1>2, <1>3, ProfitOfGain, ValueTypes
<1>5. mmr \in Nat /\ Maintenance(p) = (p.notional * mmr) \div BPS_DENOM
  BY <1>3, <1>4, MaintenanceOf
<1>6. Maintenance(new) = (rest * mmr) \div BPS_DENOM
  BY <1>2, <1>3, <1>4, MaintenanceOf
<1>7. Equity(p) \in Int /\ Maintenance(p) \in Nat
  BY <1>2, <1>3, <1>4, ValueTypes, MaintenanceOf
<1>8. ASSUME Healthy(id) PROVE Equity(new) + 1 >= Maintenance(new)
  <2>1. Equity(p) + 0 >= Maintenance(p)
    BY <1>2, <1>8 DEF Healthy, HealthyWithin
  <2>2. Equity(p) >= Maintenance(p)
    BY <1>7, <2>1
  <2> HIDE DEF p, mmr
  <2>3. g + MulDiv(p.notional, Gain(p), p.entry_price) >= (p.notional * mmr) \div BPS_DENOM
    BY <1>2, <1>5, <2>2
  <2>4. BPS_DENOM \in Nat \ {0}
    BY ScaleAssumption
  <2>5. (g - closed) + MulDiv(p.notional - n, Gain(p), p.entry_price) + 1
          >= ((p.notional - n) * mmr) \div BPS_DENOM
    BY <1>2, <1>3, <1>4, <1>5, <2>3, <2>4, PartialCloseHealth
  <2>6. QED
    BY <1>2, <1>6, <2>5
<1>9. new.notional < p.notional
  BY <1>2, <1>3
<1>10. QED
  BY <1>2, <1>8, <1>9, HealthStored

-----------------------------------------------------------------------------
(* The steps of the engine.                                                *)

\* A fill creates a position from a record that was validated again.
LEMMA FillEntryFacts ==
    ASSUME EngineInv, NEW k, NEW id \in OrderIds, FillEntry(k, id)
    PROVE  LET o == orders[id] IN
           /\ o.owner \in Users /\ o.market \in MarketIds /\ o.side \in Sides
           /\ o.margin \in Nat \ {0} /\ o.notional \in Nat \ {0} /\ ~o.reduce /\ Resting(id)
           /\ HasMarket(o.market) /\ Mark(o.market) \in Nat
           /\ InitialMarginOk(o.market, o.margin, o.notional)
           /\ CreatePosition(o.owner, o.market, o.side, o.margin, o.notional)
<1> DEFINE o == orders[id]
<1>1. /\ Resting(id) /\ HasMarket(o.market) /\ price[Feed(o.market)] # NoPrice /\ ~o.reduce
      /\ InitialMarginOk(o.market, o.margin, o.notional)
      /\ CreatePosition(o.owner, o.market, o.side, o.margin, o.notional)
  BY DEF FillEntry, CanExecute, Priced, ValidateSizing
<1>2. o \in Order /\ Fillable(o) /\ MarketBook
  BY <1>1 DEF EngineInv, OrderBook, OrderTypeOK, LiveOrders, Resting
<1>3. /\ o.owner \in Users /\ o.market \in MarketIds /\ o.side \in Sides
      /\ o.margin \in Nat \ {0} /\ o.notional \in Nat \ {0}
  BY <1>1, <1>2 DEF Order, Fillable
<1>4. Mark(o.market) \in Nat
  BY <1>1, <1>2, <1>3, ConfigTypes
<1>5. QED
  BY <1>1, <1>3, <1>4

\* A stop closes a position of the table.
LEMMA FillStopFacts ==
    ASSUME EngineInv, NEW k, NEW id \in OrderIds, FillStop(k, id)
    PROVE  LET target == orders[id].reduce_position IN
           /\ target \in PositionIds /\ Open(target) /\ CloseInternal(target)
           /\ orders[id].reduce /\ Resting(id)
<1> DEFINE target == orders[id].reduce_position
<1>1. target \in Nat /\ target < nextId /\ nextId \in 0 .. MaxPositions
  BY DEF FillStop, CanExecute, EngineInv, OrderBook, OrderTypeOK, Resting, Order,
         StopTargetsOwn, PositionBook, PositionTypeOK
<1>2. target \in PositionIds
  BY <1>1, EngineAssumption DEF PositionIds
<1>3. QED
  BY <1>2 DEF FillStop, CanExecute

\* increase makes a position grow.
LEMMA IncreaseGrows ==
    ASSUME EngineInv, EngineInv', NEW t, NEW id \in PositionIds, NEW c, NEW n \in Int,
           NEW r, NEW x, Increase(t, id, c, n, r, x)
    PROVE  ~NoneGrew
<1> DEFINE p == positions[id]
           cum == cumFunding[p.market]
           margin == p.margin - FundingOwed(p) + c
           entry == (p.notional * p.entry_price + n * Mark(p.market)) \div (p.notional + n)
           new == [p EXCEPT !.notional = p.notional + n, !.margin = margin,
                            !.entry_price = entry, !.entry_funding = cum]
<1>1. /\ Open(id) /\ n > 0 /\ positions' = [positions EXCEPT ![id] = new]
      /\ userPositions' = userPositions
  BY DEF Increase, Owned, StorePosition
<1>2. p \in Position /\ p.notional \in Nat /\ p.owner \in Users
  BY <1>1, OpenRecord
<1>3. new.notional = p.notional + n
  <2> HIDE DEF margin, entry, cum
  <2> QED
    BY <1>2 DEF Position
<1>4. positions'[id] = new
  <2> HIDE DEF new
  <2> QED
    BY <1>1 DEF EngineInv, PositionBook, PositionTypeOK
<1> HIDE DEF new
<1>5. Open(id)'
  <2>1. id \in userPositions[p.owner]
    BY <1>1, <1>2 DEF EngineInv, PositionBook, PositionIndex
  <2>2. userPositions'[p.owner] = {i \in PositionIds : Open(i)' /\ positions'[i].owner = p.owner}
    BY <1>2 DEF EngineInv, PositionBook, PositionIndex
  <2>3. QED
    BY <1>1, <2>1, <2>2
<1>6. ~(positions'[id].notional <= p.notional)
  BY <1>1, <1>2, <1>3, <1>4
<1>7. QED
  BY <1>1, <1>5, <1>6 DEF NoneGrew

\* A step that writes no position leaves all of them as healthy as they were.
LEMMA HealthUnwritten ==
    ASSUME EngineInv, MarketStill, positions' = positions
    PROVE  AllHealthKept
  BY HealthSame DEF AllHealthKept

\* The calls on positions keep their health.
LEMMA HealthPosition ==
    ASSUME EngineInv, EngineInv', MarketStill, NoneGrew, PositionNext
    PROVE  AllHealthKept
<1>1. Notionals \subseteq Int /\ Margins \subseteq Int /\ Amounts \subseteq Int
  BY EngineAssumption, TokenAssumption
<1>2. ASSUME NEW t \in Users, NEW m \in MarketIds, NEW s \in Sides, NEW c \in Margins,
             NEW n \in Notionals, NEW r, NEW x, OpenPosition(t, m, s, c, n, r, x)
      PROVE  AllHealthKept
  <2>1. /\ c \in Nat \ {0} /\ n \in Nat \ {0} /\ HasMarket(m) /\ price[Feed(m)] # NoPrice
        /\ InitialMarginOk(m, c, n) /\ CreatePosition(t, m, s, c, n)
    BY <1>1, <1>2 DEF OpenPosition, CanOpen, Priced, ValidateSizing
  <2>2. Mark(m) \in Nat
    BY <2>1, ConfigTypes DEF EngineInv
  <2>3. QED
    BY <2>1, <2>2, HealthCreated
<1>3. ASSUME NEW t, NEW id \in PositionIds, ClosePosition(t, id) PROVE AllHealthKept
  BY <1>3, HealthRemoved DEF ClosePosition, CloseInternal
<1>4. ASSUME NEW t \in Users, NEW id \in PositionIds, NEW a \in Amounts,
             AddPositionMargin(t, id, a) \/ RemovePositionMargin(t, id, a)
      PROVE  AllHealthKept
  BY <1>1, <1>4, AddMarginHealth, RemoveMarginHealth
<1>5. ASSUME NEW t, NEW id \in PositionIds, NEW c, NEW n \in Notionals, NEW r, NEW x,
             Increase(t, id, c, n, r, x)
      PROVE  FALSE
  BY <1>1, <1>5, IncreaseGrows
<1>6. ASSUME NEW t \in Users, NEW id \in PositionIds, NEW n \in Notionals, NEW r, NEW x,
             Decrease(t, id, n, r, x)
      PROVE  AllHealthKept
  BY <1>1, <1>6, DecreaseHealth
<1>7. QED
  BY <1>2, <1>3, <1>4, <1>5, <1>6 DEF PositionNext

\* The keepers' calls keep the health of the positions they do not remove.
LEMMA HealthKeeper ==
    ASSUME EngineInv, MarketStill, KeeperNext
    PROVE  AllHealthKept
<1>1. ASSUME NEW k, NEW id \in PositionIds, Liquidate(k, id) PROVE AllHealthKept
  BY <1>1, HealthRemoved DEF Liquidate
<1>2. ASSUME NEW k, NEW m, UpdateFunding(k, m) PROVE AllHealthKept
  BY <1>2, HealthUnwritten DEF UpdateFunding, positionVars
<1>3. ASSUME NEW k, NEW id \in OrderIds, FillEntry(k, id) PROVE AllHealthKept
  BY <1>3, FillEntryFacts, HealthCreated
<1>4. ASSUME NEW k, NEW id \in OrderIds, FillStop(k, id) PROVE AllHealthKept
  BY <1>4, FillStopFacts, HealthRemoved DEF CloseInternal
<1>5. QED
  BY <1>1, <1>2, <1>3, <1>4 DEF KeeperNext

\* The calls on positions write neither an order nor the registry.
LEMMA PositionCallsWrite ==
    ASSUME PositionNext
    PROVE  orders' = orders /\ markets' = markets
<1> USE DEF orderVars, registryVars
<1>1. ASSUME NEW t, NEW m, NEW s, NEW c, NEW n, NEW r, NEW x, OpenPosition(t, m, s, c, n, r, x)
      PROVE  orders' = orders /\ markets' = markets
  BY <1>1 DEF OpenPosition
<1>2. ASSUME NEW t, NEW id, ClosePosition(t, id) PROVE orders' = orders /\ markets' = markets
  BY <1>2 DEF ClosePosition
<1>3. ASSUME NEW t, NEW id, NEW a, AddPositionMargin(t, id, a)
      PROVE  orders' = orders /\ markets' = markets
  BY <1>3 DEF AddPositionMargin
<1>4. ASSUME NEW t, NEW id, NEW a, RemovePositionMargin(t, id, a)
      PROVE  orders' = orders /\ markets' = markets
  BY <1>4 DEF RemovePositionMargin
<1>5. ASSUME NEW t, NEW id, NEW c, NEW n, NEW r, NEW x, Increase(t, id, c, n, r, x)
      PROVE  orders' = orders /\ markets' = markets
  BY <1>5 DEF Increase
<1>6. ASSUME NEW t, NEW id, NEW n, NEW r, NEW x, Decrease(t, id, n, r, x)
      PROVE  orders' = orders /\ markets' = markets
  BY <1>6 DEF Decrease
<1>7. QED
  BY <1>1, <1>2, <1>3, <1>4, <1>5, <1>6 DEF PositionNext

\* The calls on orders write neither a position nor the registry.
LEMMA OrderCallsWrite ==
    ASSUME OrderNext
    PROVE  positions' = positions /\ markets' = markets
<1> USE DEF positionVars, registryVars
<1>1. ASSUME NEW t, NEW m, NEW s, NEW c, NEW n, NEW p, NEW d, NEW x,
             PlaceOrder(t, m, s, c, n, p, d, x)
      PROVE  positions' = positions /\ markets' = markets
  BY <1>1 DEF PlaceOrder
<1>2. ASSUME NEW t, NEW id, NEW p, NEW d, PlaceStop(t, id, p, d)
      PROVE  positions' = positions /\ markets' = markets
  BY <1>2 DEF PlaceStop
<1>3. ASSUME NEW t, NEW id, CancelOrder(t, id) PROVE positions' = positions /\ markets' = markets
  BY <1>3 DEF CancelOrder
<1>4. QED
  BY <1>1, <1>2, <1>3 DEF OrderNext

\* Only the market makes a position liquidatable: while it stands still a position is
\* born healthy and no call takes a healthy one below maintenance, but for the one
\* unit that the divisions of a partial close can lose.
THEOREM HealthIsKept == Spec => HealthOnlyLostToMarket
<1>1. ASSUME EngineInv, EngineInv', [Next]_vars, MarketStill, NoneGrew PROVE AllHealthKept
  <2>1. CASE PositionNext
    BY <1>1, <2>1, HealthPosition
  <2>2. CASE KeeperNext
    BY <1>1, <2>2, HealthKeeper
  <2>3. CASE OrderNext
    BY <1>1, <2>3, OrderCallsWrite, HealthUnwritten
  <2>4. CASE PriceMove \/ PoolNext \/ ControlNext \/ UNCHANGED vars
    <3>1. positions' = positions
      BY <2>4 DEF PriceMove, PoolNext, ControlNext, vars, engineVars, positionVars
    <3>2. QED
      BY <1>1, <3>1, HealthUnwritten
  <2>5. QED
    BY <1>1, <2>1, <2>2, <2>3, <2>4 DEF Next
<1>2. AllHealthKept =>
        \A i \in PositionIds :
            Open(i)' /\ (Open(i) => Healthy(i)) =>
                IF Shrank(i) THEN HealthyWithin(1, i)' ELSE Healthy(i)'
  BY DEF AllHealthKept, HealthKept
<1>3. EngineInv /\ [Next]_vars => EngineInv'
  BY EngineStepInv
<1>4. QED
  BY <1>1, <1>2, <1>3, EngineInvariance, PTL DEF Spec, HealthOnlyLostToMarket

-----------------------------------------------------------------------------
(* Resting entry orders are for listed markets, so their refund is a number. *)

ListedOrders ==
    \A i \in OrderIds : Resting(i) /\ ~orders[i].reduce => HasMarket(orders[i].market)

\* No call removes a market.
LEMMA MarketsStayListed ==
    ASSUME EngineInv, [Next]_vars
    PROVE  \A m \in MarketIds : HasMarket(m) => HasMarket(m)'
<1>1. CASE markets' = markets
  BY <1>1 DEF HasMarket
<1>2. CASE ControlNext
  <2>1. RegistryNext /\ EngineInv'
    BY <1>2, ControlInv DEF ControlNext
  <2>2. marketIds \subseteq marketIds'
    <3>1. ASSUME NEW m, NEW cfg, AddMarket(m, cfg) \/ UpdateMarket(m, cfg)
          PROVE  marketIds \subseteq marketIds'
      BY <3>1 DEF AddMarket, UpdateMarket
    <3>2. ASSUME NEW c, NEW m, NEW p, SetMarketPaused(c, m, p) \/ Pause(c) \/ Unpause(c)
          PROVE  marketIds \subseteq marketIds'
      BY <3>2 DEF SetMarketPaused, Pause, Unpause
    <3>3. ASSUME NEW who, GrantRole(who) \/ RevokeRole(who) PROVE marketIds \subseteq marketIds'
      BY <3>3 DEF GrantRole, RevokeRole
    <3>4. QED
      BY <2>1, <3>1, <3>2, <3>3 DEF RegistryNext, PauseNext, AdminNext
  <2>3. QED
    BY <2>1, <2>2 DEF EngineInv, MarketBook, RegistryConsistent
<1>3. CASE ~ControlNext
  <2>1. ASSUME PositionNext PROVE markets' = markets
    BY <2>1, PositionCallsWrite
  <2>2. ASSUME OrderNext PROVE markets' = markets
    BY <2>2, OrderCallsWrite
  <2>3. ASSUME KeeperNext PROVE markets' = markets
    BY <2>3 DEF KeeperNext, Liquidate, UpdateFunding, FillEntry, FillStop, registryVars
  <2>4. ASSUME PriceMove \/ PoolNext \/ UNCHANGED vars PROVE markets' = markets
    BY <2>4 DEF PriceMove, PoolNext, vars, registryVars
  <2>5. QED
    BY <1>1, <1>3, <2>1, <2>2, <2>3, <2>4 DEF Next
<1>4. QED
  BY <1>2, <1>3

\* Writing one order keeps the others listed.
LEMMA ListedWritten ==
    ASSUME EngineInv, ListedOrders, \A m \in MarketIds : HasMarket(m) => HasMarket(m)',
           NEW id \in OrderIds, NEW o,
           orders' = [orders EXCEPT ![id] = o],
           o # NoOrder /\ ~o.reduce => markets'[o.market] # NoMarket
    PROVE  ListedOrders'
<1> SUFFICES ASSUME NEW i \in OrderIds, Resting(i)', ~orders'[i].reduce
             PROVE  markets'[orders'[i].market] # NoMarket
  BY DEF ListedOrders, HasMarket
<1>1. orders \in [OrderIds -> Order \cup {NoOrder}]
  BY DEF EngineInv, OrderBook, OrderTypeOK
<1>2. CASE i = id
  BY <1>1, <1>2 DEF Resting
<1>3. CASE i # id
  <2>1. orders'[i] = orders[i] /\ Resting(i) /\ ~orders[i].reduce
    BY <1>1, <1>3 DEF Resting
  <2>2. orders[i].market \in MarketIds /\ HasMarket(orders[i].market)
    BY <1>1, <2>1 DEF ListedOrders, Resting, Order
  <2>3. QED
    BY <2>1, <2>2 DEF HasMarket
<1>4. QED
  BY <1>2, <1>3

LEMMA ListedStep ==
    ASSUME EngineInv, ListedOrders, [Next]_vars
    PROVE  ListedOrders'
<1> USE DEF EngineInv
<1>1. \A m \in MarketIds : HasMarket(m) => HasMarket(m)'
  BY MarketsStayListed
<1>2. ASSUME orders' = orders PROVE ListedOrders'
  <2>1. \A i \in OrderIds : Resting(i) => orders[i].market \in MarketIds
    BY DEF OrderBook, OrderTypeOK, Resting, Order
  <2>2. QED
    BY <1>1, <1>2, <2>1 DEF ListedOrders, Resting, HasMarket
<1>3. ASSUME NEW id \in OrderIds, RemoveOrder(id) PROVE ListedOrders'
  BY <1>1, <1>3, ListedWritten DEF RemoveOrder
<1>4. ASSUME NEW t, NEW o, StoreOrder(t, o), o.reduce \/ markets'[o.market] # NoMarket
      PROVE  ListedOrders'
  <2>1. nextOrderId \in OrderIds /\ orders' = [orders EXCEPT ![nextOrderId] = o]
    BY <1>4, EngineAssumption DEF StoreOrder, OrderBook, OrderTypeOK, OrderIds
  <2>2. QED
    BY <1>1, <1>4, <2>1, ListedWritten
<1>5. CASE OrderNext
  <2>1. ASSUME NEW t, NEW m \in MarketIds, NEW s, NEW c, NEW n, NEW p, NEW d, NEW x,
               PlaceOrder(t, m, s, c, n, p, d, x)
        PROVE  ListedOrders'
    <3> DEFINE o == [owner |-> t, market |-> m, side |-> s, margin |-> c, notional |-> n,
                     trigger |-> p, dir |-> d, reduce |-> FALSE, reduce_position |-> 0,
                     slippage |-> x]
    <3>1. StoreOrder(t, o) /\ HasMarket(m)
      BY <2>1 DEF PlaceOrder, CanPlace
    <3>2. o.market = m /\ HasMarket(m)'
      BY <1>1, <3>1
    <3> HIDE DEF o
    <3>3. QED
      BY <1>4, <3>1, <3>2 DEF HasMarket
  <2>2. ASSUME NEW t, NEW id, NEW p, NEW d, PlaceStop(t, id, p, d) PROVE ListedOrders'
    <3> DEFINE at == positions[id]
               o == [owner |-> t, market |-> at.market, side |-> at.side, margin |-> 0,
                     notional |-> at.notional, trigger |-> p, dir |-> d, reduce |-> TRUE,
                     reduce_position |-> id, slippage |-> 0]
    <3>1. StoreOrder(t, o) /\ o.reduce
      BY <2>2 DEF PlaceStop
    <3> HIDE DEF o
    <3>2. QED
      BY <1>4, <3>1
  <2>3. ASSUME NEW t, NEW id \in OrderIds, CancelOrder(t, id) PROVE ListedOrders'
    BY <1>3, <2>3 DEF CancelOrder
  <2>4. QED
    BY <1>5, <2>1, <2>2, <2>3 DEF OrderNext
<1>6. CASE PositionNext
  <2>1. orders' = orders
    BY <1>6, PositionCallsWrite
  <2>2. QED
    BY <1>2, <2>1
<1>7. CASE KeeperNext
  <2>1. ASSUME NEW k, NEW id, Liquidate(k, id) PROVE orders' = orders
    BY <2>1 DEF Liquidate, orderVars
  <2>2. ASSUME NEW k, NEW m, UpdateFunding(k, m) PROVE orders' = orders
    BY <2>2 DEF UpdateFunding, orderVars
  <2>3. ASSUME NEW k, NEW id \in OrderIds, FillEntry(k, id) \/ FillStop(k, id)
        PROVE  ListedOrders'
    BY <1>3, <2>3 DEF FillEntry, FillStop
  <2>4. QED
    BY <1>2, <1>7, <2>1, <2>2, <2>3 DEF KeeperNext
<1>8. CASE PriceMove \/ PoolNext \/ ControlNext \/ UNCHANGED vars
  <2>1. orders' = orders
    BY <1>8 DEF PriceMove, PoolNext, ControlNext, vars, engineVars, orderVars
  <2>2. QED
    BY <1>2, <2>1
<1>9. QED
  BY <1>5, <1>6, <1>7, <1>8 DEF Next

LEMMA OrdersListed == Spec => [](EngineInv /\ ListedOrders)
<1>1. Init => ListedOrders
  BY DEF Init, ListedOrders, Resting
<1>2. EngineInv /\ ListedOrders /\ [Next]_vars => ListedOrders'
  BY ListedStep
<1>3. QED
  BY <1>1, <1>2, EngineInvariance, PTL DEF Spec

-----------------------------------------------------------------------------
(* What the LPs are owed: the pools less two sums, each moved by one entry. *)

MarkInv == EngineInv /\ ListedOrders

Worth(p) == MaxOf(Equity(p), 0)
Refund(o) == IF o.reduce THEN 0 ELSE o.margin + Fee(o.market, o.notional)

\* The worth of a position that can be valued is a natural number.
LEMMA WorthType ==
    ASSUME MarketBook, NEW p \in Position, Valued(p)
    PROVE  Worth(p) \in Nat
  BY ValueTypes DEF Worth, MaxOf

\* The refund of an entry order for a listed market is a natural number.
LEMMA RefundType ==
    ASSUME MarketBook, NEW o \in Order, ~o.reduce => HasMarket(o.market)
    PROVE  Refund(o) \in Nat
<1>1. o.market \in MarketIds /\ o.margin \in Nat /\ o.notional \in Nat
  BY DEF Order
<1>2. ~o.reduce => Fee(o.market, o.notional) \in Nat
  BY <1>1, ConfigTypes
<1>3. QED
  BY <1>1, <1>2 DEF Refund

LEMMA WorthSums ==
    ASSUME EngineInv, AllValued
    PROVE  WorthOf \in [PositionIds -> Nat] /\ Total(WorthOf) \in Nat
<1>1. \A i \in PositionIds : Open(i) => MaxOf(Equity(positions[i]), 0) \in Nat
  <2> TAKE i \in PositionIds
  <2> HAVE Open(i)
  <2>1. positions[i] \in Position /\ Valued(positions[i]) /\ MarketBook
    BY OpenRecord DEF AllValued, EngineInv
  <2>2. QED
    BY <2>1, WorthType DEF Worth
<1>2. WorthOf \in [PositionIds -> Nat]
  BY <1>1 DEF WorthOf
<1>3. QED
  BY <1>2, IdsFinite, TotalType

LEMMA RefundSums ==
    ASSUME MarkInv
    PROVE  RefundOf \in [OrderIds -> Nat] /\ Total(RefundOf) \in Nat
<1>1. \A i \in OrderIds : Resting(i) => Refund(orders[i]) \in Nat
  <2> TAKE i \in OrderIds
  <2> HAVE Resting(i)
  <2>1. /\ orders[i] \in Order /\ MarketBook
        /\ ~orders[i].reduce => HasMarket(orders[i].market)
    BY DEF MarkInv, EngineInv, OrderBook, OrderTypeOK, Resting, ListedOrders
  <2>2. QED
    BY <2>1, RefundType
<1>2. RefundOf = [i \in OrderIds |-> IF Resting(i) THEN Refund(orders[i]) ELSE 0]
  BY DEF RefundOf, CancelPayout, Refund
<1>3. RefundOf \in [OrderIds -> Nat]
  BY <1>1, <1>2
<1>4. QED
  BY <1>3, IdsFinite, TotalType

\* Writing one position moves the sum by the difference of its worth.
LEMMA WorthStep ==
    ASSUME EngineInv, AllValued, MarketStill, NEW id \in PositionIds,
           NEW p \in Position \cup {NoPosition}, positions' = [positions EXCEPT ![id] = p],
           p # NoPosition => Valued(p)
    PROVE  Total(WorthOf') = Total(WorthOf)
                               - (IF Open(id) THEN Worth(positions[id]) ELSE 0)
                               + (IF p # NoPosition THEN Worth(p) ELSE 0)
<1> DEFINE v == IF p # NoPosition THEN Worth(p) ELSE 0
<1>1. positions \in [PositionIds -> Position \cup {NoPosition}]
  BY DEF EngineInv, PositionBook, PositionTypeOK
<1>2. v \in Nat
  <2>1. CASE p = NoPosition
    BY <2>1
  <2>2. CASE p # NoPosition
    BY <2>2, WorthType DEF EngineInv
  <2>3. QED
    BY <2>1, <2>2
<1>3. WorthOf \in [PositionIds -> Nat]
  BY WorthSums
<1>4. ASSUME NEW i \in PositionIds
      PROVE  (IF Open(i)' THEN MaxOf(Equity(positions[i])', 0) ELSE 0)
               = IF i = id THEN v ELSE WorthOf[i]
  <2>1. CASE i = id
    <3>1. positions'[i] = p
      BY <1>1, <2>1
    <3>2. Equity(positions[i])' = Equity(p)
      BY <3>1, ValueStill
    <3>3. QED
      BY <2>1, <3>1, <3>2 DEF Open, Worth
  <2>2. CASE i # id
    <3>1. positions'[i] = positions[i]
      BY <1>1, <2>2
    <3>2. Equity(positions[i])' = Equity(positions[i])
      BY <3>1, ValueStill
    <3>3. QED
      BY <2>2, <3>1, <3>2 DEF Open, WorthOf
  <2>3. QED
    BY <2>1, <2>2
<1>5. WorthOf' = [i \in PositionIds |-> IF Open(i)' THEN MaxOf(Equity(positions[i])', 0) ELSE 0]
  BY DEF WorthOf
<1> HIDE DEF v
<1>6. WorthOf' = [WorthOf EXCEPT ![id] = v]
  BY <1>3, <1>4, <1>5
<1>7. Total([WorthOf EXCEPT ![id] = v]) = Total(WorthOf) - WorthOf[id] + v
  BY <1>2, <1>3, IdsFinite, TotalUpdate
<1>8. WorthOf[id] = IF Open(id) THEN Worth(positions[id]) ELSE 0
  BY DEF WorthOf, Worth
<1>9. QED
  BY <1>6, <1>7, <1>8 DEF v

LEMMA WorthSame ==
    ASSUME MarketStill, positions' = positions
    PROVE  Total(WorthOf') = Total(WorthOf)
<1>1. \A i \in PositionIds : Equity(positions[i])' = Equity(positions[i])
  BY ValueStill
<1>2. WorthOf' = WorthOf
  BY <1>1 DEF WorthOf, Open
<1>3. QED
  BY <1>2

\* Writing one order moves the sum by the difference of its refund.
LEMMA RefundStep ==
    ASSUME MarkInv, MarketStill, NEW id \in OrderIds,
           NEW o \in Order \cup {NoOrder}, orders' = [orders EXCEPT ![id] = o],
           o # NoOrder /\ ~o.reduce => HasMarket(o.market)
    PROVE  Total(RefundOf') = Total(RefundOf)
                                - (IF Resting(id) THEN Refund(orders[id]) ELSE 0)
                                + (IF o # NoOrder THEN Refund(o) ELSE 0)
<1> DEFINE v == IF o # NoOrder THEN Refund(o) ELSE 0
<1>1. orders \in [OrderIds -> Order \cup {NoOrder}] /\ markets' = markets
  BY DEF MarkInv, EngineInv, OrderBook, OrderTypeOK, MarketStill
<1>2. v \in Nat
  BY RefundType DEF MarkInv, EngineInv
<1>3. RefundOf \in [OrderIds -> Nat]
  BY RefundSums
<1>4. /\ RefundOf = [i \in OrderIds |-> IF orders[i] # NoOrder THEN Refund(orders[i]) ELSE 0]
      /\ RefundOf' = [i \in OrderIds |-> IF orders'[i] # NoOrder THEN Refund(orders'[i]) ELSE 0]
  BY <1>1 DEF RefundOf, CancelPayout, Resting, Refund, Fee
<1> HIDE DEF v
<1>5. RefundOf' = [RefundOf EXCEPT ![id] = v]
  BY <1>1, <1>3, <1>4 DEF v
<1>6. Total([RefundOf EXCEPT ![id] = v]) = Total(RefundOf) - RefundOf[id] + v
  BY <1>2, <1>3, IdsFinite, TotalUpdate
<1>7. RefundOf[id] = IF Resting(id) THEN Refund(orders[id]) ELSE 0
  BY <1>4 DEF Resting
<1>8. QED
  BY <1>5, <1>6, <1>7 DEF v

LEMMA RefundSame ==
    ASSUME MarketStill, orders' = orders
    PROVE  Total(RefundOf') = Total(RefundOf)
<1>1. RefundOf' = RefundOf
  BY DEF RefundOf, CancelPayout, Resting, Fee, MarketStill
<1>2. QED
  BY <1>1

\* What enters the pools, less what the positions and the refunds gain, is what the
\* LPs gain.
LEMMA MarkMoves ==
    ASSUME MarkInv, AllValued, NEW a \in Int, NEW w \in Int, NEW r \in Int,
           TotalAssets(pools') = TotalAssets(pools) + a,
           Total(WorthOf') = Total(WorthOf) + w,
           Total(RefundOf') = Total(RefundOf) + r,
           a - w - r >= -1
    PROVE  LpMark' >= LpMark - 1
<1>1. Total(WorthOf) \in Int /\ Total(RefundOf) \in Int
  BY WorthSums, RefundSums DEF MarkInv
<1>2. TotalAssets(pools) \in Int
  BY DEF MarkInv, EngineInv, VaultInv, VaultTypeOK, TotalAssets
<1>3. LpMark' = TotalAssets(pools') - Total(WorthOf') - Total(RefundOf')
  BY DEF LpMark
<1> HIDE DEF LpMark
<1>4. LpMark = TotalAssets(pools) - Total(WorthOf) - Total(RefundOf)
  BY DEF LpMark
<1>5. QED
  BY <1>1, <1>2, <1>3, <1>4

\* How each call of the vault moves the two pools together.
LEMMA PoolsMoved ==
    ASSUME EngineInv, NEW c \in Int, NEW f \in Int
    PROVE  /\ TotalAssets(pools) \in Nat
           /\ TotalAssets(Locked(pools, c, f)) = TotalAssets(pools) + (c + f)
           /\ TotalAssets(MovedPools(pools, c, f)) = TotalAssets(pools) + (-f)
           /\ TotalAssets([pools EXCEPT !.margin_pool = @ + c]) = TotalAssets(pools) + c
           /\ TotalAssets([pools EXCEPT !.lp_cash = @ + c]) = TotalAssets(pools) + c
           /\ \A d \in Int : TotalAssets(MovedPools(Realized(pools, d), c, f))
                                = TotalAssets(pools) + (-f)
<1>1. pools \in [lp_cash : Nat, margin_pool : Nat]
  BY DEF EngineInv, VaultInv, VaultTypeOK
<1>2. pools.lp_cash \in Nat /\ pools.margin_pool \in Nat
  BY <1>1
<1>3. /\ TotalAssets(pools) \in Nat
      /\ TotalAssets(Locked(pools, c, f)) = TotalAssets(pools) + (c + f)
      /\ TotalAssets(MovedPools(pools, c, f)) = TotalAssets(pools) + (-f)
  BY <1>2 DEF TotalAssets, Locked, MovedPools
<1>4. /\ TotalAssets([pools EXCEPT !.margin_pool = @ + c]) = TotalAssets(pools) + c
      /\ TotalAssets([pools EXCEPT !.lp_cash = @ + c]) = TotalAssets(pools) + c
  BY <1>1, <1>2 DEF TotalAssets
<1>5. \A d \in Int : TotalAssets(MovedPools(Realized(pools, d), c, f))
                       = TotalAssets(pools) + (-f)
  BY <1>2 DEF TotalAssets, MovedPools, Realized
<1>6. QED
  BY <1>3, <1>4, <1>5

\* A step that moves no pool, no position and no order leaves the mark where it was.
LEMMA MarkSame ==
    ASSUME MarkInv, MarketStill, AllValued, TotalAssets(pools') >= TotalAssets(pools),
           TotalAssets(pools') \in Int, positions' = positions, orders' = orders
    PROVE  LpMark' >= LpMark - 1
<1> DEFINE a == TotalAssets(pools') - TotalAssets(pools)
<1>1. TotalAssets(pools) \in Int
  BY DEF MarkInv, EngineInv, VaultInv, VaultTypeOK, TotalAssets
<1>2. a \in Int /\ a >= 0 /\ TotalAssets(pools') = TotalAssets(pools) + a
  BY <1>1
<1>3. Total(WorthOf') = Total(WorthOf) + 0 /\ Total(RefundOf') = Total(RefundOf) + 0
  BY WorthSame, RefundSame, WorthSums, RefundSums DEF MarkInv
<1> HIDE DEF a
<1>4. a - 0 - 0 >= -1
  BY <1>2
<1>5. QED
  BY <1>2, <1>3, <1>4, MarkMoves

\* A new position is worth the margin that came with it.
LEMMA WorthCreated ==
    ASSUME MarkInv, MarketStill, AllValued, AllValued', NEW t \in Users, NEW m \in MarketIds,
           NEW s \in Sides, NEW c \in Nat \ {0}, NEW n \in Nat \ {0}, Mark(m) \in Nat,
           CreatePosition(t, m, s, c, n)
    PROVE  Total(WorthOf') = Total(WorthOf) + c
<1> DEFINE p == [owner |-> t, market |-> m, side |-> s, margin |-> c, notional |-> n,
                 entry_price |-> Mark(m), entry_funding |-> cumFunding[m]]
<1>1. /\ positions' = [positions EXCEPT ![nextId] = p] /\ nextId < MaxPositions
      /\ MarketBook /\ EngineInv
  BY DEF CreatePosition, MarkInv, EngineInv
<1>2. p \in Position
  BY <1>1 DEF Position, MarketBook, FeedTypeOK
<1>3. /\ p.margin = c /\ p.market = m
      /\ p.entry_price = Mark(p.market) /\ p.entry_funding = cumFunding[p.market]
  OBVIOUS
<1> HIDE DEF p
<1>4. nextId \in PositionIds /\ p # NoPosition
  BY <1>1, <1>2, EngineAssumption, AbsenceAssumption
     DEF PositionIds, EngineInv, PositionBook, PositionTypeOK
<1>5. PICK id \in PositionIds : id = nextId
  BY <1>4
<1>6. ~Open(id) /\ positions'[id] = p /\ positions' = [positions EXCEPT ![id] = p]
  BY <1>1, <1>5 DEF EngineInv, PositionBook, PositionTypeOK, LivePositions
<1>7. Valued(p)
  <2>1. Open(id)'
    BY <1>4, <1>6 DEF Open
  <2>2. Valued(positions[id])'
    BY <2>1 DEF AllValued
  <2>3. QED
    BY <1>6, <2>2, ValueStill
<1>8. Worth(p) = c
  BY <1>1, <1>2, <1>3, <1>7, BornAtPar DEF Worth, MaxOf
<1>9. Total(WorthOf') = Total(WorthOf) - 0 + c
  <2>1. Total(WorthOf') = Total(WorthOf) - (IF Open(id) THEN Worth(positions[id]) ELSE 0)
                            + (IF p # NoPosition THEN Worth(p) ELSE 0)
    <3>1. EngineInv /\ p \in Position \cup {NoPosition} /\ (p # NoPosition => Valued(p))
      BY <1>1, <1>2, <1>7
    <3>2. positions' = [positions EXCEPT ![id] = p]
      BY <1>6
    <3>3. QED
      BY <3>1, <3>2, WorthStep, Zenon
  <2>2. QED
    BY <1>4, <1>6, <1>8, <2>1
<1>10. QED
  BY <1>1, <1>9, WorthSums

\* A position that is removed takes its worth away.
LEMMA WorthRemoved ==
    ASSUME MarkInv, MarketStill, AllValued, NEW id \in PositionIds, Open(id), RemovePosition(id)
    PROVE  /\ Total(WorthOf') = Total(WorthOf) + (-Worth(positions[id]))
           /\ Worth(positions[id]) \in Nat /\ Equity(positions[id]) \in Int
           /\ HasMarket(positions[id].market)
<1> DEFINE p == positions[id]
<1>1. /\ positions' = [positions EXCEPT ![id] = NoPosition]
      /\ MarketBook /\ EngineInv /\ p \in Position /\ Valued(p)
  BY OpenRecord DEF RemovePosition, MarkInv, EngineInv, AllValued
<1>2. Worth(p) \in Nat /\ Equity(p) \in Int /\ HasMarket(p.market)
  BY <1>1, WorthType, ValueTypes
<1>3. Total(WorthOf') = Total(WorthOf) - Worth(p) + 0
  BY <1>1, WorthStep
<1>4. QED
  BY <1>1, <1>2, <1>3, WorthSums

\* close_position pays at most what the position is worth.
LEMMA CloseMark ==
    ASSUME MarkInv, MarketStill, AllValued, NEW id \in PositionIds, Open(id),
           CloseInternal(id), Total(RefundOf') = Total(RefundOf)
    PROVE  LpMark' >= LpMark - 1
<1> DEFINE p == positions[id]
           fee == Fee(p.market, p.notional)
           payout == MaxOf(Equity(p) - fee, 0)
<1>1. pools' = MovedPools(pools, p.margin, payout) /\ RemovePosition(id) /\ EngineInv
  BY DEF CloseInternal, ClosePayout, Settle, CanSettle, MarkInv
<1>2. /\ Total(WorthOf') = Total(WorthOf) + (-Worth(p)) /\ Worth(p) \in Nat
      /\ Equity(p) \in Int /\ HasMarket(p.market)
  BY <1>1, WorthRemoved
<1>3. p.margin \in Nat /\ p.market \in MarketIds /\ p.notional \in Nat
  BY <1>1, OpenRecord
<1>4. fee \in Nat
  BY <1>1, <1>2, <1>3, ConfigTypes DEF EngineInv
<1>5. payout \in Nat /\ payout <= Worth(p)
  BY <1>2, <1>4 DEF Worth, MaxOf
<1> HIDE DEF p, payout
<1>6. TotalAssets(pools') = TotalAssets(pools) + (-payout)
  <2>1. p.margin \in Int /\ payout \in Int
    BY <1>3, <1>5
  <2>2. QED
    BY <1>1, <2>1, PoolsMoved
<1>7. Total(RefundOf') = Total(RefundOf) + 0
  BY RefundSums
<1>8. /\ -payout \in Int /\ -Worth(p) \in Int
      /\ (-payout) - (-Worth(p)) - 0 >= -1
  BY <1>2, <1>5
<1>9. QED
  BY <1>2, <1>6, <1>7, <1>8, MarkMoves

-----------------------------------------------------------------------------
(* The mark through the steps of the engine.                               *)

\* open_position brings the margin and the fee, the position is worth the margin.
LEMMA OpenMark ==
    ASSUME MarkInv, MarketStill, AllValued, AllValued', NEW t \in Users,
           NEW m \in MarketIds, NEW s \in Sides, NEW c \in Int, NEW n \in Int, NEW r, NEW x,
           OpenPosition(t, m, s, c, n, r, x)
    PROVE  LpMark' >= LpMark - 1
<1> DEFINE fee == Fee(m, n)
<1>1. /\ c \in Nat \ {0} /\ n \in Nat \ {0} /\ HasMarket(m) /\ price[Feed(m)] # NoPrice
      /\ pools' = Locked(pools, c, fee) /\ CreatePosition(t, m, s, c, n)
      /\ orders' = orders /\ EngineInv /\ MarketBook
  BY DEF OpenPosition, CanOpen, Priced, LockMargin, CanLockMargin, orderVars, MarkInv, EngineInv
<1>2. fee \in Nat /\ Mark(m) \in Nat
  BY <1>1, ConfigTypes
<1>3. Total(WorthOf') = Total(WorthOf) + c
  BY <1>1, <1>2, WorthCreated
<1>4. Total(RefundOf') = Total(RefundOf) + 0
  BY <1>1, RefundSame, RefundSums
<1> HIDE DEF fee
<1>5. TotalAssets(pools') = TotalAssets(pools) + (c + fee)
  <2>1. c \in Int /\ fee \in Int
    BY <1>2
  <2>2. QED
    BY <1>1, <2>1, PoolsMoved
<1>6. c + fee \in Int /\ c \in Int /\ (c + fee) - c - 0 >= -1
  BY <1>1, <1>2
<1>7. QED
  BY <1>3, <1>4, <1>5, <1>6, MarkMoves

\* A record that is rewritten moves the sum by the difference of its worth.
LEMMA WorthRewritten ==
    ASSUME MarkInv, MarketStill, AllValued, NEW id \in PositionIds, Open(id),
           NEW new \in Position, Valued(new), positions' = [positions EXCEPT ![id] = new]
    PROVE  /\ Worth(positions[id]) \in Nat /\ Worth(new) \in Nat
           /\ Worth(new) - Worth(positions[id]) \in Int
           /\ Total(WorthOf') = Total(WorthOf) + (Worth(new) - Worth(positions[id]))
<1> DEFINE p == positions[id]
<1>1. p \in Position /\ Valued(p) /\ MarketBook /\ EngineInv
  BY OpenRecord DEF MarkInv, EngineInv, AllValued
<1>2. Worth(p) \in Nat /\ Worth(new) \in Nat
  BY <1>1, WorthType
<1>3. new # NoPosition /\ new \in Position \cup {NoPosition}
  BY AbsenceAssumption
<1>4. Total(WorthOf') = Total(WorthOf) - Worth(p) + Worth(new)
  <2>1. Total(WorthOf') = Total(WorthOf) - (IF Open(id) THEN Worth(positions[id]) ELSE 0)
                            + (IF new # NoPosition THEN Worth(new) ELSE 0)
    BY <1>1, <1>3, WorthStep
  <2>2. QED
    BY <1>3, <2>1
<1>5. QED
  BY <1>1, <1>2, <1>4, WorthSums

\* add_margin brings as much as it adds to the position.
LEMMA AddMarginMark ==
    ASSUME MarkInv, MarketStill, AllValued, NEW t \in Users, NEW id \in PositionIds,
           NEW a \in Int, AddPositionMargin(t, id, a)
    PROVE  LpMark' >= LpMark - 1
<1> DEFINE p == positions[id]
           q == p.margin + a
           new == [p EXCEPT !.margin = q]
           w == Worth(new) - Worth(p)
<1>1. /\ Open(id) /\ a > 0 /\ positions' = [positions EXCEPT ![id] = new]
      /\ pools' = [pools EXCEPT !.margin_pool = @ + a] /\ orders' = orders
      /\ EngineInv /\ MarketBook
  BY DEF AddPositionMargin, Owned, AddMargin, CanAddMargin, StorePosition, orderVars,
         MarkInv, EngineInv
<1>2. p \in Position /\ p.margin \in Nat /\ Valued(p)
  BY <1>1, OpenRecord DEF AllValued
<1>3. q \in Nat /\ q - p.margin = a /\ new = [p EXCEPT !.margin = q]
  BY <1>1, <1>2
<1> HIDE DEF q, new
<1>4. /\ new \in Position /\ Valued(new) /\ Equity(p) \in Int /\ Equity(new) = Equity(p) + a
  BY <1>1, <1>2, <1>3, MarginChanged
<1>5. /\ Total(WorthOf') = Total(WorthOf) + w /\ w \in Int
  BY <1>1, <1>4, WorthRewritten
<1>6. w <= a
  BY <1>1, <1>4 DEF Worth, MaxOf
<1> HIDE DEF w
<1>7. Total(RefundOf') = Total(RefundOf) + 0
  BY <1>1, RefundSame, RefundSums
<1>8. TotalAssets(pools') = TotalAssets(pools) + a
  BY <1>1, PoolsMoved
<1>9. a - w - 0 >= -1
  BY <1>5, <1>6
<1>10. QED
  BY <1>5, <1>7, <1>8, <1>9, MarkMoves

\* remove_margin takes what the position is worth less: it stays worth something.
LEMMA RemoveMarginMark ==
    ASSUME MarkInv, MarketStill, AllValued, NEW t \in Users, NEW id \in PositionIds,
           NEW a \in Int, RemovePositionMargin(t, id, a)
    PROVE  LpMark' >= LpMark - 1
<1> DEFINE p == positions[id]
           q == p.margin - a
           new == [p EXCEPT !.margin = q]
           w == Worth(new) - Worth(p)
<1>1. /\ Open(id) /\ a > 0 /\ Valued(p) /\ positions' = [positions EXCEPT ![id] = new]
      /\ new.margin > 0 /\ Equity(new) >= Maintenance(p)
      /\ pools' = MovedPools(pools, a, a) /\ orders' = orders
      /\ EngineInv /\ MarketBook
  BY DEF RemovePositionMargin, CanWithdraw, Withdrawn, Owned, WithdrawalOk, StorePosition,
         Settle, CanSettle, orderVars,
         MarkInv, EngineInv
<1>2. p \in Position /\ p.margin \in Nat
  BY <1>1, OpenRecord
<1>3. q \in Nat /\ q - p.margin = -a /\ new = [p EXCEPT !.margin = q]
  <2>1. new.margin = q
    BY <1>2 DEF Position
  <2>2. QED
    BY <1>1, <1>2, <2>1
<1> HIDE DEF q, new
<1>4. /\ new \in Position /\ Valued(new) /\ Equity(p) \in Int /\ Equity(new) = Equity(p) + (-a)
  BY <1>1, <1>2, <1>3, MarginChanged
<1>5. /\ Total(WorthOf') = Total(WorthOf) + w /\ w \in Int
  BY <1>1, <1>4, WorthRewritten
<1>6. Maintenance(p) \in Nat
  BY <1>1, <1>2, ValueTypes, MaintenanceOf
<1>7. w = -a
  BY <1>1, <1>4, <1>6 DEF Worth, MaxOf
<1> HIDE DEF w
<1>8. Total(RefundOf') = Total(RefundOf) + 0
  BY <1>1, RefundSame, RefundSums
<1>9. TotalAssets(pools') = TotalAssets(pools) + (-a)
  BY <1>1, PoolsMoved
<1>10. -a \in Int /\ (-a) - w - 0 >= -1
  BY <1>5, <1>7
<1>11. QED
  BY <1>5, <1>8, <1>9, <1>10, MarkMoves

\* decrease pays, and leaves in the position, at most one unit more than it was worth.
LEMMA DecreaseMark ==
    ASSUME MarkInv, MarketStill, AllValued, NEW t \in Users, NEW id \in PositionIds,
           NEW n \in Int, NEW r, NEW x, Decrease(t, id, n, r, x)
    PROVE  LpMark' >= LpMark - 1
<1> DEFINE p == positions[id]
           fee == Fee(p.market, n)
<1>1. orders' = orders /\ EngineInv /\ MarketBook
  BY DEF Decrease, orderVars, MarkInv, EngineInv
<1>2. PICK g \in Nat, closed \in Nat, new \in Position : PartClosed(id, n, g, closed, new)
  BY <1>1, DecreaseFacts
<1> DEFINE payout == PartialPayout(p, closed, n)
           w == Worth(new) - Worth(p)
<1>3. /\ Open(id) /\ Valued(p) /\ n \in Nat \ {0} /\ n < p.notional
      /\ closed = (g * n) \div p.notional
      /\ positions' = [positions EXCEPT ![id] = new] /\ Valued(new)
      /\ Equity(p) = g + MulDiv(p.notional, Gain(p), p.entry_price)
      /\ Equity(new) = (g - closed) + MulDiv(p.notional - n, Gain(p), p.entry_price)
      /\ pools' = MovedPools(Realized(pools, FundingOwed(p)), closed, payout)
  BY <1>2 DEF PartClosed
<1>4. p \in Position /\ p.notional \in Nat \ {0} /\ p.market \in MarketIds
  BY <1>1, <1>3, OpenRecord
<1>5. p.entry_price \in Nat \ {0} /\ Gain(p) \in Int /\ HasMarket(p.market)
  BY <1>1, <1>3, <1>4, ProfitOfGain, ValueTypes
<1>6. fee \in Nat
  BY <1>1, <1>3, <1>4, <1>5, ConfigTypes
<1>7. payout = MaxOf(closed + MulDiv(n, Gain(p), p.entry_price) - fee, 0)
  BY <1>1, <1>3, <1>4, ProfitOfGain DEF PartialPayout
<1>8. payout \in Nat
  <2>1. MulDiv(n, Gain(p), p.entry_price) \in Int
    BY <1>3, <1>5, MulDivType
  <2> HIDE DEF p, fee, payout
  <2>2. QED
    BY <1>6, <1>7, <2>1 DEF MaxOf
<1>9. payout + Worth(new) <= Worth(p) + 1
  <2> HIDE DEF p, fee, payout
  <2>1. MaxOf(closed + MulDiv(n, Gain(p), p.entry_price) - fee, 0)
          + MaxOf((g - closed) + MulDiv(p.notional - n, Gain(p), p.entry_price), 0)
        <= MaxOf(g + MulDiv(p.notional, Gain(p), p.entry_price), 0) + 1
    BY <1>3, <1>4, <1>5, <1>6, PartialCloseWorth
  <2>2. QED
    BY <1>3, <1>7, <2>1 DEF Worth
<1>10. /\ Total(WorthOf') = Total(WorthOf) + w /\ w \in Int
       /\ Worth(p) \in Nat /\ Worth(new) \in Nat
  BY <1>3, WorthRewritten
<1>11. Total(RefundOf') = Total(RefundOf) + 0
  BY <1>1, RefundSame, RefundSums
<1>12. FundingOwed(p) \in Int
  BY <1>1, <1>4, FundingTypes
<1> HIDE DEF p, payout
<1>13. TotalAssets(pools') = TotalAssets(pools) + (-payout)
  <2>1. closed \in Int /\ payout \in Int
    BY <1>8
  <2>2. \A d \in Int : TotalAssets(MovedPools(Realized(pools, d), closed, payout))
                         = TotalAssets(pools) + (-payout)
    BY <1>1, <2>1, PoolsMoved
  <2>3. QED
    BY <1>3, <1>12, <2>2
<1>14. -payout \in Int /\ (-payout) - w - 0 >= -1
  BY <1>8, <1>9, <1>10
<1> HIDE DEF w
<1>15. QED
  BY <1>10, <1>11, <1>13, <1>14, MarkMoves

\* liquidate pays out what the position is worth, to the trader and the keeper.
LEMMA LiquidateMark ==
    ASSUME MarkInv, MarketStill, AllValued, NEW k, NEW id \in PositionIds, Liquidate(k, id)
    PROVE  LpMark' >= LpMark - 1
<1> DEFINE p == positions[id]
           left == Worth(p)
           keeperFee == MinOf(ApplyBps(p.notional, markets[p.market].liquidation_fee_bps), left)
<1>1. /\ Open(id) /\ RemovePosition(id) /\ orders' = orders
      /\ pools' = MovedPools(pools, p.margin, (left - keeperFee) + keeperFee)
      /\ EngineInv /\ MarketBook
  BY DEF Liquidate, SettleLiquidation, orderVars, Worth, MarkInv, EngineInv
<1>2. /\ Total(WorthOf') = Total(WorthOf) + (-left) /\ left \in Nat /\ HasMarket(p.market)
  BY <1>1, WorthRemoved
<1>3. p.margin \in Nat /\ p.market \in MarketIds /\ p.notional \in Nat
  BY <1>1, OpenRecord
<1>4. markets[p.market].liquidation_fee_bps \in Nat
  BY <1>1, <1>2, <1>3, ConfigTypes DEF MarketConfig
<1>5. ApplyBps(p.notional, markets[p.market].liquidation_fee_bps) \in Nat
  BY <1>3, <1>4, ApplyBpsType
<1>6. keeperFee \in Int
  BY <1>2, <1>5 DEF MinOf
<1> HIDE DEF p, left, keeperFee
<1>7. (left - keeperFee) + keeperFee = left /\ left \in Int /\ p.margin \in Int
  BY <1>2, <1>3, <1>6
<1>8. TotalAssets(pools') = TotalAssets(pools) + (-left)
  <2>1. pools' = MovedPools(pools, p.margin, left) /\ EngineInv
    BY <1>1, <1>7
  <2>2. TotalAssets(MovedPools(pools, p.margin, left)) = TotalAssets(pools) + (-left)
    BY <1>7, <2>1, PoolsMoved
  <2>3. QED
    BY <2>1, <2>2
<1>9. Total(RefundOf') = Total(RefundOf) + 0
  BY <1>1, RefundSame, RefundSums
<1>10. -left \in Int /\ (-left) - (-left) - 0 >= -1
  BY <1>7
<1>11. QED
  BY <1>2, <1>8, <1>9, <1>10, MarkMoves

\* An order that is removed takes its refund away.
LEMMA RefundRemoved ==
    ASSUME MarkInv, MarketStill, NEW id \in OrderIds, Resting(id), RemoveOrder(id)
    PROVE  /\ Refund(orders[id]) \in Nat
           /\ Total(RefundOf') = Total(RefundOf) + (-Refund(orders[id]))
<1>1. /\ orders[id] \in Order /\ MarketBook
      /\ ~orders[id].reduce => HasMarket(orders[id].market)
  BY DEF MarkInv, EngineInv, OrderBook, OrderTypeOK, Resting, ListedOrders
<1>2. Refund(orders[id]) \in Nat
  BY <1>1, RefundType
<1>3. Total(RefundOf') = Total(RefundOf) - Refund(orders[id]) + 0
  <2>1. orders' = [orders EXCEPT ![id] = NoOrder]
    BY DEF RemoveOrder
  <2>2. Total(RefundOf') = Total(RefundOf) - (IF Resting(id) THEN Refund(orders[id]) ELSE 0)
                             + (IF NoOrder # NoOrder THEN Refund(NoOrder) ELSE 0)
    BY <2>1, RefundStep
  <2>3. QED
    BY <2>2
<1>4. QED
  BY <1>2, <1>3, RefundSums

\* An order that is stored adds its refund.
LEMMA RefundStored ==
    ASSUME MarkInv, MarketStill, NEW t, NEW o \in Order, StoreOrder(t, o),
           ~o.reduce => HasMarket(o.market)
    PROVE  Total(RefundOf') = Total(RefundOf) + Refund(o)
<1>1. nextOrderId \in OrderIds /\ ~Resting(nextOrderId)
      /\ orders' = [orders EXCEPT ![nextOrderId] = o]
  BY EngineAssumption
     DEF StoreOrder, MarkInv, EngineInv, OrderBook, OrderTypeOK, OrderIds, LiveOrders
<1>2. o # NoOrder /\ o \in Order \cup {NoOrder}
  BY AbsenceAssumption
<1>3. Total(RefundOf') = Total(RefundOf) - (IF Resting(nextOrderId) THEN Refund(orders[nextOrderId]) ELSE 0)
                           + (IF o # NoOrder THEN Refund(o) ELSE 0)
  BY <1>1, <1>2, RefundStep
<1>4. Total(RefundOf') = Total(RefundOf) - 0 + Refund(o)
  BY <1>1, <1>2, <1>3
<1>5. Refund(o) \in Nat
  BY RefundType DEF MarkInv, EngineInv
<1>6. QED
  BY <1>4, <1>5, RefundSums

\* place_order escrows what a cancellation would refund.
LEMMA PlaceOrderMark ==
    ASSUME MarkInv, MarketStill, AllValued, NEW t \in Users, NEW m \in MarketIds,
           NEW s \in Sides, NEW c \in Int, NEW n \in Int, NEW p \in Int,
           NEW d \in {Above, Below}, NEW x \in Nat, PlaceOrder(t, m, s, c, n, p, d, x)
    PROVE  LpMark' >= LpMark - 1
<1> DEFINE fee == Fee(m, n)
           o == [owner |-> t, market |-> m, side |-> s, margin |-> c, notional |-> n,
                 trigger |-> p, dir |-> d, reduce |-> FALSE, reduce_position |-> 0,
                 slippage |-> x]
<1>1. /\ c \in Nat /\ n \in Nat /\ p \in Nat /\ HasMarket(m)
      /\ pools' = Locked(pools, c, fee) /\ StoreOrder(t, o) /\ positions' = positions
      /\ EngineInv /\ MarketBook
  BY DEF PlaceOrder, CanPlace, LockMargin, CanLockMargin, positionVars, MarkInv, EngineInv
<1>2. fee \in Nat
  BY <1>1, ConfigTypes
<1>3. o \in Order /\ Refund(o) = c + fee /\ o.market = m
  BY <1>1 DEF Order, Refund
<1> HIDE DEF o, fee
<1>4. Total(RefundOf') = Total(RefundOf) + (c + fee)
  BY <1>1, <1>3, RefundStored
<1>5. Total(WorthOf') = Total(WorthOf) + 0
  BY <1>1, WorthSame, WorthSums
<1>6. TotalAssets(pools') = TotalAssets(pools) + (c + fee)
  <2>1. c \in Int /\ fee \in Int
    BY <1>2
  <2>2. QED
    BY <1>1, <2>1, PoolsMoved
<1>7. c + fee \in Int /\ (c + fee) - 0 - (c + fee) >= -1
  BY <1>1, <1>2
<1>8. QED
  BY <1>4, <1>5, <1>6, <1>7, MarkMoves

\* A stop escrows nothing and is refunded nothing.
LEMMA PlaceStopMark ==
    ASSUME MarkInv, MarketStill, AllValued, NEW t \in Users, NEW id \in PositionIds,
           NEW trigger \in Int, NEW d \in {Above, Below}, PlaceStop(t, id, trigger, d)
    PROVE  LpMark' >= LpMark - 1
<1> DEFINE p == positions[id]
           o == [owner |-> t, market |-> p.market, side |-> p.side, margin |-> 0,
                 notional |-> p.notional, trigger |-> trigger, dir |-> d, reduce |-> TRUE,
                 reduce_position |-> id, slippage |-> 0]
<1>1. /\ Open(id) /\ trigger \in Nat /\ StoreOrder(t, o) /\ positions' = positions
      /\ pools' = pools /\ EngineInv
  BY DEF PlaceStop, Owned, positionVars, vaultVars, MarkInv
<1>2. p.market \in MarketIds /\ p.side \in Sides /\ p.notional \in Nat /\ id \in Nat
  BY <1>1, OpenRecord DEF PositionIds
<1>3. o \in Order /\ Refund(o) = 0 /\ o.reduce
  <2> HIDE DEF p
  <2> QED
    BY <1>1, <1>2 DEF Order, Refund
<1> HIDE DEF o
<1>4. Total(RefundOf') = Total(RefundOf) + 0
  BY <1>1, <1>3, RefundStored
<1>5. Total(WorthOf') = Total(WorthOf) + 0
  BY <1>1, WorthSame, WorthSums
<1>6. TotalAssets(pools') = TotalAssets(pools) + 0
  BY <1>1 DEF TotalAssets, EngineInv, VaultInv, VaultTypeOK
<1>7. 0 - 0 - 0 >= -1
  OBVIOUS
<1>8. QED
  BY <1>4, <1>5, <1>6, <1>7, MarkMoves

\* While the fee stands still, cancel_order refunds what was escrowed.
LEMMA CancelOrderMark ==
    ASSUME MarkInv, MarketStill, AllValued, NEW t \in Users, NEW id \in OrderIds,
           CancelOrder(t, id)
    PROVE  LpMark' >= LpMark - 1
<1> DEFINE o == orders[id]
           refund == Refund(o)
<1>1. /\ Resting(id) /\ RemoveOrder(id) /\ positions' = positions /\ EngineInv /\ MarketBook
      /\ IF o.reduce THEN pools' = pools
         ELSE pools' = MovedPools(pools, o.margin, o.margin + Fee(o.market, o.notional))
  BY DEF CancelOrder, CancelPayout, Settle, CanSettle, positionVars, vaultVars, MarkInv, EngineInv
<1>2. o \in Order /\ o.margin \in Nat
  BY <1>1 DEF EngineInv, OrderBook, OrderTypeOK, Resting, Order
<1>3. refund \in Nat /\ Total(RefundOf') = Total(RefundOf) + (-refund)
  BY <1>1, RefundRemoved
<1>4. TotalAssets(pools') = TotalAssets(pools) + (-refund)
  <2>1. CASE o.reduce
    <3>1. refund = 0 /\ pools' = pools
      BY <1>1, <2>1 DEF Refund
    <3>2. TotalAssets(pools) \in Int
      BY <1>1 DEF EngineInv, VaultInv, VaultTypeOK, TotalAssets
    <3>3. TotalAssets(pools) = TotalAssets(pools) + (-refund)
      <4> HIDE DEF refund
      <4>1. \A a \in Int, r \in Int : r = 0 => a = a + (-r)
        OBVIOUS
      <4>2. QED
        BY <1>3, <3>1, <3>2, <4>1
    <3>4. QED
      BY <3>1, <3>3
  <2>2. CASE ~o.reduce
    <3>1. pools' = MovedPools(pools, o.margin, refund)
      BY <1>1, <2>2 DEF Refund
    <3> HIDE DEF o, refund
    <3>2. o.margin \in Int /\ refund \in Int
      BY <1>2, <1>3
    <3>3. QED
      BY <1>1, <3>1, <3>2, PoolsMoved
  <2>3. QED
    BY <2>1, <2>2
<1>5. Total(WorthOf') = Total(WorthOf) + 0
  BY <1>1, WorthSame, WorthSums
<1> HIDE DEF refund
<1>6. -refund \in Int /\ (-refund) - 0 - (-refund) >= -1
  BY <1>3
<1>7. QED
  BY <1>3, <1>4, <1>5, <1>6, MarkMoves

\* A fill turns the refund of an order into a position worth its margin.
LEMMA FillEntryMark ==
    ASSUME MarkInv, MarketStill, AllValued, AllValued', NEW k, NEW id \in OrderIds,
           FillEntry(k, id)
    PROVE  LpMark' >= LpMark - 1
<1> DEFINE o == orders[id]
           refund == Refund(o)
           c == o.margin
<1>1. /\ o.owner \in Users /\ o.market \in MarketIds /\ o.side \in Sides
      /\ c \in Nat \ {0} /\ o.notional \in Nat \ {0} /\ ~o.reduce /\ Resting(id)
      /\ HasMarket(o.market) /\ Mark(o.market) \in Nat
      /\ CreatePosition(o.owner, o.market, o.side, c, o.notional)
      /\ EngineInv /\ MarketBook
  BY FillEntryFacts DEF MarkInv, EngineInv
<1>2. RemoveOrder(id) /\ pools' = pools
  BY DEF FillEntry, vaultVars
<1>3. Total(WorthOf') = Total(WorthOf) + c
  <2> HIDE DEF o, c
  <2> QED
    BY <1>1, WorthCreated
<1>4. refund \in Nat /\ Total(RefundOf') = Total(RefundOf) + (-refund)
  BY <1>1, <1>2, RefundRemoved
<1>5. refund >= c
  <2>1. Fee(o.market, o.notional) \in Nat
    BY <1>1, ConfigTypes
  <2>2. refund = c + Fee(o.market, o.notional)
    BY <1>1 DEF Refund
  <2> HIDE DEF refund, o, c
  <2>3. QED
    BY <1>1, <2>1, <2>2
<1>6. TotalAssets(pools') = TotalAssets(pools) + 0
  BY <1>1, <1>2 DEF TotalAssets, EngineInv, VaultInv, VaultTypeOK
<1> HIDE DEF refund, o, c
<1>7. -refund \in Int /\ c \in Int /\ 0 - c - (-refund) >= -1
  BY <1>1, <1>4, <1>5
<1>8. QED
  BY <1>3, <1>4, <1>6, <1>7, MarkMoves

\* A stop that fills closes its position; it had nothing to be refunded.
LEMMA FillStopMark ==
    ASSUME MarkInv, MarketStill, AllValued, NEW k, NEW id \in OrderIds, FillStop(k, id)
    PROVE  LpMark' >= LpMark - 1
<1> DEFINE o == orders[id]
           target == o.reduce_position
<1>1. /\ target \in PositionIds /\ Open(target) /\ CloseInternal(target)
      /\ o.reduce /\ Resting(id)
  BY FillStopFacts DEF MarkInv
<1>2. RemoveOrder(id)
  BY DEF FillStop
<1>3. Total(RefundOf') = Total(RefundOf) + (-Refund(o)) /\ Refund(o) = 0
  BY <1>1, <1>2, RefundRemoved DEF Refund
<1>4. Total(RefundOf') = Total(RefundOf)
  <2> DEFINE r == Refund(o)
  <2>1. Total(RefundOf') = Total(RefundOf) + (-r) /\ r \in Int
    BY <1>1, <1>2, RefundRemoved
  <2>2. r = 0
    BY <1>3
  <2>3. Total(RefundOf) \in Int
    BY RefundSums
  <2> HIDE DEF r
  <2>4. Total(RefundOf') + r = Total(RefundOf)
    BY <2>1, <2>3
  <2>5. Total(RefundOf') \in Int
    BY <2>1, <2>3
  <2>6. QED
    BY <2>2, <2>4, <2>5
<1> HIDE DEF target
<1>5. QED
  BY <1>1, <1>4, CloseMark

\* LPs who come and go, and transfers, take nothing from the pools as long as no
\* share is redeemed.
LEMMA PoolMark ==
    ASSUME MarkInv, EngineInv', MarketStill, AllValued, PoolNext, totalShares' = totalShares
    PROVE  LpMark' >= LpMark - 1
<1>1. positions' = positions /\ orders' = orders /\ EngineInv
  BY DEF PoolNext, engineVars, positionVars, orderVars, MarkInv
<1>2. TotalAssets(pools') \in Int
  BY DEF EngineInv, VaultInv, VaultTypeOK, TotalAssets
<1>3. TotalAssets(pools') >= TotalAssets(pools)
  <2>1. ASSUME NEW u, NEW a \in Amounts, AddLiquidity(u, a)
        PROVE  TotalAssets(pools') >= TotalAssets(pools)
    <3>1. a \in Int /\ a > 0 /\ pools' = [pools EXCEPT !.lp_cash = @ + a]
      BY <2>1, TokenAssumption DEF AddLiquidity, CanDeposit
    <3>2. TotalAssets(pools') = TotalAssets(pools) + a /\ TotalAssets(pools) \in Nat
      BY <1>1, <3>1, PoolsMoved
    <3>3. QED
      BY <3>1, <3>2
  <2>2. ASSUME NEW u, NEW n \in ShareAmounts, RemoveLiquidity(u, n) PROVE FALSE
    <3>1. n \in Int /\ n > 0 /\ totalShares' = totalShares - n /\ totalShares \in Nat
      BY <1>1, <2>2, ShareAssumption
         DEF RemoveLiquidity, CanRedeem, EngineInv, VaultInv, VaultTypeOK
    <3>2. QED
      BY <3>1
  <2>3. CASE UNCHANGED vaultVars
    <3>1. pools' = pools /\ TotalAssets(pools) \in Int
      BY <1>1, <2>3 DEF vaultVars, EngineInv, VaultInv, VaultTypeOK, TotalAssets
    <3>2. QED
      BY <3>1
  <2>4. QED
    BY <2>1, <2>2, <2>3 DEF PoolNext, LpNext
<1>4. QED
  BY <1>1, <1>2, <1>3, MarkSame

\* The calls on positions cost the LPs one unit at most.
LEMMA PositionMark ==
    ASSUME MarkInv, EngineInv', MarketStill, NoneGrew, AllValued, AllValued', PositionNext
    PROVE  LpMark' >= LpMark - 1
<1>1. Notionals \subseteq Int /\ Margins \subseteq Int /\ Amounts \subseteq Int /\ EngineInv
  BY EngineAssumption, TokenAssumption DEF MarkInv
<1>2. ASSUME NEW t \in Users, NEW m \in MarketIds, NEW s \in Sides, NEW c \in Margins,
             NEW n \in Notionals, NEW r, NEW x, OpenPosition(t, m, s, c, n, r, x)
      PROVE  LpMark' >= LpMark - 1
  BY <1>1, <1>2, OpenMark
<1>3. ASSUME NEW t, NEW id \in PositionIds, ClosePosition(t, id) PROVE LpMark' >= LpMark - 1
  <2>1. Open(id) /\ CloseInternal(id) /\ orders' = orders
    BY <1>3 DEF ClosePosition, Owned, orderVars
  <2>2. Total(RefundOf') = Total(RefundOf)
    BY <2>1, RefundSame
  <2>3. QED
    BY <2>1, <2>2, CloseMark
<1>4. ASSUME NEW t \in Users, NEW id \in PositionIds, NEW a \in Amounts,
             AddPositionMargin(t, id, a) \/ RemovePositionMargin(t, id, a)
      PROVE  LpMark' >= LpMark - 1
  BY <1>1, <1>4, AddMarginMark, RemoveMarginMark
<1>5. ASSUME NEW t, NEW id \in PositionIds, NEW c, NEW n \in Notionals, NEW r, NEW x,
             Increase(t, id, c, n, r, x)
      PROVE  FALSE
  BY <1>1, <1>5, IncreaseGrows
<1>6. ASSUME NEW t \in Users, NEW id \in PositionIds, NEW n \in Notionals, NEW r, NEW x,
             Decrease(t, id, n, r, x)
      PROVE  LpMark' >= LpMark - 1
  BY <1>1, <1>6, DecreaseMark
<1> HIDE DEF LpMark
<1>7. QED
  BY <1>2, <1>3, <1>4, <1>5, <1>6 DEF PositionNext

\* The calls on orders cost the LPs nothing.
LEMMA OrderMark ==
    ASSUME MarkInv, MarketStill, AllValued, OrderNext
    PROVE  LpMark' >= LpMark - 1
<1>1. /\ Notionals \subseteq Int /\ Margins \subseteq Int /\ Triggers \subseteq Int
      /\ Slippages \subseteq Nat
  BY EngineAssumption
<1>2. ASSUME NEW t \in Users, NEW m \in MarketIds, NEW s \in Sides, NEW c \in Margins,
             NEW n \in Notionals, NEW p \in Triggers, NEW d \in {Above, Below},
             NEW x \in Slippages, PlaceOrder(t, m, s, c, n, p, d, x)
      PROVE  LpMark' >= LpMark - 1
  BY <1>1, <1>2, PlaceOrderMark
<1>3. ASSUME NEW t \in Users, NEW id \in PositionIds, NEW p \in Triggers,
             NEW d \in {Above, Below}, PlaceStop(t, id, p, d)
      PROVE  LpMark' >= LpMark - 1
  BY <1>1, <1>3, PlaceStopMark
<1>4. ASSUME NEW t \in Users, NEW id \in OrderIds, CancelOrder(t, id)
      PROVE  LpMark' >= LpMark - 1
  BY <1>4, CancelOrderMark
<1>5. QED
  BY <1>2, <1>3, <1>4 DEF OrderNext

\* Nor do the keepers' calls.
LEMMA KeeperMark ==
    ASSUME MarkInv, MarketStill, AllValued, AllValued', KeeperNext
    PROVE  LpMark' >= LpMark - 1
<1>1. ASSUME NEW k, NEW id \in PositionIds, Liquidate(k, id) PROVE LpMark' >= LpMark - 1
  BY <1>1, LiquidateMark
<1>2. ASSUME NEW k, NEW m, UpdateFunding(k, m) PROVE LpMark' >= LpMark - 1
  <2>1. positions' = positions /\ orders' = orders /\ pools' = pools
    BY <1>2 DEF UpdateFunding, positionVars, orderVars, vaultVars
  <2>2. TotalAssets(pools) \in Int
    BY DEF MarkInv, EngineInv, VaultInv, VaultTypeOK, TotalAssets
  <2>3. TotalAssets(pools') >= TotalAssets(pools) /\ TotalAssets(pools') \in Int
    BY <2>1, <2>2
  <2>4. QED
    BY <2>1, <2>3, MarkSame
<1>3. ASSUME NEW k, NEW id \in OrderIds, FillEntry(k, id) \/ FillStop(k, id)
      PROVE  LpMark' >= LpMark - 1
  BY <1>3, FillEntryMark, FillStopMark
<1>4. QED
  BY <1>1, <1>2, <1>3 DEF KeeperNext

\* Nobody trades value out of the LPs: while the market stands still, what the LPs
\* are owed at the mark falls in one transaction by one unit at most, the one that
\* the divisions of a partial close can round in the trader's favour.
THEOREM LpsLoseOnlyToTheMarket == Spec => LpMarkKept
<1>1. ASSUME MarkInv, EngineInv', [Next]_vars, MarketStill, NoneGrew, AllValued, AllValued',
             UNCHANGED totalShares
      PROVE  LpMark' >= LpMark - 1
  <2>1. CASE PositionNext
    BY <1>1, <2>1, PositionMark
  <2>2. CASE OrderNext
    BY <1>1, <2>2, OrderMark
  <2>3. CASE KeeperNext
    BY <1>1, <2>3, KeeperMark
  <2>4. CASE PoolNext
    BY <1>1, <2>4, PoolMark
  <2>5. CASE PriceMove \/ ControlNext \/ UNCHANGED vars
    <3>1. positions' = positions /\ orders' = orders /\ pools' = pools
      BY <2>5 DEF PriceMove, ControlNext, vars, engineVars, positionVars, orderVars, vaultVars
    <3>2. TotalAssets(pools) \in Int
      BY <1>1 DEF MarkInv, EngineInv, VaultInv, VaultTypeOK, TotalAssets
    <3>3. TotalAssets(pools') >= TotalAssets(pools) /\ TotalAssets(pools') \in Int
      BY <3>1, <3>2
    <3>4. QED
      BY <1>1, <3>1, <3>3, MarkSame
  <2>6. QED
    BY <1>1, <2>1, <2>2, <2>3, <2>4, <2>5 DEF Next
<1>2. EngineInv /\ ListedOrders => MarkInv
  BY DEF MarkInv
<1>3. EngineInv /\ [Next]_vars => EngineInv'
  BY EngineStepInv
<1>4. QED
  BY <1>1, <1>2, <1>3, OrdersListed, PTL DEF Spec, LpMarkKept

-----------------------------------------------------------------------------
(* The reported liquidation price.                                         *)

\* A position is liquidatable when its profit is below what it lacks.
LEMMA ProfitLacking ==
    ASSUME EngineInv, NEW p \in Position, Valued(p)
    PROVE  LET lacking == Maintenance(p) - p.margin + FundingOwed(p)
           IN  lacking \in Int /\ (Liquidatable(p) <=> Pnl(p, p.notional) < lacking)
<1>1. /\ p.margin \in Nat /\ p.notional \in Nat /\ Pnl(p, p.notional) \in Int
      /\ FundingOwed(p) \in Int
  BY ValueTypes, FundingTypes DEF EngineInv, Position
<1>2. HasMarket(p.market) /\ p.market \in MarketIds
  BY ValueTypes DEF EngineInv
<1>3. Maintenance(p) \in Nat
  BY <1>1, <1>2, MaintenanceOf DEF EngineInv
<1>4. QED
  BY <1>1, <1>3 DEF Liquidatable, Equity

\* position_view's price and the keeper's check agree, for every position the books
\* can hold, every mark, funding and configuration: the price is cut by one division,
\* the profit in the check by another.
THEOREM LiquidationPriceIsTrue == Spec => []LiquidationPriceTells
<1>1. ASSUME EngineInv, NEW i \in PositionIds, Open(i), Valued(positions[i])
      PROVE  LET p == positions[i]
                 past == (IF p.side = Long THEN -1 ELSE 1) * (Mark(p.market) - LiquidationPrice(p))
             IN  /\ past < 0 => ~Liquidatable(p)
                 /\ past * p.notional >= p.notional + p.entry_price => Liquidatable(p)
  <2> DEFINE p == positions[i]
             n == p.notional
             e == p.entry_price
             k == Mark(p.market)
             lacking == Maintenance(p) - p.margin + FundingOwed(p)
             away == MulDiv(e, lacking, n)
             moved == IF p.side = Long THEN k - e ELSE e - k
             reported == LiquidationPrice(p)
             past == (IF p.side = Long THEN -1 ELSE 1) * (k - reported)
  <2>1. /\ p \in Position /\ n \in Nat \ {0} /\ e \in Nat \ {0} /\ p.side \in Sides
        /\ p.market \in MarketIds
    BY <1>1, OpenRecord DEF Valued, Position
  <2>2. k \in Nat /\ HasMarket(p.market)
    BY <1>1, <2>1, ConfigTypes DEF Valued, Priced, EngineInv
  <2>3. lacking \in Int /\ (Liquidatable(p) <=> Pnl(p, n) < lacking)
    BY <1>1, <2>1, ProfitLacking
  <2>4. moved \in Int /\ Pnl(p, n) = MulDiv(n, moved, e)
    BY <2>1, <2>2 DEF Pnl, PositionPnl
  <2>5. reported = MaxOf(IF p.side = Long THEN e + away ELSE e - away, 0)
    BY DEF LiquidationPrice
  <2> HIDE DEF p, n, e, k, lacking, away, moved, reported
  <2>6. /\ away \in Int /\ MulDiv(n, moved, e) \in Int
        /\ moved > away => MulDiv(n, moved, e) >= lacking
        /\ (away - moved) * n >= n + e => MulDiv(n, moved, e) < lacking
    BY <2>1, <2>3, <2>4, BreakEven DEF away
  <2>7. reported \in Nat /\ past \in Int /\ (past < 0 => moved > away)
        /\ (past > 0 => away - moved >= past)
    <3>1. CASE p.side = Long
      <4>1. moved = k - e /\ past = reported - k /\ reported = MaxOf(e + away, 0)
        BY <2>1, <2>2, <2>5, <2>6, <3>1 DEF moved, MaxOf
      <4>2. QED
        BY <2>1, <2>2, <2>6, <4>1 DEF MaxOf
    <3>2. CASE p.side # Long
      <4>1. moved = e - k /\ past = k - reported /\ reported = MaxOf(e - away, 0)
        BY <2>1, <2>2, <2>5, <2>6, <3>2 DEF moved, MaxOf
      <4>2. QED
        BY <2>1, <2>2, <2>6, <4>1 DEF MaxOf
    <3>3. QED
      BY <3>1, <3>2
  <2> HIDE DEF past
  <2>8. past < 0 => ~Liquidatable(p)
    BY <2>3, <2>4, <2>6, <2>7
  <2>9. ASSUME past * n >= n + e PROVE Liquidatable(p)
    <3>1. past > 0
      <4> SUFFICES ASSUME past <= 0 PROVE FALSE
        BY <2>7
      <4>1. -past \in Nat /\ (-past) * n \in Nat /\ past * n = -((-past) * n)
        BY <2>1, <2>7
      <4>2. QED
        BY <2>1, <2>9, <4>1
    <3>2. PICK g \in Nat : away - moved = past + g
      <4>1. (away - moved) - past \in Nat
        BY <2>4, <2>6, <2>7, <3>1
      <4>2. away - moved = past + ((away - moved) - past)
        BY <2>4, <2>6, <2>7
      <4>3. QED
        BY <4>1, <4>2
    <3>3. (away - moved) * n = past * n + g * n /\ g * n \in Nat /\ past * n \in Int
      BY <2>1, <2>7, <3>2
    <3>4. (away - moved) * n >= n + e
      BY <2>1, <2>9, <3>3
    <3>5. QED
      BY <2>3, <2>4, <2>6, <3>4
  <2>10. QED
    BY <2>8, <2>9 DEF p, n, e, k, reported, past
<1>2. EngineInv => LiquidationPriceTells
  BY <1>1 DEF LiquidationPriceTells
<1>3. QED
  BY <1>2, EngineInvariance, PTL

-----------------------------------------------------------------------------
(* Segregated claims: the engine and the vault implement Custody.          *)

\* What a transfer into the vault, and a payment out of it, are in Custody.
LEMMA MoneyIn ==
    ASSUME EngineInv, NEW u \in Users, NEW n \in Int, CanTransfer(balance, u, n),
           balance' = Transferred(balance, u, Vault, n)
    PROVE  Segregated!Between(u) /\ Segregated!Out = -n
<1>1. balance \in [Accounts -> Nat] /\ u \in Accounts /\ Vault \in Accounts /\ u # Vault
  BY TokenAssumption DEF EngineInv, VaultInv, VaultTypeOK, TokenTypeOK, Accounts
<1>2. /\ balance'[Vault] = balance[Vault] + n
      /\ \A v \in Users : balance'[v] = IF v = u THEN balance[v] - n ELSE balance[v]
  BY <1>1, TokenAssumption DEF Transferred, Accounts
<1>3. Segregated!Out = -n
  BY <1>1, <1>2 DEF Segregated!Out
<1>4. Purses' = [Purses EXCEPT ![u] = @ + Segregated!Out]
  <2>1. \A v \in Users : balance[v] \in Nat
    BY <1>1 DEF Accounts
  <2>2. Purses' = [v \in Users |-> IF v = u THEN balance[v] - n ELSE balance[v]]
    BY <1>2 DEF Purses
  <2>3. balance[u] - n = balance[u] + Segregated!Out
    BY <1>3, <2>1
  <2>4. QED
    BY <2>2, <2>3 DEF Purses
<1>5. QED
  BY <1>3, <1>4 DEF Segregated!Between

\* Who holds what after a payment out of the vault.
LEMMA PaidBalances ==
    ASSUME NEW bal \in [Accounts -> Nat], NEW u \in Users, NEW n \in Nat, CanPay(bal, n)
    PROVE  /\ Paid(bal, u, n) \in [Accounts -> Nat]
           /\ Paid(bal, u, n)[Vault] = bal[Vault] - n
           /\ \A v \in Users : Paid(bal, u, n)[v] = IF v = u THEN bal[v] + n ELSE bal[v]
<1>1. u \in Accounts /\ Vault \in Accounts /\ u # Vault
  BY TokenAssumption DEF Accounts
<1>2. CASE n > 0
  BY <1>1, <1>2, PayFacts, TokenAssumption DEF Paid, Transferred, Accounts
<1>3. CASE n = 0
  BY <1>1, <1>3, PayFacts DEF Paid, Accounts
<1>4. QED
  BY <1>2, <1>3

LEMMA MoneyOut ==
    ASSUME EngineInv, NEW u \in Users, NEW n \in Nat, CanPay(balance, n),
           balance' = Paid(balance, u, n)
    PROVE  Segregated!Between(u) /\ Segregated!Out = n
<1>1. balance \in [Accounts -> Nat] /\ balance[Vault] \in Nat
  BY DEF EngineInv, VaultInv, VaultTypeOK, TokenTypeOK, Accounts
<1>2. /\ balance'[Vault] = balance[Vault] - n
      /\ \A v \in Users : balance'[v] = IF v = u THEN balance[v] + n ELSE balance[v]
  BY <1>1, PaidBalances
<1>3. Segregated!Out = n
  BY <1>1, <1>2 DEF Segregated!Out
<1>4. Purses' = [Purses EXCEPT ![u] = @ + Segregated!Out]
  <2>1. Purses' = [v \in Users |-> IF v = u THEN balance[v] + n ELSE balance[v]]
    BY <1>2 DEF Purses
  <2>2. QED
    BY <1>3, <2>1 DEF Purses
<1>5. QED
  BY <1>3, <1>4 DEF Segregated!Between

\* A position's record that appears, changes and goes, as a claim.
LEMMA ClaimOpened ==
    ASSUME EngineInv, NEW t \in Users, NEW m \in MarketIds, NEW s \in Sides, NEW c \in Nat,
           NEW n \in Nat, Mark(m) \in Nat, CreatePosition(t, m, s, c, n)
    PROVE  /\ nextId \in PositionIds
           /\ MarginClaims[nextId] = Segregated!Unused
           /\ MarginClaims' = [MarginClaims EXCEPT ![nextId] = Segregated!Held(t, c)]
<1> DEFINE new == [owner |-> t, market |-> m, side |-> s, margin |-> c, notional |-> n,
                   entry_price |-> Mark(m), entry_funding |-> cumFunding[m]]
<1>1. nextId \in PositionIds /\ ~Open(nextId) /\ ~(nextId < nextId)
  <2>1. nextId \in PositionIds /\ ~(nextId < nextId)
    BY EngineAssumption
       DEF EngineInv, PositionBook, PositionTypeOK, CreatePosition, PositionIds
  <2>2. QED
    BY <2>1, OpenRecord
<1>2. new # NoPosition /\ positions'[nextId] = new
  <2>1. new \in Position
    BY DEF EngineInv, MarketBook, FeedTypeOK, Position
  <2>2. QED
    BY <1>1, <2>1, AbsenceAssumption DEF EngineInv, PositionBook, PositionTypeOK, CreatePosition
<1>3. MarginClaims[nextId] = Segregated!Unused
  BY <1>1 DEF MarginClaims, NoClaim, Segregated!Unused
<1>4. ASSUME NEW i \in PositionIds
      PROVE  MarginClaims'[i] = IF i = nextId THEN Segregated!Held(t, c) ELSE MarginClaims[i]
  <2>1. CASE i = nextId
    <3>1. positions'[i].owner = t /\ positions'[i].margin = c /\ Open(i)'
      BY <1>2, <2>1 DEF Open
    <3>2. QED
      BY <2>1, <3>1 DEF MarginClaims, Claim, Segregated!Held
  <2>2. CASE i # nextId
    <3>1. positions'[i] = positions[i] /\ (i < nextId' <=> i < nextId)
      BY <1>1, <2>2 DEF CreatePosition, EngineInv, PositionBook, PositionTypeOK, PositionIds
    <3>2. QED
      BY <2>2, <3>1 DEF MarginClaims, Open, NoClaim
  <2>3. QED
    BY <2>1, <2>2
<1>5. QED
  BY <1>1, <1>3, <1>4 DEF MarginClaims

LEMMA ClaimHeld ==
    ASSUME EngineInv, NEW id \in PositionIds, Open(id)
    PROVE  /\ Segregated!IsHeld(MarginClaims[id])
           /\ MarginClaims[id].owner = positions[id].owner
           /\ MarginClaims[id].amount = positions[id].margin
  BY DEF MarginClaims, Claim, Segregated!IsHeld

LEMMA ClaimClosed ==
    ASSUME EngineInv, NEW id \in PositionIds, Open(id), RemovePosition(id)
    PROVE  MarginClaims' = [MarginClaims EXCEPT ![id] = Segregated!Closed]
<1>1. id < nextId /\ nextId' = nextId /\ positions' = [positions EXCEPT ![id] = NoPosition]
  BY OpenRecord DEF RemovePosition
<1>2. ASSUME NEW i \in PositionIds
      PROVE  MarginClaims'[i] = IF i = id THEN Segregated!Closed ELSE MarginClaims[i]
  BY <1>1 DEF MarginClaims, Open, NoClaim, Segregated!Closed, EngineInv, PositionBook,
              PositionTypeOK
<1>3. QED
  BY <1>2 DEF MarginClaims

LEMMA ClaimAdjusted ==
    ASSUME EngineInv, NEW id \in PositionIds, Open(id), NEW new \in Position,
           new.owner = positions[id].owner, StorePosition(id, new)
    PROVE  /\ MarginClaims' = [MarginClaims EXCEPT ![id].amount = new.margin]
           /\ Segregated!IsHeld(MarginClaims'[id]) /\ MarginClaims'[id].amount = new.margin
<1>1. /\ nextId' = nextId /\ positions' = [positions EXCEPT ![id] = new] /\ new # NoPosition
      /\ id \in DOMAIN positions
  BY AbsenceAssumption DEF StorePosition, EngineInv, PositionBook, PositionTypeOK
<1>2. MarginClaims[id] = Claim(new.owner, positions[id].margin)
  BY DEF MarginClaims
<1>3. MarginClaims'[id] = Claim(new.owner, new.margin)
  BY <1>1 DEF MarginClaims, Open
<1>4. [MarginClaims[id] EXCEPT !.amount = new.margin] = Claim(new.owner, new.margin)
  BY <1>2 DEF Claim
<1>5. ASSUME NEW i \in PositionIds, i # id PROVE MarginClaims'[i] = MarginClaims[i]
  BY <1>1, <1>5 DEF MarginClaims, Open, NoClaim
<1>6. MarginClaims' = [MarginClaims EXCEPT ![id] = [@ EXCEPT !.amount = new.margin]]
  BY <1>3, <1>4, <1>5 DEF MarginClaims
<1>7. QED
  BY <1>3, <1>6 DEF Claim, Segregated!IsHeld

\* The same of orders.  A stop holds nothing, so that its id only counts as used.
LEMMA EscrowOpened ==
    ASSUME EngineInv, NEW t \in Users, NEW o \in Order, o.owner = t, StoreOrder(t, o)
    PROVE  /\ nextOrderId \in OrderIds
           /\ EscrowClaims[nextOrderId] = Segregated!Unused
           /\ EscrowClaims' = [EscrowClaims EXCEPT ![nextOrderId] =
                                  IF o.reduce THEN Segregated!Closed
                                  ELSE Segregated!Held(t, o.margin)]
<1> DEFINE next == IF o.reduce THEN Segregated!Closed ELSE Segregated!Held(t, o.margin)
<1>1. /\ nextOrderId \in OrderIds /\ ~Resting(nextOrderId) /\ o # NoOrder
      /\ orders' = [orders EXCEPT ![nextOrderId] = o] /\ nextOrderId' = nextOrderId + 1
      /\ nextOrderId \in Nat
  <2>1. nextOrderId \in OrderIds /\ nextOrderId \in Nat /\ ~(nextOrderId < nextOrderId)
    BY EngineAssumption DEF EngineInv, OrderBook, OrderTypeOK, StoreOrder, OrderIds
  <2>2. ~Resting(nextOrderId)
    BY <2>1 DEF EngineInv, OrderBook, LiveOrders
  <2>3. QED
    BY <2>1, <2>2, AbsenceAssumption DEF StoreOrder
<1>2. EscrowClaims[nextOrderId] = Segregated!Unused
  BY <1>1 DEF EscrowClaims, NoClaim, Segregated!Unused
<1>3. ASSUME NEW i \in OrderIds
      PROVE  EscrowClaims'[i] = IF i = nextOrderId THEN next ELSE EscrowClaims[i]
  <2>1. CASE i = nextOrderId
    <3>1. orders'[i] = o /\ Resting(i)' /\ i < nextOrderId'
      BY <1>1, <2>1 DEF EngineInv, OrderBook, OrderTypeOK, Resting
    <3>2. QED
      BY <2>1, <3>1 DEF EscrowClaims, Claim, NoClaim, Segregated!Held, Segregated!Closed
  <2>2. CASE i # nextOrderId
    <3>1. orders'[i] = orders[i] /\ (i < nextOrderId' <=> i < nextOrderId)
      BY <1>1, <2>2 DEF EngineInv, OrderBook, OrderTypeOK, OrderIds
    <3>2. QED
      BY <2>2, <3>1 DEF EscrowClaims, Resting, NoClaim
  <2>3. QED
    BY <2>1, <2>2
<1>4. QED
  BY <1>1, <1>2, <1>3 DEF EscrowClaims

LEMMA EscrowHeld ==
    ASSUME EngineInv, NEW id \in OrderIds, Resting(id), ~orders[id].reduce
    PROVE  EscrowClaims[id] = Segregated!Held(orders[id].owner, orders[id].margin)
  BY DEF EscrowClaims, Claim, Segregated!Held

LEMMA EscrowClosed ==
    ASSUME EngineInv, NEW id \in OrderIds, Resting(id), RemoveOrder(id)
    PROVE  /\ EscrowClaims' = [EscrowClaims EXCEPT ![id] = Segregated!Closed]
           /\ orders[id].reduce => EscrowClaims' = EscrowClaims
<1>1. id < nextOrderId /\ nextOrderId' = nextOrderId /\ orders' = [orders EXCEPT ![id] = NoOrder]
  BY DEF EngineInv, OrderBook, LiveOrders, RemoveOrder
<1>2. ASSUME NEW i \in OrderIds
      PROVE  EscrowClaims'[i] = IF i = id THEN Segregated!Closed ELSE EscrowClaims[i]
  BY <1>1 DEF EscrowClaims, Resting, NoClaim, Segregated!Closed, EngineInv, OrderBook,
              OrderTypeOK
<1>3. EscrowClaims' = [EscrowClaims EXCEPT ![id] = Segregated!Closed]
  BY <1>2 DEF EscrowClaims
<1>4. orders[id].reduce => EscrowClaims[id] = Segregated!Closed
  BY <1>1 DEF EscrowClaims, NoClaim, Segregated!Closed
<1>5. QED
  BY <1>3, <1>4 DEF EscrowClaims

LEMMA ClaimsSame ==
    /\ UNCHANGED positionVars => UNCHANGED MarginClaims
    /\ UNCHANGED orderVars => UNCHANGED EscrowClaims
<1>1. ASSUME UNCHANGED positionVars PROVE MarginClaims' = MarginClaims
  BY <1>1 DEF positionVars, MarginClaims, Open
<1>2. ASSUME UNCHANGED orderVars PROVE EscrowClaims' = EscrowClaims
  BY <1>2 DEF orderVars, EscrowClaims, Resting
<1>3. QED
  BY <1>1, <1>2
-----------------------------------------------------------------------------
\* What the vault's custody calls are in Custody.
LEMMA LockBrings ==
    ASSUME EngineInv, EngineInv', NEW t \in Users, NEW c \in Int, NEW f \in Int,
           LockMargin(t, c, f)
    PROVE  Segregated!Brings(t, c)
<1>1. /\ c > 0 /\ f >= 0 /\ CanTransfer(balance, t, c + f) /\ c + f \in Int
      /\ balance' = Transferred(balance, t, Vault, c + f)
      /\ pools'.lp_cash = pools.lp_cash + f
      /\ pools.lp_cash \in Nat /\ pools'.lp_cash \in Nat
  BY DEF LockMargin, CanLockMargin, CanLock, Locked, EngineInv, VaultInv, VaultTypeOK
<1>2. Segregated!Between(t) /\ Segregated!Out = -(c + f)
  BY <1>1, MoneyIn
<1>3. -Segregated!Out >= c /\ pools'.lp_cash = pools.lp_cash + (-Segregated!Out - c)
  BY <1>1, <1>2
<1>4. QED
  BY <1>1, <1>2, <1>3 DEF Segregated!Brings, Segregated!PoolTakes

LEMMA SettlePays ==
    ASSUME EngineInv, EngineInv', NEW t \in Users, NEW c \in Int, NEW out \in Int,
           Settle(t, c, out)
    PROVE  /\ Segregated!Between(t) /\ Segregated!Out = out /\ out >= 0
           /\ Segregated!PoolTakes(c - out)
<1>1. /\ out \in Nat /\ CanPay(balance, out) /\ balance' = Paid(balance, t, out)
      /\ pools'.lp_cash = pools.lp_cash - (out - c)
      /\ pools.lp_cash \in Nat /\ pools'.lp_cash \in Nat
  BY DEF Settle, CanSettle, CanMovePools, MovedPools, EngineInv, VaultInv, VaultTypeOK
<1>2. Segregated!Between(t) /\ Segregated!Out = out
  BY <1>1, MoneyOut
<1>3. pools'.lp_cash = pools.lp_cash + (c - out)
  BY <1>1
<1>4. QED
  BY <1>1, <1>2, <1>3 DEF Segregated!PoolTakes

\* open_position locks a claim; add_margin and remove_margin adjust one.
LEMMA OpenCustody ==
    ASSUME EngineInv, EngineInv', NEW t \in Users, NEW m \in MarketIds, NEW s \in Sides,
           NEW c \in Int, NEW n \in Int, NEW r, NEW x, OpenPosition(t, m, s, c, n, r, x)
    PROVE  nextId \in PositionIds /\ Segregated!Lock(t, nextId)
<1>1. /\ c \in Nat \ {0} /\ n \in Nat \ {0} /\ HasMarket(m) /\ price[Feed(m)] # NoPrice
      /\ LockMargin(t, c, Fee(m, n)) /\ CreatePosition(t, m, s, c, n) /\ UNCHANGED orderVars
  BY DEF OpenPosition, CanOpen, Priced
<1>2. Fee(m, n) \in Int /\ Mark(m) \in Nat
  BY <1>1, ConfigTypes DEF EngineInv
<1>3. /\ nextId \in PositionIds /\ MarginClaims[nextId] = Segregated!Unused
      /\ MarginClaims' = [MarginClaims EXCEPT ![nextId] = Segregated!Held(t, c)]
  BY <1>1, <1>2, ClaimOpened
<1>4. Segregated!Brings(t, c)
  BY <1>1, <1>2, LockBrings
<1>5. MarginClaims'[nextId] = Segregated!Held(t, c)
  BY <1>3 DEF MarginClaims
<1>6. Segregated!IsHeld(MarginClaims'[nextId]) /\ MarginClaims'[nextId].amount = c
  BY <1>5 DEF Segregated!IsHeld, Segregated!Held
<1>7. EscrowClaims' = EscrowClaims
  BY <1>1, ClaimsSame
<1>8. QED
  BY <1>3, <1>4, <1>6, <1>7 DEF Segregated!Lock

LEMMA StoreAdjusts ==
    ASSUME EngineInv, EngineInv', NEW id \in PositionIds, Open(id), NEW new \in Position,
           new.owner = positions[id].owner, new.margin > 0, StorePosition(id, new),
           UNCHANGED orderVars, Segregated!Between(positions[id].owner),
           pools'.lp_cash = pools.lp_cash + (positions[id].margin - new.margin - Segregated!Out)
    PROVE  Segregated!Adjust(id)
<1>1. /\ MarginClaims' = [MarginClaims EXCEPT ![id].amount = new.margin]
      /\ Segregated!IsHeld(MarginClaims'[id]) /\ MarginClaims'[id].amount = new.margin
  BY ClaimAdjusted
<1>2. /\ Segregated!IsHeld(MarginClaims[id]) /\ MarginClaims[id].owner = positions[id].owner
      /\ MarginClaims[id].amount = positions[id].margin
  BY ClaimHeld
<1>3. EscrowClaims' = EscrowClaims
  BY ClaimsSame
<1>4. pools'.lp_cash >= 0
  BY DEF EngineInv, VaultInv, VaultTypeOK
<1>5. QED
  BY <1>1, <1>2, <1>3, <1>4 DEF Segregated!Adjust, Segregated!PoolTakes

LEMMA AddMarginCustody ==
    ASSUME EngineInv, EngineInv', NEW t \in Users, NEW id \in PositionIds, NEW a \in Int,
           AddPositionMargin(t, id, a)
    PROVE  Segregated!Adjust(id)
<1> DEFINE p == positions[id]
           new == [p EXCEPT !.margin = p.margin + a]
<1>1. /\ Open(id) /\ p.owner = t /\ a \in Nat \ {0} /\ CanTransfer(balance, t, a)
      /\ balance' = Transferred(balance, t, Vault, a)
      /\ pools'.lp_cash = pools.lp_cash /\ pools.lp_cash \in Nat
      /\ StorePosition(id, new) /\ UNCHANGED orderVars
  BY DEF AddPositionMargin, Owned, AddMargin, CanAddMargin, EngineInv, VaultInv, VaultTypeOK
<1>2. p \in Position /\ p.margin \in Nat \ {0}
  BY <1>1, OpenRecord
<1>3. new \in Position /\ new.owner = p.owner /\ new.margin = p.margin + a /\ new.margin > 0
  BY <1>1, <1>2 DEF Position
<1>4. Segregated!Between(t) /\ Segregated!Out = -a
  BY <1>1, MoneyIn
<1>5. pools'.lp_cash = pools.lp_cash + (p.margin - new.margin - Segregated!Out)
  BY <1>1, <1>2, <1>3, <1>4
<1> HIDE DEF new
<1>6. QED
  BY <1>1, <1>3, <1>4, <1>5, StoreAdjusts

LEMMA RemoveMarginCustody ==
    ASSUME EngineInv, EngineInv', NEW t \in Users, NEW id \in PositionIds, NEW a \in Int,
           RemovePositionMargin(t, id, a)
    PROVE  Segregated!Adjust(id)
<1> DEFINE p == positions[id]
           new == [p EXCEPT !.margin = p.margin - a]
<1>1. /\ Open(id) /\ p.owner = t /\ Settle(t, a, a)
      /\ new.margin > 0 /\ StorePosition(id, new) /\ UNCHANGED orderVars
  BY DEF RemovePositionMargin, CanWithdraw, Withdrawn, Owned
<1>2. p \in Position /\ p.margin \in Nat \ {0}
  BY <1>1, OpenRecord
<1>3. new \in Position /\ new.owner = p.owner /\ new.margin = p.margin - a
  BY <1>1, <1>2 DEF Position
<1>4. Segregated!Between(t) /\ Segregated!Out = a /\ Segregated!PoolTakes(a - a)
  BY <1>1, SettlePays
<1>5. pools'.lp_cash = pools.lp_cash + (p.margin - new.margin - Segregated!Out)
  <2>1. p.margin - new.margin - Segregated!Out = a - a
    BY <1>2, <1>3, <1>4
  <2>2. QED
    BY <1>4, <2>1 DEF Segregated!PoolTakes
<1> HIDE DEF new
<1>6. QED
  BY <1>1, <1>3, <1>4, <1>5, StoreAdjusts

LEMMA IncreaseCustody ==
    ASSUME EngineInv, EngineInv', NEW t \in Users, NEW id \in PositionIds, NEW c \in Int,
           NEW n \in Int, NEW r, NEW x, Increase(t, id, c, n, r, x)
    PROVE  Segregated!Adjust(id)
<1> DEFINE p == positions[id]
           funding == FundingOwed(p)
           fee == Fee(p.market, n)
<1>1. /\ CanLock(balance, t, c, fee) /\ balance' = Transferred(balance, t, Vault, c + fee)
      /\ pools' = Locked(Realized(pools, funding), c, fee)
      /\ UNCHANGED orderVars /\ p.owner = t
  BY DEF Increase, Owned
<1>2. Open(id) /\ p \in Position /\ funding \in Int /\ fee \in Int
  BY IncreaseRecord
<1>3. PICK new \in Position :
          /\ StorePosition(id, new) /\ new.margin > 0
          /\ new.margin = p.margin - funding + c /\ new.owner = p.owner
  BY IncreaseRecord
<1> HIDE DEF funding, fee
<1>4. Segregated!Between(t) /\ Segregated!Out = -(c + fee)
  BY <1>1, <1>2, MoneyIn DEF CanLock
<1>5. pools'.lp_cash = pools.lp_cash + funding + fee /\ pools.lp_cash \in Nat
  BY <1>1, <1>2 DEF Locked, Realized, EngineInv, VaultInv, VaultTypeOK
<1>6. pools'.lp_cash = pools.lp_cash + (p.margin - new.margin - Segregated!Out)
  <2>1. p.margin \in Nat
    BY <1>2 DEF Position
  <2>2. p.margin - new.margin - Segregated!Out = funding + fee
    BY <1>2, <1>3, <1>4, <2>1
  <2>3. QED
    BY <1>2, <1>5, <2>2
<1>7. QED
  BY <1>1, <1>2, <1>3, <1>4, <1>6, StoreAdjusts

LEMMA DecreaseCustody ==
    ASSUME EngineInv, EngineInv', NEW t \in Users, NEW id \in PositionIds,
           NEW n \in Int, NEW r, NEW x, Decrease(t, id, n, r, x)
    PROVE  Segregated!Adjust(id)
<1> DEFINE p == positions[id]
           funding == FundingOwed(p)
<1>1. UNCHANGED orderVars /\ p.owner = t
  BY DEF Decrease, Owned
<1>2. Open(id) /\ p \in Position /\ funding \in Int
  BY DecreaseRecord
<1>3. PICK closed \in Nat, payout \in Int, new \in Position :
          /\ CanMovePools(Realized(pools, funding), closed, payout) /\ CanPay(balance, payout)
          /\ pools' = MovedPools(Realized(pools, funding), closed, payout)
          /\ balance' = Paid(balance, t, payout)
          /\ StorePosition(id, new) /\ new.margin > 0
          /\ new.margin = p.margin - funding - closed /\ new.owner = p.owner
  BY DecreaseRecord
<1> HIDE DEF funding
<1>4. payout \in Nat
  BY <1>3 DEF CanMovePools
<1>5. Segregated!Between(t) /\ Segregated!Out = payout
  BY <1>3, <1>4, MoneyOut
<1>6. pools'.lp_cash = pools.lp_cash + funding - (payout - closed) /\ pools.lp_cash \in Nat
  BY <1>2, <1>3 DEF MovedPools, Realized, EngineInv, VaultInv, VaultTypeOK
<1>7. pools'.lp_cash = pools.lp_cash + (p.margin - new.margin - Segregated!Out)
  <2>1. p.margin \in Nat
    BY <1>2 DEF Position
  <2>2. p.margin - new.margin - Segregated!Out = funding + closed - payout
    BY <1>2, <1>3, <1>4, <1>5, <2>1
  <2>3. QED
    BY <1>2, <1>3, <1>4, <1>6, <2>2
<1>8. QED
  BY <1>1, <1>2, <1>3, <1>5, <1>7, StoreAdjusts

\* A whole close ends a claim, whoever asked for it.
LEMMA CloseCustody ==
    ASSUME EngineInv, EngineInv', NEW id \in PositionIds, Open(id), CloseInternal(id),
           EscrowClaims' = EscrowClaims
    PROVE  Segregated!Close(id)
<1> DEFINE p == positions[id]
           worth == MaxOf(Equity(p) - Fee(p.market, p.notional), 0)
<1>1. Valued(p) /\ Settle(p.owner, p.margin, worth) /\ RemovePosition(id)
  BY DEF CloseInternal, ClosePayout
<1>2. p \in Position /\ p.owner \in Users /\ p.margin \in Int /\ p.notional \in Int
  BY OpenRecord
<1>3. worth \in Int
  <2>1. Equity(p) \in Int /\ HasMarket(p.market) /\ p.market \in MarketIds
    BY <1>1, <1>2, ValueTypes DEF EngineInv
  <2>2. Fee(p.market, p.notional) \in Int
    BY <1>2, <2>1, ConfigTypes DEF EngineInv
  <2>3. QED
    BY <2>1, <2>2 DEF MaxOf
<1> HIDE DEF worth
<1>4. /\ Segregated!Between(p.owner) /\ Segregated!Out = worth /\ worth >= 0
      /\ Segregated!PoolTakes(p.margin - worth)
  BY <1>1, <1>2, <1>3, SettlePays
<1>5. MarginClaims' = [MarginClaims EXCEPT ![id] = Segregated!Closed]
  BY <1>1, ClaimClosed
<1>6. /\ Segregated!IsHeld(MarginClaims[id]) /\ MarginClaims[id].owner = p.owner
      /\ MarginClaims[id].amount = p.margin
  BY ClaimHeld
<1>7. QED
  BY <1>4, <1>5, <1>6 DEF Segregated!Close

\* liquidate does, with a reward; a keeper may also liquidate itself.
LEMMA LiquidateCustody ==
    ASSUME EngineInv, EngineInv', NEW k \in Users, NEW id \in PositionIds, Liquidate(k, id)
    PROVE  Segregated!Liquidate(id, k) \/ Segregated!Close(id)
<1> DEFINE p == positions[id]
           left == MaxOf(Equity(p), 0)
           reward == MinOf(ApplyBps(p.notional, markets[p.market].liquidation_fee_bps), left)
           rest == left - reward
           paid == Paid(balance, p.owner, rest)
<1>1. /\ Open(id) /\ Valued(p) /\ RemovePosition(id) /\ UNCHANGED orderVars
      /\ SettleLiquidation(p.owner, k, p.margin, rest, reward)
  BY DEF Liquidate
<1>2. p \in Position /\ p.owner \in Users /\ p.margin \in Int /\ p.notional \in Int
  BY <1>1, OpenRecord
<1>3. reward \in Int /\ rest \in Int
  <2>1. Equity(p) \in Int /\ HasMarket(p.market) /\ p.market \in MarketIds
    BY <1>1, <1>2, ValueTypes DEF EngineInv
  <2>2. markets[p.market].liquidation_fee_bps \in Nat
    BY <2>1, ConfigTypes DEF EngineInv, MarketConfig
  <2>3. ApplyBps(p.notional, markets[p.market].liquidation_fee_bps) \in Int
    BY <1>2, <2>2, ApplyBpsType
  <2>4. QED
    BY <2>1, <2>3 DEF MaxOf, MinOf
<1> HIDE DEF reward, rest
<1>4. /\ rest \in Nat /\ reward \in Nat /\ rest + reward \in Nat
      /\ CanPay(balance, rest) /\ CanPay(paid, reward) /\ balance' = Paid(paid, k, reward)
      /\ pools'.lp_cash = pools.lp_cash - (rest + reward - p.margin)
      /\ pools.lp_cash \in Nat /\ pools'.lp_cash >= 0
  <2>1. /\ rest >= 0 /\ reward >= 0 /\ CanPay(balance, rest) /\ CanPay(paid, reward)
        /\ balance' = Paid(paid, k, reward) /\ pools' = MovedPools(pools, p.margin, rest + reward)
    BY <1>1 DEF SettleLiquidation
  <2>2. pools'.lp_cash = pools.lp_cash - (rest + reward - p.margin)
    BY <1>2, <1>3, <2>1 DEF MovedPools, EngineInv, VaultInv, VaultTypeOK
  <2>3. pools.lp_cash \in Nat /\ pools'.lp_cash >= 0
    BY DEF EngineInv, VaultInv, VaultTypeOK
  <2>4. QED
    BY <1>3, <2>1, <2>2, <2>3
<1>5. balance \in [Accounts -> Nat] /\ balance[Vault] \in Nat
  BY DEF EngineInv, VaultInv, VaultTypeOK, TokenTypeOK, Accounts
<1>6. /\ paid \in [Accounts -> Nat] /\ paid[Vault] = balance[Vault] - rest
      /\ \A u \in Users : paid[u] = IF u = p.owner THEN balance[u] + rest ELSE balance[u]
  BY <1>2, <1>4, <1>5, PaidBalances
<1>7. /\ balance'[Vault] = paid[Vault] - reward
      /\ \A u \in Users : balance'[u] = IF u = k THEN paid[u] + reward ELSE paid[u]
  <2> HIDE DEF paid
  <2> QED
    BY <1>4, <1>6, PaidBalances
<1> HIDE DEF paid
<1>8. Segregated!Out = rest + reward
  BY <1>4, <1>5, <1>6, <1>7 DEF Segregated!Out
<1>9. Segregated!PoolTakes(p.margin - Segregated!Out)
  <2>1. pools'.lp_cash = pools.lp_cash + (p.margin - (rest + reward))
    BY <1>2, <1>4
  <2>2. QED
    BY <1>4, <1>8, <2>1 DEF Segregated!PoolTakes
<1>10. /\ MarginClaims' = [MarginClaims EXCEPT ![id] = Segregated!Closed]
       /\ Segregated!IsHeld(MarginClaims[id]) /\ MarginClaims[id].owner = p.owner
       /\ MarginClaims[id].amount = p.margin /\ EscrowClaims' = EscrowClaims
  BY <1>1, ClaimClosed, ClaimHeld, ClaimsSame
<1>11. \A u \in Users : balance[u] \in Nat
  BY <1>5 DEF Accounts
<1> HIDE DEF p
<1>12. CASE k = p.owner
  <2>1. Purses' = [Purses EXCEPT ![p.owner] = @ + Segregated!Out]
    <3>1. \A u \in Users :
             balance'[u] = IF u = p.owner THEN balance[u] + (rest + reward) ELSE balance[u]
      BY <1>4, <1>6, <1>7, <1>11, <1>12
    <3>2. Purses' = [u \in Users |-> IF u = p.owner THEN balance[u] + (rest + reward)
                                     ELSE balance[u]]
      BY <3>1 DEF Purses
    <3>3. QED
      BY <1>8, <3>2 DEF Purses
  <2>2. Segregated!Out >= 0
    BY <1>4, <1>8
  <2>3. Segregated!Close(id)
    BY <1>9, <1>10, <2>1, <2>2 DEF Segregated!Close, Segregated!Between
  <2>4. QED
    BY <2>3
<1>13. CASE k # p.owner
  <2>1. Purses'[k] - Purses[k] = reward
    BY <1>4, <1>6, <1>7, <1>11, <1>13 DEF Purses
  <2>2. Purses' = [Purses EXCEPT ![p.owner] = @ + (Segregated!Out - reward),
                                 ![k] = @ + reward]
    <3>1. \A u \in Users :
             balance'[u] = IF u = p.owner THEN balance[u] + rest
                           ELSE IF u = k THEN balance[u] + reward ELSE balance[u]
      BY <1>6, <1>7, <1>13
    <3>2. Purses' = [u \in Users |-> IF u = p.owner THEN balance[u] + rest
                                     ELSE IF u = k THEN balance[u] + reward ELSE balance[u]]
      BY <3>1 DEF Purses
    <3>3. Segregated!Out - reward = rest
      BY <1>4, <1>8
    <3>4. QED
      BY <1>2, <1>13, <3>2, <3>3 DEF Purses
  <2>3. Segregated!Out >= reward
    BY <1>4, <1>8
  <2>4. Segregated!Liquidate(id, k)
    <3>1. Purses' = [Purses EXCEPT
                        ![MarginClaims[id].owner] = @ + (Segregated!Out - (Purses'[k] - Purses[k])),
                        ![k] = @ + (Purses'[k] - Purses[k])]
      BY <1>10, <2>1, <2>2
    <3>2. k # MarginClaims[id].owner /\ Purses'[k] - Purses[k] >= 0
          /\ Segregated!Out >= Purses'[k] - Purses[k]
      BY <1>4, <1>10, <1>13, <2>1, <2>3
    <3>3. Segregated!PoolTakes(MarginClaims[id].amount - Segregated!Out)
      BY <1>9, <1>10
    <3>4. QED
      BY <1>10, <3>1, <3>2, <3>3 DEF Segregated!Liquidate
  <2>5. QED
    BY <2>4
<1>14. QED
  BY <1>12, <1>13

\* The entry points on orders.
LEMMA PlaceOrderCustody ==
    ASSUME EngineInv, EngineInv', NEW t \in Users, NEW m \in MarketIds, NEW s \in Sides,
           NEW c \in Int, NEW n \in Int, NEW p \in Int, NEW d \in {Above, Below}, NEW x \in Nat,
           PlaceOrder(t, m, s, c, n, p, d, x)
    PROVE  nextOrderId \in OrderIds /\ Segregated!Escrow(t, nextOrderId)
<1> DEFINE o == [owner |-> t, market |-> m, side |-> s, margin |-> c, notional |-> n,
                 trigger |-> p, dir |-> d, reduce |-> FALSE, reduce_position |-> 0,
                 slippage |-> x]
<1>1. /\ c > 0 /\ n > 0 /\ p > 0 /\ HasMarket(m)
      /\ LockMargin(t, c, Fee(m, n)) /\ StoreOrder(t, o) /\ UNCHANGED positionVars
  BY DEF PlaceOrder, CanPlace
<1>2. o \in Order /\ o.owner = t /\ o.margin = c /\ ~o.reduce
  BY <1>1 DEF Order
<1> HIDE DEF o
<1>3. Fee(m, n) \in Int
  BY <1>1, ConfigTypes DEF EngineInv
<1>4. Segregated!Brings(t, c)
  BY <1>1, <1>3, LockBrings
<1>5. /\ nextOrderId \in OrderIds /\ EscrowClaims[nextOrderId] = Segregated!Unused
      /\ EscrowClaims' = [EscrowClaims EXCEPT ![nextOrderId] = Segregated!Held(t, c)]
  BY <1>1, <1>2, EscrowOpened
<1>6. EscrowClaims'[nextOrderId] = Segregated!Held(t, c)
  BY <1>5 DEF EscrowClaims
<1>7. Segregated!IsHeld(EscrowClaims'[nextOrderId]) /\ EscrowClaims'[nextOrderId].amount = c
  BY <1>6 DEF Segregated!IsHeld, Segregated!Held
<1>8. MarginClaims' = MarginClaims
  BY <1>1, ClaimsSame
<1>9. QED
  BY <1>4, <1>5, <1>7, <1>8 DEF Segregated!Escrow

LEMMA PlaceStopCustody ==
    ASSUME EngineInv, NEW t \in Users, NEW id \in PositionIds, NEW p \in Int,
           NEW d \in {Above, Below}, PlaceStop(t, id, p, d)
    PROVE  nextOrderId \in OrderIds /\ Segregated!PlaceStop(nextOrderId)
<1> DEFINE q == positions[id]
           o == [owner |-> t, market |-> q.market, side |-> q.side, margin |-> 0,
                 notional |-> q.notional, trigger |-> p, dir |-> d, reduce |-> TRUE,
                 reduce_position |-> id, slippage |-> 0]
<1>1. /\ Open(id) /\ p > 0 /\ StoreOrder(t, o)
      /\ UNCHANGED <<tokenVars, vaultVars, positionVars>>
  BY DEF PlaceStop, Owned
<1>2. q.market \in MarketIds /\ q.side \in Sides /\ q.notional \in Nat /\ id \in Nat
  BY <1>1, OpenRecord DEF PositionIds
<1>3. o \in Order /\ o.owner = t /\ o.reduce
  BY <1>1, <1>2 DEF Order
<1> HIDE DEF o
<1>4. /\ nextOrderId \in OrderIds /\ EscrowClaims[nextOrderId] = Segregated!Unused
      /\ EscrowClaims' = [EscrowClaims EXCEPT ![nextOrderId] = Segregated!Closed]
  BY <1>1, <1>3, EscrowOpened
<1>5. /\ balance'[Vault] = balance[Vault] /\ Purses' = Purses
      /\ pools'.lp_cash = pools.lp_cash /\ MarginClaims' = MarginClaims
  BY <1>1, ClaimsSame DEF tokenVars, vaultVars, Purses
<1>6. QED
  BY <1>4, <1>5 DEF Segregated!PlaceStop

LEMMA CancelCustody ==
    ASSUME EngineInv, EngineInv', NEW t \in Users, NEW id \in OrderIds, CancelOrder(t, id)
    PROVE  Segregated!Cancel(id) \/ UNCHANGED Segregated!vars
<1> DEFINE o == orders[id]
           refund == o.margin + Fee(o.market, o.notional)
<1>1. Resting(id) /\ o.owner = t /\ RemoveOrder(id) /\ UNCHANGED positionVars
  BY DEF CancelOrder
<1>2. o \in Order /\ o.margin \in Nat /\ o.notional \in Nat /\ o.market \in MarketIds
  BY <1>1 DEF EngineInv, OrderBook, OrderTypeOK, Resting, Order
<1>3. MarginClaims' = MarginClaims
  BY <1>1, ClaimsSame
<1>4. CASE o.reduce
  <2>1. UNCHANGED <<tokenVars, vaultVars>> /\ EscrowClaims' = EscrowClaims
    BY <1>1, <1>4, EscrowClosed DEF CancelOrder
  <2>2. balance'[Vault] = balance[Vault] /\ Purses' = Purses /\ pools'.lp_cash = pools.lp_cash
    BY <2>1 DEF tokenVars, vaultVars, Purses
  <2>3. QED
    BY <1>3, <2>1, <2>2 DEF Segregated!vars
<1>5. CASE ~o.reduce
  <2>1. HasMarket(o.market) /\ Settle(t, o.margin, refund)
    BY <1>5 DEF CancelOrder, CancelPayout
  <2>2. Fee(o.market, o.notional) \in Nat
    BY <1>2, <2>1, ConfigTypes DEF EngineInv
  <2>3. refund \in Int /\ refund >= o.margin
    BY <1>2, <2>2
  <2> HIDE DEF refund
  <2>4. /\ Segregated!Between(t) /\ Segregated!Out = refund
        /\ Segregated!PoolTakes(o.margin - refund)
    BY <1>2, <2>1, <2>3, SettlePays
  <2>5. EscrowClaims' = [EscrowClaims EXCEPT ![id] = Segregated!Closed]
    BY <1>1, EscrowClosed
  <2>6. EscrowClaims[id] = Segregated!Held(t, o.margin)
    BY <1>1, <1>5, EscrowHeld
  <2>7. /\ Segregated!IsHeld(EscrowClaims[id]) /\ EscrowClaims[id].owner = t
        /\ EscrowClaims[id].amount = o.margin
    BY <2>6 DEF Segregated!IsHeld, Segregated!Held
  <2>8. QED
    BY <1>3, <2>3, <2>4, <2>5, <2>7 DEF Segregated!Cancel
<1>6. QED
  BY <1>4, <1>5

LEMMA FillEntryCustody ==
    ASSUME EngineInv, NEW k, NEW id \in OrderIds, FillEntry(k, id)
    PROVE  nextId \in PositionIds /\ Segregated!Fill(id, nextId)
<1> DEFINE o == orders[id]
<1>1. /\ o.owner \in Users /\ o.market \in MarketIds /\ o.side \in Sides
      /\ o.margin \in Nat /\ o.notional \in Nat /\ ~o.reduce /\ Resting(id)
      /\ Mark(o.market) \in Nat
      /\ CreatePosition(o.owner, o.market, o.side, o.margin, o.notional)
  BY FillEntryFacts
<1>2. RemoveOrder(id) /\ UNCHANGED <<tokenVars, vaultVars>>
  BY DEF FillEntry
<1>3. EscrowClaims[id] = Segregated!Held(o.owner, o.margin)
  BY <1>1, EscrowHeld
<1>4. /\ nextId \in PositionIds /\ MarginClaims[nextId] = Segregated!Unused
      /\ MarginClaims' = [MarginClaims EXCEPT ![nextId] = EscrowClaims[id]]
  <2> HIDE DEF o
  <2> QED
    BY <1>1, <1>3, ClaimOpened
<1>5. EscrowClaims' = [EscrowClaims EXCEPT ![id] = Segregated!Closed]
  BY <1>1, <1>2, EscrowClosed
<1>6. balance'[Vault] = balance[Vault] /\ Purses' = Purses /\ pools'.lp_cash = pools.lp_cash
  BY <1>2 DEF tokenVars, vaultVars, Purses
<1>7. Segregated!IsHeld(EscrowClaims[id])
  BY <1>3 DEF Segregated!IsHeld, Segregated!Held
<1>8. QED
  BY <1>4, <1>5, <1>6, <1>7 DEF Segregated!Fill

LEMMA FillStopCustody ==
    ASSUME EngineInv, EngineInv', NEW k, NEW id \in OrderIds, FillStop(k, id)
    PROVE  orders[id].reduce_position \in PositionIds
           /\ Segregated!Close(orders[id].reduce_position)
<1> DEFINE target == orders[id].reduce_position
<1>1. /\ target \in PositionIds /\ Open(target) /\ CloseInternal(target)
      /\ orders[id].reduce /\ Resting(id) /\ RemoveOrder(id)
  BY FillStopFacts DEF FillStop
<1>2. EscrowClaims' = EscrowClaims
  BY <1>1, EscrowClosed
<1> HIDE DEF target
<1>3. target \in PositionIds /\ Segregated!Close(target)
  BY <1>1, <1>2, CloseCustody
<1>4. QED
  BY <1>3 DEF target

\* LPs bring their own money and take their own out of the LPs' pool.
LEMMA AddLiquidityCustody ==
    ASSUME EngineInv, EngineInv', NEW u \in Users, NEW a \in Int, AddLiquidity(u, a),
           UNCHANGED engineVars
    PROVE  Segregated!Share(u)
<1>1. /\ a > 0 /\ CanTransfer(balance, u, a) /\ balance' = Transferred(balance, u, Vault, a)
      /\ pools'.lp_cash = pools.lp_cash + a /\ pools'.lp_cash >= 0
  BY DEF AddLiquidity, CanDeposit, EngineInv, VaultInv, VaultTypeOK
<1>2. Segregated!Between(u) /\ Segregated!Out = -a
  BY <1>1, MoneyIn
<1>3. Segregated!PoolTakes(-Segregated!Out)
  <2>1. -Segregated!Out = a
    BY <1>2
  <2>2. QED
    BY <1>1, <2>1 DEF Segregated!PoolTakes
<1>4. QED
  BY <1>2, <1>3, ClaimsSame DEF Segregated!Share, engineVars

LEMMA RemoveLiquidityCustody ==
    ASSUME EngineInv, EngineInv', NEW u \in Users, NEW n \in Int, RemoveLiquidity(u, n),
           UNCHANGED engineVars
    PROVE  Segregated!Share(u)
<1> DEFINE cash == CashFor(n)
<1>1. /\ n > 0 /\ shares[u] >= n /\ CanTransfer(balance, Vault, cash)
      /\ balance' = Transferred(balance, Vault, u, cash)
      /\ pools'.lp_cash = pools.lp_cash - cash /\ pools'.lp_cash >= 0 /\ pools.lp_cash \in Nat
  BY DEF RemoveLiquidity, CanRedeem, EngineInv, VaultInv, VaultTypeOK
<1>2. cash \in Nat
  BY <1>1, CashForFacts DEF EngineInv
<1> HIDE DEF cash
<1>3. CanPay(balance, cash) /\ balance' = Paid(balance, u, cash)
  <2>1. CASE cash > 0
    BY <1>1, <2>1 DEF CanPay, Paid
  <2>2. CASE cash = 0
    <3>1. u # Vault /\ u \in Accounts /\ balance \in [Accounts -> Nat] /\ Vault \in Accounts
      BY TokenAssumption DEF EngineInv, VaultInv, VaultTypeOK, TokenTypeOK, Accounts
    <3>2. Transferred(balance, Vault, u, 0) = balance
      BY <3>1 DEF Transferred
    <3>3. QED
      BY <1>1, <2>2, <3>2 DEF CanPay, Paid
  <2>3. QED
    BY <1>2, <2>1, <2>2
<1>4. Segregated!Between(u) /\ Segregated!Out = cash
  BY <1>2, <1>3, MoneyOut
<1>5. Segregated!PoolTakes(-Segregated!Out)
  <2>1. pools'.lp_cash = pools.lp_cash + (-cash)
    BY <1>1, <1>2
  <2>2. QED
    BY <1>1, <1>4, <2>1 DEF Segregated!PoolTakes
<1>6. QED
  BY <1>4, <1>5, ClaimsSame DEF Segregated!Share, engineVars

\* A step that writes no pool and no table concerns no claim.
LEMMA OutsideCustody ==
    ASSUME UNCHANGED <<vaultVars, positionVars, orderVars>>, balance'[Vault] >= balance[Vault]
    PROVE  Segregated!Outside
<1>1. pools'.lp_cash = pools.lp_cash
  BY DEF vaultVars
<1>2. QED
  BY <1>1, ClaimsSame DEF Segregated!Outside

\* Every step of the system is a step of Custody.
LEMMA PositionCustody ==
    ASSUME EngineInv, EngineInv', PositionNext PROVE Segregated!Next
<1>1. Notionals \subseteq Int /\ Margins \subseteq Int /\ Amounts \subseteq Int
  BY EngineAssumption, TokenAssumption
<1>2. ASSUME NEW t \in Users, NEW m \in MarketIds, NEW s \in Sides, NEW c \in Margins,
             NEW n \in Notionals, NEW r, NEW x, OpenPosition(t, m, s, c, n, r, x)
      PROVE  Segregated!Next
  <2>1. nextId \in PositionIds /\ Segregated!Lock(t, nextId)
    BY <1>1, <1>2, OpenCustody
  <2>2. QED
    BY <2>1 DEF Segregated!Next
<1>3. ASSUME NEW t \in Users, NEW id \in PositionIds, ClosePosition(t, id)
      PROVE  Segregated!Next
  <2>1. Open(id) /\ CloseInternal(id) /\ EscrowClaims' = EscrowClaims
    BY <1>3, ClaimsSame DEF ClosePosition, Owned
  <2>2. QED
    BY <2>1, CloseCustody DEF Segregated!Next
<1>4. ASSUME NEW t \in Users, NEW id \in PositionIds, NEW a \in Amounts,
             AddPositionMargin(t, id, a) \/ RemovePositionMargin(t, id, a)
      PROVE  Segregated!Next
  <2>1. Segregated!Adjust(id)
    BY <1>1, <1>4, AddMarginCustody, RemoveMarginCustody
  <2>2. QED
    BY <2>1 DEF Segregated!Next
<1>5. ASSUME NEW t \in Users, NEW id \in PositionIds, NEW c \in Margins, NEW n \in Notionals,
             NEW r, NEW x, Increase(t, id, c, n, r, x)
      PROVE  Segregated!Next
  <2>1. Segregated!Adjust(id)
    BY <1>1, <1>5, IncreaseCustody
  <2>2. QED
    BY <2>1 DEF Segregated!Next
<1>6. ASSUME NEW t \in Users, NEW id \in PositionIds, NEW n \in Notionals, NEW r, NEW x,
             Decrease(t, id, n, r, x)
      PROVE  Segregated!Next
  <2>1. Segregated!Adjust(id)
    BY <1>1, <1>6, DecreaseCustody
  <2>2. QED
    BY <2>1 DEF Segregated!Next
<1>7. QED
  BY <1>2, <1>3, <1>4, <1>5, <1>6 DEF PositionNext

LEMMA OrderCustody ==
    ASSUME EngineInv, EngineInv', OrderNext
    PROVE  Segregated!Next \/ UNCHANGED Segregated!vars
<1>1. /\ Notionals \subseteq Int /\ Margins \subseteq Int /\ Triggers \subseteq Int
      /\ Slippages \subseteq Nat
  BY EngineAssumption
<1>2. ASSUME NEW t \in Users, NEW m \in MarketIds, NEW s \in Sides, NEW c \in Margins,
             NEW n \in Notionals, NEW p \in Triggers, NEW d \in {Above, Below},
             NEW x \in Slippages, PlaceOrder(t, m, s, c, n, p, d, x)
      PROVE  Segregated!Next
  <2>1. nextOrderId \in OrderIds /\ Segregated!Escrow(t, nextOrderId)
    BY <1>1, <1>2, PlaceOrderCustody
  <2>2. QED
    BY <2>1 DEF Segregated!Next
<1>3. ASSUME NEW t \in Users, NEW id \in PositionIds, NEW p \in Triggers,
             NEW d \in {Above, Below}, PlaceStop(t, id, p, d)
      PROVE  Segregated!Next
  <2>1. nextOrderId \in OrderIds /\ Segregated!PlaceStop(nextOrderId)
    BY <1>1, <1>3, PlaceStopCustody
  <2>2. QED
    BY <2>1 DEF Segregated!Next
<1>4. ASSUME NEW t \in Users, NEW id \in OrderIds, CancelOrder(t, id)
      PROVE  Segregated!Next \/ UNCHANGED Segregated!vars
  <2>1. Segregated!Cancel(id) \/ UNCHANGED Segregated!vars
    BY <1>4, CancelCustody
  <2>2. QED
    BY <2>1 DEF Segregated!Next
<1>5. QED
  BY <1>2, <1>3, <1>4 DEF OrderNext

LEMMA KeeperCustody ==
    ASSUME EngineInv, EngineInv', KeeperNext PROVE Segregated!Next
<1>1. ASSUME NEW k \in Users, NEW id \in PositionIds, Liquidate(k, id) PROVE Segregated!Next
  <2>1. Segregated!Liquidate(id, k) \/ Segregated!Close(id)
    BY <1>1, LiquidateCustody
  <2>2. QED
    BY <2>1 DEF Segregated!Next
<1>2. ASSUME NEW k, NEW m, UpdateFunding(k, m) PROVE Segregated!Next
  <2>1. UNCHANGED <<vaultVars, positionVars, orderVars>> /\ balance' = balance
    BY <1>2 DEF UpdateFunding, tokenVars
  <2>2. balance[Vault] \in Nat
    BY DEF EngineInv, VaultInv, VaultTypeOK, TokenTypeOK, Accounts
  <2>3. Segregated!Outside
    BY <2>1, <2>2, OutsideCustody
  <2>4. QED
    BY <2>3 DEF Segregated!Next
<1>3. ASSUME NEW k, NEW id \in OrderIds, FillEntry(k, id) PROVE Segregated!Next
  <2>1. nextId \in PositionIds /\ Segregated!Fill(id, nextId)
    BY <1>3, FillEntryCustody
  <2>2. QED
    BY <2>1 DEF Segregated!Next
<1>4. ASSUME NEW k, NEW id \in OrderIds, FillStop(k, id) PROVE Segregated!Next
  <2> DEFINE target == orders[id].reduce_position
  <2>1. target \in PositionIds /\ Segregated!Close(target)
    BY <1>4, FillStopCustody
  <2> HIDE DEF target
  <2>2. QED
    BY <2>1 DEF Segregated!Next
<1>5. QED
  BY <1>1, <1>2, <1>3, <1>4 DEF KeeperNext

LEMMA PoolCustody ==
    ASSUME EngineInv, EngineInv', PoolNext PROVE Segregated!Next
<1>1. UNCHANGED engineVars /\ Amounts \subseteq Int /\ ShareAmounts \subseteq Int
  BY TokenAssumption, ShareAssumption DEF PoolNext
<1>2. CASE LpNext
  <2>1. PICK u \in Users : Segregated!Share(u)
    BY <1>1, <1>2, AddLiquidityCustody, RemoveLiquidityCustody DEF LpNext
  <2>2. QED
    BY <2>1 DEF Segregated!Next
<1>3. CASE TokenNext /\ UNCHANGED vaultVars
  <2>1. balance'[Vault] >= balance[Vault]
    BY <1>3, TokenStepFacts DEF EngineInv
  <2>2. Segregated!Outside
    BY <1>1, <1>3, <2>1, OutsideCustody DEF engineVars
  <2>3. QED
    BY <2>2 DEF Segregated!Next
<1>4. QED
  BY <1>2, <1>3 DEF PoolNext

LEMMA CustodyStep ==
    EngineInv /\ EngineInv' /\ [Next]_vars => [Segregated!Next]_(Segregated!vars)
<1> SUFFICES ASSUME EngineInv, EngineInv', [Next]_vars
             PROVE  Segregated!Next \/ UNCHANGED Segregated!vars
  OBVIOUS
<1>1. CASE PriceMove \/ ControlNext \/ UNCHANGED vars
  <2>1. UNCHANGED <<vaultVars, positionVars, orderVars>> /\ balance' = balance
    BY <1>1 DEF PriceMove, ControlNext, vars, engineVars, tokenVars
  <2>2. balance[Vault] \in Nat
    BY DEF EngineInv, VaultInv, VaultTypeOK, TokenTypeOK, Accounts
  <2>3. Segregated!Outside
    BY <2>1, <2>2, OutsideCustody
  <2>4. QED
    BY <2>3 DEF Segregated!Next
<1>2. QED
  BY <1>1, PositionCustody, OrderCustody, KeeperCustody, PoolCustody DEF Next

\* One token account and one margin pool serve as separate accounts would: whatever
\* happens, a transaction pays out of the one claim it is about and the LPs' cash,
\* to the claim's owner and its liquidator, and no claim is used twice.
THEOREM ClaimsAreSegregated == Spec => CustodyKept
<1>1. Init => Segregated!Init
  <2> SUFFICES ASSUME Init PROVE Segregated!Init
    OBVIOUS
  <2>1. pools.lp_cash = balance[Vault]
    BY DEF Init, Accounts
  <2>2. MarginClaims = [i \in PositionIds |-> Segregated!Unused]
    <3>1. ASSUME NEW i \in PositionIds PROVE ~Open(i) /\ ~(i < nextId)
      BY EngineAssumption DEF Init, Open, PositionIds
    <3>2. QED
      BY <3>1 DEF MarginClaims, NoClaim, Segregated!Unused
  <2>3. EscrowClaims = [i \in OrderIds |-> Segregated!Unused]
    <3>1. ASSUME NEW i \in OrderIds PROVE ~Resting(i) /\ ~(i < nextOrderId)
      BY EngineAssumption DEF Init, Resting, OrderIds
    <3>2. QED
      BY <3>1 DEF EscrowClaims, NoClaim, Segregated!Unused
  <2>4. QED
    BY <2>1, <2>2, <2>3 DEF Segregated!Init
<1>2. EngineInv /\ EngineInv' /\ [Next]_vars => [Segregated!Next]_(Segregated!vars)
  BY CustodyStep
<1>3. QED
  BY <1>1, <1>2, EngineInvariance, PTL DEF Spec, CustodyKept, Segregated!Spec

=============================================================================
