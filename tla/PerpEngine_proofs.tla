-------------------------- MODULE PerpEngine_proofs --------------------------
(***************************************************************************)
(* The composed system, for every number of users, markets and ids, every  *)
(* configuration and every price.  The inductive invariant is the          *)
(* conjunction of the accounting invariants: each is needed for the step   *)
(* of another one (see README.md, section 4).                              *)
(*                                                                         *)
(* The step lemmas follow the code's layering.  What a fragment does to    *)
(* the position table (create, remove, store), to the order table and to   *)
(* the vault is stated once; an entry point is then a combination of one   *)
(* lemma of each.                                                          *)
(***************************************************************************)
EXTENDS PerpEngine, CollateralVault_proofs

\* The tables' part of TypeOK.
PositionTypeOK ==
    /\ positions \in [PositionIds -> Position \cup {NoPosition}]
    /\ nextId \in 0 .. MaxPositions
    /\ userPositions \in [Users -> SUBSET PositionIds]
    /\ oi \in [MarketIds -> [Sides -> Int]]

OrderTypeOK ==
    /\ orders \in [OrderIds -> Order \cup {NoOrder}]
    /\ nextOrderId \in 0 .. MaxOrders
    /\ userOrders \in [Users -> SUBSET OrderIds]

FeedTypeOK ==
    /\ cumFunding \in [MarketIds -> Int]
    /\ price \in [Feeds -> Prices \cup {NoPrice}]

\* An entry order carries what its fill will store, a stop escrows nothing.
Fillable(o) ==
    IF o.reduce THEN o.margin = 0 ELSE o.margin > 0 /\ o.notional > 0

\* Ids at or above the counter are unused.
LiveOrders ==
    \A i \in OrderIds : Resting(i) => i < nextOrderId /\ Fillable(orders[i])

PositionIndex ==
    \A u \in Users :
        userPositions[u] = {i \in PositionIds : Open(i) /\ positions[i].owner = u}
OrderIndex ==
    \A u \in Users :
        userOrders[u] = {i \in OrderIds : Resting(i) /\ orders[i].owner = u}

PositionBook == PositionTypeOK /\ LivePositions /\ PositionIndex /\ OiMatches
OrderBook == OrderTypeOK /\ LiveOrders /\ OrderIndex
MarketBook == RegistryTypeOK /\ RegistryConsistent /\ FeedTypeOK

EngineInv ==
    VaultInv /\ MarketBook /\ PositionBook /\ OrderBook /\ Backing /\ StopTargetsOwn

\* What a stop relies on: a position id never changes its meaning.
MeaningKept ==
    /\ nextId <= nextId'
    /\ \A i \in PositionIds : i < nextId /\ positions'[i] # NoPosition =>
          /\ positions[i] # NoPosition
          /\ positions'[i].owner = positions[i].owner
          /\ positions'[i].market = positions[i].market
          /\ positions'[i].side = positions[i].side

-----------------------------------------------------------------------------
(* The position table.                                                     *)

\* The tables are finite, so their sums exist.
LEMMA IdsFinite == IsFiniteSet(PositionIds) /\ IsFiniteSet(OrderIds)
  BY FS_Interval, EngineAssumption DEF PositionIds, OrderIds

\* The sums over the table are sums of natural numbers.
LEMMA PositionSums ==
    ASSUME PositionTypeOK
    PROVE  /\ MarginOf \in [PositionIds -> Nat] /\ Total(MarginOf) \in Nat
           /\ \A m \in MarketIds, s \in Sides :
                 /\ ExposureOf(m, s) \in [PositionIds -> Nat]
                 /\ Total(ExposureOf(m, s)) \in Nat
<1>1. \A i \in PositionIds : Open(i) => positions[i] \in Position
  BY DEF PositionTypeOK, Open
<1>2. MarginOf \in [PositionIds -> Nat]
  BY <1>1 DEF MarginOf, Position
<1>3. \A m \in MarketIds, s \in Sides : ExposureOf(m, s) \in [PositionIds -> Nat]
  BY <1>1 DEF ExposureOf, Position
<1>4. QED
  BY <1>2, <1>3, IdsFinite, TotalType

\* Writing one entry changes each sum by the difference of that entry.
LEMMA PositionSumsStep ==
    ASSUME PositionTypeOK, NEW id \in PositionIds, NEW p \in Position \cup {NoPosition},
           positions' = [positions EXCEPT ![id] = p]
    PROVE  /\ Total(MarginOf') = Total(MarginOf) - MarginOf[id]
                                   + (IF p # NoPosition THEN p.margin ELSE 0)
           /\ \A m \in MarketIds, s \in Sides :
                 Total(ExposureOf(m, s)') = Total(ExposureOf(m, s)) - ExposureOf(m, s)[id]
                     + (IF p # NoPosition /\ p.market = m /\ p.side = s
                        THEN p.notional ELSE 0)
<1>1. positions \in [PositionIds -> Position \cup {NoPosition}]
  BY DEF PositionTypeOK
<1>2. ASSUME p # NoPosition PROVE p \in Position /\ p.margin \in Nat /\ p.notional \in Nat
  BY <1>2 DEF Position
<1>3. Total(MarginOf') = Total(MarginOf) - MarginOf[id]
                           + (IF p # NoPosition THEN p.margin ELSE 0)
  <2> DEFINE v == IF p # NoPosition THEN p.margin ELSE 0
  <2>1. MarginOf' = [MarginOf EXCEPT ![id] = v]
    BY <1>1 DEF MarginOf, Open
  <2>2. v \in Nat
    BY <1>2
  <2>3. MarginOf \in [PositionIds -> Nat]
    BY PositionSums
  <2> HIDE DEF v
  <2>4. Total([MarginOf EXCEPT ![id] = v]) = Total(MarginOf) - MarginOf[id] + v
    BY <2>2, <2>3, IdsFinite, TotalUpdate
  <2>5. QED
    BY <2>1, <2>4 DEF v
<1>4. ASSUME NEW m \in MarketIds, NEW s \in Sides
      PROVE  Total(ExposureOf(m, s)') = Total(ExposureOf(m, s)) - ExposureOf(m, s)[id]
                 + (IF p # NoPosition /\ p.market = m /\ p.side = s THEN p.notional ELSE 0)
  <2> DEFINE v == IF p # NoPosition /\ p.market = m /\ p.side = s THEN p.notional ELSE 0
  <2>1. ExposureOf(m, s)' = [ExposureOf(m, s) EXCEPT ![id] = v]
    BY <1>1 DEF ExposureOf, Open
  <2>2. v \in Nat
    BY <1>2
  <2>3. ExposureOf(m, s) \in [PositionIds -> Nat]
    BY PositionSums
  <2> HIDE DEF v
  <2>4. Total([ExposureOf(m, s) EXCEPT ![id] = v])
           = Total(ExposureOf(m, s)) - ExposureOf(m, s)[id] + v
    BY <2>2, <2>3, IdsFinite, TotalUpdate
  <2>5. QED
    BY <2>1, <2>4 DEF v
<1>5. QED
  BY <1>3, <1>4

\* One entry is changed and the counter of its side with it: the books still
\* agree.  `before` and `after` are what the entry counts for.
LEMMA ExposureStep ==
    ASSUME PositionBook, NEW id \in PositionIds, NEW p \in Position \cup {NoPosition},
           positions' = [positions EXCEPT ![id] = p],
           NEW m \in MarketIds, NEW s \in Sides,
           Open(id) => positions[id].market = m /\ positions[id].side = s,
           p # NoPosition => p.market = m /\ p.side = s,
           SetOi(m, s, oi[m][s] - (IF Open(id) THEN positions[id].notional ELSE 0)
                                + (IF p # NoPosition THEN p.notional ELSE 0))
    PROVE  OiMatches' /\ oi' \in [MarketIds -> [Sides -> Int]]
<1> DEFINE before == IF Open(id) THEN positions[id].notional ELSE 0
           after == IF p # NoPosition THEN p.notional ELSE 0
<1>1. PositionTypeOK /\ OiMatches
  BY DEF PositionBook
<1>2. positions[id] \in Position \cup {NoPosition} /\ oi \in [MarketIds -> [Sides -> Int]]
  BY <1>1 DEF PositionTypeOK
<1>3. before \in Nat /\ after \in Nat
  BY <1>2 DEF Open, Position
<1>4. oi' = [oi EXCEPT ![m][s] = oi[m][s] - before + after]
  BY DEF SetOi
<1>5. \A n \in MarketIds, t \in Sides :
         ExposureOf(n, t)[id] = IF n = m /\ t = s THEN before ELSE 0
  BY DEF ExposureOf
<1>6. \A n \in MarketIds, t \in Sides :
         (IF p # NoPosition /\ p.market = n /\ p.side = t THEN p.notional ELSE 0)
           = IF n = m /\ t = s THEN after ELSE 0
  OBVIOUS
<1>7. \A n \in MarketIds, t \in Sides :
         Total(ExposureOf(n, t)') = Total(ExposureOf(n, t)) - ExposureOf(n, t)[id]
             + (IF p # NoPosition /\ p.market = n /\ p.side = t THEN p.notional ELSE 0)
  BY <1>1, PositionSumsStep
<1>8. \A n \in MarketIds, t \in Sides :
         /\ Total(ExposureOf(n, t)) = oi[n][t]
         /\ Total(ExposureOf(n, t)) \in Nat
  BY <1>1, PositionSums DEF OiMatches
<1>9. ASSUME NEW n \in MarketIds, NEW t \in Sides
      PROVE  oi'[n][t] = Total(ExposureOf(n, t)')
  <2> HIDE DEF before, after
  <2>1. CASE n = m /\ t = s
    <3>1. oi'[n][t] = oi[n][t] - before + after
      BY <1>2, <1>4, <2>1
    <3>2. Total(ExposureOf(n, t)') = Total(ExposureOf(n, t)) - before + after
      BY <1>5, <1>6, <1>7, <2>1
    <3>3. QED
      BY <1>8, <3>1, <3>2
  <2>2. CASE ~(n = m /\ t = s)
    <3>1. oi'[n][t] = oi[n][t]
      BY <1>2, <1>4, <2>2
    <3>2. Total(ExposureOf(n, t)') = Total(ExposureOf(n, t)) - 0 + 0
      BY <1>5, <1>6, <1>7, <2>2
    <3>3. QED
      BY <1>8, <3>1, <3>2
  <2>3. QED
    BY <2>1, <2>2
<1>10. oi' \in [MarketIds -> [Sides -> Int]]
  <2> HIDE DEF before, after
  <2> QED
    BY <1>2, <1>3, <1>4
<1>11. QED
  BY <1>9, <1>10 DEF OiMatches

\* create_position, called with validated arguments.
LEMMA CreateBook ==
    ASSUME PositionBook, FeedTypeOK, NEW t \in Users, NEW m \in MarketIds, NEW s \in Sides,
           NEW c \in Nat \ {0}, NEW n \in Nat \ {0}, Mark(m) \in Nat,
           CreatePosition(t, m, s, c, n)
    PROVE  PositionBook' /\ MeaningKept /\ Total(MarginOf') = Total(MarginOf) + c
<1> DEFINE p == [owner |-> t, market |-> m, side |-> s, margin |-> c, notional |-> n,
                 entry_price |-> Mark(m), entry_funding |-> cumFunding[m]]
<1> USE DEF PositionBook, PositionTypeOK
<1>1. /\ nextId < MaxPositions /\ nextId' = nextId + 1
      /\ positions' = [positions EXCEPT ![nextId] = p]
      /\ userPositions' = [userPositions EXCEPT ![t] = @ \cup {nextId}]
      /\ SetOi(m, s, oi[m][s] + n)
  BY DEF CreatePosition
<1>2. p \in Position /\ p # NoPosition
  <2>1. p \in Position
    BY DEF Position, FeedTypeOK
  <2>2. QED
    BY <2>1, AbsenceAssumption
<1>3. /\ p.margin = c /\ p.notional = n /\ p.owner = t /\ p.market = m /\ p.side = s
  OBVIOUS
<1> HIDE DEF p
<1>4. nextId \in PositionIds /\ nextId' \in 0 .. MaxPositions /\ ~Open(nextId)
  BY <1>1, EngineAssumption DEF PositionIds, LivePositions
<1>5. positions' \in [PositionIds -> Position \cup {NoPosition}]
  BY <1>1, <1>2
<1>6. Total(MarginOf') = Total(MarginOf) + c
  <2>1. Total(MarginOf') = Total(MarginOf) - MarginOf[nextId] + c
    <3>1. PositionTypeOK
      OBVIOUS
    <3> HIDE DEF PositionBook, PositionTypeOK
    <3>2. Total(MarginOf') = Total(MarginOf) - MarginOf[nextId]
                               + (IF p # NoPosition THEN p.margin ELSE 0)
      <4>1. nextId \in PositionIds /\ p \in Position \cup {NoPosition}
            /\ positions' = [positions EXCEPT ![nextId] = p]
        BY <1>1, <1>2, <1>4
      <4>2. QED
        BY <3>1, <4>1, PositionSumsStep, Zenon
    <3>3. QED
      BY <1>2, <1>3, <3>2
  <2>2. MarginOf[nextId] = 0
    BY <1>4 DEF MarginOf
  <2>3. QED
    BY <2>1, <2>2, PositionSums
<1>7. OiMatches' /\ oi' \in [MarketIds -> [Sides -> Int]]
  <2>1. SetOi(m, s, oi[m][s] - (IF Open(nextId) THEN positions[nextId].notional ELSE 0)
                      + (IF p # NoPosition THEN p.notional ELSE 0))
    <3>1. (IF Open(nextId) THEN positions[nextId].notional ELSE 0) = 0
      BY <1>4
    <3>2. (IF p # NoPosition THEN p.notional ELSE 0) = n
      BY <1>2, <1>3
    <3>3. oi[m][s] - 0 + n = oi[m][s] + n
      OBVIOUS
    <3>4. QED
      BY <1>1, <3>1, <3>2, <3>3
  <2>2. QED
    BY <1>1, <1>2, <1>3, <1>4, <2>1, ExposureStep
<1>8. LivePositions'
  <2> SUFFICES ASSUME NEW i \in PositionIds, Open(i)'
               PROVE  i < nextId' /\ positions'[i].margin > 0 /\ positions'[i].notional > 0
    BY DEF LivePositions
  <2>1. CASE i = nextId
    BY <1>1, <1>3, <1>4, <2>1
  <2>2. CASE i # nextId
    BY <1>1, <1>4, <2>2 DEF LivePositions, Open, PositionIds
  <2>3. QED
    BY <2>1, <2>2
<1>9. /\ userPositions' \in [Users -> SUBSET PositionIds]
      /\ PositionIndex'
  <2>1. userPositions' \in [Users -> SUBSET PositionIds]
    BY <1>1, <1>4
  <2>2. ASSUME NEW u \in Users
        PROVE  userPositions'[u] = {i \in PositionIds : Open(i)' /\ positions'[i].owner = u}
    <3>1. userPositions[u] = {i \in PositionIds : Open(i) /\ positions[i].owner = u}
      BY DEF PositionIndex
    <3>2. \A i \in PositionIds : i # nextId => positions'[i] = positions[i]
      BY <1>1
    <3>3. positions'[nextId] = p
      BY <1>1, <1>4
    <3>4. CASE u = t
      BY <1>1, <1>2, <1>3, <1>4, <3>1, <3>2, <3>3, <3>4 DEF Open
    <3>5. CASE u # t
      BY <1>1, <1>2, <1>3, <1>4, <3>1, <3>2, <3>3, <3>5 DEF Open
    <3>6. QED
      BY <3>4, <3>5
  <2>3. QED
    BY <2>1, <2>2 DEF PositionIndex
<1>10. MeaningKept
  BY <1>1, <1>4 DEF MeaningKept, PositionIds
<1>11. QED
  BY <1>4, <1>5, <1>6, <1>7, <1>8, <1>9, <1>10

\* remove_position.
LEMMA RemoveBook ==
    ASSUME PositionBook, NEW id \in PositionIds, Open(id), RemovePosition(id)
    PROVE  /\ PositionBook' /\ MeaningKept
           /\ Total(MarginOf') = Total(MarginOf) - positions[id].margin
<1> DEFINE p == positions[id]
<1> USE DEF PositionBook, PositionTypeOK
<1>1. /\ nextId' = nextId
      /\ positions' = [positions EXCEPT ![id] = NoPosition]
      /\ userPositions' = [userPositions EXCEPT ![p.owner] = @ \ {id}]
      /\ SetOi(p.market, p.side, oi[p.market][p.side] - p.notional)
  BY DEF RemovePosition
<1>2. p \in Position /\ p.owner \in Users /\ p.market \in MarketIds /\ p.side \in Sides
      /\ p.notional \in Nat /\ p.margin \in Nat
  BY DEF Open, Position
<1>3. positions' \in [PositionIds -> Position \cup {NoPosition}]
  BY <1>1
<1>4. Total(MarginOf') = Total(MarginOf) - p.margin
  <2>1. Total(MarginOf') = Total(MarginOf) - MarginOf[id] + 0
    BY <1>1, PositionSumsStep
  <2>2. MarginOf[id] = p.margin
    BY DEF MarginOf
  <2>3. QED
    BY <1>2, <2>1, <2>2, PositionSums
<1>5. OiMatches' /\ oi' \in [MarketIds -> [Sides -> Int]]
  <2>1. SetOi(p.market, p.side,
              oi[p.market][p.side] - (IF Open(id) THEN positions[id].notional ELSE 0)
                + (IF NoPosition # NoPosition THEN NoPosition.notional ELSE 0))
    <3>1. oi[p.market][p.side] \in Int
      BY <1>2
    <3>2. oi[p.market][p.side] - p.notional + 0 = oi[p.market][p.side] - p.notional
      BY <1>2, <3>1
    <3>3. (IF NoPosition # NoPosition THEN NoPosition.notional ELSE 0) = 0
      OBVIOUS
    <3>4. QED
      BY <1>1, <3>2, <3>3
  <2>2. QED
    BY <1>1, <1>2, <2>1, ExposureStep
<1>6. LivePositions'
  BY <1>1 DEF LivePositions, Open
<1>7. /\ userPositions' \in [Users -> SUBSET PositionIds]
      /\ PositionIndex'
  <2>1. userPositions' \in [Users -> SUBSET PositionIds]
    BY <1>1
  <2>2. ASSUME NEW u \in Users
        PROVE  userPositions'[u] = {i \in PositionIds : Open(i)' /\ positions'[i].owner = u}
    <3>1. userPositions[u] = {i \in PositionIds : Open(i) /\ positions[i].owner = u}
      BY DEF PositionIndex
    <3>2. \A i \in PositionIds : i # id => positions'[i] = positions[i]
      BY <1>1
    <3>3. positions'[id] = NoPosition
      BY <1>1
    <3>4. CASE u = p.owner
      BY <1>1, <1>2, <3>1, <3>2, <3>3, <3>4 DEF Open
    <3>5. CASE u # p.owner
      BY <1>1, <1>2, <3>1, <3>2, <3>3, <3>5 DEF Open
    <3>6. QED
      BY <3>4, <3>5
  <2>3. QED
    BY <2>1, <2>2 DEF PositionIndex
<1>8. MeaningKept
  BY <1>1 DEF MeaningKept
<1>9. QED
  BY <1>1, <1>3, <1>4, <1>5, <1>6, <1>7, <1>8

\* store_position, with what every caller keeps of the record and the counter
\* moved by the change in size.
LEMMA StoreBook ==
    ASSUME PositionBook, NEW id \in PositionIds, Open(id),
           NEW p \in Position, StorePosition(id, p), p.margin > 0, p.notional > 0,
           p.owner = positions[id].owner, p.market = positions[id].market,
           p.side = positions[id].side,
           SetOi(p.market, p.side, oi[p.market][p.side] - positions[id].notional + p.notional)
    PROVE  /\ PositionBook' /\ MeaningKept
           /\ Total(MarginOf') = Total(MarginOf) - positions[id].margin + p.margin
<1> USE DEF PositionBook, PositionTypeOK
<1>1. /\ positions' = [positions EXCEPT ![id] = p]
      /\ UNCHANGED <<nextId, userPositions>>
  BY DEF StorePosition
<1>2. /\ p # NoPosition /\ p \in Position \cup {NoPosition}
      /\ p.market \in MarketIds /\ p.side \in Sides
  BY AbsenceAssumption DEF Position
<1>3. positions' \in [PositionIds -> Position \cup {NoPosition}]
  BY <1>1
<1>4. Total(MarginOf') = Total(MarginOf) - positions[id].margin + p.margin
  <2>1. Total(MarginOf') = Total(MarginOf) - MarginOf[id]
                             + (IF p # NoPosition THEN p.margin ELSE 0)
    BY <1>1, <1>2, PositionSumsStep
  <2>2. MarginOf[id] = positions[id].margin
    BY DEF MarginOf
  <2>3. (IF p # NoPosition THEN p.margin ELSE 0) = p.margin
    BY <1>2
  <2>4. QED
    BY <2>1, <2>2, <2>3
<1>5. OiMatches' /\ oi' \in [MarketIds -> [Sides -> Int]]
  <2>1. SetOi(p.market, p.side,
              oi[p.market][p.side] - (IF Open(id) THEN positions[id].notional ELSE 0)
                + (IF p # NoPosition THEN p.notional ELSE 0))
    BY <1>2
  <2>2. QED
    BY <1>1, <1>2, <2>1, ExposureStep
<1>6. LivePositions'
  BY <1>1 DEF LivePositions, Open
<1>7. PositionIndex'
  BY <1>1, <1>2 DEF PositionIndex, Open
<1>8. MeaningKept
  BY <1>1 DEF MeaningKept, Open
<1>9. QED
  BY <1>1, <1>3, <1>4, <1>5, <1>6, <1>7, <1>8

-----------------------------------------------------------------------------
(* The order table.                                                        *)

\* The escrow of the order table is a sum of naturals.
LEMMA OrderSums ==
    ASSUME OrderTypeOK
    PROVE  EscrowOf \in [OrderIds -> Nat] /\ Total(EscrowOf) \in Nat
<1>1. \A i \in OrderIds : Resting(i) => orders[i] \in Order
  BY DEF OrderTypeOK, Resting
<1>2. EscrowOf \in [OrderIds -> Nat]
  BY <1>1 DEF EscrowOf, Order
<1>3. QED
  BY <1>2, IdsFinite, TotalType

\* Writing one order changes the total escrow by that order's share of it.
LEMMA OrderSumsStep ==
    ASSUME OrderTypeOK, NEW id \in OrderIds, NEW o \in Order \cup {NoOrder},
           orders' = [orders EXCEPT ![id] = o]
    PROVE  Total(EscrowOf') = Total(EscrowOf) - EscrowOf[id]
                                + (IF o # NoOrder THEN o.margin ELSE 0)
<1> DEFINE v == IF o # NoOrder THEN o.margin ELSE 0
<1>1. EscrowOf' = [EscrowOf EXCEPT ![id] = v]
  BY DEF EscrowOf, Resting, OrderTypeOK
<1>2. v \in Nat
  BY DEF Order
<1>3. EscrowOf \in [OrderIds -> Nat]
  BY OrderSums
<1> HIDE DEF v
<1>4. Total([EscrowOf EXCEPT ![id] = v]) = Total(EscrowOf) - EscrowOf[id] + v
  BY <1>2, <1>3, IdsFinite, TotalUpdate
<1>5. QED
  BY <1>1, <1>4 DEF v

\* store_order.
LEMMA StoreOrderBook ==
    ASSUME OrderBook, NEW t \in Users, NEW o \in Order, o.owner = t, StoreOrder(t, o),
           Fillable(o)
    PROVE  /\ OrderBook' /\ Total(EscrowOf') = Total(EscrowOf) + o.margin
           /\ nextOrderId \in OrderIds
           /\ orders' = [orders EXCEPT ![nextOrderId] = o]
<1> USE DEF OrderBook, OrderTypeOK
<1>1. /\ nextOrderId < MaxOrders /\ nextOrderId' = nextOrderId + 1
      /\ orders' = [orders EXCEPT ![nextOrderId] = o]
      /\ userOrders' = [userOrders EXCEPT ![t] = @ \cup {nextOrderId}]
  BY DEF StoreOrder
<1>2. o # NoOrder /\ o \in Order \cup {NoOrder}
  BY AbsenceAssumption
<1>3. nextOrderId \in OrderIds /\ nextOrderId' \in 0 .. MaxOrders /\ ~Resting(nextOrderId)
  BY <1>1, EngineAssumption DEF OrderIds, LiveOrders
<1>4. orders' \in [OrderIds -> Order \cup {NoOrder}]
  BY <1>1
<1>5. Total(EscrowOf') = Total(EscrowOf) + o.margin
  <2>1. Total(EscrowOf') = Total(EscrowOf) - EscrowOf[nextOrderId]
                             + (IF o # NoOrder THEN o.margin ELSE 0)
    BY <1>1, <1>2, <1>3, OrderSumsStep
  <2>2. EscrowOf[nextOrderId] = 0
    BY <1>3 DEF EscrowOf
  <2>3. (IF o # NoOrder THEN o.margin ELSE 0) = o.margin
    BY <1>2
  <2>4. QED
    BY <2>1, <2>2, <2>3, OrderSums
<1>6. LiveOrders'
  <2> SUFFICES ASSUME NEW i \in OrderIds, Resting(i)'
               PROVE  i < nextOrderId' /\ Fillable(orders'[i])
    BY DEF LiveOrders
  <2>1. CASE i = nextOrderId
    BY <1>1, <1>3, <2>1
  <2>2. CASE i # nextOrderId
    BY <1>1, <1>3, <2>2 DEF LiveOrders, Resting, OrderIds
  <2>3. QED
    BY <2>1, <2>2
<1>7. /\ userOrders' \in [Users -> SUBSET OrderIds]
      /\ OrderIndex'
  <2>1. userOrders' \in [Users -> SUBSET OrderIds]
    BY <1>1, <1>3
  <2>2. ASSUME NEW u \in Users
        PROVE  userOrders'[u] = {i \in OrderIds : Resting(i)' /\ orders'[i].owner = u}
    <3>1. userOrders[u] = {i \in OrderIds : Resting(i) /\ orders[i].owner = u}
      BY DEF OrderIndex
    <3>2. \A i \in OrderIds : i # nextOrderId => orders'[i] = orders[i]
      BY <1>1
    <3>3. orders'[nextOrderId] = o
      BY <1>1, <1>3
    <3>4. CASE u = t
      BY <1>1, <1>2, <1>3, <3>1, <3>2, <3>3, <3>4 DEF Resting
    <3>5. CASE u # t
      BY <1>1, <1>2, <1>3, <3>1, <3>2, <3>3, <3>5 DEF Resting
    <3>6. QED
      BY <3>4, <3>5
  <2>3. QED
    BY <2>1, <2>2 DEF OrderIndex
<1>8. QED
  BY <1>1, <1>3, <1>4, <1>5, <1>6, <1>7

\* remove_order.
LEMMA RemoveOrderBook ==
    ASSUME OrderBook, NEW id \in OrderIds, Resting(id), RemoveOrder(id)
    PROVE  /\ OrderBook' /\ Total(EscrowOf') = Total(EscrowOf) - orders[id].margin
           /\ orders' = [orders EXCEPT ![id] = NoOrder]
<1> DEFINE o == orders[id]
<1> USE DEF OrderBook, OrderTypeOK
<1>1. /\ nextOrderId' = nextOrderId
      /\ orders' = [orders EXCEPT ![id] = NoOrder]
      /\ userOrders' = [userOrders EXCEPT ![o.owner] = @ \ {id}]
  BY DEF RemoveOrder
<1>2. o \in Order /\ o.owner \in Users /\ o.margin \in Nat
  BY DEF Resting, Order
<1>3. orders' \in [OrderIds -> Order \cup {NoOrder}]
  BY <1>1
<1>4. Total(EscrowOf') = Total(EscrowOf) - o.margin
  <2>1. Total(EscrowOf') = Total(EscrowOf) - EscrowOf[id]
                             + (IF NoOrder # NoOrder THEN NoOrder.margin ELSE 0)
    BY <1>1, OrderSumsStep
  <2>2. EscrowOf[id] = o.margin
    BY DEF EscrowOf
  <2>3. (IF NoOrder # NoOrder THEN NoOrder.margin ELSE 0) = 0
    OBVIOUS
  <2>4. QED
    BY <1>2, <2>1, <2>2, <2>3, OrderSums
<1>5. LiveOrders'
  BY <1>1 DEF LiveOrders, Resting
<1>6. /\ userOrders' \in [Users -> SUBSET OrderIds]
      /\ OrderIndex'
  <2>1. userOrders' \in [Users -> SUBSET OrderIds]
    BY <1>1
  <2>2. ASSUME NEW u \in Users
        PROVE  userOrders'[u] = {i \in OrderIds : Resting(i)' /\ orders'[i].owner = u}
    <3>1. userOrders[u] = {i \in OrderIds : Resting(i) /\ orders[i].owner = u}
      BY DEF OrderIndex
    <3>2. \A i \in OrderIds : i # id => orders'[i] = orders[i]
      BY <1>1
    <3>3. orders'[id] = NoOrder
      BY <1>1
    <3>4. CASE u = o.owner
      BY <1>1, <1>2, <3>1, <3>2, <3>3, <3>4 DEF Resting
    <3>5. CASE u # o.owner
      BY <1>1, <1>2, <3>1, <3>2, <3>3, <3>5 DEF Resting
    <3>6. QED
      BY <3>4, <3>5
  <2>3. QED
    BY <2>1, <2>2 DEF OrderIndex
<1>7. QED
  BY <1>1, <1>3, <1>4, <1>5, <1>6

\* The stops that were there still say the truth about the positions they name.
LEMMA StopsKept ==
    ASSUME StopTargetsOwn, PositionTypeOK, PositionTypeOK', OrderTypeOK, MeaningKept,
           \A i \in OrderIds :
               orders'[i] # NoOrder /\ orders'[i].reduce => orders'[i] = orders[i]
    PROVE  StopTargetsOwn'
<1> SUFFICES ASSUME NEW i \in OrderIds, orders'[i] # NoOrder, orders'[i].reduce
             PROVE  /\ orders'[i].reduce_position < nextId'
                    /\ positions'[orders'[i].reduce_position] # NoPosition =>
                          /\ positions'[orders'[i].reduce_position].owner = orders'[i].owner
                          /\ positions'[orders'[i].reduce_position].market = orders'[i].market
                          /\ positions'[orders'[i].reduce_position].side = orders'[i].side
  BY DEF StopTargetsOwn, Resting, Open
<1> DEFINE o == orders[i]
           r == o.reduce_position
<1>1. orders'[i] = o /\ o # NoOrder /\ o.reduce
  OBVIOUS
<1>2. /\ r < nextId
      /\ Open(r) => /\ positions[r].owner = o.owner
                    /\ positions[r].market = o.market
                    /\ positions[r].side = o.side
  BY <1>1 DEF StopTargetsOwn, Resting
<1>3. r \in Nat
  BY <1>1 DEF OrderTypeOK, Order
<1>4. nextId \in 0 .. MaxPositions /\ nextId' \in 0 .. MaxPositions /\ nextId <= nextId'
  BY DEF PositionTypeOK, MeaningKept
<1>5. r \in PositionIds /\ r < nextId'
  BY <1>2, <1>3, <1>4, EngineAssumption DEF PositionIds
<1>6. ASSUME positions'[r] # NoPosition
      PROVE  /\ positions'[r].owner = o.owner
             /\ positions'[r].market = o.market
             /\ positions'[r].side = o.side
  BY <1>2, <1>5, <1>6 DEF MeaningKept, Open
<1>7. QED
  BY <1>1, <1>5, <1>6

-----------------------------------------------------------------------------
(* What an entry point leaves alone.                                       *)

\* A transaction that writes no position keeps the position book.
LEMMA PositionsAlone ==
    ASSUME PositionBook, UNCHANGED <<positionVars, oi>>
    PROVE  PositionBook' /\ MeaningKept /\ Total(MarginOf') = Total(MarginOf)
<1>1. UNCHANGED <<positions, nextId, userPositions, oi>>
  BY DEF positionVars
<1>2. PositionTypeOK' /\ LivePositions' /\ PositionIndex'
  BY <1>1 DEF PositionBook, PositionTypeOK, LivePositions, PositionIndex, Open
<1>3. MarginOf' = MarginOf /\ \A m \in MarketIds, s \in Sides : ExposureOf(m, s)' = ExposureOf(m, s)
  BY <1>1 DEF MarginOf, ExposureOf, Open
<1>4. OiMatches'
  BY <1>1, <1>3 DEF PositionBook, OiMatches
<1>5. MeaningKept
  BY <1>1 DEF MeaningKept, PositionBook, PositionTypeOK
<1>6. QED
  BY <1>2, <1>3, <1>4, <1>5 DEF PositionBook

\* A transaction that writes no order keeps the order book.
LEMMA OrdersAlone ==
    ASSUME OrderBook, UNCHANGED orderVars
    PROVE  OrderBook' /\ Total(EscrowOf') = Total(EscrowOf) /\ orders' = orders
<1>1. UNCHANGED <<orders, nextOrderId, userOrders>>
  BY DEF orderVars
<1>2. OrderBook'
  BY <1>1 DEF OrderBook, OrderTypeOK, LiveOrders, OrderIndex, Resting
<1>3. EscrowOf' = EscrowOf
  BY <1>1 DEF EscrowOf, Resting
<1>4. QED
  BY <1>1, <1>2, <1>3

\* A transaction that writes neither the registry, the funding index nor a
\* price keeps the market book.
LEMMA MarketAlone ==
    ASSUME MarketBook, UNCHANGED <<registryVars, cumFunding, price>>
    PROVE  MarketBook'
  BY DEF MarketBook, RegistryTypeOK, RegistryConsistent, HasMarket, FeedTypeOK, registryVars

\* The margin of the positions and the escrow of the orders move with the pool.
LEMMA BackingStep ==
    ASSUME VaultInv, PositionBook, OrderBook, Backing,
           NEW c \in Int, NEW e \in Int,
           Total(MarginOf') = Total(MarginOf) + c,
           Total(EscrowOf') = Total(EscrowOf) + e,
           pools'.margin_pool = pools.margin_pool + c + e
    PROVE  Backing'
<1>1. Total(MarginOf) \in Nat /\ Total(EscrowOf) \in Nat
  BY PositionSums, OrderSums DEF PositionBook, OrderBook
<1>2. pools.margin_pool = Total(MarginOf) + Total(EscrowOf)
  BY DEF Backing
<1>3. pools'.margin_pool = Total(MarginOf') + Total(EscrowOf')
  BY <1>1, <1>2
<1>4. QED
  BY <1>3 DEF Backing

-----------------------------------------------------------------------------
(* What the engine computes is an integer whenever it computes it.         *)

\* A listed market has a configuration, integer fees and a natural price.
LEMMA ConfigTypes ==
    ASSUME MarketBook, NEW m \in MarketIds, HasMarket(m)
    PROVE  /\ markets[m] \in MarketConfig
           /\ \A n \in Int : Fee(m, n) \in Int
           /\ \A n \in Nat : Fee(m, n) \in Nat
           /\ price[Feed(m)] # NoPrice => Mark(m) \in Nat
<1>1. markets[m] \in MarketConfig
  BY DEF MarketBook, RegistryTypeOK, HasMarket
<1>2. markets[m].taker_fee_bps \in Nat /\ Feed(m) \in Feeds
  BY <1>1 DEF MarketConfig, Feed
<1>3. price[Feed(m)] \in Prices \cup {NoPrice} /\ Prices \subseteq Nat
  BY <1>2, EngineAssumption DEF MarketBook, FeedTypeOK
<1>4. \A n \in Int : Fee(m, n) \in Int /\ (n \in Nat => Fee(m, n) \in Nat)
  BY <1>2, ApplyBpsType DEF Fee
<1>5. price[Feed(m)] # NoPrice => Mark(m) \in Nat
  BY <1>3 DEF Mark
<1>6. QED
  BY <1>1, <1>4, <1>5

\* What a position owes in funding is an integer, of either sign.
LEMMA FundingTypes ==
    ASSUME MarketBook, NEW p \in Position
    PROVE  FundingOwed(p) \in Int
<1>1. p.market \in MarketIds /\ p.notional \in Nat /\ p.entry_funding \in Int
  BY DEF Position
<1>2. cumFunding[p.market] \in Int
  BY <1>1 DEF MarketBook, FeedTypeOK
<1>3. QED
  BY <1>1, <1>2, FundingPaymentType DEF FundingOwed

\* A position that can be valued has an integer profit and equity.
LEMMA ValueTypes ==
    ASSUME MarketBook, NEW p \in Position, Valued(p)
    PROVE  /\ \A n \in Int : Pnl(p, n) \in Int
           /\ Equity(p) \in Int
           /\ HasMarket(p.market) /\ p.market \in MarketIds
<1>1. /\ p.market \in MarketIds /\ p.notional \in Int /\ p.margin \in Int
      /\ p.entry_price \in Nat \ {0}
      /\ HasMarket(p.market) /\ price[Feed(p.market)] # NoPrice
  BY DEF Position, Valued, Priced
<1>2. Mark(p.market) \in Nat
  BY <1>1, ConfigTypes
<1>3. \A n \in Int : Pnl(p, n) \in Int
  BY <1>1, <1>2, PositionPnlType DEF Pnl
<1>4. FundingOwed(p) \in Int
  BY FundingTypes
<1>5. QED
  BY <1>1, <1>3, <1>4 DEF Equity

-----------------------------------------------------------------------------
(* Trader entry points.                                                    *)

\* open_position: the margin it locks is the margin it records.
LEMMA OpenPositionInv ==
    ASSUME EngineInv, NEW t \in Users, NEW m \in MarketIds, NEW s \in Sides, NEW c \in Int,
           NEW n \in Int, NEW r, NEW x, OpenPosition(t, m, s, c, n, r, x)
    PROVE  EngineInv'
<1> USE DEF EngineInv
<1>1. /\ c \in Nat \ {0} /\ n \in Nat \ {0} /\ HasMarket(m) /\ price[Feed(m)] # NoPrice
      /\ LockMargin(t, c, Fee(m, n)) /\ CreatePosition(t, m, s, c, n)
      /\ UNCHANGED <<registryVars, orderVars, cumFunding, price>>
  BY DEF OpenPosition, CanOpen, Priced
<1>2. Fee(m, n) \in Int /\ Mark(m) \in Nat
  BY <1>1, ConfigTypes
<1>3. VaultInv'
  BY <1>1, <1>2, LockMarginInv
<1>4. PositionBook' /\ MeaningKept /\ Total(MarginOf') = Total(MarginOf) + c
  BY <1>1, <1>2, CreateBook DEF MarketBook
<1>5. OrderBook' /\ Total(EscrowOf') = Total(EscrowOf) + 0 /\ orders' = orders
  BY <1>1, OrdersAlone, OrderSums DEF OrderBook
<1>6. pools'.margin_pool = pools.margin_pool + c + 0
  BY <1>1 DEF LockMargin, Locked, VaultInv, VaultTypeOK
<1>7. Backing'
  BY <1>4, <1>5, <1>6, BackingStep
<1>8. StopTargetsOwn'
  BY <1>4, <1>5, StopsKept DEF PositionBook, OrderBook
<1>9. MarketBook'
  BY <1>1, MarketAlone
<1>10. QED
  BY <1>3, <1>4, <1>5, <1>7, <1>8, <1>9

\* A whole close, as the owner or a keeper through a stop makes it.
LEMMA CloseFacts ==
    ASSUME VaultInv, MarketBook, PositionBook, NEW id \in PositionIds, Open(id),
           CloseInternal(id)
    PROVE  /\ VaultInv' /\ PositionBook' /\ MeaningKept
           /\ positions[id].margin \in Int
           /\ Total(MarginOf') = Total(MarginOf) + (-positions[id].margin)
           /\ pools'.margin_pool = pools.margin_pool + (-positions[id].margin)
<1> DEFINE p == positions[id]
           worth == MaxOf(Equity(p) - Fee(p.market, p.notional), 0)
<1>1. Valued(p) /\ Settle(p.owner, p.margin, worth) /\ RemovePosition(id)
  BY DEF CloseInternal, ClosePayout
<1>2. p \in Position /\ p.owner \in Users /\ p.margin \in Nat /\ p.notional \in Nat
  BY DEF PositionBook, PositionTypeOK, Open, Position
<1>3. Equity(p) \in Int /\ Fee(p.market, p.notional) \in Int
  <2>1. Equity(p) \in Int /\ HasMarket(p.market) /\ p.market \in MarketIds
    BY <1>1, <1>2, ValueTypes
  <2>2. QED
    BY <1>2, <2>1, ConfigTypes
<1>4. worth \in Int
  BY <1>3 DEF MaxOf
<1> HIDE DEF worth
<1>5. VaultInv'
  BY <1>1, <1>2, <1>4, SettleInv
<1>6. /\ PositionBook' /\ MeaningKept
      /\ Total(MarginOf') = Total(MarginOf) - p.margin
  BY <1>1, RemoveBook
<1>7. pools'.margin_pool = pools.margin_pool - p.margin
  BY <1>1 DEF Settle, MovedPools
<1>8. Total(MarginOf) \in Nat /\ pools.margin_pool \in Nat
  BY PositionSums DEF PositionBook, VaultInv, VaultTypeOK
<1>9. QED
  BY <1>2, <1>5, <1>6, <1>7, <1>8

\* close_position: the margin it releases is all the position had.
LEMMA ClosePositionInv ==
    ASSUME EngineInv, NEW t \in Users, NEW id \in PositionIds, ClosePosition(t, id)
    PROVE  EngineInv'
<1> USE DEF EngineInv
<1>1. /\ Open(id) /\ CloseInternal(id)
      /\ UNCHANGED <<registryVars, orderVars, cumFunding, price>>
  BY DEF ClosePosition, Owned
<1>2. /\ VaultInv' /\ PositionBook' /\ MeaningKept
      /\ positions[id].margin \in Int
      /\ Total(MarginOf') = Total(MarginOf) + (-positions[id].margin)
      /\ pools'.margin_pool = pools.margin_pool + (-positions[id].margin)
  BY <1>1, CloseFacts
<1>3. OrderBook' /\ Total(EscrowOf') = Total(EscrowOf) + 0 /\ orders' = orders
  BY <1>1, OrdersAlone, OrderSums DEF OrderBook
<1>4. Backing'
  <2>1. pools'.margin_pool = pools.margin_pool + (-positions[id].margin) + 0
    BY <1>2 DEF VaultInv, VaultTypeOK
  <2>2. QED
    BY <1>2, <1>3, <2>1, BackingStep
<1>5. StopTargetsOwn'
  BY <1>2, <1>3, StopsKept DEF PositionBook, OrderBook
<1>6. MarketBook'
  BY <1>1, MarketAlone
<1>7. QED
  BY <1>2, <1>3, <1>4, <1>5, <1>6

\* A change of margin that leaves the size alone.
LEMMA StoreSameSize ==
    ASSUME PositionBook, NEW id \in PositionIds, Open(id), NEW c \in Int, c > 0,
           StorePosition(id, [positions[id] EXCEPT !.margin = c]), UNCHANGED oi
    PROVE  /\ PositionBook' /\ MeaningKept
           /\ Total(MarginOf') = Total(MarginOf) + (c - positions[id].margin)
<1> DEFINE old == positions[id]
           new == [old EXCEPT !.margin = c]
<1>1. old \in Position /\ old.margin \in Nat /\ old.notional \in Nat /\ old.notional > 0
  BY DEF PositionBook, PositionTypeOK, LivePositions, Open, Position
<1>2. new \in Position
  BY <1>1 DEF Position
<1>3. /\ new.margin = c /\ new.notional = old.notional /\ new.owner = old.owner
      /\ new.market = old.market /\ new.side = old.side
      /\ new.market \in MarketIds /\ new.side \in Sides
  BY <1>1 DEF Position
<1>4. StorePosition(id, new)
  OBVIOUS
<1>5. SetOi(new.market, new.side, oi[new.market][new.side] - old.notional + new.notional)
  <2>1. oi \in [MarketIds -> [Sides -> Int]]
    BY DEF PositionBook, PositionTypeOK
  <2>2. oi[new.market][new.side] \in Int
    BY <1>3, <2>1
  <2>3. oi[new.market][new.side] - old.notional + new.notional = oi[new.market][new.side]
    BY <1>1, <1>3, <2>2
  <2>4. oi = [oi EXCEPT ![new.market][new.side] = oi[new.market][new.side]]
    BY <1>3, <2>1
  <2> HIDE DEF old, new
  <2>5. QED
    BY <2>3, <2>4 DEF SetOi
<1> HIDE DEF new
<1>6. /\ PositionBook' /\ MeaningKept
      /\ Total(MarginOf') = Total(MarginOf) - old.margin + new.margin
  BY <1>1, <1>2, <1>3, <1>4, <1>5, StoreBook
<1>7. Total(MarginOf) \in Nat
  BY PositionSums DEF PositionBook
<1>8. QED
  BY <1>1, <1>3, <1>6, <1>7

\* add_margin: pool and record grow by the same amount.
LEMMA AddPositionMarginInv ==
    ASSUME EngineInv, NEW t \in Users, NEW id \in PositionIds, NEW a \in Int,
           AddPositionMargin(t, id, a)
    PROVE  EngineInv'
<1> USE DEF EngineInv
<1> DEFINE old == positions[id]
<1>1. /\ Open(id) /\ AddMargin(t, a) /\ a > 0
      /\ StorePosition(id, [old EXCEPT !.margin = @ + a])
      /\ UNCHANGED <<registryVars, orderVars, oi, cumFunding, price>>
  BY DEF AddPositionMargin, Owned, AddMargin, CanAddMargin
<1>2. old.margin \in Nat
  BY <1>1 DEF PositionBook, PositionTypeOK, Open, Position
<1> DEFINE c == old.margin + a
<1>3. /\ StorePosition(id, [positions[id] EXCEPT !.margin = c])
      /\ c \in Int /\ c > 0
  BY <1>1, <1>2
<1>4. VaultInv'
  BY <1>1, AddMarginInv
<1>5. /\ PositionBook' /\ MeaningKept
      /\ Total(MarginOf') = Total(MarginOf) + (c - positions[id].margin)
  <2> HIDE DEF c
  <2> QED
    BY <1>1, <1>3, StoreSameSize
<1>6. OrderBook' /\ Total(EscrowOf') = Total(EscrowOf) + 0 /\ orders' = orders
  BY <1>1, OrdersAlone, OrderSums DEF OrderBook
<1>7. Backing'
  <2>1. Total(MarginOf') = Total(MarginOf) + a
    BY <1>2, <1>5
  <2>2. pools'.margin_pool = pools.margin_pool + a + 0
    BY <1>1 DEF AddMargin, VaultInv, VaultTypeOK
  <2>3. QED
    BY <1>6, <2>1, <2>2, BackingStep
<1>8. StopTargetsOwn'
  BY <1>5, <1>6, StopsKept DEF PositionBook, OrderBook
<1>9. MarketBook'
  BY <1>1, MarketAlone
<1>10. QED
  BY <1>4, <1>5, <1>6, <1>7, <1>8, <1>9

\* remove_margin: pool and record shrink by the same amount, and some is left.
LEMMA RemovePositionMarginInv ==
    ASSUME EngineInv, NEW t \in Users, NEW id \in PositionIds, NEW a \in Int,
           RemovePositionMargin(t, id, a)
    PROVE  EngineInv'
<1> USE DEF EngineInv
<1> DEFINE old == positions[id]
<1>0. old.margin \in Nat /\ old \in Position
  BY DEF RemovePositionMargin, CanWithdraw, Withdrawn, Owned, PositionBook, PositionTypeOK, Open,
         Position
<1>1. /\ Open(id) /\ Settle(t, a, a) /\ a > 0 /\ old.margin - a > 0
      /\ StorePosition(id, [old EXCEPT !.margin = old.margin - a])
      /\ UNCHANGED <<registryVars, orderVars, oi, cumFunding, price>>
  BY <1>0 DEF RemovePositionMargin, CanWithdraw, Withdrawn, Owned, Position
<1>2. VaultInv'
  BY <1>1, SettleInv
<1> DEFINE c == old.margin - a
<1>3. /\ PositionBook' /\ MeaningKept
      /\ Total(MarginOf') = Total(MarginOf) + (c - positions[id].margin)
  <2>1. /\ StorePosition(id, [positions[id] EXCEPT !.margin = c])
        /\ c \in Int /\ c > 0
    BY <1>0, <1>1
  <2> HIDE DEF c
  <2>2. QED
    BY <1>1, <2>1, StoreSameSize
<1>4. OrderBook' /\ Total(EscrowOf') = Total(EscrowOf) + 0 /\ orders' = orders
  BY <1>1, OrdersAlone, OrderSums DEF OrderBook
<1>5. Backing'
  <2>1. Total(MarginOf') = Total(MarginOf) + (-a)
    BY <1>0, <1>3
  <2>2. pools'.margin_pool = pools.margin_pool + (-a) + 0
    BY <1>1 DEF Settle, MovedPools, VaultInv, VaultTypeOK
  <2>3. QED
    BY <1>4, <2>1, <2>2, BackingStep
<1>6. StopTargetsOwn'
  BY <1>3, <1>4, StopsKept DEF PositionBook, OrderBook
<1>7. MarketBook'
  BY <1>1, MarketAlone
<1>8. QED
  BY <1>2, <1>3, <1>4, <1>5, <1>6, <1>7

\* The two vault calls of increase, on the pools one after the other.
LEMMA RealizeThenLock ==
    ASSUME VaultInv, NEW t \in Users, NEW d \in Int, NEW c \in Int, NEW f \in Int,
           CanRealize(pools, d), CanLock(balance, t, c, f),
           pools' = Locked(Realized(pools, d), c, f),
           balance' = Transferred(balance, t, Vault, c + f),
           UNCHANGED <<totalSupply, engineSet, totalShares, shares>>
    PROVE  VaultInv' /\ pools'.margin_pool = pools.margin_pool + (c - d)
<1> USE DEF VaultInv, VaultTypeOK, TokenTypeOK
<1> DEFINE mid == Realized(pools, d)
<1>1. /\ mid \in [lp_cash : Nat, margin_pool : Nat]
      /\ TotalAssets(mid) = TotalAssets(pools)
      /\ mid.margin_pool = pools.margin_pool - d
  BY PoolFacts DEF Realized
<1>2. c > 0 /\ f >= 0 /\ c + f \in Int /\ CanTransfer(balance, t, c + f)
  BY DEF CanLock
<1>3. t \in Accounts /\ t # Vault /\ Vault \in Accounts
  BY TokenAssumption DEF Accounts
<1>4. /\ balance' \in [Accounts -> Nat]
      /\ balance'[Vault] = balance[Vault] + (c + f)
  BY <1>2, <1>3, TransferFacts
<1>5. pools' = Locked(mid, c, f)
  OBVIOUS
<1> HIDE DEF mid
<1>6. /\ pools' \in [lp_cash : Nat, margin_pool : Nat]
      /\ TotalAssets(pools') = TotalAssets(pools) + c + f
  BY <1>1, <1>2, <1>5, PoolFacts
<1>7. pools'.margin_pool = pools.margin_pool + (c - d)
  BY <1>1, <1>5 DEF Locked
<1>8. Solvent'
  BY <1>3, <1>4, <1>6 DEF Solvent, TotalAssets
<1>9. SharesMatch'
  BY DEF SharesMatch
<1>10. QED
  BY <1>4, <1>6, <1>7, <1>8, <1>9

\* The two vault calls of decrease.
LEMMA RealizeThenSettle ==
    ASSUME VaultInv, NEW t \in Users, NEW d \in Int, NEW c \in Int, NEW out \in Int,
           CanRealize(pools, d), CanMovePools(Realized(pools, d), c, out),
           CanPay(balance, out),
           pools' = MovedPools(Realized(pools, d), c, out),
           balance' = Paid(balance, t, out),
           UNCHANGED <<totalSupply, engineSet, totalShares, shares>>
    PROVE  VaultInv' /\ pools'.margin_pool = pools.margin_pool + (-(c + d))
<1> USE DEF VaultInv, VaultTypeOK, TokenTypeOK
<1> DEFINE mid == Realized(pools, d)
<1>1. /\ mid \in [lp_cash : Nat, margin_pool : Nat]
      /\ TotalAssets(mid) = TotalAssets(pools)
      /\ mid.margin_pool = pools.margin_pool - d
  BY PoolFacts DEF Realized
<1>2. pools' = MovedPools(mid, c, out) /\ CanMovePools(mid, c, out)
  OBVIOUS
<1> HIDE DEF mid
<1>3. /\ pools' \in [lp_cash : Nat, margin_pool : Nat]
      /\ TotalAssets(pools') = TotalAssets(pools) - out
      /\ out \in Nat
  BY <1>1, <1>2, PoolFacts
<1>4. pools'.margin_pool = pools.margin_pool + (-(c + d))
  BY <1>1, <1>2 DEF MovedPools
<1>5. balance' \in [Accounts -> Nat] /\ balance'[Vault] = balance[Vault] - out
  BY <1>3, PayFacts
<1>6. Solvent'
  <2>1. balance[Vault] \in Nat
    BY DEF Accounts
  <2>2. QED
    BY <1>3, <1>5, <2>1 DEF Solvent, TotalAssets
<1>7. SharesMatch'
  BY DEF SharesMatch
<1>8. QED
  BY <1>3, <1>4, <1>5, <1>6, <1>7

\* increase charges the funding to the margin, and writes a live record.
LEMMA IncreaseRecord ==
    ASSUME EngineInv, NEW t \in Users, NEW id \in PositionIds, NEW c \in Int,
           NEW n \in Int, NEW r, NEW x, Increase(t, id, c, n, r, x)
    PROVE  LET old == positions[id] IN
           /\ Open(id) /\ old \in Position /\ c > 0 /\ FundingOwed(old) \in Int
           /\ Fee(old.market, n) \in Int
           /\ \E new \in Position :
                 /\ StorePosition(id, new)
                 /\ new.margin = old.margin - FundingOwed(old) + c /\ new.margin > 0
                 /\ new.notional = old.notional + n /\ new.notional > 0
                 /\ new.owner = old.owner /\ new.market = old.market /\ new.side = old.side
<1> USE DEF EngineInv
<1> DEFINE old == positions[id]
           m == old.market
           funding == FundingOwed(old)
           fee == Fee(m, n)
           entry == (old.notional * old.entry_price + n * Mark(m)) \div (old.notional + n)
           new == [old EXCEPT !.notional = old.notional + n,
                              !.margin = old.margin - funding + c,
                              !.entry_price = entry, !.entry_funding = cumFunding[m]]
<1>1. /\ Open(id) /\ c > 0 /\ n > 0 /\ HasMarket(m) /\ price[Feed(m)] # NoPrice
      /\ funding < old.margin /\ StorePosition(id, new)
  BY DEF Increase, Owned, Priced, FundingCovered
<1>2. /\ old \in Position /\ old.margin \in Nat /\ old.notional \in Nat
      /\ old.notional > 0 /\ old.entry_price \in Nat /\ m \in MarketIds
      /\ old.side \in Sides
  BY <1>1 DEF PositionBook, PositionTypeOK, LivePositions, Open, Position
<1>3. funding \in Int /\ fee \in Int /\ Mark(m) \in Nat
  BY <1>1, <1>2, FundingTypes, ConfigTypes
<1>4. entry \in Nat
  <2> DEFINE sum == old.notional * old.entry_price + n * Mark(m)
             size == old.notional + n
  <2>1. old.notional * old.entry_price \in Nat /\ n * Mark(m) \in Nat
    BY <1>1, <1>2, <1>3
  <2>2. sum \in Nat /\ size \in Nat \ {0}
    BY <1>1, <1>2, <2>1
  <2>3. entry = sum \div size
    OBVIOUS
  <2> HIDE DEF sum, size, entry
  <2>4. QED
    BY <2>2, <2>3, QuotientBounds
<1>5. cumFunding[m] \in Int
  BY <1>2 DEF MarketBook, FeedTypeOK
<1> HIDE DEF funding, fee, entry
<1>6. /\ new \in Position /\ new.margin > 0 /\ new.notional > 0
      /\ new.margin = old.margin - funding + c /\ new.notional = old.notional + n
      /\ new.owner = old.owner /\ new.market = m /\ new.side = old.side
  <2> DEFINE size == old.notional + n
             left == old.margin - funding + c
  <2>1. size \in Nat /\ size > 0 /\ left \in Nat /\ left > 0
    BY <1>1, <1>2, <1>3
  <2>2. new = [old EXCEPT !.notional = size, !.margin = left, !.entry_price = entry,
                         !.entry_funding = cumFunding[m]]
    OBVIOUS
  <2> HIDE DEF old, m, new, size, left
  <2>3. /\ new \in Position /\ new.margin = left /\ new.notional = size
        /\ new.owner = old.owner /\ new.market = old.market /\ new.side = old.side
    BY <1>2, <1>4, <1>5, <2>1, <2>2 DEF Position
  <2>4. QED
    BY <2>1, <2>3 DEF size, left, m
<1> HIDE DEF new
<1>7. QED
  BY <1>1, <1>2, <1>3, <1>6 DEF funding, fee

\* increase: funding is realized, then margin locked; together they move the pool as
\* the record moves.
LEMMA IncreaseInv ==
    ASSUME EngineInv, NEW t \in Users, NEW id \in PositionIds, NEW c \in Int,
           NEW n \in Int, NEW r, NEW x, Increase(t, id, c, n, r, x)
    PROVE  EngineInv'
<1> USE DEF EngineInv
<1> DEFINE old == positions[id]
           m == old.market
           funding == FundingOwed(old)
           fee == Fee(m, n)
<1>1. /\ CanRealize(pools, funding) /\ CanLock(balance, t, c, fee)
      /\ pools' = Locked(Realized(pools, funding), c, fee)
      /\ balance' = Transferred(balance, t, Vault, c + fee)
      /\ SetOi(m, old.side, oi[m][old.side] + n)
      /\ UNCHANGED <<totalSupply, engineSet, totalShares, shares>>
      /\ UNCHANGED <<registryVars, orderVars, cumFunding, price>>
  BY DEF Increase
<1>2. /\ Open(id) /\ old.margin \in Nat /\ old.notional \in Nat
      /\ m \in MarketIds /\ old.side \in Sides
  BY IncreaseRecord DEF Position
<1>3. funding \in Int /\ fee \in Int
  BY IncreaseRecord
<1>4. PICK new \in Position :
          /\ StorePosition(id, new) /\ new.margin > 0 /\ new.notional > 0
          /\ new.margin = old.margin - funding + c /\ new.notional = old.notional + n
          /\ new.owner = old.owner /\ new.market = m /\ new.side = old.side
  BY IncreaseRecord
<1> HIDE DEF funding, fee
<1>5. VaultInv' /\ pools'.margin_pool = pools.margin_pool + (c - funding)
  BY <1>1, <1>3, RealizeThenLock
<1>6. /\ PositionBook' /\ MeaningKept
      /\ Total(MarginOf') = Total(MarginOf) - old.margin + new.margin
  <2>1. SetOi(new.market, new.side, oi[new.market][new.side] - old.notional + new.notional)
    <3>1. oi[m][old.side] \in Int
      BY <1>2 DEF PositionBook, PositionTypeOK
    <3>2. oi[m][old.side] - old.notional + (old.notional + n) = oi[m][old.side] + n
      BY <1>2, <3>1
    <3>3. QED
      BY <1>1, <1>4, <3>2
  <2>2. QED
    BY <1>1, <1>2, <1>4, <2>1, StoreBook
<1>7. OrderBook' /\ Total(EscrowOf') = Total(EscrowOf) + 0 /\ orders' = orders
  BY <1>1, OrdersAlone, OrderSums DEF OrderBook
<1>8. Backing'
  <2>1. Total(MarginOf) \in Nat /\ pools.margin_pool \in Nat
    BY PositionSums DEF PositionBook, VaultInv, VaultTypeOK
  <2>2. Total(MarginOf') = Total(MarginOf) + (c - funding)
    BY <1>2, <1>3, <1>4, <1>6, <2>1
  <2>3. pools'.margin_pool = pools.margin_pool + (c - funding) + 0
    BY <1>3, <1>5, <2>1
  <2>4. c - funding \in Int
    BY <1>3
  <2>5. QED
    BY <1>7, <2>2, <2>3, <2>4, BackingStep
<1>9. StopTargetsOwn'
  BY <1>6, <1>7, StopsKept DEF PositionBook, OrderBook
<1>10. MarketBook'
  BY <1>1, MarketAlone
<1>11. QED
  BY <1>5, <1>6, <1>7, <1>8, <1>9, <1>10

\* decrease charges the funding, releases a part of what is left, and writes a live
\* record.
LEMMA DecreaseRecord ==
    ASSUME EngineInv, NEW t \in Users, NEW id \in PositionIds,
           NEW n \in Int, NEW r, NEW x, Decrease(t, id, n, r, x)
    PROVE  LET old == positions[id]
               funding == FundingOwed(old)
           IN  /\ Open(id) /\ old \in Position /\ funding \in Int
               /\ \E closed \in Nat, payout \in Int, new \in Position :
                     /\ CanMovePools(Realized(pools, funding), closed, payout)
                     /\ CanPay(balance, payout)
                     /\ pools' = MovedPools(Realized(pools, funding), closed, payout)
                     /\ balance' = Paid(balance, t, payout)
                     /\ StorePosition(id, new)
                     /\ new.margin = old.margin - funding - closed /\ new.margin > 0
                     /\ new.notional = old.notional - n /\ new.notional > 0
                     /\ new.owner = old.owner /\ new.market = old.market /\ new.side = old.side
<1> USE DEF EngineInv
<1> DEFINE old == positions[id]
           m == old.market
           funding == FundingOwed(old)
           margin == old.margin - funding
           closed == MulDiv(margin, n, old.notional)
           payout == PartialPayout(old, closed, n)
           new == [old EXCEPT !.notional = old.notional - n, !.margin = margin - closed,
                              !.entry_funding = cumFunding[m]]
<1>1. /\ Open(id) /\ n > 0 /\ n < old.notional /\ Valued(old)
      /\ funding < old.margin /\ CanRealize(pools, funding)
      /\ CanMovePools(Realized(pools, funding), closed, payout)
      /\ CanPay(balance, payout)
      /\ pools' = MovedPools(Realized(pools, funding), closed, payout)
      /\ balance' = Paid(balance, t, payout)
      /\ StorePosition(id, [old EXCEPT !.notional = @ - n, !.margin = margin - closed,
                                       !.entry_funding = cumFunding[m]])
  BY DEF Decrease, Owned, FundingCovered
<1>2. /\ old \in Position /\ old.margin \in Nat /\ old.notional \in Nat
      /\ m \in MarketIds /\ old.side \in Sides
  BY <1>1 DEF PositionBook, PositionTypeOK, Open, Position
<1>3. /\ funding \in Int /\ margin \in Nat \ {0} /\ old.notional \in Nat \ {0} /\ n \in Nat
  BY <1>1, <1>2, FundingTypes
<1>4. closed \in Nat /\ closed < margin
  <2>0. margin \in Int /\ margin \in Nat /\ n \in Int /\ old.notional \in Nat \ {0}
    BY <1>3
  <2> HIDE DEF margin
  <2>1. closed = (margin * n) \div old.notional
    BY <1>3, <2>0, MulDivType
  <2>2. QED
    BY <1>1, <1>3, <2>1, StrictPart
<1> HIDE DEF closed
<1>5. payout \in Int
  <2>1. Pnl(old, n) \in Int /\ HasMarket(m)
    BY <1>1, <1>2, ValueTypes
  <2>2. Fee(m, n) \in Int
    BY <1>2, <2>1, ConfigTypes
  <2>3. QED
    BY <1>4, <2>1, <2>2 DEF PartialPayout, MaxOf
<1>6. cumFunding[m] \in Int
  BY <1>2 DEF MarketBook, FeedTypeOK
<1> HIDE DEF funding, payout
<1>7. /\ new \in Position /\ new.margin > 0 /\ new.notional > 0
      /\ new.margin = margin - closed /\ new.notional = old.notional - n
      /\ new.owner = old.owner /\ new.market = m /\ new.side = old.side
      /\ StorePosition(id, new)
  <2> DEFINE size == old.notional - n
             left == margin - closed
  <2>1. size \in Nat /\ size > 0 /\ left \in Nat /\ left > 0
    BY <1>1, <1>2, <1>3, <1>4
  <2>2. new = [old EXCEPT !.notional = size, !.margin = left, !.entry_funding = cumFunding[m]]
    OBVIOUS
  <2>3. StorePosition(id, new)
    BY <1>1
  <2> HIDE DEF old, m, new, size, left
  <2>4. /\ new \in Position /\ new.margin = left /\ new.notional = size
        /\ new.owner = old.owner /\ new.market = old.market /\ new.side = old.side
    BY <1>2, <1>6, <2>1, <2>2 DEF Position
  <2>5. QED
    BY <2>1, <2>3, <2>4 DEF size, left, m
<1> HIDE DEF new
<1>8. QED
  BY <1>1, <1>2, <1>3, <1>4, <1>5, <1>7 DEF funding

\* decrease: funding is realized, then a part of the margin leaves; the rest stays live.
LEMMA DecreaseInv ==
    ASSUME EngineInv, NEW t \in Users, NEW id \in PositionIds,
           NEW n \in Int, NEW r, NEW x, Decrease(t, id, n, r, x)
    PROVE  EngineInv'
<1> USE DEF EngineInv
<1> DEFINE old == positions[id]
           m == old.market
           funding == FundingOwed(old)
<1>1. /\ CanRealize(pools, funding) /\ SetOi(m, old.side, oi[m][old.side] - n)
      /\ UNCHANGED <<totalSupply, engineSet, totalShares, shares>>
      /\ UNCHANGED <<registryVars, orderVars, cumFunding, price>>
  BY DEF Decrease
<1>2. /\ Open(id) /\ old.margin \in Nat /\ old.notional \in Nat
      /\ m \in MarketIds /\ old.side \in Sides
  BY DecreaseRecord DEF Position
<1>3. funding \in Int
  BY DecreaseRecord
<1>4. PICK closed \in Nat, payout \in Int, new \in Position :
          /\ CanMovePools(Realized(pools, funding), closed, payout)
          /\ CanPay(balance, payout)
          /\ pools' = MovedPools(Realized(pools, funding), closed, payout)
          /\ balance' = Paid(balance, t, payout)
          /\ StorePosition(id, new) /\ new.margin > 0 /\ new.notional > 0
          /\ new.margin = old.margin - funding - closed /\ new.notional = old.notional - n
          /\ new.owner = old.owner /\ new.market = m /\ new.side = old.side
  BY DecreaseRecord
<1> HIDE DEF funding
<1>5. VaultInv' /\ pools'.margin_pool = pools.margin_pool + (-(closed + funding))
  BY <1>1, <1>3, <1>4, RealizeThenSettle
<1>6. /\ PositionBook' /\ MeaningKept
      /\ Total(MarginOf') = Total(MarginOf) - old.margin + new.margin
  <2>1. SetOi(new.market, new.side, oi[new.market][new.side] - old.notional + new.notional)
    <3>1. oi[m][old.side] \in Int
      BY <1>2 DEF PositionBook, PositionTypeOK
    <3>2. oi[m][old.side] - old.notional + (old.notional - n) = oi[m][old.side] - n
      BY <1>2, <3>1
    <3>3. QED
      BY <1>1, <1>4, <3>2
  <2>2. QED
    BY <1>1, <1>2, <1>4, <2>1, StoreBook
<1>7. OrderBook' /\ Total(EscrowOf') = Total(EscrowOf) + 0 /\ orders' = orders
  BY <1>1, OrdersAlone, OrderSums DEF OrderBook
<1>8. Backing'
  <2>1. Total(MarginOf) \in Nat /\ pools.margin_pool \in Nat
    BY PositionSums DEF PositionBook, VaultInv, VaultTypeOK
  <2>2. Total(MarginOf') = Total(MarginOf) + (-(closed + funding))
    BY <1>2, <1>3, <1>4, <1>6, <2>1
  <2>3. pools'.margin_pool = pools.margin_pool + (-(closed + funding)) + 0
    BY <1>3, <1>5, <2>1
  <2>4. -(closed + funding) \in Int
    BY <1>3
  <2>5. QED
    BY <1>7, <2>2, <2>3, <2>4, BackingStep
<1>9. StopTargetsOwn'
  BY <1>6, <1>7, StopsKept DEF PositionBook, OrderBook
<1>10. MarketBook'
  BY <1>1, MarketAlone
<1>11. QED
  BY <1>5, <1>6, <1>7, <1>8, <1>9, <1>10

\* place_order: the escrow it locks is the margin it records.
LEMMA PlaceOrderInv ==
    ASSUME EngineInv, NEW t \in Users, NEW m \in MarketIds, NEW s \in Sides, NEW c \in Int,
           NEW n \in Int, NEW p \in Int, NEW d \in {Above, Below}, NEW x \in Nat,
           PlaceOrder(t, m, s, c, n, p, d, x)
    PROVE  EngineInv'
<1> USE DEF EngineInv
<1> DEFINE o == [owner |-> t, market |-> m, side |-> s, margin |-> c, notional |-> n,
                 trigger |-> p, dir |-> d, reduce |-> FALSE, reduce_position |-> 0,
                 slippage |-> x]
<1>1. /\ c > 0 /\ n > 0 /\ p > 0 /\ HasMarket(m)
      /\ LockMargin(t, c, Fee(m, n)) /\ StoreOrder(t, o)
      /\ UNCHANGED <<registryVars, positionVars, oi, cumFunding, price>>
  BY DEF PlaceOrder, CanPlace
<1>2. o \in Order /\ o.owner = t /\ o.margin = c /\ ~o.reduce /\ Fillable(o)
  BY <1>1 DEF Order, Fillable
<1> HIDE DEF o
<1>3. Fee(m, n) \in Int
  BY <1>1, ConfigTypes
<1>4. VaultInv'
  BY <1>1, <1>3, LockMarginInv
<1>5. PositionBook' /\ MeaningKept /\ Total(MarginOf') = Total(MarginOf) + 0
  BY <1>1, PositionsAlone, PositionSums DEF PositionBook
<1>6. /\ OrderBook' /\ Total(EscrowOf') = Total(EscrowOf) + c
      /\ nextOrderId \in OrderIds /\ orders' = [orders EXCEPT ![nextOrderId] = o]
  BY <1>1, <1>2, StoreOrderBook
<1>7. Backing'
  <2>1. pools'.margin_pool = pools.margin_pool + 0 + c
    BY <1>1 DEF LockMargin, Locked, VaultInv, VaultTypeOK
  <2>2. QED
    BY <1>5, <1>6, <2>1, BackingStep
<1>8. StopTargetsOwn'
  <2>1. \A i \in OrderIds :
           orders'[i] # NoOrder /\ orders'[i].reduce => orders'[i] = orders[i]
    BY <1>2, <1>6 DEF OrderBook, OrderTypeOK
  <2>2. QED
    BY <1>5, <2>1, StopsKept DEF PositionBook, OrderBook
<1>9. MarketBook'
  BY <1>1, MarketAlone
<1>10. QED
  BY <1>4, <1>5, <1>6, <1>7, <1>8, <1>9

\* The one entry point that adds a stop: on a position its owner still has.
LEMMA PlaceStopInv ==
    ASSUME EngineInv, NEW t \in Users, NEW id \in PositionIds, NEW p \in Int,
           NEW d \in {Above, Below}, PlaceStop(t, id, p, d)
    PROVE  EngineInv'
<1> USE DEF EngineInv
<1> DEFINE q == positions[id]
           o == [owner |-> t, market |-> q.market, side |-> q.side, margin |-> 0,
                 notional |-> q.notional, trigger |-> p, dir |-> d, reduce |-> TRUE,
                 reduce_position |-> id, slippage |-> 0]
<1>1. /\ Open(id) /\ q.owner = t /\ p > 0 /\ StoreOrder(t, o)
      /\ UNCHANGED <<tokenVars, vaultVars, registryVars, positionVars, oi, cumFunding, price>>
  BY DEF PlaceStop, Owned
<1>2. /\ q.market \in MarketIds /\ q.side \in Sides /\ q.notional \in Nat
      /\ id \in Nat /\ id < nextId
  BY <1>1 DEF PositionBook, PositionTypeOK, LivePositions, Open, Position, PositionIds
<1>3. /\ o \in Order /\ Fillable(o) /\ o.owner = t /\ o.margin = 0
      /\ o.reduce_position = id /\ o.market = q.market /\ o.side = q.side
  BY <1>1, <1>2 DEF Order, Fillable
<1> HIDE DEF o
<1>4. VaultInv'
  BY <1>1 DEF tokenVars, vaultVars, VaultInv, VaultTypeOK, TokenTypeOK, SharesMatch, Solvent
<1>5. PositionBook' /\ MeaningKept /\ Total(MarginOf') = Total(MarginOf) + 0
  BY <1>1, PositionsAlone, PositionSums DEF PositionBook
<1>6. /\ OrderBook' /\ Total(EscrowOf') = Total(EscrowOf) + 0
      /\ nextOrderId \in OrderIds /\ orders' = [orders EXCEPT ![nextOrderId] = o]
  BY <1>1, <1>3, StoreOrderBook
<1>7. Backing'
  <2>1. pools'.margin_pool = pools.margin_pool + 0 + 0
    BY <1>1 DEF vaultVars, VaultInv, VaultTypeOK
  <2>2. QED
    BY <1>5, <1>6, <2>1, BackingStep
<1>8. StopTargetsOwn'
  <2>1. positions' = positions /\ nextId' = nextId
    BY <1>1 DEF positionVars
  <2> SUFFICES ASSUME NEW i \in OrderIds, orders'[i] # NoOrder, orders'[i].reduce
               PROVE  /\ orders'[i].reduce_position < nextId
                      /\ positions[orders'[i].reduce_position] # NoPosition =>
                            /\ positions[orders'[i].reduce_position].owner = orders'[i].owner
                            /\ positions[orders'[i].reduce_position].market = orders'[i].market
                            /\ positions[orders'[i].reduce_position].side = orders'[i].side
    BY <2>1 DEF StopTargetsOwn, Resting, Open
  <2>2. CASE i = nextOrderId
    <3>1. orders'[i] = o
      BY <1>6, <2>2 DEF OrderBook, OrderTypeOK
    <3>2. QED
      BY <1>1, <1>2, <1>3, <3>1
  <2>3. CASE i # nextOrderId
    <3>1. orders'[i] = orders[i]
      BY <1>6, <2>3 DEF OrderBook, OrderTypeOK
    <3>2. QED
      BY <3>1 DEF StopTargetsOwn, Resting, Open
  <2>4. QED
    BY <2>2, <2>3
<1>9. MarketBook'
  BY <1>1, MarketAlone
<1>10. QED
  BY <1>4, <1>5, <1>6, <1>7, <1>8, <1>9

\* Removing an order adds no stop.
LEMMA StopsAfterRemoval ==
    ASSUME StopTargetsOwn, PositionBook, PositionBook', OrderBook, MeaningKept,
           NEW id \in OrderIds, orders' = [orders EXCEPT ![id] = NoOrder]
    PROVE  StopTargetsOwn'
<1>1. \A i \in OrderIds :
         orders'[i] # NoOrder /\ orders'[i].reduce => orders'[i] = orders[i]
  BY DEF OrderBook, OrderTypeOK
<1>2. QED
  BY <1>1, StopsKept DEF PositionBook, OrderBook

\* cancel_order: an entry gives its escrow back, a stop has none.
LEMMA CancelOrderInv ==
    ASSUME EngineInv, NEW t \in Users, NEW id \in OrderIds, CancelOrder(t, id)
    PROVE  EngineInv'
<1> USE DEF EngineInv
<1> DEFINE o == orders[id]
<1>1. /\ Resting(id) /\ RemoveOrder(id)
      /\ UNCHANGED <<registryVars, positionVars, oi, cumFunding, price>>
  BY DEF CancelOrder
<1>2. /\ o \in Order /\ o.margin \in Nat /\ o.notional \in Nat /\ o.market \in MarketIds
      /\ o.reduce \in BOOLEAN /\ Fillable(o)
  BY <1>1 DEF OrderBook, OrderTypeOK, LiveOrders, Resting, Order
<1>3. VaultInv' /\ pools'.margin_pool = pools.margin_pool - o.margin
  <2>1. CASE o.reduce
    <3>1. UNCHANGED <<tokenVars, vaultVars>> /\ o.margin = 0
      BY <1>2, <2>1 DEF CancelOrder, Fillable
    <3>2. QED
      BY <3>1 DEF tokenVars, vaultVars, VaultInv, VaultTypeOK, TokenTypeOK, SharesMatch, Solvent
  <2>2. CASE ~o.reduce
    <3>1. HasMarket(o.market) /\ Settle(t, o.margin, o.margin + Fee(o.market, o.notional))
      BY <2>2 DEF CancelOrder, CancelPayout
    <3>2. o.margin + Fee(o.market, o.notional) \in Int
      BY <1>2, <3>1, ConfigTypes
    <3>3. VaultInv'
      BY <1>2, <3>1, <3>2, SettleInv
    <3>4. pools'.margin_pool = pools.margin_pool - o.margin
      BY <3>1 DEF Settle, MovedPools
    <3>5. QED
      BY <3>3, <3>4
  <2>3. QED
    BY <2>1, <2>2
<1>4. PositionBook' /\ MeaningKept /\ Total(MarginOf') = Total(MarginOf) + 0
  BY <1>1, PositionsAlone, PositionSums DEF PositionBook
<1>5. /\ OrderBook' /\ Total(EscrowOf') = Total(EscrowOf) - o.margin
      /\ orders' = [orders EXCEPT ![id] = NoOrder]
  BY <1>1, RemoveOrderBook
<1>6. Backing'
  <2>1. Total(EscrowOf) \in Nat /\ pools.margin_pool \in Nat
    BY OrderSums DEF OrderBook, VaultInv, VaultTypeOK
  <2>2. /\ Total(EscrowOf') = Total(EscrowOf) + (-o.margin) /\ -o.margin \in Int
        /\ pools'.margin_pool = pools.margin_pool + 0 + (-o.margin)
    BY <1>2, <1>3, <1>5, <2>1
  <2>3. QED
    BY <1>4, <2>2, BackingStep
<1>7. StopTargetsOwn'
  BY <1>4, <1>5, StopsAfterRemoval
<1>8. MarketBook'
  BY <1>1, MarketAlone
<1>9. QED
  BY <1>3, <1>4, <1>5, <1>6, <1>7, <1>8

-----------------------------------------------------------------------------
(* Keeper entry points.                                                    *)

\* liquidate: releases all the margin; the keeper's fee has priority on what is left.
LEMMA LiquidateInv ==
    ASSUME EngineInv, NEW k \in Users, NEW id \in PositionIds, Liquidate(k, id)
    PROVE  EngineInv'
<1> USE DEF EngineInv
<1> DEFINE p == positions[id]
           left == MaxOf(Equity(p), 0)
           penalty == ApplyBps(p.notional, markets[p.market].liquidation_fee_bps)
           reward == MinOf(penalty, left)
<1>1. /\ Open(id) /\ Valued(p)
      /\ SettleLiquidation(p.owner, k, p.margin, left - reward, reward)
      /\ RemovePosition(id)
      /\ UNCHANGED <<registryVars, orderVars, cumFunding, price>>
  BY DEF Liquidate
<1>2. p \in Position /\ p.owner \in Users /\ p.margin \in Nat /\ p.notional \in Nat
  BY <1>1 DEF PositionBook, PositionTypeOK, Open, Position
<1>3. left \in Int /\ penalty \in Int
  <2>1. Equity(p) \in Int /\ HasMarket(p.market) /\ p.market \in MarketIds
    BY <1>1, <1>2, ValueTypes
  <2>2. markets[p.market].liquidation_fee_bps \in Nat
    BY <2>1, ConfigTypes DEF MarketConfig
  <2>3. penalty \in Int
    <3> DEFINE bps == markets[p.market].liquidation_fee_bps
               n == p.notional
    <3>1. bps \in Nat /\ n \in Int
      BY <1>2, <2>2
    <3> HIDE DEF bps, n
    <3>2. ApplyBps(n, bps) \in Int
      BY <3>1, ApplyBpsType
    <3>3. QED
      BY <3>2 DEF bps, n
  <2>4. QED
    BY <2>1, <2>3 DEF MaxOf
<1> HIDE DEF left, penalty
<1>4. reward \in Int /\ left - reward \in Int
  BY <1>3 DEF MinOf
<1> HIDE DEF reward
<1>5. VaultInv'
  BY <1>1, <1>2, <1>4, SettleLiquidationInv
<1>6. /\ PositionBook' /\ MeaningKept
      /\ Total(MarginOf') = Total(MarginOf) - p.margin
  BY <1>1, RemoveBook
<1>7. OrderBook' /\ Total(EscrowOf') = Total(EscrowOf) + 0 /\ orders' = orders
  BY <1>1, OrdersAlone, OrderSums DEF OrderBook
<1>8. Backing'
  <2>1. Total(MarginOf) \in Nat /\ pools.margin_pool \in Nat
    BY PositionSums DEF PositionBook, VaultInv, VaultTypeOK
  <2>2. pools'.margin_pool = pools.margin_pool - p.margin
    BY <1>1 DEF SettleLiquidation, MovedPools
  <2>3. /\ Total(MarginOf') = Total(MarginOf) + (-p.margin) /\ -p.margin \in Int
        /\ pools'.margin_pool = pools.margin_pool + (-p.margin) + 0
    BY <1>2, <1>6, <2>1, <2>2
  <2>4. QED
    BY <1>7, <2>3, BackingStep
<1>9. StopTargetsOwn'
  BY <1>6, <1>7, StopsKept DEF PositionBook, OrderBook
<1>10. MarketBook'
  BY <1>1, MarketAlone
<1>11. QED
  BY <1>5, <1>6, <1>7, <1>8, <1>9, <1>10

\* A transaction that touches neither the vault nor a table.
LEMMA BooksAlone ==
    ASSUME EngineInv, UNCHANGED <<tokenVars, vaultVars, positionVars, orderVars, oi>>
    PROVE  VaultInv' /\ PositionBook' /\ OrderBook' /\ Backing' /\ StopTargetsOwn'
<1> USE DEF EngineInv
<1>1. VaultInv'
  BY DEF tokenVars, vaultVars, VaultInv, VaultTypeOK, TokenTypeOK, SharesMatch, Solvent
<1>2. PositionBook' /\ MeaningKept /\ Total(MarginOf') = Total(MarginOf) + 0
  BY PositionsAlone, PositionSums DEF PositionBook
<1>3. OrderBook' /\ Total(EscrowOf') = Total(EscrowOf) + 0 /\ orders' = orders
  BY OrdersAlone, OrderSums DEF OrderBook
<1>4. pools'.margin_pool = pools.margin_pool + 0 + 0
  BY DEF vaultVars, VaultInv, VaultTypeOK
<1>5. Backing'
  BY <1>2, <1>3, <1>4, BackingStep
<1>6. StopTargetsOwn'
  BY <1>2, <1>3, StopsKept DEF PositionBook, OrderBook
<1>7. QED
  BY <1>1, <1>2, <1>3, <1>5, <1>6

\* update_funding touches the index alone.
LEMMA UpdateFundingInv ==
    ASSUME EngineInv, NEW k \in Users, NEW m \in MarketIds, UpdateFunding(k, m)
    PROVE  EngineInv'
<1> DEFINE cum == cumFunding[m] + FundingRate(m) * (FUNDING_SCALE \div BPS_DENOM)
<1>1. /\ cum \in -MaxCumFunding .. MaxCumFunding
      /\ cumFunding' = [cumFunding EXCEPT ![m] = cum]
      /\ UNCHANGED <<tokenVars, vaultVars, positionVars, orderVars, oi>>
      /\ UNCHANGED registryVars /\ UNCHANGED price
  BY DEF UpdateFunding
<1> HIDE DEF cum
<1>2. cum \in Int
  BY <1>1, EngineAssumption
<1>3. MarketBook'
  BY <1>1, <1>2 DEF EngineInv, MarketBook, RegistryTypeOK, RegistryConsistent, HasMarket,
                    FeedTypeOK, registryVars
<1>4. QED
  BY <1>1, <1>3, BooksAlone DEF EngineInv

\* The escrow of a filled entry order becomes the margin of its position.
LEMMA FillEntryInv ==
    ASSUME EngineInv, NEW k \in Users, NEW id \in OrderIds, FillEntry(k, id)
    PROVE  EngineInv'
<1> USE DEF EngineInv
<1> DEFINE o == orders[id]
<1>1. /\ Resting(id) /\ ~o.reduce /\ HasMarket(o.market) /\ price[Feed(o.market)] # NoPrice
      /\ CreatePosition(o.owner, o.market, o.side, o.margin, o.notional)
      /\ RemoveOrder(id)
      /\ UNCHANGED <<tokenVars, vaultVars, registryVars, cumFunding, price>>
  BY DEF FillEntry, CanExecute, Priced
<1>2. /\ o.owner \in Users /\ o.market \in MarketIds /\ o.side \in Sides
      /\ o.margin \in Nat \ {0} /\ o.notional \in Nat \ {0}
  BY <1>1 DEF OrderBook, OrderTypeOK, LiveOrders, Fillable, Resting, Order
<1>3. Mark(o.market) \in Nat
  BY <1>1, <1>2, ConfigTypes
<1>4. PositionBook' /\ MeaningKept /\ Total(MarginOf') = Total(MarginOf) + o.margin
  BY <1>1, <1>2, <1>3, CreateBook DEF MarketBook
<1>5. /\ OrderBook' /\ Total(EscrowOf') = Total(EscrowOf) - o.margin
      /\ orders' = [orders EXCEPT ![id] = NoOrder]
  BY <1>1, RemoveOrderBook
<1>6. VaultInv'
  BY <1>1 DEF tokenVars, vaultVars, VaultInv, VaultTypeOK, TokenTypeOK, SharesMatch, Solvent
<1>7. Backing'
  <2>1. Total(EscrowOf) \in Nat /\ pools.margin_pool \in Nat /\ pools' = pools
    BY <1>1, OrderSums DEF OrderBook, VaultInv, VaultTypeOK, vaultVars
  <2>2. /\ Total(EscrowOf') = Total(EscrowOf) + (-o.margin) /\ -o.margin \in Int
        /\ pools'.margin_pool = pools.margin_pool + o.margin + (-o.margin)
    BY <1>2, <1>5, <2>1
  <2>3. QED
    BY <1>2, <1>4, <2>2, BackingStep
<1>8. StopTargetsOwn'
  BY <1>4, <1>5, StopsAfterRemoval
<1>9. MarketBook'
  BY <1>1, MarketAlone
<1>10. QED
  BY <1>4, <1>5, <1>6, <1>7, <1>8, <1>9

\* execute_order on a stop: the position goes and the stop with it.
LEMMA FillStopInv ==
    ASSUME EngineInv, NEW k \in Users, NEW id \in OrderIds, FillStop(k, id)
    PROVE  EngineInv'
<1> USE DEF EngineInv
<1> DEFINE o == orders[id]
           r == o.reduce_position
<1>1. /\ Resting(id) /\ o.reduce /\ Open(r) /\ CloseInternal(r) /\ RemoveOrder(id)
      /\ UNCHANGED <<registryVars, cumFunding, price>>
  BY DEF FillStop, CanExecute
<1>2. o.margin = 0 /\ r \in PositionIds
  <2>1. o.margin = 0 /\ r \in Nat
    BY <1>1 DEF OrderBook, OrderTypeOK, LiveOrders, Fillable, Resting, Order
  <2>2. r < nextId /\ nextId \in 0 .. MaxPositions
    BY <1>1 DEF StopTargetsOwn, PositionBook, PositionTypeOK
  <2>3. QED
    BY <2>1, <2>2, EngineAssumption DEF PositionIds
<1> HIDE DEF r
<1>3. /\ VaultInv' /\ PositionBook' /\ MeaningKept
      /\ positions[r].margin \in Int
      /\ Total(MarginOf') = Total(MarginOf) + (-positions[r].margin)
      /\ pools'.margin_pool = pools.margin_pool + (-positions[r].margin)
  BY <1>1, <1>2, CloseFacts
<1>4. /\ OrderBook' /\ Total(EscrowOf') = Total(EscrowOf) - o.margin
      /\ orders' = [orders EXCEPT ![id] = NoOrder]
  BY <1>1, RemoveOrderBook
<1>5. Backing'
  <2>1. Total(EscrowOf) \in Nat /\ pools.margin_pool \in Nat
    BY OrderSums DEF OrderBook, VaultInv, VaultTypeOK
  <2>2. /\ Total(EscrowOf') = Total(EscrowOf) + 0
        /\ pools'.margin_pool = pools.margin_pool + (-positions[r].margin) + 0
    BY <1>2, <1>3, <1>4, <2>1
  <2>3. QED
    BY <1>3, <2>2, BackingStep
<1>6. StopTargetsOwn'
  BY <1>3, <1>4, StopsAfterRemoval
<1>7. MarketBook'
  BY <1>1, MarketAlone
<1>8. QED
  BY <1>3, <1>4, <1>5, <1>6, <1>7

-----------------------------------------------------------------------------
(* Prices, liquidity providers and the registry.                           *)

\* A price change touches no book.
LEMMA PriceMoveInv == ASSUME EngineInv, PriceMove PROVE EngineInv'
<1>1. PICK f \in Feeds, x \in Prices \cup {NoPrice} : price' = [price EXCEPT ![f] = x]
  BY DEF PriceMove
<1>2. /\ UNCHANGED <<tokenVars, vaultVars, positionVars, orderVars, oi>>
      /\ UNCHANGED registryVars /\ UNCHANGED cumFunding
  BY DEF PriceMove, engineVars
<1>3. MarketBook'
  BY <1>1, <1>2 DEF EngineInv, MarketBook, RegistryTypeOK, RegistryConsistent, HasMarket,
                    FeedTypeOK, registryVars
<1>4. QED
  BY <1>2, <1>3, BooksAlone DEF EngineInv

\* LPs and direct transfers never touch the margin pool.
LEMMA PoolAlone ==
    ASSUME EngineInv, VaultInv', pools'.margin_pool = pools.margin_pool,
           UNCHANGED <<registryVars, engineVars, price>>
    PROVE  EngineInv'
<1> USE DEF EngineInv
<1>1. UNCHANGED <<registryVars, positionVars, orderVars, oi, cumFunding, price>>
  BY DEF engineVars
<1>2. PositionBook' /\ MeaningKept /\ Total(MarginOf') = Total(MarginOf) + 0
  BY <1>1, PositionsAlone, PositionSums DEF PositionBook
<1>3. OrderBook' /\ Total(EscrowOf') = Total(EscrowOf) + 0 /\ orders' = orders
  BY <1>1, OrdersAlone, OrderSums DEF OrderBook
<1>4. Backing'
  <2>1. pools'.margin_pool = pools.margin_pool + 0 + 0
    BY DEF VaultInv, VaultTypeOK
  <2>2. QED
    BY <1>2, <1>3, <2>1, BackingStep
<1>5. StopTargetsOwn'
  BY <1>2, <1>3, StopsKept DEF PositionBook, OrderBook
<1>6. MarketBook'
  BY <1>1, MarketAlone
<1>7. QED
  BY <1>2, <1>3, <1>4, <1>5, <1>6

\* A deposit or a redemption of any amount.
LEMMA LiquidityInv ==
    ASSUME EngineInv, NEW u \in Users, NEW a \in Int,
           AddLiquidity(u, a) \/ RemoveLiquidity(u, a), UNCHANGED <<registryVars, engineVars, price>>
    PROVE  EngineInv'
<1>1. VaultInv /\ pools \in [lp_cash : Nat, margin_pool : Nat]
  BY DEF EngineInv, VaultInv, VaultTypeOK
<1>2. VaultInv'
  BY <1>1, AddLiquidityInv, RemoveLiquidityInv
<1>3. pools'.margin_pool = pools.margin_pool
  <2>1. CASE AddLiquidity(u, a)
    BY <1>1, <2>1 DEF AddLiquidity
  <2>2. CASE RemoveLiquidity(u, a)
    BY <1>1, <2>2 DEF RemoveLiquidity
  <2>3. QED
    BY <2>1, <2>2
<1>4. QED
  BY <1>2, <1>3, PoolAlone

LEMMA PoolInv == ASSUME EngineInv, PoolNext PROVE EngineInv'
<1> USE DEF EngineInv
<1>1. UNCHANGED <<registryVars, engineVars, price>>
  BY DEF PoolNext
<1>2. VaultInv' /\ pools'.margin_pool = pools.margin_pool
  <2>1. CASE LpNext
    <3>1. VaultInv'
      BY <2>1, LpStepInv
    <3>2. pools \in [lp_cash : Nat, margin_pool : Nat]
      BY DEF VaultInv, VaultTypeOK
    <3>3. ASSUME NEW u, NEW a, AddLiquidity(u, a) PROVE pools'.margin_pool = pools.margin_pool
      BY <3>2, <3>3 DEF AddLiquidity
    <3>4. ASSUME NEW u, NEW n, RemoveLiquidity(u, n) PROVE pools'.margin_pool = pools.margin_pool
      BY <3>2, <3>4 DEF RemoveLiquidity
    <3>5. QED
      BY <2>1, <3>1, <3>3, <3>4 DEF LpNext
  <2>2. CASE TokenNext /\ UNCHANGED vaultVars
    BY <2>2, TokenStepInv DEF vaultVars
  <2>3. QED
    BY <2>1, <2>2 DEF PoolNext
<1>3. QED
  BY <1>1, <1>2, PoolAlone

\* Storing a configuration that passes validate under a listed id.
LEMMA StoreMarket ==
    ASSUME RegistryTypeOK, RegistryConsistent, NEW m \in MarketIds, NEW cfg \in MarketConfig,
           Validate(cfg), markets' = [markets EXCEPT ![m] = cfg],
           marketIds' = marketIds \cup {m},
           UNCHANGED <<globalPaused, keepers, pausers>>
    PROVE  RegistryTypeOK' /\ RegistryConsistent'
<1>1. cfg # NoMarket
  BY RegistryAssumption
<1>2. RegistryTypeOK'
  BY DEF RegistryTypeOK
<1>3. marketIds' = {i \in MarketIds : markets'[i] # NoMarket}
  BY <1>1 DEF RegistryTypeOK, RegistryConsistent, HasMarket
<1>4. \A i \in marketIds' : Validate(markets'[i])
  <2> TAKE i \in marketIds'
  <2>1. CASE i = m
    BY <2>1 DEF RegistryTypeOK
  <2>2. CASE i # m
    BY <2>2 DEF RegistryTypeOK, RegistryConsistent
  <2>3. QED
    BY <2>1, <2>2
<1>5. QED
  BY <1>2, <1>3, <1>4 DEF RegistryConsistent, HasMarket

\* Registry calls store only configurations that pass validate.
LEMMA RegistryInv ==
    ASSUME RegistryTypeOK, RegistryConsistent, RegistryNext
    PROVE  RegistryTypeOK' /\ RegistryConsistent'
<1>1. Configs \subseteq MarketConfig /\ Grantees \subseteq Users /\ NoMarket \notin MarketConfig
  BY RegistryAssumption
<1>2. ASSUME NEW c \in Users, Pause(c) \/ Unpause(c)
      PROVE  RegistryTypeOK' /\ RegistryConsistent'
  BY <1>2 DEF Pause, Unpause, RegistryTypeOK, RegistryConsistent, HasMarket
<1>3. ASSUME NEW c \in Users, NEW m \in MarketIds, NEW p \in BOOLEAN, SetMarketPaused(c, m, p)
      PROVE  RegistryTypeOK' /\ RegistryConsistent'
  <2> DEFINE old == markets[m]
             new == [old EXCEPT !.paused = p]
  <2>1. /\ m \in marketIds /\ old \in MarketConfig /\ Validate(old)
        /\ markets' = [markets EXCEPT ![m] = new]
        /\ UNCHANGED <<marketIds, globalPaused, keepers, pausers>>
    BY <1>3 DEF SetMarketPaused, RegistryTypeOK, RegistryConsistent, HasMarket
  <2>2. new \in MarketConfig
    BY <2>1 DEF MarketConfig
  <2>3. Validate(new)
    BY <2>1 DEF Validate, MarketConfig
  <2>4. marketIds' = marketIds \cup {m}
    BY <2>1
  <2> HIDE DEF new
  <2>5. QED
    BY <2>1, <2>2, <2>3, <2>4, StoreMarket
<1>4. ASSUME NEW m \in MarketIds, NEW cfg \in Configs, AddMarket(m, cfg) \/ UpdateMarket(m, cfg)
      PROVE  RegistryTypeOK' /\ RegistryConsistent'
  <2>1. /\ Validate(cfg) /\ markets' = [markets EXCEPT ![m] = cfg]
        /\ marketIds' = marketIds \cup {m}
        /\ UNCHANGED <<globalPaused, keepers, pausers>>
    BY <1>4 DEF AddMarket, UpdateMarket, RegistryConsistent, HasMarket
  <2>2. QED
    BY <1>1, <2>1, StoreMarket
<1>5. ASSUME NEW who \in Grantees, GrantRole(who) \/ RevokeRole(who)
      PROVE  RegistryTypeOK' /\ RegistryConsistent'
  BY <1>1, <1>5 DEF GrantRole, RevokeRole, RegistryTypeOK, RegistryConsistent, HasMarket
<1>6. QED
  BY <1>2, <1>3, <1>4, <1>5 DEF RegistryNext, PauseNext, AdminNext

\* Calls of the admin and of the pausers keep every book.
LEMMA ControlInv == ASSUME EngineInv, ControlNext PROVE EngineInv'
<1>1. /\ RegistryNext
      /\ UNCHANGED <<tokenVars, vaultVars, positionVars, orderVars, oi>>
      /\ UNCHANGED cumFunding /\ UNCHANGED price
  BY DEF ControlNext, engineVars
<1>2. MarketBook'
  BY <1>1, RegistryInv DEF EngineInv, MarketBook, FeedTypeOK
<1>3. QED
  BY <1>1, <1>2, BooksAlone DEF EngineInv

-----------------------------------------------------------------------------
(* The invariant.                                                          *)

\* The deployed state satisfies the invariant.
LEMMA EngineInitInv == Init => EngineInv
<1> SUFFICES ASSUME Init PROVE EngineInv
  OBVIOUS
<1>1. VaultInv
  <2>1. /\ SeedLp \in Users /\ SeedLiquidity \in Nat /\ MaxSupply \in Nat
        /\ Endowment \in [Users -> Nat]
    BY EngineAssumption, TokenAssumption
  <2>2. balance \in [Accounts -> Nat] /\ totalSupply \in Int
    <3>1. Total(Endowment) \in Nat
      BY <2>1, UsersAssumption, TotalType
    <3>2. QED
      BY <2>1, <3>1 DEF Init, Accounts
  <2>3. shares \in [Users -> Nat] /\ shares[SeedLp] = SeedLiquidity
        /\ \A u \in Users \ {SeedLp} : shares[u] = 0
    BY <2>1 DEF Init
  <2>4. Total(shares) = SeedLiquidity
    BY <2>1, <2>3, TotalOne
  <2>5. SharesMatch
    BY <2>4 DEF Init, SharesMatch
  <2>6. Solvent
    BY <2>1 DEF Init, Solvent, TotalAssets, Accounts
  <2>7. VaultTypeOK
    BY <2>1, <2>2, <2>3 DEF Init, VaultTypeOK, TokenTypeOK
  <2>8. QED
    BY <2>5, <2>6, <2>7 DEF VaultInv
<1>2. MarketBook
  <2>1. RegistryTypeOK
    BY StartMarketsAssumption, RegistryAssumption DEF Init, RegistryTypeOK
  <2>2. RegistryConsistent
    BY StartMarketsAssumption DEF Init, RegistryConsistent, HasMarket
  <2>3. FeedTypeOK
    BY EngineAssumption DEF Init, FeedTypeOK
  <2>4. QED
    BY <2>1, <2>2, <2>3 DEF MarketBook
<1>3. \A i \in PositionIds : ~Open(i)
  BY DEF Init, Open
<1>4. \A i \in OrderIds : ~Resting(i)
  BY DEF Init, Resting
<1>5. PositionTypeOK /\ OrderTypeOK
  BY EngineAssumption DEF Init, PositionTypeOK, OrderTypeOK
<1>6. PositionBook
  <2>1. LivePositions /\ PositionIndex
    BY <1>3 DEF Init, LivePositions, PositionIndex
  <2>2. ASSUME NEW m \in MarketIds, NEW s \in Sides PROVE oi[m][s] = Total(ExposureOf(m, s))
    <3>1. ExposureOf(m, s) \in [PositionIds -> Nat] /\ \A i \in PositionIds : ExposureOf(m, s)[i] = 0
      BY <1>3 DEF ExposureOf
    <3>2. Total(ExposureOf(m, s)) = 0
      BY <3>1, TotalZero
    <3>3. QED
      BY <3>2 DEF Init
  <2>3. QED
    BY <1>5, <2>1, <2>2 DEF PositionBook, OiMatches
<1>7. OrderBook
  BY <1>4, <1>5 DEF Init, OrderBook, LiveOrders, OrderIndex
<1>8. Backing
  <2>1. MarginOf \in [PositionIds -> Nat] /\ \A i \in PositionIds : MarginOf[i] = 0
    BY <1>3 DEF MarginOf
  <2>2. EscrowOf \in [OrderIds -> Nat] /\ \A i \in OrderIds : EscrowOf[i] = 0
    BY <1>4 DEF EscrowOf
  <2>3. Total(MarginOf) = 0 /\ Total(EscrowOf) = 0
    BY <2>1, <2>2, TotalZero
  <2>4. QED
    BY <2>3 DEF Init, Backing
<1>9. StopTargetsOwn
  BY <1>4 DEF StopTargetsOwn
<1>10. QED
  BY <1>1, <1>2, <1>6, <1>7, <1>8, <1>9 DEF EngineInv

\* The calls on positions keep the invariant.
LEMMA PositionNextInv == ASSUME EngineInv, PositionNext PROVE EngineInv'
<1>1. Margins \subseteq Int /\ Notionals \subseteq Int /\ Amounts \subseteq Int
  BY EngineAssumption, TokenAssumption
<1>2. PICK t \in Users :
         \/ \E m \in MarketIds, s \in Sides, c \in Margins, n \in Notionals,
               r \in RefPrices, x \in Slippages : OpenPosition(t, m, s, c, n, r, x)
         \/ \E id \in PositionIds :
             \/ ClosePosition(t, id)
             \/ \E a \in Amounts : AddPositionMargin(t, id, a) \/ RemovePositionMargin(t, id, a)
             \/ \E c \in Margins, n \in Notionals, r \in RefPrices, x \in Slippages :
                   Increase(t, id, c, n, r, x)
             \/ \E n \in Notionals, r \in RefPrices, x \in Slippages : Decrease(t, id, n, r, x)
  BY DEF PositionNext
<1>3. ASSUME NEW m \in MarketIds, NEW s \in Sides, NEW c \in Margins, NEW n \in Notionals,
             NEW r \in RefPrices, NEW x \in Slippages, OpenPosition(t, m, s, c, n, r, x)
      PROVE  EngineInv'
  BY <1>1, <1>3, OpenPositionInv
<1>4. ASSUME NEW id \in PositionIds, ClosePosition(t, id) PROVE EngineInv'
  BY <1>4, ClosePositionInv
<1>5. ASSUME NEW id \in PositionIds, NEW a \in Amounts,
             AddPositionMargin(t, id, a) \/ RemovePositionMargin(t, id, a)
      PROVE  EngineInv'
  BY <1>1, <1>5, AddPositionMarginInv, RemovePositionMarginInv
<1>6. ASSUME NEW id \in PositionIds, NEW c \in Margins, NEW n \in Notionals,
             NEW r \in RefPrices, NEW x \in Slippages, Increase(t, id, c, n, r, x)
      PROVE  EngineInv'
  BY <1>1, <1>6, IncreaseInv
<1>7. ASSUME NEW id \in PositionIds, NEW n \in Notionals,
             NEW r \in RefPrices, NEW x \in Slippages, Decrease(t, id, n, r, x)
      PROVE  EngineInv'
  BY <1>1, <1>7, DecreaseInv
<1>8. QED
  BY <1>2, <1>3, <1>4, <1>5, <1>6, <1>7

\* The calls on orders keep the invariant.
LEMMA OrderNextInv == ASSUME EngineInv, OrderNext PROVE EngineInv'
<1>1. Margins \subseteq Int /\ Notionals \subseteq Int /\ Triggers \subseteq Int
      /\ Slippages \subseteq Nat
  BY EngineAssumption
<1>2. ASSUME NEW t \in Users, NEW m \in MarketIds, NEW s \in Sides, NEW c \in Margins,
             NEW n \in Notionals, NEW p \in Triggers, NEW d \in {Above, Below},
             NEW x \in Slippages, PlaceOrder(t, m, s, c, n, p, d, x)
      PROVE  EngineInv'
  BY <1>1, <1>2, PlaceOrderInv
<1>3. ASSUME NEW t \in Users, NEW id \in PositionIds, NEW p \in Triggers,
             NEW d \in {Above, Below}, PlaceStop(t, id, p, d)
      PROVE  EngineInv'
  BY <1>1, <1>3, PlaceStopInv
<1>4. ASSUME NEW t \in Users, NEW id \in OrderIds, CancelOrder(t, id) PROVE EngineInv'
  BY <1>4, CancelOrderInv
<1>5. QED
  BY <1>2, <1>3, <1>4 DEF OrderNext

\* The keepers' calls keep the invariant.
LEMMA KeeperNextInv == ASSUME EngineInv, KeeperNext PROVE EngineInv'
  BY LiquidateInv, UpdateFundingInv, FillEntryInv, FillStopInv DEF KeeperNext

\* Every step keeps the invariant.
LEMMA EngineStepInv == EngineInv /\ [Next]_vars => EngineInv'
<1> SUFFICES ASSUME EngineInv, [Next]_vars PROVE EngineInv'
  OBVIOUS
<1>1. CASE PositionNext
  BY <1>1, PositionNextInv
<1>2. CASE OrderNext
  BY <1>2, OrderNextInv
<1>3. CASE KeeperNext
  BY <1>3, KeeperNextInv
<1>4. CASE PriceMove
  BY <1>4, PriceMoveInv
<1>5. CASE PoolNext
  BY <1>5, PoolInv
<1>6. CASE ControlNext
  BY <1>6, ControlInv
<1>7. CASE UNCHANGED vars
  <2>1. /\ UNCHANGED <<tokenVars, vaultVars, positionVars, orderVars, oi>>
        /\ UNCHANGED <<registryVars, cumFunding, price>>
    BY <1>7 DEF vars, engineVars
  <2>2. MarketBook'
    BY <2>1, MarketAlone DEF EngineInv
  <2>3. QED
    BY <2>1, <2>2, BooksAlone DEF EngineInv
<1>8. QED
  BY <1>1, <1>2, <1>3, <1>4, <1>5, <1>6, <1>7 DEF Next

\* The inductive invariant: every entry point of the engine, the vault, the
\* registry and the token keeps the books of positions, orders and pools together.
THEOREM EngineInvariance == Spec => []EngineInv
<1>1. Init => EngineInv
  BY EngineInitInv
<1>2. EngineInv /\ [Next]_vars => EngineInv'
  BY EngineStepInv
<1>3. QED
  BY <1>1, <1>2, PTL DEF Spec

-----------------------------------------------------------------------------
(* The theorems.                                                           *)

\* Every state of the system is well typed: no pool, balance, share count,
\* margin or size is ever negative, whatever is called in whatever order.
THEOREM TypeCorrect == Spec => []TypeOK
<1>1. EngineInv => TypeOK
  BY DEF EngineInv, VaultInv, MarketBook, PositionBook, OrderBook, PositionTypeOK,
         OrderTypeOK, FeedTypeOK, TypeOK
<1>2. QED
  BY <1>1, EngineInvariance, PTL

\* The vault's token account covers both pools also under the engine's own calls,
\* two of which are made on pools that the same transaction has already changed.
THEOREM EngineKeepsVaultSolvent == Spec => []Solvent
<1>1. EngineInv => Solvent
  BY DEF EngineInv, VaultInv
<1>2. QED
  BY <1>1, EngineInvariance, PTL

\* The margin pool is exactly the margin of the positions and the escrow of the
\* orders, so move_pools never finds less margin than it has to release.
THEOREM MarginIsBacked == Spec => []Backing
<1>1. EngineInv => Backing
  BY DEF EngineInv
<1>2. QED
  BY <1>1, EngineInvariance, PTL

\* The open-interest counters are the sums of the open positions.
THEOREM OpenInterestIsExact == Spec => []OiMatches
<1>1. EngineInv => OiMatches
  BY DEF EngineInv, PositionBook
<1>2. QED
  BY <1>1, EngineInvariance, PTL

\* No stored position is without margin or size, also after a decrease.
THEOREM PositionsLive == Spec => []LivePositions
<1>1. EngineInv => LivePositions
  BY DEF EngineInv, PositionBook
<1>2. QED
  BY <1>1, EngineInvariance, PTL

\* The per-user lists hold exactly the stored records.
THEOREM IndexesFollowRecords == Spec => []IndexConsistent
<1>1. EngineInv => IndexConsistent
  BY DEF EngineInv, PositionBook, OrderBook, PositionIndex, OrderIndex, IndexConsistent
<1>2. QED
  BY <1>1, EngineInvariance, PTL

\* A stop never comes to name another position than the one it was placed on.
THEOREM StopsNameTheirPosition == Spec => []StopTargetsOwn
<1>1. EngineInv => StopTargetsOwn
  BY DEF EngineInv
<1>2. QED
  BY <1>1, EngineInvariance, PTL

\* Every stored configuration has passed validate and is listed.
THEOREM RegistryStaysValid == Spec => []RegistryConsistent
<1>1. EngineInv => RegistryConsistent
  BY DEF EngineInv, MarketBook
<1>2. QED
  BY <1>1, EngineInvariance, PTL

\* What the records claim of the margin pool is in it.
LEMMA ClaimsCovered ==
    ASSUME EngineInv
    PROVE  /\ \A i \in PositionIds : Open(i) => positions[i].margin <= pools.margin_pool
           /\ \A i \in OrderIds : Resting(i) => orders[i].margin <= pools.margin_pool
<1>1. /\ MarginOf \in [PositionIds -> Nat] /\ Total(MarginOf) \in Nat
      /\ EscrowOf \in [OrderIds -> Nat] /\ Total(EscrowOf) \in Nat
  BY PositionSums, OrderSums DEF EngineInv, PositionBook, OrderBook
<1>2. pools.margin_pool = Total(MarginOf) + Total(EscrowOf)
  BY DEF EngineInv, Backing
<1>3. ASSUME NEW i \in PositionIds, Open(i) PROVE positions[i].margin <= pools.margin_pool
  <2>1. MarginOf[i] <= Total(MarginOf) /\ MarginOf[i] \in Nat
    BY <1>1, IdsFinite, TotalBound
  <2>2. MarginOf[i] = positions[i].margin
    BY <1>3 DEF MarginOf
  <2>3. QED
    BY <1>1, <1>2, <2>1, <2>2
<1>4. ASSUME NEW i \in OrderIds, Resting(i) PROVE orders[i].margin <= pools.margin_pool
  <2>1. EscrowOf[i] <= Total(EscrowOf) /\ EscrowOf[i] \in Nat
    BY <1>1, IdsFinite, TotalBound
  <2>2. EscrowOf[i] = orders[i].margin
    BY <1>4 DEF EscrowOf
  <2>3. QED
    BY <1>1, <1>2, <2>1, <2>2
<1>5. QED
  BY <1>3, <1>4

\* So no settlement meets AccountingError: the pool holds the margin of each
\* position and the escrow of each order.
THEOREM NoAccountingError ==
    Spec => [](/\ \A i \in PositionIds : Open(i) => positions[i].margin <= pools.margin_pool
               /\ \A i \in OrderIds : Resting(i) => orders[i].margin <= pools.margin_pool)
BY ClaimsCovered, EngineInvariance, PTL

\* The vault pays out of a claim it holds what the claim and the LPs' cash cover.
LEMMA ClaimPaid ==
    ASSUME EngineInv, NEW amount \in Nat, amount <= pools.margin_pool, NEW out \in Nat
    PROVE  Funded(amount, out)
<1>1. /\ pools.lp_cash \in Nat /\ pools.margin_pool \in Nat /\ balance[Vault] \in Nat
      /\ balance[Vault] >= pools.lp_cash + pools.margin_pool
  BY DEF EngineInv, VaultInv, VaultTypeOK, TokenTypeOK, Accounts, Solvent, TotalAssets
<1>2. QED
  BY <1>1 DEF Funded, CanMovePools, CanPay, CanTransfer

\* Whoever wants out is paid, unless the LPs lack the cash for his profit: the
\* engine's entry points that end a claim never fail in the vault for any other
\* reason, in any state.
THEOREM ExitsStayFunded == Spec => []ExitsFunded
<1>1. ASSUME EngineInv PROVE ExitsFunded
  <2> USE <1>1
  <2>1. ASSUME NEW i \in PositionIds, Open(i), Valued(positions[i])
        PROVE  LET p == positions[i] IN
               /\ Funded(p.margin, MaxOf(Equity(p) - Fee(p.market, p.notional), 0))
               /\ Funded(p.margin, MaxOf(Equity(p), 0))
               /\ \A a \in 1 .. p.margin : Funded(a, a)
    <3> DEFINE p == positions[i]
    <3>1. /\ p \in Position /\ p.margin \in Nat /\ p.notional \in Nat
          /\ p.margin <= pools.margin_pool /\ pools.margin_pool \in Nat
      BY <2>1, ClaimsCovered
         DEF EngineInv, PositionBook, PositionTypeOK, Open, Position, VaultInv, VaultTypeOK
    <3>2. Equity(p) \in Int /\ Fee(p.market, p.notional) \in Int
      BY <2>1, <3>1, ValueTypes, ConfigTypes DEF EngineInv
    <3>3. MaxOf(Equity(p) - Fee(p.market, p.notional), 0) \in Nat /\ MaxOf(Equity(p), 0) \in Nat
      BY <3>2 DEF MaxOf
    <3>4. \A a \in 1 .. p.margin : a \in Nat /\ a <= pools.margin_pool
      BY <3>1
    <3> HIDE DEF p
    <3>5. /\ Funded(p.margin, MaxOf(Equity(p) - Fee(p.market, p.notional), 0))
          /\ Funded(p.margin, MaxOf(Equity(p), 0))
          /\ \A a \in 1 .. p.margin : Funded(a, a)
      BY <3>1, <3>3, <3>4, ClaimPaid
    <3>6. QED
      BY <3>5 DEF p
  <2>2. ASSUME NEW i \in OrderIds, Resting(i), ~orders[i].reduce, HasMarket(orders[i].market)
        PROVE  LET o == orders[i] IN
               Funded(o.margin, o.margin + Fee(o.market, o.notional))
    <3> DEFINE o == orders[i]
    <3>1. /\ o.margin \in Nat /\ o.notional \in Nat /\ o.market \in MarketIds
          /\ o.margin <= pools.margin_pool
      BY <2>2, ClaimsCovered DEF EngineInv, OrderBook, OrderTypeOK, Resting, Order
    <3>2. Fee(o.market, o.notional) \in Nat
      BY <2>2, <3>1, ConfigTypes DEF EngineInv
    <3>3. QED
      BY <3>1, <3>2, ClaimPaid
  <2>3. QED
    BY <2>1, <2>2 DEF ExitsFunded, ClosePayout, CancelPayout
<1>2. QED
  BY <1>1, EngineInvariance, PTL

-----------------------------------------------------------------------------
(* Action properties.                                                      *)

\* Exposure of one side of one market is set: the others keep theirs.
LEMMA OiSet ==
    ASSUME EngineInv, NEW m \in MarketIds, NEW s \in Sides, NEW v \in Int, SetOi(m, s, v)
    PROVE  \A n \in MarketIds, t \in Sides :
               /\ oi[n][t] \in Int
               /\ oi'[n][t] = IF n = m /\ t = s THEN v ELSE oi[n][t]
  BY DEF EngineInv, PositionBook, PositionTypeOK, SetOi

\* What ExposureGuarded asks of one side of one market.
Guarded(m, s) ==
    oi'[m][s] > oi[m][s] =>
        EnsureActive(m) /\ Priced(m) /\ oi'[m][s] <= markets[m].max_oi

AllGuarded == \A m \in MarketIds, s \in Sides : Guarded(m, s)

\* Adding exposure under the checks of the code is guarded.
LEMMA GuardedAdd ==
    ASSUME EngineInv, NEW m \in MarketIds, NEW s \in Sides, NEW n \in Int,
           EnsureActive(m), Priced(m), OiRoom(m, s, n), SetOi(m, s, oi[m][s] + n)
    PROVE  AllGuarded
<1>1. oi[m][s] + n \in Int
  BY DEF EngineInv, PositionBook, PositionTypeOK
<1>2. \A k \in MarketIds, t \in Sides :
         /\ oi[k][t] \in Int
         /\ oi'[k][t] = IF k = m /\ t = s THEN oi[m][s] + n ELSE oi[k][t]
  BY <1>1, OiSet
<1>3. QED
  BY <1>2 DEF AllGuarded, Guarded, OiRoom

\* Lowering a counter needs no guard.
LEMMA GuardedSub ==
    ASSUME EngineInv, NEW m \in MarketIds, NEW s \in Sides, NEW n \in Nat,
           SetOi(m, s, oi[m][s] - n)
    PROVE  AllGuarded
<1>1. oi[m][s] - n \in Int
  BY DEF EngineInv, PositionBook, PositionTypeOK
<1>2. \A k \in MarketIds, t \in Sides :
         /\ oi[k][t] \in Int
         /\ oi'[k][t] = IF k = m /\ t = s THEN oi[m][s] - n ELSE oi[k][t]
  BY <1>1, OiSet
<1>3. QED
  BY <1>2 DEF AllGuarded, Guarded

\* A step that leaves the counters alone needs no guard.
LEMMA GuardedSame == ASSUME EngineInv, UNCHANGED oi PROVE AllGuarded
  BY DEF EngineInv, PositionBook, PositionTypeOK, AllGuarded, Guarded

\* Removing a position only lowers a counter.
LEMMA GuardedRemove ==
    ASSUME EngineInv, NEW id \in PositionIds, Open(id), RemovePosition(id)
    PROVE  AllGuarded
<1> DEFINE m == positions[id].market
           s == positions[id].side
           n == positions[id].notional
<1>1. m \in MarketIds /\ s \in Sides /\ n \in Nat
  BY DEF EngineInv, PositionBook, PositionTypeOK, Open, Position
<1>2. SetOi(m, s, oi[m][s] - n)
  BY DEF RemovePosition
<1> HIDE DEF m, s, n
<1>3. QED
  BY <1>1, <1>2, GuardedSub

\* The calls on positions add exposure only under guard.
LEMMA GuardedPosition == ASSUME EngineInv, PositionNext PROVE AllGuarded
<1>1. Notionals \subseteq Int
  BY EngineAssumption
<1>2. ASSUME NEW t, NEW m \in MarketIds, NEW s \in Sides, NEW c, NEW n \in Notionals,
             NEW r, NEW x, OpenPosition(t, m, s, c, n, r, x)
      PROVE  AllGuarded
  BY <1>1, <1>2, GuardedAdd DEF OpenPosition, CanOpen, CreatePosition, ValidateSizing
<1>3. ASSUME NEW t, NEW id \in PositionIds, ClosePosition(t, id) PROVE AllGuarded
  BY <1>3, GuardedRemove DEF ClosePosition, Owned, CloseInternal
<1>4. ASSUME NEW t, NEW id \in PositionIds, NEW a,
             AddPositionMargin(t, id, a) \/ RemovePositionMargin(t, id, a)
      PROVE  AllGuarded
  BY <1>4, GuardedSame DEF AddPositionMargin, RemovePositionMargin
<1>5. ASSUME NEW t, NEW id \in PositionIds, NEW c, NEW n \in Notionals, NEW r, NEW x,
             Increase(t, id, c, n, r, x)
      PROVE  AllGuarded
  <2> DEFINE m == positions[id].market
             s == positions[id].side
  <2>1. m \in MarketIds /\ s \in Sides
    BY <1>5 DEF Increase, Owned, EngineInv, PositionBook, PositionTypeOK, Open, Position
  <2>2. EnsureActive(m) /\ Priced(m) /\ OiRoom(m, s, n) /\ SetOi(m, s, oi[m][s] + n)
    BY <1>5 DEF Increase
  <2> HIDE DEF m, s
  <2>3. QED
    BY <1>1, <2>1, <2>2, GuardedAdd
<1>6. ASSUME NEW t, NEW id \in PositionIds, NEW n \in Notionals, NEW r, NEW x,
             Decrease(t, id, n, r, x)
      PROVE  AllGuarded
  <2> DEFINE m == positions[id].market
             s == positions[id].side
  <2>1. m \in MarketIds /\ s \in Sides
    BY <1>6 DEF Decrease, Owned, EngineInv, PositionBook, PositionTypeOK, Open, Position
  <2>2. n \in Nat /\ SetOi(m, s, oi[m][s] - n)
    BY <1>1, <1>6 DEF Decrease
  <2> HIDE DEF m, s
  <2>3. QED
    BY <2>1, <2>2, GuardedSub
<1>7. QED
  BY <1>2, <1>3, <1>4, <1>5, <1>6 DEF PositionNext

\* The keepers' calls add exposure only under guard: a fill checks again.
LEMMA GuardedKeeper == ASSUME EngineInv, KeeperNext PROVE AllGuarded
<1>1. ASSUME NEW k, NEW id \in PositionIds, Liquidate(k, id) PROVE AllGuarded
  BY <1>1, GuardedRemove DEF Liquidate
<1>2. ASSUME NEW k, NEW m, UpdateFunding(k, m) PROVE AllGuarded
  BY <1>2, GuardedSame DEF UpdateFunding
<1>3. ASSUME NEW k, NEW id \in OrderIds, FillEntry(k, id) PROVE AllGuarded
  <2> DEFINE m == orders[id].market
             s == orders[id].side
             n == orders[id].notional
  <2>1. m \in MarketIds /\ s \in Sides /\ n \in Int
    BY <1>3 DEF FillEntry, CanExecute, EngineInv, OrderBook, OrderTypeOK, Resting, Order
  <2>2. EnsureActive(m) /\ Priced(m) /\ OiRoom(m, s, n) /\ SetOi(m, s, oi[m][s] + n)
    BY <1>3 DEF FillEntry, CanExecute, ValidateSizing, CreatePosition
  <2> HIDE DEF m, s, n
  <2>3. QED
    BY <2>1, <2>2, GuardedAdd
<1>4. ASSUME NEW k, NEW id \in OrderIds, FillStop(k, id) PROVE AllGuarded
  <2> DEFINE r == orders[id].reduce_position
  <2>1. r \in Nat /\ r < nextId /\ nextId \in 0 .. MaxPositions
    BY <1>4 DEF FillStop, CanExecute, EngineInv, OrderBook, OrderTypeOK, Resting, Order,
                StopTargetsOwn, PositionBook, PositionTypeOK
  <2>2. r \in PositionIds
    BY <2>1, EngineAssumption DEF PositionIds
  <2>3. Open(r) /\ RemovePosition(r)
    BY <1>4 DEF FillStop, CloseInternal
  <2> HIDE DEF r
  <2>4. QED
    BY <2>2, <2>3, GuardedRemove
<1>5. QED
  BY <1>1, <1>2, <1>3, <1>4 DEF KeeperNext

\* Exposure is only ever added in an active, priced market with room under its
\* cap, at whatever time and by whatever path it was asked for.
THEOREM ExposureStaysGuarded == Spec => ExposureGuarded
<1>1. ASSUME EngineInv, [Next]_vars PROVE AllGuarded
  <2>1. CASE PositionNext
    BY <1>1, <2>1, GuardedPosition
  <2>2. CASE OrderNext
    <3>1. ASSUME NEW t, NEW m, NEW s, NEW c, NEW n, NEW p, NEW d, NEW x,
                 PlaceOrder(t, m, s, c, n, p, d, x)
          PROVE  oi' = oi
      BY <3>1 DEF PlaceOrder
    <3>2. ASSUME NEW t, NEW id, NEW p, NEW d, PlaceStop(t, id, p, d) PROVE oi' = oi
      BY <3>2 DEF PlaceStop
    <3>3. ASSUME NEW t, NEW id, CancelOrder(t, id) PROVE oi' = oi
      BY <3>3 DEF CancelOrder
    <3>4. oi' = oi
      BY <2>2, <3>1, <3>2, <3>3 DEF OrderNext
    <3>5. QED
      BY <1>1, <3>4, GuardedSame
  <2>3. CASE KeeperNext
    BY <1>1, <2>3, GuardedKeeper
  <2>4. CASE PriceMove \/ PoolNext \/ ControlNext \/ UNCHANGED vars
    <3>1. oi' = oi
      BY <2>4 DEF PriceMove, PoolNext, ControlNext, vars, engineVars
    <3>2. QED
      BY <1>1, <3>1, GuardedSame
  <2>5. QED
    BY <1>1, <2>1, <2>2, <2>3, <2>4 DEF Next
<1>2. AllGuarded => \A m \in MarketIds, s \in Sides :
                       oi'[m][s] > oi[m][s] =>
                           /\ EnsureActive(m) /\ Priced(m)
                           /\ oi'[m][s] <= markets[m].max_oi
  BY DEF AllGuarded, Guarded
<1>3. QED
  BY <1>1, <1>2, EngineInvariance, PTL DEF Spec, ExposureGuarded

\* What FundingBounded asks of one market.
Bounded(m) ==
    LET step == cumFunding'[m] - cumFunding[m]
        skew == oi[m][Long] - oi[m][Short]
        cap == markets[m].max_funding_rate_bps * (FUNDING_SCALE \div BPS_DENOM)
    IN  step # 0 => step * skew > 0 /\ step \in -cap .. cap

\* The counters are sums, so neither is negative: the rate is a fraction of the cap.
LEMMA FundingRateFacts ==
    ASSUME EngineInv, NEW m \in MarketIds, HasMarket(m)
    PROVE  LET cap == markets[m].max_funding_rate_bps
               skew == oi[m][Long] - oi[m][Short]
           IN  /\ cap \in Nat /\ skew \in Int
               /\ FundingRate(m) \in Int /\ -cap <= FundingRate(m) /\ FundingRate(m) <= cap
               /\ FundingRate(m) > 0 => skew > 0
               /\ FundingRate(m) < 0 => skew < 0
<1> DEFINE cap == markets[m].max_funding_rate_bps
           long == oi[m][Long]
           short == oi[m][Short]
           rate == FundingRate(m)
<1>1. cap \in Nat
  BY ConfigTypes DEF EngineInv, MarketConfig
<1>2. long \in Nat /\ short \in Nat
  <2>1. \A s \in Sides : oi[m][s] = Total(ExposureOf(m, s)) /\ Total(ExposureOf(m, s)) \in Nat
    BY PositionSums DEF EngineInv, PositionBook, OiMatches
  <2>2. QED
    BY <2>1 DEF Sides
<1>3. rate = IF long + short = 0 THEN 0 ELSE TDiv((long - short) * cap, long + short)
  BY DEF FundingRate, MulDiv
<1> HIDE DEF cap, long, short, rate
<1>4. /\ rate \in Int /\ -cap <= rate /\ rate <= cap
      /\ rate > 0 => long > short
      /\ rate < 0 => long < short
  <2>1. CASE long + short = 0
    <3>1. rate = 0
      BY <1>3, <2>1
    <3>2. QED
      BY <1>1, <3>1
  <2>2. CASE long + short # 0
    <3>1. rate = RateOfSkew(long, short, cap)
      BY <1>3, <2>2 DEF RateOfSkew
    <3>2. QED
      BY <1>1, <1>2, <2>2, <3>1, SkewRate
  <2>3. QED
    BY <2>1, <2>2
<1>5. QED
  BY <1>1, <1>2, <1>4 DEF cap, long, short, rate

\* An update_funding step is bounded in every market, the others not moving.
LEMMA FundingStep ==
    ASSUME EngineInv, NEW k, NEW m \in MarketIds, UpdateFunding(k, m)
    PROVE  \A n \in MarketIds : Bounded(n)
<1> DEFINE rate == FundingRate(m)
           unit == FUNDING_SCALE \div BPS_DENOM
           cap == markets[m].max_funding_rate_bps
           skew == oi[m][Long] - oi[m][Short]
           step == rate * unit
<1>1. /\ HasMarket(m)
      /\ cumFunding' = [cumFunding EXCEPT ![m] = cumFunding[m] + step]
  BY DEF UpdateFunding, Priced
<1>2. unit \in Nat
  BY ScaleAssumption, QuotientBounds
<1>3. /\ cap \in Nat /\ skew \in Int
      /\ rate \in Int /\ -cap <= rate /\ rate <= cap
      /\ rate > 0 => skew > 0
      /\ rate < 0 => skew < 0
  BY <1>1, FundingRateFacts
<1>4. step # 0 => step * skew > 0 /\ step \in -(cap * unit) .. cap * unit
  <2> HIDE DEF rate, unit, cap, skew
  <2> QED
    BY <1>2, <1>3, ScaledStep
<1>5. step \in Int
  <2> HIDE DEF rate, unit
  <2> QED
    BY <1>2, <1>3
<1>6. cumFunding \in [MarketIds -> Int]
  BY DEF EngineInv, MarketBook, FeedTypeOK
<1> HIDE DEF step
<1>7. cumFunding'[m] - cumFunding[m] = step
  BY <1>1, <1>5, <1>6
<1>8. \A n \in MarketIds : n # m => cumFunding'[n] - cumFunding[n] = 0
  BY <1>1, <1>6
<1>9. Bounded(m)
  BY <1>4, <1>7 DEF Bounded
<1>10. \A n \in MarketIds : n # m => Bounded(n)
  BY <1>8 DEF Bounded
<1>11. QED
  BY <1>9, <1>10

\* A step that leaves the index alone is bounded.
LEMMA FundingStill == ASSUME EngineInv, UNCHANGED cumFunding PROVE \A n \in MarketIds : Bounded(n)
<1>1. \A n \in MarketIds : cumFunding'[n] - cumFunding[n] = 0
  BY DEF EngineInv, MarketBook, FeedTypeOK
<1>2. QED
  BY <1>1 DEF Bounded

\* Nothing but update_funding moves the index.
LEMMA OnlyKeepersFund ==
    ASSUME [Next]_vars, cumFunding' # cumFunding
    PROVE  \E k \in Users, m \in MarketIds : UpdateFunding(k, m)
<1>1. ASSUME PositionNext PROVE cumFunding' = cumFunding
  <2>1. ASSUME NEW t, NEW m, NEW s, NEW c, NEW n, NEW r, NEW x, OpenPosition(t, m, s, c, n, r, x)
        PROVE  cumFunding' = cumFunding
    BY <2>1 DEF OpenPosition
  <2>2. ASSUME NEW t, NEW id, ClosePosition(t, id) PROVE cumFunding' = cumFunding
    BY <2>2 DEF ClosePosition
  <2>3. ASSUME NEW t, NEW id, NEW a, AddPositionMargin(t, id, a) \/ RemovePositionMargin(t, id, a)
        PROVE  cumFunding' = cumFunding
    BY <2>3 DEF AddPositionMargin, RemovePositionMargin
  <2>4. ASSUME NEW t, NEW id, NEW c, NEW n, NEW r, NEW x, Increase(t, id, c, n, r, x)
        PROVE  cumFunding' = cumFunding
    BY <2>4 DEF Increase
  <2>5. ASSUME NEW t, NEW id, NEW n, NEW r, NEW x, Decrease(t, id, n, r, x)
        PROVE  cumFunding' = cumFunding
    BY <2>5 DEF Decrease
  <2>6. QED
    BY <1>1, <2>1, <2>2, <2>3, <2>4, <2>5 DEF PositionNext
<1>2. ASSUME OrderNext PROVE cumFunding' = cumFunding
  <2>1. ASSUME NEW t, NEW m, NEW s, NEW c, NEW n, NEW p, NEW d, NEW x,
               PlaceOrder(t, m, s, c, n, p, d, x)
        PROVE  cumFunding' = cumFunding
    BY <2>1 DEF PlaceOrder
  <2>2. ASSUME NEW t, NEW id, NEW p, NEW d, PlaceStop(t, id, p, d) PROVE cumFunding' = cumFunding
    BY <2>2 DEF PlaceStop
  <2>3. ASSUME NEW t, NEW id, CancelOrder(t, id) PROVE cumFunding' = cumFunding
    BY <2>3 DEF CancelOrder
  <2>4. QED
    BY <1>2, <2>1, <2>2, <2>3 DEF OrderNext
<1>3. ASSUME NEW k, NEW id, Liquidate(k, id) \/ FillEntry(k, id) \/ FillStop(k, id)
      PROVE  cumFunding' = cumFunding
  BY <1>3 DEF Liquidate, FillEntry, FillStop
<1>4. ASSUME PriceMove \/ PoolNext \/ ControlNext \/ UNCHANGED vars
      PROVE  cumFunding' = cumFunding
  BY <1>4 DEF PriceMove, PoolNext, ControlNext, vars, engineVars
<1>5. QED
  BY <1>1, <1>2, <1>3, <1>4 DEF Next, KeeperNext

\* One funding update moves a market's index toward the heavier side, and at
\* most by the market's cap: the LPs between the two sides never pay it net.
THEOREM FundingStaysBounded == Spec => FundingBounded
<1>1. ASSUME EngineInv, [Next]_vars PROVE \A m \in MarketIds : Bounded(m)
  <2>1. CASE cumFunding' = cumFunding
    BY <1>1, <2>1, FundingStill
  <2>2. CASE cumFunding' # cumFunding
    BY <1>1, <2>2, OnlyKeepersFund, FundingStep
  <2>3. QED
    BY <2>1, <2>2
<1>2. ASSUME \A m \in MarketIds : Bounded(m)
      PROVE  \A m \in MarketIds :
                 LET step == cumFunding'[m] - cumFunding[m]
                     skew == oi[m][Long] - oi[m][Short]
                     cap == markets[m].max_funding_rate_bps * (FUNDING_SCALE \div BPS_DENOM)
                 IN  step # 0 => step * skew > 0 /\ step \in -cap .. cap
  BY <1>2 DEF Bounded
<1>3. QED
  BY <1>1, <1>2, EngineInvariance, PTL DEF Spec, FundingBounded

=============================================================================
