--------------------------- MODULE Keeper_proofs ----------------------------
(***************************************************************************)
(* The keeper's ids are what the event log says, and a live position it    *)
(* knows is never forgotten, for any number of positions, orders, events,  *)
(* pages, lookbacks and faults.                                            *)
(*                                                                         *)
(* The argument: the log only grows and agrees with the positions; folding *)
(* a page that starts right after the cursor extends the agreement to the  *)
(* new cursor; mem and disk only change by a fold, by a copy of one to the *)
(* other, or by losing the cursor.                                         *)
(***************************************************************************)
EXTENDS Keeper, WellFoundedInduction, TLAPS

---------------------------------------------------------------------------
(* Induction in a form without an operator parameter, so that the provers  *)
(* can use it: over the naturals, from the well-foundedness of <.          *)

\* A set of naturals that is not empty has a least element.
LEMMA LeastNumber ==
    ASSUME NEW T, T \subseteq Nat, T # {}
    PROVE  \E x \in T : \A y \in T : x <= y
<1>1. PICK x \in T : \A y \in T : ~(<<y, x>> \in OpToRel(<, Nat))
  BY NatLessThanWellFounded, WFMin
<1>2. \A m, n \in Nat : m < n => <<m, n>> \in OpToRel(<, Nat)
  BY Zenon DEF OpToRel
<1>3. ASSUME NEW y \in T
      PROVE  x <= y
  <2>1. ~(y < x)
    BY <1>1, <1>2
  <2>2. QED
    BY <2>1
<1>4. QED
  BY <1>3

\* A set that holds 0, and with a number the next, holds every natural.
LEMMA SetInduction ==
    ASSUME NEW S, 0 \in S, \A n \in Nat : n \in S => n + 1 \in S
    PROVE  Nat \subseteq S
<1>1. SUFFICES ASSUME Nat \ S # {}
               PROVE  FALSE
  OBVIOUS
<1>2. PICK x \in Nat \ S : \A y \in Nat \ S : x <= y
  BY <1>1, LeastNumber
<1>3. x - 1 \in Nat /\ x - 1 \in S
  BY <1>2
<1>4. QED
  BY <1>2, <1>3

---------------------------------------------------------------------------
(* The chain.  The operators below take the log and the positions as       *)
(* arguments, so that a fact about them holds before and after a step.     *)

Entries == [name : Names, id : Nat]
States == {"none", "healthy", "underwater", "gone"}
OrderRecords ==
    [state : {"none", "resting", "triggered", "gone"}, target : {Entry} \cup PositionIds]

\* What an event in the log says of the positions and orders.
EventTrue(e, pos) ==
    /\ e.name \in OPEN_EVENTS => e.id \in PositionIds /\ pos[e.id] # "none"
    /\ e.name \in CLOSE_EVENTS => e.id \in PositionIds /\ pos[e.id] = "gone"
    /\ e.name \in ORDER_OPEN_EVENTS => e.id \in OrderIds

ChainOK(lg, pos, ord) ==
    /\ lg \in Seq(Entries) /\ Len(lg) >= 1
    /\ pos \in [PositionIds -> States]
    /\ ord \in [OrderIds -> OrderRecords]
    /\ \A n \in 1 .. Len(lg) : EventTrue(lg[n], pos)

\* Events are appended; a position that was opened stays so, and one that is
\* gone stays gone.
Grows(lg, pos, lg2, pos2) ==
    /\ Len(lg) <= Len(lg2)
    /\ \A n \in 1 .. Len(lg) : lg2[n] = lg[n]
    /\ \A i \in PositionIds : /\ pos[i] # "none" => pos2[i] # "none"
                              /\ pos[i] = "gone" => pos2[i] = "gone"

LEMMA Appended ==
    ASSUME NEW lg \in Seq(Entries), NEW es \in Seq(Entries)
    PROVE  /\ lg \o es \in Seq(Entries)
           /\ Len(lg \o es) = Len(lg) + Len(es)
           /\ \A n \in 1 .. Len(lg) : (lg \o es)[n] = lg[n]
           /\ \A n \in 1 .. Len(es) : (lg \o es)[Len(lg) + n] = es[n]
OBVIOUS

\* A step that appends true events and moves positions forward.
LEMMA ChainExtends ==
    ASSUME NEW lg, NEW pos, NEW ord, NEW pos2, NEW ord2, NEW es \in Seq(Entries),
           ChainOK(lg, pos, ord),
           pos2 \in [PositionIds -> States], ord2 \in [OrderIds -> OrderRecords],
           \A i \in PositionIds : /\ pos[i] # "none" => pos2[i] # "none"
                                  /\ pos[i] = "gone" => pos2[i] = "gone",
           \A n \in 1 .. Len(es) : EventTrue(es[n], pos2)
    PROVE  ChainOK(lg \o es, pos2, ord2) /\ Grows(lg, pos, lg \o es, pos2)
<1>1. /\ lg \in Seq(Entries) /\ Len(lg) \in Nat /\ Len(lg) >= 1
      /\ \A n \in 1 .. Len(lg) : EventTrue(lg[n], pos)
  BY DEF ChainOK
<1>2. Len(es) \in Nat
  OBVIOUS
<1>3. Grows(lg, pos, lg \o es, pos2)
  BY <1>1, <1>2, Appended DEF Grows
<1>4. ASSUME NEW n \in 1 .. Len(lg \o es)
      PROVE  EventTrue((lg \o es)[n], pos2)
  <2>1. CASE n <= Len(lg)
    <3>1. EventTrue(lg[n], pos) /\ (lg \o es)[n] = lg[n]
      BY <1>1, <2>1, Appended
    <3>2. QED
      BY <3>1 DEF EventTrue
  <2>2. CASE n > Len(lg)
    <3>1. n - Len(lg) \in 1 .. Len(es) /\ n = Len(lg) + (n - Len(lg))
      BY <1>1, <1>2, <2>2, Appended
    <3>2. (lg \o es)[n] = es[n - Len(lg)]
      BY <1>1, <3>1, Appended
    <3>3. QED
      BY <3>1, <3>2
  <2>3. QED
    BY <1>1, <2>1, <2>2
<1>5. QED
  BY <1>1, <1>2, <1>3, <1>4, Appended DEF ChainOK


LEMMA ChainStill ==
    ASSUME NEW lg, NEW pos, NEW ord, ChainOK(lg, pos, ord)
    PROVE  Grows(lg, pos, lg, pos)
BY DEF ChainOK, Grows

\* What a step does to the chain.
ChainMoves == ChainOK(log, position, order)'
                 /\ Grows(log, position, log', position')

LEMMA OneEvent ==
    ASSUME NEW name \in Names, NEW id \in Nat
    PROVE  /\ <<Event(name, id)>> \in Seq(Entries)
           /\ Len(<<Event(name, id)>>) = 1
           /\ <<Event(name, id)>>[1] = [name |-> name, id |-> id]
  BY DEF Event, Entries

LEMMA OpenPositionMoves ==
    ASSUME ChainOK(log, position, order), OpenPosition
    PROVE  ChainMoves
<1>1. PICK i \in FreshPosition :
         /\ position' = [position EXCEPT ![i] = "healthy"]
         /\ log' = log \o <<Event("position_opened", i)>>
         /\ order' = order
  BY DEF OpenPosition, Emit
<1>2. i \in PositionIds /\ i \in Nat /\ position[i] = "none"
  BY <1>1 DEF FreshPosition, Fresh, PositionIds
<1>3. position' \in [PositionIds -> States] /\ position'[i] # "none"
  BY <1>1, <1>2 DEF ChainOK, States
<1>4. \A n \in 1 .. 1 : EventTrue(<<Event("position_opened", i)>>[n], position')
  BY <1>2, <1>3, OneEvent DEF EventTrue, Names, OPEN_EVENTS, CLOSE_EVENTS, ORDER_OPEN_EVENTS
<1>5. <<Event("position_opened", i)>> \in Seq(Entries)
  BY <1>2, OneEvent DEF Names
<1>6. \A j \in PositionIds : /\ position[j] # "none" => position'[j] # "none"
                             /\ position[j] = "gone" => position'[j] = "gone"
  BY <1>1, <1>2 DEF ChainOK
<1>7. order' \in [OrderIds -> OrderRecords]
  BY <1>1 DEF ChainOK
<1>8. Len(<<Event("position_opened", i)>>) = 1
  OBVIOUS
<1>9. QED
  BY <1>1, <1>3, <1>4, <1>5, <1>6, <1>7, <1>8, ChainExtends DEF ChainMoves

\* A position that closes, or is liquidated.
LEMMA PositionGoes ==
    ASSUME ChainOK(log, position, order), NEW i \in PositionIds, Live(i),
           NEW name \in CLOSE_EVENTS,
           position' = [position EXCEPT ![i] = "gone"],
           Emit(<<Event(name, i)>>), UNCHANGED order
    PROVE  ChainMoves
<1>1. position' \in [PositionIds -> States] /\ position'[i] = "gone"
  BY DEF ChainOK, States
<1>2. name \in Names /\ i \in Nat
  BY DEF Names, CLOSE_EVENTS, PositionIds
<1>3. \A n \in 1 .. 1 : EventTrue(<<Event(name, i)>>[n], position')
  BY <1>1, <1>2, OneEvent DEF EventTrue, OPEN_EVENTS, CLOSE_EVENTS, ORDER_OPEN_EVENTS
<1>4. \A j \in PositionIds : /\ position[j] # "none" => position'[j] # "none"
                             /\ position[j] = "gone" => position'[j] = "gone"
  BY DEF ChainOK
<1>5. order' \in [OrderIds -> OrderRecords]
  BY DEF ChainOK
<1>6. QED
  BY <1>1, <1>2, <1>3, <1>4, <1>5, OneEvent, ChainExtends DEF ChainMoves, Emit

\* An event of an order, which leaves the positions alone.
LEMMA OrderMoves ==
    ASSUME ChainOK(log, position, order), NEW o \in OrderIds,
           NEW name \in {"order_placed", "order_cancelled"},
           order' \in [OrderIds -> OrderRecords],
           Emit(<<Event(name, o)>>), UNCHANGED position
    PROVE  ChainMoves
<1>1. position' \in [PositionIds -> States]
  BY DEF ChainOK
<1>2. name \in Names /\ o \in Nat
  BY DEF Names, OrderIds
<1>3. \A n \in 1 .. 1 : EventTrue(<<Event(name, o)>>[n], position')
  BY <1>2, OneEvent DEF EventTrue, OPEN_EVENTS, CLOSE_EVENTS, ORDER_OPEN_EVENTS
<1>4. QED
  BY <1>1, <1>2, <1>3, OneEvent, ChainExtends DEF ChainMoves, Emit

LEMMA OtherMoves ==
    ASSUME ChainOK(log, position, order), EmitOther
    PROVE  ChainMoves
<1>1. "other" \in Names /\ 0 \in Nat
  BY DEF Names
<1>2. \A n \in 1 .. 1 : EventTrue(<<Event("other", 0)>>[n], position')
  BY <1>1, OneEvent DEF EventTrue, OPEN_EVENTS, CLOSE_EVENTS, ORDER_OPEN_EVENTS
<1>3. /\ position' \in [PositionIds -> States] /\ order' \in [OrderIds -> OrderRecords]
      /\ position' = position /\ log' = log \o <<Event("other", 0)>>
  BY DEF EmitOther, Emit, ChainOK
<1>4. QED
  BY <1>1, <1>2, <1>3, OneEvent, ChainExtends DEF ChainMoves

LEMMA ClosePositionMoves ==
    ASSUME ChainOK(log, position, order), NEW i \in PositionIds,
           ClosePosition(i) \/ Liquidate(i)
    PROVE  ChainMoves
BY PositionGoes DEF ClosePosition, Liquidate, Live, CLOSE_EVENTS

LEMMA PlaceOrderMoves ==
    ASSUME ChainOK(log, position, order), NEW t \in {Entry} \cup PositionIds, PlaceOrder(t)
    PROVE  ChainMoves
<1>1. PICK o \in FreshOrder :
         /\ order' = [order EXCEPT ![o] = [state |-> "resting", target |-> t]]
         /\ Emit(<<Event("order_placed", o)>>)
  BY DEF PlaceOrder
<1>2. o \in OrderIds
  BY DEF FreshOrder, Fresh
<1>3. order' \in [OrderIds -> OrderRecords]
  BY <1>1, <1>2 DEF ChainOK, OrderRecords
<1>4. QED
  BY <1>1, <1>2, <1>3, OrderMoves DEF PlaceOrder

LEMMA CancelOrderMoves ==
    ASSUME ChainOK(log, position, order), NEW o \in OrderIds, CancelOrder(o)
    PROVE  ChainMoves
<1>1. order' \in [OrderIds -> OrderRecords]
  BY DEF CancelOrder, ChainOK, OrderRecords
<1>2. QED
  BY <1>1, OrderMoves DEF CancelOrder

LEMMA TwoEvents ==
    ASSUME NEW name \in Names, NEW id \in Nat, NEW name2 \in Names, NEW id2 \in Nat
    PROVE  LET es == <<Event(name, id), Event(name2, id2)>>
           IN  /\ es \in Seq(Entries) /\ Len(es) = 2
               /\ es[1] = [name |-> name, id |-> id]
               /\ es[2] = [name |-> name2, id |-> id2]
  BY DEF Event, Entries

LEMMA ExecuteOrderMoves ==
    ASSUME ChainOK(log, position, order), NEW o \in OrderIds, ExecuteOrder(o)
    PROVE  ChainMoves
<1> DEFINE t == order[o].target
<1>1. order' \in [OrderIds -> OrderRecords]
  BY DEF ExecuteOrder, ChainOK, OrderRecords
<1>2. PICK i \in PositionIds, name \in Names :
         /\ \/ /\ name \in OPEN_EVENTS /\ position[i] = "none"
               /\ position' = [position EXCEPT ![i] = "healthy"]
            \/ /\ name \in CLOSE_EVENTS /\ Live(i)
               /\ position' = [position EXCEPT ![i] = "gone"]
         /\ log' = log \o <<Event(name, i), Event("order_filled", o)>>
  <2>1. CASE t = Entry
    <3>1. PICK i \in FreshPosition :
            /\ position' = [position EXCEPT ![i] = "healthy"]
            /\ log' = log \o <<Event("position_opened", i), Event("order_filled", o)>>
      BY <2>1 DEF ExecuteOrder, Emit
    <3>2. i \in PositionIds /\ position[i] = "none"
      BY DEF FreshPosition, Fresh
    <3>3. "position_opened" \in OPEN_EVENTS /\ "position_opened" \in Names
      BY DEF OPEN_EVENTS, Names
    <3>4. QED
      BY <3>1, <3>2, <3>3
  <2>2. CASE t # Entry
    <3>1. t \in PositionIds /\ Live(t)
      BY <2>2 DEF ExecuteOrder, CanExecute
    <3>2. "position_closed" \in CLOSE_EVENTS /\ "position_closed" \in Names
      BY DEF CLOSE_EVENTS, Names
    <3>3. /\ position' = [position EXCEPT ![t] = "gone"]
          /\ log' = log \o <<Event("position_closed", t), Event("order_filled", o)>>
      BY <2>2 DEF ExecuteOrder, Emit
    <3> HIDE DEF t
    <3>4. QED
      BY <3>1, <3>2, <3>3
  <2>3. QED
    BY <2>1, <2>2
<1>3. position' \in [PositionIds -> States]
  BY <1>2 DEF ChainOK, States
<1>4. \A j \in PositionIds : /\ position[j] # "none" => position'[j] # "none"
                             /\ position[j] = "gone" => position'[j] = "gone"
  BY <1>2 DEF ChainOK, Live
<1>5. i \in Nat /\ o \in Nat /\ "order_filled" \in Names
  BY DEF PositionIds, OrderIds, Names
<1> DEFINE es == <<Event(name, i), Event("order_filled", o)>>
<1>6. /\ es \in Seq(Entries) /\ Len(es) = 2
      /\ es[1] = [name |-> name, id |-> i]
      /\ es[2] = [name |-> "order_filled", id |-> o]
  BY <1>5, TwoEvents
<1>7. EventTrue(es[1], position')
  BY <1>2, <1>3, <1>6 DEF EventTrue, ChainOK, OPEN_EVENTS, CLOSE_EVENTS, ORDER_OPEN_EVENTS
<1>8. EventTrue(es[2], position')
  BY <1>6 DEF EventTrue, OPEN_EVENTS, CLOSE_EVENTS, ORDER_OPEN_EVENTS
<1>9. \A n \in 1 .. Len(es) : EventTrue(es[n], position')
  <2> HIDE DEF es
  <2> QED
    BY <1>6, <1>7, <1>8
<1>10. QED
  <2> HIDE DEF es
  <2>1. log' = log \o es
    BY <1>2 DEF es
  <2> QED
    BY <2>1, <1>1, <1>3, <1>4, <1>6, <1>9, ChainExtends DEF ChainMoves

LEMMA RepriceMoves ==
    ASSUME ChainOK(log, position, order), Reprice
    PROVE  ChainMoves
<1>1. log' = log
  BY DEF Reprice
<1>2. position' \in [PositionIds -> States] /\ order' \in [OrderIds -> OrderRecords]
  BY DEF Reprice, ChainOK, States, OrderRecords
<1>3. \A j \in PositionIds : /\ position[j] # "none" => position'[j] # "none"
                             /\ position[j] = "gone" => position'[j] = "gone"
  BY DEF Reprice, ChainOK, Live
<1>4. \A n \in 1 .. Len(log) : EventTrue(log[n], position')
  BY <1>3 DEF ChainOK, EventTrue
<1>5. QED
  BY <1>1, <1>2, <1>3, <1>4 DEF ChainMoves, ChainOK, Grows

LEMMA ChainNextMoves ==
    ASSUME ChainOK(log, position, order), ChainNext
    PROVE  ChainMoves
BY RepriceMoves, OpenPositionMoves, OtherMoves, ClosePositionMoves, PlaceOrderMoves,
   CancelOrderMoves, ExecuteOrderMoves DEF ChainNext

LEMMA UnchangedMoves ==
    ASSUME ChainOK(log, position, order), UNCHANGED chainVars
    PROVE  ChainMoves
BY ChainStill DEF ChainMoves, chainVars

\* The keeper's own transactions.
LEMMA EffectMoves ==
    ASSUME ChainOK(log, position, order), NEW tx \in Txs, Succeeds(tx), Effect(tx)
    PROVE  ChainMoves
<1>1. CASE tx.method = "execute_order"
  <2>1. tx.arg \in OrderIds
    BY <1>1 DEF Txs
  <2>2. ExecuteOrder(tx.arg)
    BY <1>1 DEF Effect
  <2>3. QED
    BY <2>1, <2>2, ExecuteOrderMoves
<1>2. CASE tx.method = "liquidate"
  <2>1. tx.arg \in PositionIds
    BY <1>2 DEF Txs
  <2>2. Liquidate(tx.arg)
    BY <1>2 DEF Effect
  <2>3. QED
    BY <2>1, <2>2, ClosePositionMoves
<1>3. CASE tx.method \notin {"execute_order", "liquidate"}
  BY <1>3, OtherMoves, UnchangedMoves DEF Effect
<1>4. QED
  BY <1>1, <1>2, <1>3

---------------------------------------------------------------------------
(* Folding a page.                                                         *)

\* The recursive function of ApplyEvents exists.
LEMMA ApplyEventsUnfolds ==
    ASSUME NEW state, NEW events \in Seq(Entries)
    PROVE  \E f : /\ f = [n \in 0 .. Len(events) |->
                            IF n = 0 THEN state ELSE ApplyEvent(f[n - 1], events[n])]
                  /\ ApplyEvents(state, events) = f[Len(events)]
<1> DEFINE Step(f, n) == IF n = 0 THEN state ELSE ApplyEvent(f[n - 1], events[n])
           Upto(f, k) == f = [n \in 0 .. k |-> Step(f, n)]
           S == {k \in Nat : \E f : Upto(f, k)}
<1>1. 0 \in S
  <2>1. Upto([n \in {0} |-> state], 0)
    OBVIOUS
  <2>2. QED
    BY <2>1
<1>2. ASSUME NEW k \in Nat, k \in S
      PROVE  k + 1 \in S
  <2>1. PICK f : Upto(f, k)
    BY <1>2
  <2> DEFINE g == [n \in 0 .. k + 1 |->
                     IF n = k + 1 THEN ApplyEvent(f[k], events[k + 1]) ELSE f[n]]
  <2>2. ASSUME NEW n \in 0 .. k + 1
        PROVE  g[n] = Step(g, n)
    <3>1. CASE n = k + 1
      BY <3>1
    <3>2. CASE n \in 0 .. k
      BY <2>1, <3>2
    <3>3. QED
      BY <3>1, <3>2
  <2>3. Upto(g, k + 1)
    <3>1. g = [n \in 0 .. k + 1 |-> g[n]]
      OBVIOUS
    <3> HIDE DEF g, Step
    <3>2. QED
      BY <2>2, <3>1
  <2>4. QED
    <3> HIDE DEF g, Upto
    <3> QED
      BY <2>3
<1>3. Len(events) \in S
  <2> HIDE DEF S
  <2>1. Nat \subseteq S
    BY <1>1, <1>2, SetInduction
  <2> QED
    BY <2>1
<1> DEFINE after == CHOOSE f : Upto(f, Len(events))
<1>4. Upto(after, Len(events))
  BY <1>3, Zenon
<1>5. ApplyEvents(state, events) = after[Len(events)]
  BY Zenon DEF ApplyEvents
<1>6. QED
  BY <1>4, <1>5

\* EventsOf and Agrees for one id, of any log.
SeenIn(lg, names, id, first, last) ==
    {n \in first .. last : lg[n].name \in names /\ lg[n].id = id}

Follows(lg, ids, opens, closes, id, first, last) ==
    LET seen == SeenIn(lg, opens \cup closes, id, first, last)
    IN  seen # {} => (id \in ids <=> \E n \in seen : /\ lg[n].name \in opens
                                                     /\ \A k \in seen : k <= n)

FoldedTo(lg, s, first, last) ==
    /\ \A i \in PositionIds : Follows(lg, s.ids, OPEN_EVENTS, CLOSE_EVENTS, i, first, last)
    /\ \A o \in OrderIds :
          Follows(lg, s.orders, ORDER_OPEN_EVENTS, ORDER_CLOSE_EVENTS, o, first, last)

\* One more event, and what becomes of one id.
LEMMA FollowsStep ==
    ASSUME NEW lg, NEW ids, NEW ids2, NEW opens, NEW closes, NEW id,
           opens \cap closes = {},
           NEW first \in Nat, NEW last \in Nat, first <= last + 1,
           Follows(lg, ids, opens, closes, id, first, last),
           lg[last + 1].id = id /\ lg[last + 1].name \in opens => id \in ids2,
           lg[last + 1].id = id /\ lg[last + 1].name \in closes => id \notin ids2,
           ~(lg[last + 1].id = id /\ lg[last + 1].name \in opens \cup closes)
               => (id \in ids2 <=> id \in ids)
    PROVE  Follows(lg, ids2, opens, closes, id, first, last + 1)
<1> DEFINE seen == SeenIn(lg, opens \cup closes, id, first, last)
           seen2 == SeenIn(lg, opens \cup closes, id, first, last + 1)
<1>1. \A n \in seen2 : n \in Int /\ n <= last + 1
  BY DEF SeenIn
<1>2. CASE lg[last + 1].id = id /\ lg[last + 1].name \in opens \cup closes
  <2>1. last + 1 \in seen2
    BY <1>2 DEF SeenIn
  <2>2. \A n \in seen2 : (\A k \in seen2 : k <= n) <=> n = last + 1
    <3> HIDE DEF seen2
    <3> QED
      BY <1>1, <2>1
  <2>3. (\E n \in seen2 : lg[n].name \in opens /\ \A k \in seen2 : k <= n)
           <=> lg[last + 1].name \in opens
    <3> HIDE DEF seen2
    <3> QED
      BY <2>1, <2>2
  <2>4. id \in ids2 <=> lg[last + 1].name \in opens
    BY <1>2
  <2>5. QED
    BY <2>3, <2>4 DEF Follows
<1>3. CASE ~(lg[last + 1].id = id /\ lg[last + 1].name \in opens \cup closes)
  <2>1. seen2 = seen
    BY <1>3 DEF SeenIn
  <2>2. QED
    BY <1>3, <2>1 DEF Follows
<1>4. QED
  BY <1>2, <1>3

\* What the ids may be: opened positions, and orders.
IdsOK(s, pos) ==
    /\ s \in PersistedState
    /\ \A i \in s.ids : pos[i] # "none"

LEMMA ApplyEventStep ==
    ASSUME NEW lg, NEW pos, NEW s, IdsOK(s, pos),
           NEW first \in Nat, NEW last \in Nat, first <= last + 1,
           EventTrue(lg[last + 1], pos),
           FoldedTo(lg, s, first, last)
    PROVE  LET s2 == ApplyEvent(s, lg[last + 1])
           IN  /\ IdsOK(s2, pos)
               /\ s2.cursor = s.cursor /\ s2.from = s.from
               /\ \A i \in s.ids : pos[i] # "gone" => i \in s2.ids
               /\ FoldedTo(lg, s2, first, last + 1)
<1> DEFINE e == lg[last + 1]
           s2 == ApplyEvent(s, e)
<1>1. s2 = [cursor |-> s.cursor,
            ids |-> (s.ids \cup {i \in {e.id} : e.name \in OPEN_EVENTS})
                       \ {i \in {e.id} : e.name \in CLOSE_EVENTS},
            orders |-> (s.orders \cup {o \in {e.id} : e.name \in ORDER_OPEN_EVENTS})
                          \ {o \in {e.id} : e.name \in ORDER_CLOSE_EVENTS},
            from |-> s.from]
  <2>1. s = [cursor |-> s.cursor, ids |-> s.ids, orders |-> s.orders, from |-> s.from]
    BY DEF IdsOK, PersistedState
  <2> DEFINE A == (s.ids \cup {i \in {e.id} : e.name \in OPEN_EVENTS})
                    \ {i \in {e.id} : e.name \in CLOSE_EVENTS}
             B == (s.orders \cup {o \in {e.id} : e.name \in ORDER_OPEN_EVENTS})
                    \ {o \in {e.id} : e.name \in ORDER_CLOSE_EVENTS}
             s1 == [s EXCEPT !.ids = A]
  <2>2. s1 = [cursor |-> s.cursor, ids |-> A, orders |-> s.orders, from |-> s.from]
    <3> HIDE DEF A
    <3> QED
      BY <2>1
  <2>3. s2 = [s1 EXCEPT !.orders = B]
    BY Zenon DEF ApplyEvent
  <2>4. QED
    <3> HIDE DEF A, B, s1, s2
    <3>1. [s1 EXCEPT !.orders = B]
            = [cursor |-> s.cursor, ids |-> A, orders |-> B, from |-> s.from]
      BY <2>2
    <3> QED
      BY <2>3, <3>1 DEF A, B
<1>2. IdsOK(s2, pos)
  BY <1>1 DEF IdsOK, PersistedState, EventTrue
<1>3. \A i \in s.ids : pos[i] # "gone" => i \in s2.ids
  BY <1>1 DEF EventTrue
<1>4. ASSUME NEW i \in PositionIds
      PROVE  Follows(lg, s2.ids, OPEN_EVENTS, CLOSE_EVENTS, i, first, last + 1)
  <2>1. Follows(lg, s.ids, OPEN_EVENTS, CLOSE_EVENTS, i, first, last)
    BY DEF FoldedTo
  <2>2. OPEN_EVENTS \cap CLOSE_EVENTS = {}
    BY DEF OPEN_EVENTS, CLOSE_EVENTS
  <2>3. /\ e.id = i /\ e.name \in OPEN_EVENTS => i \in s2.ids
        /\ e.id = i /\ e.name \in CLOSE_EVENTS => i \notin s2.ids
        /\ ~(e.id = i /\ e.name \in OPEN_EVENTS \cup CLOSE_EVENTS)
              => (i \in s2.ids <=> i \in s.ids)
    BY <1>1, <2>2
  <2> HIDE DEF s2
  <2>4. QED
    BY <2>1, <2>2, <2>3, FollowsStep
<1>5. ASSUME NEW o \in OrderIds
      PROVE  Follows(lg, s2.orders, ORDER_OPEN_EVENTS, ORDER_CLOSE_EVENTS, o, first, last + 1)
  <2>1. Follows(lg, s.orders, ORDER_OPEN_EVENTS, ORDER_CLOSE_EVENTS, o, first, last)
    BY DEF FoldedTo
  <2>2. ORDER_OPEN_EVENTS \cap ORDER_CLOSE_EVENTS = {}
    BY DEF ORDER_OPEN_EVENTS, ORDER_CLOSE_EVENTS
  <2>3. /\ e.id = o /\ e.name \in ORDER_OPEN_EVENTS => o \in s2.orders
        /\ e.id = o /\ e.name \in ORDER_CLOSE_EVENTS => o \notin s2.orders
        /\ ~(e.id = o /\ e.name \in ORDER_OPEN_EVENTS \cup ORDER_CLOSE_EVENTS)
              => (o \in s2.orders <=> o \in s.orders)
    BY <1>1, <2>2
  <2> HIDE DEF s2
  <2>4. QED
    BY <2>1, <2>2, <2>3, FollowsStep
<1>6. QED
  <2>1. FoldedTo(lg, s2, first, last + 1)
    BY <1>4, <1>5 DEF FoldedTo
  <2>2. s2.cursor = s.cursor /\ s2.from = s.from
    BY <1>1
  <2> HIDE DEF s2
  <2>3. QED
    BY <1>2, <1>3, <2>1, <2>2 DEF s2

\* A page of the log, applied to ids that are folded up to the ledger before it.
LEMMA PageFolds ==
    ASSUME NEW lg \in Seq(Entries), NEW pos, NEW s, IdsOK(s, pos),
           \A n \in 1 .. Len(lg) : EventTrue(lg[n], pos),
           NEW from \in Nat \ {0}, NEW first \in Nat \ {0}, NEW last \in Nat,
           from <= first, first <= last + 1, last <= Len(lg),
           FoldedTo(lg, s, from, first - 1)
    PROVE  LET s2 == ApplyEvents(s, SubSeq(lg, first, last))
           IN  /\ IdsOK(s2, pos)
               /\ s2.cursor = s.cursor /\ s2.from = s.from
               /\ \A i \in s.ids : pos[i] # "gone" => i \in s2.ids
               /\ FoldedTo(lg, s2, from, last)
<1> DEFINE events == SubSeq(lg, first, last)
<1>1. /\ events \in Seq(Entries) /\ Len(events) = last - first + 1
      /\ \A k \in 1 .. Len(events) : events[k] = lg[first - 1 + k]
  <2>1. \A k \in first .. last : lg[k] \in Entries
    OBVIOUS
  <2>2. Len(events) = last - first + 1
    OBVIOUS
  <2>3. \A k \in 1 .. Len(events) : events[k] = lg[first - 1 + k]
    BY <2>2
  <2>4. events \in Seq(Entries)
    BY <2>1
  <2>5. QED
    BY <2>2, <2>3, <2>4
<1>2. PICK f : /\ f = [n \in 0 .. Len(events) |->
                         IF n = 0 THEN s ELSE ApplyEvent(f[n - 1], events[n])]
               /\ ApplyEvents(s, events) = f[Len(events)]
  <2> HIDE DEF events
  <2> QED
    BY <1>1, ApplyEventsUnfolds
<1> HIDE DEF events
<1> DEFINE Good(t, k) ==
      /\ IdsOK(t, pos)
      /\ t.cursor = s.cursor /\ t.from = s.from
      /\ \A i \in s.ids : pos[i] # "gone" => i \in t.ids
      /\ FoldedTo(lg, t, from, first - 1 + k)
           S == {k \in Nat : k <= Len(events) => Good(f[k], k)}
<1>3. 0 \in S
  <2>1. f[0] = s /\ first - 1 + 0 = first - 1
    BY <1>1, <1>2
  <2>2. Good(s, 0)
    BY <2>1
  <2>3. QED
    BY <2>1, <2>2
<1>4. ASSUME NEW k \in Nat, k \in S
      PROVE  k + 1 \in S
  <2>1. SUFFICES ASSUME k + 1 <= Len(events)
                 PROVE  Good(f[k + 1], k + 1)
    OBVIOUS
  <2>2. Good(f[k], k)
    BY <1>1, <1>4, <2>1
  <2>3. f[k + 1] = ApplyEvent(f[k], lg[first + k])
    <3>1. k + 1 \in 0 .. Len(events) /\ k + 1 # 0 /\ (k + 1) - 1 = k
      BY <1>1, <2>1
    <3>2. f[k + 1] = ApplyEvent(f[k], events[k + 1])
      BY <1>2, <3>1
    <3>3. events[k + 1] = lg[first - 1 + (k + 1)] /\ first - 1 + (k + 1) = first + k
      BY <1>1, <2>1
    <3>4. QED
      BY <3>2, <3>3
  <2>4. /\ first - 1 + k \in Nat /\ first - 1 + k + 1 = first + k
        /\ first + k \in 1 .. Len(lg) /\ from <= first + k
        /\ first - 1 + (k + 1) = first + k
    BY <1>1, <2>1
  <2>5. EventTrue(lg[first + k], pos)
    BY <2>4
  <2>6. LET t == ApplyEvent(f[k], lg[first + k])
        IN  /\ IdsOK(t, pos)
            /\ t.cursor = f[k].cursor /\ t.from = f[k].from
            /\ \A i \in f[k].ids : pos[i] # "gone" => i \in t.ids
            /\ FoldedTo(lg, t, from, first + k)
    <3> DEFINE c == first - 1 + k
    <3>1. c \in Nat /\ c + 1 = first + k
      BY <2>4
    <3> HIDE DEF c
    <3>2. FoldedTo(lg, f[k], from, c) /\ IdsOK(f[k], pos)
      BY <2>2 DEF c
    <3>3. EventTrue(lg[c + 1], pos) /\ from <= c + 1
      BY <2>4, <2>5, <3>1
    <3> DEFINE u == f[k]
    <3>4. FoldedTo(lg, u, from, c) /\ IdsOK(u, pos)
      BY <3>2
    <3> HIDE DEF u
    <3>5. LET t == ApplyEvent(u, lg[c + 1])
          IN  /\ IdsOK(t, pos)
              /\ t.cursor = u.cursor /\ t.from = u.from
              /\ \A i \in u.ids : pos[i] # "gone" => i \in t.ids
              /\ FoldedTo(lg, t, from, c + 1)
      BY <3>1, <3>3, <3>4, ApplyEventStep
    <3>6. QED
      BY <3>1, <3>5 DEF u
  <2>7. QED
    BY <2>2, <2>3, <2>4, <2>6
<1>5. Good(f[Len(events)], Len(events))
  <2>1. Nat \subseteq S
    <3> HIDE DEF S
    <3> QED
      BY <1>3, <1>4, SetInduction
  <2>2. Len(events) \in Nat
    BY <1>1
  <2>3. Len(events) \in S
    BY <2>1, <2>2
  <2>4. QED
    BY <2>2, <2>3
<1>6. first - 1 + Len(events) = last
  BY <1>1
<1>7. QED
  BY <1>2, <1>5, <1>6 DEF events

---------------------------------------------------------------------------
(* The invariant.                                                          *)

\* A copy of the indexer's state whose cursor is set has folded exactly the
\* events of its scan, and stands inside the log.
Tracked(s, lg, pos) ==
    /\ IdsOK(s, pos)
    /\ s.cursor # NoCursor =>
         /\ s.from >= 1 /\ s.from <= s.cursor + 1 /\ s.cursor <= Len(lg)
         /\ FoldedTo(lg, s, s.from, s.cursor)

\* The file is never ahead of the process, but for positions that are gone.
Backed ==
    IF pc = "off" THEN mem = Cold
    ELSE \A i \in disk.ids : Live(i) => i \in mem.ids

IInv ==
    /\ KeeperTypeOK
    /\ env \in Envs
    /\ ChainOK(log, position, order)
    /\ Tracked(mem, log, position)
    /\ Tracked(disk, log, position)
    /\ Backed

\* The log of a chain that grew says the same of the ledgers scanned.
LEMMA TrackedKept ==
    ASSUME NEW s, NEW lg, NEW pos, NEW ord, NEW lg2, NEW pos2,
           ChainOK(lg, pos, ord), Len(lg2) \in Nat, Grows(lg, pos, lg2, pos2), Tracked(s, lg, pos)
    PROVE  Tracked(s, lg2, pos2)
<1>1. IdsOK(s, pos2)
  BY DEF Tracked, IdsOK, Grows, PersistedState
<1>2. Len(lg) \in Nat /\ Len(lg) <= Len(lg2) /\ \A n \in 1 .. Len(lg) : lg2[n] = lg[n]
  BY DEF ChainOK, Grows
<1>3. CASE s.cursor # NoCursor
  <2>1. /\ s.from >= 1 /\ s.from <= s.cursor + 1 /\ s.cursor <= Len(lg)
        /\ FoldedTo(lg, s, s.from, s.cursor)
        /\ s.from \in Nat /\ s.cursor \in Nat
    BY <1>3 DEF Tracked, IdsOK, PersistedState
  <2>2. ASSUME NEW names, NEW id
        PROVE  SeenIn(lg2, names, id, s.from, s.cursor) = SeenIn(lg, names, id, s.from, s.cursor)
    BY <1>2, <2>1 DEF SeenIn
  <2>3. \A n \in s.from .. s.cursor : lg2[n] = lg[n]
    BY <1>2, <2>1
  <2>4. ASSUME NEW ids, NEW opens, NEW closes, NEW id,
               Follows(lg, ids, opens, closes, id, s.from, s.cursor)
        PROVE  Follows(lg2, ids, opens, closes, id, s.from, s.cursor)
    <3> DEFINE seen == SeenIn(lg, opens \cup closes, id, s.from, s.cursor)
    <3>1. SeenIn(lg2, opens \cup closes, id, s.from, s.cursor) = seen
      BY <2>2
    <3>2. \A n \in seen : lg2[n] = lg[n]
      BY <2>3 DEF SeenIn
    <3> HIDE DEF seen
    <3>3. QED
      BY <2>4, <3>1, <3>2 DEF Follows, seen
  <2>5. FoldedTo(lg2, s, s.from, s.cursor)
    BY <2>1, <2>4 DEF FoldedTo
  <2>6. QED
    BY <1>1, <1>2, <2>1, <2>5 DEF Tracked
<1>4. QED
  BY <1>1, <1>3 DEF Tracked

LEMMA ColdTracked ==
    ASSUME NEW lg, NEW pos
    PROVE  Tracked(Cold, lg, pos)
BY DEF Tracked, IdsOK, Cold, PersistedState

\* The chain moves, the two copies stay.
LEMMA CopiesKept ==
    ASSUME IInv, ChainMoves, UNCHANGED <<mem, disk>>, pc = "off" <=> pc' = "off"
    PROVE  Tracked(mem, log, position)' /\ Tracked(disk, log, position)' /\ Backed'
<1>1. Len(log') \in Nat /\ ChainOK(log, position, order) /\ Grows(log, position, log', position')
  BY DEF ChainMoves, ChainOK, IInv
<1>2. Tracked(mem, log', position') /\ Tracked(disk, log', position')
  BY <1>1, TrackedKept DEF IInv
<1>3. Backed'
  <2>1. \A i \in disk.ids : i \in PositionIds /\ position[i] # "none"
    BY DEF IInv, Tracked, IdsOK, PersistedState
  <2>2. \A i \in PositionIds : Live(i)' /\ position[i] # "none" => Live(i)
    <3>1. \A i \in PositionIds : position[i] \in States /\ position'[i] \in States
      BY DEF ChainMoves, ChainOK, IInv
    <3>2. QED
      BY <1>1, <3>1 DEF Grows, Live, States
  <2>3. QED
    BY <2>1, <2>2 DEF IInv, Backed
<1>4. QED
  BY <1>2, <1>3

---------------------------------------------------------------------------
(* The process.                                                            *)

LoopOK ==
    /\ pc \in {"off", "idle"} \cup Phases
    /\ pc = "funding" => todo \subseteq Markets
    /\ pc = "orders" => todo \subseteq OrderIds
    /\ pc = "scan" => todo \subseteq PositionIds
    /\ pc \notin {"funding", "orders", "scan"} => todo = {}
    /\ view \in {0} \cup todo

ProcessOK ==
    /\ LoopOK
    /\ pc # "off" => LoadConfigOK(env)
    /\ env \in Envs
    /\ anchor \in Nat /\ pages \in 0 .. MaxPagesPerCycle - 1
    /\ pc # "sync" => anchor = 0 /\ pages = 0
    /\ stopping \in BOOLEAN
    /\ late \in Txs \cup {NoTx}
    /\ faults \in 0 .. MaxFaults

LEMMA TypeParts ==
    (KeeperTypeOK /\ env \in Envs)
        <=> /\ ChainTypeOK /\ mem \in PersistedState /\ disk \in PersistedState
            /\ ProcessOK
<1>1. (CASE pc = "funding" -> todo \subseteq Markets
         [] pc = "orders" -> todo \subseteq OrderIds
         [] pc = "scan" -> todo \subseteq PositionIds
         [] OTHER -> todo = {})
        <=> /\ pc = "funding" => todo \subseteq Markets
            /\ pc = "orders" => todo \subseteq OrderIds
            /\ pc = "scan" => todo \subseteq PositionIds
            /\ pc \notin {"funding", "orders", "scan"} => todo = {}
  OBVIOUS
<1>2. QED
  BY <1>1 DEF KeeperTypeOK, ProcessOK, LoopOK

LEMMA ChainTyped ==
    ASSUME ChainOK(log, position, order)
    PROVE  ChainTypeOK
<1>1. log \in Seq(Entries) /\ DOMAIN log = 1 .. Len(log)
  BY DEF ChainOK
<1>2. \A n \in DOMAIN log : log[n] \in Entries
  BY <1>1
<1>3. \A n \in DOMAIN log : log[n].name \in Names /\ log[n].id \in Nat
  BY <1>2 DEF Entries
<1>4. QED
  BY <1>3 DEF ChainOK, ChainTypeOK, States, OrderRecords

\* The parts of the invariant that a step has to keep.
Parts ==
    /\ ChainOK(log, position, order)
    /\ Tracked(mem, log, position)
    /\ Tracked(disk, log, position)
    /\ Backed
    /\ ProcessOK

LEMMA PartsMakeIInv == Parts => IInv
BY TypeParts, ChainTyped DEF IInv, Parts, Tracked, IdsOK

LEMMA PartsMakeIInvNext == Parts' => IInv'
BY PartsMakeIInv, PTL

LEMMA IInvParts ==
    ASSUME IInv
    PROVE  /\ ProcessOK /\ ChainOK(log, position, order)
           /\ mem \in PersistedState /\ disk \in PersistedState
BY TypeParts DEF IInv

LEMMA FaultOK ==
    ASSUME faults \in 0 .. MaxFaults, Fault
    PROVE  faults' \in 0 .. MaxFaults
BY KeeperAssumption DEF Fault

LEMMA InvokeOK ==
    ASSUME IInv, NEW tx \in Txs, Invoke(tx)
    PROVE  ChainMoves /\ late' \in Txs \cup {NoTx} /\ faults' \in 0 .. MaxFaults
<1>1. ChainOK(log, position, order) /\ ProcessOK
  BY IInvParts
<1>2. ChainMoves
  BY <1>1, EffectMoves, UnchangedMoves DEF Invoke
<1>3. late' \in Txs \cup {NoTx} /\ faults' \in 0 .. MaxFaults
  BY <1>1, FaultOK DEF Invoke, ProcessOK
<1>4. QED
  BY <1>2, <1>3

\* Where the loops go on.
LEMMA GoOnOK ==
    ASSUME NEW phase \in {"funding", "orders", "scan"}, NEW rest, NEW m \in PersistedState,
           phase = "funding" => rest \subseteq Markets,
           phase = "orders" => rest \subseteq OrderIds,
           phase = "scan" => rest \subseteq PositionIds,
           GoOn(phase, rest, m)
    PROVE  LoopOK' /\ pc' # "off" /\ (pc' = "sync" => phase = "funding")
<1>1. m.ids \subseteq PositionIds
  BY DEF PersistedState
<1>2. CASE rest # {}
  BY <1>2 DEF GoOn, Enter, LoopOK, Phases
<1>3. CASE rest = {} /\ phase = "funding"
  BY <1>3 DEF GoOn, Enter, LoopOK, Phases
<1>4. CASE rest = {} /\ phase = "orders" /\ m.ids # {}
  BY <1>1, <1>4 DEF GoOn, Enter, LoopOK, Phases
<1>5. CASE rest = {} /\ phase # "funding" /\ ~(phase = "orders" /\ m.ids # {})
  BY <1>5 DEF GoOn, Enter, LoopOK, Phases
<1>6. QED
  BY <1>2, <1>3, <1>4, <1>5

---------------------------------------------------------------------------
(* The steps.                                                              *)

\* A transaction of a loop: the chain may move, the copies do not.
LEMMA LoopStep ==
    ASSUME IInv, NEW tx \in Txs, Invoke(tx),
           NEW phase \in {"funding", "orders", "scan"}, pc = phase,
           NEW item, GoOn(phase, todo \ {item}, mem),
           UNCHANGED <<indexerVars, stopping, env>>
    PROVE  IInv'
<1>1. /\ ProcessOK /\ ChainOK(log, position, order)
      /\ mem \in PersistedState /\ disk \in PersistedState
  BY IInvParts
<1>2. ChainMoves /\ late' \in Txs \cup {NoTx} /\ faults' \in 0 .. MaxFaults
  BY InvokeOK
<1>3. LoopOK' /\ pc' # "off" /\ (pc' = "sync" => phase = "funding")
  BY <1>1, GoOnOK DEF ProcessOK, LoopOK
<1>4. Tracked(mem, log, position)' /\ Tracked(disk, log, position)' /\ Backed'
  BY <1>2, <1>3, CopiesKept DEF indexerVars
<1>5. ProcessOK'
  BY <1>1, <1>2, <1>3 DEF ProcessOK, indexerVars, LoadConfigOK
<1>6. QED
  BY <1>2, <1>4, <1>5, PartsMakeIInvNext DEF ChainMoves, Parts

LEMMA TryStep ==
    ASSUME IInv,
           \/ \E m \in Markets : UpdateFunding(m)
           \/ \E o \in OrderIds : TryOrder(o)
           \/ TryLiquidate
    PROVE  IInv'
<1>1. CASE \E m \in Markets : UpdateFunding(m)
  <2>1. PICK m \in Markets : UpdateFunding(m)
    BY <1>1
  <2>2. Tx("update_funding", m) \in Txs
    BY DEF Tx, Txs
  <2>3. QED
    BY <2>1, <2>2, LoopStep DEF UpdateFunding
<1>2. CASE \E o \in OrderIds : TryOrder(o)
  <2>1. PICK o \in OrderIds : TryOrder(o)
    BY <1>2
  <2>2. Tx("execute_order", o) \in Txs
    BY DEF Tx, Txs
  <2>3. QED
    BY <2>1, <2>2, LoopStep DEF TryOrder
<1>3. CASE TryLiquidate
  <2>1. pc = "scan" /\ view # 0
    BY <1>3 DEF TryLiquidate
  <2>2. view \in PositionIds
    BY <2>1, IInvParts DEF ProcessOK, LoopOK
  <2>3. Tx("liquidate", view) \in Txs
    BY <2>2 DEF Tx, Txs
  <2>4. QED
    BY <1>3, <2>1, <2>3, LoopStep DEF TryLiquidate
<1>4. QED
  BY <1>1, <1>2, <1>3

\* The configuration's lookback is a number.
LEMMA LookbackIsInt ==
    ASSUME env \in Envs
    PROVE  config.eventLookbackLedgers \in Int
BY ConfigAssumption DEF config, LoadConfig, ParsePositiveInt, OrElse

LEMMA MaxPagesPos == 0 \in 0 .. MaxPagesPerCycle - 1
BY IndexerAssumption

LEMMA EndSyncOK ==
    ASSUME mem' \in PersistedState, EndSync
    PROVE  /\ LoopOK' /\ pc' \notin {"off", "sync"}
           /\ anchor' = 0 /\ pages' = 0
<1>1. mem'.orders \subseteq OrderIds
  BY DEF PersistedState
<1>2. QED
  BY <1>1, GoOnOK DEF EndSync

LEMMA FindLatestStep ==
    ASSUME IInv, FindLatest
    PROVE  IInv'
<1>1. /\ ProcessOK /\ ChainOK(log, position, order)
      /\ mem \in PersistedState /\ disk \in PersistedState
  BY IInvParts
<1>2. pc = "sync" /\ UNCHANGED <<chainVars, mem, disk, env, late>>
  BY DEF FindLatest
<1>3. ProcessOK' /\ pc' # "off"
  <2>1. CASE /\ anchor' = ColdStart(config.eventLookbackLedgers)
             /\ UNCHANGED <<pages, processVars, faults>>
    <3>1. anchor' \in Nat
      BY <1>1, <2>1, LookbackIsInt DEF ProcessOK, ColdStart, LatestLedger, ChainOK
    <3>2. QED
      BY <1>1, <1>2, <2>1, <3>1 DEF ProcessOK, LoopOK, LoadConfigOK, processVars
  <2>2. CASE Fault /\ UNCHANGED stopping /\ EndSync
    BY <1>1, <1>2, <2>2, FaultOK, EndSyncOK, MaxPagesPos DEF ProcessOK, LoadConfigOK
  <2>3. QED
    BY <2>1, <2>2 DEF FindLatest
<1>4. ChainMoves
  BY <1>1, <1>2, UnchangedMoves
<1>5. QED
  BY <1>2, <1>3, <1>4, CopiesKept, PartsMakeIInvNext DEF ChainMoves, Parts

\* A page consumed: the ids follow the log up to the new cursor, and no id of
\* a position that is not gone is lost.
LEMMA ConsumeOK ==
    ASSUME NEW first \in Nat, ChainOK(log, position, order), Tracked(mem, log, position),
           IsServed(first),
           mem.cursor # NoCursor => first = mem.cursor + 1
    PROVE  /\ Tracked(Consume(first), log, position)
           /\ \A i \in mem.ids : position[i] # "gone" => i \in Consume(first).ids
<1> DEFINE last == IF first + PageLimit - 1 < Len(log) THEN first + PageLimit - 1
                                                       ELSE Len(log)
           from == IF mem.cursor = NoCursor THEN first ELSE mem.from
           t == ApplyEvents(mem, Page(first))
           c == first + Len(Page(first)) - 1
<1>1. log \in Seq(Entries) /\ Len(log) \in Nat /\ \A n \in 1 .. Len(log) : EventTrue(log[n], position)
  BY DEF ChainOK
<1>2. first \in Nat \ {0} /\ first <= Len(log) + 1
  BY <1>1, EventLogAssumption DEF IsServed, OldestLedger, LatestLedger
<1>3. last \in Nat /\ first <= last + 1 /\ last <= Len(log)
  BY <1>1, <1>2, EventLogAssumption
<1>4. Page(first) = SubSeq(log, first, last)
  BY DEF Page
<1>5. c = last
  <2> HIDE DEF last
  <2>1. Len(SubSeq(log, first, last)) = last - first + 1
    BY <1>1, <1>2, <1>3
  <2> QED
    BY <1>2, <1>3, <1>4, <2>1
<1>6. IdsOK(mem, position) /\ mem \in PersistedState
  BY DEF Tracked, IdsOK
<1>7. from \in Nat \ {0} /\ from <= first /\ FoldedTo(log, mem, from, first - 1)
  <2>1. CASE mem.cursor = NoCursor
    <3>1. \A names, id : SeenIn(log, names, id, first, first - 1) = {}
      BY <1>2 DEF SeenIn
    <3>2. QED
      BY <1>2, <2>1, <3>1 DEF FoldedTo, Follows
  <2>2. CASE mem.cursor # NoCursor
    <3>1. mem.cursor \in Nat /\ mem.from \in Nat /\ first = mem.cursor + 1
      BY <1>6, <2>2 DEF PersistedState
    <3>2. first - 1 = mem.cursor
      BY <3>1
    <3>3. mem.from >= 1 /\ mem.from <= first /\ FoldedTo(log, mem, mem.from, mem.cursor)
      BY <2>2, <3>1 DEF Tracked
    <3>4. QED
      BY <2>2, <3>1, <3>2, <3>3
  <2>3. QED
    BY <2>1, <2>2
<1>8. /\ IdsOK(t, position)
      /\ \A i \in mem.ids : position[i] # "gone" => i \in t.ids
      /\ FoldedTo(log, t, from, last)
  <2> HIDE DEF last, from
  <2> QED
    BY <1>1, <1>2, <1>3, <1>4, <1>6, <1>7, PageFolds
<1>9. Consume(first) = [cursor |-> last, ids |-> t.ids, orders |-> t.orders, from |-> from]
  <2>1. t = [cursor |-> t.cursor, ids |-> t.ids, orders |-> t.orders, from |-> t.from]
    <3> HIDE DEF t
    <3> QED
      BY <1>8 DEF IdsOK, PersistedState
  <2>2. t.from = mem.from
    <3> HIDE DEF last, from
    <3> QED
      BY <1>1, <1>2, <1>3, <1>4, <1>6, <1>7, PageFolds
  <2> DEFINE t1 == [t EXCEPT !.cursor = c]
  <2>3. t1 = [cursor |-> last, ids |-> t.ids, orders |-> t.orders, from |-> mem.from]
    <3> HIDE DEF t, last, c
    <3> QED
      BY <1>5, <2>1, <2>2
  <2>4. Consume(first) = [t1 EXCEPT !.from = IF mem.cursor = NoCursor THEN first ELSE @]
    BY Zenon DEF Consume
  <2>5. QED
    <3> HIDE DEF t, last, c, t1
    <3> QED
      BY <2>3, <2>4
<1>10. QED
  <2> HIDE DEF t, last, from, c
  <2>1. t \in PersistedState
    BY <1>8 DEF IdsOK
  <2>2. IdsOK(Consume(first), position)
    BY <1>3, <1>7, <1>8, <1>9, <2>1 DEF IdsOK, PersistedState
  <2>3. FoldedTo(log, Consume(first), from, last)
    BY <1>8, <1>9 DEF FoldedTo
  <2>4. from >= 1 /\ from <= last + 1 /\ last <= Len(log)
    BY <1>2, <1>3, <1>7
  <2>5. /\ Consume(first).cursor = last /\ Consume(first).from = from
        /\ Consume(first).ids = t.ids
    BY <1>9
  <2>6. QED
    BY <1>8, <2>2, <2>3, <2>4, <2>5 DEF Tracked

\* The page GetEvents asks for.
LEMMA RequestOK ==
    ASSUME IInv, GetEvents
    PROVE  /\ Tracked(Consume(RequestFrom), log, position)
           /\ \A i \in mem.ids : position[i] # "gone" => i \in Consume(RequestFrom).ids
<1>1. /\ ProcessOK /\ ChainOK(log, position, order) /\ Tracked(mem, log, position)
      /\ mem \in PersistedState
  BY IInvParts DEF IInv
<1>2. RequestFrom \in Nat /\ (mem.cursor # NoCursor => RequestFrom = mem.cursor + 1)
  BY <1>1 DEF RequestFrom, ProcessOK, PersistedState
<1>3. IsServed(RequestFrom)
  BY DEF GetEvents
<1>4. QED
  <2> DEFINE first == RequestFrom
  <2> HIDE DEF first
  <2>1. /\ first \in Nat /\ IsServed(first)
        /\ mem.cursor # NoCursor => first = mem.cursor + 1
    BY <1>2, <1>3 DEF first
  <2>2. /\ Tracked(Consume(first), log, position)
        /\ \A i \in mem.ids : position[i] # "gone" => i \in Consume(first).ids
    BY <1>1, <2>1, ConsumeOK
  <2>3. QED
    BY <2>2 DEF first

LEMMA GetEventsStep ==
    ASSUME IInv, GetEvents
    PROVE  IInv'
<1>1. /\ ProcessOK /\ ChainOK(log, position, order)
      /\ Tracked(disk, log, position) /\ Backed
  BY IInvParts DEF IInv
<1>2. /\ pc = "sync" /\ mem' = Consume(RequestFrom)
      /\ UNCHANGED <<log, position, order, stopping, env, late>>
  BY DEF GetEvents, chainVars
<1>3. Tracked(mem', log, position)
  BY <1>2, RequestOK
<1>4. \A i \in mem.ids : position[i] # "gone" => i \in mem'.ids
  BY <1>2, RequestOK
<1>5. mem' \in PersistedState
  BY <1>3 DEF Tracked, IdsOK
<1>6. /\ disk' = disk \/ disk' = mem'
      /\ LoopOK' /\ pc' # "off" /\ anchor' = 0
      /\ pages' \in 0 .. MaxPagesPerCycle - 1 /\ (pc' # "sync" => pages' = 0)
      /\ faults' \in 0 .. MaxFaults
  <2>1. CASE LastPage(RequestFrom)
    <3>1. /\ (Save(mem') /\ UNCHANGED faults) \/ (SaveFails /\ Fault)
          /\ EndSync
      BY <2>1 DEF GetEvents
    <3>2. LoopOK' /\ pc' \notin {"off", "sync"} /\ anchor' = 0 /\ pages' = 0
      BY <1>5, <3>1, EndSyncOK
    <3>3. QED
      BY <1>1, <3>1, <3>2, FaultOK, MaxPagesPos DEF ProcessOK, Save, SaveFails
  <2>2. CASE ~LastPage(RequestFrom)
    <3>1. /\ pages' = pages + 1 /\ anchor' = 0
          /\ UNCHANGED <<disk, pc, todo, view, faults>>
      BY <2>2 DEF GetEvents
    <3>2. pages + 1 # MaxPagesPerCycle
      BY <2>2 DEF LastPage
    <3>3. pages' \in 0 .. MaxPagesPerCycle - 1
      BY <1>1, <3>1, <3>2, IndexerAssumption DEF ProcessOK
    <3>4. QED
      BY <1>1, <1>2, <3>1, <3>3 DEF ProcessOK, LoopOK
  <2>3. QED
    BY <2>1, <2>2
<1>7. ProcessOK'
  BY <1>1, <1>2, <1>6 DEF ProcessOK, LoadConfigOK
<1>8. Backed'
  <2>1. \A i \in disk.ids : Live(i) => i \in mem'.ids
    BY <1>1, <1>2, <1>4 DEF Backed, Live
  <2>2. QED
    BY <1>2, <1>6, <2>1 DEF Backed, Live
<1>9. Parts'
  BY <1>1, <1>2, <1>3, <1>6, <1>7, <1>8 DEF Parts
<1>10. QED
  BY <1>9, PartsMakeIInvNext

LEMMA GetEventsFailsStep ==
    ASSUME IInv, GetEventsFails
    PROVE  IInv'
<1>1. /\ ProcessOK /\ ChainOK(log, position, order)
      /\ Tracked(mem, log, position) /\ Tracked(disk, log, position) /\ Backed
      /\ mem \in PersistedState
  BY IInvParts DEF IInv
<1>2. /\ pc = "sync" /\ mem' = AfterFailure
      /\ UNCHANGED <<log, position, order, disk, stopping, env, late>>
  BY DEF GetEventsFails, chainVars
<1>3. mem' = [cursor |-> NoCursor, ids |-> mem.ids, orders |-> mem.orders, from |-> mem.from]
  <2>1. mem = [cursor |-> mem.cursor, ids |-> mem.ids, orders |-> mem.orders, from |-> mem.from]
    BY <1>1 DEF PersistedState
  <2>2. QED
    BY <1>2, <2>1 DEF AfterFailure
<1>4. mem' \in PersistedState /\ Tracked(mem', log, position)
  BY <1>1, <1>3 DEF Tracked, IdsOK, PersistedState
<1>5. EndSync /\ faults' \in 0 .. MaxFaults
  BY <1>1, FaultOK DEF GetEventsFails, ProcessOK
<1>6. LoopOK' /\ pc' \notin {"off", "sync"} /\ anchor' = 0 /\ pages' = 0
  BY <1>4, <1>5, EndSyncOK
<1>7. ProcessOK'
  BY <1>1, <1>2, <1>5, <1>6, MaxPagesPos DEF ProcessOK, LoadConfigOK
<1>8. Backed'
  BY <1>1, <1>2, <1>3, <1>6 DEF Backed, Live
<1>9. Parts'
  BY <1>1, <1>2, <1>4, <1>7, <1>8 DEF Parts
<1>10. QED
  BY <1>9, PartsMakeIInvNext

LEMMA ReadViewStep ==
    ASSUME IInv, NEW i \in PositionIds, ReadView(i)
    PROVE  IInv'
<1>1. /\ ProcessOK /\ ChainOK(log, position, order) /\ mem \in PersistedState
  BY IInvParts
<1>2. pc = "scan" /\ i \in todo /\ UNCHANGED <<chainVars, indexerVars, stopping, env, late>>
  BY DEF ReadView
<1>3. LoopOK' /\ pc' \notin {"off", "sync"} /\ faults' \in 0 .. MaxFaults
  <2>1. CASE view' = i /\ UNCHANGED <<pc, todo, faults>>
    BY <1>1, <1>2, <2>1 DEF ProcessOK, LoopOK
  <2>2. CASE (UNCHANGED faults \/ Fault) /\ GoOn("scan", todo \ {i}, mem)
    <3>1. todo \ {i} \subseteq PositionIds
      BY <1>1, <1>2 DEF ProcessOK, LoopOK
    <3>2. LoopOK' /\ pc' # "off" /\ pc' # "sync"
      BY <1>1, <2>2, <3>1, GoOnOK
    <3>3. QED
      BY <1>1, <2>2, <3>2, FaultOK DEF ProcessOK
  <2>3. QED
    BY <2>1, <2>2 DEF ReadView
<1>4. ProcessOK'
  BY <1>1, <1>2, <1>3 DEF ProcessOK, LoadConfigOK, indexerVars
<1>5. ChainMoves
  BY <1>1, <1>2, UnchangedMoves
<1>6. QED
  BY <1>2, <1>3, <1>4, <1>5, CopiesKept, PartsMakeIInvNext DEF ChainMoves, Parts, indexerVars

LEMMA EndCycleStep ==
    ASSUME IInv, EndCycle
    PROVE  IInv'
<1>1. /\ ProcessOK /\ ChainOK(log, position, order)
      /\ Tracked(mem, log, position) /\ Tracked(disk, log, position) /\ Backed
  BY IInvParts DEF IInv
<1>2. /\ pc = "save" /\ todo' = {} /\ view' = 0
      /\ UNCHANGED <<log, position, order, anchor, pages, env, late>>
      /\ disk' = disk \/ disk' = mem
      /\ \/ pc' = "off" /\ mem' = Cold /\ stopping' = FALSE
         \/ pc' = "idle" /\ mem' = mem /\ stopping' = stopping
  BY DEF EndCycle, chainVars, Save, SaveFails, Stop
<1>3. faults' \in 0 .. MaxFaults
  BY <1>1, FaultOK DEF EndCycle, ProcessOK
<1>4. ProcessOK'
  BY <1>1, <1>2, <1>3 DEF ProcessOK, LoopOK, LoadConfigOK
<1>5. Tracked(mem', log, position) /\ Tracked(disk', log, position)
  BY <1>1, <1>2, ColdTracked
<1>6. Backed'
  BY <1>1, <1>2 DEF Backed, Live
<1>7. Parts'
  BY <1>1, <1>2, <1>4, <1>5, <1>6 DEF Parts
<1>8. QED
  BY <1>7, PartsMakeIInvNext

\* The process starts, is told to stop, or is killed.
LEMMA ProcessStep ==
    ASSUME IInv, Tick \/ Boot \/ Shutdown \/ Crash
    PROVE  IInv'
<1>1. /\ ProcessOK /\ ChainOK(log, position, order)
      /\ Tracked(mem, log, position) /\ Tracked(disk, log, position) /\ Backed
  BY IInvParts DEF IInv
<1>2. UNCHANGED <<log, position, order, disk, env, late>>
  BY DEF Tick, Boot, Shutdown, Crash, chainVars, indexerVars
<1>3. \/ mem' = mem /\ (pc = "off" <=> pc' = "off")
      \/ mem' = disk /\ pc' # "off"
      \/ mem' = Cold /\ pc' = "off"
  BY DEF Tick, Boot, Shutdown, Crash, indexerVars, Enter, Load, Stop
<1>4. Tracked(mem', log, position)
  BY <1>1, <1>3, ColdTracked
<1>5. Backed'
  BY <1>1, <1>2, <1>3 DEF Backed, Live
<1>6. ProcessOK'
  <2>1. CASE Tick
    BY <1>1, <2>1 DEF Tick, Enter, ProcessOK, LoopOK, LoadConfigOK, Phases, indexerVars
  <2>2. CASE Boot
    BY <1>1, <2>2 DEF Boot, Enter, ProcessOK, LoopOK, LoadConfigOK, Phases
  <2>3. CASE Shutdown
    BY <1>1, <2>3 DEF Shutdown, Stop, ProcessOK, LoopOK, LoadConfigOK, Phases
  <2>4. CASE Crash
    BY <1>1, <2>4, FaultOK, MaxPagesPos DEF Crash, Enter, ProcessOK, LoopOK
  <2>5. QED
    BY <2>1, <2>2, <2>3, <2>4
<1>7. Parts'
  BY <1>1, <1>2, <1>4, <1>5, <1>6 DEF Parts
<1>8. QED
  BY <1>7, PartsMakeIInvNext

\* Traders, prices, other keepers, and the keeper's outstanding transaction.
LEMMA OutsideStep ==
    ASSUME IInv, SettleLate \/ Environment
    PROVE  IInv'
<1>1. ProcessOK /\ ChainOK(log, position, order)
  BY IInvParts
<1>2. ChainMoves
  <2>1. CASE Environment
    BY <1>1, <2>1, ChainNextMoves DEF Environment
  <2>2. CASE SettleLate
    <3>1. late \in Txs
      BY <1>1, <2>2 DEF SettleLate, ProcessOK
    <3>2. QED
      BY <1>1, <2>2, <3>1, EffectMoves, UnchangedMoves DEF SettleLate
  <2>3. QED
    BY <2>1, <2>2
<1>3. UNCHANGED <<mem, disk, anchor, pages, pc, todo, view, stopping, env, faults>>
  BY DEF SettleLate, Environment, indexerVars, processVars
<1>4. late' \in Txs \cup {NoTx}
  BY <1>1 DEF SettleLate, Environment, ProcessOK
<1>5. ProcessOK'
  BY <1>1, <1>3, <1>4 DEF ProcessOK, LoopOK, LoadConfigOK
<1>6. QED
  BY <1>2, <1>3, <1>5, CopiesKept, PartsMakeIInvNext DEF ChainMoves, Parts

---------------------------------------------------------------------------
(* The theorems.                                                           *)

LEMMA InitIInv == Init => IInv
<1> SUFFICES ASSUME Init
              PROVE  IInv
  OBVIOUS
<1>1. ChainOK(log, position, order)
  <2>1. log \in Seq(Entries) /\ Len(log) = 1 /\ log[1] = [name |-> "other", id |-> 0]
    BY OneEvent DEF Init, ChainInit, Names
  <2>2. EventTrue(log[1], position)
    BY <2>1 DEF EventTrue, OPEN_EVENTS, CLOSE_EVENTS, ORDER_OPEN_EVENTS
  <2>3. position \in [PositionIds -> States] /\ order \in [OrderIds -> OrderRecords]
    BY DEF Init, ChainInit, States, OrderRecords
  <2>4. QED
    BY <2>1, <2>2, <2>3 DEF ChainOK
<1>2. mem = Cold /\ disk = Cold /\ pc = "off"
  BY DEF Init, IndexerInit
<1>3. ProcessOK
  <2>1. LoopOK
    BY DEF Init, LoopOK
  <2>2. 0 \in 0 .. MaxFaults
    BY KeeperAssumption
  <2>3. QED
    BY <2>1, <2>2, MaxPagesPos DEF Init, IndexerInit, ProcessOK
<1>4. QED
  BY <1>1, <1>2, <1>3, ColdTracked, PartsMakeIInv DEF Backed, Parts

LEMMA NextIInv == IInv /\ [Next]_vars => IInv'
<1> SUFFICES ASSUME IInv, [Next]_vars
              PROVE  IInv'
  OBVIOUS
<1>1. CASE KeeperStep
  BY <1>1, TryStep, FindLatestStep, GetEventsStep, GetEventsFailsStep, ReadViewStep,
     EndCycleStep, ProcessStep DEF KeeperStep
<1>2. CASE Boot \/ Shutdown \/ Crash
  BY <1>2, ProcessStep
<1>3. CASE SettleLate \/ Environment
  BY <1>3, OutsideStep
<1>4. CASE UNCHANGED vars
  <2>1. Parts
    BY IInvParts DEF IInv, Parts
  <2>2. Parts'
    BY <1>4, <2>1 DEF Parts, vars, chainVars, indexerVars, processVars, Backed, Live,
       ProcessOK, LoopOK, LoadConfigOK
  <2>3. QED
    BY <2>2, PartsMakeIInvNext
<1>5. QED
  BY <1>1, <1>2, <1>3, <1>4 DEF Next

\* Every behaviour of the keeper keeps the invariant.
LEMMA AlwaysIInv == Spec => []IInv
<1>1. QED
  BY InitIInv, NextIInv, PTL DEF Spec

\* The process keeps its types, runs only under a configuration loadConfig
\* accepts, and never holds an answer it has not asked for.
THEOREM KeeperTyped == Spec => []KeeperTypeOK
<1>1. IInv => KeeperTypeOK
  BY DEF IInv
<1>2. QED
  BY <1>1, AlwaysIInv, PTL

\* EventsOf and Agrees are SeenIn and Follows of the log.
LEMMA TrackedAgrees ==
    ASSUME NEW state, Tracked(state, log, position), state.cursor # NoCursor
    PROVE  /\ Agrees(state.ids, PositionIds, OPEN_EVENTS, CLOSE_EVENTS, state)
           /\ Agrees(state.orders, OrderIds, ORDER_OPEN_EVENTS, ORDER_CLOSE_EVENTS, state)
<1>1. \A names, id : EventsOf(names, id, state.from, state.cursor)
                        = SeenIn(log, names, id, state.from, state.cursor)
  BY DEF EventsOf, SeenIn
<1>2. FoldedTo(log, state, state.from, state.cursor)
  BY DEF Tracked
<1>3. ASSUME NEW i \in PositionIds
      PROVE  Follows(log, state.ids, OPEN_EVENTS, CLOSE_EVENTS, i, state.from, state.cursor)
  BY <1>2 DEF FoldedTo
<1>4. ASSUME NEW o \in OrderIds
      PROVE  Follows(log, state.orders, ORDER_OPEN_EVENTS, ORDER_CLOSE_EVENTS, o,
                     state.from, state.cursor)
  BY <1>2 DEF FoldedTo
<1>5. QED
  BY <1>1, <1>3, <1>4 DEF Agrees, Follows

\* The ids held and the ids persisted are the ones the events from the start of
\* the scan to the cursor say, however the pages fell, whatever was read again
\* and whenever the process was killed.
THEOREM FoldIsExact == Spec => []WindowFolded
<1>1. IInv => WindowFolded
  BY TrackedAgrees DEF IInv, WindowFolded
<1>2. QED
  BY <1>1, AlwaysIInv, PTL

\* One step of any actor forgets no position that is not gone.
LEMMA StepDropsNoLive ==
    ASSUME IInv, [Next]_vars, NEW i \in PositionIds, Live(i)
    PROVE  /\ i \in disk.ids => i \in disk'.ids
           /\ pc # "off" /\ pc' # "off" /\ i \in mem.ids => i \in mem'.ids
<1>1. Backed /\ mem \in PersistedState
  BY IInvParts DEF IInv
<1>2. position[i] # "gone"
  BY DEF Live
<1>3. CASE GetEvents
  <2>1. mem' = Consume(RequestFrom) /\ (disk' = disk \/ disk' = mem') /\ pc # "off"
    BY <1>3 DEF GetEvents, Save, SaveFails
  <2>2. i \in mem.ids => i \in mem'.ids
    BY <1>2, <1>3, <2>1, RequestOK
  <2>3. i \in disk.ids => i \in mem.ids
    BY <1>1, <2>1 DEF Backed
  <2>4. QED
    BY <2>1, <2>2, <2>3
<1>4. CASE GetEventsFails
  <2>1. mem'.ids = mem.ids
    BY <1>1, <1>4 DEF GetEventsFails, AfterFailure, PersistedState
  <2>2. QED
    BY <1>4, <2>1 DEF GetEventsFails
<1>5. CASE EndCycle
  BY <1>1, <1>5 DEF EndCycle, Save, SaveFails, Stop, Backed
<1>6. CASE Boot
  BY <1>6 DEF Boot
<1>7. CASE Shutdown \/ Crash
  BY <1>7 DEF Shutdown, Crash, Stop, Enter
<1>8. CASE UNCHANGED <<mem, disk>>
  BY <1>8
<1>9. QED
  <2>1. Tick \/ SettleLate \/ Environment \/ (\E m \in Markets : UpdateFunding(m))
          \/ (\E o \in OrderIds : TryOrder(o)) \/ (\E j \in PositionIds : ReadView(j))
          \/ TryLiquidate \/ FindLatest \/ UNCHANGED vars
        => UNCHANGED <<mem, disk>>
    BY DEF Tick, SettleLate, Environment, UpdateFunding, TryOrder, ReadView, TryLiquidate,
       FindLatest, indexerVars, vars
  <2>2. QED
    BY <1>3, <1>4, <1>5, <1>6, <1>7, <1>8, <2>1 DEF Next, KeeperStep

\* A position the keeper knows of stays known, in memory and in state.json,
\* until it is gone from the chain.
THEOREM LivePositionsKept == Spec => LiveNeverDropped
<1> DEFINE Kept ==
      \A i \in PositionIds : Live(i) =>
          /\ i \in disk.ids => i \in disk'.ids
          /\ (pc # "off" /\ pc' # "off" /\ i \in mem.ids) => i \in mem'.ids
<1>1. IInv /\ [Next]_vars => [Kept]_vars
  BY StepDropsNoLive
<1>2. Spec => [][Kept]_vars
  <2> HIDE DEF Kept
  <2> QED
    BY <1>1, AlwaysIInv, PTL DEF Spec
<1>3. QED
  BY <1>2 DEF LiveNeverDropped

=============================================================================
