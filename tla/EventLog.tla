------------------------------ MODULE EventLog ------------------------------
(***************************************************************************)
(* What the off-chain programs see of the chain: the engine's positions    *)
(* and orders reduced to what their clients ask about them, and the event  *)
(* log the RPC node serves.  One event stands in one ledger, so that the   *)
(* index of an event is its ledger and Len(log) is the latest ledger.      *)
(* Margins, prices and fees are PerpEngine's subject; here a price move    *)
(* only turns a position underwater or back, or an order's trigger on or   *)
(* off.  The RPC node is not in the repository: it is modelled from what   *)
(* the indexers expect of getEvents and getLatestLedger.                   *)
(***************************************************************************)
EXTENDS Naturals, Sequences, FiniteSets

CONSTANTS
    MaxPositions,  \* bound of an instance on the position ids ever used
    MaxOrders,     \* bound of an instance on the order ids ever used
    MaxLog,        \* bound of an instance on the events others than the keeper cause
    Retention,     \* how many of the latest ledgers the RPC node still serves
    PageLimit      \* EVENTS_PAGE_LIMIT, the events in a full page

ASSUME EventLogAssumption ==
    /\ MaxPositions \in Nat /\ MaxOrders \in Nat /\ MaxLog \in Nat
    /\ Retention \in Nat \ {0}
    /\ PageLimit \in Nat \ {0}

VARIABLES
    log,        \* every event the engine emitted, oldest first
    position,   \* position[i]: "none" yet, "healthy", "underwater" or "gone"
    order       \* order[o].state, and the position a stop is attached to

chainVars == <<log, position, order>>

PositionIds == 1 .. MaxPositions
OrderIds == 1 .. MaxOrders
Entry == 0  \* order[o].target of an entry order; a stop's is its position

Names ==
    {"position_opened", "position_closed", "position_liquidated",
     "order_placed", "order_filled", "order_cancelled", "other"}

Event(name, id) == [name |-> name, id |-> id]

ChainTypeOK ==
    /\ \A n \in DOMAIN log : log[n].name \in Names /\ log[n].id \in Nat
    /\ position \in [PositionIds -> {"none", "healthy", "underwater", "gone"}]
    /\ order \in [OrderIds -> [state : {"none", "resting", "triggered", "gone"},
                               target : {Entry} \cup PositionIds]]

\* The engine is deployed: something has been emitted before the keeper starts.
ChainInit ==
    /\ log = <<Event("other", 0)>>
    /\ position = [i \in PositionIds |-> "none"]
    /\ order = [o \in OrderIds |-> [state |-> "none", target |-> Entry]]

---------------------------------------------------------------------------
(* The engine's entry points.                                              *)

Live(i) == position[i] \in {"healthy", "underwater"}
Pending(o) == order[o].state \in {"resting", "triggered"}

Fresh(ids, IsUsed(_)) == {n \in ids : ~IsUsed(n) /\ \A k \in ids : k < n => IsUsed(k)}
FreshPosition == Fresh(PositionIds, LAMBDA i : position[i] # "none")
FreshOrder == Fresh(OrderIds, LAMBDA o : order[o].state # "none")

\* An id of the instance is left for one more position.
IdLeft ==
    Cardinality({i \in PositionIds : position[i] = "none"})
        > Cardinality({o \in OrderIds : Pending(o) /\ order[o].target = Entry})

Emit(events) == log' = log \o events

OpenPosition ==
    /\ IdLeft
    /\ \E i \in FreshPosition :
          /\ position' = [position EXCEPT ![i] = "healthy"]
          /\ Emit(<<Event("position_opened", i)>>)
    /\ UNCHANGED order

ClosePosition(i) ==
    /\ Live(i)
    /\ position' = [position EXCEPT ![i] = "gone"]
    /\ Emit(<<Event("position_closed", i)>>)
    /\ UNCHANGED order

\* Any other position refuses with NotLiquidatable or PositionNotFound.
Liquidate(i) ==
    /\ position[i] = "underwater"
    /\ position' = [position EXCEPT ![i] = "gone"]
    /\ Emit(<<Event("position_liquidated", i)>>)
    /\ UNCHANGED order

PlaceOrder(target) ==
    /\ IF target = Entry THEN IdLeft ELSE Live(target)
    /\ \E o \in FreshOrder :
          /\ order' = [order EXCEPT ![o] = [state |-> "resting", target |-> target]]
          /\ Emit(<<Event("order_placed", o)>>)
    /\ UNCHANGED position

CancelOrder(o) ==
    /\ Pending(o)
    /\ order' = [order EXCEPT ![o].state = "gone"]
    /\ Emit(<<Event("order_cancelled", o)>>)
    /\ UNCHANGED position

\* The fill of an entry opens a position, that of a stop closes one; a stop
\* whose position is gone always reverts.
CanExecute(o) ==
    /\ order[o].state = "triggered"
    /\ order[o].target \in {Entry} \cup {i \in PositionIds : Live(i)}

ExecuteOrder(o) ==
    /\ CanExecute(o)
    /\ order' = [order EXCEPT ![o].state = "gone"]
    /\ LET t == order[o].target
       IN  IF t = Entry
           THEN \E i \in FreshPosition :
                   /\ position' = [position EXCEPT ![i] = "healthy"]
                   /\ Emit(<<Event("position_opened", i), Event("order_filled", o)>>)
           ELSE /\ position' = [position EXCEPT ![t] = "gone"]
                /\ Emit(<<Event("position_closed", t), Event("order_filled", o)>>)

\* Margin added, funding updated: an event that opens and closes nothing.
EmitOther ==
    /\ Emit(<<Event("other", 0)>>)
    /\ UNCHANGED <<position, order>>

Reprice ==
    /\ \/ \E i \in PositionIds :
             /\ Live(i)
             /\ position' = [position EXCEPT ![i] =
                                IF @ = "healthy" THEN "underwater" ELSE "healthy"]
             /\ UNCHANGED order
       \/ \E o \in OrderIds :
             /\ Pending(o)
             /\ order' = [order EXCEPT ![o].state =
                             IF @ = "resting" THEN "triggered" ELSE "resting"]
             /\ UNCHANGED position
    /\ UNCHANGED log

\* Traders, prices and other keepers.
ChainNext ==
    \/ Reprice
    \/ /\ Len(log) < MaxLog
       /\ \/ OpenPosition
          \/ EmitOther
          \/ \E i \in PositionIds : ClosePosition(i) \/ Liquidate(i)
          \/ \E t \in {Entry} \cup PositionIds : PlaceOrder(t)
          \/ \E o \in OrderIds : CancelOrder(o) \/ ExecuteOrder(o)

---------------------------------------------------------------------------
(* The RPC node.                                                           *)

LatestLedger == Len(log)
OldestLedger == IF Len(log) > Retention THEN Len(log) - Retention + 1 ELSE 1

\* A request from a ledger outside the retained range is an error, whether it
\* names the ledger or a cursor that stands there.
IsServed(first) == OldestLedger <= first /\ first <= LatestLedger + 1

Page(first) ==
    SubSeq(log, first, IF first + PageLimit - 1 < Len(log)
                       THEN first + PageLimit - 1 ELSE Len(log))

=============================================================================
