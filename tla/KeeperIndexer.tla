--------------------------- MODULE KeeperIndexer ---------------------------
(***************************************************************************)
(* The keeper's indexer: the ids of open positions and resting orders it   *)
(* folds out of the event log, page by page, and the copy of them in       *)
(* state.json that a restart resumes from.  The functions of one step are  *)
(* here; Keeper says when they run and what may fail.                      *)
(***************************************************************************)
EXTENDS EventLog

CONSTANTS
    NoCursor,           \* the cursor's null
    MaxPagesPerCycle    \* MAX_PAGES_PER_CYCLE

ASSUME IndexerAssumption ==
    /\ NoCursor \notin Nat
    /\ MaxPagesPerCycle \in Nat \ {0}

VARIABLES
    mem,     \* the indexer object of the running process
    disk,    \* state.json
    anchor,  \* the startLedger of a cold start's request, 0 when there is none
    pages    \* the pages this cycle has asked for

indexerVars == <<mem, disk, anchor, pages>>

OPEN_EVENTS == {"position_opened"}
CLOSE_EVENTS == {"position_closed", "position_liquidated"}
ORDER_OPEN_EVENTS == {"order_placed"}
ORDER_CLOSE_EVENTS == {"order_filled", "order_cancelled"}

\* A cursor is the ledger of the last event consumed.  from is the first
\* ledger of the scan the cursor belongs to: no program variable, it is there
\* to say what the ids should be.
PersistedState ==
    [cursor : {NoCursor} \cup Nat, ids : SUBSET PositionIds,
     orders : SUBSET OrderIds, from : Nat]

Cold == [cursor |-> NoCursor, ids |-> {}, orders |-> {}, from |-> 0]

\* state.json is absent at first.
IndexerInit ==
    /\ mem = Cold
    /\ disk = Cold
    /\ anchor = 0
    /\ pages = 0

Load == mem' = disk

\* A tmp file renamed over state.json, or, when that throws, no change at all.
Save(state) == disk' = state
SaveFails == UNCHANGED disk

---------------------------------------------------------------------------

ApplyEvent(state, e) ==
    [state EXCEPT
        !.ids = (@ \cup {i \in {e.id} : e.name \in OPEN_EVENTS})
                    \ {i \in {e.id} : e.name \in CLOSE_EVENTS},
        !.orders = (@ \cup {o \in {e.id} : e.name \in ORDER_OPEN_EVENTS})
                    \ {o \in {e.id} : e.name \in ORDER_CLOSE_EVENTS}]

ApplyEvents(state, events) ==
    LET after[n \in 0 .. Len(events)] ==
            IF n = 0 THEN state ELSE ApplyEvent(after[n - 1], events[n])
    IN  after[Len(events)]

\* Cursor mode, or ledger-range mode from the anchor of a cold start.
RequestFrom == IF mem.cursor = NoCursor THEN anchor ELSE mem.cursor + 1
NeedsAnchor == mem.cursor = NoCursor /\ anchor = 0

\* Mutation: a cold start asks for the latest ledger on.
ColdStart_FromLatest(lookback) == LatestLedger

ColdStart(lookback) ==
    IF LatestLedger - lookback > 1 THEN LatestLedger - lookback ELSE 1

\* Mutation: the cursor jumps to the latest ledger.
Consume_ToLatest(first) ==
    [ApplyEvents(mem, Page(first)) EXCEPT
        !.cursor = LatestLedger,
        !.from = IF mem.cursor = NoCursor THEN first ELSE @]

\* Mutation: a cold start begins with empty sets.
Consume_Reset(first) ==
    [ApplyEvents(IF mem.cursor = NoCursor THEN Cold ELSE mem, Page(first)) EXCEPT
        !.cursor = first + Len(Page(first)) - 1,
        !.from = IF mem.cursor = NoCursor THEN first ELSE @]

\* A page applied, and the cursor moved to its last event.  The ids of an
\* earlier scan stay: nothing clears them when the cursor is lost.
Consume(first) ==
    [ApplyEvents(mem, Page(first)) EXCEPT
        !.cursor = first + Len(Page(first)) - 1,
        !.from = IF mem.cursor = NoCursor THEN first ELSE @]

\* Mutation: a failed request leaves the cursor where it is.
AfterFailure_Kept == mem

\* Whatever made getEvents throw, the next cycle starts cold.
AfterFailure == [mem EXCEPT !.cursor = NoCursor]

\* A short page has drained the log; MAX_PAGES_PER_CYCLE ends a long backlog.
LastPage(first) ==
    Len(Page(first)) < PageLimit \/ pages + 1 = MaxPagesPerCycle

=============================================================================
