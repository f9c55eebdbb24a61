---------------------------- MODULE Leaderboard -----------------------------
(***************************************************************************)
(* fetchLeaderboard: it probes lookback windows for the first page of      *)
(* engine events, pages forward by cursor and folds the events into rows   *)
(* and totals, while the chain appends events and the node forgets old     *)
(* ones.  Ledger n is entry n of the log, with one event or none.          *)
(***************************************************************************)
EXTENDS Integers, Sequences, FiniteSets

CONSTANTS
    Traders,
    Sizes, Profits,     \* the notionals and realized_pnl of an instance
    LOOKBACK_WINDOWS,   \* in ledgers, largest first
    EVENTS_PAGE_LIMIT, MAX_PAGES,
    Retained,           \* the ledgers whose events the node keeps
    MaxLedgers,         \* bound of an instance on the log
    MaxFetches,         \* on the runs of the query
    MaxLapses           \* and on failed requests

ASSUME BoardAssumption ==
    /\ IsFiniteSet(Traders)
    /\ Sizes \subseteq Nat \ {0} /\ Profits \subseteq Int
    /\ LOOKBACK_WINDOWS \in Seq(Nat) \ {<<>>}
    /\ {EVENTS_PAGE_LIMIT, MAX_PAGES, Retained} \subseteq Nat \ {0}
    /\ {MaxLedgers, MaxFetches, MaxLapses} \subseteq Nat

VARIABLES
    log,
    stage,    \* "idle", "probe" or "page"
    latest,   \* the ledger getLatestLedger answered
    probes,   \* the windows still to try
    span,     \* the ledgers ingested: [first, cursor], first is 0 before any
    page,     \* the pages read since the first
    rows,     \* rows[t]: EmptyRow for a trader without an event
    stats,
    board,    \* what the query last returned
    fetches, lapses

boardVars ==
    <<log, stage, latest, probes, span, page, rows, stats, board, fetches, lapses>>

EmptyRow ==
    [volume |-> 0, realizedPnl |-> 0, trades |-> 0, wins |-> 0, closed |-> 0,
     liquidations |-> 0]
NoStats == [volume |-> 0, trades |-> 0, closed |-> 0, liquidations |-> 0, netPnl |-> 0]
NoRows == [t \in Traders |-> EmptyRow]
NoSpan == [first |-> 0, cursor |-> 0]
NoBoard ==
    [ranking |-> <<>>, rows |-> NoRows, stats |-> NoStats, traders |-> 0, span |-> NoSpan,
     latest |-> 0, drained |-> FALSE]

BoardInit ==
    /\ log = <<>>
    /\ stage = "idle"
    /\ latest = 0
    /\ probes = <<>>
    /\ span = NoSpan
    /\ page = 0
    /\ rows = NoRows /\ stats = NoStats
    /\ board = NoBoard
    /\ fetches = 0 /\ lapses = 0

---------------------------------------------------------------------------
(* The chain's events and the node that serves them.                       *)

Trade(name, t, amount) == [name |-> name, trader |-> t, amount |-> amount]
\* The first topic of a funding update is a market: no trader.
Trades ==
    {Trade("position_opened", t, n) : t \in Traders, n \in Sizes}
    \cup {Trade("position_closed", t, p) : t \in Traders, p \in Profits}
    \cup {Trade("position_liquidated", t, 0) : t \in Traders}
Quiet == [name |-> "none"]
Funding == [name |-> "funding_updated"]

Emit ==
    /\ Len(log) < MaxLedgers
    /\ \E e \in Trades \cup {Quiet, Funding} : log' = Append(log, e)
    /\ UNCHANGED <<stage, latest, probes, span, page, rows, stats, board, fetches, lapses>>

IsTrade(n) == log[n].name \notin {"none", "funding_updated"}

Greatest(S) == CHOOSE x \in S : \A y \in S : y <= x

OldestKept == Greatest({1, Len(log) - Retained + 1})

EventsFrom(n) == {k \in n .. Len(log) : log[k].name # "none"}

\* The first EVENTS_PAGE_LIMIT of them.
PageFrom(n) ==
    {k \in EventsFrom(n) : Cardinality({j \in EventsFrom(n) : j < k}) < EVENTS_PAGE_LIMIT}

Full(events) == Cardinality(events) = EVENTS_PAGE_LIMIT

\* A full page ends at its last event, another one at the end of the log.
CursorAfter(events) == IF Full(events) THEN Greatest(events) ELSE Len(log)

Lapse == lapses < MaxLapses /\ lapses' = lapses + 1

---------------------------------------------------------------------------
(* fetchLeaderboard.                                                       *)

\* ingest, on one row.
RowAfter(r, e) ==
    CASE e.name = "position_opened" ->
           [r EXCEPT !.volume = @ + e.amount, !.trades = @ + 1]
      [] e.name = "position_closed" ->
           [r EXCEPT !.realizedPnl = @ + e.amount, !.closed = @ + 1,
                     !.wins = @ + (IF e.amount > 0 THEN 1 ELSE 0)]
      [] e.name = "position_liquidated" -> [r EXCEPT !.liquidations = @ + 1]

\* ingest, on the totals.
StatsAfter(s, e) ==
    CASE e.name = "position_opened" ->
           [s EXCEPT !.volume = @ + e.amount, !.trades = @ + 1]
      [] e.name = "position_closed" ->
           [s EXCEPT !.closed = @ + 1, !.netPnl = @ + e.amount]
      [] e.name = "position_liquidated" -> [s EXCEPT !.liquidations = @ + 1]

\* Rows and totals after one trade.
Counted(sums, e) ==
    [rows |-> [sums.rows EXCEPT ![e.trader] = RowAfter(@, e)],
     stats |-> StatsAfter(sums.stats, e)]

\* Rows and totals after the trades of a page, in the order of their ledgers.
Ingested(events) ==
    LET after[n \in 0 .. Len(log)] ==
            IF n = 0 THEN [rows |-> rows, stats |-> stats]
            ELSE IF n \in events /\ IsTrade(n) THEN Counted(after[n - 1], log[n])
            ELSE after[n - 1]
    IN  after[Len(log)]

Ingest(events) ==
    /\ rows' = Ingested(events).rows
    /\ stats' = Ingested(events).stats

\* The better rank: more profit, then more volume.
Outranks(all, s, t) ==
    \/ all[s].realizedPnl > all[t].realizedPnl
    \/ all[s].realizedPnl = all[t].realizedPnl /\ all[s].volume > all[t].volume

\* The traders, none before one that outranks it.
Ranking(all, traders) ==
    CHOOSE order \in [1 .. Cardinality(traders) -> traders] :
        \A i, j \in DOMAIN order :
            i < j => order[i] # order[j] /\ ~Outranks(all, order[j], order[i])

Publish(covered, drained) ==
    LET seen == {t \in Traders : rows'[t] # EmptyRow} IN
    /\ stage' = "idle"
    /\ board' = [ranking |-> Ranking(rows', seen),
                 rows |-> rows', stats |-> stats', traders |-> Cardinality(seen),
                 span |-> covered, latest |-> latest, drained |-> drained]

\* A fetch starts from nothing; an instance follows MaxFetches of them.
Fetch ==
    /\ stage = "idle"
    /\ fetches < MaxFetches
    /\ fetches' = fetches + 1
    /\ stage' = "probe"
    /\ latest' = Len(log)
    /\ probes' = LOOKBACK_WINDOWS
    /\ span' = NoSpan
    /\ page' = 0
    /\ rows' = NoRows /\ stats' = NoStats
    /\ UNCHANGED <<log, board, lapses>>

StartLedger == Greatest({1, latest - Head(probes)})

Served(n) == n \in OldestKept .. Len(log)

\* Nothing there: the next window, or an empty board after the last.
NextWindow ==
    /\ probes' = Tail(probes)
    /\ UNCHANGED <<span, page, rows, stats>>
    /\ IF Tail(probes) = <<>> THEN Publish(span, FALSE) ELSE UNCHANGED <<stage, board>>

\* Mutation: the search goes on after the first window that has events.
FirstPage_Again(events) ==
    /\ Ingest(events)
    /\ span' = [first |-> StartLedger, cursor |-> CursorAfter(events)]
    /\ probes' = Tail(probes)
    /\ UNCHANGED page
    /\ IF Tail(probes) # <<>> THEN UNCHANGED <<stage, board>>
       ELSE IF Full(events) THEN stage' = "page" /\ UNCHANGED board
       ELSE Publish(span', TRUE)

FirstPage(events) ==
    /\ Ingest(events)
    /\ span' = [first |-> StartLedger, cursor |-> CursorAfter(events)]
    /\ probes' = <<>>
    /\ UNCHANGED page
    /\ IF Full(events) THEN stage' = "page" /\ UNCHANGED board
       ELSE Publish(span', TRUE)

Probe ==
    /\ stage = "probe"
    /\ \/ /\ Served(StartLedger) /\ EventsFrom(StartLedger) # {}
          /\ FirstPage(PageFrom(StartLedger))
          /\ UNCHANGED lapses
       \/ /\ IF Served(StartLedger) /\ EventsFrom(StartLedger) # {}
             THEN Lapse ELSE UNCHANGED lapses
          /\ NextWindow
    /\ UNCHANGED <<log, latest, fetches>>

NextPage ==
    LET events == PageFrom(span.cursor + 1) IN
    /\ stage = "page"
    /\ OldestKept <= span.cursor + 1
    /\ Ingest(events)
    /\ span' = [span EXCEPT !.cursor = CursorAfter(events)]
    /\ page' = page + 1
    /\ IF ~Full(events) THEN Publish(span', TRUE)
       ELSE IF page + 1 = MAX_PAGES THEN Publish(span', FALSE)
       ELSE UNCHANGED <<stage, board>>
    /\ UNCHANGED <<log, latest, probes, fetches, lapses>>

\* The rows so far are shown.
PageFails ==
    /\ stage = "page"
    /\ IF OldestKept <= span.cursor + 1 THEN Lapse ELSE UNCHANGED lapses
    /\ UNCHANGED <<log, latest, probes, span, page, rows, stats, fetches>>
    /\ Publish(span, FALSE)

BoardNext == Emit \/ Fetch \/ Probe \/ NextPage \/ PageFails

BoardSpec == BoardInit /\ [][BoardNext]_boardVars

---------------------------------------------------------------------------
(* Properties.                                                             *)

\* The trades between two ledgers, and those of one kind by some traders.
TradesIn(s) == {n \in s.first .. s.cursor : s.first # 0 /\ IsTrade(n)}
Kind(name, who, ns) == {n \in ns : log[n].name = name /\ log[n].trader \in who}

TotalOf(ns) ==
    LET sum[n \in 0 .. Len(log)] ==
            IF n = 0 THEN 0 ELSE sum[n - 1] + (IF n \in ns THEN log[n].amount ELSE 0)
    IN  sum[Len(log)]

RowOf(t, ns) ==
    LET opened == Kind("position_opened", {t}, ns)
        closed == Kind("position_closed", {t}, ns)
    IN  [volume |-> TotalOf(opened), realizedPnl |-> TotalOf(closed),
         trades |-> Cardinality(opened),
         wins |-> Cardinality({n \in closed : log[n].amount > 0}),
         closed |-> Cardinality(closed),
         liquidations |-> Cardinality(Kind("position_liquidated", {t}, ns))]

StatsOf(ns) ==
    LET opened == Kind("position_opened", Traders, ns)
        closed == Kind("position_closed", Traders, ns)
    IN  [volume |-> TotalOf(opened), trades |-> Cardinality(opened),
         closed |-> Cardinality(closed),
         liquidations |-> Cardinality(Kind("position_liquidated", Traders, ns)),
         netPnl |-> TotalOf(closed)]

\* The published board counts every event of one contiguous range of ledgers
\* once, whatever was appended and forgotten while it was read; rows and totals
\* agree; it ranks every trader it saw, once and in order; and unless it was cut
\* short it goes up to the latest ledger of its beginning.
BoardCountsOnce ==
    LET ns == TradesIn(board.span) IN
    /\ board.rows = [t \in Traders |-> RowOf(t, ns)]
    /\ board.stats = StatsOf(ns)
    /\ Len(board.ranking) = board.traders
    /\ \A i, j \in DOMAIN board.ranking :
          i < j => /\ board.ranking[i] # board.ranking[j]
                   /\ ~Outranks(board.rows, board.ranking[j], board.ranking[i])
    /\ board.drained => board.span.cursor >= board.latest

=============================================================================
