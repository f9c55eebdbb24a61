------------------------------- MODULE Keeper -------------------------------
(***************************************************************************)
(* The keeper process: boot, the cycle (funding, event sync, orders,       *)
(* liquidations), the save at its end, SIGTERM, once mode, and crashes.    *)
(* Every await is a step of its own: traders, prices and other keepers     *)
(* move between any two of them.  The prices a keeper may write at the     *)
(* head of a cycle are PriceRelay's subject; here the market moves them.   *)
(***************************************************************************)
EXTENDS KeeperIndexer, KeeperConfig

CONSTANTS
    Markets,     \* MARKETS
    MaxFaults,   \* bound of an instance on RPC errors, failed saves and crashes
    NoTx

ASSUME KeeperAssumption == MaxFaults \in Nat

VARIABLES
    env,       \* the environment of the process, fixed
    pc,        \* "off", "idle" between cycles, or the cycle's phase
    todo,      \* what the phase's for loop has still to visit
    view,      \* the position last read underwater, 0 when none is in hand
    stopping,  \* a SIGTERM was received, or the process runs one cycle only
    late,      \* a transaction of the keeper whose outcome it did not wait for
    faults

processVars == <<pc, todo, view, stopping>>
vars == <<chainVars, indexerVars, processVars, env, late, faults>>

config == LoadConfig(env)

Phases == {"funding", "sync", "orders", "scan", "save"}
Txs == [method : {"update_funding"}, arg : Markets]
         \cup [method : {"execute_order"}, arg : OrderIds]
         \cup [method : {"liquidate"}, arg : PositionIds]

\* The state the process keeps has the shape its types say, it runs only under
\* a configuration loadConfig accepts, and it never waits for an answer it has
\* not asked for.
KeeperTypeOK ==
    /\ ChainTypeOK
    /\ mem \in PersistedState /\ disk \in PersistedState
    /\ anchor \in Nat /\ pages \in 0 .. MaxPagesPerCycle - 1
    /\ pc \in {"off", "idle"} \cup Phases
    /\ pc # "off" => LoadConfigOK(env)
    /\ CASE pc = "funding" -> todo \subseteq Markets
         [] pc = "orders" -> todo \subseteq OrderIds
         [] pc = "scan" -> todo \subseteq PositionIds
         [] OTHER -> todo = {}
    /\ view \in {0} \cup todo
    /\ pc # "sync" => anchor = 0 /\ pages = 0
    /\ stopping \in BOOLEAN
    /\ late \in Txs \cup {NoTx}
    /\ faults \in 0 .. MaxFaults

Init ==
    /\ ChainInit
    /\ IndexerInit
    /\ env \in Envs
    /\ pc = "off"
    /\ todo = {}
    /\ view = 0
    /\ stopping = FALSE
    /\ late = NoTx
    /\ faults = 0

Fault ==
    /\ faults < MaxFaults
    /\ faults' = faults + 1

Enter(phase, items) == pc' = phase /\ todo' = items /\ view' = 0

\* The loop's next item, or the next phase that awaits anything: nothing
\* interrupts the way from one await to the next.
GoOn(phase, rest, m) ==
    IF rest # {} THEN Enter(phase, rest)
    ELSE CASE phase = "funding" -> Enter("sync", {})
           [] phase = "orders" /\ m.ids # {} -> Enter("scan", m.ids)
           [] OTHER -> Enter("save", {})

---------------------------------------------------------------------------
(* A transaction of the keeper.  The node holds one transaction of an      *)
(* account at a time, so a send while one is outstanding is refused.       *)

Tx(method, arg) == [method |-> method, arg |-> arg]

Succeeds(tx) ==
    CASE tx.method = "execute_order" -> CanExecute(tx.arg)
      [] tx.method = "liquidate" -> position[tx.arg] = "underwater"
      [] OTHER -> TRUE

\* Beyond MaxLog a funding event is not recorded: the indexer ignores it.
Effect(tx) ==
    CASE tx.method = "execute_order" -> ExecuteOrder(tx.arg)
      [] tx.method = "liquidate" -> Liquidate(tx.arg)
      [] OTHER -> IF Len(log) < MaxLog THEN EmitOther ELSE UNCHANGED chainVars

\* NotLiquidatable and OrderNotTriggerable are told from other errors for the
\* cycle's counters only.
Refused(tx) == ~Succeeds(tx)

\* invoke returns, or throws: the simulation reverts, the send is refused, or
\* an RPC call fails before anything is sent, or the transaction is sent and
\* its outcome is never seen.  Each caller catches, so the loop goes on alike.
Invoke(tx) ==
    \/ /\ late = NoTx /\ Succeeds(tx)
       /\ Effect(tx)
       /\ UNCHANGED <<late, faults>>
    \/ /\ late # NoTx \/ Refused(tx)
       /\ UNCHANGED <<chainVars, late, faults>>
    \/ /\ Fault
       /\ \/ UNCHANGED late
          \/ late = NoTx /\ Succeeds(tx) /\ late' = tx
       /\ UNCHANGED chainVars

\* The outstanding transaction is applied, fails, or outlives its time bounds.
SettleLate ==
    /\ late # NoTx
    /\ \/ Succeeds(late) /\ Effect(late)
       \/ UNCHANGED chainVars
    /\ late' = NoTx
    /\ UNCHANGED <<indexerVars, processVars, env, faults>>

---------------------------------------------------------------------------
(* Boot, shutdown, crash.                                                  *)

Boot ==
    /\ pc = "off"
    /\ LoadConfigOK(env)
    /\ Load
    /\ Enter("funding", Markets)
    /\ stopping' \in BOOLEAN  \* TRUE: `once` on the command line
    /\ UNCHANGED <<chainVars, disk, anchor, pages, env, late, faults>>

\* setTimeout's callback.
Tick ==
    /\ pc = "idle"
    /\ Enter("funding", Markets)
    /\ UNCHANGED <<chainVars, indexerVars, env, stopping, late, faults>>

Stop == pc' = "off" /\ mem' = Cold /\ stopping' = FALSE

\* A cycle in flight runs to its end; an idle loop ends at once.
Shutdown ==
    /\ pc # "off" /\ ~stopping
    /\ IF pc = "idle" THEN Stop ELSE stopping' = TRUE /\ UNCHANGED <<pc, mem>>
    /\ UNCHANGED <<chainVars, disk, anchor, pages, todo, view, env, late, faults>>

Crash ==
    /\ pc # "off"
    /\ Fault
    /\ Enter("off", {})
    /\ mem' = Cold
    /\ anchor' = 0 /\ pages' = 0
    /\ stopping' = FALSE
    /\ UNCHANGED <<chainVars, disk, env, late>>

---------------------------------------------------------------------------
(* The cycle.                                                              *)

UpdateFunding(m) ==
    /\ pc = "funding" /\ m \in todo
    /\ Invoke(Tx("update_funding", m))
    /\ GoOn("funding", todo \ {m}, mem)
    /\ UNCHANGED <<indexerVars, stopping, env>>

\* Mutation: the page count is never started again.
EndSync_PagesKept ==
    /\ anchor' = 0
    /\ pages' = pages + 1
    /\ GoOn("orders", mem'.orders, mem')

EndSync ==
    /\ anchor' = 0
    /\ pages' = 0
    /\ GoOn("orders", mem'.orders, mem')

\* buildRequest's getLatestLedger: sync rejects when it fails, and runCycle
\* goes on with the ids of the last cycle.
FindLatest ==
    /\ pc = "sync" /\ NeedsAnchor
    /\ \/ /\ anchor' = ColdStart(config.eventLookbackLedgers)
          /\ UNCHANGED <<pages, processVars, mem, faults>>
       \/ /\ Fault
          /\ UNCHANGED <<mem, stopping>>
          /\ EndSync
    /\ UNCHANGED <<chainVars, disk, env, late>>

\* No await separates applying a page from the save that follows the last one.
GetEvents ==
    /\ pc = "sync" /\ ~NeedsAnchor
    /\ IsServed(RequestFrom)
    /\ mem' = Consume(RequestFrom)
    /\ IF LastPage(RequestFrom)
       THEN /\ \/ Save(mem') /\ UNCHANGED faults
               \/ SaveFails /\ Fault
            /\ EndSync
       ELSE /\ pages' = pages + 1
            /\ anchor' = 0
            /\ UNCHANGED <<disk, pc, todo, view, faults>>
    /\ UNCHANGED <<chainVars, stopping, env, late>>

GetEventsFails ==
    /\ pc = "sync" /\ ~NeedsAnchor
    /\ IF IsServed(RequestFrom) THEN Fault ELSE UNCHANGED faults
    /\ mem' = AfterFailure
    /\ EndSync
    /\ UNCHANGED <<chainVars, disk, stopping, env, late>>

\* execute_order checks the trigger itself, so every tracked order is tried.
TryOrder(o) ==
    /\ pc = "orders" /\ o \in todo
    /\ Invoke(Tx("execute_order", o))
    /\ GoOn("orders", todo \ {o}, mem)
    /\ UNCHANGED <<indexerVars, stopping, env>>

\* The simulation of position_view traps on a position that is gone.
ReadOK(i) == Live(i)

\* view.equity < view.maintenance_margin
IsUnderwater(i) == position[i] = "underwater"

\* Absent positions and RPC errors are skipped alike.
ReadView(i) ==
    /\ pc = "scan" /\ i \in todo /\ view = 0
    /\ \/ /\ ReadOK(i) /\ IsUnderwater(i)
          /\ view' = i
          /\ UNCHANGED <<pc, todo, faults>>
       \/ /\ \/ ~(ReadOK(i) /\ IsUnderwater(i)) /\ UNCHANGED faults
             \/ Fault
          /\ GoOn("scan", todo \ {i}, mem)
    /\ UNCHANGED <<chainVars, indexerVars, stopping, env, late>>

\* The position may have recovered, or gone, since its view was read.
TryLiquidate ==
    /\ pc = "scan" /\ view # 0
    /\ Invoke(Tx("liquidate", view))
    /\ GoOn("scan", todo \ {view}, mem)
    /\ UNCHANGED <<indexerVars, stopping, env>>

\* Mutation: the next tick is scheduled without a look at `stopping`.
EndCycle_Restart ==
    /\ pc = "save"
    /\ \/ Save(mem) /\ UNCHANGED faults
       \/ SaveFails /\ Fault
    /\ Enter("idle", {})
    /\ UNCHANGED <<chainVars, mem, anchor, pages, stopping, env, late>>

\* tick's finally, or the end of once mode.
EndCycle ==
    /\ pc = "save"
    /\ \/ Save(mem) /\ UNCHANGED faults
       \/ SaveFails /\ Fault
    /\ todo' = {} /\ view' = 0
    /\ IF stopping THEN Stop ELSE pc' = "idle" /\ UNCHANGED <<mem, stopping>>
    /\ UNCHANGED <<chainVars, anchor, pages, env, late>>

KeeperStep ==
    \/ Tick
    \/ \E m \in Markets : UpdateFunding(m)
    \/ FindLatest
    \/ GetEvents
    \/ GetEventsFails
    \/ \E o \in OrderIds : TryOrder(o)
    \/ \E i \in PositionIds : ReadView(i)
    \/ TryLiquidate
    \/ EndCycle

Environment ==
    /\ ChainNext
    /\ UNCHANGED <<indexerVars, processVars, env, late, faults>>

Next == KeeperStep \/ Boot \/ Shutdown \/ Crash \/ SettleLate \/ Environment

\* The process runs (the timer fires, awaits return or time out), whoever
\* supervises it starts it again, and the network settles a transaction within
\* its time bounds.  Nothing is assumed of traders, prices and other keepers.
Spec ==
    /\ Init /\ [][Next]_vars
    /\ WF_vars(KeeperStep \/ Boot) /\ WF_vars(SettleLate)

---------------------------------------------------------------------------
(* Properties.                                                             *)

\* The entries of the log between two ledgers that are about one id.
EventsOf(names, id, first, last) ==
    {n \in first .. last : log[n].name \in names /\ log[n].id = id}

\* What the set of ids says of the scanned ledgers: an id is in it exactly when
\* the last thing that happened to it there is that it opened.
Agrees(ids, all, opens, closes, state) ==
    \A id \in all :
        LET seen == EventsOf(opens \cup closes, id, state.from, state.cursor)
        IN  seen # {} =>
              (id \in ids <=> \E n \in seen : /\ log[n].name \in opens
                                              /\ \A k \in seen : k <= n)

\* However the pages fell, and whatever was re-read after a lost cursor or a
\* restart, the ids held and the ids persisted are the ones the events from the
\* start of the scan to the cursor say: none was skipped between two pages,
\* applied out of order, or saved under another cursor.
WindowFolded ==
    \A state \in {disk} \cup (IF pc = "off" THEN {} ELSE {mem}) :
        state.cursor # NoCursor =>
            /\ Agrees(state.ids, PositionIds, OPEN_EVENTS, CLOSE_EVENTS, state)
            /\ Agrees(state.orders, OrderIds, ORDER_OPEN_EVENTS, ORDER_CLOSE_EVENTS, state)

\* A position the keeper knows of stays known until it is gone from the chain:
\* through cold starts that no longer reach back to its opening, replayed
\* pages, failed saves, crashes and restarts.
LiveNeverDropped ==
    [][\A i \in PositionIds : Live(i) =>
          /\ i \in disk.ids => i \in disk'.ids
          /\ (pc # "off" /\ pc' # "off" /\ i \in mem.ids) => i \in mem'.ids]_vars

\* In reach of a cold start, or known already to the process and its file.
InReach(name, id, ids, saved) ==
    \/ \E n \in DOMAIN log : /\ log[n] = Event(name, id)
                             /\ n + config.eventLookbackLedgers >= Len(log)
    \/ id \in saved /\ (pc # "off" => id \in ids)

\* No position stays underwater forever while its opening is within the
\* lookback or its id is known, whichever cursor went stale, whichever RPC call
\* failed and whenever the process was killed.
PositionsServed ==
    \A i \in PositionIds :
        LoadConfigOK(env) =>
            []<>~(position[i] = "underwater"
                    /\ InReach("position_opened", i, mem.ids, disk.ids))

\* And no order whose trigger stays crossed is left unfilled forever.
OrdersServed ==
    \A o \in OrderIds :
        LoadConfigOK(env) =>
            []<>~(CanExecute(o) /\ InReach("order_placed", o, mem.orders, disk.orders))

\* A keeper told to stop stops, however long a cycle it is in the middle of.
ShutdownFinishes == (stopping /\ pc # "off") ~> (pc = "off")

\* "On a cold start (no cursor) we begin `eventLookbackLedgers` before the
\* latest ledger, clamped to the RPC's retained history": so a position whose
\* opening the node still serves does not stay underwater forever.
RetainedServed ==
    \A i \in PositionIds :
        LoadConfigOK(env) =>
            []<>~(/\ position[i] = "underwater"
                  /\ EventsOf(OPEN_EVENTS, i, OldestLedger, LatestLedger) # {})

=============================================================================
