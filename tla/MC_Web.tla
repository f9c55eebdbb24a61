------------------------------- MODULE MC_Web -------------------------------
(***************************************************************************)
(* The web app on small instances.  What the user looks at is fixed in a   *)
(* behaviour, so that three state spaces add up rather than multiply:      *)
(* "forms", one write at a time from every form on every state of the      *)
(* queries; "store", concurrent writes, wallets, reloads and lost answers  *)
(* from two of the forms; "board", the leaderboard.                        *)
(***************************************************************************)
EXTENDS TxStore, Leaderboard

CONSTANTS alice, bob, vault, xau, feed

VARIABLE looking

mcVars == <<webVars, boardVars, looking>>

MC_Users == {alice, bob}
MC_StartMarkets ==
    [m \in {xau} |->
        [feed |-> feed, max_leverage |-> 10, imr_bps |-> 1000, mmr_bps |-> 500,
         taker_fee_bps |-> 100, liquidation_fee_bps |-> 200, max_oi |-> 200,
         min_position_size |-> 20, max_funding_rate_bps |-> 1000, paused |-> FALSE]]
MC_StartPrice == [f \in {feed} |-> 94]
\* Alice trades, bob is the LP, the keeper and the admin.
MC_Endowment == [u \in MC_Users |-> IF u = alice THEN 30 ELSE 0]
MC_Windows == <<2, 1>>
MC_Size == 23
MC_Profits == {-3, 5}

Settled == \A i \in Started : ~In(i, "signing") /\ ~In(i, "pending")

\* The ticker goes to the end of its band, once there is a position to show.
TickerAtEnds ==
    view'.live # view.live =>
        \A f \in Feeds :
            LET a == view'.anchors[f] IN
            \/ view'.live[f] = a
            \/ Mine.positions # {} /\ \A p \in LiveBand(a) : view'.live[f] <= p

\* The queries of an account are answered in one order, after the vault's.
AnswersInOrder ==
    wallet # NoUser =>
        LET a == AccountAnswer(wallet) IN
        /\ Mine'.balance # Mine.balance => view.sharePrice = SharePrice
        /\ Mine'.shares # Mine.shares => Mine.balance = a.balance
        /\ Mine'.orders # Mine.orders => Mine.balance = a.balance /\ Mine.shares = a.shares
        /\ Mine'.positions # Mine.positions =>
              Mine.balance = a.balance /\ Mine.shares = a.shares /\ Mine.orders = a.orders

\* Alice's writes, each after the other.
FormsNext ==
    /\ \/ Settled /\ Len(writes) < 2 /\ (Submit \/ Queries \/ Connect \/ Friendbot)
       \/ \E i \in Ids : GetAccount(i) \/ Simulate(i) \/ Send(i) \/ Poll(i)
       \/ \E u \in Users : Include(u)
       \/ Settled /\ Len(writes) < 2 /\ Others
    /\ wallet' # bob
    /\ faults' = 0
    /\ TickerAtEnds
    /\ wallet' = wallet => AnswersInOrder

StoreWrite(w) ==
    /\ w.call.method = "open_position" /\ w.call.side = Long
    /\ w.call.notional = MC_Size /\ w.call.ref # 0

\* A faucet's only next write is its retry, from whatever wallet.
AfterFaucet(w) ==
    IF w.call.method = "faucet" THEN writes = <<>> \/ (Len(writes) = 1 /\ w.retried # 0)
    ELSE StoreWrite(w) /\ \A i \in Started : StoreWrite(writes[i])

\* The queries answer before the first write, the price as it is.  The third
\* write is a retry; the wallet does not change after the second.
StoreNext ==
    /\ WebNext
    /\ moves' = 0
    /\ view' # view => \/ writes = <<>> /\ view'.price \in {view.price, PriceAnswer}
                          /\ view'.sharePrice = 0
                          /\ (view'.live = view.live \/ view'.price # view.price)
                       \/ view' = EmptyView /\ ~Settled
    /\ wallet' # wallet => writes = <<>> \/ (Len(writes) = 1 /\ wallet' # alice)
    /\ Len(writes') > Len(writes) => AfterFaucet(writes'[Len(writes')])
    /\ Len(writes') = 3 => writes'[3].retried # 0

MCInit ==
    /\ WebInit /\ BoardInit
    /\ looking \in {"forms", "store", "board"}

MCNext ==
    /\ UNCHANGED looking
    /\ \/ looking = "forms" /\ FormsNext /\ UNCHANGED boardVars
       \/ looking = "store" /\ StoreNext /\ UNCHANGED boardVars
       \/ looking = "board" /\ BoardNext /\ UNCHANGED webVars

MCSpec == MCInit /\ [][MCNext]_mcVars /\ \A i \in Ids : WF_webVars(Poll(i))

=============================================================================
