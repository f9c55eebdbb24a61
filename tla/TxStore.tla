------------------------------ MODULE TxStore -------------------------------
(***************************************************************************)
(* The web app's writes: the transaction store, the client's build,        *)
(* simulate, sign, send and poll, the wallet, and the node's queue, which  *)
(* holds one transaction of an account at a time.  Every await is a step,  *)
(* so writes of one page, the chain and the network interleave.            *)
(***************************************************************************)
EXTENDS WebForms, Sequences

CONSTANTS
    Unfunded,    \* the addresses without an account on the network yet
    MaxRecords,  \* the 50 of slice(0, 50)
    MaxWrites,   \* bound of an instance on the writes a user starts
    MaxFaults,   \* and on lost RPC answers
    MaxMoves     \* and on what happens on the chain meanwhile

ASSUME TxAssumption ==
    /\ Unfunded \subseteq Users
    /\ MaxRecords \in Nat \ {0}
    /\ {MaxWrites, MaxFaults, MaxMoves} \subseteq Nat

VARIABLES
    writes,   \* writes[i]: the i-th run of a call, its record and its progress
    txs,      \* the store's list, newest first
    queue,    \* queue[u]: the write whose transaction the node holds for u, or 0
    lastSeq,  \* lastSeq[u]: the sequence number of account u, 0 without an account
    landed,   \* landed[i]: what the ledger says of the transaction write i sent
    faults, moves

txVars == <<writes, txs, queue, lastSeq, landed, faults, moves>>
webVars == <<chainVars, wallet, view, txVars>>

Ids == 1 .. MaxWrites
Started == DOMAIN writes

\* status and error are the record's; account, seq and tx are run's and
\* invokeContract's locals, prepared says that the simulation is behind it.  tx is
\* the write that sent the transaction first, its hash.  retried is kept for the
\* properties: the write a retry sends again, or 0.
NewWrite(call, status, error, retried) ==
    [call |-> call, status |-> status, error |-> error, account |-> wallet, seq |-> 0,
     prepared |-> FALSE, tx |-> 0, retried |-> retried]

Statuses == {"signing", "pending", "confirmed", "failed"}
Errors == {"none", "refused", "lost"}
In(i, status) == i \in Started /\ writes[i].status = status
\* The run's await: getAccount, simulateTransaction, the wallet, getTransaction.
Building(i) == In(i, "signing") /\ writes[i].seq = 0
Simulating(i) == In(i, "signing") /\ writes[i].seq # 0 /\ ~writes[i].prepared
Signing(i) == In(i, "signing") /\ writes[i].prepared
Polling(i) == In(i, "pending")

WebInit ==
    /\ Init
    /\ wallet = NoUser
    /\ view = EmptyView
    /\ writes = <<>> /\ txs = <<>>
    /\ queue = [u \in Users |-> 0]
    /\ lastSeq = [u \in Users |-> IF u \in Unfunded THEN 0 ELSE 1]
    /\ landed = [i \in Ids |-> "no"]
    /\ faults = 0 /\ moves = 0

Fault == faults < MaxFaults /\ faults' = faults + 1

---------------------------------------------------------------------------
(* The store.                                                              *)

Put(i, w) == writes' = [writes EXCEPT ![i] = w]
Confirmed(i) == [writes[i] EXCEPT !.status = "confirmed"]
Failed(i, error) == [writes[i] EXCEPT !.status = "failed", !.error = error]

\* Mutation: the list is never cut.
Push_Uncut(i) == txs' = <<i>> \o txs

Push(i) == txs' = SubSeq(<<i>> \o txs, 1, MinOf(Len(txs) + 1, MaxRecords))

\* run fails at once without a wallet.
Start(call, retried) ==
    LET i == Len(writes) + 1 IN
    /\ i <= MaxWrites
    /\ writes' = Append(writes,
          IF wallet = NoUser THEN NewWrite(call, "failed", "refused", retried)
          ELSE NewWrite(call, "signing", "none", retried))
    /\ Push(i)
    /\ UNCHANGED <<chainVars, wallet, view, queue, lastSeq, landed, faults, moves>>

AccountExists(u) == lastSeq[u] # 0

\* GetFundsButton mints only once the account is there.
Submit ==
    /\ wallet # NoUser
    /\ \E call \in FormCalls(wallet) :
          /\ call.method = "faucet" => AccountExists(wallet)
          /\ Start(call, 0)

\* Mutation: a record can be retried whatever became of it.
CanRetry_Any(i) == TRUE

CanRetry(i) == writes[i].status = "failed"

\* The stored call goes out again as it is, from whatever wallet is connected.
Retry ==
    \E k \in DOMAIN txs :
        /\ CanRetry(txs[k])
        /\ Start(writes[txs[k]].call, txs[k])

Clear ==
    /\ txs # <<>>
    /\ txs' = <<>>
    /\ UNCHANGED <<chainVars, wallet, view, writes, queue, lastSeq, landed, faults, moves>>

---------------------------------------------------------------------------
(* invokeContract.                                                         *)

\* getAccount fails without an account.
GetAccount(i) ==
    LET u == writes[i].account IN
    /\ Building(i)
    /\ \/ /\ AccountExists(u)
          /\ Put(i, [writes[i] EXCEPT !.seq = lastSeq[u] + 1])
          /\ UNCHANGED faults
       \/ /\ IF AccountExists(u) THEN Fault ELSE UNCHANGED faults
          /\ Put(i, Failed(i, "refused"))
    /\ UNCHANGED <<chainVars, wallet, view, txs, queue, lastSeq, landed, moves>>

\* The simulation records the authorisations a call needs, it does not check
\* them, nor the account's number, which may have been used meanwhile.
Simulate(i) ==
    LET taken == EngineTakes(writes[i].call) IN
    /\ Simulating(i)
    /\ \/ /\ taken
          /\ Put(i, [writes[i] EXCEPT !.prepared = TRUE])
          /\ UNCHANGED faults
       \/ /\ IF taken THEN Fault ELSE UNCHANGED faults
          /\ Put(i, Failed(i, "refused"))
    /\ UNCHANGED <<chainVars, wallet, view, txs, queue, lastSeq, landed, moves>>

Reject(i) ==
    /\ Signing(i)
    /\ Put(i, Failed(i, "refused"))
    /\ UNCHANGED <<chainVars, wallet, view, txs, queue, lastSeq, landed, faults, moves>>

Sent(i, tx) == [writes[i] EXCEPT !.status = "pending", !.tx = tx]

\* Two builds of one call with one number, within a second, are one transaction.
SameTx(i, j) ==
    /\ j # 0
    /\ writes[i].call = writes[j].call
    /\ writes[i].account = writes[j].account /\ writes[i].seq = writes[j].seq

\* The node's answer: PENDING, DUPLICATE, TRY_AGAIN_LATER (the queue is taken),
\* or ERROR (the number was used, the time bounds passed).  onHash announces
\* the hash on every answer but ERROR.
Send(i) ==
    LET u == writes[i].account IN
    /\ Signing(i)
    /\ \/ /\ queue[u] = 0 /\ writes[i].seq = lastSeq[u] + 1
          /\ queue' = [queue EXCEPT ![u] = i]
          /\ \/ Put(i, Sent(i, i)) /\ UNCHANGED faults
             \/ Put(i, [Failed(i, "lost") EXCEPT !.tx = i]) /\ Fault
       \/ /\ SameTx(i, queue[u])
          /\ Put(i, Sent(i, queue[u]))
          /\ UNCHANGED <<queue, faults>>
       \/ /\ queue[u] # 0 /\ ~SameTx(i, queue[u])
          /\ Put(i, Sent(i, i))
          /\ UNCHANGED <<queue, faults>>
       \/ /\ Put(i, Failed(i, "refused"))
          /\ UNCHANGED <<queue, faults>>
       \/ /\ Put(i, Failed(i, "lost"))
          /\ Fault
          /\ UNCHANGED queue
    /\ UNCHANGED <<chainVars, wallet, view, txs, lastSeq, landed, moves>>

\* Mutation: what the node does not know yet counts as done.
Poll_Optimistic(i) ==
    /\ Polling(i)
    /\ Put(i, IF landed[writes[i].tx] = "failed" THEN Failed(i, "refused")
              ELSE Confirmed(i))
    /\ UNCHANGED <<chainVars, wallet, view, txs, queue, lastSeq, landed, faults, moves>>

\* getTransaction until it knows, 40 times.  Its minute is shorter than the
\* transaction's two.
Poll(i) ==
    LET known == landed[writes[i].tx] IN
    /\ Polling(i)
    /\ \/ /\ known = "success"
          /\ Put(i, Confirmed(i))
          /\ UNCHANGED faults
       \/ /\ known = "failed"
          /\ Put(i, Failed(i, "refused"))
          /\ UNCHANGED faults
       \/ /\ IF known = "no" THEN UNCHANGED faults ELSE Fault
          /\ Put(i, Failed(i, "lost"))
    /\ UNCHANGED <<chainVars, wallet, view, txs, queue, lastSeq, landed, moves>>

---------------------------------------------------------------------------
(* The page and the wallet.                                                *)

\* The first half of GetFundsButton: friendbot creates the account.
Friendbot ==
    /\ wallet # NoUser /\ ~AccountExists(wallet)
    /\ lastSeq' = [lastSeq EXCEPT ![wallet] = 1]
    /\ UNCHANGED <<chainVars, wallet, view, writes, txs, queue, landed, faults, moves>>

\* The cache keeps the answers for an address nobody looks at for five minutes.
Connect ==
    /\ \E u \in Users \ {wallet} :
          /\ wallet' = u
          /\ view' \in {view, [view EXCEPT !.account[u] = EmptyAccount]}
    /\ UNCHANGED <<chainVars, txVars>>

Disconnect ==
    /\ wallet # NoUser
    /\ wallet' = NoUser
    /\ UNCHANGED <<chainVars, view, txVars>>

\* The list, the runs and the cache live in memory, the wallet in localStorage.
Reload ==
    /\ txs' = <<>>
    /\ view' = EmptyView
    /\ writes' = [i \in Started |->
          IF writes[i].status \in {"signing", "pending"}
          THEN [writes[i] EXCEPT !.status = "dropped"] ELSE writes[i]]
    /\ UNCHANGED <<chainVars, wallet, queue, lastSeq, landed, faults, moves>>

\* The queries' intervals and the ticker's.
Queries == (Refetch \/ Tick) /\ UNCHANGED txVars

---------------------------------------------------------------------------
(* The network.                                                            *)

\* The faucet mints to anybody; every other call needs its trader's signature.
Authorized(w) == w.call.method = "faucet" \/ w.account = w.call.trader

\* The contracts take a call they would take from the simulation, if it is signed.
Include(u) ==
    LET w == writes[queue[u]] IN
    /\ queue[u] # 0
    /\ IF Authorized(w) /\ EngineTakes(w.call)
       THEN Execute(w.call) /\ landed' = [landed EXCEPT ![queue[u]] = "success"]
       ELSE UNCHANGED chainVars /\ landed' = [landed EXCEPT ![queue[u]] = "failed"]
    /\ lastSeq' = [lastSeq EXCEPT ![u] = @ + 1]
    /\ queue' = [queue EXCEPT ![u] = 0]
    /\ UNCHANGED <<wallet, view, writes, txs, faults, moves>>

\* Its time bounds pass.
Expire(u) ==
    /\ queue[u] # 0
    /\ queue' = [queue EXCEPT ![u] = 0]
    /\ UNCHANGED <<chainVars, wallet, view, writes, txs, lastSeq, landed, faults, moves>>

\* Prices, keepers, admins and other LPs.
Others ==
    /\ moves < MaxMoves
    /\ moves' = moves + 1
    /\ \/ PriceMove
       \/ KeeperNext
       \/ (Pause(Admin) \/ Unpause(Admin)) /\ UNCHANGED <<tokenVars, vaultVars, engineVars, price>>
       \/ \E u \in Users, a \in Amounts : InVault(AddLiquidity(u, a))
    /\ UNCHANGED <<wallet, view, writes, txs, queue, lastSeq, landed, faults>>

WebNext ==
    \/ Submit \/ Retry \/ Clear \/ Connect \/ Disconnect \/ Reload \/ Queries \/ Friendbot
    \/ \E i \in Ids : GetAccount(i) \/ Simulate(i) \/ Reject(i) \/ Send(i) \/ Poll(i)
    \/ \E u \in Users : Include(u) \/ Expire(u)
    \/ Others

\* The polling loop runs to its end: each getTransaction answers or rejects.
\* Nothing is assumed of users, of the network and of the chain.
WebSpec == WebInit /\ [][WebNext]_webVars /\ \A i \in Ids : WF_webVars(Poll(i))

---------------------------------------------------------------------------
(* Properties.                                                             *)

\* The list holds runs of this page, newest first, once each and at most
\* MaxRecords; a record has an error exactly when it failed; the node's queue
\* holds a transaction that was sent for its account and has not landed.
TxTypeOK ==
    /\ wallet \in Users \cup {NoUser}
    /\ Len(txs) <= MaxRecords
    /\ \A k, l \in DOMAIN txs : txs[k] \in Started /\ (k < l => txs[k] > txs[l])
    /\ \A i \in Started :
          /\ writes[i].status \in Statuses \cup {"dropped"} /\ writes[i].error \in Errors
          /\ writes[i].error # "none" <=> writes[i].status = "failed"
          /\ writes[i].status \in {"pending", "confirmed"} => writes[i].tx \in Started
    /\ \A u \in Users : queue[u] # 0 =>
          /\ writes[queue[u]].account = u
          /\ writes[queue[u]].seq = lastSeq[u] + 1
          /\ landed[queue[u]] = "no"
    /\ landed \in [Ids -> {"no", "success", "failed"}]
    /\ faults \in 0 .. MaxFaults /\ moves \in 0 .. MaxMoves

Applied(i) == i \in Started /\ writes[i].tx # 0 /\ landed[writes[i].tx] = "success"

Lifecycle == INSTANCE TxLifecycle WITH
    status <- [i \in Ids |->
        IF i \notin Started THEN "none"
        ELSE IF writes[i].status = "failed" THEN writes[i].error ELSE writes[i].status],
    applied <- [i \in Ids |-> Applied(i)]

\* "Every write goes through one lifecycle: sign, submit, confirm", as
\* TxLifecycle states it, through lost answers, a taken queue, reused numbers,
\* cleared and overflowing lists and reloads.
LifecycleRefines == Lifecycle!Spec

\* A retry trades a second time only if the record it was made from had said
\* that the outcome was not known: what the store reports as refused was not
\* applied when it said so, and is not applied later.
RetryDoublesOnlyLost ==
    \A j \in Started :
        LET i == writes[j].retried IN
        (i # 0 /\ Applied(i) /\ Applied(j) /\ writes[i].tx # writes[j].tx)
            => writes[i].error = "lost"

=============================================================================
