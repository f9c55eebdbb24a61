-------------------------- MODULE CollateralVault ---------------------------
(***************************************************************************)
(* Custody of every USDC in the protocol.  Two pools share one token       *)
(* account: lp_cash, which LPs own through shares, and margin_pool, which  *)
(* the perp engine manages.  An entry point is one atomic transaction: a   *)
(* failed check reverts it, so its guards are conjuncts of the action.     *)
(*                                                                         *)
(* The custody calls are also given as operators on the pools and balances *)
(* (Can... for the checks, the past participle for the effect), because    *)
(* perp_engine makes several of them inside one transaction.               *)
(***************************************************************************)
EXTENDS MockUsdc

CONSTANTS
    ShareAmounts,  \* the share counts redeemers pass in an instance
    MaxShares      \* bound of an instance on the LP shares in existence

ASSUME ShareAssumption == ShareAmounts \subseteq Int /\ MaxShares \in Nat

VARIABLES
    engineSet,    \* the one-time wiring of perp_engine has been done
    pools,        \* [lp_cash, margin_pool]
    totalShares,
    shares        \* shares[u]: LP shares of u; an absent key reads as 0

vaultVars == <<engineSet, pools, totalShares, shares>>

\* Every variable of the vault and the token has its type: no pool, balance or share
\* count is negative.
VaultTypeOK ==
    /\ TokenTypeOK
    /\ engineSet \in BOOLEAN
    /\ pools \in [lp_cash : Nat, margin_pool : Nat]
    /\ totalShares \in Nat
    /\ shares \in [Users -> Nat]

VaultInit ==
    /\ balance = [a \in Accounts |-> 0]
    /\ totalSupply = 0
    /\ engineSet = FALSE
    /\ pools = [lp_cash |-> 0, margin_pool |-> 0]
    /\ totalShares = 0
    /\ shares = [u \in Users |-> 0]

TotalAssets(p) == p.lp_cash + p.margin_pool

-----------------------------------------------------------------------------
(* The custody calls as operators.                                         *)

\* Mutation: the check that LPs can fund the profit is forgotten.
CanMovePools_NoLiquidityCheck(p, margin, out) ==
    margin >= 0 /\ out >= 0 /\ p.margin_pool >= margin

CanMovePools(p, margin, out) ==
    /\ margin >= 0 /\ out >= 0
    /\ p.margin_pool >= margin
    /\ out - margin > 0 => p.lp_cash >= out - margin

\* Mutation: the whole payout is taken from the margin pool.
MovedPools_FromMargin(p, margin, out) ==
    [lp_cash |-> p.lp_cash, margin_pool |-> p.margin_pool - out]

MovedPools(p, margin, out) ==
    [lp_cash |-> p.lp_cash - (out - margin), margin_pool |-> p.margin_pool - margin]

\* delta > 0: the trader pays, margin -> LP.  delta < 0: LP -> margin.
CanRealize(p, delta) ==
    /\ delta > 0 => p.margin_pool >= delta
    /\ delta < 0 => p.lp_cash >= -delta

\* Mutation: the LPs' side of the funding is booked, the margin's is not.
Realized_LpOnly(p, delta) == [p EXCEPT !.lp_cash = @ + delta]

Realized(p, delta) ==
    [lp_cash |-> p.lp_cash + delta, margin_pool |-> p.margin_pool - delta]

CanLock(bal, trader, margin, fee) ==
    /\ margin > 0 /\ fee >= 0
    /\ CanTransfer(bal, trader, margin + fee)

Locked(p, margin, fee) ==
    [lp_cash |-> p.lp_cash + fee, margin_pool |-> p.margin_pool + margin]

\* settle and settle_liquidation transfer only positive amounts.
CanPay(bal, amount) == amount > 0 => CanTransfer(bal, Vault, amount)
Paid(bal, to, amount) ==
    IF amount > 0 THEN Transferred(bal, Vault, to, amount) ELSE bal

-----------------------------------------------------------------------------
(* The custody calls as actions, for an engine transaction that makes one. *)

CanLockMargin(trader, margin, fee) == engineSet /\ CanLock(balance, trader, margin, fee)

CanAddMargin(trader, amount) ==
    engineSet /\ amount > 0 /\ CanTransfer(balance, trader, amount)

CanSettle(margin, payout) ==
    engineSet /\ CanMovePools(pools, margin, payout) /\ CanPay(balance, payout)

\* Mutation: the fee is credited to the LPs, and not collected.
LockMargin_FeeNotPulled(trader, margin, fee) ==
    /\ CanLockMargin(trader, margin, fee)
    /\ balance' = Transferred(balance, trader, Vault, margin)
    /\ pools' = Locked(pools, margin, fee)
    /\ UNCHANGED <<totalSupply, engineSet, totalShares, shares>>

LockMargin(trader, margin, fee) ==
    /\ CanLockMargin(trader, margin, fee)
    /\ balance' = Transferred(balance, trader, Vault, margin + fee)
    /\ pools' = Locked(pools, margin, fee)
    /\ UNCHANGED <<totalSupply, engineSet, totalShares, shares>>

AddMargin(trader, amount) ==
    /\ CanAddMargin(trader, amount)
    /\ balance' = Transferred(balance, trader, Vault, amount)
    /\ pools' = [pools EXCEPT !.margin_pool = @ + amount]
    /\ UNCHANGED <<totalSupply, engineSet, totalShares, shares>>

Settle(trader, margin, payout) ==
    /\ CanSettle(margin, payout)
    /\ pools' = MovedPools(pools, margin, payout)
    /\ balance' = Paid(balance, trader, payout)
    /\ UNCHANGED <<totalSupply, engineSet, totalShares, shares>>

SettleLiquidation(trader, keeper, margin, traderPayout, keeperFee) ==
    LET afterTrader == Paid(balance, trader, traderPayout) IN
    /\ engineSet
    /\ traderPayout >= 0 /\ keeperFee >= 0
    /\ CanMovePools(pools, margin, traderPayout + keeperFee)
    /\ CanPay(balance, traderPayout)
    /\ CanPay(afterTrader, keeperFee)
    /\ pools' = MovedPools(pools, margin, traderPayout + keeperFee)
    /\ balance' = Paid(afterTrader, keeper, keeperFee)
    /\ UNCHANGED <<totalSupply, engineSet, totalShares, shares>>

RealizeFunding(delta) ==
    /\ engineSet
    /\ CanRealize(pools, delta)
    /\ pools' = Realized(pools, delta)
    /\ UNCHANGED <<tokenVars, engineSet, totalShares, shares>>

-----------------------------------------------------------------------------
(* The entry points of the admin and of the LPs.                           *)

SetEngine ==
    /\ ~engineSet
    /\ engineSet' = TRUE
    /\ UNCHANGED <<tokenVars, pools, totalShares, shares>>

\* Mutation: the pool is read after the deposit was credited.
SharesFor_AfterDeposit(amount) ==
    IF totalShares = 0 THEN amount
    ELSE (amount * totalShares) \div (pools.lp_cash + amount)

\* Mutation: one share per token, whatever a share is worth.
SharesFor_Par(amount) == amount

SharesFor(amount) ==
    IF totalShares = 0 \/ pools.lp_cash = 0
    THEN amount
    ELSE (amount * totalShares) \div pools.lp_cash

CanDeposit(from, amount) == amount > 0 /\ CanTransfer(balance, from, amount)

AddLiquidity(from, amount) ==
    LET minted == SharesFor(amount) IN
    /\ CanDeposit(from, amount)
    /\ totalShares + minted <= MaxShares
    /\ balance' = Transferred(balance, from, Vault, amount)
    /\ pools' = [pools EXCEPT !.lp_cash = @ + amount]
    /\ totalShares' = totalShares + minted
    /\ shares' = [shares EXCEPT ![from] = @ + minted]
    /\ UNCHANGED <<totalSupply, engineSet>>

\* Mutation: divides before it multiplies.
CashFor_DivFirst(n) == n * (pools.lp_cash \div totalShares)

CashFor(n) == (n * pools.lp_cash) \div totalShares

CanRedeem(from, n) ==
    n > 0 /\ shares[from] >= n /\ CanTransfer(balance, Vault, CashFor(n))

\* Mutation: the redeemer's shares are burned, the total is left alone.
RemoveLiquidity_TotalKept(from, n) ==
    /\ CanRedeem(from, n)
    /\ pools' = [pools EXCEPT !.lp_cash = @ - CashFor(n)]
    /\ shares' = [shares EXCEPT ![from] = @ - n]
    /\ balance' = Transferred(balance, Vault, from, CashFor(n))
    /\ UNCHANGED <<totalSupply, engineSet, totalShares>>

RemoveLiquidity(from, n) ==
    LET amount == CashFor(n) IN
    /\ CanRedeem(from, n)
    /\ pools' = [pools EXCEPT !.lp_cash = @ - amount]
    /\ totalShares' = totalShares - n
    /\ shares' = [shares EXCEPT ![from] = @ - n]
    /\ balance' = Transferred(balance, Vault, from, amount)
    /\ UNCHANGED <<totalSupply, engineSet>>

LpNext ==
    \/ \E u \in Users, a \in Amounts : AddLiquidity(u, a)
    \/ \E u \in Users, n \in ShareAmounts : RemoveLiquidity(u, n)

\* The vault on its own: the engine may make any custody call with any
\* arguments; the checks above are all that protects the pools.
EngineCall ==
    \/ \E u \in Users, m, f \in Amounts : LockMargin(u, m, f)
    \/ \E u \in Users, a \in Amounts : AddMargin(u, a)
    \/ \E u \in Users, m, p \in Amounts : Settle(u, m, p)
    \/ \E u, k \in Users, m, p, f \in Amounts : SettleLiquidation(u, k, m, p, f)
    \/ \E d \in Amounts : RealizeFunding(d)

VaultNext ==
    \/ TokenNext /\ UNCHANGED vaultVars
    \/ SetEngine
    \/ LpNext
    \/ EngineCall

VaultSpec == VaultInit /\ [][VaultNext]_<<tokenVars, vaultVars>>

-----------------------------------------------------------------------------
(* Properties.                                                             *)

\* The vault's token account always covers both pools, whatever sequence of
\* LP operations, engine calls and direct transfers led here: the vault never
\* promises a token it does not hold (VaultError::InsufficientLiquidity).
Solvent == balance[Vault] >= TotalAssets(pools)

\* Every share in existence belongs to somebody: what a redeemer can burn and
\* what the share price divides by are the same count.
SharesMatch == totalShares = Total(shares)

\* A deposit or a redemption by one LP never lowers the value of a share
\* (lp_cash / totalShares, written without the division) for the others: the
\* rounding of both conversions is in favour of those who stay.
ShareValueKept ==
    [][LpNext /\ totalShares > 0 =>
          pools'.lp_cash * totalShares >= pools.lp_cash * totalShares']_vaultVars

\* ... nor does the rounding take more than one share's worth from a depositor:
\* as long as the pool holds cash, redeeming everything just minted together
\* with one more share would give the deposit back.
DepositIsFair ==
    [][\A u \in Users, a \in Amounts :
          AddLiquidity(u, a) /\ pools.lp_cash > 0 /\ totalShares > 0 =>
              (totalShares' - totalShares + 1) * pools'.lp_cash >= a * totalShares'
      ]_vaultVars

\* The LP who burns the last share takes the whole pool: no LP cash is left
\* behind without an owner.
LastShareTakesAll ==
    [][totalShares > 0 /\ totalShares' = 0 => pools'.lp_cash = 0]_vaultVars

=============================================================================
