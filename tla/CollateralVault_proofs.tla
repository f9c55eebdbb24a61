----------------------- MODULE CollateralVault_proofs -----------------------
(***************************************************************************)
(* The vault keeps its types, its share register and its solvency, for     *)
(* every set of users and whatever the engine asks of it.  Solvency is not *)
(* inductive without the two others: a redemption takes no more than the   *)
(* pool holds because no LP owns more shares than exist, which is known    *)
(* only because the register adds up to the total.                         *)
(***************************************************************************)
EXTENDS CollateralVault, HelixShared_proofs

VaultInv == VaultTypeOK /\ SharesMatch /\ Solvent

-----------------------------------------------------------------------------
(* The operators the entry points are made of.                             *)

\* A permitted transfer keeps balances natural and moves its amount.
LEMMA TransferFacts ==
    ASSUME NEW bal \in [Accounts -> Nat], NEW from \in Accounts, NEW to \in Accounts,
           NEW amount \in Int, CanTransfer(bal, from, amount)
    PROVE  /\ Transferred(bal, from, to, amount) \in [Accounts -> Nat]
           /\ from # Vault /\ to = Vault =>
                 Transferred(bal, from, to, amount)[Vault] = bal[Vault] + amount
           /\ from = Vault /\ to # Vault =>
                 Transferred(bal, from, to, amount)[Vault] = bal[Vault] - amount
           /\ from # Vault /\ to # Vault =>
                 Transferred(bal, from, to, amount)[Vault] = bal[Vault]
<1>1. Vault \in Accounts
  BY DEF Accounts
<1>2. QED
  BY <1>1 DEF CanTransfer, Transferred

\* A payment out of the vault's account, when there is something to pay.
LEMMA PayFacts ==
    ASSUME NEW bal \in [Accounts -> Nat], NEW to \in Users,
           NEW amount \in Nat, CanPay(bal, amount)
    PROVE  /\ Paid(bal, to, amount) \in [Accounts -> Nat]
           /\ Paid(bal, to, amount)[Vault] = bal[Vault] - amount
<1>1. Vault \in Accounts /\ to \in Accounts /\ to # Vault
  BY TokenAssumption DEF Accounts
<1>2. CASE amount > 0
  BY <1>1, <1>2, TransferFacts DEF CanPay, Paid
<1>3. CASE ~(amount > 0)
  <2>1. amount = 0
    BY <1>3
  <2>2. QED
    BY <1>1, <1>3, <2>1 DEF Paid
<1>4. QED
  BY <1>2, <1>3

\* The pools stay natural, and change in sum by what leaves the account.
LEMMA PoolFacts ==
    ASSUME NEW p \in [lp_cash : Nat, margin_pool : Nat], NEW margin \in Int, NEW out \in Int
    PROVE  /\ CanMovePools(p, margin, out) =>
                 /\ MovedPools(p, margin, out) \in [lp_cash : Nat, margin_pool : Nat]
                 /\ TotalAssets(MovedPools(p, margin, out)) = TotalAssets(p) - out
                 /\ out \in Nat /\ margin \in Nat
           /\ CanRealize(p, out) =>
                 /\ Realized(p, out) \in [lp_cash : Nat, margin_pool : Nat]
                 /\ TotalAssets(Realized(p, out)) = TotalAssets(p)
           /\ margin > 0 /\ out >= 0 =>
                 /\ Locked(p, margin, out) \in [lp_cash : Nat, margin_pool : Nat]
                 /\ TotalAssets(Locked(p, margin, out)) = TotalAssets(p) + margin + out
  BY DEF CanMovePools, MovedPools, CanRealize, Realized, Locked, TotalAssets

\* No LP owns more shares than the register adds up to, ...
LEMMA ShareBound ==
    ASSUME NEW sh \in [Users -> Nat], NEW u \in Users
    PROVE  sh[u] \in Nat /\ Total(sh) \in Nat /\ sh[u] <= Total(sh)
  BY UsersAssumption, TotalType, TotalBound

\* ... and minting or burning n of them changes the sum by n.
LEMMA SharesMinted ==
    ASSUME NEW sh \in [Users -> Nat], NEW u \in Users, NEW n \in Nat
    PROVE  /\ [sh EXCEPT ![u] = @ + n] \in [Users -> Nat]
           /\ Total([sh EXCEPT ![u] = @ + n]) = Total(sh) + n
<1>1. sh[u] \in Nat /\ Total(sh) \in Nat /\ sh[u] + n \in Nat
  BY ShareBound
<1>2. Total([sh EXCEPT ![u] = sh[u] + n]) = Total(sh) - sh[u] + (sh[u] + n)
  BY <1>1, UsersAssumption, TotalUpdate
<1>3. QED
  BY <1>1, <1>2

\* Burning takes the shares of one holder off the register's total.
LEMMA SharesBurned ==
    ASSUME NEW sh \in [Users -> Nat], NEW u \in Users, NEW n \in Nat, n <= sh[u]
    PROVE  /\ [sh EXCEPT ![u] = @ - n] \in [Users -> Nat]
           /\ Total([sh EXCEPT ![u] = @ - n]) = Total(sh) - n
<1>1. sh[u] \in Nat /\ Total(sh) \in Nat /\ sh[u] - n \in Nat
  BY ShareBound
<1>2. Total([sh EXCEPT ![u] = sh[u] - n]) = Total(sh) - sh[u] + (sh[u] - n)
  BY <1>1, UsersAssumption, TotalUpdate
<1>3. QED
  BY <1>1, <1>2

-----------------------------------------------------------------------------
(* The initial state and the steps.                                        *)

\* The empty vault satisfies the invariant.
LEMMA VaultInitInv == VaultInit => VaultInv
<1> SUFFICES ASSUME VaultInit PROVE VaultInv
  OBVIOUS
<1>1. VaultTypeOK
  <2>1. balance \in [Accounts -> Nat] /\ totalSupply \in Int
    BY DEF VaultInit
  <2>2. engineSet \in BOOLEAN /\ pools \in [lp_cash : Nat, margin_pool : Nat]
    BY DEF VaultInit
  <2>3. totalShares \in Nat /\ shares \in [Users -> Nat]
    BY DEF VaultInit
  <2>4. QED
    BY <2>1, <2>2, <2>3 DEF VaultTypeOK, TokenTypeOK
<1>2. shares \in [Users -> Nat] /\ \A u \in Users : shares[u] = 0
  BY DEF VaultInit
<1>3. SharesMatch
  BY <1>2, TotalZero DEF VaultInit, SharesMatch
<1>4. Solvent
  BY DEF VaultInit, Solvent, TotalAssets, Accounts
<1>5. QED
  BY <1>1, <1>3, <1>4 DEF VaultInv

\* Token movements that bypass the vault can only add to its account.
LEMMA TokensMoved ==
    ASSUME VaultInv, UNCHANGED vaultVars, balance' \in [Accounts -> Nat], totalSupply' \in Int,
           balance'[Vault] >= balance[Vault]
    PROVE  VaultInv'
<1> USE DEF VaultInv, VaultTypeOK, TokenTypeOK
<1>1. Vault \in Accounts
  BY DEF Accounts
<1>2. pools' = pools /\ totalShares' = totalShares /\ shares' = shares /\ engineSet' = engineSet
  BY DEF vaultVars
<1>3. SharesMatch'
  BY <1>2 DEF SharesMatch
<1>4. Solvent'
  <2>1. balance[Vault] \in Nat /\ balance'[Vault] \in Nat /\ TotalAssets(pools) \in Nat
    BY <1>1 DEF TotalAssets
  <2>2. QED
    BY <1>2, <2>1 DEF Solvent, TotalAssets
<1>5. QED
  BY <1>2, <1>3, <1>4

\* The faucet, for any amount.
LEMMA FaucetInv ==
    ASSUME VaultInv, NEW to \in Users, NEW a \in Int, Faucet(to, a), UNCHANGED vaultVars
    PROVE  VaultInv'
<1>1. Vault \in Accounts /\ to \in Accounts /\ to # Vault
  BY TokenAssumption DEF Accounts
<1>2. /\ balance \in [Accounts -> Nat] /\ totalSupply \in Int
      /\ a > 0 /\ balance' = [balance EXCEPT ![to] = @ + a] /\ totalSupply' = totalSupply + a
  BY DEF VaultInv, VaultTypeOK, TokenTypeOK, Faucet, CanMint
<1>3. /\ balance' \in [Accounts -> Nat] /\ totalSupply' \in Int
      /\ balance'[Vault] >= balance[Vault]
  BY <1>1, <1>2
<1>4. QED
  BY <1>3, TokensMoved

\* Without the vault's doing, its account is only ever added to.
LEMMA TokenStepFacts ==
    ASSUME VaultInv, TokenNext
    PROVE  /\ balance' \in [Accounts -> Nat] /\ totalSupply' \in Int
           /\ balance'[Vault] >= balance[Vault]
<1> USE DEF VaultInv, VaultTypeOK, TokenTypeOK
<1>1. Vault \notin Users /\ Users \subseteq Accounts /\ Vault \in Accounts
  BY TokenAssumption DEF Accounts
<1>2. CASE \E to \in Users, a \in Amounts : Faucet(to, a)
  <2>1. PICK to \in Users, a \in Amounts : Faucet(to, a)
    BY <1>2
  <2>2. a \in Int
    BY TokenAssumption
  <2>3. QED
    BY <1>1, <2>1, <2>2 DEF Faucet, CanMint
<1>3. CASE \E from \in Users, to \in Accounts, a \in Amounts : Transfer(from, to, a)
  <2>1. PICK from \in Users, to \in Accounts, a \in Amounts : Transfer(from, to, a)
    BY <1>3
  <2>2. a \in Int /\ a >= 0
    BY <2>1, TokenAssumption DEF Transfer, CanTransfer
  <2>3. QED
    BY <1>1, <2>1, <2>2, TransferFacts DEF Transfer
<1>4. CASE \E from \in Users, a \in Amounts : Burn(from, a)
  <2>1. PICK from \in Users, a \in Amounts : Burn(from, a)
    BY <1>4
  <2>2. a \in Int
    BY TokenAssumption
  <2>3. QED
    BY <1>1, <2>1, <2>2 DEF Burn, CanTransfer
<1>5. QED
  BY <1>2, <1>3, <1>4 DEF TokenNext

\* So the token's calls leave both pools covered.
LEMMA TokenStepInv ==
    ASSUME VaultInv, TokenNext, UNCHANGED vaultVars PROVE VaultInv'
  BY TokenStepFacts, TokensMoved

\* One lemma per custody call, for the engine's transactions as well.
LEMMA LockMarginInv ==
    ASSUME VaultInv, NEW t \in Users, NEW m \in Int, NEW f \in Int, LockMargin(t, m, f)
    PROVE  VaultInv'
<1> USE DEF VaultInv, VaultTypeOK, TokenTypeOK
<1>1. t \in Accounts /\ t # Vault /\ Vault \in Accounts
  BY TokenAssumption DEF Accounts
<1>2. m > 0 /\ f >= 0 /\ m + f \in Int /\ CanTransfer(balance, t, m + f)
  BY DEF LockMargin, CanLockMargin, CanLock
<1>3. /\ balance' \in [Accounts -> Nat]
      /\ balance'[Vault] = balance[Vault] + (m + f)
  BY <1>1, <1>2, TransferFacts DEF LockMargin
<1>4. /\ pools' \in [lp_cash : Nat, margin_pool : Nat]
      /\ TotalAssets(pools') = TotalAssets(pools) + m + f
  BY <1>2, PoolFacts DEF LockMargin
<1>5. Solvent'
  BY <1>1, <1>3, <1>4 DEF Solvent, TotalAssets
<1>6. SharesMatch'
  BY DEF LockMargin, SharesMatch
<1>7. QED
  BY <1>3, <1>4, <1>5, <1>6 DEF LockMargin

\* add_margin: account and margin pool grow by the same amount.
LEMMA AddMarginInv ==
    ASSUME VaultInv, NEW t \in Users, NEW a \in Int, AddMargin(t, a)
    PROVE  VaultInv'
<1> USE DEF VaultInv, VaultTypeOK, TokenTypeOK
<1>1. t \in Accounts /\ t # Vault /\ Vault \in Accounts
  BY TokenAssumption DEF Accounts
<1>2. /\ balance' \in [Accounts -> Nat]
      /\ balance'[Vault] = balance[Vault] + a
  BY <1>1, TransferFacts DEF AddMargin, CanAddMargin
<1>3. /\ pools' \in [lp_cash : Nat, margin_pool : Nat]
      /\ TotalAssets(pools') = TotalAssets(pools) + a
  BY DEF AddMargin, CanAddMargin, TotalAssets
<1>4. Solvent'
  BY <1>1, <1>2, <1>3 DEF Solvent, TotalAssets
<1>5. SharesMatch'
  BY DEF AddMargin, SharesMatch
<1>6. QED
  BY <1>2, <1>3, <1>4, <1>5 DEF AddMargin

\* settle: what leaves the account leaves the pools.
LEMMA SettleInv ==
    ASSUME VaultInv, NEW t \in Users, NEW m \in Int, NEW p \in Int, Settle(t, m, p)
    PROVE  VaultInv'
<1> USE DEF VaultInv, VaultTypeOK, TokenTypeOK
<1>1. Vault \in Accounts
  BY DEF Accounts
<1>2. /\ pools' \in [lp_cash : Nat, margin_pool : Nat]
      /\ TotalAssets(pools') = TotalAssets(pools) - p
      /\ p \in Nat
  BY PoolFacts DEF Settle, CanSettle
<1>3. balance' \in [Accounts -> Nat] /\ balance'[Vault] = balance[Vault] - p
  BY <1>2, PayFacts DEF Settle, CanSettle
<1>4. Solvent'
  BY <1>1, <1>2, <1>3 DEF Solvent, TotalAssets
<1>5. SharesMatch'
  BY DEF Settle, SharesMatch
<1>6. QED
  BY <1>2, <1>3, <1>4, <1>5 DEF Settle

\* settle_liquidation: keeper and owner are paid out of what the pools release.
LEMMA SettleLiquidationInv ==
    ASSUME VaultInv, NEW t \in Users, NEW k \in Users, NEW m \in Int, NEW p \in Int,
           NEW f \in Int, SettleLiquidation(t, k, m, p, f)
    PROVE  VaultInv'
<1> USE DEF VaultInv, VaultTypeOK, TokenTypeOK
<1> DEFINE mid == Paid(balance, t, p)
<1>1. Vault \in Accounts
  BY DEF Accounts
<1>2. p \in Nat /\ f \in Nat /\ p + f \in Int
  BY DEF SettleLiquidation
<1>3. /\ pools' \in [lp_cash : Nat, margin_pool : Nat]
      /\ TotalAssets(pools') = TotalAssets(pools) - (p + f)
  BY <1>2, PoolFacts DEF SettleLiquidation
<1>4. mid \in [Accounts -> Nat] /\ mid[Vault] = balance[Vault] - p
  BY <1>2, PayFacts DEF SettleLiquidation
<1>5. balance' = Paid(mid, k, f) /\ CanPay(mid, f)
  BY DEF SettleLiquidation
<1>6. balance' \in [Accounts -> Nat] /\ balance'[Vault] = mid[Vault] - f
  <2> HIDE DEF mid
  <2> QED
    BY <1>2, <1>4, <1>5, PayFacts
<1>7. Solvent'
  <2> HIDE DEF mid
  <2> QED
    BY <1>1, <1>2, <1>3, <1>4, <1>6 DEF Solvent, TotalAssets
<1>8. SharesMatch'
  BY DEF SettleLiquidation, SharesMatch
<1>9. QED
  BY <1>3, <1>6, <1>7, <1>8 DEF SettleLiquidation

\* realize: tokens move between the pools and none leaves the account.
LEMMA RealizeInv ==
    ASSUME VaultInv, NEW d \in Int, RealizeFunding(d)
    PROVE  VaultInv'
<1> USE DEF VaultInv, VaultTypeOK, TokenTypeOK
<1>1. /\ pools' \in [lp_cash : Nat, margin_pool : Nat]
      /\ TotalAssets(pools') = TotalAssets(pools)
  BY PoolFacts DEF RealizeFunding
<1>2. QED
  BY <1>1 DEF RealizeFunding, Solvent, SharesMatch, tokenVars

\* add_liquidity: tokens and shares come in together.
LEMMA AddLiquidityInv ==
    ASSUME VaultInv, NEW u \in Users, NEW a \in Int, AddLiquidity(u, a)
    PROVE  VaultInv'
<1> USE DEF VaultInv, VaultTypeOK, TokenTypeOK
<1> DEFINE n == SharesFor(a)
<1>1. u \in Accounts /\ u # Vault /\ Vault \in Accounts /\ a \in Nat
  BY TokenAssumption DEF Accounts, AddLiquidity, CanDeposit
<1>2. /\ balance' \in [Accounts -> Nat]
      /\ balance'[Vault] = balance[Vault] + a
  BY <1>1, TransferFacts DEF AddLiquidity, CanDeposit
<1>3. /\ pools' \in [lp_cash : Nat, margin_pool : Nat]
      /\ TotalAssets(pools') = TotalAssets(pools) + a
  BY <1>1 DEF AddLiquidity, TotalAssets
<1>4. n \in Nat
  <2>1. a * totalShares \in Nat
    BY <1>1
  <2>2. pools.lp_cash # 0 => (a * totalShares) \div pools.lp_cash \in Nat
    BY <2>1, QuotientBounds
  <2>3. QED
    BY <1>1, <2>2 DEF SharesFor
<1>5. totalShares' = totalShares + n /\ shares' = [shares EXCEPT ![u] = @ + n]
  BY DEF AddLiquidity
<1>6. shares' \in [Users -> Nat] /\ Total(shares') = Total(shares) + n
  <2> HIDE DEF n
  <2> QED
    BY <1>4, <1>5, SharesMinted
<1>7. totalShares' \in Nat /\ SharesMatch'
  <2> HIDE DEF n
  <2> QED
    BY <1>4, <1>5, <1>6 DEF SharesMatch
<1>8. Solvent'
  BY <1>1, <1>2, <1>3 DEF Solvent, TotalAssets
<1>9. QED
  BY <1>2, <1>3, <1>6, <1>7, <1>8 DEF AddLiquidity

\* What a redeemer of n shares is paid comes out of the LPs' pool.
LEMMA CashForFacts ==
    ASSUME VaultInv, NEW u \in Users, NEW n \in Int, n > 0, shares[u] >= n
    PROVE  /\ n \in Nat /\ n <= totalShares /\ totalShares \in Nat \ {0}
           /\ CashFor(n) \in Nat /\ CashFor(n) <= pools.lp_cash
<1>1. n \in Nat /\ shares[u] <= totalShares /\ totalShares \in Nat
  BY ShareBound DEF VaultInv, VaultTypeOK, SharesMatch
<1>2. shares[u] \in Nat /\ pools.lp_cash \in Nat
  BY DEF VaultInv, VaultTypeOK
<1>3. n <= totalShares /\ totalShares \in Nat \ {0}
  BY <1>1, <1>2
<1>4. QED
  BY <1>1, <1>2, <1>3, ShareOfPool DEF CashFor

\* remove_liquidity: the redemption is within lp_cash, because the burned shares
\* are within the total.
LEMMA RemoveLiquidityInv ==
    ASSUME VaultInv, NEW u \in Users, NEW n \in Int, RemoveLiquidity(u, n)
    PROVE  VaultInv'
<1> USE DEF VaultInv, VaultTypeOK, TokenTypeOK
<1> DEFINE c == CashFor(n)
<1>1. u \in Accounts /\ u # Vault /\ Vault \in Accounts
  BY TokenAssumption DEF Accounts
<1>2. n > 0 /\ shares[u] >= n /\ CanTransfer(balance, Vault, c)
  BY DEF RemoveLiquidity, CanRedeem
<1>3. n \in Nat /\ n <= totalShares /\ c \in Nat /\ c <= pools.lp_cash
  BY <1>2, CashForFacts
<1>4. /\ pools' = [pools EXCEPT !.lp_cash = @ - c]
      /\ totalShares' = totalShares - n
      /\ shares' = [shares EXCEPT ![u] = @ - n]
      /\ balance' = Transferred(balance, Vault, u, c)
      /\ UNCHANGED <<totalSupply, engineSet>>
  BY DEF RemoveLiquidity
<1> HIDE DEF c
<1>5. /\ balance' \in [Accounts -> Nat]
      /\ balance'[Vault] = balance[Vault] - c
  BY <1>1, <1>2, <1>3, <1>4, TransferFacts
<1>6. /\ pools' \in [lp_cash : Nat, margin_pool : Nat]
      /\ TotalAssets(pools') = TotalAssets(pools) - c
  BY <1>3, <1>4 DEF TotalAssets
<1>7. shares' \in [Users -> Nat] /\ Total(shares') = Total(shares) - n
  BY <1>2, <1>3, <1>4, SharesBurned
<1>8. totalShares' \in Nat /\ SharesMatch'
  BY <1>3, <1>4, <1>7 DEF SharesMatch
<1>9. Solvent'
  BY <1>1, <1>3, <1>5, <1>6 DEF Solvent, TotalAssets
<1>10. QED
  BY <1>4, <1>5, <1>6, <1>7, <1>8, <1>9

\* The LPs' calls keep the invariant.
LEMMA LpStepInv == ASSUME VaultInv, LpNext PROVE VaultInv'
  BY AddLiquidityInv, RemoveLiquidityInv, TokenAssumption, ShareAssumption DEF LpNext

\* Every step keeps the invariant.
LEMMA VaultStepInv == VaultInv /\ [VaultNext]_<<tokenVars, vaultVars>> => VaultInv'
<1> SUFFICES ASSUME VaultInv, [VaultNext]_<<tokenVars, vaultVars>> PROVE VaultInv'
  OBVIOUS
<1>1. CASE TokenNext /\ UNCHANGED vaultVars
  BY <1>1, TokenStepInv
<1>2. CASE SetEngine
  BY <1>2 DEF SetEngine, VaultInv, VaultTypeOK, TokenTypeOK, SharesMatch, Solvent, tokenVars
<1>3. CASE LpNext
  BY <1>3, LpStepInv
<1>4. CASE EngineCall
  <2>1. Amounts \subseteq Int
    BY TokenAssumption
  <2>2. CASE \E u \in Users, m, f \in Amounts : LockMargin(u, m, f)
    BY <2>1, <2>2, LockMarginInv
  <2>3. CASE \E u \in Users, a \in Amounts : AddMargin(u, a)
    BY <2>1, <2>3, AddMarginInv
  <2>4. CASE \E u \in Users, m, p \in Amounts : Settle(u, m, p)
    BY <2>1, <2>4, SettleInv
  <2>5. CASE \E u, k \in Users, m, p, f \in Amounts : SettleLiquidation(u, k, m, p, f)
    BY <2>1, <2>5, SettleLiquidationInv
  <2>6. CASE \E d \in Amounts : RealizeFunding(d)
    BY <2>1, <2>6, RealizeInv
  <2>7. QED
    BY <1>4, <2>2, <2>3, <2>4, <2>5, <2>6 DEF EngineCall
<1>5. CASE UNCHANGED <<tokenVars, vaultVars>>
  BY <1>5 DEF tokenVars, vaultVars, VaultInv, VaultTypeOK, TokenTypeOK, SharesMatch, Solvent
<1>6. QED
  BY <1>1, <1>2, <1>3, <1>4, <1>5 DEF VaultNext

-----------------------------------------------------------------------------
(* The theorems.                                                           *)

\* The inductive invariant: LP calls, token transfers and any custody call keep the
\* types, the share register and the cover of the pools together.
THEOREM VaultInvariance == VaultSpec => []VaultInv
<1>1. VaultInit => VaultInv
  BY VaultInitInv
<1>2. VaultInv /\ [VaultNext]_<<tokenVars, vaultVars>> => VaultInv'
  BY VaultStepInv
<1>3. QED
  BY <1>1, <1>2, PTL DEF VaultSpec

\* Every state of the vault is well typed: no pool, share count or balance is
\* ever negative, whatever the engine asks.
THEOREM VaultTypeCorrect == VaultSpec => []VaultTypeOK
  BY VaultInvariance, PTL DEF VaultInv

\* The vault's token account always covers both pools.
THEOREM VaultIsSolvent == VaultSpec => []Solvent
  BY VaultInvariance, PTL DEF VaultInv

\* The share register adds up to the total the share price divides by.
THEOREM SharesAddUp == VaultSpec => []SharesMatch
  BY VaultInvariance, PTL DEF VaultInv

-----------------------------------------------------------------------------
(* What a share is worth.                                                  *)

\* The numbers of a deposit: a tokens into a pool of p with t shares mint m.
LEMMA DepositNumbers ==
    ASSUME NEW a \in Nat, NEW p \in Nat \ {0}, NEW t \in Nat
    PROVE  LET m == (a * t) \div p
           IN  /\ m \in Nat
               /\ (p + a) * t >= p * (t + m)
               /\ (m + 1) * (p + a) >= a * (t + m)
<1> DEFINE m == (a * t) \div p
<1>1. a * t \in Nat
  OBVIOUS
<1>2. m \in Nat /\ p * m <= a * t /\ a * t < p * m + p
  BY <1>1, QuotientBounds
<1> HIDE DEF m
<1>3. /\ (p + a) * t = p * t + a * t /\ p * (t + m) = p * t + p * m
      /\ (m + 1) * (p + a) = p * m + a * m + p + a /\ a * (t + m) = a * t + a * m
  BY <1>2
<1>4. p * t \in Nat /\ p * m \in Nat /\ a * m \in Nat
  BY <1>2
<1>5. (p + a) * t >= p * (t + m) /\ (m + 1) * (p + a) >= a * (t + m)
  BY <1>1, <1>2, <1>3, <1>4
<1>6. QED
  BY <1>2, <1>5 DEF m

\* The numbers of a redemption of n of t shares in a pool of p.
LEMMA RedemptionNumbers ==
    ASSUME NEW n \in Nat, NEW p \in Nat, NEW t \in Nat \ {0}, n <= t
    PROVE  LET c == (n * p) \div t
           IN  (p - c) * t >= p * (t - n)
<1> DEFINE c == (n * p) \div t
<1>1. n * p \in Nat
  OBVIOUS
<1>2. c \in Nat /\ t * c <= n * p
  BY <1>1, QuotientBounds
<1> HIDE DEF c
<1>3. (p - c) * t = p * t - t * c /\ p * (t - n) = p * t - n * p
  BY <1>2
<1>4. p * t \in Nat /\ t * c \in Nat
  BY <1>2
<1>5. (p - c) * t >= p * (t - n)
  BY <1>1, <1>2, <1>3, <1>4
<1>6. QED
  BY <1>5 DEF c

\* Redeeming the whole is paid the whole.
LEMMA WholeQuotient ==
    ASSUME NEW p \in Nat, NEW t \in Nat \ {0}
    PROVE  (t * p) \div t = p
<1> DEFINE q == (t * p) \div t
<1>1. t * p \in Nat
  OBVIOUS
<1>2. q \in Nat /\ t * q <= t * p /\ t * p < t * q + t
  BY <1>1, QuotientBounds
<1> HIDE DEF q
<1>3. ASSUME q > p PROVE FALSE
  <2>1. t * (p + 1) <= t * q
    BY <1>2, <1>3, ProductMonotone
  <2>2. t * (p + 1) = t * p + t /\ t * q \in Nat
    BY <1>2
  <2>3. QED
    BY <1>1, <1>2, <2>1, <2>2
<1>4. ASSUME q < p PROVE FALSE
  <2>1. t * (q + 1) <= t * p
    BY <1>2, <1>4, ProductMonotone
  <2>2. t * (q + 1) = t * q + t /\ t * q \in Nat
    BY <1>2
  <2>3. QED
    BY <1>1, <1>2, <2>1, <2>2
<1>5. q = p
  BY <1>2, <1>3, <1>4
<1>6. QED
  BY <1>5 DEF q

\* What a deposit does to the register and the pool.
LEMMA DepositFacts ==
    ASSUME VaultInv, NEW u \in Users, NEW a \in Int, AddLiquidity(u, a)
    PROVE  /\ a \in Nat \ {0} /\ pools.lp_cash \in Nat /\ totalShares \in Nat
           /\ pools'.lp_cash = pools.lp_cash + a
           /\ totalShares' = totalShares + SharesFor(a)
BY DEF AddLiquidity, CanDeposit, VaultInv, VaultTypeOK

\* A deposit dilutes nobody and is shortchanged by at most a share.
LEMMA DepositStep ==
    ASSUME VaultInv, NEW u \in Users, NEW a \in Int, AddLiquidity(u, a), totalShares > 0
    PROVE  /\ pools'.lp_cash * totalShares >= pools.lp_cash * totalShares'
           /\ totalShares' > 0
           /\ pools.lp_cash > 0 =>
                 (totalShares' - totalShares + 1) * pools'.lp_cash >= a * totalShares'
<1> DEFINE p == pools.lp_cash
           t == totalShares
           m == SharesFor(a)
<1>1. /\ a \in Nat /\ p \in Nat /\ t \in Nat \ {0}
      /\ pools'.lp_cash = p + a /\ totalShares' = t + m
  BY DepositFacts
<1>2. CASE p = 0
  <2>1. m = a
    BY <1>2 DEF SharesFor
  <2> HIDE DEF p, t, m
  <2>2. a * t \in Nat /\ (p + a) * t = a * t /\ p * (t + m) = 0
    BY <1>1, <1>2, <2>1
  <2>3. (p + a) * t >= p * (t + m) /\ t + m > 0
    BY <1>1, <2>1, <2>2
  <2>4. QED
    BY <1>1, <1>2, <2>3 DEF p, t
<1>3. CASE p # 0
  <2>1. m = (a * t) \div p /\ p \in Nat \ {0}
    BY <1>1, <1>3 DEF SharesFor
  <2> HIDE DEF p, t, m
  <2>2. m \in Nat /\ (p + a) * t >= p * (t + m) /\ (m + 1) * (p + a) >= a * (t + m)
    BY <1>1, <2>1, DepositNumbers
  <2>3. t + m > 0 /\ (t + m) - t + 1 = m + 1
    BY <1>1, <2>2
  <2>4. /\ pools'.lp_cash * t >= p * totalShares'
        /\ (totalShares' - t + 1) * pools'.lp_cash >= a * totalShares'
    BY <1>1, <2>2, <2>3
  <2>5. QED
    BY <1>1, <2>3, <2>4 DEF p, t
<1>4. QED
  BY <1>2, <1>3

\* A redemption leaves those who stay no less, and the last one leaves nothing.
LEMMA RedemptionStep ==
    ASSUME VaultInv, NEW u \in Users, NEW n \in Int, RemoveLiquidity(u, n)
    PROVE  /\ pools'.lp_cash * totalShares >= pools.lp_cash * totalShares'
           /\ totalShares' = 0 => pools'.lp_cash = 0
<1> DEFINE p == pools.lp_cash
           t == totalShares
           c == CashFor(n)
<1>1. n > 0 /\ shares[u] >= n /\ pools'.lp_cash = p - c /\ totalShares' = t - n
  BY DEF RemoveLiquidity, CanRedeem, VaultInv, VaultTypeOK
<1>2. n \in Nat /\ n <= t /\ t \in Nat \ {0} /\ p \in Nat
  BY <1>1, CashForFacts DEF VaultInv, VaultTypeOK
<1>3. c = (n * p) \div t
  BY DEF CashFor
<1>4. (p - c) * t >= p * (t - n)
  <2> HIDE DEF p, t
  <2> QED
    BY <1>2, <1>3, RedemptionNumbers
<1>5. t - n = 0 => p - c = 0
  <2> HIDE DEF p, t, c
  <2>1. ASSUME t - n = 0
        PROVE  c = p
    <3>1. n = t
      BY <1>2, <2>1
    <3>2. QED
      BY <1>2, <1>3, <3>1, WholeQuotient
  <2>2. QED
    BY <1>2, <2>1
<1>6. QED
  <2> HIDE DEF c
  <2> QED
    BY <1>1, <1>4, <1>5

\* The amounts and shares callers pass are integers.
LEMMA LpCalls ==
    ASSUME LpNext
    PROVE  \/ \E u \in Users, a \in Int : AddLiquidity(u, a)
           \/ \E u \in Users, n \in Int : RemoveLiquidity(u, n)
BY TokenAssumption, ShareAssumption DEF LpNext

\* A deposit or a redemption never lowers the value of a share for the others,
\* for every pool, register and amount.
THEOREM SharesKeepValue == VaultSpec => ShareValueKept
<1> DEFINE Kept == LpNext /\ totalShares > 0 =>
                      pools'.lp_cash * totalShares >= pools.lp_cash * totalShares'
<1>1. VaultInv /\ [VaultNext]_<<tokenVars, vaultVars>> => [Kept]_vaultVars
  BY LpCalls, DepositStep, RedemptionStep
<1>2. VaultSpec => [][Kept]_vaultVars
  <2> HIDE DEF Kept
  <2> QED
    BY <1>1, VaultInvariance, PTL DEF VaultSpec
<1>3. QED
  BY <1>2 DEF ShareValueKept

\* The rounding takes less than one share's worth from a depositor.
THEOREM DepositsAreFair == VaultSpec => DepositIsFair
<1> DEFINE Fair == \A u \in Users, a \in Amounts :
                      AddLiquidity(u, a) /\ pools.lp_cash > 0 /\ totalShares > 0 =>
                         (totalShares' - totalShares + 1) * pools'.lp_cash >= a * totalShares'
<1>1. VaultInv /\ [VaultNext]_<<tokenVars, vaultVars>> => [Fair]_vaultVars
  BY DepositStep, TokenAssumption
<1>2. VaultSpec => [][Fair]_vaultVars
  <2> HIDE DEF Fair
  <2> QED
    BY <1>1, VaultInvariance, PTL DEF VaultSpec
<1>3. QED
  BY <1>2 DEF DepositIsFair

\* Only LPs change the register.
LEMMA OnlyLpsBurn ==
    ASSUME [VaultNext]_<<tokenVars, vaultVars>>
    PROVE  LpNext \/ totalShares' = totalShares
BY DEF VaultNext, EngineCall, LockMargin, AddMargin, Settle, SettleLiquidation, RealizeFunding,
       SetEngine, vaultVars

\* The LP who burns the last share takes the whole pool.
THEOREM LastShareEmptiesPool == VaultSpec => LastShareTakesAll
<1> DEFINE Empties == totalShares > 0 /\ totalShares' = 0 => pools'.lp_cash = 0
<1>1. ASSUME VaultInv, [VaultNext]_<<tokenVars, vaultVars>>
      PROVE  Empties
  <2>1. CASE LpNext
    <3>1. CASE \E u \in Users, a \in Int : AddLiquidity(u, a)
      BY <1>1, <3>1, DepositStep
    <3>2. CASE \E u \in Users, n \in Int : RemoveLiquidity(u, n)
      BY <1>1, <3>2, RedemptionStep
    <3>3. QED
      BY <2>1, <3>1, <3>2, LpCalls
  <2>2. CASE totalShares' = totalShares
    BY <1>1, <2>2 DEF VaultInv, VaultTypeOK
  <2>3. QED
    BY <1>1, <2>1, <2>2, OnlyLpsBurn
<1>2. VaultSpec => [][Empties]_vaultVars
  <2> HIDE DEF Empties
  <2> QED
    BY <1>1, VaultInvariance, PTL DEF VaultSpec
<1>3. QED
  BY <1>2 DEF LastShareTakesAll

=============================================================================
