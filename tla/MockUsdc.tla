------------------------------ MODULE MockUsdc ------------------------------
(***************************************************************************)
(* The settlement token.  balance is the whole of its state that the       *)
(* protocol sees; transfer and burn are the token standard's (an external  *)
(* library), faucet is the contract's own.  The operators take a balance   *)
(* function, so that a contract call that moves tokens twice can chain     *)
(* them inside one transaction.                                            *)
(***************************************************************************)
EXTENDS HelixShared

CONSTANTS
    Vault,       \* the address of the collateral vault
    Amounts,     \* the amounts callers pass in an instance; any integer is legal
    FAUCET_MAX,  \* the faucet's ceiling per call
    MaxSupply    \* bound of an instance on the tokens ever in circulation

ASSUME TokenAssumption ==
    /\ Vault \notin Users
    /\ Amounts \subseteq Int
    /\ FAUCET_MAX \in Nat
    /\ MaxSupply \in Nat

VARIABLES
    balance,     \* balance[a]: tokens held by address a
    totalSupply

tokenVars == <<balance, totalSupply>>

Accounts == Users \cup {Vault}

TokenTypeOK ==
    /\ balance \in [Accounts -> Nat]
    /\ totalSupply \in Int

CanTransfer(bal, from, amount) == amount >= 0 /\ bal[from] >= amount

Transferred(bal, from, to, amount) ==
    LET debited == [bal EXCEPT ![from] = @ - amount]
    IN  [debited EXCEPT ![to] = @ + amount]

CanMint(amount) == amount > 0 /\ amount <= FAUCET_MAX

Faucet(to, amount) ==
    /\ CanMint(amount)
    /\ totalSupply + amount <= MaxSupply
    /\ balance' = [balance EXCEPT ![to] = @ + amount]
    /\ totalSupply' = totalSupply + amount

\* A holder moves tokens by itself: to another user, or straight into the
\* vault's account without any vault entry point taking part.
Transfer(from, to, amount) ==
    /\ CanTransfer(balance, from, amount)
    /\ balance' = Transferred(balance, from, to, amount)
    /\ UNCHANGED totalSupply

Burn(from, amount) ==
    /\ CanTransfer(balance, from, amount)
    /\ balance' = [balance EXCEPT ![from] = @ - amount]
    /\ totalSupply' = totalSupply - amount

TokenNext ==
    \/ \E to \in Users, a \in Amounts : Faucet(to, a)
    \/ \E from \in Users, to \in Accounts, a \in Amounts : Transfer(from, to, a)
    \/ \E from \in Users, a \in Amounts : Burn(from, a)

=============================================================================
