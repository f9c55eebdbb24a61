------------------------------ MODULE Custody -------------------------------
(***************************************************************************)
(* What the contracts promise of everybody's money: as if each position    *)
(* and each entry order had an account of its own, apart from the LPs'     *)
(* pool, although one token account and one running sum hold them all.     *)
(* A transaction concerns one claim; what leaves the token account goes to *)
(* the claim's owner (and a liquidator), and what the claim does not pay   *)
(* for the LPs' pool does, while it lasts.                                 *)
(***************************************************************************)
EXTENDS Integers

CONSTANTS Users, PositionIds, OrderIds

VARIABLES
    account,  \* the tokens in custody
    purse,    \* purse[u]: the tokens u holds itself
    pool,     \* what is the LPs'
    margin,   \* margin[i]: the claim of position i
    escrow    \* escrow[o]: the claim of order o

vars == <<account, purse, pool, margin, escrow>>

\* A claim is used once: its id is never given out again.
Unused == [stage |-> "unused"]
Closed == [stage |-> "closed"]
Held(u, n) == [stage |-> "held", owner |-> u, amount |-> n]

IsHeld(c) == c.stage = "held"

Init ==
    /\ pool = account
    /\ margin = [i \in PositionIds |-> Unused]
    /\ escrow = [o \in OrderIds |-> Unused]

---------------------------------------------------------------------------
\* What a step takes out of the account; when negative, what it brings.
Out == account - account'

\* The money of a step that concerns u alone.
Between(u) == purse' = [purse EXCEPT ![u] = @ + Out]

\* The pool takes what is left of n, or adds what is missing.
PoolTakes(n) == pool' = pool + n /\ pool' >= 0

\* An LP brings money to the pool, or takes its own out.
Share(u) == Between(u) /\ PoolTakes(-Out) /\ UNCHANGED <<margin, escrow>>

\* u locks n under a fresh claim, and pays the pool a fee at most.
Brings(u, n) == n > 0 /\ Between(u) /\ -Out >= n /\ PoolTakes(-Out - n)

Lock(u, i) ==
    LET n == margin'[i].amount IN
    /\ margin[i] = Unused /\ IsHeld(margin'[i])
    /\ margin' = [margin EXCEPT ![i] = Held(u, n)]
    /\ Brings(u, n)
    /\ UNCHANGED escrow

Escrow(u, o) ==
    LET n == escrow'[o].amount IN
    /\ escrow[o] = Unused /\ IsHeld(escrow'[o])
    /\ escrow' = [escrow EXCEPT ![o] = Held(u, n)]
    /\ Brings(u, n)
    /\ UNCHANGED margin

\* A held claim changes its amount, never its owner.
Adjust(i) ==
    LET n == margin'[i].amount IN
    /\ IsHeld(margin[i]) /\ IsHeld(margin'[i]) /\ n > 0
    /\ margin' = [margin EXCEPT ![i].amount = n]
    /\ Between(margin[i].owner)
    /\ PoolTakes(margin[i].amount - n - Out)
    /\ UNCHANGED escrow

Close(i) ==
    /\ IsHeld(margin[i]) /\ Out >= 0
    /\ margin' = [margin EXCEPT ![i] = Closed]
    /\ Between(margin[i].owner)
    /\ PoolTakes(margin[i].amount - Out)
    /\ UNCHANGED escrow

\* As Close, with a reward for the keeper out of what is paid.
Liquidate(i, keeper) ==
    LET owner == margin[i].owner
        reward == purse'[keeper] - purse[keeper]
    IN  /\ IsHeld(margin[i]) /\ keeper # owner
        /\ reward >= 0 /\ Out >= reward
        /\ margin' = [margin EXCEPT ![i] = Closed]
        /\ purse' = [purse EXCEPT ![owner] = @ + (Out - reward), ![keeper] = @ + reward]
        /\ PoolTakes(margin[i].amount - Out)
        /\ UNCHANGED escrow

Cancel(o) ==
    /\ IsHeld(escrow[o]) /\ Out >= escrow[o].amount
    /\ escrow' = [escrow EXCEPT ![o] = Closed]
    /\ Between(escrow[o].owner)
    /\ PoolTakes(escrow[o].amount - Out)
    /\ UNCHANGED margin

\* The escrow becomes a position's margin as it is; no money moves.
Fill(o, i) ==
    /\ IsHeld(escrow[o]) /\ margin[i] = Unused
    /\ margin' = [margin EXCEPT ![i] = escrow[o]]
    /\ escrow' = [escrow EXCEPT ![o] = Closed]
    /\ UNCHANGED <<account, purse, pool>>

\* A stop uses an order id, and holds nothing under it.
PlaceStop(o) ==
    /\ escrow[o] = Unused
    /\ escrow' = [escrow EXCEPT ![o] = Closed]
    /\ UNCHANGED <<account, purse, pool, margin>>

\* The users' own business: tokens move between them, or are given away.
Outside == account' >= account /\ UNCHANGED <<pool, margin, escrow>>

Next ==
    \/ \E u \in Users :
        \/ Share(u)
        \/ \E i \in PositionIds : Lock(u, i) \/ Liquidate(i, u)
        \/ \E o \in OrderIds : Escrow(u, o)
    \/ \E i \in PositionIds : Adjust(i) \/ Close(i)
    \/ \E o \in OrderIds :
        \/ Cancel(o) \/ PlaceStop(o)
        \/ \E i \in PositionIds : Fill(o, i)
    \/ Outside

Spec == Init /\ [][Next]_vars

=============================================================================
