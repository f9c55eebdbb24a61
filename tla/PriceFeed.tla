------------------------------ MODULE PriceFeed ------------------------------
(***************************************************************************)
(* What the oracle promises the engine about one feed: an accepted price   *)
(* only ever changes to what the upstream quotes at that moment, while the *)
(* quote is fresh, and within the band around the price before it.         *)
(***************************************************************************)
EXTENDS Integers

CONSTANTS
    NoPrice,
    BPS_DENOM

VARIABLES
    quote,     \* the upstream's quote in the protocol's units, and its freshness
    accepted,  \* the last accepted price
    band       \* the widest accepted move, in bps of the accepted price

Distance(a, b) == IF a < b THEN b - a ELSE a - b

\* Less than band + 1 whole bps of the accepted price.  Nothing is near zero.
Near(price) ==
    Distance(price, accepted) * BPS_DENOM < (band + 1) * accepted

Init == accepted = NoPrice

Accept ==
    /\ quote # NoPrice
    /\ quote.fresh
    /\ quote.price >= 0
    /\ accepted = NoPrice \/ Near(quote.price)
    /\ accepted' = quote.price
    /\ UNCHANGED <<quote, band>>

\* The upstream, the clock and the admin move; what was accepted stays.
Elsewhere == UNCHANGED accepted

Next == Accept \/ Elsewhere

Spec == Init /\ [][Next]_<<quote, accepted, band>>

=============================================================================
