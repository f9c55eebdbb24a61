---------------------------- MODULE MC_PriceRelay ----------------------------
(* One feed, the mock oracle and an upstream of another precision.          *)
EXTENDS PriceRelay

CONSTANTS mock, pyth

\* One decimal more than the protocol's, and one less.
MC_Decimals == [u \in {mock, pyth} |-> IF u = mock THEN 8 ELSE 6]

\* An upstream that quotes with less precision than the protocol, always fresh.
MC_OtherQuotes == [u \in {pyth} |-> [a \in Assets |-> Quote(9, MaxTime)]]

Switches(r, s, y) == [relay |-> r, simulate |-> s, symbol |-> y]
\* Relaying with and without the fallback.  When Reflector has no record, they
\* are also a market that has no symbol: simulated, or left alone.
MC_Flags == {Switches(TRUE, FALSE, TRUE), Switches(TRUE, TRUE, TRUE)}

Guard(age, bps) == [max_age |-> age, max_deviation_bps |-> bps]
\* deploy_testnet.ps1, and what refresh_oracle.ps1 widens it to.
DeployedGuards == Guard(0, 2000)
RefreshedGuards == Guard(1, 5000)
\* Not positive; and less than a protocol unit from one upstream, 90 from the other.
MC_RawPrices == {-10, 9}

MC_Guards == {DeployedGuards, RefreshedGuards}

=============================================================================
