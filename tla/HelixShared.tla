---------------------------- MODULE HelixShared -----------------------------
(***************************************************************************)
(* The addresses and the fixed-point arithmetic every contract uses        *)
(* (contracts/shared).  Every amount of the protocol is an integer; the    *)
(* only inexact operation is Rust's `/`, which truncates toward zero.  The *)
(* i128 range is far above anything the contracts can hold and overflow    *)
(* traps, so widths are not modelled.                                      *)
(***************************************************************************)
EXTENDS Integers, FiniteSets

CONSTANTS
    Users,          \* every address that is not a contract: LPs, traders, keepers
    BPS_DENOM,      \* basis-point denominator, 10_000 in the code
    FUNDING_SCALE   \* scale of the cumulative funding index, 10^18 in the code

\* update_funding multiplies by FUNDING_SCALE / BPS_DENOM: the code's values
\* divide exactly, and so must an instance's.
ASSUME ScaleAssumption ==
    /\ BPS_DENOM \in Nat \ {0}
    /\ FUNDING_SCALE \in Nat \ {0}
    /\ FUNDING_SCALE % BPS_DENOM = 0

\* A ledger has finitely many accounts.
ASSUME UsersAssumption == IsFiniteSet(Users)

Long  == "Long"
Short == "Short"
Sides == {Long, Short}

\* Rust integer division for a positive divisor: toward zero, where TLA+'s
\* \div rounds toward minus infinity.
TDiv(a, b) == IF a >= 0 THEN a \div b ELSE -((-a) \div b)

MulDiv(a, b, denom) == TDiv(a * b, denom)

AbsDiff(a, b) == IF a >= b THEN a - b ELSE b - a

MaxOf(a, b) == IF a >= b THEN a ELSE b
MinOf(a, b) == IF a <= b THEN a ELSE b

ApplyBps(amount, bps) == MulDiv(amount, bps, BPS_DENOM)

\* The division by a zero entry price traps: callers guard it with entry # 0.
PositionPnl(notional, entry, mark, side) ==
    MulDiv(notional, IF side = Long THEN mark - entry ELSE entry - mark, entry)

FundingPayment(notional, cumNow, cumEntry, side) ==
    LET raw == MulDiv(notional, cumNow - cumEntry, FUNDING_SCALE)
    IN  IF side = Long THEN raw ELSE -raw

-----------------------------------------------------------------------------
\* For the properties: the sum of a function into Nat, counted unit by unit.
\* (A cardinality, so that the finite-set theorems apply to it.)
Units(f) == UNION {{i} \X (1 .. f[i]) : i \in DOMAIN f}
Total(f) == Cardinality(Units(f))

=============================================================================
