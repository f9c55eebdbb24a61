------------------------- MODULE MC_CollateralVault -------------------------
(* The vault with two accounts, and an engine that calls it arbitrarily.    *)
EXTENDS CollateralVault

CONSTANTS u1, u2, vault

MC_Users == {u1, u2}
MC_Amounts == -1 .. 3
MC_ShareAmounts == -1 .. 3

=============================================================================
