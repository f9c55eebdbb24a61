------------------------------ MODULE MC_Keeper ------------------------------
(* A keeper, its RPC node and a chain with two positions and one order.     *)
EXTENDS Keeper

CONSTANTS seed, engine, junk

Env(s, e, n) == [secret |-> s, engine |-> e, lookback |-> n]

\* deploy/testnet.json as the deployment script leaves it.
MC_Artifact == [perp_engine |-> engine]

\* The defaults, and the ways a configuration is refused.
MC_Envs ==
    {Env(seed, Unset, Unset), Env(Unset, Unset, Unset),
     Env(seed, junk, Unset), Env(seed, engine, 0)}

=============================================================================
