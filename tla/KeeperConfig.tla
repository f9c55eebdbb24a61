---------------------------- MODULE KeeperConfig ----------------------------
(***************************************************************************)
(* loadConfig: the settings of a keeper process, taken from its            *)
(* environment, from the deploy artifact, or from the defaults, and        *)
(* validated before anything starts.                                       *)
(***************************************************************************)
EXTENDS Integers

CONSTANTS
    Unset,           \* a variable the environment does not have
    ContractIds,     \* the well-formed C... strkeys
    Seeds,           \* the well-formed S... secrets
    Envs,            \* the environments an instance starts keepers in
    Artifact,        \* deploy/testnet.json: its contracts, or Unset when unreadable
    FALLBACK_ENGINE, \* FALLBACK_CONTRACTS.perpEngineId
    DEFAULT_LOOKBACK \* DEFAULT_EVENT_LOOKBACK_LEDGERS

ASSUME ConfigAssumption ==
    /\ FALLBACK_ENGINE \in ContractIds
    /\ DEFAULT_LOOKBACK \in Nat \ {0}
    /\ Artifact = Unset \/ DOMAIN Artifact = {"perp_engine"}
    /\ \A e \in Envs : /\ DOMAIN e = {"secret", "engine", "lookback"}
                      /\ e.lookback \in Int \cup {Unset}

\* value ?? fallback
OrElse(value, fallback) == IF value = Unset THEN fallback ELSE value

\* deploy?.perp_engine
DeployedEngine == IF Artifact = Unset THEN Unset ELSE Artifact.perp_engine

IsValidContractId(value) == value \in ContractIds

PickContractId(envValue, deployValue, fallback) ==
    OrElse(OrElse(envValue, deployValue), fallback)

ParsePositiveInt(value, fallback) == OrElse(value, fallback)

\* What each check of loadConfig lets through; the first that fails throws,
\* and the process ends before it has loaded or sent anything.  The four
\* contract ids go through one and the same check.
LoadConfigOK(env) ==
    /\ env.secret \in Seeds
    /\ IsValidContractId(PickContractId(env.engine, DeployedEngine, FALLBACK_ENGINE))
    /\ ParsePositiveInt(env.lookback, DEFAULT_LOOKBACK) > 0

LoadConfig(env) ==
    [perpEngineId |-> PickContractId(env.engine, DeployedEngine, FALLBACK_ENGINE),
     eventLookbackLedgers |-> ParsePositiveInt(env.lookback, DEFAULT_LOOKBACK)]

=============================================================================
