------------------------------ MODULE Startup ------------------------------
(***************************************************************************)
(* How the solver, the relayer and the mempool read one deployment's       *)
(* environment (config.ts, executor-config.ts and cli.ts of each package),  *)
(* and what they refuse to start with.  A setting is a class of strings:    *)
(* "unset", "blank" (the empty string), "spaces", "junk", or a value; a     *)
(* number that is not written down is negative.                            *)
(***************************************************************************)
EXTENDS Integers

CONSTANTS
    Environments,          \* the deployments: functions of Settings
    DefaultConfirmations,  \* 6
    DefaultMargin          \* 15

Settings ==
    {"PERIHELION_SETTLEMENT_CONTRACT", "PERIHELION_SETTLEMENT_CONTRACT_ID",
     "PERIHELION_SOROBAN_RPC_URL", "PERIHELION_STELLAR_RPC_URL", "PERIHELION_EVM_RPC_URL",
     "PERIHELION_SOLVER_ADDRESS", "PERIHELION_EVM_PRIVATE_KEY", "PERIHELION_ESCROW_ADDRESS",
     "PERIHELION_SOURCE_CHAIN_ID", "PERIHELION_SOLVER_MODE", "PERIHELION_RELAYER_MODE",
     "STELLAR_NETWORK", "PERIHELION_ALLOW_ENDPOINT_IMPERSONATION",
     "PERIHELION_ALLOW_PUBNET_DEV_RELAYER", "PERIHELION_CONFIRMATIONS",
     "PERIHELION_MIN_MARGIN_BPS", "secrets"}

UnsetNumber == -1
BlankNumber == -2
NotANumber == -3

ASSUME StartupAssumption ==
    /\ \A e \in Environments : DOMAIN e = Settings
    /\ DefaultConfirmations \in Nat /\ DefaultMargin \in Nat

VARIABLES
    env,
    solver, relayer, mempool  \* the configuration each one runs with, or Stopped

startupVars == <<env, solver, relayer, mempool>>

Stopped == [running |-> FALSE]

-----------------------------------------------------------------------------
(* Reading a setting *)

\* A value after trim() that is not the empty string, and one that is not falsy.
IsSet(v) == v \notin {"unset", "blank", "spaces"}
IsTruthy(v) == v \notin {"unset", "blank"}
IsProper(v) == IsSet(v) /\ v # "junk"

\* Two different values are no conflict (a mutant).
NoConflict(v, alias) == FALSE

\* readUnified and readWithLegacy: a name wins over its alias if both agree.
Conflict(v, alias) == IsSet(v) /\ IsSet(alias) /\ v # alias
ReadUnified(name, legacyName) ==
    IF IsSet(env[name]) THEN env[name]
    ELSE IF IsSet(env[legacyName]) THEN env[legacyName] ELSE "unset"

\* The relayer's name ?? alias: an empty string is a value.
NullishOr(v, alias) == IF v = "unset" THEN alias ELSE v

\* Number(raw ?? default): an empty string is 0.
NumberOr(n, default) ==
    CASE n = UnsetNumber -> default [] n = BlankNumber -> 0 [] OTHER -> n

IsBasisPoints(n) == 0 <= n /\ n <= 10000

Chain == env["PERIHELION_SOURCE_CHAIN_ID"]
Escrow == env["PERIHELION_ESCROW_ADDRESS"]
DerivedAddress == env["PERIHELION_EVM_PRIVATE_KEY"]

-----------------------------------------------------------------------------
(* The solver *)

\* loadConfig of src/solver/src/config.ts.
SolverConfigured ==
    /\ IsProper(env["PERIHELION_SOLVER_ADDRESS"]) /\ IsProper(Escrow) /\ Chain > 0
    /\ ~Conflict(env["PERIHELION_SETTLEMENT_CONTRACT"], env["PERIHELION_SETTLEMENT_CONTRACT_ID"])
    /\ ~Conflict(env["PERIHELION_SOROBAN_RPC_URL"], env["PERIHELION_STELLAR_RPC_URL"])
    /\ IsBasisPoints(NumberOr(env["PERIHELION_MIN_MARGIN_BPS"], DefaultMargin))

\* loadExecutorConfig: it has what it needs, and the key is the configured address'.
ExecutorSettlement ==
    ReadUnified("PERIHELION_SETTLEMENT_CONTRACT_ID", "PERIHELION_SETTLEMENT_CONTRACT")
ExecutorRpc == ReadUnified("PERIHELION_SOROBAN_RPC_URL", "PERIHELION_STELLAR_RPC_URL")

ExecutorConfigured ==
    /\ IsTruthy(env["PERIHELION_EVM_RPC_URL"]) /\ IsTruthy(env["STELLAR_NETWORK"])
    /\ IsProper(DerivedAddress) /\ IsTruthy(env["secrets"])
    /\ IsSet(ExecutorSettlement) /\ IsSet(ExecutorRpc)
    /\ ~Conflict(env["PERIHELION_SETTLEMENT_CONTRACT_ID"], env["PERIHELION_SETTLEMENT_CONTRACT"])
    /\ DerivedAddress = env["PERIHELION_SOLVER_ADDRESS"]

WatchOnly == env["PERIHELION_SOLVER_MODE"] = "watch"

StartSolver ==
    /\ ~solver.running
    /\ SolverConfigured
    /\ \/ WatchOnly
       \/ ~IsSet(env["PERIHELION_SOLVER_MODE"]) /\ ExecutorConfigured
    /\ solver' = [running |-> TRUE, executing |-> ~WatchOnly,
                  address |-> env["PERIHELION_SOLVER_ADDRESS"],
                  escrow |-> Escrow, chain |-> Chain,
                  settlement |-> ReadUnified("PERIHELION_SETTLEMENT_CONTRACT",
                                             "PERIHELION_SETTLEMENT_CONTRACT_ID"),
                  rpc |-> ReadUnified("PERIHELION_SOROBAN_RPC_URL", "PERIHELION_STELLAR_RPC_URL"),
                  executorSettlement |-> ExecutorSettlement, executorRpc |-> ExecutorRpc,
                  signer |-> DerivedAddress, network |-> env["STELLAR_NETWORK"],
                  margin |-> NumberOr(env["PERIHELION_MIN_MARGIN_BPS"], DefaultMargin)]
    /\ UNCHANGED <<env, relayer, mempool>>

-----------------------------------------------------------------------------
(* The relayer *)

RelayerSettlement ==
    NullishOr(env["PERIHELION_SETTLEMENT_CONTRACT_ID"], env["PERIHELION_SETTLEMENT_CONTRACT"])
RelayerRpc ==
    NullishOr(env["PERIHELION_SOROBAN_RPC_URL"], env["PERIHELION_STELLAR_RPC_URL"])
\* Unset is "dev"; an empty mode is not.
RelayerMode == NullishOr(env["PERIHELION_RELAYER_MODE"], "dev")
Confirmations == NumberOr(env["PERIHELION_CONFIRMATIONS"], DefaultConfirmations)

\* loadConfig of src/relayer/src/config.ts.
RelayerConfigured ==
    /\ IsProper(Escrow) /\ IsProper(RelayerSettlement) /\ IsProper(RelayerRpc)
    /\ IsProper(env["PERIHELION_EVM_RPC_URL"]) /\ IsProper(env["secrets"])
    /\ IsTruthy(env["STELLAR_NETWORK"])
    /\ Confirmations >= 0
    /\ RelayerMode \in {"dev", "executor"}
    /\ RelayerMode = "dev" /\ env["STELLAR_NETWORK"] = "pubnet" =>
           env["PERIHELION_ALLOW_ENDPOINT_IMPERSONATION"] = "true"

\* assertSafeRelayerMode: only where the mode is spelled out; any name of Pubnet.
SafeRelayerMode ==
    /\ env["PERIHELION_RELAYER_MODE"] = "dev"
    /\ env["STELLAR_NETWORK"] \in {"pubnet", "public"}
    => env["PERIHELION_ALLOW_PUBNET_DEV_RELAYER"] = "true"

StartRelayer ==
    /\ ~relayer.running
    /\ RelayerConfigured /\ SafeRelayerMode
    /\ relayer' = [running |-> TRUE, escrow |-> Escrow, settlement |-> RelayerSettlement,
                   rpc |-> RelayerRpc, network |-> env["STELLAR_NETWORK"],
                   mode |-> env["PERIHELION_RELAYER_MODE"], confirmations |-> Confirmations]
    /\ UNCHANGED <<env, solver, mempool>>

-----------------------------------------------------------------------------
(* The mempool *)

\* loadConfig of src/mempool/src/config.ts, and the constructor of its server.
MempoolConfigured == IsProper(Escrow) /\ Escrow # "zero" /\ Chain > 0

StartMempool ==
    /\ ~mempool.running
    /\ MempoolConfigured
    /\ mempool' = [running |-> TRUE, escrow |-> Escrow, chain |-> Chain]
    /\ UNCHANGED <<env, solver, relayer>>

-----------------------------------------------------------------------------
\* A changed environment is for the next start: all three are down when it changes.
StartupInit ==
    /\ env \in Environments
    /\ solver = Stopped /\ relayer = Stopped /\ mempool = Stopped

StartupNext == StartSolver \/ StartRelayer \/ StartMempool

StartupSpec == StartupInit /\ [][StartupNext]_startupVars

-----------------------------------------------------------------------------
(* Properties *)

\* readUnified, readWithLegacy and the relayer's ?? choose among four pairs of names in
\* their own orders: what starts from one environment speaks of one bridge.
PartiesAgree ==
    /\ solver.running /\ mempool.running =>
           solver.escrow = mempool.escrow /\ solver.chain = mempool.chain
    /\ solver.running /\ relayer.running =>
           /\ solver.escrow = relayer.escrow
           /\ solver.settlement = relayer.settlement /\ solver.rpc = relayer.rpc
           /\ solver.executing =>
                  /\ solver.executorSettlement = relayer.settlement
                  /\ solver.executorRpc = relayer.rpc
                  /\ solver.network = relayer.network

\* cli.ts:52-67 of the solver: the address that it is eligible with is the one it signs with.
EligibleIsSigner == solver.running /\ solver.executing => solver.signer = solver.address

\* The services of one deployment serve one bridge, under one identity.
OneDeployment == PartiesAgree /\ EligibleIsSigner

\* assertSafeRelayerMode, cli.ts:19-27: impersonating the endpoint "must never be pointed at
\* Pubnet without an explicit, deliberate override".  Every mode does the same delivery.
PubnetNeedsOverride ==
    relayer.running /\ relayer.network \in {"pubnet", "public"} =>
        "true" \in {env["PERIHELION_ALLOW_ENDPOINT_IMPERSONATION"],
                    env["PERIHELION_ALLOW_PUBNET_DEV_RELAYER"]}

\* src/relayer/README.md:73-86: PERIHELION_RELAYER_MODE "must be dev; any other value (or
\* unset) refuses to start".
StartsOnlyInDevMode == relayer.running => relayer.mode = "dev"

\* relayer-runbook.md:195, running-a-solver.md:85: a setting that is left empty has its
\* default.
EmptyIsDefault ==
    /\ relayer.running /\ env["PERIHELION_CONFIRMATIONS"] \in {UnsetNumber, BlankNumber} =>
           relayer.confirmations = DefaultConfirmations
    /\ solver.running /\ env["PERIHELION_MIN_MARGIN_BPS"] \in {UnsetNumber, BlankNumber} =>
           solver.margin = DefaultMargin

=============================================================================
