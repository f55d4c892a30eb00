----------------------------- MODULE EscrowCaps -----------------------------
(* The value caps of PerihelionEscrow.sol: the asset allowlist, the maximum  *)
(* of one lock, and the rolling-window cap with its breaker.  A window of    *)
(* duration d starts at every multiple of d; each asset has a bucket per     *)
(* window start.                                                             *)
EXTENDS EscrowAdmin

CONSTANTS
    Assets,             \* the ERC-20 tokens in use
    NoAsset,            \* address(0)
    ConfiguredMax,      \* [Assets -> Nat]: the maxima set before opening
    ConfiguredGlobalMax,
    ConfiguredDuration,
    ConfiguredCap,      \* [Assets -> Nat]
    ConfigCallers,      \* the accounts that configure the contract in the instance
    ToggledAssets,      \* the assets listed and delisted later
    LockMaxima,         \* the maxima the owner may set later
    WindowDurations,    \* the durations the owner may set later
    WindowCaps          \* the window caps the owner may set later

ASSUME CapsAssumption ==
    /\ NoAsset \notin Assets
    /\ ConfiguredMax \in [Assets -> Nat]
    /\ ConfiguredCap \in [Assets -> Nat]
    /\ ConfiguredGlobalMax \in Nat
    /\ ConfiguredDuration \in Nat
    /\ ConfigCallers \subseteq Accounts
    /\ ToggledAssets \subseteq Assets
    /\ LockMaxima \subseteq Nat
    /\ WindowDurations \subseteq Nat
    /\ WindowCaps \subseteq Nat

VARIABLES
    assetAllowed,                \* the set of allowlisted assets
    maxIntentAmountPerAsset,
    maxIntentAmount,
    rollingWindowDuration,
    rollingWindowCapPerAsset,
    rollingWindowBuckets,        \* [Assets -> [window start -> amount]]
    latestWindowStart,           \* [Assets -> window start]
    rollingWindowTriggered,
    rollingWindowTriggeredAsset,
    rollingWindowResetEarliestAt

limitVars == <<assetAllowed, maxIntentAmountPerAsset, maxIntentAmount>>
windowConfigVars == <<rollingWindowDuration, rollingWindowCapPerAsset>>
windowUseVars == <<rollingWindowBuckets, latestWindowStart>>
breakerVars == <<rollingWindowTriggered, rollingWindowTriggeredAsset,
                 rollingWindowResetEarliestAt>>
capVars == <<limitVars, windowConfigVars, windowUseVars, breakerVars>>

(* The owner has configured the listed assets; nothing was locked yet.       *)
CapsInit ==
    /\ assetAllowed = Assets
    /\ maxIntentAmountPerAsset = ConfiguredMax
    /\ maxIntentAmount = ConfiguredGlobalMax
    /\ rollingWindowDuration = ConfiguredDuration
    /\ rollingWindowCapPerAsset = ConfiguredCap
    /\ rollingWindowBuckets = [a \in Assets |-> [t \in 0 .. MaxTime |-> 0]]
    /\ latestWindowStart = [a \in Assets |-> 0]
    /\ rollingWindowTriggered = FALSE
    /\ rollingWindowTriggeredAsset = NoAsset
    /\ rollingWindowResetEarliestAt = 0
-----------------------------------------------------------------------------
WindowStart == (evmNow \div rollingWindowDuration) * rollingWindowDuration

WindowCapActive(asset) ==
    rollingWindowDuration > 0 /\ rollingWindowCapPerAsset[asset] > 0

(* What the current window has used: a bucket is read only from the asset's  *)
(* latest window on.                                                         *)
WindowUse(asset) ==
    IF WindowStart > latestWindowStart[asset]
    THEN 0
    ELSE rollingWindowBuckets[asset][WindowStart]

(* _checkValueCaps: the conditions that revert when they fail ...            *)
CapsAllow(asset, amount) ==
    /\ maxIntentAmountPerAsset[asset] > 0
    /\ amount <= maxIntentAmountPerAsset[asset]
    /\ ~rollingWindowTriggered

(* ... and the one that latches the breaker and returns false.               *)
BreachesWindow(asset, amount) ==
    /\ WindowCapActive(asset)
    /\ WindowUse(asset) + amount > rollingWindowCapPerAsset[asset]

LatchBreaker(asset) ==
    /\ rollingWindowTriggered' = TRUE
    /\ rollingWindowTriggeredAsset' = asset
    /\ rollingWindowResetEarliestAt' = evmNow + rollingWindowDuration
    /\ UNCHANGED <<limitVars, windowConfigVars, windowUseVars>>

(* _commitValueCaps: the bucket takes what was received, not what was asked. *)
CommitToWindow(asset, received) ==
    /\ IF WindowCapActive(asset)
       THEN /\ rollingWindowBuckets' =
                  [rollingWindowBuckets EXCEPT ![asset][WindowStart] = @ + received]
            /\ latestWindowStart' =
                  [latestWindowStart EXCEPT ![asset] =
                      IF WindowStart > @ THEN WindowStart ELSE @]
       ELSE UNCHANGED windowUseVars
    /\ UNCHANGED <<limitVars, windowConfigVars, breakerVars>>
-----------------------------------------------------------------------------
SetAssetAllowed(caller, asset, allowed) ==
    /\ caller = owner
    /\ assetAllowed' = IF allowed THEN assetAllowed \cup {asset}
                                  ELSE assetAllowed \ {asset}
    /\ UNCHANGED <<maxIntentAmountPerAsset, maxIntentAmount, windowConfigVars,
                   windowUseVars, breakerVars>>

SetMaxIntentAmountPerAsset(caller, asset, amount) ==
    /\ caller = owner
    /\ maxIntentAmountPerAsset' = [maxIntentAmountPerAsset EXCEPT ![asset] = amount]
    /\ UNCHANGED <<assetAllowed, maxIntentAmount, windowConfigVars, windowUseVars,
                   breakerVars>>

SetMaxIntentAmount(caller, amount) ==
    /\ caller = owner
    /\ maxIntentAmount' = amount
    /\ UNCHANGED <<assetAllowed, maxIntentAmountPerAsset, windowConfigVars,
                   windowUseVars, breakerVars>>

(* The protocol-wide setter also replaces the duration that every per-asset  *)
(* cap uses; its own cap, rollingWindowCap, is read nowhere and left out.    *)
SetRollingWindowCap(caller, duration, cap) ==
    /\ caller = owner
    /\ cap > 0 => duration > 0
    /\ duration <= evmNow
    /\ rollingWindowDuration' = duration
    /\ UNCHANGED <<limitVars, rollingWindowCapPerAsset, windowUseVars, breakerVars>>

SetRollingWindowCapForAsset(caller, asset, duration, cap) ==
    /\ caller = owner
    /\ asset \in assetAllowed
    /\ cap > 0 => duration > 0
    /\ duration <= evmNow
    /\ rollingWindowDuration' = duration
    /\ rollingWindowCapPerAsset' = [rollingWindowCapPerAsset EXCEPT ![asset] = cap]
    /\ UNCHANGED <<limitVars, windowUseVars, breakerVars>>

\* A reset that may come at once (a mutant).
ResetAtOnce(caller) ==
    /\ caller = owner
    /\ rollingWindowTriggered' = FALSE
    /\ rollingWindowTriggeredAsset' = NoAsset
    /\ rollingWindowBuckets' =
          IF rollingWindowDuration > 0 /\ rollingWindowTriggeredAsset # NoAsset
          THEN [rollingWindowBuckets EXCEPT
                   ![rollingWindowTriggeredAsset][WindowStart] = 0]
          ELSE rollingWindowBuckets
    /\ UNCHANGED <<limitVars, windowConfigVars, latestWindowStart,
                   rollingWindowResetEarliestAt>>

ResetRollingWindowCap(caller) ==
    /\ caller = owner
    /\ evmNow >= rollingWindowResetEarliestAt
    /\ rollingWindowTriggered' = FALSE
    /\ rollingWindowTriggeredAsset' = NoAsset
    /\ rollingWindowBuckets' =
          IF rollingWindowDuration > 0 /\ rollingWindowTriggeredAsset # NoAsset
          THEN [rollingWindowBuckets EXCEPT
                   ![rollingWindowTriggeredAsset][WindowStart] = 0]
          ELSE rollingWindowBuckets
    /\ UNCHANGED <<limitVars, windowConfigVars, latestWindowStart,
                   rollingWindowResetEarliestAt>>

CapsStep ==
    \E c \in ConfigCallers :
        \/ \E a \in ToggledAssets, b \in BOOLEAN : SetAssetAllowed(c, a, b)
        \/ \E a \in Assets, n \in LockMaxima : SetMaxIntentAmountPerAsset(c, a, n)
        \/ \E n \in LockMaxima : SetMaxIntentAmount(c, n)
        \/ \E d \in WindowDurations, n \in WindowCaps : SetRollingWindowCap(c, d, n)
        \/ \E a \in Assets, d \in WindowDurations, n \in WindowCaps :
              SetRollingWindowCapForAsset(c, a, d, n)
        \/ ResetRollingWindowCap(c)
-----------------------------------------------------------------------------
CapsTypeOK ==
    /\ assetAllowed \subseteq Assets
    /\ maxIntentAmountPerAsset \in [Assets -> Nat]
    /\ maxIntentAmount \in Nat
    /\ rollingWindowDuration \in Nat
    /\ rollingWindowCapPerAsset \in [Assets -> Nat]
    /\ rollingWindowBuckets \in [Assets -> [0 .. MaxTime -> Nat]]
    /\ latestWindowStart \in [Assets -> 0 .. MaxTime]
    /\ rollingWindowTriggered \in BOOLEAN
    /\ rollingWindowTriggeredAsset \in Assets \cup {NoAsset}
    /\ rollingWindowResetEarliestAt \in Nat
=============================================================================
