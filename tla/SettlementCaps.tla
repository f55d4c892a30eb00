--------------------------- MODULE SettlementCaps ---------------------------
(* The value caps of the Soroban settlement contract: a maximum for one      *)
(* intent and a rolling-window cap with a breaker, both on the minimum       *)
(* destination amount.  Optional storage entries are sets of at most one     *)
(* element, and the bucket entries a function on the windows that have one.  *)
EXTENDS StellarClock, FiniteSets, Functions

CONSTANTS
    ConfiguredMaxAmount,   \* 0: no maximum
    ConfiguredDuration,    \* 0: no window
    ConfiguredCap,         \* 0: no cap
    AmountMaxima,          \* the maxima the admin may set later
    WindowDurations,       \* the durations the admin may set later
    WindowCaps             \* the window caps the admin may set later

ASSUME CapsAssumption ==
    /\ ConfiguredMaxAmount \in Nat
    /\ ConfiguredDuration \in Nat
    /\ ConfiguredCap \in Nat
    /\ AmountMaxima \subseteq Int
    /\ WindowDurations \subseteq Nat
    /\ WindowCaps \subseteq Int

VARIABLES
    maxIntentAmount,
    rollingWindowDuration,
    rollingWindowCap,
    rollingWindowBucket,    \* [windows with an entry -> accumulated amount]
    latestWindowStart,      \* {} or {start}
    rollingWindowTriggered,
    rollingWindowResetAt    \* {} or {time}

capConfigVars == <<maxIntentAmount, rollingWindowDuration, rollingWindowCap>>
windowVars == <<rollingWindowBucket, latestWindowStart, rollingWindowTriggered,
                rollingWindowResetAt>>
capVars == <<capConfigVars, windowVars>>

CapsInit ==
    /\ maxIntentAmount = ConfiguredMaxAmount
    /\ rollingWindowDuration = ConfiguredDuration
    /\ rollingWindowCap = ConfiguredCap
    /\ rollingWindowBucket = << >>
    /\ latestWindowStart = {}
    /\ rollingWindowTriggered = FALSE
    /\ rollingWindowResetAt = {}
-----------------------------------------------------------------------------
WindowCapActive == rollingWindowDuration > 0 /\ rollingWindowCap > 0

WindowStart == (stellarNow \div rollingWindowDuration) * rollingWindowDuration

(* unwrap_or(0) of an optional entry.                                        *)
OrZero(option) == IF option = {} THEN 0 ELSE CHOOSE t \in option : TRUE

BucketOf(buckets, start) == IF start \in DOMAIN buckets THEN buckets[start] ELSE 0

EntersWindow == WindowStart > OrZero(latestWindowStart)

(* The buckets that are left when the window moves on: the memoized one is   *)
(* dropped.                                                                  *)
LiveBuckets ==
    IF EntersWindow
    THEN Restrict(rollingWindowBucket,
                  DOMAIN rollingWindowBucket \ {OrZero(latestWindowStart)})
    ELSE rollingWindowBucket

Accumulated(amount) == BucketOf(LiveBuckets, WindowStart) + amount

Accumulate(amount) ==
    /\ latestWindowStart' = IF EntersWindow THEN {WindowStart} ELSE latestWindowStart
    /\ rollingWindowBucket' =
          [t \in DOMAIN LiveBuckets \cup {WindowStart} |->
              IF t = WindowStart THEN Accumulated(amount) ELSE LiveBuckets[t]]

(* enforce_value_caps: the cases in which it fails ...                       *)
CapsAllow(amount) ==
    /\ maxIntentAmount > 0 => amount <= maxIntentAmount
    /\ WindowCapActive => ~rollingWindowTriggered

\* The projection compared before the amount is added (a mutant).
AdmitLate(amount) ==
    /\ CapsAllow(amount)
    /\ WindowCapActive => BucketOf(LiveBuckets, WindowStart) <= rollingWindowCap
    /\ IF WindowCapActive THEN Accumulate(amount)
                          ELSE UNCHANGED <<rollingWindowBucket, latestWindowStart>>
    /\ UNCHANGED <<capConfigVars, rollingWindowTriggered, rollingWindowResetAt>>

(* ... the one in which it returns true ...                                  *)
Admit(amount) ==
    /\ CapsAllow(amount)
    /\ WindowCapActive => Accumulated(amount) <= rollingWindowCap
    /\ IF WindowCapActive THEN Accumulate(amount)
                          ELSE UNCHANGED <<rollingWindowBucket, latestWindowStart>>
    /\ UNCHANGED <<capConfigVars, rollingWindowTriggered, rollingWindowResetAt>>

(* ... and the breach, which latches the breaker and returns false.          *)
Breach(amount) ==
    /\ CapsAllow(amount)
    /\ WindowCapActive
    /\ Accumulated(amount) > rollingWindowCap
    /\ Accumulate(amount)
    /\ rollingWindowTriggered' = TRUE
    /\ rollingWindowResetAt' = {stellarNow + rollingWindowDuration}
    /\ UNCHANGED capConfigVars
-----------------------------------------------------------------------------
SetMaxIntentAmount(amount) ==
    /\ amount >= 0
    /\ maxIntentAmount' = amount
    /\ UNCHANGED <<rollingWindowDuration, rollingWindowCap, windowVars>>

SetRollingWindowCap(duration, cap) ==
    /\ cap >= 0
    /\ rollingWindowDuration' = duration
    /\ rollingWindowCap' = cap
    /\ UNCHANGED <<maxIntentAmount, windowVars>>

(* The admin may also reset a breaker that did not trip: no reset time is    *)
(* set then, and the bucket of the latest window goes all the same.          *)
ResetRollingWindowCap ==
    /\ \A t \in rollingWindowResetAt : stellarNow >= t
    /\ rollingWindowBucket' =
          Restrict(rollingWindowBucket, DOMAIN rollingWindowBucket \ latestWindowStart)
    /\ latestWindowStart' =
          IF rollingWindowDuration > 0 THEN {WindowStart} ELSE latestWindowStart
    /\ rollingWindowTriggered' = FALSE
    /\ rollingWindowResetAt' = {}
    /\ UNCHANGED capConfigVars

CapsStep ==
    \/ \E n \in AmountMaxima : SetMaxIntentAmount(n)
    \/ \E d \in WindowDurations, n \in WindowCaps : SetRollingWindowCap(d, n)
    \/ ResetRollingWindowCap
-----------------------------------------------------------------------------
IsOption(option, T) == option \subseteq T /\ \A s, t \in option : s = t

CapsTypeOK ==
    /\ maxIntentAmount \in Nat
    /\ rollingWindowDuration \in Nat
    /\ rollingWindowCap \in Nat
    /\ DOMAIN rollingWindowBucket \subseteq 0 .. MaxTime
    /\ \A t \in DOMAIN rollingWindowBucket : rollingWindowBucket[t] \in Nat
    /\ IsOption(latestWindowStart, 0 .. MaxTime)
    /\ rollingWindowTriggered \in BOOLEAN
    /\ IsOption(rollingWindowResetAt, Nat)
=============================================================================
