---------------------------- MODULE StellarClock ----------------------------
(* The ledger timestamp of Stellar, in the time unit of module EvmClock.     *)
(* Ledger sequence numbers advance with it and are counted in the same unit. *)
EXTENDS Integers

CONSTANTS
    StartTime,
    MaxTime     \* the bound on the clock: the horizon of the model

ASSUME ClockAssumption ==
    /\ StartTime \in Nat \ {0}
    /\ MaxTime \in Nat
    /\ StartTime <= MaxTime

VARIABLE stellarNow

Times == StartTime .. MaxTime

ClockInit == stellarNow = StartTime

StellarTick ==
    /\ stellarNow < MaxTime
    /\ stellarNow' = stellarNow + 1
=============================================================================
