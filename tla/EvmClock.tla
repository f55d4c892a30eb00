------------------------------ MODULE EvmClock ------------------------------
(* block.timestamp of the source chain.  Time is counted in units of thirty  *)
(* minutes, the granularity of every window of the protocol; MaxTime bounds  *)
(* the clock so that TLC terminates.                                         *)
EXTENDS Integers

CONSTANTS
    StartTime,  \* the time of deployment
    MaxTime     \* the bound on the clock: the horizon of the model

ASSUME ClockAssumption ==
    /\ StartTime \in Nat \ {0}
    /\ MaxTime \in Nat
    /\ StartTime <= MaxTime

VARIABLE evmNow

Times == StartTime .. MaxTime

ClockInit == evmNow = StartTime

EvmTick ==
    /\ evmNow < MaxTime
    /\ evmNow' = evmNow + 1
=============================================================================
