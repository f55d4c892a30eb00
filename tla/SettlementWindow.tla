-------------------------- MODULE SettlementWindow --------------------------
(* The settlement contract with a history of when each intent was            *)
(* registered, for what the rolling-window cap of SettlementCaps promises.   *)
EXTENDS Settlement, Aggregates

VARIABLE registeredAt  \* when an intent was registered under this configuration, or 0

WindowInit == Init /\ registeredAt = [h \in Intents |-> 0]

\* A change of the window, or the reset of a breaker that is not latched,
\* starts the accounting afresh.
Restarts ==
    \/ <<rollingWindowDuration, rollingWindowCap>>' # <<rollingWindowDuration, rollingWindowCap>>
    \/ ResetRollingWindowCap /\ ~rollingWindowTriggered

WindowNext ==
    /\ Next
    /\ registeredAt' = [h \in Intents |->
           IF Restarts THEN 0
           ELSE IF record[h].status = "Unregistered" /\ record'[h].status = "Locked"
                THEN stellarNow
           ELSE registeredAt[h]]

WindowSpec == WindowInit /\ [][WindowNext]_<<vars, registeredAt>>

IntentOrder == SetToSeq(Intents)

RegisteredSince(start) ==
    [h \in Intents |->
        IF registeredAt[h] # 0 /\ registeredAt[h] >= start THEN MinDestAmount[h] ELSE 0]

(* The rolling-window cap: under one configuration the minimum amounts of    *)
(* the intents registered within one window never exceed the cap, whatever   *)
(* the breaker, its reset and the pruning of old buckets do in between.      *)
WindowCapHolds ==
    WindowCapActive => Total(IntentOrder, RegisteredSince(WindowStart)) <= rollingWindowCap
=============================================================================
