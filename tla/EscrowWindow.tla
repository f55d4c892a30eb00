---------------------------- MODULE EscrowWindow ----------------------------
(* The escrow with a history of when each intent was locked, for what the    *)
(* rolling-window cap of EscrowCaps promises.                                *)
EXTENDS Escrow

VARIABLE lockedAt  \* when an intent was locked under the present configuration, or 0

WindowInit == Init /\ lockedAt = [h \in Intents |-> 0]

WindowNext ==
    /\ Next
    /\ lockedAt' = [h \in Intents |->
           IF windowConfigVars' # windowConfigVars THEN 0
           ELSE IF ~Locked(h) /\ locks'[h].solver # NoSolver THEN evmNow
           ELSE lockedAt[h]]

WindowSpec == WindowInit /\ [][WindowNext]_<<vars, lockedAt>>

LockedSince(asset, start) ==
    [h \in Intents |->
        IF SourceAsset[h] = asset /\ lockedAt[h] # 0 /\ lockedAt[h] >= start
        THEN locks[h].amount ELSE 0]

(* The rolling-window cap: under one configuration, what is locked of an     *)
(* asset within one window never exceeds its cap, although the breaker is    *)
(* reset, the bucket of a window is deleted and other assets are locked.     *)
WindowCapHolds ==
    \A a \in Assets :
        WindowCapActive(a) =>
            Total(IntentOrder, LockedSince(a, WindowStart)) <= rollingWindowCapPerAsset[a]
=============================================================================
