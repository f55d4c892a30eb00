------------------------------ MODULE MCBridge ------------------------------
(* Values for the constants of Bridge that are functions of the intents, and *)
(* two timings: timely messages follow one intent, messages that take any    *)
(* time follow two, locked by one solver, whose fills deliver one amount.    *)
EXTENDS Bridge

CONSTANTS h1, h2, usdc, xlm, e1, e2

MCAsset == [h \in Intents |-> usdc]
MCAmount == [h \in Intents |-> 1]
MCMinDest == [h \in Intents |-> 1]
MCDeadline == [h \in Intents |-> IF h = h1 THEN 3 ELSE 4]
MCPreferred == [h \in Intents |-> NoSolver]
MCDestAsset == [h \in Intents |-> xlm]
MCTimely == {[skew |-> 1, latency |-> 1]}
MCTimings == MCTimely \cup {[skew |-> 2, latency |-> 99]}

MCNext ==
    /\ Next
    /\ IF Timely THEN \A h \in Intents \ {h1} : locks'[h] = locks[h]
       ELSE \A h \in Intents :
                /\ locks'[h].solver # e2
                /\ \A k \in DOMAIN deliveries'[h] : deliveries'[h][k].amount = 1

MCSpec ==
    /\ Init /\ [][MCNext]_vars
    /\ WF_vars(EvmTick)
    /\ WF_vars(StellarTick)
    /\ \A n \in 1 .. Cardinality(Intents) : WF_vars(DeliverVerdict(n))
    /\ \A h \in Intents : WF_vars(CancelExpired(h))
=============================================================================
