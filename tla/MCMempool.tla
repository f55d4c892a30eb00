----------------------------- MODULE MCMempool -----------------------------
(* A small mempool with its reporters for TLC: in one half of the initial states the   *)
(* pages of a listing are followed, in the other half the reports and those who wait   *)
(* for them.                                                                           *)
EXTENDS ReleasedWatcher, TLC

CONSTANTS h1, h2, h3, h4

MCDeadline == [h \in Hashes |-> IF h = h1 THEN 3 ELSE 2]
MCSymmetry == Permutations({h2, h3, h4})

VARIABLE listed  \* is a listing followed?

MCInit == Init /\ listed \in BOOLEAN
MCNext ==
    /\ Next
    /\ IF listed THEN UNCHANGED <<blocks, at, scan, nextBlock, stopped, polling>>
                 ELSE UNCHANGED listing /\ \A h \in Hashes \ Settling : UNCHANGED polling[h]
    /\ UNCHANGED listed
MCSpec == MCInit /\ [][MCNext]_<<vars, listed>>
MCFairSpec == MCSpec /\ Fairness

=============================================================================
