------------------------------ MODULE MCSolver ------------------------------
(* The parts of the solver side by side: the initial state chooses the part  *)
(* that moves (the fills, the memory or the quoting), and the others stay    *)
(* where they start.                                                         *)
EXTENDS Solver, SolverMemory, Quote, TLC

CONSTANTS
    Parts,
    MaxLate  \* bound: fills in flight when a tick begins

MCSymmetry == Permutations(Hashes)

VARIABLE part

(* Quote: an intent that pays, and others that differ from it in one field.  *)

PayingIntent ==
    [chain |-> "ours", asset |-> "listed", preferred |-> "anyone", amount |-> 100,
     min |-> 900, srcDecimals |-> 1, dstDecimals |-> 2, deadline |-> 4]

MCQuoted ==
    {PayingIntent,
     [PayingIntent EXCEPT !.preferred = "other"],
     [PayingIntent EXCEPT !.amount = 999],
     [PayingIntent EXCEPT !.min = 80, !.srcDecimals = 2, !.dstDecimals = 1],
     [PayingIntent EXCEPT !.deadline = 3],
     [PayingIntent EXCEPT !.srcDecimals = Absent]}

MCQuotes ==
    [rate |-> {10, 9, 0, 100}, fee |-> {0, 45, 90, Absent}, available |-> {2000, 950},
     reserved |-> {0, 60}, source |-> {5, 1, Absent}, estimate |-> {Absent, 3},
     dest |-> {2, 1}, destEstimate |-> {Absent, 1}]

-----------------------------------------------------------------------------
mcVars == <<part, vars, memoryVars, quoteVars>>

\* A contested intent is pending with a valid record at first; the other need not be.
MCInit ==
    /\ part \in Parts /\ Init /\ MemoryInit /\ QuoteInit
    /\ \A i \in IF part = "fills" THEN Contested ELSE Intents : record[i] = "valid"

\* The fills are followed to a second attempt, or past a restart, not both.
Bounded ==
    /\ Cardinality(late) <= MaxLate
    /\ crashes = 0 \/ \A i \in Intents : tries[i] = 0

MCNext ==
    /\ UNCHANGED part
    /\ IF part = "fills" THEN Next /\ Bounded' ELSE UNCHANGED vars
    /\ IF part = "memory" THEN MemoryNext ELSE UNCHANGED memoryVars
    /\ IF part = "quote" THEN QuoteNext ELSE UNCHANGED quoteVars

MCSpec == MCInit /\ [][MCNext]_mcVars
MCFairSpec == MCSpec /\ Fairness
=============================================================================
