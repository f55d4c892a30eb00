-------------------------- MODULE ReleasedWatcher --------------------------
(***************************************************************************)
(* The mempool with those who report to it: the solver, which reports what *)
(* it delivered (Solver.reportFilled), the relayer, which reports refunds  *)
(* (Relayer.onRefundObserved), and the watcher of the escrow's Released    *)
(* events (src/solver/src/released-watcher.ts), which is modelled step by  *)
(* step: its range, its cursor, failing calls, stop and restart.           *)
(***************************************************************************)
EXTENDS Mempool, FiniteSets, FiniteSetsExt

CONSTANTS
    Settling,       \* the intents whose fate is followed
    FirstBlock,     \* options.startBlock, 0 if it is not given
    MaxBlockRange,
    TokenRequired,  \* the server was given a statusToken
    MaxBlocks,      \* bound: height of the source chain
    MaxStops        \* bound: stops and crashes of the watcher

ASSUME WatcherAssumption ==
    /\ Settling \subseteq Hashes
    /\ {FirstBlock, MaxBlocks, MaxStops} \subseteq Nat /\ MaxBlockRange \in Nat \ {0}
    /\ TokenRequired \in BOOLEAN

VARIABLES
    fate,       \* what became of each intent on the two chains; "lost": it was delivered
                \* on the one and then refunded on the other
    blocks,     \* blocks[n]: the intents whose Released event is in block n
    at,         \* where the watcher's loop is
    scan,       \* the local variables of pollOnce, and the report in flight at stop()
    nextBlock,  \* 0: undefined
    reported,   \* intents the watcher need not report again
    stopped, stops

chains  == <<fate, blocks>>
watcher == <<at, scan, nextBlock, reported, stopped, stops>>
vars    == <<mempool, chains, watcher>>

head == Len(blocks)
NoScan == [head |-> 0, from |-> 0, to |-> 0, events |-> {}, inFlight |-> None]

-----------------------------------------------------------------------------
(* The chains and the other reporters *)

WasDelivered == {"delivered", "released", "lost"}
WasRefunded == {"refunded", "lost"}

Deliver(h) ==
    /\ fate[h] = None
    /\ fate' = [fate EXCEPT ![h] = "delivered"]
    /\ UNCHANGED <<mempool, blocks, watcher>>

\* A block of the source chain, with releases and refunds: the escrow refunds after the
\* deadline and its grace, also what was delivered when the confirmation is late.  A block
\* stays: a reorganisation of the source chain is not modelled, here or in the watcher.
Mine ==
    /\ head < MaxBlocks
    /\ \E released \in SUBSET {h \in Settling : fate[h] = "delivered"},
          refunded \in SUBSET {h \in Settling : fate[h] \in {None, "delivered"}} :
          /\ released \cap refunded = {}
          /\ blocks' = Append(blocks, released)
          /\ fate' = [h \in Settling |->
                         IF h \in released THEN "released"
                         ELSE IF h \notin refunded THEN fate[h]
                         ELSE IF fate[h] = "delivered" THEN "lost" ELSE "refunded"]
    /\ UNCHANGED <<mempool, watcher>>

\* A delivery is reported as settled (a mutant).
SolverReportsSettled(h) ==
    /\ fate[h] \in WasDelivered /\ ~TokenRequired
    /\ Report(h, "settled")
    /\ UNCHANGED <<chains, watcher>>

\* Reports without a valid token are answered with 401.
SolverReports(h) ==
    /\ fate[h] \in WasDelivered /\ ~TokenRequired
    /\ Report(h, "filled")
    /\ UNCHANGED <<chains, watcher>>

RelayerReports(h) ==
    /\ fate[h] \in WasRefunded /\ ~TokenRequired
    /\ Report(h, "refunded")
    /\ UNCHANGED <<chains, watcher>>

-----------------------------------------------------------------------------
(* The watcher: pollOnce and handleEvent *)

\* The poll is over, or threw: run() sleeps and polls again.
Over == at' = "idle" /\ scan' = NoScan

\* getBlockNumber; the first poll without a start block only notes the head.
ReadHead ==
    /\ at = "idle" /\ ~stopped /\ head > 0
    /\ \/ /\ nextBlock = 0
          /\ nextBlock' = head
          /\ UNCHANGED <<at, scan>>
       \/ /\ nextBlock \in 1 .. head
          /\ at' = "fetch"
          /\ scan' = [NoScan EXCEPT !.head = head, !.from = nextBlock]
          /\ UNCHANGED nextBlock
    /\ UNCHANGED <<mempool, chains, reported, stopped, stops>>

\* getReleasedEvents for the next range.
Fetch ==
    /\ at = "fetch"
    /\ LET to == Min({scan.from + MaxBlockRange - 1, scan.head})
       IN scan' = [scan EXCEPT !.to = to,
                               !.events = UNION {blocks[n] : n \in scan.from .. to}]
    /\ at' = "handle"
    /\ UNCHANGED <<mempool, chains, nextBlock, reported, stopped, stops>>

FetchFails ==
    /\ at = "fetch"
    /\ Over
    /\ UNCHANGED <<mempool, chains, nextBlock, reported, stopped, stops>>

Handled(h) == scan' = [scan EXCEPT !.events = @ \ {h}, !.inFlight = None] /\ UNCHANGED at

\* stop() ends the loop before its next call; the one in flight is answered all the same.
Reporting(h) ==
    /\ at = "handle" /\ h \in scan.events \ reported
    /\ stopped => scan.inFlight = h

\* handleEvent: already reported, or reported now; 404 counts as done.
SkipReported(h) ==
    /\ at = "handle" /\ ~stopped /\ h \in scan.events \cap reported
    /\ Handled(h)
    /\ UNCHANGED <<mempool, chains, nextBlock, reported, stopped, stops>>

ReportSettled(h) ==
    /\ Reporting(h)
    /\ ~TokenRequired
    /\ Report(h, "settled")
    /\ reported' = reported \cup {h}
    /\ Handled(h)
    /\ UNCHANGED <<chains, nextBlock, stopped, stops>>

\* A failed report does not end the poll (a mutant).
ReportFailsQuietly(h) ==
    /\ Reporting(h)
    /\ Handled(h)
    /\ UNCHANGED <<mempool, chains, nextBlock, reported, stopped, stops>>

\* The call fails: before the server handled it, or after.
ReportFails(h) ==
    /\ Reporting(h)
    /\ \/ UNCHANGED mempool
       \/ ~TokenRequired /\ Report(h, "settled")
    /\ Over
    /\ UNCHANGED <<chains, nextBlock, reported, stopped, stops>>

\* The range is done, or stop() broke out of its loop, the call in flight answered: the
\* cursor moves past it.
Advance ==
    /\ at = "handle"
    /\ \/ scan.events = {}
       \/ stopped /\ scan.inFlight = None
    /\ nextBlock' = scan.to + 1
    /\ IF scan.to < scan.head /\ ~stopped
       THEN at' = "fetch" /\ scan' = [scan EXCEPT !.from = scan.to + 1, !.events = {}]
       ELSE Over
    /\ UNCHANGED <<mempool, chains, reported, stopped, stops>>

Stop ==
    /\ ~stopped /\ stops < MaxStops
    /\ stopped' = TRUE /\ stops' = stops + 1
    /\ \E h \in {None} \cup (IF at = "handle" THEN scan.events \ reported ELSE {}) :
          scan' = [scan EXCEPT !.inFlight = h]
    /\ UNCHANGED <<mempool, chains, at, nextBlock, reported>>

\* start() on the same watcher, once the loop has ended.
Start ==
    /\ stopped /\ at = "idle"
    /\ stopped' = FALSE
    /\ UNCHANGED <<mempool, chains, at, scan, nextBlock, reported, stops>>

\* The process dies and a new watcher is made.
Crash ==
    /\ stops < MaxStops
    /\ stops' = stops + 1 /\ stopped' = FALSE
    /\ Over
    /\ nextBlock' = FirstBlock /\ reported' = {}
    /\ UNCHANGED <<mempool, chains>>

-----------------------------------------------------------------------------
Init ==
    /\ MempoolInit
    /\ fate = [h \in Settling |-> None] /\ blocks = <<>>
    /\ at = "idle" /\ scan = NoScan
    /\ nextBlock = FirstBlock /\ reported = {}
    /\ stopped = FALSE /\ stops = 0

Handle(h) == SkipReported(h) \/ ReportSettled(h) \/ ReportFails(h)

Next ==
    \/ MempoolNext /\ UNCHANGED <<chains, watcher>>
    \/ Mine \/ ReadHead \/ Fetch \/ FetchFails \/ Advance \/ Stop \/ Start \/ Crash
    \/ \E h \in Settling : Deliver(h) \/ SolverReports(h) \/ RelayerReports(h) \/ Handle(h)

\* The loop runs on, and a call that is repeated succeeds again and again.
Fairness ==
    /\ WF_vars(ReadHead) /\ WF_vars(Advance) /\ WF_vars(Start)
    /\ SF_vars(Fetch)
    /\ \A h \in Settling : WF_vars(SkipReported(h)) /\ SF_vars(ReportSettled(h))

Spec == Init /\ [][Next]_vars
FairSpec == Spec /\ Fairness

-----------------------------------------------------------------------------
(* Properties *)

\* Every variable of the mempool and of the watcher stays in its range.
TypeOK ==
    /\ MempoolTypeOK
    /\ fate \in [Settling -> {None, "delivered", "released", "refunded", "lost"}]
    /\ at \in {"idle", "fetch", "handle"}
    /\ scan.events \cup reported \subseteq Settling
    /\ scan.inFlight \in {None} \cup (scan.events \ reported)
    /\ nextBlock \in Nat /\ stops \in 0 .. MaxStops

\* A listing walks the index of pending records while records come, finish and go: the index
\* holds each of them once, and the listing misses none (store.ts:57-142 and
\* client.ts:414-440).
ListingIsSound == TypeOK /\ CompleteListing

\* The status tells a user nothing that has not happened (solver.ts:742-750, relayer.ts:
\* 622-629): "filled" only after the delivery, "settled" only after the release and "refunded"
\* only after the refund, in the store and as the answer of waitForSettlement, whatever
\* is resubmitted, retried, evicted or reported late.
StatusIsTrue ==
    \A h \in Settling :
        LET shown == {status[h], polling[h]}
        IN /\ "filled" \in shown => fate[h] \in WasDelivered
           /\ "settled" \in shown => fate[h] = "released"
           /\ "refunded" \in shown => fate[h] \in WasRefunded

\* The cursor rule of the watcher (released-watcher.ts:99-104): a block is passed only when
\* every event in it was reported or found done; except that stop() in a range passes
\* the rest of that one range, and that the first poll starts at the head.
PassesOnlyReported ==
    [][\A n \in 1 .. head : nextBlock <= n /\ nextBlock' > n =>
          \/ blocks[n] \subseteq reported'
          \/ stopped /\ nextBlock' <= nextBlock + MaxBlockRange
          \/ nextBlock = 0]_vars

\* What released-watcher.ts:101-103 says without the exception for stop().
PassesOnlyReportedEver ==
    [][\A n \in 1 .. head : nextBlock \in 1 .. n /\ nextBlock' > n =>
          blocks[n] \subseteq reported']_vars

\* Failing calls, stops and crashes do not hold the watcher for ever: it passes every
\* block (run, released-watcher.ts:258-282).
EveryBlockIsPassed == \A n \in 1 .. MaxBlocks : head >= n ~> nextBlock > n

=============================================================================
