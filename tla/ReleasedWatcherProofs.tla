------------------------ MODULE ReleasedWatcherProofs ------------------------
(***************************************************************************)
(* What a user is shown is true, the watcher of Released events passes no  *)
(* event unreported, a listing misses nothing silently, and what is not    *)
(* finished is kept: proofs for any intents, store and page sizes, ranges  *)
(* and start block.                                                        *)
(***************************************************************************)
EXTENDS ReleasedWatcher, AggregateProofs

AllStatuses == Statuses \cup {None}
StatusMaps == [Hashes -> AllStatuses]

\* What a handler of the mempool may do to the statuses on its own: keep, drop, or
\* (re)submit.
Harmless(s) ==
    /\ s \in StatusMaps
    /\ \A g \in Hashes : s[g] \in {status[g], None, "pending"}

-----------------------------------------------------------------------------
(* The store *)

LEMMA EvictOneDeletes == \A s : \E g : EvictOne(s) = Delete(s, g)
  BY DEF EvictOne

LEMMA DeletedStatus ==
    \A s, h : Delete(s, h).status = [s.status EXCEPT ![h] = None]
  BY DEF Delete

LEMMA SetIsHarmless ==
    ASSUME status \in StatusMaps, NEW h \in Hashes
    PROVE  Harmless(Set(Contents, h).status)
<1> DEFINE without == Delete(Contents, h)
           room == IF Len(without.order) >= MaxSize THEN EvictOne(without) ELSE without
<1>1. without.status = [status EXCEPT ![h] = None]
  <2>1. Contents.status = status
    BY DEF Contents
  <2>2. without.status = [Contents.status EXCEPT ![h] = None]
    BY DeletedStatus
  <2>. QED
    BY <2>1, <2>2
<1>2. \/ room.status = without.status
      \/ \E g : room.status = [without.status EXCEPT ![g] = None]
  <2>1. PICK g : EvictOne(without) = Delete(without, g)
    BY EvictOneDeletes
  <2>2. EvictOne(without).status = [without.status EXCEPT ![g] = None]
    BY <2>1, DeletedStatus
  <2>3. room = EvictOne(without) \/ room = without
    OBVIOUS
  <2>. QED
    BY <2>2, <2>3
<1>3. room.status \in StatusMaps /\ \A g \in Hashes : room.status[g] \in {status[g], None}
  BY <1>1, <1>2 DEF StatusMaps, AllStatuses
<1>4. Set(Contents, h).status = [room.status EXCEPT ![h] = "pending"]
  BY DEF Set
<1>. QED
  BY <1>3, <1>4 DEF Harmless, StatusMaps, AllStatuses, Statuses

LEMMA SweptIsHarmless ==
    ASSUME status \in StatusMaps
    PROVE  Harmless(Swept(Contents).status)
<1>1. Swept(Contents).status = [h \in Hashes |-> IF ~Sweepable(h) THEN status[h] ELSE None]
  BY DEF Swept, Contents
<1>. QED
  BY <1>1 DEF Harmless, StatusMaps, AllStatuses

\* A report stores the status that it reports, or nothing.
LEMMA ReportStatus ==
    ASSUME status \in StatusMaps, NEW h \in Hashes, NEW to \in Statuses, Report(h, to)
    PROVE  /\ status' \in StatusMaps /\ polling' = polling
           /\ \A g \in Hashes \ {h} : status'[g] = status[g]
           /\ status'[h] \in {status[h], to}
<1>1. status' = [status EXCEPT ![h] = to] \/ status' = status
  BY DEF Report, Become, Updated, Contents, store
<1>. QED
  BY <1>1 DEF Report, StatusMaps, AllStatuses

-----------------------------------------------------------------------------
(* Types *)

Fates == {None, "delivered", "released", "refunded", "lost"}
NoStatuses == {"polling", "404", "error", "failed", "timeout"}
OutcomeMaps == [Hashes -> AllStatuses \cup NoStatuses]

\* A block holds events of intents that were released, and the scan follows the cursor:
\* what is left of its range is to be handled or was reported.
ChainsInv ==
    /\ fate \in [Settling -> Fates]
    /\ blocks \in Seq(SUBSET Settling)
    /\ \A n \in 1 .. head : \A h \in blocks[n] : fate[h] = "released"

Scans == [head : Nat, from : Nat, to : Nat, events : SUBSET Settling,
          inFlight : Settling \cup {None}]

ScanInv ==
    /\ scan \in Scans
    /\ \A h \in scan.events : fate[h] = "released"
    /\ nextBlock \in Nat /\ FirstBlock <= nextBlock
    /\ at \in {"idle", "fetch", "handle"}
    /\ at # "idle" => /\ scan.from = nextBlock /\ 0 < nextBlock
                      /\ nextBlock <= scan.head /\ scan.head <= head
    /\ at = "handle" => /\ scan.to \in scan.from .. scan.head
                        /\ scan.to < scan.from + MaxBlockRange
                        /\ \A n \in scan.from .. scan.to :
                              blocks[n] \subseteq scan.events \cup reported

MapsInv == status \in StatusMaps /\ polling \in OutcomeMaps

WatcherInv == MapsInv /\ ChainsInv /\ ScanInv

LEMMA InitWatcher == Init => WatcherInv
<1>. SUFFICES ASSUME Init PROVE WatcherInv
  OBVIOUS
<1>1. MapsInv
  BY DEF Init, MempoolInit, MapsInv, StatusMaps, OutcomeMaps, AllStatuses
<1>2. ChainsInv
  BY DEF Init, ChainsInv, Fates, head
<1>3. ScanInv
  BY WatcherAssumption DEF Init, ScanInv, Scans, NoScan
<1>. QED
  BY <1>1, <1>2, <1>3 DEF WatcherInv

-----------------------------------------------------------------------------
(* The steps *)

\* A step of the mempool or of its clients shows nothing new, but for a poll that ends
\* with what is stored.
LEMMA MempoolStep ==
    ASSUME MapsInv, MempoolNext
    PROVE  /\ Harmless(status') /\ polling' \in OutcomeMaps
           /\ \A g \in Hashes : polling'[g] \in {polling[g], status[g]} \cup NoStatuses
<1>1. CASE Tick \/ StartListing \/ ListPage \/ ListingFails
           \/ \E h \in Hashes : Submit(h) \/ Refused(h)
  <2>1. status' = status /\ polling' = polling
    BY <1>1 DEF Tick, StartListing, ListPage, ListingFails, Submit, Refused, store
  <2>. QED
    BY <2>1 DEF MapsInv, Harmless, StatusMaps, AllStatuses
<1>2. CASE Sweep
  <2>1. status' = Swept(Contents).status /\ polling' = polling
    BY <1>2 DEF Sweep, Become
  <2>. QED
    BY <2>1, SweptIsHarmless DEF MapsInv
<1>3. CASE ServerRestarts
  <2>1. status' = [h \in Hashes |-> None] /\ polling' = polling
    BY <1>3 DEF ServerRestarts, Become
  <2>. QED
    BY <2>1 DEF MapsInv, Harmless, StatusMaps, AllStatuses
<1>4. ASSUME NEW h \in Hashes, Verified(h)
      PROVE  Harmless(status') /\ polling' = polling
  <2>1. status' = Set(Contents, h).status /\ polling' = polling
    BY <1>4 DEF Verified, Become
  <2>. QED
    BY <2>1, SetIsHarmless DEF MapsInv
<1>5. ASSUME NEW h \in Hashes, WaitForSettlement(h) \/ PollEnds(h)
      PROVE  /\ status' = status /\ polling' \in OutcomeMaps
             /\ \A g \in Hashes : polling'[g] \in {polling[g], status[g]} \cup NoStatuses
  <2>1. status' = status
    BY <1>5 DEF WaitForSettlement, PollEnds, store
  <2>2. PICK outcome \in {status[h]} \cup NoStatuses : polling' = [polling EXCEPT ![h] = outcome]
    <3>1. CASE WaitForSettlement(h)
      BY <3>1 DEF WaitForSettlement, NoStatuses
    <3>2. CASE PollEnds(h)
      <4>1. PICK outcome \in GetIntent(h) : polling' = [polling EXCEPT ![h] = outcome]
        BY <3>2 DEF PollEnds
      <4>2. outcome \in {status[h]} \cup NoStatuses
        BY <4>1 DEF GetIntent, FetchWithRetry, NoStatuses
      <4>. QED
        BY <4>1, <4>2
    <3>. QED
      BY <1>5, <3>1, <3>2
  <2>. QED
    BY <2>1, <2>2 DEF MapsInv, StatusMaps, OutcomeMaps
<1>6. status' = status => Harmless(status')
  BY DEF MapsInv, Harmless, StatusMaps
<1>. QED
  BY <1>1, <1>2, <1>3, <1>4, <1>5, <1>6 DEF MempoolNext, MapsInv

\* What StatusIsTrue says of one answer.
Fits(h, s) ==
    /\ s = "filled" => fate[h] \in WasDelivered
    /\ s = "settled" => fate[h] = "released"
    /\ s = "refunded" => fate[h] \in WasRefunded

\* The steps of the others on the statuses: nothing, or a report of what is so.
TrueReport == \E h \in Settling, to \in {"filled", "settled", "refunded"} :
                 Fits(h, to) /\ Report(h, to) /\ fate' = fate

LEMMA ReporterStep ==
    ASSUME WatcherInv, Next
    PROVE  \/ MempoolNext /\ UNCHANGED <<chains, watcher>>
           \/ UNCHANGED mempool
           \/ TrueReport
<1>1. CASE Mine \/ ReadHead \/ Fetch \/ FetchFails \/ Advance \/ Stop \/ Start \/ Crash
  BY <1>1 DEF Mine, ReadHead, Fetch, FetchFails, Advance, Stop, Start, Crash
<1>2. ASSUME NEW h \in Settling, Deliver(h) \/ SkipReported(h)
      PROVE  UNCHANGED mempool
  BY <1>2 DEF Deliver, SkipReported
<1>3. ASSUME NEW h \in Settling, SolverReports(h) \/ RelayerReports(h)
      PROVE  TrueReport
  BY <1>3 DEF SolverReports, RelayerReports, TrueReport, Fits, chains
<1>4. ASSUME NEW h \in Settling, ReportSettled(h) \/ ReportFails(h)
      PROVE  UNCHANGED mempool \/ TrueReport
  <2>1. fate[h] = "released" /\ fate' = fate
    BY <1>4 DEF ReportSettled, ReportFails, Reporting, WatcherInv, ScanInv, chains
  <2>2. Report(h, "settled") \/ UNCHANGED mempool
    BY <1>4 DEF ReportSettled, ReportFails
  <2>. QED
    BY <2>1, <2>2 DEF TrueReport, Fits
<1>. QED
  BY <1>1, <1>2, <1>3, <1>4 DEF Next, Handle

LEMMA MapsStep == WatcherInv /\ [Next]_vars => MapsInv'
<1>. SUFFICES ASSUME WatcherInv, [Next]_vars PROVE MapsInv'
  OBVIOUS
<1>1. CASE MempoolNext
  BY <1>1, MempoolStep DEF WatcherInv, MapsInv, Harmless
<1>2. CASE UNCHANGED mempool
  BY <1>2 DEF mempool, store, WatcherInv, MapsInv
<1>3. CASE TrueReport
  <2>1. PICK h \in Settling, to \in {"filled", "settled", "refunded"} : Report(h, to)
    BY <1>3 DEF TrueReport
  <2>2. h \in Hashes /\ to \in Statuses
    BY WatcherAssumption DEF Statuses
  <2>. QED
    BY <2>1, <2>2, ReportStatus DEF WatcherInv, MapsInv
<1>4. CASE UNCHANGED vars
  BY <1>4 DEF vars, mempool, store, WatcherInv, MapsInv
<1>. QED
  BY <1>1, <1>2, <1>3, <1>4, ReporterStep

\* Fates only move forward: undecided to delivered or refunded, delivered to released or
\* lost.
Forward ==
    \A h \in Settling : \/ fate'[h] = fate[h] \/ fate[h] = None
                        \/ fate[h] = "delivered" /\ fate'[h] \in {"released", "lost"}

LEMMA ChainsStep == WatcherInv /\ [Next]_vars => ChainsInv' /\ Forward
<1>. SUFFICES ASSUME WatcherInv, [Next]_vars PROVE ChainsInv' /\ Forward
  OBVIOUS
<1>1. CASE UNCHANGED chains
  BY <1>1 DEF chains, WatcherInv, ChainsInv, Forward, head
<1>2. ASSUME NEW g \in Settling, Deliver(g)
      PROVE  ChainsInv' /\ Forward
  BY <1>2 DEF Deliver, WatcherInv, ChainsInv, Forward, head, Fates, None
<1>3. CASE Mine
  <2>1. PICK released \in SUBSET {h \in Settling : fate[h] = "delivered"},
             refunded \in SUBSET {h \in Settling : fate[h] \in {None, "delivered"}} :
          /\ blocks' = Append(blocks, released)
          /\ fate' = [h \in Settling |->
                         IF h \in released THEN "released"
                         ELSE IF h \notin refunded THEN fate[h]
                         ELSE IF fate[h] = "delivered" THEN "lost" ELSE "refunded"]
    BY <1>3 DEF Mine
  <2>2. fate' \in [Settling -> Fates] /\ Forward
    BY <2>1 DEF Fates, Forward, WatcherInv, ChainsInv
  <2>3. /\ blocks' \in Seq(SUBSET Settling)
        /\ Len(blocks') = Len(blocks) + 1
        /\ \A n \in 1 .. Len(blocks) : blocks'[n] = blocks[n]
        /\ blocks'[Len(blocks) + 1] = released
    BY <2>1 DEF WatcherInv, ChainsInv
  <2>4. ASSUME NEW n \in 1 .. Len(blocks'), NEW h \in blocks'[n]
        PROVE  fate'[h] = "released"
    <3>1. CASE n \in 1 .. Len(blocks)
      <4>1. h \in Settling /\ fate[h] = "released"
        BY <3>1, <2>3, <2>4 DEF WatcherInv, ChainsInv, head
      <4>2. h \notin refunded
        BY <4>1 DEF None
      <4>. QED
        BY <2>1, <4>1, <4>2
    <3>2. CASE n = Len(blocks) + 1
      BY <3>2, <2>1, <2>3, <2>4
    <3>3. Len(blocks) \in Nat
      BY DEF WatcherInv, ChainsInv
    <3>. QED
      BY <3>1, <3>2, <3>3, <2>3
  <2>. QED
    BY <2>2, <2>3, <2>4 DEF ChainsInv, head
<1>. QED
  <2>1. UNCHANGED vars => UNCHANGED chains
    BY DEF vars
  <2>2. ReadHead \/ Fetch \/ FetchFails \/ Advance \/ Stop \/ Start \/ Crash => UNCHANGED chains
    BY DEF ReadHead, Fetch, FetchFails, Advance, Stop, Start, Crash
  <2>3. \A h \in Settling : SolverReports(h) \/ RelayerReports(h) \/ Handle(h) => UNCHANGED chains
    BY DEF SolverReports, RelayerReports, Handle, SkipReported, ReportSettled, ReportFails
  <2>. QED
    BY <1>1, <1>2, <1>3, <2>1, <2>2, <2>3 DEF Next

LEMMA ScanStep == WatcherInv /\ [Next]_vars => ScanInv'
<1>. SUFFICES ASSUME WatcherInv, [Next]_vars PROVE ScanInv'
  OBVIOUS
<1>. USE DEF head, Scans
<1>0. ChainsInv /\ ScanInv /\ ChainsInv' /\ Forward
  BY ChainsStep DEF WatcherInv
<1>1. CASE UNCHANGED <<blocks, watcher>>
  <2>1. \A h \in Settling : fate[h] = "released" => fate'[h] = "released"
    BY <1>0 DEF Forward, None
  <2>2. UNCHANGED <<blocks, at, scan, nextBlock, reported>>
    BY <1>1 DEF watcher
  <2>. QED
    BY <1>0, <2>1, <2>2 DEF ScanInv
<1>2. CASE Mine
  <2>1. \A h \in Settling : fate[h] = "released" => fate'[h] = "released"
    BY <1>0 DEF Forward, None
  <2>2. /\ UNCHANGED <<at, scan, nextBlock, reported>>
        /\ \E released : blocks' = Append(blocks, released)
    BY <1>2 DEF Mine, watcher
  <2>3. Len(blocks') = Len(blocks) + 1 /\ \A n \in 1 .. Len(blocks) : blocks'[n] = blocks[n]
    BY <1>0, <2>2 DEF ChainsInv
  <2>4. \A n \in scan.from .. scan.to :
           at = "handle" => blocks'[n] \subseteq scan.events \cup reported
    <3>. SUFFICES ASSUME NEW n \in scan.from .. scan.to, at = "handle"
                  PROVE  n \in 1 .. Len(blocks) /\ blocks[n] \subseteq scan.events \cup reported
      BY <2>3
    <3>. QED
      BY <1>0 DEF ScanInv, ChainsInv
  <2>5. Len(blocks) \in Nat
    BY <1>0 DEF ChainsInv
  <2>. QED
    BY <1>0, <2>1, <2>2, <2>3, <2>4, <2>5 DEF ScanInv
<1>3. ASSUME Over, UNCHANGED <<chains, nextBlock>> PROVE ScanInv'
  BY <1>0, <1>3 DEF Over, NoScan, chains, ScanInv
<1>4. CASE ReadHead
  <2>1. UNCHANGED <<fate, blocks>> /\ Len(blocks) \in Nat
    BY <1>0, <1>4 DEF ReadHead, chains, ChainsInv
  <2>2. CASE nextBlock = 0 /\ nextBlock' = Len(blocks) /\ UNCHANGED <<at, scan>>
    BY <1>0, <1>4, <2>1, <2>2, WatcherAssumption DEF ReadHead, ScanInv
  <2>3. CASE /\ nextBlock \in 1 .. Len(blocks) /\ at' = "fetch" /\ UNCHANGED nextBlock
             /\ scan' = [NoScan EXCEPT !.head = Len(blocks), !.from = nextBlock]
    <3>1. scan' = [head |-> Len(blocks), from |-> nextBlock, to |-> 0, events |-> {},
                   inFlight |-> None]
      BY <2>3 DEF NoScan
    <3>2. nextBlock' = nextBlock /\ nextBlock \in Nat /\ 0 < nextBlock
          /\ nextBlock <= Len(blocks) /\ FirstBlock <= nextBlock
      BY <1>0, <2>1, <2>3 DEF ScanInv
    <3>3. scan' \in Scans
      BY <2>1, <3>1, <3>2
    <3>4. scan'.from = nextBlock /\ scan'.head = Len(blocks) /\ scan'.events = {}
      BY <3>1
    <3>. HIDE DEF Scans
    <3>. QED
      BY <2>1, <2>3, <3>2, <3>3, <3>4 DEF ScanInv
  <2>. QED
    BY <1>4, <2>2, <2>3 DEF ReadHead
<1>5. CASE Fetch
  <2> DEFINE to == Min({scan.from + MaxBlockRange - 1, scan.head})
             found == UNION {blocks[n] : n \in scan.from .. to}
  <2>1. /\ UNCHANGED <<fate, blocks, nextBlock, reported>> /\ at = "fetch" /\ at' = "handle"
        /\ scan' = [scan EXCEPT !.to = to, !.events = found]
    BY <1>5 DEF Fetch, chains
  <2>2. scan.from \in Nat \ {0} /\ scan.head \in Nat /\ scan.from <= scan.head
        /\ scan.head <= Len(blocks) /\ Len(blocks) \in Nat
    BY <1>0, <2>1 DEF ScanInv, ChainsInv
  <2>3. to \in scan.from .. scan.head /\ to < scan.from + MaxBlockRange
    <3>1. scan.from + MaxBlockRange - 1 \in Int /\ scan.from <= scan.from + MaxBlockRange - 1
      BY <2>2, WatcherAssumption
    <3>2. \A a, b \in Int : Min({a, b}) = (IF a <= b THEN a ELSE b)
      BY DEF Min
    <3>3. to = IF scan.from + MaxBlockRange - 1 <= scan.head
               THEN scan.from + MaxBlockRange - 1 ELSE scan.head
      BY <2>2, <3>1, <3>2
    <3>. HIDE DEF to
    <3>. QED
      BY <2>2, <3>1, <3>3, WatcherAssumption
  <2>4. \A n \in scan.from .. to : n \in 1 .. Len(blocks) /\ blocks[n] \subseteq found
    BY <2>2, <2>3
  <2>5. found \subseteq Settling /\ \A h \in found : fate[h] = "released"
    <3>. SUFFICES ASSUME NEW h \in found PROVE h \in Settling /\ fate[h] = "released"
      OBVIOUS
    <3>1. PICK n \in scan.from .. to : h \in blocks[n]
      OBVIOUS
    <3>2. n \in 1 .. Len(blocks)
      BY <2>4
    <3>. HIDE DEF to, found
    <3>. QED
      BY <1>0, <3>1, <3>2 DEF ChainsInv
  <2>. HIDE DEF to, found
  <2>6. /\ scan'.head = scan.head /\ scan'.from = scan.from
        /\ scan'.to = to /\ scan'.events = found
        /\ scan' \in Scans
    <3>1. scan \in Scans /\ to \in Nat /\ found \in SUBSET Settling
      BY <1>0, <2>2, <2>3, <2>5 DEF ScanInv, Scans
    <3>2. scan' = [head |-> scan.head, from |-> scan.from, to |-> to, events |-> found,
                   inFlight |-> scan.inFlight]
      BY <2>1, <3>1 DEF Scans
    <3>. QED
      BY <3>1, <3>2 DEF Scans
  <2>. QED
    BY <1>0, <2>1, <2>2, <2>3, <2>4, <2>5, <2>6 DEF ScanInv
<1>6. ASSUME NEW h \in Settling, Handle(h) PROVE ScanInv'
  <2>1. CASE Over
    <3>1. UNCHANGED <<chains, nextBlock>>
      BY <1>6 DEF Handle, SkipReported, ReportSettled, ReportFails
    <3>. QED
      BY <1>3, <2>1, <3>1
  <2>2. CASE ~Over
    <3>1. /\ UNCHANGED <<fate, blocks, nextBlock, at>>
          /\ scan' = [scan EXCEPT !.events = @ \ {h}, !.inFlight = None]
          /\ h \in reported' /\ reported \subseteq reported'
      BY <1>6, <2>2 DEF Handle, SkipReported, ReportSettled, ReportFails, Handled, chains
    <3>. QED
      BY <1>0, <3>1 DEF ScanInv
  <2>. QED
    BY <2>1, <2>2
<1>7. CASE Advance
  <2>1. /\ UNCHANGED <<fate, blocks, reported>> /\ at = "handle"
        /\ nextBlock' = scan.to + 1
    BY <1>7 DEF Advance, chains
  <2>2. scan.to \in Nat /\ nextBlock <= scan.to
    BY <1>0, <2>1 DEF ScanInv
  <2>3. CASE Over
    BY <1>0, <2>1, <2>2, <2>3, WatcherAssumption DEF Over, NoScan, ScanInv
  <2>4. CASE /\ scan.to < scan.head /\ at' = "fetch"
             /\ scan' = [scan EXCEPT !.from = scan.to + 1, !.events = {}]
    <3>1. /\ scan'.head = scan.head /\ scan'.from = scan.to + 1 /\ scan'.events = {}
          /\ scan' \in Scans
      <4>1. scan \in Scans
        BY <1>0 DEF ScanInv
      <4>2. scan' = [head |-> scan.head, from |-> scan.to + 1, to |-> scan.to, events |-> {},
                   inFlight |-> scan.inFlight]
        BY <2>4, <4>1 DEF Scans
      <4>. QED
        BY <2>2, <4>1, <4>2 DEF Scans
    <3>2. scan.head \in Nat /\ scan.head <= Len(blocks) /\ FirstBlock <= scan.to + 1
      BY <1>0, <2>1, <2>2, WatcherAssumption DEF ScanInv
    <3>. QED
      BY <2>1, <2>2, <2>4, <3>1, <3>2 DEF ScanInv
  <2>. QED
    BY <1>7, <2>3, <2>4 DEF Advance
<1>8. CASE Stop \/ Start
  <2>1. UNCHANGED <<fate, blocks, at, nextBlock, reported>>
    BY <1>8 DEF Stop, Start, chains
  <2>2. scan \in Scans /\ scan.events \subseteq Settling
    BY <1>0 DEF ScanInv
  <2>3. PICK h \in Settling \cup {None} : scan' = [scan EXCEPT !.inFlight = h] \/ scan' = scan
    BY <1>8, <2>2 DEF Stop, Start
  <2>4. scan' \in Scans /\ \A field \in {"head", "from", "to", "events"} :
                               scan'[field] = scan[field]
    BY <2>2, <2>3
  <2>5. scan'.head = scan.head /\ scan'.from = scan.from /\ scan'.to = scan.to
        /\ scan'.events = scan.events
    BY <2>4
  <2>. HIDE DEF Scans
  <2>. QED
    BY <1>0, <2>1, <2>4, <2>5 DEF ScanInv
<1>9. CASE Crash
  BY <1>0, <1>9, WatcherAssumption DEF Crash, Over, NoScan, chains, ScanInv
<1>10. CASE FetchFails
  BY <1>3, <1>10 DEF FetchFails
<1>. QED
  <2>1. MempoolNext /\ UNCHANGED <<chains, watcher>> => UNCHANGED <<blocks, watcher>>
    BY DEF chains
  <2>2. \A h \in Settling :
           Deliver(h) \/ SolverReports(h) \/ RelayerReports(h) => UNCHANGED <<blocks, watcher>>
    BY DEF Deliver, SolverReports, RelayerReports, chains
  <2>3. UNCHANGED vars => UNCHANGED <<blocks, watcher>>
    BY DEF vars, chains
  <2>. QED
    BY <1>1, <1>2, <1>4, <1>5, <1>6, <1>7, <1>8, <1>9, <1>10, <2>1, <2>2, <2>3 DEF Next

LEMMA WatcherInvHolds == Spec => []WatcherInv
<1>1. WatcherInv /\ [Next]_vars => WatcherInv'
  BY MapsStep, ChainsStep, ScanStep DEF WatcherInv
<1>. QED
  BY <1>1, InitWatcher, PTL DEF Spec

-----------------------------------------------------------------------------
(* The theorems *)

\* What was true of an intent stays true: fates only move forward.
LEMMA FitsForward ==
    ASSUME Forward, NEW h \in Settling, NEW s, Fits(h, s)
    PROVE  Fits(h, s)'
  BY DEF Forward, Fits, WasDelivered, WasRefunded, None

\* No status and no answer of waitForSettlement tells a user what has not happened
\* (solver.ts:742-750, relayer.ts:622-629).
THEOREM StatusesAreTrue == Spec => []StatusIsTrue
<1>1. StatusIsTrue <=> \A h \in Settling : Fits(h, status[h]) /\ Fits(h, polling[h])
  BY DEF StatusIsTrue, Fits
<1>2. Init => StatusIsTrue
  BY WatcherAssumption DEF Init, MempoolInit, StatusIsTrue, None
<1>3. WatcherInv /\ StatusIsTrue /\ [Next]_vars => StatusIsTrue'
  <2>. SUFFICES ASSUME WatcherInv, StatusIsTrue, [Next]_vars, NEW h \in Settling
                PROVE  Fits(h, status[h])' /\ Fits(h, polling[h])'
    BY DEF StatusIsTrue, Fits
  <2>1. Forward /\ h \in Hashes /\ MapsInv
    BY ChainsStep, WatcherAssumption DEF WatcherInv
  <2>2. Fits(h, status[h]) /\ Fits(h, polling[h])
    BY <1>1
  <2>3. \A s \in {None, "pending"} \cup NoStatuses : Fits(h, s)
    BY DEF Fits, None, NoStatuses
  <2>4. /\ status'[h] \in {status[h], None, "pending"} \/ Fits(h, status'[h])
        /\ polling'[h] \in {polling[h], status[h]} \cup NoStatuses
    <3>1. CASE MempoolNext
      BY <2>1, <3>1, MempoolStep DEF Harmless
    <3>2. CASE UNCHANGED mempool
      BY <3>2 DEF mempool, store
    <3>3. CASE TrueReport
      <4>1. PICK g \in Settling, to \in {"filled", "settled", "refunded"} :
               Fits(g, to) /\ Report(g, to)
        BY <3>3 DEF TrueReport
      <4>2. g \in Hashes /\ to \in Statuses
        BY WatcherAssumption DEF Statuses
      <4>3. /\ polling' = polling /\ status'[g] \in {status[g], to}
            /\ \A k \in Hashes \ {g} : status'[k] = status[k]
        BY <2>1, <4>1, <4>2, ReportStatus DEF MapsInv
      <4>. QED
        BY <2>1, <4>1, <4>3
    <3>4. CASE UNCHANGED vars
      BY <3>2, <3>4 DEF vars
    <3>. QED
      BY <3>1, <3>2, <3>3, <3>4, ReporterStep
  <2>5. Fits(h, status'[h]) /\ Fits(h, polling'[h])
    BY <2>2, <2>3, <2>4
  <2>. QED
    BY <2>1, <2>5, FitsForward DEF Fits
<1>. QED
  BY <1>2, <1>3, WatcherInvHolds, PTL DEF Spec

\* The cursor rule of released-watcher.ts:99-104, with its two exceptions.
THEOREM CursorRule == Spec => PassesOnlyReported
<1> DEFINE Justified(n) == \/ blocks[n] \subseteq reported'
                           \/ stopped /\ nextBlock' <= nextBlock + MaxBlockRange
                           \/ nextBlock = 0
<1>1. ASSUME WatcherInv, [Next]_vars, NEW n \in 1 .. head, nextBlock <= n, nextBlock' > n,
             nextBlock # 0
      PROVE  Justified(n)
  <2>1. ScanInv
    BY <1>1 DEF WatcherInv
  <2>2. CASE Advance
    <3>1. /\ at = "handle" /\ nextBlock' = scan.to + 1 /\ reported' = reported
          /\ scan.events = {} \/ stopped
      BY <1>1, <2>2 DEF Advance
    <3>2. n \in scan.from .. scan.to
      BY <1>1, <2>1, <3>1 DEF ScanInv
    <3>3. nextBlock' <= nextBlock + MaxBlockRange
      BY <2>1, <3>1, WatcherAssumption DEF ScanInv, Scans
    <3>. QED
      BY <2>1, <3>1, <3>2, <3>3 DEF ScanInv
  <2>3. CASE ~Advance
    <3>1. nextBlock' \in {nextBlock, FirstBlock}
      BY <1>1, <2>3 DEF Next, Handle, Mine, ReadHead, Fetch, FetchFails, Stop, Start, Crash,
                        Deliver, SolverReports, RelayerReports, SkipReported, ReportSettled,
                        ReportFails, watcher, vars
    <3>2. nextBlock' <= nextBlock
      BY <2>1, <3>1, WatcherAssumption DEF ScanInv
    <3>. QED
      BY <1>1, <2>1, <3>1, <3>2, WatcherAssumption DEF ScanInv
  <2>. QED
    BY <2>2, <2>3
<1>2. WatcherInv /\ [Next]_vars =>
        [\A n \in 1 .. head : nextBlock <= n /\ nextBlock' > n => Justified(n)]_vars
  BY <1>1
<1>. QED
  BY <1>2, WatcherInvHolds, PTL DEF Spec, PassesOnlyReported

-----------------------------------------------------------------------------
(* The store: both maps tell of the same records, each of them once.         *)

StoredIn(s) == {h \in Hashes : s.status[h] # None}
PendingIn(s) == {h \in Hashes : s.status[h] = "pending"}

Sound(s) ==
    /\ s.status \in StatusMaps
    /\ s.order \in Seq(Hashes) /\ IsInjective(s.order) /\ ToSet(s.order) = StoredIn(s)
    /\ s.pending \in Seq(Hashes) /\ IsInjective(s.pending) /\ ToSet(s.pending) = PendingIn(s)

\* Of two entries that are there afterwards, the later one still comes later, unless the
\* first of them was put anew.
KeepsOrder(before, after, replaced) ==
    \A a, b \in ToSet(after) : a # replaced /\ Follows(before, a, b) => Follows(after, a, b)

LEMMA DeleteIsSound ==
    ASSUME NEW s, Sound(s), NEW h \in Hashes
    PROVE  /\ Sound(Delete(s, h))
           /\ Len(Delete(s, h).order) <= Len(s.order)
           /\ h \in StoredIn(s) => Len(Delete(s, h).order) < Len(s.order)
           /\ StoredIn(Delete(s, h)) = StoredIn(s) \ {h}
           /\ KeepsOrder(s.pending, Delete(s, h).pending, None)
<1> DEFINE K == Hashes \ {h}
           d == Delete(s, h)
<1>1. /\ d.order = Selected(s.order, K) /\ d.pending = Selected(s.pending, K)
      /\ d.status = [s.status EXCEPT ![h] = None]
    BY DEF Delete, Drop
<1> HIDE DEF d
<1>2. s.status \in StatusMaps /\ s.order \in Seq(Hashes) /\ s.pending \in Seq(Hashes)
    BY DEF Sound
<1>3. /\ d.order \in Seq(Hashes) /\ ToSet(d.order) = ToSet(s.order) \cap K
      /\ Len(d.order) <= Len(s.order)
      /\ \A a \in ToSet(s.order) : a \notin K => Len(d.order) < Len(s.order)
    BY <1>1, <1>2, SelectionMembers
<1>4. d.pending \in Seq(Hashes) /\ ToSet(d.pending) = ToSet(s.pending) \cap K
    BY <1>1, <1>2, SelectionMembers
<1>5. IsInjective(d.order) /\ IsInjective(d.pending)
    BY <1>1, <1>2, SelectionIsInjective DEF Sound
<1>6. d.status \in StatusMaps /\ StoredIn(d) = StoredIn(s) \cap K /\ PendingIn(d) = PendingIn(s) \cap K
    BY <1>1, <1>2 DEF StatusMaps, AllStatuses, StoredIn, PendingIn, None
<1>7. KeepsOrder(s.pending, d.pending, None)
    <2> SUFFICES ASSUME NEW a \in ToSet(d.pending), NEW b \in ToSet(d.pending),
                        Follows(s.pending, a, b)
                 PROVE  Follows(d.pending, a, b)
        BY DEF KeepsOrder
    <2>1. a \in K /\ b \in K
        BY <1>4
    <2> HIDE DEF K
    <2>. QED  BY <1>1, <1>2, <2>1, SelectionKeepsOrder
<1>8. Sound(d)
    BY <1>3, <1>4, <1>5, <1>6 DEF Sound
<1>9. h \in StoredIn(s) => Len(d.order) < Len(s.order)
    BY <1>3 DEF Sound
<1>. QED  BY <1>3, <1>6, <1>7, <1>8, <1>9 DEF d, StoredIn

\* What makes room is finished, or nothing is.
LEMMA EvictOneChooses ==
    ASSUME NEW s, Sound(s), Len(s.order) >= MaxSize
    PROVE  \E g \in StoredIn(s) :
              /\ EvictOne(s) = Delete(s, g)
              /\ s.status[g] \in Terminal \/ \A k \in Hashes : s.status[k] \notin Terminal
<1> DEFINE K == {h \in Hashes : s.status[h] \in Terminal}
           terminal == Selected(s.order, K)
<1>1. s.order \in Seq(Hashes) /\ ToSet(s.order) = StoredIn(s) /\ Len(s.order) \in Nat \ {0}
    BY MempoolAssumption DEF Sound
<1>2. terminal \in Seq(Hashes) /\ ToSet(terminal) = StoredIn(s) \cap K
    BY <1>1, SelectionMembers
<1>3. EvictOne(s) = Delete(s, Head(IF terminal = <<>> THEN s.order ELSE terminal))
    BY DEF EvictOne
<1> HIDE DEF terminal
<1>4. CASE terminal = <<>>
    <2>1. Head(s.order) \in StoredIn(s)
        BY <1>1 DEF ToSet
    <2>2. \A k \in Hashes : s.status[k] \notin Terminal
        BY <1>2, <1>4 DEF ToSet, StoredIn, Terminal, None
    <2>. QED  BY <1>3, <1>4, <2>1, <2>2
<1>5. CASE terminal # <<>>
    <2>1. Head(terminal) \in ToSet(terminal)
        BY <1>2, <1>5 DEF ToSet
    <2>. QED  BY <1>2, <1>3, <1>5, <2>1
<1>. QED  BY <1>4, <1>5

LEMMA SetIsSound ==
    ASSUME NEW s, Sound(s), Len(s.order) <= MaxSize, NEW h \in Hashes
    PROVE  /\ Sound(Set(s, h)) /\ Len(Set(s, h).order) <= MaxSize
           /\ KeepsOrder(s.pending, Set(s, h).pending, h)
           /\ \A g \in StoredIn(s) \ StoredIn(Set(s, h)) :
                 /\ Len(s.order) = MaxSize
                 /\ s.status[g] \in Terminal
                       \/ \A k \in Hashes \ {h} : s.status[k] \notin Terminal
<1> DEFINE without == Delete(s, h)
           room == IF Len(without.order) >= MaxSize THEN EvictOne(without) ELSE without
           r == Set(s, h)
<1>1. /\ Sound(without) /\ Len(without.order) <= Len(s.order)
      /\ StoredIn(without) = StoredIn(s) \ {h}
      /\ KeepsOrder(s.pending, without.pending, None)
      /\ without.status = [s.status EXCEPT ![h] = None]
    BY DeleteIsSound, DeletedStatus
<1>2. MaxSize \in Nat \ {0} /\ Len(s.order) \in Nat /\ Len(without.order) \in Nat
    BY <1>1, MempoolAssumption DEF Sound
<1> HIDE DEF without
<1>3. /\ Sound(room) /\ Len(room.order) < MaxSize /\ h \notin StoredIn(room)
      /\ KeepsOrder(s.pending, room.pending, None)
      /\ \A g \in StoredIn(without) \ StoredIn(room) :
            /\ Len(without.order) >= MaxSize
            /\ \/ without.status[g] \in Terminal
               \/ \A k \in Hashes : without.status[k] \notin Terminal
    <2>1. CASE Len(without.order) >= MaxSize
        <3>1. PICK g \in StoredIn(without) :
                  /\ room = Delete(without, g)
                  /\ \/ without.status[g] \in Terminal
                     \/ \A k \in Hashes : without.status[k] \notin Terminal
            BY <1>1, <2>1, EvictOneChooses
        <3>2. g \in Hashes
            BY DEF StoredIn
        <3>3. /\ Sound(room) /\ Len(room.order) < Len(without.order)
              /\ StoredIn(room) = StoredIn(without) \ {g}
              /\ KeepsOrder(without.pending, room.pending, None)
            BY <1>1, <3>1, <3>2, DeleteIsSound
        <3>4. Len(room.order) \in Nat /\ room.pending \in Seq(Hashes)
            BY <3>3 DEF Sound
        <3> HIDE DEF room
        <3>5. ToSet(room.pending) \subseteq ToSet(without.pending)
            <4>1. PICK t : t = room
                OBVIOUS
            <4>2. t.pending = Selected(without.pending, Hashes \ {g})
                BY <3>1, <4>1 DEF Delete, Drop
            <4>3. without.pending \in Seq(Hashes)
                BY <1>1 DEF Sound
            <4>. QED  BY <4>1, <4>2, <4>3, SelectionMembers
        <3>6. KeepsOrder(s.pending, room.pending, None)
            BY <1>1, <3>3, <3>5 DEF KeepsOrder
        <3>. QED  BY <1>1, <1>2, <2>1, <3>1, <3>3, <3>4, <3>6
    <2>2. CASE ~(Len(without.order) >= MaxSize)
        BY <1>1, <1>2, <2>2
    <2>. QED  BY <2>1, <2>2
<1>4. /\ r.order = Append(room.order, h) /\ r.pending = Append(room.pending, h)
      /\ r.status = [room.status EXCEPT ![h] = "pending"]
    BY DEF Set, without
<1> HIDE DEF room, r
<1>5. /\ room.status \in StatusMaps
      /\ room.order \in Seq(Hashes) /\ IsInjective(room.order) /\ ToSet(room.order) = StoredIn(room)
      /\ room.pending \in Seq(Hashes) /\ IsInjective(room.pending)
      /\ ToSet(room.pending) = PendingIn(room)
      /\ PendingIn(room) \subseteq StoredIn(room)
    BY <1>3 DEF Sound, PendingIn, StoredIn, None
<1>6. r.status \in StatusMaps /\ StoredIn(r) = StoredIn(room) \cup {h}
      /\ PendingIn(r) = PendingIn(room) \cup {h}
    BY <1>4, <1>5 DEF StatusMaps, AllStatuses, Statuses, StoredIn, PendingIn, None
<1>7. /\ r.order \in Seq(Hashes) /\ IsInjective(r.order) /\ ToSet(r.order) = StoredIn(r)
      /\ Len(r.order) = Len(room.order) + 1 /\ Len(room.order) \in Nat
    BY <1>3, <1>4, <1>5, <1>6, AppendKeepsOrder
<1>8. /\ r.pending \in Seq(Hashes) /\ IsInjective(r.pending) /\ ToSet(r.pending) = PendingIn(r)
    BY <1>3, <1>4, <1>5, <1>6, AppendKeepsOrder
<1>9. KeepsOrder(s.pending, r.pending, h)
    <2> SUFFICES ASSUME NEW a \in ToSet(r.pending), NEW b \in ToSet(r.pending),
                        a # h, Follows(s.pending, a, b)
                 PROVE  Follows(r.pending, a, b)
        BY DEF KeepsOrder
    <2>1. a \in ToSet(room.pending)
        BY <1>5, <1>6, <1>8
    <2>2. CASE b = h
        BY <1>4, <1>5, <2>1, <2>2, AppendKeepsOrder
    <2>3. CASE b # h
        <3>1. b \in ToSet(room.pending) /\ a # None
            BY <1>5, <1>6, <1>8, <2>1, <2>3, MempoolAssumption DEF PendingIn
        <3>2. Follows(room.pending, a, b)
            BY <1>3, <2>1, <3>1 DEF KeepsOrder
        <3>. QED  BY <1>4, <1>5, <3>2, AppendKeepsOrder
    <2>. QED  BY <2>2, <2>3
<1>10. ASSUME NEW g \in StoredIn(s) \ StoredIn(r)
       PROVE  /\ Len(s.order) = MaxSize
              /\ s.status[g] \in Terminal
                    \/ \A k \in Hashes \ {h} : s.status[k] \notin Terminal
    <2>1. g \in StoredIn(without) \ StoredIn(room) /\ g # h /\ g \in Hashes
        BY <1>1, <1>6 DEF StoredIn
    <2>2. \A k \in Hashes \ {h} : without.status[k] = s.status[k]
        BY <1>1 DEF Sound, StatusMaps
    <2>. QED  BY <1>1, <1>2, <1>3, <2>1, <2>2
<1>. QED  BY <1>2, <1>3, <1>6, <1>7, <1>8, <1>9, <1>10 DEF r, Sound
LEMMA SweptIsSound ==
    ASSUME Sound(Contents), Len(order) <= MaxSize
    PROVE  /\ Sound(Swept(Contents)) /\ Len(Swept(Contents).order) <= MaxSize
           /\ KeepsOrder(pending, Swept(Contents).pending, None)
           /\ \A g \in StoredIn(Contents) \ StoredIn(Swept(Contents)) : Sweepable(g)
<1> DEFINE K == {h \in Hashes : ~Sweepable(h)}
           r == Swept(Contents)
<1>1. /\ r.order = Selected(order, K) /\ r.pending = Selected(pending, K)
      /\ r.status = [h \in Hashes |-> IF h \in K THEN status[h] ELSE None]
    BY DEF Swept, Contents
<1>2. /\ status \in StatusMaps /\ order \in Seq(Hashes) /\ pending \in Seq(Hashes)
      /\ IsInjective(order) /\ IsInjective(pending) /\ Len(order) \in Nat
      /\ ToSet(order) = StoredIn(Contents) /\ ToSet(pending) = PendingIn(Contents)
      /\ Contents.status = status
    BY DEF Sound, Contents
<1> HIDE DEF r, K
<1>3. /\ r.order \in Seq(Hashes) /\ ToSet(r.order) = ToSet(order) \cap K
      /\ Len(r.order) <= Len(order) /\ IsInjective(r.order)
      /\ r.pending \in Seq(Hashes) /\ ToSet(r.pending) = ToSet(pending) \cap K
      /\ IsInjective(r.pending)
    BY <1>1, <1>2, SelectionMembers, SelectionIsInjective
<1>4. /\ r.status \in StatusMaps /\ StoredIn(r) = StoredIn(Contents) \cap K
      /\ PendingIn(r) = PendingIn(Contents) \cap K
    BY <1>1, <1>2 DEF StatusMaps, AllStatuses, StoredIn, PendingIn, None
<1>5. KeepsOrder(pending, r.pending, None)
    BY <1>1, <1>2, <1>3, SelectionKeepsOrder DEF KeepsOrder
<1>6. Len(r.order) <= MaxSize
    BY <1>2, <1>3, MempoolAssumption
<1>. QED  BY <1>2, <1>3, <1>4, <1>5, <1>6 DEF r, K, Sound, StoredIn

LEMMA UpdatedIsSound ==
    ASSUME Sound(Contents), Len(order) <= MaxSize, NEW h \in Hashes, Stored(h),
           NEW to \in Statuses, to # "pending"
    PROVE  /\ Sound(Updated(Contents, h, to)) /\ Len(Updated(Contents, h, to).order) <= MaxSize
           /\ KeepsOrder(pending, Updated(Contents, h, to).pending, None)
           /\ StoredIn(Contents) \subseteq StoredIn(Updated(Contents, h, to))
<1> DEFINE K == Hashes \ {h}
           r == Updated(Contents, h, to)
<1>1. /\ r.order = order /\ r.pending = Selected(pending, K)
      /\ r.status = [status EXCEPT ![h] = to]
    BY DEF Updated, Drop, Contents
<1>2. /\ status \in StatusMaps /\ order \in Seq(Hashes) /\ pending \in Seq(Hashes)
      /\ IsInjective(order) /\ IsInjective(pending)
      /\ ToSet(order) = StoredIn(Contents) /\ ToSet(pending) = PendingIn(Contents)
      /\ Contents.status = status
    BY DEF Sound, Contents
<1> HIDE DEF r
<1>3. /\ r.pending \in Seq(Hashes) /\ ToSet(r.pending) = ToSet(pending) \cap K
      /\ IsInjective(r.pending)
    BY <1>1, <1>2, SelectionMembers, SelectionIsInjective
<1>4. /\ r.status \in StatusMaps /\ StoredIn(r) = StoredIn(Contents)
      /\ PendingIn(r) = PendingIn(Contents) \cap K
    BY <1>1, <1>2 DEF StatusMaps, AllStatuses, Statuses, StoredIn, PendingIn, None, Stored
<1>5. KeepsOrder(pending, r.pending, None)
    <2> SUFFICES ASSUME NEW a \in ToSet(r.pending), NEW b \in ToSet(r.pending),
                        Follows(pending, a, b)
                 PROVE  Follows(r.pending, a, b)
        BY DEF KeepsOrder
    <2>1. a \in K /\ b \in K
        BY <1>3
    <2> HIDE DEF K
    <2>. QED  BY <1>1, <1>2, <2>1, SelectionKeepsOrder
<1>. QED  BY <1>1, <1>2, <1>3, <1>4, <1>5 DEF r, Sound

StoreInv ==
    /\ Sound(Contents) /\ Len(order) <= MaxSize
    /\ verifying \subseteq Hashes /\ time \in 0 .. MaxTime

\* A step on the store keeps the order of the index, and the listing watches it.
Rewrites(replaced) ==
    /\ KeepsOrder(pending, pending', replaced)
    /\ listing' = Watch([pending |-> pending'], replaced)

LEMMA BecomeKeepsStore ==
    ASSUME NEW s, Sound(s), Len(s.order) <= MaxSize, NEW r, KeepsOrder(pending, s.pending, r),
           Become(s, r)
    PROVE  Sound(Contents)' /\ Len(order)' <= MaxSize /\ Rewrites(r)
<1>1. order' = s.order /\ status' = s.status /\ pending' = s.pending
    BY DEF Become
<1>2. listing' = Watch([pending |-> pending'], r)
    BY <1>1 DEF Become, Watch
<1>3. Sound(Contents)'
    <2>1. PICK c : c = Contents'
        OBVIOUS
    <2>2. c.order = s.order /\ c.status = s.status /\ c.pending = s.pending
        BY <1>1, <2>1 DEF Contents
    <2>3. Sound(c)
        BY <2>2 DEF Sound, StoredIn, PendingIn
    <2>. QED  BY <2>1, <2>3 DEF Sound, StoredIn, PendingIn
<1>. QED  BY <1>1, <1>2, <1>3 DEF Rewrites

ListingSteps == StartListing \/ ListPage \/ ListingFails

LEMMA ReportKeepsStore ==
    ASSUME StoreInv, NEW h \in Hashes, NEW to \in Statuses, to # "pending", Report(h, to)
    PROVE  /\ StoreInv'
           /\ (\E r : Rewrites(r)) \/ UNCHANGED <<pending, listing>>
           /\ StoredIn(Contents) \subseteq StoredIn(Contents')
<1>1. CASE Updatable(h)
    <2>1. PICK s : s = Updated(Contents, h, to)
        OBVIOUS
    <2>2. /\ Sound(s) /\ Len(s.order) <= MaxSize /\ KeepsOrder(pending, s.pending, None)
          /\ StoredIn(Contents) \subseteq StoredIn(s)
        BY <1>1, <2>1, UpdatedIsSound DEF StoreInv, Updatable
    <2>3. Become(s, None) /\ UNCHANGED <<time, verifying>>
        BY <1>1, <2>1 DEF Report
    <2>4. Sound(Contents)' /\ Len(order)' <= MaxSize /\ Rewrites(None)
        BY <2>2, <2>3, BecomeKeepsStore
    <2>5. StoredIn(s) = StoredIn(Contents')
        BY <2>3 DEF Become, StoredIn, Contents
    <2>. QED  BY <2>2, <2>3, <2>4, <2>5 DEF StoreInv
<1>2. CASE ~Updatable(h)
    BY <1>2 DEF Report, StoreInv, store, Contents, Sound, StoredIn, PendingIn
<1>. QED  BY <1>1, <1>2
LEMMA StoreStep ==
    ASSUME StoreInv, [Next]_vars
    PROVE  /\ StoreInv'
           /\ \/ \E r : Rewrites(r)
              \/ UNCHANGED <<pending, listing>>
              \/ UNCHANGED pending /\ ListingSteps
<1>1. ASSUME UNCHANGED <<time, store, verifying>>
      PROVE  StoreInv'
    BY <1>1 DEF StoreInv, store, Contents, Sound, StoredIn, PendingIn
<1>2. CASE MempoolNext
    <2>1. CASE Tick
        <3>1. time' \in 0 .. MaxTime
            BY <2>1, MempoolAssumption DEF Tick, StoreInv
        <3>. QED  BY <2>1, <3>1 DEF Tick, StoreInv, store, Contents, Sound, StoredIn, PendingIn
    <2>2. CASE Sweep
        <3>1. PICK s : s = Swept(Contents)
            OBVIOUS
        <3>2. /\ Sound(s) /\ Len(s.order) <= MaxSize /\ KeepsOrder(pending, s.pending, None)
              /\ Become(s, None) /\ UNCHANGED <<time, verifying>>
            BY <2>2, <3>1, SweptIsSound DEF StoreInv, Sweep
        <3>. QED  BY <3>2, BecomeKeepsStore DEF StoreInv
    <2>3. CASE ServerRestarts
        <3>1. PICK s : s = [order |-> <<>>, status |-> [h \in Hashes |-> None], pending |-> <<>>]
            OBVIOUS
        <3>2. Become(s, None) /\ verifying' = {} /\ time' = time
            BY <2>3, <3>1 DEF ServerRestarts
        <3>3. /\ s.status \in StatusMaps /\ StoredIn(s) = {} /\ PendingIn(s) = {}
              /\ s.order = <<>> /\ s.pending = <<>>
            BY <3>1 DEF StatusMaps, AllStatuses, StoredIn, PendingIn, None
        <3>4. Sound(s) /\ Len(s.order) <= MaxSize
            BY <3>3, MempoolAssumption DEF Sound, IsInjective, ToSet
        <3>5. KeepsOrder(pending, s.pending, None)
            BY <3>3 DEF KeepsOrder, ToSet
        <3>. QED  BY <3>2, <3>4, <3>5, BecomeKeepsStore DEF StoreInv
    <2>4. ASSUME NEW h \in Hashes, Verified(h)
          PROVE  StoreInv' /\ Rewrites(h)
        <3>1. PICK c : c = Contents
            OBVIOUS
        <3>2. PICK s : s = Set(c, h)
            OBVIOUS
        <3>3. c.order = order /\ c.pending = pending /\ Sound(c) /\ Len(c.order) <= MaxSize
            BY <3>1 DEF Contents, StoreInv
        <3>4. Sound(s) /\ Len(s.order) <= MaxSize /\ KeepsOrder(pending, s.pending, h)
            BY <3>2, <3>3, SetIsSound
        <3>5. Become(s, h) /\ verifying' \subseteq verifying /\ time' = time
            BY <2>4, <3>1, <3>2 DEF Verified
        <3>. QED  BY <3>4, <3>5, BecomeKeepsStore DEF StoreInv
    <2>5. ASSUME NEW h \in Hashes, Submit(h) \/ Refused(h)
          PROVE  StoreInv' /\ UNCHANGED <<pending, listing>>
        BY <2>5 DEF Submit, Refused, StoreInv, store, Contents, Sound, StoredIn, PendingIn
    <2>6. ASSUME NEW h \in Hashes, WaitForSettlement(h) \/ PollEnds(h)
          PROVE  UNCHANGED <<time, store, verifying, listing>>
        BY <2>6 DEF WaitForSettlement, PollEnds
    <2>7. CASE ListingSteps
        <3>1. UNCHANGED <<time, store, verifying>>
            BY <2>7 DEF ListingSteps, StartListing, ListPage, ListingFails
        <3>. QED  BY <1>1, <2>7, <3>1 DEF store
    <2>. QED  BY <1>1, <1>2, <2>1, <2>2, <2>3, <2>4, <2>5, <2>6, <2>7
              DEF MempoolNext, ListingSteps, store
<1>3. CASE UNCHANGED mempool
    BY <1>1, <1>3 DEF mempool, store
<1>4. ASSUME NEW h \in Settling, NEW to \in {"filled", "settled", "refunded"}, Report(h, to)
      PROVE  StoreInv' /\ ((\E r : Rewrites(r)) \/ UNCHANGED <<pending, listing>>)
    BY <1>4, ReportKeepsStore, WatcherAssumption DEF Statuses
<1>5. \/ MempoolNext \/ UNCHANGED mempool
      \/ \E h \in Settling, to \in {"filled", "settled", "refunded"} : Report(h, to)
    BY DEF Next, vars, Handle, Deliver, Mine, SolverReports, RelayerReports, ReadHead, Fetch,
           FetchFails, SkipReported, ReportSettled, ReportFails, Advance, Stop, Start, Crash
<1>. QED  BY <1>2, <1>3, <1>4, <1>5 DEF mempool, store

-----------------------------------------------------------------------------
(* The listing: the cursor stands in the index, and every record that was    *)
(* pending all along was read or stands behind it, unless a record at the    *)
(* cursor has left its place.                                                *)

Listings ==
    [on : BOOLEAN, result : {None, "complete", "error"}, cursor : Hashes \cup {None},
     cursors : SUBSET (Hashes \cup {None}), pages : Nat, got : SUBSET Hashes,
     steady : SUBSET Hashes, moved : BOOLEAN]

ReadOrBehind ==
    listing.cursor # None =>
        /\ listing.cursor \in ToSet(pending)
        /\ \A h \in listing.steady : h \in listing.got \/ Follows(pending, listing.cursor, h)

ListingInv ==
    /\ listing \in Listings
    /\ listing.on => /\ listing.result = None /\ listing.steady \subseteq ToSet(pending)
                     /\ ~listing.moved => ReadOrBehind
    /\ CompleteListing

LEMMA RewriteKeepsListing ==
    ASSUME StoreInv, StoreInv', ListingInv, NEW r, Rewrites(r)
    PROVE  ListingInv'
<1>1. pending \in Seq(Hashes) /\ pending' \in Seq(Hashes)
    BY DEF StoreInv, Sound, Contents
<1>2. /\ listing' \in Listings
      /\ listing'.on = listing.on /\ listing'.result = listing.result
      /\ listing'.cursor = listing.cursor /\ listing'.got = listing.got
      /\ listing'.steady = listing.steady \cap ToSet(pending')
    BY DEF Rewrites, Watch, ListingInv, Listings
<1>3. ~listing'.moved =>
          /\ ~listing.moved
          /\ listing.cursor # None =>
                 listing.cursor # r /\ listing.cursor \in ToSet(pending')
    <2>1. \A e : Contains(pending', e) => e \in ToSet(pending')
        BY DEF Contains, ToSet
    <2>2. listing'.moved = (listing.moved \/ (listing.cursor # None /\
              (listing.cursor = r \/ ~Contains(pending', listing.cursor))))
        BY DEF Rewrites, Watch, ListingInv, Listings
    <2>. QED  BY <2>1, <2>2
<1>4. ASSUME listing'.on, ~listing'.moved
      PROVE  ReadOrBehind'
    BY <1>2, <1>3, <1>4 DEF ListingInv, ReadOrBehind, Rewrites, KeepsOrder
<1>5. CompleteListing'
    BY <1>2, <1>3 DEF ListingInv, CompleteListing
<1>. QED  BY <1>2, <1>4, <1>5 DEF ListingInv

\* What follows the cursor is the rest of the index.
LEMMA AfterIsTheRest ==
    ASSUME StoreInv, listing \in Listings, listing.on, listing.steady \subseteq ToSet(pending),
           ReadOrBehind
    PROVE  \E d \in 0 .. Len(pending) :
              /\ After(listing.cursor) \in Seq(Hashes)
              /\ Len(After(listing.cursor)) = Len(pending) - d
              /\ \A k \in 1 .. Len(pending) - d : After(listing.cursor)[k] = pending[d + k]
              /\ \A h \in listing.steady \ listing.got :
                    \E k \in 1 .. Len(pending) - d : pending[d + k] = h
<1> DEFINE c == listing.cursor
<1>1. pending \in Seq(Hashes) /\ IsInjective(pending) /\ Len(pending) \in Nat
      /\ DOMAIN pending = 1 .. Len(pending)
    BY DEF StoreInv, Sound, Contents
<1>2. CASE c = None
    <2>1. After(c) = pending
        BY <1>2 DEF After
    <2>2. \A h \in listing.steady : \E k \in 1 .. Len(pending) : pending[k] = h
        BY <1>1 DEF ToSet
    <2>. QED  BY <1>1, <2>1, <2>2
<1>3. CASE c # None
    <2>1. c \in ToSet(pending)
        BY <1>3 DEF ReadOrBehind
    <2>2. PICK d \in 1 .. Len(pending) : d = Position(c) /\ pending[d] = c
        BY <1>1, <2>1 DEF Position, ToSet
    <2>3. After(c) = SubSeq(pending, d + 1, Len(pending))
        BY <1>1, <1>3, <2>2 DEF After, Contains
    <2>4. /\ After(c) \in Seq(Hashes) /\ Len(After(c)) = Len(pending) - d
          /\ \A k \in 1 .. Len(pending) - d : After(c)[k] = pending[d + k]
        BY <1>1, <2>2, <2>3
    <2>5. ASSUME NEW h \in listing.steady \ listing.got
          PROVE  \E k \in 1 .. Len(pending) - d : pending[d + k] = h
        <3>1. PICK i \in DOMAIN pending, j \in DOMAIN pending :
                  i < j /\ pending[i] = c /\ pending[j] = h
            BY <1>3, <2>5 DEF ReadOrBehind, Follows
        <3>2. i = d
            BY <1>1, <2>2, <3>1 DEF IsInjective
        <3>3. j - d \in 1 .. Len(pending) - d /\ d + (j - d) = j
            BY <1>1, <2>2, <3>1, <3>2
        <3>. QED  BY <3>1, <3>3
    <2>6. d \in 0 .. Len(pending)
        BY <2>2
    <2>. QED  BY <2>4, <2>5, <2>6
<1>. QED  BY <1>2, <1>3

LEMMA MinimumIsOne == \A a, b \in Int : Min({a, b}) = IF a <= b THEN a ELSE b
BY DEF Min

\* A page reads up to its cursor, and the last one reads everything.
LEMMA PageReads ==
    ASSUME StoreInv, listing \in Listings, listing.on, listing.steady \subseteq ToSet(pending),
           ReadOrBehind
    PROVE  LET c == listing.cursor
               next == NextCursor(c)
           IN /\ ToSet(Page(c)) \subseteq Hashes
              /\ next = None => listing.steady \subseteq listing.got \cup ToSet(Page(c))
              /\ next # None =>
                    /\ next \in ToSet(pending)
                    /\ \A h \in listing.steady :
                          h \in listing.got \cup ToSet(Page(c)) \/ Follows(pending, next, h)
<1> DEFINE c == listing.cursor
           l == Len(pending)
<1>1. PICK d \in 0 .. l :
          /\ After(c) \in Seq(Hashes) /\ Len(After(c)) = l - d
          /\ \A k \in 1 .. l - d : After(c)[k] = pending[d + k]
          /\ \A h \in listing.steady \ listing.got : \E k \in 1 .. l - d : pending[d + k] = h
    BY AfterIsTheRest
<1>2. PICK rest : rest = After(c)
    OBVIOUS
<1>3. /\ rest \in Seq(Hashes) /\ Len(rest) = l - d /\ l \in Nat
      /\ pending \in Seq(Hashes) /\ DOMAIN pending = 1 .. l /\ PageSize \in Nat \ {0}
    BY <1>1, <1>2, MempoolAssumption DEF StoreInv, Sound, Contents
<1>4. PICK n \in 0 .. l - d : n = Min({PageSize, Len(rest)})
    BY <1>3, MinimumIsOne
<1>5. n = IF PageSize <= l - d THEN PageSize ELSE l - d
    BY <1>3, <1>4, MinimumIsOne
<1>6. ToSet(Page(c)) = {pending[d + k] : k \in 1 .. n}
    <2>1. Page(c) = SubSeq(rest, 1, n)
        BY <1>2, <1>4 DEF Page
    <2>2. /\ DOMAIN SubSeq(rest, 1, n) = 1 .. n
          /\ \A k \in 1 .. n : SubSeq(rest, 1, n)[k] = rest[k]
        <3>1. n \in Nat /\ n <= Len(rest)
            BY <1>3, <1>4
        <3>. QED  BY <1>3, <3>1, SubSeqProperties
    <2>3. \A k \in 1 .. n : k \in 1 .. l - d
        BY <1>3, <1>4
    <2>4. \A k \in 1 .. n : Page(c)[k] = pending[d + k]
        BY <1>1, <1>2, <2>1, <2>2, <2>3
    <2>5. PICK page : page = Page(c)
        OBVIOUS
    <2>6. DOMAIN page = 1 .. n /\ \A k \in 1 .. n : page[k] = pending[d + k]
        BY <2>1, <2>2, <2>4, <2>5
    <2>. QED  BY <2>5, <2>6 DEF ToSet
<1>7. \A k \in 1 .. l - d : d + k \in 1 .. l
    BY <1>3
<1>8. \A h \in listing.steady \ listing.got : \E k \in 1 .. l - d : pending[d + k] = h
    BY <1>1
<1>9. ToSet(Page(c)) \subseteq Hashes
    BY <1>3, <1>4, <1>6, <1>7
<1>10. CASE l - d > PageSize
    <2>1. /\ NextCursor(c) = rest[PageSize] /\ PageSize \in 1 .. l - d /\ n = PageSize
        BY <1>2, <1>3, <1>5, <1>10 DEF NextCursor
    <2>2. NextCursor(c) = pending[d + PageSize] /\ d + PageSize \in 1 .. l
        BY <1>1, <1>2, <1>7, <2>1
    <2>3. NextCursor(c) \in Hashes /\ NextCursor(c) \in ToSet(pending)
        BY <1>3, <2>2 DEF ToSet
    <2>4. ASSUME NEW h \in listing.steady \ listing.got, h \notin ToSet(Page(c))
          PROVE  Follows(pending, NextCursor(c), h)
        <3>1. PICK k \in 1 .. l - d : pending[d + k] = h
            BY <1>8, <2>4
        <3>2. k > PageSize
            BY <1>6, <2>1, <2>4, <3>1
        <3>3. d + PageSize < d + k /\ d + k \in 1 .. l
            BY <1>3, <1>7, <3>1, <3>2
        <3>. QED  BY <1>3, <2>2, <3>1, <3>3 DEF Follows
    <2>. QED  BY <1>9, <2>3, <2>4, MempoolAssumption
<1>11. CASE ~(l - d > PageSize)
    <2>1. NextCursor(c) = None
        BY <1>2, <1>3, <1>11 DEF NextCursor
    <2>2. n = l - d
        BY <1>3, <1>5, <1>11
    <2>3. listing.steady \subseteq listing.got \cup ToSet(Page(c))
        BY <1>6, <1>8, <2>2
    <2>. QED  BY <1>9, <2>1, <2>3
<1>. QED  BY <1>10, <1>11

LEMMA PageKeepsListing ==
    ASSUME StoreInv, ListingInv, ListPage, UNCHANGED pending
    PROVE  ListingInv'
<1> DEFINE c == listing.cursor
           next == NextCursor(c)
           seen == listing.got \cup ToSet(Page(c))
<1>1. listing \in Listings /\ listing.on /\ listing.steady \subseteq ToSet(pending)
    BY DEF ListPage, ListingInv
<1>2. ~listing.moved =>
          /\ ToSet(Page(c)) \subseteq Hashes
          /\ next = None => listing.steady \subseteq seen
          /\ next # None => /\ next \in ToSet(pending)
                            /\ \A h \in listing.steady : h \in seen \/ Follows(pending, next, h)
    BY <1>1, PageReads DEF ListingInv
<1>3. pending \in Seq(Hashes) /\ After(c) \in Seq(Hashes) /\ PageSize \in Nat \ {0}
    <2>1. pending \in Seq(Hashes) /\ PageSize \in Nat \ {0}
        BY MempoolAssumption DEF StoreInv, Sound, Contents
    <2>2. CASE c # None /\ Contains(pending, c)
        <3>1. Position(c) \in DOMAIN pending /\ DOMAIN pending = 1 .. Len(pending)
            BY <2>1, <2>2 DEF Position, Contains
        <3>2. \A k \in Position(c) + 1 .. Len(pending) : pending[k] \in Hashes
            BY <2>1, <3>1
        <3>3. SubSeq(pending, Position(c) + 1, Len(pending)) \in Seq(Hashes)
            BY <2>1, <3>1, <3>2, SubSeqProperties
        <3>. QED  BY <2>1, <2>2, <3>3 DEF After
    <2>3. CASE ~(c # None /\ Contains(pending, c))
        BY <2>1, <2>3 DEF After
    <2>. QED  BY <2>1, <2>2, <2>3
<1>4. ToSet(Page(c)) \subseteq Hashes
    <2>1. PICK rest : rest = After(c)
        OBVIOUS
    <2>2. rest \in Seq(Hashes) /\ Len(rest) \in Nat
        BY <1>3, <2>1
    <2>3. PICK n \in Nat : n = Min({PageSize, Len(rest)}) /\ n <= Len(rest)
        BY <1>3, <2>2, MinimumIsOne
    <2>4. SubSeq(rest, 1, n) \in Seq(Hashes)
        <3>1. \A k \in 1 .. n : rest[k] \in Hashes
            BY <2>2, <2>3
        <3>. QED  BY <3>1, SubSeqProperties
    <2>5. Page(c) \in Seq(Hashes)
        BY <2>1, <2>3, <2>4 DEF Page
    <2>. QED  BY <2>5 DEF ToSet
<1>5. next \in Hashes \cup {None}
    BY <1>3 DEF NextCursor
<1> HIDE DEF c, next, seen
<1>6. ASSUME listing' = [listing EXCEPT !.on = FALSE, !.result = "error", !.got = seen]
      PROVE  ListingInv'
    BY <1>1, <1>4, <1>6 DEF ListingInv, Listings, CompleteListing, seen
<1>7. ASSUME listing' = [listing EXCEPT !.on = FALSE, !.result = "complete", !.got = seen],
             next = None
      PROVE  ListingInv'
    <2>1. listing' \in Listings
        BY <1>1, <1>4, <1>7 DEF Listings, seen
    <2>2. ~listing'.on /\ listing'.moved = listing.moved /\ listing'.steady = listing.steady
          /\ listing'.got = seen
        BY <1>1, <1>7 DEF Listings
    <2>. QED  BY <1>2, <1>7, <2>1, <2>2 DEF ListingInv, CompleteListing
<1>8. ASSUME listing' = [listing EXCEPT !.got = seen, !.cursor = next,
                                        !.cursors = @ \cup {next}, !.pages = @ + 1],
             next # None
      PROVE  ListingInv'
    <2>1. listing' \in Listings
        <3>1. seen \in SUBSET Hashes /\ listing.cursors \cup {next} \in SUBSET (Hashes \cup {None})
              /\ listing.pages + 1 \in Nat
            BY <1>1, <1>4, <1>5 DEF Listings, seen
        <3>2. listing' = [listing EXCEPT !.got = seen, !.cursor = next,
                                         !.cursors = listing.cursors \cup {next},
                                         !.pages = listing.pages + 1]
            BY <1>8
        <3>. QED  BY <1>1, <1>5, <3>1, <3>2 DEF Listings
    <2>2. /\ listing'.moved = listing.moved /\ listing'.steady = listing.steady
          /\ listing'.got = seen /\ listing'.cursor = next /\ listing'.result = listing.result
        BY <1>1, <1>8 DEF Listings
    <2>3. listing'.result = None
        BY <1>1, <2>2 DEF ListingInv
    <2>4. ~listing'.moved => ReadOrBehind'
        BY <1>2, <1>8, <2>2 DEF ReadOrBehind
    <2>. QED  BY <1>1, <2>1, <2>2, <2>3, <2>4 DEF ListingInv, CompleteListing, None
<1>. QED  BY <1>6, <1>7, <1>8 DEF ListPage, c, next, seen

LEMMA ListingStep ==
    ASSUME StoreInv, StoreInv', ListingInv, UNCHANGED pending, ListingSteps
    PROVE  ListingInv'
<1>1. pending \in Seq(Hashes)
    BY DEF StoreInv, Sound, Contents
<1>2. CASE StartListing
    <2>1. listing' = [NoListing EXCEPT !.on = TRUE, !.steady = ToSet(pending)]
        BY <1>2 DEF StartListing
    <2>2. PICK p \in SUBSET Hashes : p = ToSet(pending)
        <3>1. ToSet(pending) \subseteq Hashes
            BY <1>1 DEF ToSet
        <3>. QED  BY <3>1, Zenon
    <2>3. listing' = [on |-> TRUE, result |-> None, cursor |-> None, cursors |-> {}, pages |-> 0,
                      got |-> {}, steady |-> p, moved |-> FALSE]
        BY <2>1, <2>2 DEF NoListing
    <2>4. listing' \in Listings
        BY <2>3 DEF Listings
    <2>5. listing'.result = None /\ listing'.cursor = None /\ listing'.steady = ToSet(pending)
        BY <2>2, <2>3
    <2>. QED  BY <2>4, <2>5 DEF ListingInv, ReadOrBehind, CompleteListing, None
<1>3. CASE ListPage
    BY <1>3, PageKeepsListing
<1>4. CASE ListingFails
    BY <1>4 DEF ListingFails, ListingInv, Listings, CompleteListing
<1>. QED  BY <1>2, <1>3, <1>4 DEF ListingSteps

LEMMA ListingInvHolds == Spec => [](StoreInv /\ ListingInv)
<1>1. Init => StoreInv /\ ListingInv
    <2> SUFFICES ASSUME Init
                 PROVE  StoreInv /\ ListingInv
        OBVIOUS
    <2>1. /\ order = <<>> /\ pending = <<>> /\ status = [h \in Hashes |-> None]
          /\ verifying = {} /\ time = 0 /\ listing = NoListing
        BY DEF Init, MempoolInit
    <2>2. Sound(Contents)
        BY <2>1 DEF Sound, Contents, StatusMaps, AllStatuses, StoredIn, PendingIn, IsInjective,
                    ToSet, None
    <2>3. StoreInv
        BY <2>1, <2>2, MempoolAssumption DEF StoreInv
    <2>4. listing \in Listings /\ ~listing.on /\ listing.result # "complete"
        BY <2>1 DEF NoListing, Listings, None
    <2>. QED  BY <2>3, <2>4 DEF ListingInv, CompleteListing
<1>2. StoreInv /\ ListingInv /\ [Next]_vars => (StoreInv /\ ListingInv)'
    <2> SUFFICES ASSUME StoreInv, ListingInv, [Next]_vars
                 PROVE  StoreInv' /\ ListingInv'
        OBVIOUS
    <2>1. UNCHANGED <<pending, listing>> => ListingInv'
        BY DEF ListingInv, ReadOrBehind, CompleteListing
    <2>. QED  BY <2>1, StoreStep, RewriteKeepsListing, ListingStep
<1>. QED  BY <1>1, <1>2, PTL DEF Spec

\* What the watcher reports and handles is followed, and the bounds of the model are kept.
RestInv ==
    /\ reported \cup scan.events \subseteq Settling /\ stops \in 0 .. MaxStops
    /\ scan.inFlight \in {None} \cup (scan.events \ reported)
    /\ at # "handle" => scan.events = {}

LEMMA RestInvHolds == Spec => []RestInv
<1>1. Init => RestInv
    BY WatcherAssumption DEF Init, RestInv, NoScan
<1>2. WatcherInv /\ WatcherInv' /\ RestInv /\ [Next]_vars => RestInv'
    <2> SUFFICES ASSUME WatcherInv, WatcherInv', RestInv, [Next]_vars
                 PROVE  RestInv'
        OBVIOUS
    <2>1. scan'.events \subseteq Settling
        BY DEF WatcherInv, ScanInv, Scans
    <2>2. stops' \in 0 .. MaxStops
        BY WatcherAssumption
        DEF Next, Handle, Mine, ReadHead, Fetch, FetchFails, Advance, Stop, Start, Crash, Deliver,
            SolverReports, RelayerReports, SkipReported, ReportSettled, ReportFails, watcher,
            vars, RestInv
    <2>3. reported' \subseteq Settling
        BY DEF Next, Handle, Mine, ReadHead, Fetch, FetchFails, Advance, Stop, Start, Crash,
               Deliver, SolverReports, RelayerReports, SkipReported, ReportSettled, ReportFails,
               watcher, vars, RestInv
    <2>4. /\ scan'.inFlight \in {None} \cup (scan'.events \ reported')
          /\ at' # "handle" => scan'.events = {}
        <3>1. scan \in Scans /\ RestInv
            BY DEF WatcherInv, ScanInv
        <3>2. CASE UNCHANGED <<at, scan, reported>>
            BY <3>1, <3>2 DEF RestInv
        <3>3. CASE Over
            BY <3>3 DEF Over, NoScan
        <3>4. CASE Stop
            <4>1. PICK h \in {None} \cup (IF at = "handle" THEN scan.events \ reported ELSE {}) :
                     scan' = [scan EXCEPT !.inFlight = h]
                BY <3>4 DEF Stop
            <4>2. scan'.inFlight = h /\ scan'.events = scan.events /\ UNCHANGED <<at, reported>>
                BY <3>1, <3>4, <4>1 DEF Stop, Scans
            <4>. QED  BY <3>1, <4>1, <4>2 DEF RestInv
        <3>5. ASSUME NEW h \in Settling, Handle(h), ~Over
              PROVE  /\ scan'.inFlight \in {None} \cup (scan'.events \ reported')
                     /\ at' # "handle" => scan'.events = {}
            <4>1. at' = "handle" /\ scan' = [scan EXCEPT !.events = @ \ {h}, !.inFlight = None]
                BY <3>5 DEF Handle, SkipReported, ReportSettled, ReportFails, Reporting, Handled
            <4>2. scan'.inFlight = None
                BY <3>1, <4>1 DEF Scans
            <4>. QED  BY <4>1, <4>2
        <3>6. \/ UNCHANGED vars
              \/ MempoolNext /\ UNCHANGED <<chains, watcher>>
              \/ Mine \/ Start
              \/ \E h \in Settling : Deliver(h) \/ SolverReports(h) \/ RelayerReports(h)
              => UNCHANGED <<at, scan, reported>>
            BY DEF vars, watcher, Mine, Start, Deliver, SolverReports, RelayerReports
        <3>7. CASE ReadHead /\ ~UNCHANGED <<at, scan, reported>>
            <4>1. /\ at' = "fetch" /\ UNCHANGED reported
                  /\ scan' = [NoScan EXCEPT !.head = head, !.from = nextBlock]
                BY <3>7 DEF ReadHead
            <4>. QED  BY <4>1 DEF NoScan
        <3>8. CASE Fetch
            <4>1. at = "fetch" /\ at' = "handle" /\ reported' = reported
                  /\ scan'.inFlight = scan.inFlight
                BY <3>1, <3>8 DEF Fetch, Scans
            <4>. QED  BY <3>1, <4>1 DEF RestInv
        <3>9. CASE Advance /\ ~Over
            <4>1. /\ scan.events = {} /\ at' = "fetch" /\ reported' = reported
                  /\ scan' = [scan EXCEPT !.from = scan.to + 1, !.events = {}]
                BY <3>9 DEF Advance
            <4>2. scan'.inFlight = scan.inFlight /\ scan'.events = {}
                BY <3>1, <4>1 DEF Scans
            <4>. QED  BY <3>1, <4>1, <4>2 DEF RestInv
        <3>10. FetchFails \/ Crash => Over
            BY DEF FetchFails, Crash
        <3>11. CASE \E h \in Settling : Handle(h)
            BY <3>3, <3>5, <3>11
        <3>12. CASE ReadHead
            BY <3>2, <3>7, <3>12
        <3>13. CASE Advance
            BY <3>3, <3>9, <3>13
        <3>14. \/ UNCHANGED <<at, scan, reported>> \/ Over \/ Stop \/ Fetch
               \/ ReadHead \/ Advance
               \/ \E h \in Settling : Handle(h)
            BY <3>6, <3>10 DEF Next
        <3>. QED  BY <3>2, <3>3, <3>4, <3>8, <3>11, <3>12, <3>13, <3>14
    <2>. QED  BY <2>1, <2>2, <2>3, <2>4 DEF RestInv
<1>. QED  BY <1>1, <1>2, WatcherInvHolds, PTL DEF Spec

(* The index of the store holds each pending record once, and a listing that *)
(* reports no error misses none of those that were pending all along, unless *)
(* a record at its cursor left its place (store.ts:57-142, client.ts:414-440). *)
THEOREM ListingsAreSound == Spec => []ListingIsSound
<1>1. WatcherInv /\ RestInv /\ StoreInv /\ ListingInv => ListingIsSound
    <2> SUFFICES ASSUME WatcherInv, RestInv, StoreInv, ListingInv
                 PROVE  ListingIsSound
        OBVIOUS
    <2>1. MempoolTypeOK
        BY DEF StoreInv, Sound, Contents, StoredIn, PendingIn, StatusMaps, AllStatuses,
               MempoolTypeOK, Stored
    <2>2. TypeOK
        BY <2>1 DEF WatcherInv, ChainsInv, ScanInv, RestInv, Fates, TypeOK
    <2>. QED  BY <2>2 DEF ListingIsSound, ListingInv
<1>. QED  BY <1>1, WatcherInvHolds, RestInvHolds, ListingInvHolds, PTL

(* An unfinished record makes room only for a submission that finds the      *)
(* store full and no other record finished (evictOne, store.ts:86-102), and  *)
(* is dropped otherwise only by the sweep or by a restart of the server,     *)
(* which leaves the store empty.                                             *)
THEOREM UnfinishedAreKept == Spec => UnfinishedIsKept
<1> DEFINE Justified(h) ==
               \/ Sweepable(h) \/ order' = <<>>
               \/ \E g \in verifying : /\ Len(order) = MaxSize /\ g \notin verifying'
                                       /\ \A k \in Hashes \ {g} : status[k] \notin Terminal
<1>1. ASSUME StoreInv, [Next]_vars, NEW h \in Hashes, Updatable(h), ~Stored(h)'
      PROVE  Justified(h)
    <2>1. status[h] # None /\ status[h] \notin Terminal /\ status'[h] = None
        BY <1>1 DEF Updatable, Stored
    <2>2. Contents.status = status /\ Contents.order = order /\ h \in StoredIn(Contents)
        BY <2>1 DEF Contents, StoredIn
    <2>3. CASE Sweep
        <3>1. status' = Swept(Contents).status
            BY <2>3 DEF Sweep, Become
        <3>2. h \notin StoredIn(Swept(Contents))
            BY <2>1, <3>1 DEF StoredIn
        <3>. QED  BY <1>1, <2>2, <3>2, SweptIsSound DEF StoreInv
    <2>4. CASE ServerRestarts
        BY <2>4 DEF ServerRestarts, Become
    <2>5. ASSUME NEW g \in Hashes, Verified(g)
          PROVE  Justified(h)
        <3>1. PICK c : c = Contents
            OBVIOUS
        <3>2. PICK s : s = Set(c, g)
            OBVIOUS
        <3>3. /\ Sound(c) /\ c.order = order /\ c.status = status /\ Len(c.order) <= MaxSize
              /\ h \in StoredIn(c)
            BY <1>1, <2>2, <3>1 DEF StoreInv
        <3>4. g \in verifying /\ g \notin verifying' /\ status' = s.status
            BY <2>5, <3>1, <3>2 DEF Verified, Become
        <3>5. h \notin StoredIn(s)
            BY <2>1, <3>4 DEF StoredIn
        <3>6. /\ Len(order) = MaxSize
              /\ status[h] \in Terminal \/ \A k \in Hashes \ {g} : status[k] \notin Terminal
            BY <3>2, <3>3, <3>5, SetIsSound
        <3>. QED  BY <2>1, <3>4, <3>6
    <2>6. ASSUME NEW g \in Settling, NEW to \in {"filled", "settled", "refunded"}, Report(g, to)
          PROVE  FALSE
        <3>1. StoredIn(Contents) \subseteq StoredIn(Contents')
            BY <1>1, <2>6, ReportKeepsStore, WatcherAssumption DEF Statuses
        <3>2. Contents'.status = status'
            BY DEF Contents
        <3>. QED  BY <2>1, <2>2, <3>1, <3>2 DEF StoredIn
    <2>7. UNCHANGED status => FALSE
        BY <2>1
    <2>8. \/ MempoolNext \/ UNCHANGED mempool
          \/ \E g \in Settling, to \in {"filled", "settled", "refunded"} : Report(g, to)
        BY <1>1 DEF Next, vars, Handle, Deliver, Mine, SolverReports, RelayerReports, ReadHead,
               Fetch, FetchFails, SkipReported, ReportSettled, ReportFails, Advance, Stop, Start,
               Crash
    <2>9. UNCHANGED mempool => UNCHANGED status
        BY DEF mempool, store
    <2>10. MempoolNext => \/ Sweep \/ ServerRestarts \/ UNCHANGED status
                          \/ \E g \in Hashes : Verified(g)
        BY DEF MempoolNext, Tick, StartListing, ListPage, ListingFails, Submit, Refused,
               WaitForSettlement, PollEnds, store
    <2>. QED  BY <2>3, <2>4, <2>5, <2>6, <2>7, <2>8, <2>9, <2>10
<1>2. StoreInv /\ [Next]_vars =>
          [\A h \in Hashes : Updatable(h) /\ ~Stored(h)' => Justified(h)]_mempool
    BY <1>1
<1>. QED  BY <1>2, ListingInvHolds, PTL DEF Spec, UnfinishedIsKept
=============================================================================
