------------------------------ MODULE Relayer ------------------------------
(***************************************************************************)
(* One direction of the relayer (src/relayer/src): the loop that polls the *)
(* EVM escrow for Locked events, waits for confirmations, delivers each    *)
(* FillInstruction to the Soroban settlement contract, retries with a      *)
(* budget, dead-letters, and moves a cursor that it checkpoints.           *)
(*                                                                         *)
(* Every await of the code is a boundary between two actions, so the chain *)
(* may be reorganised, the LayerZero executor may deliver, the operator    *)
(* may drain and the process may die between any two of them.  A message   *)
(* is one Locked event.  A block's hash is its height with the number of   *)
(* the fork it was mined on.                                               *)
(***************************************************************************)
EXTENDS Integers, Sequences, FiniteSets, FiniteSetsExt

CONSTANTS
    Msgs,           \* the Locked events
    Confirmations,  \* config.confirmations
    StartBlock,     \* config.startBlock
    MaxAttempts,    \* retry.maxAttempts
    HasEndpoint,    \* EVMSourceWatcherConfig.endpointAddress is set
    MaxHeight,      \* bound: height of the source chain
    MaxFaults       \* bound: reorganisations, ends of the process, letters taken out

ASSUME RelayerAssumption ==
    /\ Confirmations \in Nat /\ StartBlock \in Nat \ {0}
    /\ MaxAttempts \in Nat /\ MaxAttempts >= 2
    /\ HasEndpoint \in BOOLEAN
    /\ {MaxHeight, MaxFaults} \subseteq Nat

VARIABLES
    chain,       \* the source chain: chain[n] is block n
    forks,       \* how many times it was reorganised
    registered,  \* messages the settlement contract has registered
    landing,     \* deliveries whose confirmation timed out and may still land
    phase,       \* where the loop is
    tick,        \* the local variables of the running tick
    cursor, window, attempts, waiting, dead,   \* the relayer's memory
    checkpoint, deadFile,                      \* the relayer's two files
    stops, drained                             \* what the bounds count

world  == <<chain, forks, registered, landing>>
memory == <<cursor, window, attempts, waiting, dead>>
disk   == <<checkpoint, deadFile>>
counts == <<stops, drained>>
vars   == <<world, phase, tick, memory, disk, counts>>

-----------------------------------------------------------------------------
(* The source chain *)

head == Len(chain)
On(m, n) == m \in chain[n].msgs
OnChain(m) == \E n \in 1 .. head : On(m, n)
Final(m) == \E n \in 1 .. head - Confirmations : On(m, n)
Faults == forks + stops + Cardinality(drained)
HeaderOf(n) == [number |-> n, hash |-> chain[n].fork,
                parent |-> IF n = 1 THEN 0 ELSE chain[n - 1].fork]

\* A new block carries any of the events that are not on the chain.
Mine ==
    /\ head < MaxHeight
    /\ \E S \in SUBSET {m \in Msgs : ~OnChain(m)} :
          chain' = Append(chain, [fork |-> forks, msgs |-> S])
    /\ UNCHANGED <<forks, registered, landing, phase, tick, memory, disk, counts>>

\* The last k blocks are replaced, k at most the configured depth; an orphaned
\* event is mined again in one of the new blocks (0: it is not).
ChainReorg ==
    /\ Faults < MaxFaults
    /\ \E k \in 1 .. Min({Confirmations, head}) :
         LET kept == head - k
             orphans == UNION {chain[n].msgs : n \in kept + 1 .. head}
         IN \E place \in [orphans -> {0} \cup (kept + 1 .. head)] :
              chain' = [n \in 1 .. head |->
                          IF n <= kept THEN chain[n]
                          ELSE [fork |-> forks + 1,
                                msgs |-> {m \in orphans : place[m] = n}]]
    /\ forks' = forks + 1
    /\ UNCHANGED <<registered, landing, phase, tick, memory, disk, counts>>

-----------------------------------------------------------------------------
(* The destination, as far as the relayer sees it *)

\* LayerZero's own executor, which waits for the same depth.
ExecutorDelivers(m) ==
    /\ Final(m) /\ m \notin registered
    /\ registered' = registered \cup {m}
    /\ UNCHANGED <<chain, forks, landing, phase, tick, memory, disk, counts>>

\* A transaction that outlived submitAndWait is included, or its time bounds pass.
Settle(m) ==
    /\ m \in landing
    /\ landing' = landing \ {m}
    /\ registered' \in {registered, registered \cup {m}}
    /\ UNCHANGED <<chain, forks, phase, tick, memory, disk, counts>>

-----------------------------------------------------------------------------
(* The tick: poll *)

NoTick == [head |-> 0]

\* The end of a tick that threw: start() logs it and sleeps.
Throw == phase' = "sleep" /\ tick' = NoTick

\* getBlockNumber and getBlock.
PollHead ==
    /\ phase = "poll"
    /\ head > 0
    /\ phase' = "logs"
    /\ tick' = [head |-> head, top |-> HeaderOf(head)]
    /\ UNCHANGED <<world, memory, disk, counts>>

\* The events whose transport nonce may come from their PacketSent event; the others
\* take the next value of a counter, so their key is a new one.
TransportNonces == IF HasEndpoint THEN SUBSET Msgs ELSE {{}}

\* decodeLockedLog of every log in these blocks.
Observed(from, to) == {m \in Msgs : \E n \in from .. to : On(m, n)}

\* getLogs from the cursor to the head read before.
Logs(keyed) ==
    LET seen == Observed(cursor, tick.head)
    IN [head |-> tick.head, top |-> tick.top,
        at |-> [m \in Msgs |-> IF m \in seen
                               THEN CHOOSE n \in 1 .. tick.head : On(m, n) ELSE 0],
        keyed |-> keyed \cap seen, todo |-> {}, open |-> {}]

Headers(t) ==
    {HeaderOf(n) : n \in {t.at[m] : m \in Msgs} \ {0}} \cup {t.top}

\* detectReorg: how far below the head the first recorded block lies whose
\* parent is the one recorded under it.
Recorded(n) == \E b \in window : b.number = n
Record(n) == CHOOSE b \in window : b.number = n
Linked(n) == Recorded(n - 1) /\ Record(n - 1).hash = Record(n).parent
ReorgDepth(top) ==
    IF ~Recorded(top.number - 1) \/ Record(top.number - 1).hash = top.parent
    THEN 0
    ELSE top.number - Max({n \in 1 .. top.number - 1 :
             /\ Recorded(n)
             /\ n <= StartBlock \/ ~Recorded(n - 1) \/ Linked(n)})

\* recordHeaders: a new record replaces the one of the same height, the head's last.
RecordHeaders(t) ==
    LET kept == {b \in Headers(t) : b.number # t.top.number} \cup {t.top}
    IN {b \in window : \A f \in kept : f.number # b.number} \cup kept

\* One confirmation too few (a mutant).
ConfirmedHeadEarly(t) == Max({0, t.head - Confirmations + 1})

ConfirmedHead(t) == Max({0, t.head - Confirmations})

\* The reorg branch of tick(): the cursor is put at the block below the fork
\* and nothing is relayed or saved.
Rollback(t) ==
    LET depth == ReorgDepth(t.top)
        messages == {m \in Msgs : t.at[m] > 0}
        local == t.head = cursor /\ messages # {}
    IN /\ depth > 0
       /\ depth <= Confirmations \/ local
       /\ cursor' = Max({StartBlock, t.head - depth})
       /\ window' = RecordHeaders(t)
       /\ phase' = "sleep" /\ tick' = NoTick
       /\ UNCHANGED <<attempts, waiting, dead>>

\* The other branch: the headers are recorded, the bookkeeping of messages no
\* longer observed is dropped, and the confirmed messages are taken up.
TakeUp(t) ==
    LET depth == ReorgDepth(t.top)
        messages == {m \in Msgs : t.at[m] > 0}
        local == t.head = cursor /\ messages # {}
    IN /\ depth = 0 \/ (depth > Confirmations /\ ~local)
       /\ window' = RecordHeaders(t)
       /\ attempts' = [m \in Msgs |-> IF m \in t.keyed THEN attempts[m] ELSE 0]
       /\ waiting' = waiting \cap t.keyed
       /\ tick' = [t EXCEPT !.todo = {m \in messages : t.at[m] <= ConfirmedHead(t)}]
       /\ phase' = "relay"
       /\ UNCHANGED <<cursor, dead>>

PollLogs ==
    /\ phase = "logs"
    /\ \E keyed \in TransportNonces :
          LET t == Logs(keyed) IN Rollback(t) \/ TakeUp(t)
    /\ UNCHANGED <<world, disk, counts>>

\* Any RPC of poll() fails: the tick throws before it touched anything.
PollFails ==
    /\ phase \in {"poll", "logs"}
    /\ Throw
    /\ UNCHANGED <<world, memory, disk, counts>>

-----------------------------------------------------------------------------
(* The tick: relay *)

\* The loop of tick() takes the messages in the order of their blocks.
Turn(m) == m \in tick.todo /\ \A o \in tick.todo : tick.at[m] <= tick.at[o]

Resolve(m) ==
    /\ tick' = [tick EXCEPT !.todo = @ \ {m}]
    /\ phase' = "relay"

LeaveOpen(m) ==
    /\ tick' = [tick EXCEPT !.todo = @ \ {m}, !.open = @ \cup {m}]
    /\ phase' = "relay"

\* relayOne up to its first await: a dead letter is resolved, a message whose
\* backoff has not elapsed is left open, any other is looked up.
StartRelay(m) ==
    /\ phase = "relay" /\ Turn(m)
    /\ \/ /\ m \in dead /\ m \in tick.keyed
          /\ Resolve(m)
       \/ /\ ~(m \in dead /\ m \in tick.keyed)
          /\ m \in waiting
          /\ LeaveOpen(m)
       \/ /\ ~(m \in dead /\ m \in tick.keyed)
          /\ m \notin waiting
          /\ phase' = "check" /\ UNCHANGED tick
    /\ UNCHANGED <<world, memory, disk, counts>>

\* isDelivered: an RPC failure is answered with "no".
CheckDelivered(m) ==
    /\ phase = "check" /\ Turn(m)
    /\ \/ /\ m \in registered
          /\ attempts' = [attempts EXCEPT ![m] = 0]
          /\ waiting' = waiting \ {m}
          /\ Resolve(m)
       \/ /\ phase' = "deliver"
          /\ UNCHANGED <<tick, attempts, waiting>>
    /\ UNCHANGED <<world, cursor, window, dead, disk, counts>>

\* The attempts are not counted (a mutant).
FailedUncounted(m) ==
    /\ waiting' = IF m \in tick.keyed THEN waiting \cup {m} ELSE waiting
    /\ LeaveOpen(m)
    /\ UNCHANGED <<attempts, dead>>

\* The catch block of relayOne: one more attempt for the key, and the message
\* waits; with the budget used up it is dead-lettered and counts as resolved.
\* A key made from the counter has no earlier attempts and is not seen again.
Failed(m) ==
    LET attempt == (IF m \in tick.keyed THEN attempts[m] ELSE 0) + 1
    IN IF attempt >= MaxAttempts
       THEN /\ dead' = dead \cup {m}
            /\ attempts' = [attempts EXCEPT ![m] = 0]
            /\ waiting' = waiting \ {m}
            /\ Resolve(m)
       ELSE /\ attempts' = IF m \in tick.keyed
                           THEN [attempts EXCEPT ![m] = attempt] ELSE attempts
            /\ waiting' = IF m \in tick.keyed
                          THEN waiting \cup {m} ELSE waiting
            /\ LeaveOpen(m)
            /\ UNCHANGED dead

\* deliver: submitted and confirmed.
DeliverAccepted(m) ==
    /\ phase = "deliver" /\ Turn(m)
    /\ m \notin registered
    /\ registered' = registered \cup {m}
    /\ attempts' = [attempts EXCEPT ![m] = 0]
    /\ waiting' = waiting \ {m}
    /\ Resolve(m)
    /\ UNCHANGED <<chain, forks, landing, cursor, window, dead, disk, counts>>

\* deliver: the contract or the RPC refuses; a registered intent is refused too.
DeliverRejected(m) ==
    /\ phase = "deliver" /\ Turn(m)
    /\ Failed(m)
    /\ UNCHANGED <<world, cursor, window, disk, counts>>

\* deliver: accepted by sendTransaction, not confirmed within the polls.
DeliverTimesOut(m) ==
    /\ phase = "deliver" /\ Turn(m)
    /\ m \notin registered
    /\ landing' = landing \cup {m}
    /\ Failed(m)
    /\ UNCHANGED <<chain, forks, registered, cursor, window, disk, counts>>

\* The retry backoff of a message elapses.
Elapse(m) ==
    /\ m \in waiting
    /\ waiting' = waiting \ {m}
    /\ UNCHANGED <<world, phase, tick, cursor, window, attempts, dead, disk, counts>>

-----------------------------------------------------------------------------
(* The tick: advance, save, persist *)

\* The open messages do not hold the cursor (a mutant).
NextCursorPastOpen == ConfirmedHead(tick) + 1

NextCursor ==
    LET open == {tick.at[m] : m \in tick.open}
    IN Min({ConfirmedHead(tick) + 1} \cup open)

FinishRelay ==
    /\ phase = "relay" /\ tick.todo = {}
    /\ cursor' = Max({cursor, NextCursor})
    /\ phase' = "save" /\ tick' = NoTick
    /\ UNCHANGED <<world, window, attempts, waiting, dead, disk, counts>>

SaveCheckpoint ==
    /\ phase = "save"
    /\ checkpoint' = cursor
    /\ phase' = "persist"
    /\ UNCHANGED <<world, tick, memory, deadFile, counts>>

PersistDead ==
    /\ phase = "persist"
    /\ deadFile' = dead
    /\ phase' = "sleep"
    /\ UNCHANGED <<world, tick, memory, checkpoint, counts>>

\* Either write fails: the tick throws, with the cursor already moved.
WriteFails ==
    /\ phase \in {"save", "persist"}
    /\ Throw
    /\ UNCHANGED <<world, memory, disk, counts>>

Wake ==
    /\ phase = "sleep"
    /\ phase' = "poll"
    /\ UNCHANGED <<world, tick, memory, disk, counts>>

-----------------------------------------------------------------------------
(* Stopping, starting, and the operator *)

\* The process ends anywhere: a crash, a FatalError out of deliver() (which a
\* failing getPeer raises), or stop() at the end of a tick.  The memory shown
\* from here on is the one the next start loads from the two files.
ProcessEnds ==
    /\ phase # "down"
    /\ Faults < MaxFaults
    /\ stops' = stops + 1
    /\ phase' = "down" /\ tick' = NoTick
    /\ cursor' = IF checkpoint = 0 THEN StartBlock ELSE checkpoint
    /\ dead' = deadFile
    /\ window' = {} /\ waiting' = {} /\ attempts' = [m \in Msgs |-> 0]
    /\ UNCHANGED <<world, disk, drained>>

Start ==
    /\ phase = "down"
    /\ phase' = "poll"
    /\ UNCHANGED <<world, tick, memory, disk, counts>>

\* drain() empties the store, discard(key) removes one entry; the entries go to
\* the caller, and nothing hands them to the loop.
Operate ==
    /\ phase # "down"
    /\ dead # {} /\ Faults < MaxFaults
    /\ dead' \in {{}} \cup {dead \ {m} : m \in dead}
    /\ drained' = drained \cup (dead \ dead')
    /\ UNCHANGED <<world, phase, tick, cursor, window, attempts, waiting, disk, stops>>

-----------------------------------------------------------------------------
Init ==
    /\ chain = <<>> /\ forks = 0
    /\ registered = {} /\ landing = {}
    /\ phase = "down" /\ tick = NoTick
    /\ cursor = StartBlock /\ window = {}
    /\ attempts = [m \in Msgs |-> 0] /\ waiting = {} /\ dead = {}
    /\ checkpoint = 0 /\ deadFile = {}
    /\ stops = 0 /\ drained = {}

Deliver(m) == DeliverAccepted(m) \/ DeliverRejected(m) \/ DeliverTimesOut(m)

Next ==
    \/ Mine \/ ChainReorg
    \/ PollHead \/ PollLogs \/ PollFails
    \/ FinishRelay \/ SaveCheckpoint \/ PersistDead \/ WriteFails
    \/ Wake \/ ProcessEnds \/ Start \/ Operate
    \/ \E m \in Msgs :
          \/ ExecutorDelivers(m) \/ Settle(m) \/ Elapse(m)
          \/ StartRelay(m) \/ CheckDelivered(m) \/ Deliver(m)

\* The loop runs on, a timer fires, a call returns; and a poll or a write that
\* is tried again and again succeeds again and again.
Fairness ==
    /\ WF_vars(FinishRelay)
    /\ WF_vars(Wake) /\ WF_vars(Start)
    /\ SF_vars(PollHead) /\ SF_vars(PollLogs) /\ SF_vars(SaveCheckpoint) /\ SF_vars(PersistDead)
    /\ \A m \in Msgs :
          /\ WF_vars(Elapse(m)) /\ WF_vars(StartRelay(m))
          /\ WF_vars(CheckDelivered(m)) /\ WF_vars(Deliver(m))

Spec == Init /\ [][Next]_vars
FairSpec == Spec /\ Fairness

-----------------------------------------------------------------------------
(* Properties *)

Phases == {"down", "poll", "logs", "relay", "check", "deliver", "save", "persist", "sleep"}

\* Every variable stays in its range, and both files hold what some tick wrote.
TypeOK ==
    /\ \A n \in 1 .. head : chain[n].fork \in 0 .. forks /\ chain[n].msgs \subseteq Msgs
    /\ registered \subseteq Msgs /\ landing \subseteq Msgs
    /\ phase \in Phases
    /\ cursor \in StartBlock .. MaxHeight + StartBlock
    /\ checkpoint \in {0} \cup (StartBlock .. MaxHeight + StartBlock)
    /\ attempts \in [Msgs -> 0 .. MaxAttempts - 1]
    /\ waiting \subseteq Msgs /\ dead \subseteq Msgs /\ deadFile \subseteq Msgs
    /\ stops \in 0 .. MaxFaults /\ drained \subseteq Msgs

\* The confirmation depth does its work (tick, relayer.ts:423-446): while the chain is
\* never reorganised deeper than `confirmations`, what was relayed is never orphaned.
RelayedIsFinal == \A m \in registered \cup landing : OnChain(m)

\* An event from StartBlock on that the loop will not look at again although nothing
\* became of it.
Skipped(m) ==
    /\ \E n \in StartBlock .. Min({head, cursor - 1}) : On(m, n)
    /\ m \notin registered \cup dead

\* No tick, failed write, restart or late delivery lets go of an event (the cursor rule
\* of tick(), relayer.ts:448-474), except: the rollback of a reorg; a drain or discard of it; a
\* process that ends with a dead letter that is not on file, or after a rollback, which is
\* not saved; a reorg of blocks that a rollback made the cursor pass.
SkippedOnlyBy ==
    [][\A m \in Msgs : ~Skipped(m) /\ Skipped(m)' =>
          \/ phase = "logs"
          \/ m \in drained'
          \/ ProcessEnds /\ (m \in dead \ deadFile \/ cursor < checkpoint)
          \/ ChainReorg /\ cursor > head - Confirmations + 1]_vars

\* What relayer.ts:19-21 says of a reorg within the window: the cursor is rolled back.
RollbackNeverAdvances == [][phase = "logs" => cursor' <= cursor]_vars

\* What dead-letter.ts:33-34 says of drain(): delivery is attempted again, so a drained
\* event is not left behind the cursor.
DrainedIsRetried == [][Operate => \A m \in dead \ dead' : ~Skipped(m)']_vars

\* The retry budget (relayer.ts:115-119): an event that is final is delivered,
\* dead-lettered, or let go of as above; whatever it fails with it does not hold the
\* cursor back for ever.  It needs the event's key to be the same at every poll.
Resolved(m) == m \in registered \cup dead \/ Skipped(m)
FinalIsResolved ==
    \A m \in Msgs :
        (\E n \in StartBlock .. head - Confirmations : On(m, n)) ~> Resolved(m)
KeysStay == <>[](phase \in {"relay", "check", "deliver"} =>
                    {m \in Msgs : tick.at[m] > 0} = tick.keyed)
FinalIsResolvedWithKeys == KeysStay => FinalIsResolved

=============================================================================
