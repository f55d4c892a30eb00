---------------------------- MODULE RelayerProofs ----------------------------
(***************************************************************************)
(* The confirmation depth does its work (RelayedIsFinal), and an event is  *)
(* let go of only in the ways that SkippedOnlyBy lists: proofs for any depth, *)
(* retry budget and start block, any number of messages, reorganisations,  *)
(* restarts and failures.                                                  *)
(***************************************************************************)
EXTENDS Relayer, WellFoundedInduction, TLAPS

Blocks == [fork : Nat, msgs : SUBSET Msgs]
FinalMsgs == {m \in Msgs : Final(m)}
Relaying == phase \in {"relay", "check", "deliver"}

\* The relayer takes up what was final at the head that it read, and never looks below the
\* first block; the header history is that of existing heights.
ChainInv == chain \in Seq(Blocks) /\ forks \in Nat
CursorInv ==
    /\ cursor \in Nat \ {0} /\ checkpoint \in Nat
    /\ \A b \in window : b.number \in Nat \ {0}
TickInv ==
    /\ phase = "logs" => tick.head \in 1 .. head /\ tick.top.number = tick.head
    /\ Relaying => /\ tick.head \in Nat
                   /\ tick.at \in [Msgs -> Nat] /\ tick.open \subseteq Msgs
                   /\ tick.todo \subseteq FinalMsgs
DeliveredInv == registered \cup landing \subseteq FinalMsgs

RelayerInv == ChainInv /\ CursorInv /\ TickInv /\ DeliveredInv

-----------------------------------------------------------------------------
(* Extrema *)

LEMMA MaxOfTwo == \A a, b \in Int : Max({a, b}) = (IF a >= b THEN a ELSE b)
  BY DEF Max

LEMMA MinOfTwo == \A a, b \in Int : Min({a, b}) = (IF a <= b THEN a ELSE b)
  BY DEF Min

LEMMA LeastExists ==
    ASSUME NEW S \in SUBSET Nat, S # {}
    PROVE  \E x \in S : \A y \in S : x <= y
<1> DEFINE less == {p \in Nat \X Nat : p[1] < p[2]}
<1>1. IsWellFoundedOn(less, Nat)
  BY NatLessThanWellFounded DEF OpToRel
<1>. HIDE DEF less
<1>2. PICK x \in S : \A y \in S : <<y, x>> \notin less
  BY <1>1, WFMin
<1>3. ASSUME NEW y \in S PROVE x <= y
  <2>1. x \in Nat /\ y \in Nat
    OBVIOUS
  <2>2. y < x => <<y, x>> \in less
    BY <2>1 DEF less
  <2>. QED
    BY <1>2, <2>1, <2>2
<1>. QED
  BY <1>3

LEMMA MinExists ==
    ASSUME NEW S \in SUBSET Nat, S # {}
    PROVE  Min(S) \in S /\ \A y \in S : Min(S) <= y
  BY LeastExists DEF Min

\* Bounded sets of naturals have a maximum.
LEMMA MaxExists ==
    ASSUME NEW k \in Nat, NEW S \in SUBSET (0 .. k), S # {} PROVE Max(S) \in S
<1> DEFINE T == {k - x : x \in S}
<1>1. T \in SUBSET Nat /\ T # {}
  <2>1. \A x \in S : k - x \in Nat
    OBVIOUS
  <2>. QED
    BY <2>1
<1>2. PICK t \in T : \A u \in T : t <= u
  <2>. HIDE DEF T
  <2>. QED
    BY <1>1, LeastExists
<1>3. PICK x \in S : t = k - x
  BY <1>2
<1>4. \A y \in S : x >= y
  <2>. SUFFICES ASSUME NEW y \in S PROVE x >= y
    OBVIOUS
  <2>1. k - x <= k - y
    BY <1>2, <1>3
  <2>. QED
    BY <2>1
<1>. QED
  BY <1>4 DEF Max

-----------------------------------------------------------------------------
(* The steps *)

LEMMA InitRelayer == Init => RelayerInv
  BY RelayerAssumption
     DEF Init, RelayerInv, ChainInv, CursorInv, TickInv, DeliveredInv, Relaying

\* A reorg keeps the blocks below its depth and places the orphans in the new ones.
LEMMA ReorgShape ==
    ASSUME ChainInv, ChainReorg
    PROVE  \E kept \in Nat : \E place :
              /\ head - Confirmations <= kept /\ kept <= head
              /\ LET orphans == UNION {chain[n].msgs : n \in kept + 1 .. head}
                 IN chain' = [n \in 1 .. head |->
                                IF n <= kept THEN chain[n]
                                ELSE [fork |-> forks + 1,
                                      msgs |-> {m \in orphans : place[m] = n}]]
<1>1. PICK k \in 1 .. Min({Confirmations, head}) :
         LET kept == head - k
             orphans == UNION {chain[n].msgs : n \in kept + 1 .. head}
         IN \E place \in [orphans -> {0} \cup (kept + 1 .. head)] :
              chain' = [n \in 1 .. head |->
                          IF n <= kept THEN chain[n]
                          ELSE [fork |-> forks + 1,
                                msgs |-> {m \in orphans : place[m] = n}]]
  BY DEF ChainReorg
<1>2. head \in Nat
  BY DEF ChainInv, head
<1>3. Min({Confirmations, head}) = IF Confirmations <= head THEN Confirmations ELSE head
  BY <1>2, MinOfTwo, RelayerAssumption
<1>4. k \in Nat /\ k <= Confirmations /\ k <= head
  BY <1>2, <1>3, RelayerAssumption
<1> DEFINE below == head - k
<1>5. below \in Nat /\ head - Confirmations <= below /\ below <= head
  BY <1>2, <1>4, RelayerAssumption
<1>6. PICK place :
         LET orphans == UNION {chain[n].msgs : n \in below + 1 .. head}
         IN chain' = [n \in 1 .. head |->
                        IF n <= below THEN chain[n]
                        ELSE [fork |-> forks + 1,
                              msgs |-> {m \in orphans : place[m] = n}]]
  BY <1>1
<1>. HIDE DEF below
<1>7. /\ head - Confirmations <= below /\ below <= head
      /\ LET orphans == UNION {chain[n].msgs : n \in below + 1 .. head}
         IN chain' = [n \in 1 .. head |->
                        IF n <= below THEN chain[n]
                        ELSE [fork |-> forks + 1,
                              msgs |-> {m \in orphans : place[m] = n}]]
  BY <1>5, <1>6
<1>. QED
  BY <1>5, <1>7, Zenon

\* Whatever the source chain does, what was final stays final.
LEMMA ChainStep ==
    ASSUME ChainInv, [Next]_vars
    PROVE  /\ ChainInv' /\ Len(chain) <= Len(chain')
           /\ \A m \in Msgs : Final(m) => Final(m)'
<1>. USE DEF head
<1>0. Len(chain) \in Nat
  BY DEF ChainInv
<1>1. CASE UNCHANGED <<chain, forks>>
  BY <1>0, <1>1 DEF ChainInv, Final, On
<1>2. CASE Mine
  <2>1. PICK S \in SUBSET Msgs : chain' = Append(chain, [fork |-> forks, msgs |-> S])
    BY <1>2 DEF Mine
  <2>2. forks' = forks /\ [fork |-> forks, msgs |-> S] \in Blocks
    BY <1>2 DEF Mine, ChainInv, Blocks
  <2>3. /\ chain' \in Seq(Blocks) /\ Len(chain') = Len(chain) + 1
        /\ \A n \in 1 .. Len(chain) : chain'[n] = chain[n]
    BY <2>1, <2>2 DEF ChainInv
  <2>4. ASSUME NEW m \in Msgs, Final(m) PROVE Final(m)'
    <3>1. PICK n \in 1 .. Len(chain) - Confirmations : m \in chain[n].msgs
      BY <2>4 DEF Final, On
    <3>2. n \in 1 .. Len(chain') - Confirmations /\ chain'[n] = chain[n]
      BY <1>0, <2>3, <3>1, RelayerAssumption
    <3>. QED
      BY <3>1, <3>2 DEF Final, On
  <2>. QED
    BY <1>0, <2>2, <2>3, <2>4 DEF ChainInv
<1>3. CASE ChainReorg
  <2>0. PICK kept \in Nat : \E place :
           /\ Len(chain) - Confirmations <= kept /\ kept <= Len(chain)
           /\ LET orphans == UNION {chain[n].msgs : n \in kept + 1 .. Len(chain)}
              IN chain' = [n \in 1 .. Len(chain) |->
                             IF n <= kept THEN chain[n]
                             ELSE [fork |-> forks + 1,
                                   msgs |-> {m \in orphans : place[m] = n}]]
    BY <1>3, ReorgShape DEF head
  <2>1. PICK place :
           /\ Len(chain) - Confirmations <= kept /\ kept <= Len(chain)
           /\ LET orphans == UNION {chain[n].msgs : n \in kept + 1 .. Len(chain)}
              IN chain' = [n \in 1 .. Len(chain) |->
                             IF n <= kept THEN chain[n]
                             ELSE [fork |-> forks + 1,
                                   msgs |-> {m \in orphans : place[m] = n}]]
    BY <2>0
  <2> DEFINE orphans == UNION {chain[n].msgs : n \in kept + 1 .. Len(chain)}
  <2>2. chain' = [n \in 1 .. Len(chain) |->
                    IF n <= kept THEN chain[n]
                    ELSE [fork |-> forks + 1, msgs |-> {m \in orphans : place[m] = n}]]
    BY <2>1
  <2>4. kept \in Nat /\ Len(chain) - Confirmations <= kept /\ kept <= Len(chain)
    BY <2>1
  <2>5. orphans \subseteq Msgs
    <3>1. \A n \in kept + 1 .. Len(chain) : n \in 1 .. Len(chain)
      BY <1>0, <2>4
    <3>2. ASSUME NEW n \in 1 .. Len(chain) PROVE chain[n].msgs \subseteq Msgs
      <4>1. chain[n] \in Blocks
        BY DEF ChainInv
      <4>. QED
        BY <4>1 DEF Blocks
    <3>. QED
      BY <3>1, <3>2
  <2>. HIDE DEF orphans
  <2>6. forks' = forks + 1 /\ forks + 1 \in Nat
    BY <1>3 DEF ChainReorg, ChainInv
  <2>7. \A n \in 1 .. Len(chain) : chain'[n] \in Blocks
    <3>. SUFFICES ASSUME NEW n \in 1 .. Len(chain) PROVE chain'[n] \in Blocks
      OBVIOUS
    <3>1. chain[n] \in Blocks
      BY DEF ChainInv
    <3>2. [fork |-> forks + 1, msgs |-> {m \in orphans : place[m] = n}] \in Blocks
      BY <2>5, <2>6 DEF Blocks
    <3>. QED
      BY <2>2, <3>1, <3>2
  <2>8. DOMAIN chain' = 1 .. Len(chain) /\ chain' = [n \in 1 .. Len(chain) |-> chain'[n]]
    BY <2>2
  <2>9. chain' \in Seq(Blocks) /\ Len(chain') = Len(chain)
    BY <1>0, <2>7, <2>8
  <2>10. \A n \in 1 .. Len(chain) - Confirmations : n \in 1 .. Len(chain) /\ chain'[n] = chain[n]
    BY <1>0, <2>2, <2>4, RelayerAssumption
  <2>. QED
    BY <2>6, <2>9, <2>10 DEF ChainInv, Final, On
<1>. QED
  <2>1. UNCHANGED vars => UNCHANGED <<chain, forks>>
    BY DEF vars, world
  <2>2. PollHead \/ PollLogs \/ PollFails \/ FinishRelay \/ SaveCheckpoint \/ PersistDead
        \/ WriteFails \/ Wake \/ ProcessEnds \/ Start \/ Operate => UNCHANGED <<chain, forks>>
    BY DEF PollHead, PollLogs, PollFails, FinishRelay, SaveCheckpoint, PersistDead,
           WriteFails, Wake, ProcessEnds, Start, Operate, world
  <2>3. \A m \in Msgs : ExecutorDelivers(m) \/ Settle(m) \/ Elapse(m) \/ StartRelay(m)
                        \/ CheckDelivered(m) \/ Deliver(m) => UNCHANGED <<chain, forks>>
    BY DEF ExecutorDelivers, Settle, Elapse, StartRelay, CheckDelivered, Deliver,
           DeliverAccepted, DeliverRejected, DeliverTimesOut, world
  <2>. QED
    BY <1>1, <1>2, <1>3, <2>1, <2>2, <2>3 DEF Next

\* detectReorg counts from the head to a recorded block above the first: its depth is a
\* number, for among the recorded blocks without a recorded parent there is a lowest one.
LEMMA DepthIsNat ==
    ASSUME CursorInv, NEW top, top.number \in Nat \ {0}
    PROVE  ReorgDepth(top) \in Nat
<1>. SUFFICES ASSUME Recorded(top.number - 1)
              PROVE  ReorgDepth(top) \in Nat
  BY DEF ReorgDepth
<1> DEFINE known == {n \in 1 .. top.number - 1 : Recorded(n)}
           bases == {n \in 1 .. top.number - 1 :
                       /\ Recorded(n)
                       /\ n <= StartBlock \/ ~Recorded(n - 1) \/ Linked(n)}
<1>1. top.number - 1 \in known
  BY DEF CursorInv, Recorded
<1>2. PICK low \in known : \A n \in known : low <= n
  <2>1. known \in SUBSET Nat /\ known # {}
    BY <1>1
  <2>. HIDE DEF known
  <2>. QED
    BY <2>1, LeastExists
<1>3. ~Recorded(low - 1)
  <2>1. low - 1 # 0 => low - 1 \in 1 .. top.number - 1
    OBVIOUS
  <2>2. ~Recorded(0)
    BY DEF CursorInv, Recorded
  <2>. QED
    BY <1>2, <2>1, <2>2
<1>4. low \in bases
  BY <1>3
<1>5. bases \in SUBSET (0 .. top.number - 1) /\ bases # {} /\ top.number - 1 \in Nat
  BY <1>4
<1>. HIDE DEF bases
<1>6. Max(bases) \in bases
  BY <1>5, MaxExists
<1>7. ReorgDepth(top) \in {0, top.number - Max(bases)}
  BY DEF ReorgDepth, bases
<1>8. Max(bases) \in 0 .. top.number - 1
  BY <1>5, <1>6
<1>. QED
  BY <1>7, <1>8

\* What Logs reads: every position is the block of the message, up to the head read before.
LEMMA LogsRead ==
    ASSUME ChainInv, CursorInv, TickInv, phase = "logs", NEW keyed
    PROVE  LET t == Logs(keyed)
           IN /\ t.head = tick.head /\ t.top = tick.top
              /\ t.at \in [Msgs -> Nat]
              /\ \A m \in Msgs : t.at[m] > 0 => t.at[m] \in 1 .. t.head /\ On(m, t.at[m])
              /\ t.open = {}
<1> DEFINE t == Logs(keyed)
           seen == Observed(cursor, tick.head)
<1>1. /\ t.head = tick.head /\ t.top = tick.top /\ t.open = {}
      /\ t.at = [m \in Msgs |-> IF m \in seen
                                THEN CHOOSE n \in 1 .. tick.head : On(m, n) ELSE 0]
  BY DEF Logs
<1>2. ASSUME NEW m \in seen
      PROVE  \E n \in 1 .. tick.head : On(m, n)
  BY DEF Observed, CursorInv, TickInv
<1>3. \A m \in Msgs : IF m \in seen THEN t.at[m] \in 1 .. tick.head /\ On(m, t.at[m])
                                    ELSE t.at[m] = 0
  <2>. HIDE DEF t, seen
  <2>. QED
    BY <1>1, <1>2
<1>. HIDE DEF t, seen
<1>4. tick.head \in Nat
  BY DEF TickInv, ChainInv, head
<1>5. t.at \in [Msgs -> Nat]
  BY <1>1, <1>3, <1>4
<1>6. \A m \in Msgs : t.at[m] > 0 => t.at[m] \in 1 .. t.head /\ On(m, t.at[m])
  BY <1>1, <1>3
<1>. QED
  BY <1>1, <1>5, <1>6 DEF t

LEMMA HeadersRecorded ==
    ASSUME CursorInv, NEW t, t.at \in [Msgs -> Nat], t.top.number \in Nat \ {0},
           NEW b \in RecordHeaders(t)
    PROVE  b.number \in Nat \ {0}
  BY DEF RecordHeaders, Headers, HeaderOf, CursorInv

\* The reading of the logs takes up only what is final.
LEMMA LogsStep ==
    ASSUME RelayerInv, PollLogs
    PROVE  CursorInv' /\ TickInv'
<1>1. phase = "logs" /\ checkpoint' = checkpoint /\ chain' = chain
  BY DEF PollLogs, disk, world
<1>2. PICK keyed : Rollback(Logs(keyed)) \/ TakeUp(Logs(keyed))
  BY DEF PollLogs
<1> DEFINE t == Logs(keyed)
<1>3. /\ t.head = tick.head /\ t.top = tick.top
      /\ t.at \in [Msgs -> Nat]
      /\ \A m \in Msgs : t.at[m] > 0 => t.at[m] \in 1 .. t.head /\ On(m, t.at[m])
      /\ t.open = {}
  BY <1>1, LogsRead DEF RelayerInv
<1>. HIDE DEF t
<1>4. /\ t.head \in Nat \ {0} /\ t.head <= Len(chain) /\ t.top.number = t.head
      /\ Len(chain) \in Nat
  BY <1>1, <1>3 DEF RelayerInv, TickInv, ChainInv, head
<1>5. ReorgDepth(t.top) \in Nat
  BY <1>4, DepthIsNat DEF RelayerInv
<1>6. \A b \in RecordHeaders(t) : b.number \in Nat \ {0}
  BY <1>3, <1>4, HeadersRecorded DEF RelayerInv
<1>7. CASE Rollback(t)
  <2>1. /\ cursor' = Max({StartBlock, t.head - ReorgDepth(t.top)})
        /\ window' = RecordHeaders(t) /\ phase' = "sleep"
    BY <1>7 DEF Rollback
  <2>2. cursor' \in Nat \ {0}
    BY <1>4, <1>5, <2>1, MaxOfTwo, RelayerAssumption
  <2>. QED
    BY <1>1, <1>6, <2>1, <2>2 DEF CursorInv, TickInv, Relaying, RelayerInv
<1>8. CASE TakeUp(t)
  <2>1. /\ window' = RecordHeaders(t) /\ cursor' = cursor /\ phase' = "relay"
        /\ tick' = [t EXCEPT !.todo = {m \in {m \in Msgs : t.at[m] > 0} :
                                         t.at[m] <= ConfirmedHead(t)}]
    BY <1>8 DEF TakeUp
  <2>2. ConfirmedHead(t) = IF 0 >= t.head - Confirmations THEN 0 ELSE t.head - Confirmations
    BY <1>4, MaxOfTwo, RelayerAssumption DEF ConfirmedHead
  <2>3. ASSUME NEW m \in Msgs, t.at[m] > 0, t.at[m] <= ConfirmedHead(t)
        PROVE  Final(m)'
    <3>1. t.at[m] \in 1 .. Len(chain) - Confirmations /\ On(m, t.at[m])
      BY <1>3, <1>4, <2>2, <2>3, RelayerAssumption
    <3>. QED
      BY <1>1, <3>1 DEF Final, On, head
  <2>4. /\ tick'.head = t.head /\ tick'.at = t.at /\ tick'.open = t.open
        /\ tick'.todo = {m \in {m \in Msgs : t.at[m] > 0} : t.at[m] <= ConfirmedHead(t)}
    BY <2>1 DEF t, Logs
  <2>5. TickInv'
    BY <1>3, <1>4, <2>1, <2>3, <2>4 DEF TickInv, Relaying, FinalMsgs
  <2>. QED
    BY <1>1, <1>6, <2>1, <2>5 DEF CursorInv, RelayerInv
<1>. QED
  BY <1>2, <1>7, <1>8 DEF t

\* The end of a tick moves the cursor to a number: the least of finitely many is one.
LEMMA FinishStep ==
    ASSUME RelayerInv, FinishRelay
    PROVE  /\ cursor \in Nat \ {0} /\ NextCursor \in Nat
           /\ cursor' = IF cursor >= NextCursor THEN cursor ELSE NextCursor
           /\ ConfirmedHead(tick) = IF 0 >= tick.head - Confirmations
                                    THEN 0 ELSE tick.head - Confirmations
           /\ NextCursor <= ConfirmedHead(tick) + 1
           /\ \A m \in tick.open : NextCursor <= tick.at[m]
<1> DEFINE open == {tick.at[m] : m \in tick.open}
<1>1. tick.head \in Nat /\ tick.at \in [Msgs -> Nat] /\ tick.open \subseteq Msgs
  BY DEF FinishRelay, RelayerInv, TickInv, Relaying
<1>2. /\ ConfirmedHead(tick) \in Nat
      /\ ConfirmedHead(tick) = IF 0 >= tick.head - Confirmations
                               THEN 0 ELSE tick.head - Confirmations
  BY <1>1, MaxOfTwo, RelayerAssumption DEF ConfirmedHead
<1>3. {ConfirmedHead(tick) + 1} \cup open \in SUBSET Nat
  BY <1>1, <1>2
<1>4. NextCursor \in Nat /\ \A y \in {ConfirmedHead(tick) + 1} \cup open : NextCursor <= y
  <2>1. NextCursor = Min({ConfirmedHead(tick) + 1} \cup open)
    BY DEF NextCursor
  <2>. HIDE DEF open
  <2>. QED
    BY <1>3, <2>1, MinExists
<1>5. cursor' = Max({cursor, NextCursor}) /\ cursor \in Nat \ {0}
  BY DEF FinishRelay, RelayerInv, CursorInv
<1>6. cursor' = IF cursor >= NextCursor THEN cursor ELSE NextCursor
  BY <1>4, <1>5, MaxOfTwo
<1>. QED
  BY <1>2, <1>4, <1>5, <1>6

LEMMA CursorStep == RelayerInv /\ [Next]_vars => CursorInv'
<1>. SUFFICES ASSUME RelayerInv, [Next]_vars PROVE CursorInv'
  OBVIOUS
<1>1. CASE UNCHANGED <<cursor, window, checkpoint>>
  BY <1>1 DEF RelayerInv, CursorInv
<1>2. CASE PollLogs
  BY <1>2, LogsStep
<1>3. CASE FinishRelay
  BY <1>3, FinishStep DEF FinishRelay, disk, RelayerInv, CursorInv
<1>4. CASE SaveCheckpoint
  BY <1>4 DEF SaveCheckpoint, memory, RelayerInv, CursorInv
<1>5. CASE ProcessEnds
  BY <1>5, RelayerAssumption DEF ProcessEnds, disk, RelayerInv, CursorInv
<1>. QED
  <2>1. UNCHANGED vars => UNCHANGED <<cursor, window, checkpoint>>
    BY DEF vars, memory, disk
  <2>2. Mine \/ ChainReorg \/ PollHead \/ PollFails \/ PersistDead \/ WriteFails \/ Wake
        \/ Start \/ Operate => UNCHANGED <<cursor, window, checkpoint>>
    BY DEF Mine, ChainReorg, PollHead, PollFails, PersistDead, WriteFails, Wake, Start,
           Operate, memory, disk
  <2>3. \A m \in Msgs : ExecutorDelivers(m) \/ Settle(m) \/ Elapse(m) \/ StartRelay(m)
                        \/ CheckDelivered(m) \/ Deliver(m)
           => UNCHANGED <<cursor, window, checkpoint>>
    BY DEF ExecutorDelivers, Settle, Elapse, StartRelay, CheckDelivered, Deliver,
           DeliverAccepted, DeliverRejected, DeliverTimesOut, memory, disk
  <2>. QED
    BY <1>1, <1>2, <1>3, <1>4, <1>5, <2>1, <2>2, <2>3 DEF Next

\* A step inside the tick resolves a message or leaves it open; all others were final
\* when they were taken up, and what is final stays final.
LEMMA TickStep == RelayerInv /\ [Next]_vars => TickInv'
<1>. SUFFICES ASSUME RelayerInv, [Next]_vars PROVE TickInv'
  OBVIOUS
<1>0. /\ ChainInv /\ TickInv /\ Len(chain) <= Len(chain') /\ Len(chain') \in Nat
      /\ Len(chain) \in Nat /\ FinalMsgs \subseteq FinalMsgs'
  BY ChainStep DEF RelayerInv, ChainInv, FinalMsgs
<1>1. CASE UNCHANGED <<phase, tick>>
  BY <1>0, <1>1 DEF TickInv, Relaying, head
<1>2. CASE PollLogs
  BY <1>2, LogsStep
<1>3. CASE PollHead
  <2>1. tick' = [head |-> Len(chain), top |-> HeaderOf(Len(chain))] /\ phase' = "logs"
        /\ chain' = chain /\ 0 < Len(chain)
    BY <1>3 DEF PollHead, head, world
  <2>2. tick'.head = Len(chain) /\ tick'.top.number = Len(chain)
    BY <2>1 DEF HeaderOf
  <2>. QED
    BY <1>0, <2>1, <2>2 DEF TickInv, Relaying, head
<1>4. CASE phase' \in {"down", "poll", "save", "persist", "sleep"}
  BY <1>4 DEF TickInv, Relaying
<1>5. ASSUME NEW m \in Msgs, Relaying, Turn(m), phase' \in {"relay", "check", "deliver"},
             tick' = tick \/ Resolve(m) \/ LeaveOpen(m)
      PROVE  TickInv'
  <2>1. /\ tick.head \in Nat /\ tick.at \in [Msgs -> Nat] /\ tick.open \subseteq Msgs
        /\ tick.todo \subseteq FinalMsgs
    BY <1>0, <1>5 DEF TickInv
  <2>2. /\ tick'.head = tick.head /\ tick'.at = tick.at
        /\ tick'.open \subseteq tick.open \cup {m} /\ tick'.todo \subseteq tick.todo
    <3>1. CASE tick' = tick
      BY <3>1
    <3>2. CASE Resolve(m)
      BY <3>2 DEF Resolve
    <3>3. CASE LeaveOpen(m)
      BY <3>3 DEF LeaveOpen
    <3>. QED
      BY <1>5, <3>1, <3>2, <3>3
  <2>. QED
    BY <1>0, <1>5, <2>1, <2>2 DEF TickInv, Relaying
<1>6. ASSUME NEW m \in Msgs, StartRelay(m) \/ CheckDelivered(m) \/ Deliver(m)
      PROVE  TickInv'
  <2>1. Relaying /\ Turn(m)
    BY <1>6 DEF StartRelay, CheckDelivered, Deliver, DeliverAccepted, DeliverRejected,
                DeliverTimesOut, Relaying
  <2>2. /\ phase' \in {"relay", "check", "deliver"}
        /\ tick' = tick \/ Resolve(m) \/ LeaveOpen(m)
    BY <1>6 DEF StartRelay, CheckDelivered, Deliver, DeliverAccepted, DeliverRejected,
                DeliverTimesOut, Failed, Resolve, LeaveOpen
  <2>. QED
    BY <1>5, <2>1, <2>2
<1>. QED
  <2>1. UNCHANGED vars => UNCHANGED <<phase, tick>>
    BY DEF vars
  <2>2. Mine \/ ChainReorg \/ Operate => UNCHANGED <<phase, tick>>
    BY DEF Mine, ChainReorg, Operate
  <2>3. PollFails \/ FinishRelay \/ SaveCheckpoint \/ PersistDead \/ WriteFails \/ Wake
        \/ ProcessEnds \/ Start => phase' \in {"down", "poll", "save", "persist", "sleep"}
    BY DEF PollFails, FinishRelay, SaveCheckpoint, PersistDead, WriteFails, Throw, Wake,
           ProcessEnds, Start
  <2>4. \A m \in Msgs : ExecutorDelivers(m) \/ Settle(m) \/ Elapse(m) => UNCHANGED <<phase, tick>>
    BY DEF ExecutorDelivers, Settle, Elapse
  <2>. QED
    BY <1>1, <1>2, <1>3, <1>4, <1>6, <2>1, <2>2, <2>3, <2>4 DEF Next

\* What is delivered is in turn, or final for the executor.
LEMMA DeliveredStep == RelayerInv /\ [Next]_vars => DeliveredInv'
<1>. SUFFICES ASSUME RelayerInv, [Next]_vars PROVE DeliveredInv'
  OBVIOUS
<1>0. /\ registered \cup landing \subseteq FinalMsgs /\ FinalMsgs \subseteq FinalMsgs'
      /\ TickInv
  BY ChainStep DEF RelayerInv, DeliveredInv, FinalMsgs
<1>1. CASE UNCHANGED <<registered, landing>>
  BY <1>0, <1>1 DEF DeliveredInv
<1>2. ASSUME NEW m \in Msgs, ExecutorDelivers(m) \/ Settle(m)
      PROVE  DeliveredInv'
  BY <1>0, <1>2 DEF ExecutorDelivers, Settle, DeliveredInv, FinalMsgs
<1>3. ASSUME NEW m \in Msgs, Deliver(m)
      PROVE  DeliveredInv'
  <2>1. m \in FinalMsgs
    BY <1>0, <1>3 DEF Deliver, DeliverAccepted, DeliverRejected, DeliverTimesOut, Turn,
                      TickInv, Relaying
  <2>2. registered' \cup landing' \subseteq registered \cup landing \cup {m}
    BY <1>3 DEF Deliver, DeliverAccepted, DeliverRejected, DeliverTimesOut, world
  <2>. QED
    BY <1>0, <2>1, <2>2 DEF DeliveredInv
<1>. QED
  <2>1. UNCHANGED vars => UNCHANGED <<registered, landing>>
    BY DEF vars, world
  <2>2. Mine \/ ChainReorg \/ PollHead \/ PollLogs \/ PollFails \/ FinishRelay
        \/ SaveCheckpoint \/ PersistDead \/ WriteFails \/ Wake \/ ProcessEnds \/ Start
        \/ Operate => UNCHANGED <<registered, landing>>
    BY DEF Mine, ChainReorg, PollHead, PollLogs, PollFails, FinishRelay, SaveCheckpoint,
           PersistDead, WriteFails, Wake, ProcessEnds, Start, Operate, world
  <2>3. \A m \in Msgs : Elapse(m) \/ StartRelay(m) \/ CheckDelivered(m)
                        => UNCHANGED <<registered, landing>>
    BY DEF Elapse, StartRelay, CheckDelivered, world
  <2>. QED
    BY <1>1, <1>2, <1>3, <2>1, <2>2, <2>3 DEF Next

LEMMA RelayerInvHolds == Spec => []RelayerInv
<1>1. RelayerInv /\ [Next]_vars => RelayerInv'
  <2>. SUFFICES ASSUME RelayerInv, [Next]_vars PROVE RelayerInv'
    OBVIOUS
  <2>1. ChainInv'
    BY ChainStep DEF RelayerInv
  <2>. QED
    BY <2>1, CursorStep, TickStep, DeliveredStep DEF RelayerInv
<1>. QED
  BY <1>1, InitRelayer, PTL DEF Spec

-----------------------------------------------------------------------------
\* The confirmation depth (tick, relayer.ts:423-446): what was relayed, or may still land, is
\* on the source chain, whatever is reorganised above that depth.
THEOREM RelayedStaysFinal == Spec => []RelayedIsFinal
<1>1. RelayerInv => RelayedIsFinal
  <2>. SUFFICES ASSUME RelayerInv, NEW m \in registered \cup landing
                PROVE  OnChain(m)
    BY DEF RelayedIsFinal
  <2>1. PICK n \in 1 .. Len(chain) - Confirmations : On(m, n)
    BY DEF RelayerInv, DeliveredInv, FinalMsgs, Final, head
  <2>2. n \in 1 .. Len(chain)
    BY RelayerAssumption DEF RelayerInv, ChainInv
  <2>. QED
    BY <2>1, <2>2 DEF OnChain, head
<1>. QED
  BY <1>1, RelayerInvHolds, PTL

-----------------------------------------------------------------------------
(* Nothing is skipped but by the four ways of SkippedOnlyBy *)

\* An event is in one block; the cursor and the checkpoint pass no block that does not
\* exist; and of the confirmed blocks that a tick read, each event has been taken up and
\* is still to do, left open, or resolved.
InOneBlock == \A m \in Msgs : \A i, j \in 1 .. head : On(m, i) /\ On(m, j) => i = j
CursorBound ==
    /\ cursor = StartBlock \/ cursor <= head + 1
    /\ checkpoint \in {0, StartBlock} \/ checkpoint <= head + 1
ResolvedOrOpen(m) == m \in tick.todo \cup tick.open \cup registered \cup dead \cup drained
TakenUp ==
    Relaying =>
        /\ tick.head <= head
        /\ \A m \in Msgs : \A n \in cursor .. tick.head - Confirmations :
              On(m, n) => tick.at[m] = n /\ ResolvedOrOpen(m)

CursorRuleInv == InOneBlock /\ CursorBound /\ TakenUp

LEMMA InitCursorRule == Init => CursorRuleInv
  BY DEF Init, CursorRuleInv, InOneBlock, CursorBound, TakenUp, Relaying, head

\* Blocks that are there stay, but for those that a reorg within the depth replaces.
LEMMA BlocksStay ==
    ASSUME ChainInv, InOneBlock, [Next]_vars
    PROVE  /\ InOneBlock'
           /\ ChainReorg => Len(chain') = Len(chain)
           /\ \A n \in 1 .. Len(chain) :
                 ~ChainReorg \/ n <= Len(chain) - Confirmations => chain'[n] = chain[n]
<1>. USE DEF head
<1>0. Len(chain) \in Nat
  BY DEF ChainInv
<1>1. CASE chain' = chain
  BY <1>0, <1>1 DEF InOneBlock, On
<1>2. CASE Mine
  <2>1. PICK S \in SUBSET {m \in Msgs : ~OnChain(m)} :
           chain' = Append(chain, [fork |-> forks, msgs |-> S])
    BY <1>2 DEF Mine
  <2>2. [fork |-> forks, msgs |-> S] \in Blocks
    BY <2>1 DEF ChainInv, Blocks
  <2>3. /\ Len(chain') = Len(chain) + 1
        /\ \A n \in 1 .. Len(chain) : chain'[n] = chain[n]
        /\ chain'[Len(chain) + 1].msgs = S
    BY <2>1, <2>2 DEF ChainInv
  <2>4. ASSUME NEW m \in Msgs, NEW i \in 1 .. Len(chain'), NEW j \in 1 .. Len(chain'),
               m \in chain'[i].msgs, m \in chain'[j].msgs
        PROVE  i = j
    <3>1. CASE m \in S
      <4>1. \A n \in 1 .. Len(chain) : m \notin chain[n].msgs
        BY <2>1, <3>1 DEF OnChain, On
      <4>. QED
        BY <1>0, <2>3, <2>4, <4>1
    <3>2. CASE m \notin S
      <4>1. i \in 1 .. Len(chain) /\ j \in 1 .. Len(chain)
        BY <1>0, <2>3, <2>4, <3>2
      <4>. QED
        BY <2>3, <2>4, <4>1 DEF InOneBlock, On
    <3>. QED
      BY <3>1, <3>2
  <2>5. Len(chain') # Len(chain)
    BY <1>0, <2>3
  <2>6. ~ChainReorg
    <3>1. ChainReorg => forks' = forks + 1
      BY DEF ChainReorg
    <3>. QED
      BY <1>2, <3>1 DEF Mine, ChainInv
  <2>. QED
    BY <2>3, <2>4, <2>6 DEF InOneBlock, On
<1>3. CASE ChainReorg
  <2>0. PICK kept \in Nat : \E place :
           /\ Len(chain) - Confirmations <= kept /\ kept <= Len(chain)
           /\ LET orphans == UNION {chain[n].msgs : n \in kept + 1 .. Len(chain)}
              IN chain' = [n \in 1 .. Len(chain) |->
                             IF n <= kept THEN chain[n]
                             ELSE [fork |-> forks + 1,
                                   msgs |-> {m \in orphans : place[m] = n}]]
    BY <1>3, ReorgShape DEF head
  <2>1. PICK place :
           /\ Len(chain) - Confirmations <= kept /\ kept <= Len(chain)
           /\ LET orphans == UNION {chain[n].msgs : n \in kept + 1 .. Len(chain)}
              IN chain' = [n \in 1 .. Len(chain) |->
                             IF n <= kept THEN chain[n]
                             ELSE [fork |-> forks + 1,
                                   msgs |-> {m \in orphans : place[m] = n}]]
    BY <2>0
  <2> DEFINE orphans == UNION {chain[n].msgs : n \in kept + 1 .. Len(chain)}
  <2>2. chain' = [n \in 1 .. Len(chain) |->
                    IF n <= kept THEN chain[n]
                    ELSE [fork |-> forks + 1, msgs |-> {m \in orphans : place[m] = n}]]
    BY <2>1
  <2>4. kept \in Nat /\ Len(chain) - Confirmations <= kept /\ kept <= Len(chain)
    BY <2>1
  <2>5. \A m \in orphans : \E n \in 1 .. Len(chain) : n > kept /\ m \in chain[n].msgs
    BY <1>0, <2>4
  <2>. HIDE DEF orphans
  <2>6. ChainInv'
    BY ChainStep
  <2>7. Len(chain') = Len(chain)
    BY <1>0, <2>2, <2>6 DEF ChainInv
  <2>8. \A n \in 1 .. Len(chain) :
           /\ n <= kept => chain'[n] = chain[n]
           /\ n > kept => chain'[n].msgs = {m \in orphans : place[m] = n}
    BY <1>0, <2>2, <2>4
  <2>9. ASSUME NEW m \in Msgs, NEW i \in 1 .. Len(chain), NEW j \in 1 .. Len(chain),
               m \in chain'[i].msgs, m \in chain'[j].msgs
        PROVE  i = j
    <3>1. CASE i > kept /\ j > kept
      BY <2>8, <2>9, <3>1
    <3>2. CASE i <= kept /\ j <= kept
      BY <2>8, <2>9, <3>2 DEF InOneBlock, On
    <3>3. \A a, b \in 1 .. Len(chain) :
             ~(a <= kept /\ b > kept /\ m \in chain'[a].msgs /\ m \in chain'[b].msgs)
      <4>. SUFFICES ASSUME NEW a \in 1 .. Len(chain), NEW b \in 1 .. Len(chain), a <= kept,
                           b > kept, m \in chain'[a].msgs, m \in chain'[b].msgs
                    PROVE  FALSE
        OBVIOUS
      <4>1. m \in chain[a].msgs /\ m \in orphans
        BY <2>8
      <4>2. PICK n \in 1 .. Len(chain) : n > kept /\ m \in chain[n].msgs
        BY <2>5, <4>1
      <4>3. n = a
        BY <4>1, <4>2 DEF InOneBlock, On
      <4>. QED
        BY <1>0, <2>4, <4>2, <4>3
    <3>. QED
      BY <1>0, <2>4, <2>9, <3>1, <3>2, <3>3
  <2>10. \A n \in 1 .. Len(chain) : n <= Len(chain) - Confirmations => n <= kept
    BY <1>0, <2>4, RelayerAssumption
  <2>. QED
    BY <1>3, <2>7, <2>8, <2>9, <2>10 DEF InOneBlock, On
<1>. QED
  <2>1. UNCHANGED vars => chain' = chain
    BY DEF vars, world
  <2>2. PollHead \/ PollLogs \/ PollFails \/ FinishRelay \/ SaveCheckpoint \/ PersistDead
        \/ WriteFails \/ Wake \/ ProcessEnds \/ Start \/ Operate => chain' = chain
    BY DEF PollHead, PollLogs, PollFails, FinishRelay, SaveCheckpoint, PersistDead,
           WriteFails, Wake, ProcessEnds, Start, Operate, world
  <2>3. \A m \in Msgs : ExecutorDelivers(m) \/ Settle(m) \/ Elapse(m) \/ StartRelay(m)
                        \/ CheckDelivered(m) \/ Deliver(m) => chain' = chain
    BY DEF ExecutorDelivers, Settle, Elapse, StartRelay, CheckDelivered, Deliver,
           DeliverAccepted, DeliverRejected, DeliverTimesOut, world
  <2>. QED
    BY <1>1, <1>2, <1>3, <2>1, <2>2, <2>3 DEF Next

\* The steps that move the cursor or the checkpoint.
LEMMA CursorMoves ==
    ASSUME [Next]_vars
    PROVE  \/ UNCHANGED <<cursor, checkpoint>>
           \/ PollLogs \/ FinishRelay \/ SaveCheckpoint \/ ProcessEnds
<1>1. UNCHANGED vars => UNCHANGED <<cursor, checkpoint>>
  BY DEF vars, memory, disk
<1>2. Mine \/ ChainReorg \/ PollHead \/ PollFails \/ PersistDead \/ WriteFails \/ Wake
      \/ Start \/ Operate => UNCHANGED <<cursor, checkpoint>>
  BY DEF Mine, ChainReorg, PollHead, PollFails, PersistDead, WriteFails, Wake, Start,
         Operate, memory, disk
<1>3. \A m \in Msgs : ExecutorDelivers(m) \/ Settle(m) \/ Elapse(m) \/ StartRelay(m)
                      \/ CheckDelivered(m) \/ Deliver(m) => UNCHANGED <<cursor, checkpoint>>
  BY DEF ExecutorDelivers, Settle, Elapse, StartRelay, CheckDelivered, Deliver,
         DeliverAccepted, DeliverRejected, DeliverTimesOut, memory, disk
<1>. QED
  BY <1>1, <1>2, <1>3 DEF Next

LEMMA CursorBoundStep ==
    ASSUME RelayerInv, CursorRuleInv, [Next]_vars
    PROVE  CursorBound'
<1>. USE DEF head
<1>0. /\ CursorBound /\ cursor \in Nat /\ checkpoint \in Nat
      /\ Len(chain) \in Nat /\ Len(chain') \in Nat /\ Len(chain) <= Len(chain')
  BY ChainStep DEF RelayerInv, ChainInv, CursorInv, CursorRuleInv
<1>1. CASE UNCHANGED <<cursor, checkpoint>>
  BY <1>0, <1>1, RelayerAssumption DEF CursorBound
<1>2. CASE PollLogs
  <2>1. checkpoint' = checkpoint /\ (cursor' = cursor \/ cursor' = StartBlock
                                     \/ cursor' <= Len(chain))
    <3>1. PICK keyed : Rollback(Logs(keyed)) \/ TakeUp(Logs(keyed))
      BY <1>2 DEF PollLogs
    <3>2. phase = "logs" /\ checkpoint' = checkpoint
      BY <1>2 DEF PollLogs, disk
    <3> DEFINE t == Logs(keyed)
    <3>3. t.head = tick.head /\ t.top = tick.top
      BY DEF Logs
    <3>. HIDE DEF t
    <3>4. t.head \in Nat \ {0} /\ t.head <= Len(chain) /\ t.top.number = t.head
      BY <1>0, <3>2, <3>3 DEF RelayerInv, TickInv
    <3>5. ReorgDepth(t.top) \in Nat
      BY <3>4, DepthIsNat DEF RelayerInv
    <3>6. CASE Rollback(t)
      <4>1. cursor' = Max({StartBlock, t.head - ReorgDepth(t.top)})
        BY <3>6 DEF Rollback
      <4>. QED
        BY <1>0, <3>2, <3>4, <3>5, <4>1, MaxOfTwo, RelayerAssumption
    <3>7. CASE TakeUp(t)
      BY <3>2, <3>7 DEF TakeUp
    <3>. QED
      BY <3>1, <3>6, <3>7 DEF t
  <2>2. cursor' \in Nat
    BY CursorStep DEF CursorInv
  <2>. QED
    BY <1>0, <2>1, <2>2, RelayerAssumption DEF CursorBound
<1>3. CASE FinishRelay
  <2>1. tick.head \in Nat /\ tick.head <= Len(chain)
    BY <1>3 DEF FinishRelay, Relaying, RelayerInv, TickInv, CursorRuleInv, TakenUp
  <2>2. checkpoint' = checkpoint
    BY <1>3 DEF FinishRelay, disk
  <2>3. NextCursor <= Len(chain) + 1
    BY <1>0, <1>3, <2>1, FinishStep, RelayerAssumption
  <2>. QED
    BY <1>0, <1>3, <2>2, <2>3, FinishStep, RelayerAssumption DEF CursorBound
<1>4. CASE SaveCheckpoint
  BY <1>0, <1>4, RelayerAssumption DEF SaveCheckpoint, memory, CursorBound
<1>5. CASE ProcessEnds
  BY <1>0, <1>5, RelayerAssumption DEF ProcessEnds, disk, CursorBound
<1>. QED
  BY <1>1, <1>2, <1>3, <1>4, <1>5, CursorMoves

\* Inside a tick nothing leaves the list without being resolved or left open.
LEMMA TakenUpStep ==
    ASSUME RelayerInv, CursorRuleInv, [Next]_vars
    PROVE  TakenUp'
<1>. USE DEF head
<1>0. /\ TakenUp /\ InOneBlock /\ cursor \in Nat \ {0}
      /\ Len(chain) \in Nat /\ Len(chain') \in Nat /\ Len(chain) <= Len(chain')
  BY ChainStep DEF RelayerInv, ChainInv, CursorInv, CursorRuleInv
<1>1. CASE ~Relaying'
  BY <1>1 DEF TakenUp
<1>2. ASSUME UNCHANGED cursor, Relaying => tick'.head = tick.head /\ tick'.at = tick.at,
             Relaying' => Relaying,
             \A m \in Msgs : Relaying /\ ResolvedOrOpen(m) => ResolvedOrOpen(m)'
      PROVE  TakenUp'
  <2>. SUFFICES ASSUME Relaying, Relaying'
                PROVE  TakenUp'
    BY <1>2 DEF TakenUp
  <2>1. tick.head \in Nat /\ tick.head <= Len(chain)
    BY <1>0 DEF RelayerInv, TickInv, TakenUp
  <2>2. \A n \in cursor .. tick.head - Confirmations : chain'[n] = chain[n]
    <3>. SUFFICES ASSUME NEW n \in cursor .. tick.head - Confirmations
                  PROVE  n \in 1 .. Len(chain) /\ n <= Len(chain) - Confirmations
      BY BlocksStay DEF RelayerInv, CursorRuleInv
    <3>. QED
      BY <1>0, <2>1, RelayerAssumption
  <2>3. ASSUME NEW m \in Msgs, NEW n \in cursor .. tick.head - Confirmations,
               m \in chain'[n].msgs
        PROVE  tick'.at[m] = n /\ ResolvedOrOpen(m)'
    BY <1>0, <1>2, <2>2, <2>3 DEF TakenUp, On
  <2>. QED
    BY <1>0, <1>2, <2>1, <2>3 DEF TakenUp, On
<1>3. CASE PollLogs
  <2>1. PICK keyed : Rollback(Logs(keyed)) \/ TakeUp(Logs(keyed))
    BY <1>3 DEF PollLogs
  <2>2. phase = "logs" /\ chain' = chain
    BY <1>3 DEF PollLogs, world
  <2>3. CASE Rollback(Logs(keyed))
    BY <2>3 DEF Rollback, TakenUp, Relaying
  <2>4. CASE TakeUp(Logs(keyed))
    <3> DEFINE t == Logs(keyed)
               seen == Observed(cursor, tick.head)
    <3>1. /\ t.head = tick.head
          /\ t.at = [m \in Msgs |-> IF m \in seen
                                    THEN CHOOSE n \in 1 .. tick.head : On(m, n) ELSE 0]
      BY DEF Logs
    <3>2. /\ cursor' = cursor /\ tick'.head = t.head /\ tick'.at = t.at
          /\ tick'.todo = {m \in {m \in Msgs : t.at[m] > 0} : t.at[m] <= ConfirmedHead(t)}
      <4>1. /\ cursor' = cursor
            /\ tick' = [t EXCEPT !.todo = {m \in {m \in Msgs : t.at[m] > 0} :
                                             t.at[m] <= ConfirmedHead(t)}]
        BY <2>4 DEF TakeUp
      <4>. QED
        BY <4>1 DEF Logs
    <3>. HIDE DEF t
    <3>3. tick.head \in Nat /\ tick.head <= Len(chain)
      BY <1>0, <2>2 DEF RelayerInv, TickInv
    <3>4. ConfirmedHead(t) = IF 0 >= t.head - Confirmations THEN 0 ELSE t.head - Confirmations
      BY <3>1, <3>3, MaxOfTwo, RelayerAssumption DEF ConfirmedHead
    <3>5. ASSUME NEW m \in Msgs, NEW n \in cursor .. t.head - Confirmations, On(m, n)
          PROVE  t.at[m] = n /\ m \in tick'.todo
      <4>1. n \in cursor .. tick.head /\ n \in 1 .. tick.head /\ n <= ConfirmedHead(t)
        BY <1>0, <3>1, <3>3, <3>4, RelayerAssumption
      <4>2. m \in seen
        BY <3>5, <4>1 DEF Observed
      <4>3. \A i \in 1 .. tick.head : On(m, i) => i = n
        BY <1>0, <3>3, <3>5, <4>1 DEF InOneBlock
      <4>. HIDE DEF seen
      <4>4. t.at[m] = n
        BY <3>1, <3>5, <4>1, <4>2, <4>3
      <4>. QED
        BY <3>2, <4>1, <4>4
    <3>6. ASSUME NEW m \in Msgs, NEW n \in cursor' .. tick'.head - Confirmations, On(m, n)'
          PROVE  tick'.at[m] = n /\ m \in tick'.todo
      <4>1. n \in cursor .. t.head - Confirmations /\ On(m, n)
        BY <2>2, <3>2, <3>6 DEF On
      <4>. QED
        BY <3>2, <3>5, <4>1
    <3>7. tick'.head <= Len(chain')
      BY <2>2, <3>1, <3>2, <3>3
    <3>. QED
      BY <3>6, <3>7 DEF TakenUp, ResolvedOrOpen
  <2>. QED
    BY <2>1, <2>3, <2>4
<1>4. CASE Mine \/ ChainReorg \/ Operate \/ UNCHANGED vars
           \/ \E m \in Msgs : ExecutorDelivers(m) \/ Settle(m) \/ Elapse(m)
  <2>1. UNCHANGED <<phase, tick, cursor>>
    BY <1>4 DEF Mine, ChainReorg, Operate, ExecutorDelivers, Settle, Elapse, vars, memory
  <2>2. registered \subseteq registered' /\ dead \cup drained \subseteq dead' \cup drained'
    BY <1>4 DEF Mine, ChainReorg, Operate, ExecutorDelivers, Settle, Elapse, vars, world,
                memory, counts
  <2>. QED
    BY <1>2, <2>1, <2>2 DEF ResolvedOrOpen, Relaying
<1>5. ASSUME NEW m \in Msgs, StartRelay(m) \/ CheckDelivered(m) \/ Deliver(m)
      PROVE  TakenUp'
  <2>1. Relaying /\ UNCHANGED <<cursor, drained>>
    BY <1>5 DEF StartRelay, CheckDelivered, Deliver, DeliverAccepted, DeliverRejected,
                DeliverTimesOut, Relaying, memory, counts
  <2>2. /\ tick' = tick \/ Resolve(m) \/ LeaveOpen(m)
        /\ registered \subseteq registered' /\ dead \subseteq dead'
    BY <1>5 DEF StartRelay, CheckDelivered, Deliver, DeliverAccepted, DeliverRejected,
                DeliverTimesOut, Failed, world, memory
  <2>3. tick' = tick \/ LeaveOpen(m) \/ (Resolve(m) /\ m \in registered' \cup dead')
    BY <1>5 DEF StartRelay, CheckDelivered, Deliver, DeliverAccepted, DeliverRejected,
                DeliverTimesOut, Failed, world, memory
  <2>4. tick'.head = tick.head /\ tick'.at = tick.at
    <3>1. CASE tick' = tick
      BY <3>1
    <3>2. CASE Resolve(m)
      BY <3>2 DEF Resolve
    <3>3. CASE LeaveOpen(m)
      BY <3>3 DEF LeaveOpen
    <3>. QED
      BY <2>2, <3>1, <3>2, <3>3
  <2>5. tick.todo \cup tick.open \subseteq tick'.todo \cup tick'.open \cup registered' \cup dead'
    <3>1. CASE LeaveOpen(m)
      BY <3>1 DEF LeaveOpen
    <3>2. CASE Resolve(m) /\ m \in registered' \cup dead'
      BY <3>2 DEF Resolve
    <3>. QED
      BY <2>3, <3>1, <3>2
  <2>. QED
    BY <1>2, <2>1, <2>2, <2>4, <2>5 DEF ResolvedOrOpen
<1>. QED
  <2>1. PollHead \/ PollFails \/ FinishRelay \/ SaveCheckpoint \/ PersistDead \/ WriteFails
        \/ Wake \/ ProcessEnds \/ Start => ~Relaying'
    BY DEF PollHead, PollFails, FinishRelay, SaveCheckpoint, PersistDead, WriteFails, Throw,
           Wake, ProcessEnds, Start, Relaying
  <2>. QED
    BY <1>1, <1>3, <1>4, <1>5, <2>1 DEF Next

LEMMA CursorRuleHolds == Spec => [](RelayerInv /\ CursorRuleInv)
<1>1. RelayerInv /\ CursorRuleInv /\ [Next]_vars => CursorRuleInv'
  <2>. SUFFICES ASSUME RelayerInv, CursorRuleInv, [Next]_vars PROVE CursorRuleInv'
    OBVIOUS
  <2>1. InOneBlock'
    BY BlocksStay DEF RelayerInv, CursorRuleInv
  <2>. QED
    BY <2>1, CursorBoundStep, TakenUpStep DEF CursorRuleInv
<1>. QED
  BY <1>1, InitCursorRule, RelayerInvHolds, PTL DEF Spec

LEMMA BelowBoth ==
    ASSUME NEW a \in Nat, NEW b \in Nat \ {0}
    PROVE  \A n : n \in StartBlock .. Min({a, b - 1})
                    <=> n \in 1 .. a /\ StartBlock <= n /\ n < b
<1>1. Min({a, b - 1}) = IF a <= b - 1 THEN a ELSE b - 1
  BY MinOfTwo
<1>. QED
  BY <1>1, RelayerAssumption

\* Skipped without the extremum.
LEMMA SkippedSpelt ==
    ASSUME ChainInv, CursorInv, NEW m \in Msgs
    PROVE  Skipped(m) <=> /\ m \notin registered \cup dead
                          /\ \E n \in 1 .. head : StartBlock <= n /\ n < cursor /\ On(m, n)
<1>1. head \in Nat /\ cursor \in Nat \ {0}
  BY DEF ChainInv, CursorInv, head
<1>. QED
  BY <1>1, BelowBoth DEF Skipped

\* Registrations are for good; a letter leaves the memory by a drain or a restart.
LEMMA LettersStay ==
    ASSUME [Next]_vars
    PROVE  /\ registered \subseteq registered' /\ drained \subseteq drained'
           /\ \A m \in dead \ dead' : m \in drained' \/ (ProcessEnds /\ m \notin deadFile)
<1>1. UNCHANGED vars => UNCHANGED <<registered, drained, dead>>
  BY DEF vars, world, memory, counts
<1>2. Mine \/ ChainReorg \/ PollHead \/ PollFails \/ FinishRelay \/ SaveCheckpoint
      \/ PersistDead \/ WriteFails \/ Wake \/ Start => UNCHANGED <<registered, drained, dead>>
  BY DEF Mine, ChainReorg, PollHead, PollFails, FinishRelay, SaveCheckpoint, PersistDead,
         WriteFails, Wake, Start, world, memory, counts
<1>3. PollLogs => UNCHANGED <<registered, drained, dead>>
  BY DEF PollLogs, Rollback, TakeUp, world, counts
<1>4. Operate => /\ UNCHANGED registered /\ drained' = drained \cup (dead \ dead')
  BY DEF Operate, world
<1>5. ProcessEnds => UNCHANGED <<registered, drained>> /\ dead' = deadFile
  BY DEF ProcessEnds, world
<1>6. \A m \in Msgs : ExecutorDelivers(m) \/ Settle(m) \/ Elapse(m) \/ StartRelay(m)
                      \/ CheckDelivered(m) \/ Deliver(m)
                      => registered \subseteq registered' /\ drained' = drained
                         /\ dead \subseteq dead'
  BY DEF ExecutorDelivers, Settle, Elapse, StartRelay, CheckDelivered, Deliver, Failed,
         DeliverAccepted, DeliverRejected, DeliverTimesOut, world, memory, counts
<1>. QED
  BY <1>1, <1>2, <1>3, <1>4, <1>5, <1>6 DEF Next

LEMMA SkippingStep ==
    ASSUME RelayerInv, CursorRuleInv, [Next]_vars, NEW m \in Msgs,
           ~Skipped(m), Skipped(m)',
           phase # "logs", m \notin drained',
           ~(ProcessEnds /\ (m \in dead \ deadFile \/ cursor < checkpoint)),
           ~(ChainReorg /\ cursor > head - Confirmations + 1)
    PROVE  FALSE
<1>. USE DEF head
<1>0. /\ ChainInv /\ CursorInv /\ ChainInv' /\ CursorInv'
      /\ cursor \in Nat \ {0} /\ checkpoint \in Nat /\ cursor' \in Nat \ {0}
      /\ Len(chain) \in Nat /\ Len(chain') \in Nat /\ Len(chain) <= Len(chain')
  BY ChainStep, CursorStep DEF RelayerInv, ChainInv, CursorInv
<1>1. PICK n \in 1 .. Len(chain') :
         StartBlock <= n /\ n < cursor' /\ m \in chain'[n].msgs
  <2>1. PICK n \in StartBlock .. Min({Len(chain'), cursor' - 1}) : m \in chain'[n].msgs
    BY DEF Skipped, On
  <2>. QED
    BY <1>0, <2>1, BelowBoth
<1>2. m \notin registered \cup dead \cup drained /\ m \notin registered' \cup dead'
  <2>1. m \notin registered' \cup dead'
    BY DEF Skipped
  <2>. QED
    BY <2>1, LettersStay
<1>3. CASE UNCHANGED <<cursor, checkpoint>>
  <2>1. n < cursor /\ cursor <= Len(chain) + 1
    BY <1>0, <1>1, <1>3, RelayerAssumption DEF CursorRuleInv, CursorBound
  <2>2. n \in 1 .. Len(chain)
    BY <1>0, <1>1, <2>1
  <2>3. chain'[n] = chain[n]
    <3>1. ~ChainReorg \/ n <= Len(chain) - Confirmations
      BY <1>0, <2>1, <2>2, RelayerAssumption
    <3>. QED
      BY <2>2, <3>1, BlocksStay DEF RelayerInv, CursorRuleInv
  <2>. QED
    BY <1>0, <1>1, <1>2, <2>1, <2>2, <2>3, SkippedSpelt DEF On
<1>4. ASSUME chain' = chain PROVE cursor <= n
  BY <1>0, <1>1, <1>2, <1>4, SkippedSpelt DEF On
<1>5. CASE FinishRelay
  <2>1. chain' = chain /\ Relaying /\ tick.todo = {}
    BY <1>5 DEF FinishRelay, world, Relaying
  <2>2. /\ tick.head \in Nat
        /\ n < NextCursor /\ NextCursor \in Nat /\ NextCursor <= ConfirmedHead(tick) + 1
        /\ \A o \in tick.open : NextCursor <= tick.at[o]
        /\ ConfirmedHead(tick) = IF 0 >= tick.head - Confirmations
                                 THEN 0 ELSE tick.head - Confirmations
    BY <1>0, <1>1, <1>4, <1>5, <2>1, FinishStep DEF RelayerInv, TickInv
  <2>3. n \in cursor .. tick.head - Confirmations /\ On(m, n)
    BY <1>0, <1>1, <1>4, <2>1, <2>2, RelayerAssumption DEF On
  <2>4. tick.at[m] = n /\ m \in tick.open
    BY <1>2, <2>1, <2>3 DEF CursorRuleInv, TakenUp, ResolvedOrOpen
  <2>. QED
    BY <1>0, <1>1, <2>2, <2>4
<1>6. CASE SaveCheckpoint
  BY <1>0, <1>1, <1>4, <1>6 DEF SaveCheckpoint, world, memory
<1>7. CASE ProcessEnds
  BY <1>0, <1>1, <1>4, <1>7, RelayerAssumption DEF ProcessEnds, world
<1>. QED
  <2>1. ~PollLogs
    BY DEF PollLogs
  <2>. QED
    BY <1>3, <1>5, <1>6, <1>7, <2>1, CursorMoves

-----------------------------------------------------------------------------
\* The cursor rule of tick() (relayer.ts:448-474): no tick, failed write, restart or late
\* delivery lets go of an event, except in the ways that SkippedOnlyBy lists.
THEOREM NothingElseSkips == Spec => SkippedOnlyBy
<1>1. RelayerInv /\ CursorRuleInv /\ [Next]_vars =>
        [\A m \in Msgs : ~Skipped(m) /\ Skipped(m)' =>
            \/ phase = "logs"
            \/ m \in drained'
            \/ ProcessEnds /\ (m \in dead \ deadFile \/ cursor < checkpoint)
            \/ ChainReorg /\ cursor > head - Confirmations + 1]_vars
  BY SkippingStep
<1>. QED
  BY <1>1, CursorRuleHolds, PTL DEF Spec, SkippedOnlyBy
=============================================================================
