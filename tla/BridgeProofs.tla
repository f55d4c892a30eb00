---------------------------- MODULE BridgeProofs ----------------------------
(* The two contracts agree on every intent, whatever the network delivers,   *)
(* delays, reorders or repeats: for any number of intents and solvers, any   *)
(* amounts, deadlines, windows and clocks.                                   *)
EXTENDS Bridge, SequenceTheorems, TLAPS

-----------------------------------------------------------------------------
(* What the steps do to the variables of the bridge.                         *)

NewLock(solver, amount) == [E!NoLock EXCEPT !.solver = solver, !.amount = amount]

LEMMA NewLockFields ==
    ASSUME NEW s, NEW amount
    PROVE  /\ NewLock(s, amount).solver = s /\ NewLock(s, amount).amount = amount
           /\ ~NewLock(s, amount).released /\ ~NewLock(s, amount).refunded
<1>1. NewLock(s, amount).solver = s /\ NewLock(s, amount).amount = amount
    BY DEF NewLock, E!NoLock
<1>2. ~NewLock(s, amount).released /\ ~NewLock(s, amount).refunded
    BY DEF NewLock, E!NoLock
<1>. QED  BY <1>1, <1>2

\* A lock holds the whole amount: no fee is withheld and no window is configured here.
LEMMA LockRecords ==
    ASSUME NEW h \in Intents, NEW s \in Solvers, Lock(h, s)
    PROVE  /\ locks[h].solver = NoSolver
           /\ locks' = [locks EXCEPT ![h] = NewLock(s, SourceAmount[h])]
           /\ evmOutbox' = Append(evmOutbox, E!FillInstruction(h, s))
           /\ UNCHANGED <<config, evmNow, payments, evmConsumed, stellarVars, sentAt>>
<1>1. E!LockFunded(h, s, 0)
    BY DEF Lock, E!Lock, E!LockBreaching, E!BreachesWindow, E!WindowCapActive
<1>2. E!Received(h) = SourceAmount[h]
    BY BridgeAssumption DEF E!Received
<1>4. locks[h].solver = NoSolver /\ UNCHANGED <<evmNow, evmConsumed, payments>>
    BY <1>1 DEF E!LockFunded, E!AcceptsLock, E!Locked
<1>5. E!RecordAndDispatch(h, s, SourceAmount[h])
    BY <1>1, <1>2 DEF E!LockFunded
<1>. QED  BY <1>4, <1>5 DEF Lock, E!RecordAndDispatch, NewLock
\* A lock ends with one transfer of its amount.
LEMMA ExpiryRefunds ==
    ASSUME NEW h \in Intents, CancelExpired(h)
    PROVE  /\ E!Live(h)
           /\ locks' = [locks EXCEPT ![h].refunded = TRUE]
           /\ payments' = [payments EXCEPT
                  ![h] = Append(@, [to |-> User, amount |-> locks[h].amount])]
           /\ UNCHANGED <<config, evmNow, evmConsumed, evmOutbox, stellarVars, sentAt>>
BY DEF CancelExpired, E!CancelExpired, E!Refund, E!PayOut, E!transportVars

LEMMA VerdictApplies ==
    ASSUME NEW n \in DOMAIN stellarOutbox[EvmEid], DeliverVerdict(n)
    PROVE  LET m == stellarOutbox[EvmEid][n]
               h == m.hash
           IN /\ UNCHANGED <<config, evmNow, evmOutbox, stellarVars, sentAt>>
              /\ n \notin evmConsumed /\ evmConsumed' = evmConsumed \cup {n}
              /\ \/ /\ m.type = "FillConfirmed" /\ E!Live(h)
                    /\ locks' = [locks EXCEPT ![h].released = TRUE]
                    /\ payments' = [payments EXCEPT
                           ![h] = Append(@, [to |-> m.solverEvm, amount |-> locks[h].amount])]
                 \/ /\ m.type = "CancelIntent" /\ E!Live(h)
                    /\ locks' = [locks EXCEPT ![h].refunded = TRUE]
                    /\ payments' = [payments EXCEPT
                           ![h] = Append(@, [to |-> User, amount |-> locks[h].amount])]
                 \/ /\ m.type = "CancelIntent" /\ ~E!Live(h)
                    /\ UNCHANGED <<locks, payments>>
<1> DEFINE m == stellarOutbox[EvmEid][n]
           h == m.hash
<1>1. E!LzReceive(StellarPeer, n, m, 0) /\ UNCHANGED <<config, stellarVars, sentAt>>
    BY DEF DeliverVerdict
<1>2. /\ UNCHANGED <<evmNow, evmOutbox>>
      /\ n \notin evmConsumed /\ evmConsumed' = evmConsumed \cup {n}
      /\ \/ m.type = "FillConfirmed" /\ E!Release(h, m.solverEvm, m.fillAmount)
         \/ m.type = "CancelIntent" /\ E!ApplyCancel(h)
    BY <1>1 DEF E!LzReceive
<1>3. ASSUME E!Release(h, m.solverEvm, m.fillAmount)
      PROVE  /\ E!Live(h)
             /\ locks' = [locks EXCEPT ![h].released = TRUE]
             /\ payments' = [payments EXCEPT
                    ![h] = Append(@, [to |-> m.solverEvm, amount |-> locks[h].amount])]
    BY <1>3 DEF E!Release, E!PayOut, E!Live
<1>4. ASSUME E!ApplyCancel(h)
      PROVE  \/ /\ E!Live(h)
                /\ locks' = [locks EXCEPT ![h].refunded = TRUE]
                /\ payments' = [payments EXCEPT
                       ![h] = Append(@, [to |-> User, amount |-> locks[h].amount])]
             \/ ~E!Live(h) /\ UNCHANGED <<locks, payments>>
    BY <1>4, Zenon DEF E!ApplyCancel, E!Refund, E!PayOut, E!lockVars
<1>. QED  BY <1>1, <1>2, <1>3, <1>4
\* Stellar registers an intent that it does not know, and nothing else.
LEMMA InstructionRegisters ==
    ASSUME NEW n \in DOMAIN evmOutbox, DeliverInstruction(n)
    PROVE  LET m == evmOutbox[n]
               h == m.hash
           IN /\ UNCHANGED <<config, evmVars, sentAt, stellarNow, settled, cancelled,
                             confirmed, deliveries, stellarOutbox>>
              /\ \/ UNCHANGED record
                 \/ /\ h \notin settled /\ h \notin cancelled
                    /\ record[h].status = "Unregistered"
                    /\ record' = [record EXCEPT ![h] =
                           [S!Unregistered EXCEPT
                               !.status = "Locked", !.srcEid = EvmEid, !.solverEvm = m.solver,
                               !.reservationExpires = S!ReservationEnd(h, m.window)]]
<1> DEFINE m == evmOutbox[n]
           h == m.hash
<1>1. S!ReceiveFillInstruction(EvmEid, n, m) /\ UNCHANGED <<config, evmVars, sentAt>>
    BY DEF DeliverInstruction
<1>2. /\ UNCHANGED <<stellarNow, stellarOutbox>>
      /\ IF S!IsKnown(h) THEN UNCHANGED <<S!capVars, S!intentVars>> ELSE S!Register(EvmEid, m)
    BY <1>1 DEF S!ReceiveFillInstruction
<1>3. CASE S!IsKnown(h)
    BY <1>1, <1>2, <1>3 DEF S!intentVars
<1>4. CASE ~S!IsKnown(h)
    <2>1. S!Register(EvmEid, m)
        BY <1>2, <1>4
    <2>. QED  BY <1>1, <1>2, <1>4, <2>1 DEF S!Register, S!IsKnown, S!IsFinalized
<1>. QED  BY <1>3, <1>4

Stamped(h, solver, solverEvm, amount, status) ==
    [record[h] EXCEPT !.status = status, !.solver = solver, !.solverEvm = solverEvm,
                      !.fillAmount = amount, !.fillLedger = stellarNow]

\* What an attempt to fill, to confirm or to cancel does.
FillHappens ==
    \E a \in StellarAccounts, s \in Solvers, h \in Intents, amount \in FillAmounts :
        /\ S!ValidFill(s, h, amount)
        /\ settled' = settled \cup {h} /\ cancelled' = cancelled
        /\ deliveries' = [deliveries EXCEPT ![h] = Append(@, [solver |-> a, amount |-> amount])]
        /\ \/ /\ record' = [record EXCEPT ![h] = Stamped(h, a, s, amount, "Filled")]
              /\ UNCHANGED <<confirmed, stellarOutbox>>
           \/ /\ record' = [record EXCEPT ![h] = Stamped(h, a, s, amount, "ConfirmationSent")]
              /\ confirmed' = confirmed \cup {h}
              /\ stellarOutbox' = [stellarOutbox EXCEPT ![record[h].srcEid] =
                                      Append(@, S!FillConfirmed(h, s, amount))]

ConfirmationHappens ==
    \E h \in Intents :
        /\ record[h].status = "Filled" /\ h \notin confirmed
        /\ stellarNow <= Deadline[h] + MinDispatchWindow
        /\ UNCHANGED <<settled, cancelled, deliveries>>
        /\ confirmed' = confirmed \cup {h}
        /\ record' = [record EXCEPT ![h].status = "ConfirmationSent"]
        /\ stellarOutbox' = [stellarOutbox EXCEPT ![record[h].srcEid] =
               Append(@, S!FillConfirmed(h, record[h].solverEvm, record[h].fillAmount))]

CancellationHappens ==
    \E h \in Intents :
        /\ record[h].status = "Locked" /\ h \notin settled
        /\ UNCHANGED <<settled, confirmed, deliveries>>
        /\ cancelled' = cancelled \cup {h}
        /\ record' = [record EXCEPT ![h].status = "Cancelled"]
        /\ stellarOutbox' = [stellarOutbox EXCEPT ![record[h].srcEid] =
                                Append(@, S!CancelIntent(h))]

LEMMA SettleEffects ==
    ASSUME Settle
    PROVE  /\ UNCHANGED <<config, evmVars, stellarNow>>
           /\ FillHappens \/ ConfirmationHappens \/ CancellationHappens
<1>1. ASSUME NEW a \in StellarAccounts, NEW s \in Solvers, NEW h \in Intents,
             NEW n \in FillAmounts, S!DeliverIntent(a, s, h, n)
      PROVE  FillHappens /\ UNCHANGED stellarNow
    BY <1>1 DEF S!DeliverIntent, S!FilledBy, S!Deliver, FillHappens, Stamped
<1>2. ASSUME NEW a \in StellarAccounts, NEW s \in Solvers, NEW h \in Intents,
             NEW n \in FillAmounts, S!FillIntent(a, s, h, n)
      PROVE  FillHappens /\ UNCHANGED stellarNow
    BY <1>2 DEF S!FillIntent, S!FilledBy, S!Deliver, S!Send, FillHappens, Stamped
<1>3. ASSUME NEW a \in StellarAccounts, NEW h \in Intents, S!DispatchConfirmation(a, h)
      PROVE  ConfirmationHappens /\ UNCHANGED stellarNow
    BY <1>3 DEF S!DispatchConfirmation, S!Send, ConfirmationHappens
<1>4. ASSUME NEW a \in StellarAccounts, NEW h \in Intents, S!CancelExpiredIntent(a, h)
      PROVE  CancellationHappens /\ UNCHANGED stellarNow
    BY <1>4 DEF S!CancelExpiredIntent, S!IsFinalized, S!Send, CancellationHappens
<1>. QED  BY <1>1, <1>2, <1>3, <1>4 DEF Settle, S!SolverStep, S!KeeperStep
-----------------------------------------------------------------------------
(* The invariant.                                                            *)

Transfers == [solver : StellarAccounts, amount : Nat]

BridgeTypeOK ==
    /\ stellarNow \in Nat
    /\ locks \in [Intents -> E!Locks]
    /\ DOMAIN payments = Intents
    /\ evmOutbox \in Seq(E!FillInstructions)
    /\ record \in [Intents -> S!Records]
    /\ deliveries \in [Intents -> Seq(Transfers)]
    /\ stellarOutbox \in [{EvmEid} -> Seq(S!Messages)]

\* A FillInstruction announces a lock of its solver.
InstructionsAreLocks ==
    \A n \in DOMAIN evmOutbox :
        LET m == evmOutbox[n]
        IN m.solver \in Solvers /\ locks[m.hash].solver = m.solver

\* What Stellar knows of an intent it knows from its lock; the reservation lasts until
\* the deadline, so the solver of a fill is the one that locked.
RecordMatchesLock(h) ==
    record[h].status # "Unregistered" =>
        /\ record[h].srcEid = EvmEid
        /\ record[h].solverEvm \in Solvers /\ locks[h].solver = record[h].solverEvm
        /\ record[h].reservationExpires = Deadline[h]

\* The markers and the transfers match the record.
MarkersMatch(h) ==
    /\ h \in settled <=> record[h].status \in {"Filled", "ConfirmationSent"}
    /\ h \in confirmed <=> record[h].status = "ConfirmationSent"
    /\ ~(h \in settled /\ h \in cancelled)
    /\ IF h \in settled
       THEN /\ Len(deliveries[h]) = 1
            /\ deliveries[h][1].amount >= MinDestAmount[h]
       ELSE deliveries[h] = <<>>

\* A FillConfirmed reports the fill of the record.
VerdictIsTrue(m) ==
    m.type = "FillConfirmed" =>
        m.hash \in confirmed /\ m.solverEvm = record[m.hash].solverEvm

\* A lock is paid when it ends, and to its solver only if the fill is confirmed.
PaymentMatchesLock(h) ==
    /\ locks[h].solver # NoSolver => locks[h].amount = SourceAmount[h]
    /\ locks[h].solver = NoSolver => ~E!Finalized(h)
    /\ ~E!Finalized(h) => payments[h] = <<>>
    /\ locks[h].released =>
          /\ h \in confirmed
          /\ payments[h] = <<[to |-> record[h].solverEvm, amount |-> SourceAmount[h]]>>

StellarMatches == \A h \in Intents : RecordMatchesLock(h) /\ MarkersMatch(h)
VerdictsAreTrue == \A n \in DOMAIN stellarOutbox[EvmEid] : VerdictIsTrue(stellarOutbox[EvmEid][n])
PaymentsMatch == \A h \in Intents : PaymentMatchesLock(h)

BridgeInv ==
    /\ BridgeTypeOK /\ InstructionsAreLocks /\ StellarMatches
    /\ VerdictsAreTrue /\ PaymentsMatch

LEMMA InvImpliesAgreement == BridgeInv => ChainsAgree
<1> SUFFICES ASSUME BridgeInv
             PROVE  ChainsAgree
    OBVIOUS
<1>1. PaidOnlyAfterDelivery
    <2> SUFFICES ASSUME NEW h \in Intents, locks[h].released
                 PROVE  /\ h \in confirmed
                        /\ h \notin cancelled
                        /\ Len(deliveries[h]) = 1
                        /\ deliveries[h][1].amount >= MinDestAmount[h]
                        /\ payments[h][1].to = record[h].solverEvm
                        /\ payments[h][1].to = locks[h].solver
                        /\ payments[h][1].amount = SourceAmount[h]
        BY DEF PaidOnlyAfterDelivery
    <2>1. PaymentMatchesLock(h) /\ RecordMatchesLock(h) /\ MarkersMatch(h)
        BY DEF BridgeInv, PaymentsMatch, StellarMatches
    <2>2. /\ h \in confirmed
          /\ payments[h] = <<[to |-> record[h].solverEvm, amount |-> SourceAmount[h]]>>
        BY <2>1 DEF PaymentMatchesLock
    <2>3. payments[h][1].to = record[h].solverEvm /\ payments[h][1].amount = SourceAmount[h]
        BY <2>2
    <2>. QED  BY <2>1, <2>2, <2>3 DEF RecordMatchesLock, MarkersMatch
<1>2. RegisteredIsLocked
    BY BridgeAssumption
    DEF RegisteredIsLocked, BridgeInv, StellarMatches, RecordMatchesLock
<1>. QED  BY <1>1, <1>2 DEF ChainsAgree

LEMMA BridgeInitInv == Init => BridgeInv
<1> SUFFICES ASSUME Init
             PROVE  BridgeInv
    OBVIOUS
<1>1. E!Init /\ S!Init
    BY DEF Init
<1>2. /\ locks = [h \in Intents |-> E!NoLock] /\ evmOutbox = <<>>
      /\ payments = [h \in Intents |-> <<>>]
    BY <1>1 DEF E!Init
<1>3. /\ record = [h \in Intents |-> S!Unregistered] /\ deliveries = [h \in Intents |-> <<>>]
      /\ settled = {} /\ cancelled = {} /\ confirmed = {}
      /\ stellarOutbox = [e \in {EvmEid} |-> <<>>] /\ stellarNow \in Nat
    BY <1>1, BridgeAssumption DEF S!Init, S!ClockInit
<1>4. /\ E!NoLock \in E!Locks /\ E!NoLock.solver = NoSolver
      /\ ~E!NoLock.released /\ ~E!NoLock.refunded
    BY DEF E!NoLock, E!Locks
<1>5. S!Unregistered \in S!Records /\ S!Unregistered.status = "Unregistered"
    BY DEF S!Unregistered, S!Records, S!Statuses
<1>6. BridgeTypeOK
    BY <1>2, <1>3, <1>4, <1>5, SMT DEF BridgeTypeOK
<1>7. StellarMatches
    BY <1>3, <1>5 DEF StellarMatches, RecordMatchesLock, MarkersMatch
<1>8. PaymentsMatch
    BY <1>2, <1>4 DEF PaymentsMatch, PaymentMatchesLock, E!Finalized
<1>9. InstructionsAreLocks /\ VerdictsAreTrue
    BY <1>2, <1>3 DEF InstructionsAreLocks, VerdictsAreTrue
<1>. QED  BY <1>6, <1>7, <1>8, <1>9 DEF BridgeInv

LEMMA LockKeepsInv ==
    ASSUME BridgeInv, NEW h \in Intents, NEW s \in Solvers, Lock(h, s)
    PROVE  BridgeInv'
<1> USE DEF BridgeInv
<1> DEFINE new == NewLock(s, SourceAmount[h])
           m == E!FillInstruction(h, s)
<1>1. /\ locks[h].solver = NoSolver
      /\ locks' = [locks EXCEPT ![h] = new]
      /\ evmOutbox' = Append(evmOutbox, m)
      /\ UNCHANGED <<payments, stellarNow, record, settled, cancelled, confirmed,
                     deliveries, stellarOutbox>>
    BY LockRecords DEF stellarVars
<1>2. /\ new.solver = s /\ new.amount = SourceAmount[h]
      /\ ~new.released /\ ~new.refunded
    BY NewLockFields
<1>3. new \in E!Locks
    BY BridgeAssumption DEF NewLock, E!NoLock, E!Locks
<1>4. m \in E!FillInstructions /\ m.hash = h /\ m.solver = s
    BY DEF E!FillInstruction, E!FillInstructions
<1> HIDE DEF new, m
<1>5. /\ locks'[h] = new
      /\ \A i \in Intents \ {h} : locks'[i] = locks[i]
      /\ locks' \in [Intents -> E!Locks]
    BY <1>1, <1>3 DEF BridgeTypeOK
<1>6. BridgeTypeOK'
    BY <1>1, <1>4, <1>5, AppendProperties DEF BridgeTypeOK
<1>7. InstructionsAreLocks'
    <2> SUFFICES ASSUME NEW n \in DOMAIN evmOutbox'
                 PROVE  /\ evmOutbox'[n].solver \in Solvers
                        /\ locks'[evmOutbox'[n].hash].solver = evmOutbox'[n].solver
        BY DEF InstructionsAreLocks
    <2>1. CASE n \in DOMAIN evmOutbox
        <3>1. evmOutbox'[n] = evmOutbox[n] /\ evmOutbox[n] \in E!FillInstructions
            BY <1>1, <1>4, <2>1 DEF BridgeTypeOK
        <3>2. evmOutbox[n].hash \in Intents
            BY <3>1 DEF E!FillInstructions
        <3>3. /\ evmOutbox[n].solver \in Solvers
              /\ locks[evmOutbox[n].hash].solver = evmOutbox[n].solver
            BY <2>1 DEF InstructionsAreLocks
        <3>. QED  BY <1>1, <1>5, <3>1, <3>2, <3>3, BridgeAssumption
    <2>2. CASE n \notin DOMAIN evmOutbox
        <3>1. evmOutbox'[n] = m
            BY <1>1, <1>4, <2>2 DEF BridgeTypeOK
        <3>. QED  BY <1>2, <1>4, <1>5, <3>1
    <2>. QED  BY <2>1, <2>2
<1>8. StellarMatches'
    BY <1>1, <1>5, BridgeAssumption DEF StellarMatches, RecordMatchesLock, MarkersMatch
<1>9. VerdictsAreTrue'
    BY <1>1 DEF VerdictsAreTrue, VerdictIsTrue
<1>10. PaymentsMatch'
    <2> SUFFICES ASSUME NEW i \in Intents
                 PROVE  PaymentMatchesLock(i)'
        BY DEF PaymentsMatch
    <2>1. PaymentMatchesLock(i)
        BY DEF PaymentsMatch
    <2>2. CASE i = h
        BY <1>1, <1>2, <1>5, <2>1, <2>2, BridgeAssumption DEF PaymentMatchesLock, E!Finalized
    <2>3. CASE i # h
        BY <1>1, <1>5, <2>1, <2>3 DEF PaymentMatchesLock, E!Finalized
    <2>. QED  BY <2>2, <2>3
<1>. QED  BY <1>6, <1>7, <1>8, <1>9, <1>10
LEMMA InstructionsNameIntents ==
    ASSUME BridgeTypeOK
    PROVE  \A n \in DOMAIN evmOutbox : evmOutbox[n].hash \in Intents
<1>1. \A n \in DOMAIN evmOutbox : evmOutbox[n] \in E!FillInstructions
    BY DEF BridgeTypeOK
<1>. QED  BY <1>1 DEF E!FillInstructions

\* A refund ends a live lock without a release.
LEMMA RefundKeepsInv ==
    ASSUME BridgeInv, NEW h \in Intents, E!Live(h), NEW p,
           locks' = [locks EXCEPT ![h].refunded = TRUE],
           payments' = [payments EXCEPT ![h] = Append(@, p)],
           UNCHANGED <<evmOutbox, stellarVars>>
    PROVE  BridgeInv'
<1> USE DEF BridgeInv, stellarVars
<1> DEFINE new == [locks[h] EXCEPT !.refunded = TRUE]
<1>1. locks[h] \in E!Locks /\ ~locks[h].released /\ locks[h].solver # NoSolver
    BY DEF BridgeTypeOK, E!Live, E!Locked, E!Finalized
<1>2. /\ new \in E!Locks /\ new.refunded
      /\ new.solver = locks[h].solver /\ new.amount = locks[h].amount
      /\ new.released = locks[h].released
    <2>1. new \in E!Locks /\ new.refunded
        BY <1>1, Zenon DEF E!Locks
    <2>. QED  BY <1>1, <2>1 DEF E!Locks
<1>3. /\ locks'[h] = new
      /\ \A i \in Intents \ {h} : locks'[i] = locks[i] /\ payments'[i] = payments[i]
      /\ locks' \in [Intents -> E!Locks] /\ DOMAIN payments' = Intents
    BY <1>2 DEF BridgeTypeOK
<1> HIDE DEF new
<1>4. BridgeTypeOK'
    BY <1>3 DEF BridgeTypeOK
<1>5. \A i \in Intents : locks'[i].solver = locks[i].solver
    BY <1>2, <1>3
<1>6. InstructionsAreLocks'
    <2>1. \A n \in DOMAIN evmOutbox : evmOutbox[n].hash \in Intents
        BY InstructionsNameIntents
    <2>. QED  BY <1>5, <2>1 DEF InstructionsAreLocks
<1>7. StellarMatches'
    BY <1>5 DEF StellarMatches, RecordMatchesLock, MarkersMatch
<1>8. VerdictsAreTrue'
    BY DEF VerdictsAreTrue, VerdictIsTrue
<1>9. PaymentsMatch'
    <2> SUFFICES ASSUME NEW i \in Intents
                 PROVE  PaymentMatchesLock(i)'
        BY DEF PaymentsMatch
    <2>1. PaymentMatchesLock(i)
        BY DEF PaymentsMatch
    <2>2. CASE i = h
        BY <1>1, <1>2, <1>3, <2>1, <2>2 DEF PaymentMatchesLock, E!Finalized
    <2>3. CASE i # h
        BY <1>3, <2>1, <2>3 DEF PaymentMatchesLock, E!Finalized
    <2>. QED  BY <2>2, <2>3
<1>. QED  BY <1>4, <1>6, <1>7, <1>8, <1>9

\* A release pays what a true verdict names.
LEMMA ReleaseKeepsInv ==
    ASSUME BridgeInv, NEW h \in Intents, E!Live(h), h \in confirmed,
           locks' = [locks EXCEPT ![h].released = TRUE],
           payments' = [payments EXCEPT
               ![h] = Append(@, [to |-> record[h].solverEvm, amount |-> locks[h].amount])],
           UNCHANGED <<evmOutbox, stellarVars>>
    PROVE  BridgeInv'
<1> USE DEF BridgeInv, stellarVars
<1> DEFINE new == [locks[h] EXCEPT !.released = TRUE]
           payment == [to |-> record[h].solverEvm, amount |-> locks[h].amount]
<1>1. /\ locks[h] \in E!Locks /\ locks[h].solver # NoSolver /\ ~E!Finalized(h)
    BY DEF BridgeTypeOK, E!Live, E!Locked
<1>2. /\ new \in E!Locks /\ new.released
      /\ new.solver = locks[h].solver /\ new.amount = locks[h].amount
    <2>1. new \in E!Locks /\ new.released
        BY <1>1, Zenon DEF E!Locks
    <2>. QED  BY <1>1, <2>1 DEF E!Locks
<1>3. /\ locks'[h] = new /\ payments'[h] = Append(payments[h], payment)
      /\ \A i \in Intents \ {h} : locks'[i] = locks[i] /\ payments'[i] = payments[i]
      /\ locks' \in [Intents -> E!Locks] /\ DOMAIN payments' = Intents
    BY <1>2 DEF BridgeTypeOK
<1> HIDE DEF new
<1>4. BridgeTypeOK'
    BY <1>3 DEF BridgeTypeOK
<1>5. \A i \in Intents : locks'[i].solver = locks[i].solver
    BY <1>2, <1>3
<1>6. InstructionsAreLocks'
    <2>1. \A n \in DOMAIN evmOutbox : evmOutbox[n].hash \in Intents
        BY InstructionsNameIntents
    <2>. QED  BY <1>5, <2>1 DEF InstructionsAreLocks
<1>7. StellarMatches'
    BY <1>5 DEF StellarMatches, RecordMatchesLock, MarkersMatch
<1>8. VerdictsAreTrue'
    BY DEF VerdictsAreTrue, VerdictIsTrue
<1>9. PaymentsMatch'
    <2> SUFFICES ASSUME NEW i \in Intents
                 PROVE  PaymentMatchesLock(i)'
        BY DEF PaymentsMatch
    <2>1. PaymentMatchesLock(i)
        BY DEF PaymentsMatch
    <2>2. CASE i = h
        <3>1. payments[h] = <<>> /\ locks[h].amount = SourceAmount[h]
            BY <1>1, <2>1, <2>2 DEF PaymentMatchesLock
        <3>2. payments'[h] = <<[to |-> record[h].solverEvm, amount |-> SourceAmount[h]]>>
            BY <1>3, <3>1
        <3>. QED  BY <1>1, <1>2, <1>3, <2>2, <3>1, <3>2 DEF PaymentMatchesLock, E!Finalized
    <2>3. CASE i # h
        BY <1>3, <2>1, <2>3 DEF PaymentMatchesLock, E!Finalized
    <2>. QED  BY <2>2, <2>3
<1>. QED  BY <1>4, <1>6, <1>7, <1>8, <1>9

LEMMA DeliverVerdictKeepsInv ==
    ASSUME BridgeInv, NEW n \in DOMAIN stellarOutbox[EvmEid], DeliverVerdict(n)
    PROVE  BridgeInv'
<1> DEFINE m == stellarOutbox[EvmEid][n]
           h == m.hash
<1>1. m \in S!Messages
    BY DEF BridgeInv, BridgeTypeOK
<1>2. h \in Intents
    BY <1>1 DEF S!Messages, S!CancelIntents
<1>3. UNCHANGED <<evmOutbox, stellarVars>>
    BY VerdictApplies
<1>4. CASE /\ m.type = "FillConfirmed" /\ E!Live(h)
           /\ locks' = [locks EXCEPT ![h].released = TRUE]
           /\ payments' = [payments EXCEPT
                  ![h] = Append(@, [to |-> m.solverEvm, amount |-> locks[h].amount])]
    <2>1. h \in confirmed /\ m.solverEvm = record[h].solverEvm
        BY <1>4 DEF BridgeInv, VerdictsAreTrue, VerdictIsTrue
    <2> HIDE DEF m
    <2>. QED  BY <1>2, <1>3, <1>4, <2>1, ReleaseKeepsInv
<1>5. CASE /\ E!Live(h)
           /\ locks' = [locks EXCEPT ![h].refunded = TRUE]
           /\ payments' = [payments EXCEPT
                  ![h] = Append(@, [to |-> User, amount |-> locks[h].amount])]
    BY <1>2, <1>3, <1>5, RefundKeepsInv
<1>6. CASE UNCHANGED <<locks, payments>>
    BY <1>3, <1>6
    DEF BridgeInv, BridgeTypeOK, InstructionsAreLocks, StellarMatches, RecordMatchesLock,
        MarkersMatch, VerdictsAreTrue, VerdictIsTrue, PaymentsMatch, PaymentMatchesLock,
        E!Finalized, stellarVars
<1>. QED  BY <1>4, <1>5, <1>6, VerdictApplies
\* No step on Stellar takes a confirmation back or changes whom it pays.
ConfirmedStay ==
    \A h \in Intents : h \in confirmed =>
        h \in confirmed' /\ record'[h].solverEvm = record[h].solverEvm

\* So what the source chain has keeps matching, and so do the verdicts on the way.
LEMMA ConfirmedStaySound ==
    ASSUME BridgeInv, UNCHANGED <<locks, payments, evmOutbox>>, ConfirmedStay
    PROVE  /\ InstructionsAreLocks' /\ PaymentsMatch'
           /\ \A n \in DOMAIN stellarOutbox[EvmEid] :
                 LET m == stellarOutbox[EvmEid][n]
                 IN m.type = "FillConfirmed" =>
                        m.hash \in confirmed' /\ m.solverEvm = record'[m.hash].solverEvm
<1>1. InstructionsAreLocks'
    BY DEF BridgeInv, InstructionsAreLocks
<1>2. PaymentsMatch'
    BY DEF BridgeInv, PaymentsMatch, PaymentMatchesLock, E!Finalized, ConfirmedStay
<1>3. \A n \in DOMAIN stellarOutbox[EvmEid] : stellarOutbox[EvmEid][n] \in S!Messages
    BY DEF BridgeInv, BridgeTypeOK
<1>4. \A n \in DOMAIN stellarOutbox[EvmEid] : stellarOutbox[EvmEid][n].hash \in Intents
    BY <1>3 DEF S!Messages, S!CancelIntents
<1>. QED  BY <1>1, <1>2, <1>4 DEF BridgeInv, VerdictsAreTrue, VerdictIsTrue, ConfirmedStay

\* A message that is sent joins the true ones.
LEMMA SendKeepsVerdicts ==
    ASSUME BridgeInv, UNCHANGED <<locks, payments, evmOutbox>>, ConfirmedStay,
           NEW m \in S!Messages,
           stellarOutbox' = [stellarOutbox EXCEPT ![EvmEid] = Append(@, m)],
           m.type = "FillConfirmed" =>
               m.hash \in confirmed' /\ m.solverEvm = record'[m.hash].solverEvm
    PROVE  VerdictsAreTrue' /\ stellarOutbox' \in [{EvmEid} -> Seq(S!Messages)]
<1>1. /\ stellarOutbox[EvmEid] \in Seq(S!Messages)
      /\ stellarOutbox'[EvmEid] = Append(stellarOutbox[EvmEid], m)
      /\ stellarOutbox' \in [{EvmEid} -> Seq(S!Messages)]
    BY AppendProperties DEF BridgeInv, BridgeTypeOK
<1>2. VerdictsAreTrue'
    <2> SUFFICES ASSUME NEW n \in DOMAIN stellarOutbox'[EvmEid],
                        stellarOutbox'[EvmEid][n].type = "FillConfirmed"
                 PROVE  /\ stellarOutbox'[EvmEid][n].hash \in confirmed'
                        /\ stellarOutbox'[EvmEid][n].solverEvm
                               = record'[stellarOutbox'[EvmEid][n].hash].solverEvm
        BY DEF VerdictsAreTrue, VerdictIsTrue
    <2>1. CASE n \in DOMAIN stellarOutbox[EvmEid]
        <3>1. stellarOutbox'[EvmEid][n] = stellarOutbox[EvmEid][n]
            BY <1>1, <2>1
        <3>. QED  BY <2>1, <3>1, ConfirmedStaySound
    <2>2. CASE n \notin DOMAIN stellarOutbox[EvmEid]
        <3>1. stellarOutbox'[EvmEid][n] = m
            BY <1>1, <2>2
        <3>. QED  BY <3>1
    <2>. QED  BY <2>1, <2>2
<1>. QED  BY <1>1, <1>2

LEMMA RegisterKeepsInv ==
    ASSUME BridgeInv, NEW n \in DOMAIN evmOutbox, DeliverInstruction(n)
    PROVE  BridgeInv'
<1> DEFINE m == evmOutbox[n]
           h == m.hash
           new == [S!Unregistered EXCEPT
                      !.status = "Locked", !.srcEid = EvmEid, !.solverEvm = m.solver,
                      !.reservationExpires = S!ReservationEnd(h, m.window)]
<1>1. UNCHANGED <<locks, payments, evmOutbox, stellarNow, settled, cancelled, confirmed,
                  deliveries, stellarOutbox>>
    BY InstructionRegisters DEF evmVars
<1>2. m \in E!FillInstructions
    BY DEF BridgeInv, BridgeTypeOK
<1>3. h \in Intents /\ m.window = 0 /\ m.solver \in Solvers /\ locks[h].solver = m.solver
    BY <1>2 DEF E!FillInstructions, BridgeInv, InstructionsAreLocks
<1>4. S!ReservationEnd(h, m.window) = Deadline[h] /\ Deadline[h] \in Nat
    BY <1>3, BridgeAssumption DEF S!ReservationEnd
<1>5. CASE UNCHANGED record
    BY <1>1, <1>5
    DEF BridgeInv, BridgeTypeOK, InstructionsAreLocks, StellarMatches, RecordMatchesLock,
        MarkersMatch, VerdictsAreTrue, VerdictIsTrue, PaymentsMatch, PaymentMatchesLock,
        E!Finalized
<1>6. CASE /\ h \notin settled /\ record[h].status = "Unregistered"
           /\ record' = [record EXCEPT ![h] = new]
    <2>1. /\ new \in S!Records /\ new.status = "Locked" /\ new.srcEid = EvmEid
          /\ new.solverEvm = m.solver /\ new.reservationExpires = Deadline[h]
        BY <1>3, <1>4 DEF S!Unregistered, S!Records, S!Statuses
    <2> HIDE DEF new
    <2>2. /\ record'[h] = new /\ record' \in [Intents -> S!Records]
          /\ \A i \in Intents \ {h} : record'[i] = record[i]
        BY <1>3, <1>6, <2>1 DEF BridgeInv, BridgeTypeOK
    <2>3. h \notin confirmed
        BY <1>3, <1>6 DEF BridgeInv, StellarMatches, MarkersMatch
    <2>4. \A i \in Intents : i \in confirmed => record'[i] = record[i]
        BY <2>2, <2>3
    <2>5. BridgeTypeOK'
        BY <1>1, <2>2 DEF BridgeInv, BridgeTypeOK
    <2>6. StellarMatches'
        <3> SUFFICES ASSUME NEW i \in Intents
                     PROVE  RecordMatchesLock(i)' /\ MarkersMatch(i)'
            BY DEF StellarMatches
        <3>1. RecordMatchesLock(i) /\ MarkersMatch(i)
            BY DEF BridgeInv, StellarMatches
        <3>2. CASE i = h
            BY <1>1, <1>3, <1>6, <2>1, <2>2, <3>1, <3>2 DEF RecordMatchesLock, MarkersMatch
        <3>3. CASE i # h
            BY <1>1, <2>2, <3>1, <3>3 DEF RecordMatchesLock, MarkersMatch
        <3>. QED  BY <3>2, <3>3
    <2>7. InstructionsAreLocks' /\ PaymentsMatch' /\ VerdictsAreTrue'
        <3>1. ConfirmedStay
            BY <1>1, <2>4 DEF ConfirmedStay
        <3>. QED  BY <1>1, <3>1, ConfirmedStaySound DEF VerdictsAreTrue, VerdictIsTrue
    <2>. QED  BY <2>5, <2>6, <2>7 DEF BridgeInv
<1>. QED  BY <1>5, <1>6, InstructionRegisters
LEMMA FillKeepsInv ==
    ASSUME BridgeInv, UNCHANGED <<locks, payments, evmOutbox, stellarNow>>, FillHappens
    PROVE  BridgeInv'
<1>1. PICK a \in StellarAccounts, s \in Solvers, h \in Intents, amount \in FillAmounts :
          /\ S!ValidFill(s, h, amount)
          /\ settled' = settled \cup {h} /\ cancelled' = cancelled
          /\ deliveries' = [deliveries EXCEPT
                 ![h] = Append(@, [solver |-> a, amount |-> amount])]
          /\ \/ /\ record' = [record EXCEPT ![h] = Stamped(h, a, s, amount, "Filled")]
                /\ UNCHANGED <<confirmed, stellarOutbox>>
             \/ /\ record' = [record EXCEPT
                           ![h] = Stamped(h, a, s, amount, "ConfirmationSent")]
                /\ confirmed' = confirmed \cup {h}
                /\ stellarOutbox' = [stellarOutbox EXCEPT ![record[h].srcEid] =
                                        Append(@, S!FillConfirmed(h, s, amount))]
    BY DEF FillHappens
<1>2. /\ record[h] \in S!Records /\ stellarNow \in Nat
      /\ RecordMatchesLock(h) /\ MarkersMatch(h)
    BY DEF BridgeInv, BridgeTypeOK, StellarMatches
<1>3. /\ h \notin settled /\ h \notin cancelled /\ record[h].status = "Locked"
      /\ stellarNow + MinDispatchWindow <= Deadline[h]
      /\ stellarNow < record[h].reservationExpires => s = record[h].solverEvm
      /\ amount \in Nat /\ amount >= MinDestAmount[h]
    BY <1>1, BridgeAssumption DEF S!ValidFill, S!IsFinalized
\* The fill comes before the deadline, so the reservation of the lock's solver holds.
<1>4. /\ s = record[h].solverEvm /\ record[h].srcEid = EvmEid /\ locks[h].solver = s
      /\ record[h].reservationExpires = Deadline[h] /\ h \notin confirmed
    BY <1>2, <1>3, BridgeAssumption DEF RecordMatchesLock, MarkersMatch
<1>5. PICK status \in {"Filled", "ConfirmationSent"} :
          /\ record' = [record EXCEPT ![h] = Stamped(h, a, s, amount, status)]
          /\ status = "Filled" => UNCHANGED <<confirmed, stellarOutbox>>
          /\ status = "ConfirmationSent" =>
                /\ confirmed' = confirmed \cup {h}
                /\ stellarOutbox' = [stellarOutbox EXCEPT ![EvmEid] =
                                        Append(@, S!FillConfirmed(h, s, amount))]
    BY <1>1, <1>4
<1> DEFINE new == Stamped(h, a, s, amount, status)
<1>6. /\ new \in S!Records /\ new.status = status /\ new.solverEvm = s
      /\ new.srcEid = EvmEid /\ new.reservationExpires = Deadline[h]
    BY <1>2, <1>3, <1>4 DEF Stamped, S!Records, S!Statuses
<1> HIDE DEF new
<1>7. /\ record'[h] = new /\ record' \in [Intents -> S!Records]
      /\ \A i \in Intents \ {h} : record'[i] = record[i]
    BY <1>5, <1>6 DEF BridgeInv, BridgeTypeOK, new
<1>8. ConfirmedStay
    BY <1>4, <1>5, <1>6, <1>7 DEF ConfirmedStay
<1>9. deliveries' \in [Intents -> Seq(Transfers)]
      /\ deliveries'[h] = <<[solver |-> a, amount |-> amount]>>
      /\ \A i \in Intents \ {h} : deliveries'[i] = deliveries[i]
    <2>1. [solver |-> a, amount |-> amount] \in Transfers
        BY <1>3 DEF Transfers
    <2>2. deliveries[h] = <<>> /\ deliveries \in [Intents -> Seq(Transfers)]
        BY <1>2, <1>3 DEF MarkersMatch, BridgeInv, BridgeTypeOK
    <2>. QED  BY <1>1, <2>1, <2>2, AppendProperties
<1>10. VerdictsAreTrue' /\ stellarOutbox' \in [{EvmEid} -> Seq(S!Messages)]
    <2>1. CASE status = "Filled"
        BY <1>5, <1>8, <2>1, ConfirmedStaySound
        DEF BridgeInv, BridgeTypeOK, VerdictsAreTrue, VerdictIsTrue
    <2>2. CASE status = "ConfirmationSent"
        <3> DEFINE m == S!FillConfirmed(h, s, amount)
        <3>1. /\ m \in S!Messages /\ m.hash = h /\ m.solverEvm = s
            BY <1>3 DEF S!FillConfirmed, S!Messages
        <3> HIDE DEF m
        <3>2. stellarOutbox' = [stellarOutbox EXCEPT ![EvmEid] = Append(@, m)]
            BY <1>5, <2>2 DEF m
        <3>3. m.hash \in confirmed' /\ m.solverEvm = record'[m.hash].solverEvm
            BY <1>5, <1>6, <1>7, <2>2, <3>1
        <3>. QED  BY <1>8, <3>1, <3>2, <3>3, SendKeepsVerdicts
    <2>. QED  BY <2>1, <2>2
<1>11. BridgeTypeOK'
    BY <1>7, <1>9, <1>10 DEF BridgeInv, BridgeTypeOK
<1>12. StellarMatches'
    <2> SUFFICES ASSUME NEW i \in Intents
                 PROVE  RecordMatchesLock(i)' /\ MarkersMatch(i)'
        BY DEF StellarMatches
    <2>1. RecordMatchesLock(i) /\ MarkersMatch(i)
        BY DEF BridgeInv, StellarMatches
    <2>2. CASE i = h
        <3>1. RecordMatchesLock(h)'
            BY <1>4, <1>6, <1>7 DEF RecordMatchesLock
        <3>2. MarkersMatch(h)'
            BY <1>1, <1>3, <1>4, <1>5, <1>6, <1>7, <1>9 DEF MarkersMatch
        <3>. QED  BY <2>2, <3>1, <3>2
    <2>3. CASE i # h
        <3>1. i \in confirmed' <=> i \in confirmed
            BY <1>5, <2>3
        <3>. QED  BY <1>1, <1>7, <1>9, <2>1, <2>3, <3>1 DEF RecordMatchesLock, MarkersMatch
    <2>. QED  BY <2>2, <2>3
<1>. QED  BY <1>8, <1>10, <1>11, <1>12, ConfirmedStaySound DEF BridgeInv
LEMMA ConfirmationKeepsInv ==
    ASSUME BridgeInv, UNCHANGED <<locks, payments, evmOutbox, stellarNow>>,
           ConfirmationHappens
    PROVE  BridgeInv'
<1>1. PICK h \in Intents :
          /\ record[h].status = "Filled" /\ h \notin confirmed
          /\ UNCHANGED <<settled, cancelled, deliveries>>
          /\ confirmed' = confirmed \cup {h}
          /\ record' = [record EXCEPT ![h].status = "ConfirmationSent"]
          /\ stellarOutbox' = [stellarOutbox EXCEPT ![record[h].srcEid] =
                 Append(@, S!FillConfirmed(h, record[h].solverEvm, record[h].fillAmount))]
    BY DEF ConfirmationHappens
<1>2. /\ record[h] \in S!Records /\ RecordMatchesLock(h)
      /\ record[h].srcEid = EvmEid /\ record[h].solverEvm \in Solvers
    BY <1>1 DEF BridgeInv, BridgeTypeOK, StellarMatches, RecordMatchesLock
<1> DEFINE new == [record[h] EXCEPT !.status = "ConfirmationSent"]
           m == S!FillConfirmed(h, record[h].solverEvm, record[h].fillAmount)
<1>3. /\ new \in S!Records /\ new.status = "ConfirmationSent"
      /\ new.solverEvm = record[h].solverEvm /\ new.srcEid = record[h].srcEid
      /\ new.reservationExpires = record[h].reservationExpires
    BY <1>2 DEF S!Records, S!Statuses
<1>4. m \in S!Messages /\ m.hash = h /\ m.solverEvm = record[h].solverEvm
    BY <1>2 DEF S!FillConfirmed, S!Messages, S!Records
<1>5. /\ record'[h] = new /\ record' \in [Intents -> S!Records]
      /\ \A i \in Intents \ {h} : record'[i] = record[i]
    BY <1>1, <1>3 DEF BridgeInv, BridgeTypeOK
<1> HIDE DEF new
<1>6. ConfirmedStay
    BY <1>1, <1>3, <1>5 DEF ConfirmedStay
<1>7. VerdictsAreTrue' /\ stellarOutbox' \in [{EvmEid} -> Seq(S!Messages)]
    <2>1. stellarOutbox' = [stellarOutbox EXCEPT ![EvmEid] = Append(@, m)]
        BY <1>1, <1>2
    <2> HIDE DEF m
    <2>2. m.hash \in confirmed' /\ m.solverEvm = record'[m.hash].solverEvm
        BY <1>1, <1>3, <1>4, <1>5
    <2>. QED  BY <1>4, <1>6, <2>1, <2>2, SendKeepsVerdicts
<1>8. BridgeTypeOK'
    BY <1>1, <1>5, <1>7 DEF BridgeInv, BridgeTypeOK
<1>9. StellarMatches'
    <2> SUFFICES ASSUME NEW i \in Intents
                 PROVE  RecordMatchesLock(i)' /\ MarkersMatch(i)'
        BY DEF StellarMatches
    <2>1. RecordMatchesLock(i) /\ MarkersMatch(i)
        BY DEF BridgeInv, StellarMatches
    <2>2. CASE i = h
        BY <1>1, <1>3, <1>5, <2>1, <2>2 DEF RecordMatchesLock, MarkersMatch
    <2>3. CASE i # h
        BY <1>1, <1>5, <2>1, <2>3 DEF RecordMatchesLock, MarkersMatch
    <2>. QED  BY <2>2, <2>3
<1>. QED  BY <1>6, <1>7, <1>8, <1>9, ConfirmedStaySound DEF BridgeInv

LEMMA CancellationKeepsInv ==
    ASSUME BridgeInv, UNCHANGED <<locks, payments, evmOutbox, stellarNow>>,
           CancellationHappens
    PROVE  BridgeInv'
<1>1. PICK h \in Intents :
          /\ record[h].status = "Locked" /\ h \notin settled
          /\ UNCHANGED <<settled, confirmed, deliveries>>
          /\ cancelled' = cancelled \cup {h}
          /\ record' = [record EXCEPT ![h].status = "Cancelled"]
          /\ stellarOutbox' = [stellarOutbox EXCEPT ![record[h].srcEid] =
                                  Append(@, S!CancelIntent(h))]
    BY DEF CancellationHappens
<1>2. record[h] \in S!Records /\ record[h].srcEid = EvmEid
    BY <1>1 DEF BridgeInv, BridgeTypeOK, StellarMatches, RecordMatchesLock
<1> DEFINE new == [record[h] EXCEPT !.status = "Cancelled"]
           m == S!CancelIntent(h)
<1>3. /\ new \in S!Records /\ new.status = "Cancelled"
      /\ new.solverEvm = record[h].solverEvm /\ new.srcEid = record[h].srcEid
      /\ new.reservationExpires = record[h].reservationExpires
    BY <1>2 DEF S!Records, S!Statuses
<1>4. m \in S!Messages /\ m.type = "CancelIntent"
    BY DEF S!CancelIntent, S!Messages, S!CancelIntents
<1>5. /\ record'[h] = new /\ record' \in [Intents -> S!Records]
      /\ \A i \in Intents \ {h} : record'[i] = record[i]
    BY <1>1, <1>3 DEF BridgeInv, BridgeTypeOK
<1> HIDE DEF new
<1>6. ConfirmedStay
    BY <1>1, <1>3, <1>5 DEF ConfirmedStay
<1>7. VerdictsAreTrue' /\ stellarOutbox' \in [{EvmEid} -> Seq(S!Messages)]
    <2>1. stellarOutbox' = [stellarOutbox EXCEPT ![EvmEid] = Append(@, m)]
        BY <1>1, <1>2
    <2> HIDE DEF m
    <2>. QED  BY <1>4, <1>6, <2>1, SendKeepsVerdicts
<1>8. BridgeTypeOK'
    BY <1>1, <1>5, <1>7 DEF BridgeInv, BridgeTypeOK
<1>9. StellarMatches'
    <2> SUFFICES ASSUME NEW i \in Intents
                 PROVE  RecordMatchesLock(i)' /\ MarkersMatch(i)'
        BY DEF StellarMatches
    <2>1. RecordMatchesLock(i) /\ MarkersMatch(i)
        BY DEF BridgeInv, StellarMatches
    <2>2. CASE i = h
        BY <1>1, <1>3, <1>5, <2>1, <2>2 DEF RecordMatchesLock, MarkersMatch
    <2>3. CASE i # h
        BY <1>1, <1>5, <2>1, <2>3 DEF RecordMatchesLock, MarkersMatch
    <2>. QED  BY <2>2, <2>3
<1>. QED  BY <1>6, <1>7, <1>8, <1>9, ConfirmedStaySound DEF BridgeInv

\* The clocks, and what the invariant does not look at.
LEMMA ClocksKeepInv ==
    ASSUME BridgeInv, stellarNow' \in Nat,
           UNCHANGED <<locks, payments, evmOutbox, record, settled, cancelled, confirmed,
                       deliveries, stellarOutbox>>
    PROVE  BridgeInv'
BY DEF BridgeInv, BridgeTypeOK, InstructionsAreLocks, StellarMatches, RecordMatchesLock,
       MarkersMatch, VerdictsAreTrue, VerdictIsTrue, PaymentsMatch, PaymentMatchesLock,
       E!Finalized

LEMMA BridgeStep == BridgeInv /\ [Next]_vars => BridgeInv'
<1> SUFFICES ASSUME BridgeInv, [Next]_vars
             PROVE  BridgeInv'
    OBVIOUS
<1>1. ASSUME NEW h \in Intents, NEW s \in Solvers, Lock(h, s)
      PROVE  BridgeInv'
    BY <1>1, LockKeepsInv
<1>2. ASSUME NEW h \in Intents, CancelExpired(h)
      PROVE  BridgeInv'
    BY <1>2, ExpiryRefunds, RefundKeepsInv
<1>3. ASSUME NEW n \in DOMAIN evmOutbox, DeliverInstruction(n)
      PROVE  BridgeInv'
    BY <1>3, RegisterKeepsInv
<1>4. ASSUME NEW n \in DOMAIN stellarOutbox[EvmEid], DeliverVerdict(n)
      PROVE  BridgeInv'
    BY <1>4, DeliverVerdictKeepsInv
<1>5. CASE Settle
    BY <1>5, SettleEffects, FillKeepsInv, ConfirmationKeepsInv, CancellationKeepsInv
    DEF evmVars
<1>6. CASE EvmTick
    BY <1>6, ClocksKeepInv DEF EvmTick, stellarVars, BridgeInv, BridgeTypeOK
<1>7. CASE StellarTick
    <2>1. stellarNow' = stellarNow + 1
        BY <1>7 DEF StellarTick, S!StellarTick
    <2>2. stellarNow' \in Nat
        BY <2>1 DEF BridgeInv, BridgeTypeOK
    <2>. QED  BY <1>7, <2>2, ClocksKeepInv DEF StellarTick, evmVars
<1>8. CASE UNCHANGED vars
    BY <1>8, ClocksKeepInv DEF vars, evmVars, stellarVars, BridgeInv, BridgeTypeOK
<1>. QED  BY <1>1, <1>2, <1>3, <1>4, <1>5, <1>6, <1>7, <1>8 DEF Next

LEMMA BridgeInvHolds == Spec => []BridgeInv
BY BridgeInitInv, BridgeStep, PTL DEF Spec

(* I3 of the formal specification, no payout without delivery, and its       *)
(* converse on the way out: the escrow releases an intent only to the solver *)
(* that locked it, which delivered at least the minimum on Stellar, once,    *)
(* before the deadline, and Stellar knows no intent that nobody locked.      *)
(* Messages may be lost, late, reordered and repeated, the clocks drift.     *)
THEOREM ChainsAlwaysAgree == Spec => []ChainsAgree
BY BridgeInvHolds, InvImpliesAgreement, PTL
-----------------------------------------------------------------------------
(* Timing.  The invariant of the refinement: what is confirmed is confirmed  *)
(* early enough, a message for a live lock is on its way and not overdue,    *)
(* and a refund is due.                                                      *)

CancelsMatch ==
    /\ \A h \in Intents : h \in cancelled <=> record[h].status = "Cancelled"
    /\ \A n \in DOMAIN stellarOutbox[EvmEid] :
          LET m == stellarOutbox[EvmEid][n]
          IN m.type = "CancelIntent" => m.hash \in cancelled

ClocksAreClose ==
    /\ evmNow \in Nat /\ \E t \in Timings : config = Configured(t)
    /\ evmNow <= stellarNow + config.timing.skew

MessagesArrive ==
    /\ sentAt \in Seq(Nat) /\ Len(sentAt) = Len(stellarOutbox[EvmEid])
    /\ evmConsumed \subseteq DOMAIN sentAt
    /\ \A n \in DOMAIN sentAt :
          E!Live(stellarOutbox[EvmEid][n].hash) =>
              n \notin evmConsumed /\ evmNow <= sentAt[n] + config.timing.latency

ConfirmationsAreSent ==
    \A h \in confirmed \cap Intents : \E n \in DOMAIN sentAt :
        /\ stellarOutbox[EvmEid][n].hash = h
        /\ sentAt[n] <= Deadline[h] + MinDispatchWindow + config.timing.skew

RefundsAreDue ==
    \A h \in Intents :
        locks[h].refunded => h \in cancelled \/ evmNow >= Deadline[h] + config.grace

TimingInv ==
    /\ CancelsMatch /\ ClocksAreClose /\ MessagesArrive
    /\ ConfirmationsAreSent /\ RefundsAreDue

LEMMA TimingTypes ==
    ASSUME ClocksAreClose
    PROVE  /\ evmNow \in Nat /\ config.grace = ConfirmationGrace
           /\ config.timing.skew \in Nat /\ config.timing.latency \in Nat
<1>1. PICK t \in Timings : config = Configured(t)
    BY DEF ClocksAreClose
<1>2. config.grace = ConfirmationGrace /\ config.timing = t
    BY <1>1 DEF Configured
<1>. QED  BY <1>2, BridgeAssumption DEF ClocksAreClose

LEMMA InitTiming == Init => TimingInv
<1> SUFFICES ASSUME Init
             PROVE  TimingInv
    OBVIOUS
<1>1. PICK t \in Timings : config = Configured(t)
    BY DEF Init
<1>2. E!Init /\ S!Init /\ sentAt = <<>> /\ evmConsumed = {}
    BY DEF Init, E!Init
<1>3. /\ evmNow = StartTime /\ locks = [h \in Intents |-> E!NoLock]
      /\ ~E!NoLock.refunded
    BY <1>2 DEF E!Init, E!AdminInit, E!ClockInit, E!NoLock
<1>4. /\ record = [h \in Intents |-> S!Unregistered] /\ cancelled = {} /\ confirmed = {}
      /\ stellarOutbox = [e \in {EvmEid} |-> <<>>] /\ stellarNow = StartTime
      /\ S!Unregistered.status = "Unregistered"
    BY <1>2 DEF S!Init, S!ClockInit, S!Unregistered
<1>5. ClocksAreClose
    <2>1. config.timing \in [skew : Nat, latency : Nat]
        BY <1>1, BridgeAssumption DEF Configured
    <2>. QED  BY <1>1, <1>3, <1>4, <2>1, BridgeAssumption DEF ClocksAreClose
<1>6. CancelsMatch /\ MessagesArrive /\ ConfirmationsAreSent
    BY <1>2, <1>4 DEF CancelsMatch, MessagesArrive, ConfirmationsAreSent
<1>7. RefundsAreDue
    BY <1>3 DEF RefundsAreDue
<1>. QED  BY <1>5, <1>6, <1>7 DEF TimingInv

\* What the escrow hears of is an intent that ended on Stellar, and that was locked.
LEMMA VerdictsAreOnLocks ==
    ASSUME BridgeInv, CancelsMatch
    PROVE  \A n \in DOMAIN stellarOutbox[EvmEid] :
               LET m == stellarOutbox[EvmEid][n]
               IN /\ m.hash \in Intents
                  /\ m.type \in {"FillConfirmed", "CancelIntent"}
                  /\ m.hash \in IF m.type = "FillConfirmed" THEN confirmed ELSE cancelled
                  /\ locks[m.hash].solver # NoSolver
<1> SUFFICES ASSUME NEW n \in DOMAIN stellarOutbox[EvmEid]
             PROVE  LET m == stellarOutbox[EvmEid][n]
                    IN /\ m.hash \in Intents
                       /\ m.type \in {"FillConfirmed", "CancelIntent"}
                       /\ m.hash \in IF m.type = "FillConfirmed" THEN confirmed ELSE cancelled
                       /\ locks[m.hash].solver # NoSolver
    OBVIOUS
<1> DEFINE m == stellarOutbox[EvmEid][n]
<1>1. m \in S!Messages
    BY DEF BridgeInv, BridgeTypeOK
<1>2. m.hash \in Intents /\ m.type \in {"FillConfirmed", "CancelIntent"}
    BY <1>1 DEF S!Messages, S!CancelIntents
<1>3. m.hash \in IF m.type = "FillConfirmed" THEN confirmed ELSE cancelled
    BY <1>2 DEF BridgeInv, VerdictsAreTrue, VerdictIsTrue, CancelsMatch
<1>4. record[m.hash].status # "Unregistered"
    BY <1>2, <1>3 DEF BridgeInv, StellarMatches, MarkersMatch, CancelsMatch
<1>5. locks[m.hash].solver # NoSolver
    BY <1>2, <1>4, BridgeAssumption DEF BridgeInv, StellarMatches, RecordMatchesLock
<1>. QED  BY <1>2, <1>3, <1>5

\* A step of the escrow.
LEMMA EscrowKeepsTiming ==
    ASSUME BridgeInv, TimingInv, UNCHANGED <<config, stellarVars, sentAt>>,
           evmNow' \in Nat, evmNow' >= evmNow,
           evmNow' <= stellarNow + config.timing.skew,
           evmConsumed' \subseteq DOMAIN sentAt,
           \A n \in DOMAIN sentAt :
               E!Live(stellarOutbox[EvmEid][n].hash)' =>
                   n \notin evmConsumed' /\ evmNow' <= sentAt[n] + config.timing.latency,
           \A h \in Intents :
               locks'[h].refunded =>
                   locks[h].refunded \/ h \in cancelled \/ evmNow' >= Deadline[h] + config.grace
    PROVE  TimingInv'
<1>1. CancelsMatch'
    BY DEF TimingInv, CancelsMatch, stellarVars
<1>2. ClocksAreClose'
    BY DEF TimingInv, ClocksAreClose, stellarVars
<1>3. MessagesArrive'
    BY DEF TimingInv, MessagesArrive, stellarVars
<1>4. ConfirmationsAreSent'
    BY DEF TimingInv, ConfirmationsAreSent, stellarVars
<1>5. RefundsAreDue'
    <2>1. evmNow \in Nat /\ config.grace \in Nat /\ \A h \in Intents : Deadline[h] \in Nat
        BY TimingTypes, BridgeAssumption DEF TimingInv
    <2>. QED  BY <2>1 DEF TimingInv, RefundsAreDue, stellarVars
<1>. QED  BY <1>1, <1>2, <1>3, <1>4, <1>5 DEF TimingInv

LEMMA LockKeepsTiming ==
    ASSUME BridgeInv, TimingInv, NEW h \in Intents, NEW s \in Solvers, Lock(h, s)
    PROVE  TimingInv'
<1>1. /\ locks[h].solver = NoSolver
      /\ locks' = [locks EXCEPT ![h] = NewLock(s, SourceAmount[h])]
      /\ UNCHANGED <<config, evmNow, evmConsumed, stellarVars, sentAt>>
    BY LockRecords
<1>2. locks \in [Intents -> E!Locks] /\ ~NewLock(s, SourceAmount[h]).refunded
    BY NewLockFields DEF BridgeInv, BridgeTypeOK
<1>3. \A i \in Intents : i # h => locks'[i] = locks[i]
    BY <1>1, <1>2
<1>4. ASSUME NEW n \in DOMAIN sentAt, E!Live(stellarOutbox[EvmEid][n].hash)'
      PROVE  n \notin evmConsumed' /\ evmNow' <= sentAt[n] + config.timing.latency
    <2>1. n \in DOMAIN stellarOutbox[EvmEid]
        BY DEF TimingInv, MessagesArrive, BridgeInv, BridgeTypeOK
    <2>2. PICK i \in Intents : i = stellarOutbox[EvmEid][n].hash /\ locks[i].solver # NoSolver
        BY <2>1, VerdictsAreOnLocks DEF TimingInv
    <2>3. stellarOutbox'[EvmEid][n].hash = i
        BY <1>1, <2>2 DEF stellarVars
    <2>4. locks'[i] = locks[i]
        BY <1>1, <1>3, <2>2
    <2>5. E!Live(i)
        BY <1>4, <2>3, <2>4 DEF E!Live, E!Locked, E!Finalized
    <2>. QED  BY <1>1, <2>2, <2>5 DEF TimingInv, MessagesArrive
<1>5. ASSUME NEW i \in Intents, locks'[i].refunded
      PROVE  locks[i].refunded
    BY <1>1, <1>2, <1>3, <1>5
<1>6. evmNow \in Nat /\ evmNow <= stellarNow + config.timing.skew
    BY DEF TimingInv, ClocksAreClose
<1>7. evmConsumed \subseteq DOMAIN sentAt
    BY DEF TimingInv, MessagesArrive
<1>. QED  BY <1>1, <1>4, <1>5, <1>6, <1>7, EscrowKeepsTiming

LEMMA EndsShrinkLive ==
    ASSUME BridgeInv, NEW h \in Intents, E!Live(h),
           \/ locks' = [locks EXCEPT ![h].released = TRUE]
           \/ locks' = [locks EXCEPT ![h].refunded = TRUE]
    PROVE  /\ ~E!Live(h)'
           /\ \A i \in Intents : i # h => locks'[i] = locks[i]
           /\ locks' = [locks EXCEPT ![h].released = TRUE] =>
                  locks'[h].released /\ ~locks'[h].refunded
           /\ locks' = [locks EXCEPT ![h].refunded = TRUE] =>
                  locks'[h].refunded /\ ~locks'[h].released
           /\ locks'[h].solver = locks[h].solver
<1>1. locks \in [Intents -> E!Locks] /\ locks[h] \in E!Locks
    BY DEF BridgeInv, BridgeTypeOK
<1>2. \A i \in Intents : i # h => locks'[i] = locks[i]
    BY <1>1
<1>3. ~locks[h].released /\ ~locks[h].refunded
    BY DEF E!Live, E!Finalized
<1> DEFINE released == [locks[h] EXCEPT !.released = TRUE]
           refunded == [locks[h] EXCEPT !.refunded = TRUE]
<1>4. /\ released.released /\ released.refunded = locks[h].refunded
      /\ refunded.refunded /\ refunded.released = locks[h].released
    BY <1>1, Zenon DEF E!Locks
<1>5. released.solver = locks[h].solver /\ refunded.solver = locks[h].solver
    BY <1>1 DEF E!Locks
<1>6. /\ locks' = [locks EXCEPT ![h].released = TRUE] => locks'[h] = released
      /\ locks' = [locks EXCEPT ![h].refunded = TRUE] => locks'[h] = refunded
    BY <1>1
<1> HIDE DEF released, refunded
<1>. QED  BY <1>2, <1>3, <1>4, <1>5, <1>6 DEF E!Live, E!Finalized

LEMMA EndKeepsTiming ==
    ASSUME BridgeInv, TimingInv, NEW h \in Intents, E!Live(h),
           \/ locks' = [locks EXCEPT ![h].released = TRUE]
           \/ /\ locks' = [locks EXCEPT ![h].refunded = TRUE]
              /\ h \in cancelled \/ evmNow >= Deadline[h] + config.grace,
           UNCHANGED <<config, evmNow, stellarVars, sentAt>>,
           evmConsumed' \subseteq DOMAIN sentAt,
           \A n \in DOMAIN sentAt :
               n \in evmConsumed' => n \in evmConsumed \/ stellarOutbox[EvmEid][n].hash = h
    PROVE  TimingInv'
<1>1. /\ ~E!Live(h)' /\ \A i \in Intents : i # h => locks'[i] = locks[i]
      /\ locks' = [locks EXCEPT ![h].released = TRUE] => ~locks'[h].refunded
    BY EndsShrinkLive
<1>2. ASSUME NEW n \in DOMAIN sentAt, E!Live(stellarOutbox[EvmEid][n].hash)'
      PROVE  n \notin evmConsumed' /\ evmNow' <= sentAt[n] + config.timing.latency
    <2>1. n \in DOMAIN stellarOutbox[EvmEid]
        BY DEF TimingInv, MessagesArrive, BridgeInv, BridgeTypeOK
    <2>2. PICK i \in Intents : i = stellarOutbox[EvmEid][n].hash
        BY <2>1, VerdictsAreOnLocks DEF TimingInv
    <2>3. stellarOutbox'[EvmEid][n].hash = i
        BY <2>2 DEF stellarVars
    <2>4. E!Live(i)' /\ i # h
        BY <1>1, <1>2, <2>3 DEF E!Live, E!Locked, E!Finalized
    <2>5. E!Live(i)
        BY <1>1, <2>4 DEF E!Live, E!Locked, E!Finalized
    <2>. QED  BY <2>2, <2>4, <2>5 DEF TimingInv, MessagesArrive
<1>3. ASSUME NEW i \in Intents, locks'[i].refunded
      PROVE  locks[i].refunded \/ i \in cancelled \/ evmNow' >= Deadline[i] + config.grace
    BY <1>1, <1>3
<1>4. evmNow \in Nat /\ evmNow <= stellarNow + config.timing.skew
    BY DEF TimingInv, ClocksAreClose
<1>. QED  BY <1>2, <1>3, <1>4, EscrowKeepsTiming

LEMMA ExpiryKeepsTiming ==
    ASSUME BridgeInv, TimingInv, NEW h \in Intents, CancelExpired(h)
    PROVE  TimingInv'
<1>1. evmNow >= Deadline[h] + config.grace
    BY DEF CancelExpired, E!CancelExpired
<1>2. evmConsumed \subseteq DOMAIN sentAt
    BY DEF TimingInv, MessagesArrive
<1>. QED  BY <1>1, <1>2, ExpiryRefunds, EndKeepsTiming

LEMMA VerdictKeepsTiming ==
    ASSUME BridgeInv, TimingInv, NEW n \in DOMAIN stellarOutbox[EvmEid], DeliverVerdict(n)
    PROVE  TimingInv'
<1> DEFINE m == stellarOutbox[EvmEid][n]
           h == m.hash
<1>0. n \in DOMAIN sentAt /\ evmConsumed \subseteq DOMAIN sentAt
    BY DEF TimingInv, MessagesArrive, BridgeInv, BridgeTypeOK
<1>1. /\ UNCHANGED <<config, evmNow, stellarVars, sentAt>>
      /\ evmConsumed' = evmConsumed \cup {n} /\ evmConsumed' \subseteq DOMAIN sentAt
    <2>1. /\ UNCHANGED <<config, evmNow, stellarVars, sentAt>>
          /\ evmConsumed' = evmConsumed \cup {n}
        BY VerdictApplies
    <2>. QED  BY <1>0, <2>1
<1>2. /\ h \in Intents
      /\ h \in IF m.type = "FillConfirmed" THEN confirmed ELSE cancelled
      /\ locks[h].solver # NoSolver
    BY VerdictsAreOnLocks DEF TimingInv
<1>3. CASE /\ E!Live(h)
           /\ \/ locks' = [locks EXCEPT ![h].released = TRUE]
              \/ locks' = [locks EXCEPT ![h].refunded = TRUE] /\ m.type = "CancelIntent"
    BY <1>1, <1>2, <1>3, EndKeepsTiming
<1>4. CASE UNCHANGED locks /\ ~E!Live(h)
    <2>1. ASSUME NEW k \in DOMAIN sentAt, E!Live(stellarOutbox[EvmEid][k].hash)'
          PROVE  k \notin evmConsumed' /\ evmNow' <= sentAt[k] + config.timing.latency
        <3>1. E!Live(stellarOutbox[EvmEid][k].hash)
            BY <1>1, <1>4, <2>1 DEF E!Live, E!Locked, E!Finalized, stellarVars
        <3>2. k # n
            BY <1>4, <3>1
        <3>. QED  BY <1>1, <3>1, <3>2 DEF TimingInv, MessagesArrive
    <2>2. evmNow \in Nat /\ evmNow <= stellarNow + config.timing.skew
        BY DEF TimingInv, ClocksAreClose
    <2>. QED  BY <1>1, <1>4, <2>1, <2>2, EscrowKeepsTiming
<1>. QED  BY <1>3, <1>4, VerdictApplies

\* The escrow's clock waits for a message for a live lock that is as old as the latency.
LEMMA EvmTickKeepsTiming ==
    ASSUME BridgeInv, TimingInv, EvmTick
    PROVE  TimingInv'
<1>1. /\ UNCHANGED <<config, locks, evmConsumed, stellarVars, sentAt>>
      /\ evmNow' = evmNow + 1 /\ evmNow < stellarNow + config.timing.skew
    BY DEF EvmTick, E!EvmTick
<1>2. /\ evmNow \in Nat /\ stellarNow \in Nat
      /\ config.timing.skew \in Nat /\ config.timing.latency \in Nat
    BY TimingTypes DEF TimingInv, BridgeInv, BridgeTypeOK
<1>3. ASSUME NEW n \in DOMAIN sentAt, E!Live(stellarOutbox[EvmEid][n].hash)'
      PROVE  n \notin evmConsumed' /\ evmNow' <= sentAt[n] + config.timing.latency
    <2>1. E!Live(stellarOutbox[EvmEid][n].hash)
        BY <1>1, <1>3 DEF E!Live, E!Locked, E!Finalized, stellarVars
    <2>2. n \notin evmConsumed /\ sentAt[n] \in Nat
        BY <2>1 DEF TimingInv, MessagesArrive
    <2>3. ~(evmNow >= sentAt[n] + config.timing.latency)
        BY <2>1, <2>2 DEF EvmTick, Overdue
    <2>. QED  BY <1>1, <1>2, <2>2, <2>3
<1>4. evmConsumed \subseteq DOMAIN sentAt
    BY DEF TimingInv, MessagesArrive
<1>. QED  BY <1>1, <1>2, <1>3, <1>4, EscrowKeepsTiming

\* A step on Stellar that sends nothing.
LEMMA SilenceKeepsTiming ==
    ASSUME BridgeInv, TimingInv, CancelsMatch',
           UNCHANGED <<config, evmVars, sentAt, stellarOutbox, confirmed>>,
           cancelled \subseteq cancelled', stellarNow' \in Nat, stellarNow' >= stellarNow
    PROVE  TimingInv'
<1>1. ClocksAreClose'
    BY TimingTypes DEF TimingInv, ClocksAreClose, evmVars, BridgeInv, BridgeTypeOK
<1>2. MessagesArrive'
    BY DEF TimingInv, MessagesArrive, evmVars, E!Live, E!Locked, E!Finalized
<1>3. ConfirmationsAreSent'
    BY DEF TimingInv, ConfirmationsAreSent
<1>4. RefundsAreDue'
    BY DEF TimingInv, RefundsAreDue, evmVars
<1>. QED  BY <1>1, <1>2, <1>3, <1>4 DEF TimingInv

\* A step on Stellar that sends the verdict of an intent.
LEMMA SendKeepsTiming ==
    ASSUME BridgeInv, TimingInv, CancelsMatch', StampNewMessage,
           UNCHANGED <<config, evmVars, stellarNow>>,
           cancelled \subseteq cancelled',
           NEW h \in Intents, NEW m \in S!Messages, m.hash = h,
           stellarOutbox' = [stellarOutbox EXCEPT ![EvmEid] = Append(@, m)],
           \/ confirmed' = confirmed
           \/ /\ confirmed' = confirmed \cup {h}
              /\ stellarNow <= Deadline[h] + MinDispatchWindow
    PROVE  TimingInv'
<1> DEFINE k == Len(sentAt) + 1
<1>1. /\ stellarOutbox[EvmEid] \in Seq(S!Messages) /\ sentAt \in Seq(Nat)
      /\ Len(sentAt) = Len(stellarOutbox[EvmEid]) /\ k \in Nat
      /\ stellarOutbox'[EvmEid] = Append(stellarOutbox[EvmEid], m)
    BY DEF BridgeInv, BridgeTypeOK, TimingInv, MessagesArrive
<1>2. /\ evmNow \in Nat /\ stellarNow \in Nat /\ evmNow <= stellarNow + config.timing.skew
      /\ config.timing.skew \in Nat /\ config.timing.latency \in Nat
    BY TimingTypes DEF TimingInv, ClocksAreClose, BridgeInv, BridgeTypeOK
<1>3. sentAt' = Append(sentAt, evmNow)
    BY <1>1 DEF StampNewMessage
<1>4. /\ sentAt' \in Seq(Nat) /\ Len(sentAt') = k /\ Len(stellarOutbox'[EvmEid]) = k
      /\ DOMAIN sentAt' = 1 .. k /\ DOMAIN sentAt = 1 .. k - 1
      /\ sentAt'[k] = evmNow /\ stellarOutbox'[EvmEid][k].hash = h
      /\ \A n \in DOMAIN sentAt :
             /\ sentAt'[n] = sentAt[n]
             /\ stellarOutbox'[EvmEid][n] = stellarOutbox[EvmEid][n]
    BY <1>1, <1>2, <1>3, AppendProperties
<1>5. ClocksAreClose'
    BY DEF TimingInv, ClocksAreClose, evmVars
<1>6. MessagesArrive'
    <2>1. evmConsumed' \subseteq DOMAIN sentAt /\ evmConsumed' = evmConsumed
        BY DEF TimingInv, MessagesArrive, evmVars
    <2>2. ASSUME NEW n \in DOMAIN sentAt', E!Live(stellarOutbox[EvmEid][n].hash)'
          PROVE  n \notin evmConsumed' /\ evmNow' <= sentAt'[n] + config'.timing.latency
        <3>1. CASE n = k
            BY <1>2, <1>4, <2>1, <3>1 DEF evmVars
        <3>2. CASE n # k
            <4>1. n \in DOMAIN sentAt
                BY <1>1, <1>4, <3>2
            <4>2. E!Live(stellarOutbox[EvmEid][n].hash)
                BY <1>4, <2>2, <4>1 DEF E!Live, E!Locked, E!Finalized, evmVars
            <4>3. n \notin evmConsumed /\ evmNow <= sentAt[n] + config.timing.latency
                BY <4>1, <4>2 DEF TimingInv, MessagesArrive
            <4>. QED  BY <1>4, <2>1, <4>1, <4>3 DEF evmVars
        <3>. QED  BY <3>1, <3>2
    <2>. QED  BY <1>1, <1>4, <2>1, <2>2 DEF MessagesArrive
<1>7. ConfirmationsAreSent'
    <2> SUFFICES ASSUME NEW i \in confirmed' \cap Intents
                 PROVE  \E n \in DOMAIN sentAt' :
                            /\ stellarOutbox'[EvmEid][n].hash = i
                            /\ sentAt'[n] <= Deadline[i] + MinDispatchWindow + config'.timing.skew
        BY DEF ConfirmationsAreSent
    <2>1. CASE i \in confirmed
        <3>1. PICK n \in DOMAIN sentAt :
                  /\ stellarOutbox[EvmEid][n].hash = i
                  /\ sentAt[n] <= Deadline[i] + MinDispatchWindow + config.timing.skew
            BY <2>1 DEF TimingInv, ConfirmationsAreSent
        <3>. QED  BY <1>1, <1>4, <3>1
    <2>2. CASE i \notin confirmed
        <3>1. i = h /\ stellarNow <= Deadline[h] + MinDispatchWindow
            BY <2>2
        <3>2. Deadline[h] \in Nat /\ MinDispatchWindow \in Nat
            BY BridgeAssumption
        <3>3. sentAt'[k] = evmNow /\ config' = config
            BY <1>4
        <3>4. sentAt'[k] <= Deadline[h] + MinDispatchWindow + config'.timing.skew
            BY <1>2, <3>1, <3>2, <3>3
        <3>5. k \in DOMAIN sentAt'
            BY <1>1, <1>4
        <3>. QED  BY <1>4, <3>1, <3>4, <3>5
    <2>. QED  BY <2>1, <2>2
<1>8. RefundsAreDue'
    BY DEF TimingInv, RefundsAreDue, evmVars
<1>. QED  BY <1>5, <1>6, <1>7, <1>8 DEF TimingInv

\* What is cancelled is recorded so, also with the message that is sent.
LEMMA CancelsKeepMatching ==
    ASSUME BridgeInv, CancelsMatch, cancelled \subseteq cancelled',
           \A h \in Intents : h \in cancelled' <=> record'[h].status = "Cancelled",
           \/ stellarOutbox' = stellarOutbox
           \/ \E m \in S!Messages :
                 /\ stellarOutbox' = [stellarOutbox EXCEPT ![EvmEid] = Append(@, m)]
                 /\ m.type = "CancelIntent" => m.hash \in cancelled'
    PROVE  CancelsMatch'
<1>1. CASE stellarOutbox' = stellarOutbox
    BY <1>1 DEF CancelsMatch
<1>2. ASSUME NEW m \in S!Messages,
             stellarOutbox' = [stellarOutbox EXCEPT ![EvmEid] = Append(@, m)],
             m.type = "CancelIntent" => m.hash \in cancelled'
      PROVE  CancelsMatch'
    <2>1. /\ stellarOutbox[EvmEid] \in Seq(S!Messages)
          /\ stellarOutbox'[EvmEid] = Append(stellarOutbox[EvmEid], m)
        BY <1>2 DEF BridgeInv, BridgeTypeOK
    <2>2. ASSUME NEW n \in DOMAIN stellarOutbox'[EvmEid]
          PROVE  \/ stellarOutbox'[EvmEid][n] = m
                 \/ /\ n \in DOMAIN stellarOutbox[EvmEid]
                    /\ stellarOutbox'[EvmEid][n] = stellarOutbox[EvmEid][n]
        BY <2>1, <2>2
    <2>. QED  BY <1>2, <2>2 DEF CancelsMatch
<1>. QED  BY <1>1, <1>2

LEMMA InstructionKeepsTiming ==
    ASSUME BridgeInv, TimingInv, NEW n \in DOMAIN evmOutbox, DeliverInstruction(n)
    PROVE  TimingInv'
<1> DEFINE h == evmOutbox[n].hash
           m == evmOutbox[n]
           new == [S!Unregistered EXCEPT
                      !.status = "Locked", !.srcEid = EvmEid, !.solverEvm = m.solver,
                      !.reservationExpires = S!ReservationEnd(h, m.window)]
<1>1. /\ UNCHANGED <<config, evmVars, sentAt, stellarNow, cancelled, confirmed, stellarOutbox>>
      /\ \/ UNCHANGED record
         \/ h \notin cancelled /\ record' = [record EXCEPT ![h] = new]
    BY InstructionRegisters
<1>2. new.status = "Locked"
    BY DEF S!Unregistered
<1> HIDE DEF new
<1>3. \A i \in Intents : i \in cancelled' <=> record'[i].status = "Cancelled"
    BY <1>1, <1>2 DEF TimingInv, CancelsMatch, BridgeInv, BridgeTypeOK
<1>4. CancelsMatch'
    BY <1>1, <1>3, CancelsKeepMatching DEF TimingInv
<1>. QED  BY <1>1, <1>4, SilenceKeepsTiming DEF BridgeInv, BridgeTypeOK

LEMMA StellarTickKeepsTiming ==
    ASSUME BridgeInv, TimingInv, StellarTick
    PROVE  TimingInv'
<1>1. /\ UNCHANGED <<config, evmVars, record, cancelled, confirmed, stellarOutbox, sentAt>>
      /\ stellarNow' = stellarNow + 1 /\ stellarNow \in Nat
    BY DEF StellarTick, S!StellarTick, BridgeInv, BridgeTypeOK
<1>2. CancelsMatch'
    BY <1>1 DEF TimingInv, CancelsMatch
<1>. QED  BY <1>1, <1>2, SilenceKeepsTiming

LEMMA FillKeepsTiming ==
    ASSUME BridgeInv, TimingInv, UNCHANGED <<config, evmVars, stellarNow>>,
           StampNewMessage, FillHappens
    PROVE  TimingInv'
<1>1. PICK a \in StellarAccounts, s \in Solvers, h \in Intents, amount \in FillAmounts :
          /\ S!ValidFill(s, h, amount)
          /\ cancelled' = cancelled
          /\ \/ /\ record' = [record EXCEPT ![h] = Stamped(h, a, s, amount, "Filled")]
                /\ UNCHANGED <<confirmed, stellarOutbox>>
             \/ /\ record' = [record EXCEPT
                           ![h] = Stamped(h, a, s, amount, "ConfirmationSent")]
                /\ confirmed' = confirmed \cup {h}
                /\ stellarOutbox' = [stellarOutbox EXCEPT ![record[h].srcEid] =
                                        Append(@, S!FillConfirmed(h, s, amount))]
    BY DEF FillHappens
<1>2. /\ record[h] \in S!Records /\ stellarNow \in Nat /\ RecordMatchesLock(h)
    BY DEF BridgeInv, BridgeTypeOK, StellarMatches
<1>3. /\ h \notin cancelled /\ record[h].status = "Locked"
      /\ stellarNow + MinDispatchWindow <= Deadline[h]
      /\ amount \in Nat /\ record[h].srcEid = EvmEid
    BY <1>1, <1>2, BridgeAssumption DEF S!ValidFill, S!IsFinalized, RecordMatchesLock
<1>4. \A status : Stamped(h, a, s, amount, status).status = status
    BY <1>2 DEF Stamped, S!Records
<1>5. \A i \in Intents : i \in cancelled' <=> record'[i].status = "Cancelled"
    <2>1. PICK status \in {"Filled", "ConfirmationSent"} :
              record' = [record EXCEPT ![h] = Stamped(h, a, s, amount, status)]
        BY <1>1
    <2>2. record'[h].status # "Cancelled" /\ \A i \in Intents : i # h => record'[i] = record[i]
        BY <1>4, <2>1 DEF BridgeInv, BridgeTypeOK
    <2>. QED  BY <1>1, <1>3, <2>2 DEF TimingInv, CancelsMatch
<1> DEFINE m == S!FillConfirmed(h, s, amount)
<1>6. m \in S!Messages /\ m.hash = h /\ m.type = "FillConfirmed"
    BY <1>3 DEF S!FillConfirmed, S!Messages
<1>7. CASE UNCHANGED <<confirmed, stellarOutbox>>
    <2>1. CancelsMatch'
        BY <1>1, <1>5, <1>7, CancelsKeepMatching DEF TimingInv
    <2>2. sentAt' = sentAt
        BY <1>7 DEF StampNewMessage, TimingInv, MessagesArrive, BridgeInv, BridgeTypeOK
    <2>. QED  BY <1>1, <1>2, <1>7, <2>1, <2>2, SilenceKeepsTiming
<1>8. CASE /\ confirmed' = confirmed \cup {h}
           /\ stellarOutbox' = [stellarOutbox EXCEPT ![EvmEid] = Append(@, m)]
    <2> HIDE DEF m
    <2>1. CancelsMatch'
        BY <1>1, <1>5, <1>6, <1>8, CancelsKeepMatching DEF TimingInv
    <2>2. stellarNow <= Deadline[h] + MinDispatchWindow
        BY <1>2, <1>3, BridgeAssumption
    <2>. QED  BY <1>1, <1>6, <1>8, <2>1, <2>2, SendKeepsTiming
<1>. QED  BY <1>1, <1>3, <1>7, <1>8

LEMMA ConfirmationKeepsTiming ==
    ASSUME BridgeInv, TimingInv, UNCHANGED <<config, evmVars, stellarNow>>,
           StampNewMessage, ConfirmationHappens
    PROVE  TimingInv'
<1>1. PICK h \in Intents :
          /\ record[h].status = "Filled"
          /\ stellarNow <= Deadline[h] + MinDispatchWindow
          /\ UNCHANGED cancelled
          /\ confirmed' = confirmed \cup {h}
          /\ record' = [record EXCEPT ![h].status = "ConfirmationSent"]
          /\ stellarOutbox' = [stellarOutbox EXCEPT ![record[h].srcEid] =
                 Append(@, S!FillConfirmed(h, record[h].solverEvm, record[h].fillAmount))]
    BY DEF ConfirmationHappens
<1>2. record[h] \in S!Records /\ record[h].srcEid = EvmEid /\ record[h].solverEvm \in Solvers
    BY <1>1 DEF BridgeInv, BridgeTypeOK, StellarMatches, RecordMatchesLock
<1> DEFINE m == S!FillConfirmed(h, record[h].solverEvm, record[h].fillAmount)
<1>3. m \in S!Messages /\ m.hash = h /\ m.type = "FillConfirmed"
    BY <1>2 DEF S!FillConfirmed, S!Messages, S!Records
<1>4. \A i \in Intents : i \in cancelled' <=> record'[i].status = "Cancelled"
    <2>1. record'[h].status # "Cancelled" /\ \A i \in Intents : i # h => record'[i] = record[i]
        BY <1>1, <1>2 DEF BridgeInv, BridgeTypeOK, S!Records
    <2>. QED  BY <1>1, <2>1 DEF TimingInv, CancelsMatch
<1>5. stellarOutbox' = [stellarOutbox EXCEPT ![EvmEid] = Append(@, m)]
    BY <1>1, <1>2
<1> HIDE DEF m
<1>6. CancelsMatch'
    BY <1>1, <1>3, <1>4, <1>5, CancelsKeepMatching DEF TimingInv
<1>. QED  BY <1>1, <1>3, <1>5, <1>6, SendKeepsTiming

LEMMA CancellationKeepsTiming ==
    ASSUME BridgeInv, TimingInv, UNCHANGED <<config, evmVars, stellarNow>>,
           StampNewMessage, CancellationHappens
    PROVE  TimingInv'
<1>1. PICK h \in Intents :
          /\ record[h].status = "Locked"
          /\ UNCHANGED confirmed
          /\ cancelled' = cancelled \cup {h}
          /\ record' = [record EXCEPT ![h].status = "Cancelled"]
          /\ stellarOutbox' = [stellarOutbox EXCEPT ![record[h].srcEid] =
                                  Append(@, S!CancelIntent(h))]
    BY DEF CancellationHappens
<1>2. record[h] \in S!Records /\ record[h].srcEid = EvmEid
    BY <1>1 DEF BridgeInv, BridgeTypeOK, StellarMatches, RecordMatchesLock
<1> DEFINE m == S!CancelIntent(h)
<1>3. m \in S!Messages /\ m.hash = h
    BY DEF S!CancelIntent, S!Messages, S!CancelIntents
<1>4. \A i \in Intents : i \in cancelled' <=> record'[i].status = "Cancelled"
    <2>1. record'[h].status = "Cancelled" /\ \A i \in Intents : i # h => record'[i] = record[i]
        BY <1>1, <1>2 DEF BridgeInv, BridgeTypeOK, S!Records
    <2>. QED  BY <1>1, <2>1 DEF TimingInv, CancelsMatch
<1>5. stellarOutbox' = [stellarOutbox EXCEPT ![EvmEid] = Append(@, m)]
    BY <1>1, <1>2
<1> HIDE DEF m
<1>6. CancelsMatch'
    BY <1>1, <1>3, <1>4, <1>5, CancelsKeepMatching DEF TimingInv
<1>. QED  BY <1>1, <1>3, <1>5, <1>6, SendKeepsTiming

LEMMA TimingStep ==
    ASSUME BridgeInv, TimingInv, [Next]_vars
    PROVE  TimingInv'
<1>1. ASSUME NEW h \in Intents, NEW s \in Solvers, Lock(h, s)
      PROVE  TimingInv'
    BY <1>1, LockKeepsTiming
<1>2. ASSUME NEW h \in Intents, CancelExpired(h)
      PROVE  TimingInv'
    BY <1>2, ExpiryKeepsTiming
<1>3. ASSUME NEW n \in DOMAIN evmOutbox, DeliverInstruction(n)
      PROVE  TimingInv'
    BY <1>3, InstructionKeepsTiming
<1>4. ASSUME NEW n \in DOMAIN stellarOutbox[EvmEid], DeliverVerdict(n)
      PROVE  TimingInv'
    BY <1>4, VerdictKeepsTiming
<1>5. CASE Settle
    <2>1. StampNewMessage
        BY <1>5 DEF Settle
    <2>. QED  BY <1>5, <2>1, SettleEffects, FillKeepsTiming, ConfirmationKeepsTiming,
                 CancellationKeepsTiming
<1>6. CASE EvmTick
    BY <1>6, EvmTickKeepsTiming
<1>7. CASE StellarTick
    BY <1>7, StellarTickKeepsTiming
<1>8. CASE UNCHANGED vars
    <2>1. UNCHANGED <<config, evmVars, sentAt, record, stellarNow, stellarOutbox, cancelled,
                      confirmed>>
        BY <1>8 DEF vars, stellarVars
    <2>2. CancelsMatch'
        BY <2>1 DEF TimingInv, CancelsMatch
    <2>. QED  BY <2>1, <2>2, SilenceKeepsTiming DEF BridgeInv, BridgeTypeOK
<1>. QED  BY <1>1, <1>2, <1>3, <1>4, <1>5, <1>6, <1>7, <1>8 DEF Next

LEMMA TimingHolds == Spec => [](BridgeInv /\ TimingInv)
<1>1. BridgeInv /\ TimingInv /\ [Next]_vars => (BridgeInv /\ TimingInv)'
    BY BridgeStep, TimingStep
<1>2. Init => BridgeInv /\ TimingInv
    BY BridgeInitInv, InitTiming
<1>. QED  BY <1>1, <1>2, PTL DEF Spec
-----------------------------------------------------------------------------
(* The refinement of IntentLifecycle.                                        *)

\* A confirmation reaches a live lock before the lock can expire.
LEMMA ConfirmedBeforeExpiry ==
    ASSUME BridgeInv, TimingInv, Timely, NEW h \in Intents, h \in confirmed, E!Live(h)
    PROVE  ~(evmNow >= Deadline[h] + config.grace)
<1>1. PICK n \in DOMAIN sentAt :
          /\ stellarOutbox[EvmEid][n].hash = h
          /\ sentAt[n] <= Deadline[h] + MinDispatchWindow + config.timing.skew
    BY DEF TimingInv, ConfirmationsAreSent
<1>2. evmNow <= sentAt[n] + config.timing.latency /\ sentAt[n] \in Nat
    BY <1>1 DEF TimingInv, MessagesArrive
<1>3. /\ evmNow \in Nat /\ config.grace = ConfirmationGrace /\ ConfirmationGrace \in Nat
      /\ config.timing.skew \in Nat /\ config.timing.latency \in Nat
      /\ Deadline[h] \in Nat /\ MinDispatchWindow \in Nat
    BY TimingTypes, BridgeAssumption DEF TimingInv
<1>. QED  BY <1>1, <1>2, <1>3 DEF Timely

\* What can still be confirmed on Stellar is live on the source chain.
LEMMA ConfirmableIsLive ==
    ASSUME BridgeInv, TimingInv, Timely, NEW h \in Intents,
           record[h].status \in {"Locked", "Filled"},
           stellarNow <= Deadline[h] + MinDispatchWindow
    PROVE  E!Live(h)
<1>1. RecordMatchesLock(h) /\ MarkersMatch(h) /\ PaymentMatchesLock(h)
    BY DEF BridgeInv, StellarMatches, PaymentsMatch
<1>2. E!Locked(h)
    BY <1>1, BridgeAssumption DEF RecordMatchesLock, E!Locked
<1>3. ~locks[h].released
    BY <1>1 DEF MarkersMatch, PaymentMatchesLock
<1>4. h \notin cancelled
    BY DEF TimingInv, CancelsMatch
<1>5. /\ evmNow \in Nat /\ config.grace = ConfirmationGrace /\ ConfirmationGrace \in Nat
      /\ config.timing.skew \in Nat /\ config.timing.latency \in Nat
      /\ Deadline[h] \in Nat /\ MinDispatchWindow \in Nat /\ stellarNow \in Nat
      /\ evmNow <= stellarNow + config.timing.skew
    BY TimingTypes, BridgeAssumption DEF TimingInv, ClocksAreClose, BridgeInv, BridgeTypeOK
<1>6. ~(evmNow >= Deadline[h] + config.grace)
    BY <1>5 DEF Timely
<1>7. ~locks[h].refunded
    BY <1>4, <1>6 DEF TimingInv, RefundsAreDue
<1>. QED  BY <1>2, <1>3, <1>7 DEF E!Live, E!Finalized

Stage(status) ==
    CASE status = "Unregistered" -> "Unknown"
      [] status = "Locked" -> "Registered"
      [] status = "Filled" -> "Delivered"
      [] status = "ConfirmationSent" -> "Confirmed"
      [] status = "Cancelled" -> "Abandoned"

\* The markers, which the code asks first, and the record give the same stage.
StagesMatch == \A h \in Intents : DestinationOf(h) = Stage(record[h].status)

LEMMA StagesHold == BridgeInv /\ TimingInv => StagesMatch
<1> SUFFICES ASSUME BridgeInv, TimingInv, NEW h \in Intents
             PROVE  DestinationOf(h) = Stage(record[h].status)
    BY DEF StagesMatch
<1>1. MarkersMatch(h) /\ (h \in cancelled <=> record[h].status = "Cancelled")
    BY DEF BridgeInv, StellarMatches, TimingInv, CancelsMatch
<1>2. S!Status(h) = record[h].status
    BY <1>1 DEF MarkersMatch, S!Status
<1>. QED  BY <1>2 DEF DestinationOf, Stage

LEMMA SourceStages ==
    ASSUME BridgeInv, NEW h \in Intents
    PROVE  /\ ~E!Locked(h) => SourceOf(h) = "Open"
           /\ E!Locked(h) => SourceOf(h) # "Open"
           /\ E!Live(h) => SourceOf(h) = "Locked"
<1>1. CASE ~E!Locked(h)
    <2>1. ~locks[h].released /\ ~locks[h].refunded
        BY <1>1 DEF BridgeInv, PaymentsMatch, PaymentMatchesLock, E!Locked, E!Finalized
    <2>. QED  BY <1>1, <2>1 DEF SourceOf, E!Live
<1>2. CASE E!Locked(h) /\ locks[h].released
    BY <1>2 DEF SourceOf, E!Live, E!Finalized
<1>3. CASE E!Locked(h) /\ ~locks[h].released /\ locks[h].refunded
    BY <1>3 DEF SourceOf, E!Live, E!Finalized
<1>4. CASE E!Locked(h) /\ ~locks[h].released /\ ~locks[h].refunded
    BY <1>4 DEF SourceOf, E!Live, E!Finalized
<1>. QED  BY <1>1, <1>2, <1>3, <1>4

\* A step that moves no intent maps to a stutter, and so does any that is not timely.
LEMMA NothingMoves ==
    ASSUME UNCHANGED config,
           \/ ~Timely
           \/ \A h \in Intents : SourceOf(h)' = SourceOf(h) /\ DestinationOf(h)' = DestinationOf(h)
    PROVE  UNCHANGED Lifecycle!vars
<1>1. Timely' <=> Timely
    BY DEF Timely
<1>. QED  BY <1>1 DEF Lifecycle!vars

LEMMA SourceMoves ==
    ASSUME UNCHANGED config, Timely, NEW h \in Intents, NEW stage, SourceOf(h)' = stage,
           \A i \in Intents : i # h => SourceOf(i)' = SourceOf(i),
           \A i \in Intents : DestinationOf(i)' = DestinationOf(i),
           \/ SourceOf(h) = "Open" /\ stage = "Locked"
           \/ SourceOf(h) = "Locked" /\ DestinationOf(h) = "Confirmed" /\ stage = "Released"
           \/ SourceOf(h) = "Locked" /\ DestinationOf(h) # "Confirmed" /\ stage = "Refunded"
    PROVE  Lifecycle!Next
<1>1. Timely'
    BY DEF Timely
<1>2. CASE SourceOf(h) = "Open" /\ stage = "Locked"
    <2>1. Lifecycle!Lock(h)
        BY <1>1, <1>2 DEF Lifecycle!Lock
    <2>. QED  BY <2>1 DEF Lifecycle!Next
<1>3. CASE SourceOf(h) = "Locked" /\ DestinationOf(h) = "Confirmed" /\ stage = "Released"
    <2>1. Lifecycle!Release(h)
        BY <1>1, <1>3 DEF Lifecycle!Release
    <2>. QED  BY <2>1 DEF Lifecycle!Next
<1>4. CASE SourceOf(h) = "Locked" /\ DestinationOf(h) # "Confirmed" /\ stage = "Refunded"
    <2>1. Lifecycle!Refund(h)
        BY <1>1, <1>4 DEF Lifecycle!Refund
    <2>. QED  BY <2>1 DEF Lifecycle!Next
<1>. QED  BY <1>2, <1>3, <1>4

LEMMA DestinationMoves ==
    ASSUME UNCHANGED config, Timely, NEW h \in Intents, NEW stage, DestinationOf(h)' = stage,
           \A i \in Intents : i # h => DestinationOf(i)' = DestinationOf(i),
           \A i \in Intents : SourceOf(i)' = SourceOf(i),
           \/ DestinationOf(h) = "Unknown" /\ SourceOf(h) # "Open" /\ stage = "Registered"
           \/ DestinationOf(h) = "Registered" /\ stage \in {"Delivered", "Abandoned"}
           \/ /\ DestinationOf(h) \in {"Registered", "Delivered"}
              /\ SourceOf(h) = "Locked" /\ stage = "Confirmed"
    PROVE  Lifecycle!Next
<1>1. Timely'
    BY DEF Timely
<1>2. CASE DestinationOf(h) = "Unknown" /\ SourceOf(h) # "Open" /\ stage = "Registered"
    <2>1. Lifecycle!Register(h)
        BY <1>1, <1>2 DEF Lifecycle!Register
    <2>. QED  BY <2>1 DEF Lifecycle!Next
<1>3. CASE DestinationOf(h) = "Registered" /\ stage = "Delivered"
    <2>1. Lifecycle!Deliver(h)
        BY <1>1, <1>3 DEF Lifecycle!Deliver
    <2>. QED  BY <2>1 DEF Lifecycle!Next
<1>4. CASE DestinationOf(h) = "Registered" /\ stage = "Abandoned"
    <2>1. Lifecycle!Abandon(h)
        BY <1>1, <1>4 DEF Lifecycle!Abandon
    <2>. QED  BY <2>1 DEF Lifecycle!Next
<1>5. CASE DestinationOf(h) = "Registered" /\ SourceOf(h) = "Locked" /\ stage = "Confirmed"
    <2>1. Lifecycle!Deliver(h)
        BY <1>1, <1>5 DEF Lifecycle!Deliver
    <2>. QED  BY <2>1 DEF Lifecycle!Next
<1>6. CASE DestinationOf(h) = "Delivered" /\ SourceOf(h) = "Locked" /\ stage = "Confirmed"
    <2>1. Lifecycle!Confirm(h)
        BY <1>1, <1>6 DEF Lifecycle!Confirm
    <2>. QED  BY <2>1 DEF Lifecycle!Next
<1>. QED  BY <1>2, <1>3, <1>4, <1>5, <1>6

\* A lock that ends moves the source, and it ends as the destination says.
LEMMA EndMoves ==
    ASSUME BridgeInv, TimingInv, StagesMatch, StagesMatch', Timely,
           UNCHANGED <<config, stellarVars>>, NEW h \in Intents, E!Live(h),
           \/ locks' = [locks EXCEPT ![h].released = TRUE] /\ h \in confirmed
           \/ locks' = [locks EXCEPT ![h].refunded = TRUE] /\ h \notin confirmed
    PROVE  Lifecycle!Next
<1>1. SourceOf(h) = "Locked" /\ E!Locked(h)
    BY SourceStages DEF E!Live
<1>2. /\ \A i \in Intents : i # h => locks'[i] = locks[i]
      /\ locks' = [locks EXCEPT ![h].released = TRUE] =>
             locks'[h].released /\ ~locks'[h].refunded
      /\ locks' = [locks EXCEPT ![h].refunded = TRUE] =>
             locks'[h].refunded /\ ~locks'[h].released
      /\ locks'[h].solver = locks[h].solver
    BY EndsShrinkLive
<1>3. \A i \in Intents : i # h => SourceOf(i)' = SourceOf(i)
    BY <1>2 DEF SourceOf, E!Locked
<1>4. \A i \in Intents : DestinationOf(i)' = DestinationOf(i)
    BY DEF StagesMatch, stellarVars
<1>5. DestinationOf(h) = "Confirmed" <=> h \in confirmed
    BY DEF StagesMatch, Stage, BridgeInv, StellarMatches, MarkersMatch, BridgeTypeOK,
           S!Records, S!Statuses
<1>6. CASE locks' = [locks EXCEPT ![h].released = TRUE] /\ h \in confirmed
    <2>1. SourceOf(h)' = "Released"
        BY <1>1, <1>2, <1>6 DEF SourceOf, E!Locked
    <2>. QED  BY <1>1, <1>3, <1>4, <1>5, <1>6, <2>1, SourceMoves
<1>7. CASE locks' = [locks EXCEPT ![h].refunded = TRUE] /\ h \notin confirmed
    <2>1. SourceOf(h)' = "Refunded"
        BY <1>1, <1>2, <1>7 DEF SourceOf, E!Locked
    <2>. QED  BY <1>1, <1>3, <1>4, <1>5, <1>7, <2>1, SourceMoves
<1>. QED  BY <1>6, <1>7

LEMMA LockMoves ==
    ASSUME BridgeInv, StagesMatch, StagesMatch', Timely,
           NEW h \in Intents, NEW s \in Solvers, Lock(h, s)
    PROVE  Lifecycle!Next
<1> DEFINE new == NewLock(s, SourceAmount[h])
<1>1. /\ locks[h].solver = NoSolver /\ locks' = [locks EXCEPT ![h] = new]
      /\ UNCHANGED <<config, stellarVars>>
    BY LockRecords
<1>2. new.solver = s /\ ~new.released /\ ~new.refunded
    BY NewLockFields
<1> HIDE DEF new
<1>3. locks'[h] = new /\ \A i \in Intents : i # h => locks'[i] = locks[i]
    BY <1>1 DEF BridgeInv, BridgeTypeOK
<1>4. SourceOf(h) = "Open"
    BY <1>1, SourceStages DEF E!Locked
<1>5. SourceOf(h)' = "Locked"
    <2>1. s # NoSolver
        BY BridgeAssumption
    <2>. QED  BY <1>2, <1>3, <2>1 DEF SourceOf, E!Locked
<1>6. \A i \in Intents : i # h => SourceOf(i)' = SourceOf(i)
    BY <1>3 DEF SourceOf, E!Locked
<1>7. \A i \in Intents : DestinationOf(i)' = DestinationOf(i)
    BY <1>1 DEF StagesMatch, stellarVars
<1>. QED  BY <1>1, <1>4, <1>5, <1>6, <1>7, SourceMoves

LEMMA ExpiryMoves ==
    ASSUME BridgeInv, TimingInv, StagesMatch, StagesMatch', Timely,
           NEW h \in Intents, CancelExpired(h)
    PROVE  Lifecycle!Next
<1>1. /\ E!Live(h) /\ locks' = [locks EXCEPT ![h].refunded = TRUE]
      /\ UNCHANGED <<config, stellarVars>>
    BY ExpiryRefunds
<1>2. evmNow >= Deadline[h] + config.grace
    BY DEF CancelExpired, E!CancelExpired
<1>3. h \notin confirmed
    BY <1>1, <1>2, ConfirmedBeforeExpiry
<1>. QED  BY <1>1, <1>3, EndMoves

LEMMA VerdictMoves ==
    ASSUME BridgeInv, TimingInv, StagesMatch, StagesMatch', Timely,
           NEW n \in DOMAIN stellarOutbox[EvmEid], DeliverVerdict(n)
    PROVE  [Lifecycle!Next]_(Lifecycle!vars)
<1> DEFINE m == stellarOutbox[EvmEid][n]
<1>1. UNCHANGED <<config, stellarVars>>
    BY VerdictApplies
<1>2. PICK h \in Intents :
          h = m.hash /\ h \in IF m.type = "FillConfirmed" THEN confirmed ELSE cancelled
    BY VerdictsAreOnLocks DEF TimingInv
<1>3. CASE /\ m.type = "FillConfirmed" /\ E!Live(h)
           /\ locks' = [locks EXCEPT ![h].released = TRUE]
    BY <1>1, <1>2, <1>3, EndMoves
<1>4. CASE /\ m.type = "CancelIntent" /\ E!Live(h)
           /\ locks' = [locks EXCEPT ![h].refunded = TRUE]
    <2>1. h \in cancelled
        BY <1>2, <1>4
    <2>2. h \notin confirmed
        BY <2>1 DEF BridgeInv, StellarMatches, MarkersMatch
    <2>. QED  BY <1>1, <1>4, <2>2, EndMoves
<1>5. CASE UNCHANGED locks
    <2>1. \A i \in Intents : SourceOf(i)' = SourceOf(i)
        BY <1>5 DEF SourceOf, E!Locked
    <2>2. \A i \in Intents : DestinationOf(i)' = DestinationOf(i)
        BY <1>1 DEF StagesMatch, stellarVars
    <2>. QED  BY <1>1, <2>1, <2>2, NothingMoves
<1>. QED  BY <1>2, <1>3, <1>4, <1>5, VerdictApplies

\* A step on Stellar moves the stage of the record it writes.
LEMMA RecordMoves ==
    ASSUME BridgeInv, StagesMatch, StagesMatch', Timely,
           UNCHANGED <<config, evmVars>>, NEW h \in Intents, NEW r,
           record' = [record EXCEPT ![h] = r],
           \/ /\ record[h].status = "Unregistered" /\ r.status = "Locked"
              /\ locks[h].solver # NoSolver
           \/ record[h].status = "Locked" /\ r.status \in {"Filled", "Cancelled"}
           \/ /\ record[h].status \in {"Locked", "Filled"} /\ r.status = "ConfirmationSent"
              /\ E!Live(h)
    PROVE  Lifecycle!Next
<1>1. record'[h] = r /\ \A i \in Intents : i # h => record'[i] = record[i]
    BY DEF BridgeInv, BridgeTypeOK
<1>2. \A i \in Intents : SourceOf(i)' = SourceOf(i)
    BY DEF SourceOf, E!Locked, evmVars
<1>3. \A i \in Intents : i # h => DestinationOf(i)' = DestinationOf(i)
    BY <1>1 DEF StagesMatch
<1>4. DestinationOf(h) = Stage(record[h].status) /\ DestinationOf(h)' = Stage(r.status)
    BY <1>1 DEF StagesMatch
<1>5. CASE /\ record[h].status = "Unregistered" /\ r.status = "Locked"
           /\ locks[h].solver # NoSolver
    <2>1. SourceOf(h) # "Open"
        BY <1>5, SourceStages DEF E!Locked
    <2>2. DestinationOf(h) = "Unknown" /\ DestinationOf(h)' = "Registered"
        BY <1>4, <1>5 DEF Stage
    <2>. QED  BY <1>2, <1>3, <2>1, <2>2, DestinationMoves
<1>6. CASE record[h].status = "Locked" /\ r.status \in {"Filled", "Cancelled"}
    <2>1. DestinationOf(h) = "Registered"
        BY <1>4, <1>6 DEF Stage
    <2>2. PICK stage \in {"Delivered", "Abandoned"} : DestinationOf(h)' = stage
        BY <1>4, <1>6 DEF Stage
    <2>. QED  BY <1>2, <1>3, <2>1, <2>2, DestinationMoves
<1>7. CASE /\ record[h].status \in {"Locked", "Filled"} /\ r.status = "ConfirmationSent"
           /\ E!Live(h)
    <2>1. SourceOf(h) = "Locked"
        BY <1>7, SourceStages
    <2>2. /\ DestinationOf(h) \in {"Registered", "Delivered"}
          /\ DestinationOf(h)' = "Confirmed"
        BY <1>4, <1>7 DEF Stage
    <2>. QED  BY <1>2, <1>3, <2>1, <2>2, DestinationMoves
<1>. QED  BY <1>5, <1>6, <1>7

LEMMA InstructionMoves ==
    ASSUME BridgeInv, StagesMatch, StagesMatch', Timely,
           NEW n \in DOMAIN evmOutbox, DeliverInstruction(n)
    PROVE  [Lifecycle!Next]_(Lifecycle!vars)
<1> DEFINE m == evmOutbox[n]
           Registered(i) == [S!Unregistered EXCEPT
                                !.status = "Locked", !.srcEid = EvmEid, !.solverEvm = m.solver,
                                !.reservationExpires = S!ReservationEnd(i, m.window)]
<1>1. PICK h \in Intents : h = m.hash /\ locks[h].solver # NoSolver
    <2>1. m \in E!FillInstructions /\ m.solver \in Solvers /\ locks[m.hash].solver = m.solver
        BY DEF BridgeInv, BridgeTypeOK, InstructionsAreLocks
    <2>. QED  BY <2>1, BridgeAssumption DEF E!FillInstructions
<1>2. UNCHANGED <<config, evmVars>>
    BY InstructionRegisters
<1>3. CASE UNCHANGED record
    <2>1. \A i \in Intents : SourceOf(i)' = SourceOf(i)
        BY <1>2 DEF SourceOf, E!Locked, evmVars
    <2>2. \A i \in Intents : DestinationOf(i)' = DestinationOf(i)
        BY <1>3 DEF StagesMatch
    <2>. QED  BY <1>2, <2>1, <2>2, NothingMoves
<1>4. CASE /\ record[h].status = "Unregistered"
           /\ record' = [record EXCEPT ![h] = Registered(h)]
    <2>1. PICK r : r = Registered(h)
        OBVIOUS
    <2>2. r.status = "Locked"
        BY <2>1 DEF S!Unregistered
    <2>. QED  BY <1>1, <1>2, <1>4, <2>1, <2>2, RecordMoves
<1>. QED  BY <1>1, <1>3, <1>4, InstructionRegisters

LEMMA SettleMoves ==
    ASSUME BridgeInv, TimingInv, StagesMatch, StagesMatch', Timely, Settle
    PROVE  Lifecycle!Next
<1>1. UNCHANGED <<config, evmVars>>
    BY SettleEffects
<1>2. CASE FillHappens
    <2>1. PICK a \in StellarAccounts, s \in Solvers, h \in Intents, amount \in FillAmounts,
               status \in {"Filled", "ConfirmationSent"} :
              /\ S!ValidFill(s, h, amount)
              /\ record' = [record EXCEPT ![h] = Stamped(h, a, s, amount, status)]
        BY <1>2 DEF FillHappens
    <2>2. PICK r : r = Stamped(h, a, s, amount, status)
        OBVIOUS
    <2>3. record[h] \in S!Records /\ stellarNow \in Nat
        BY DEF BridgeInv, BridgeTypeOK
    <2>4. r.status = status
        BY <2>2, <2>3 DEF Stamped, S!Records
    <2>5. record[h].status = "Locked" /\ stellarNow + MinDispatchWindow <= Deadline[h]
        BY <2>1 DEF S!ValidFill
    <2>6. E!Live(h)
        BY <2>3, <2>5, ConfirmableIsLive, BridgeAssumption
    <2>. QED  BY <1>1, <2>1, <2>2, <2>4, <2>5, <2>6, RecordMoves
<1>3. CASE ConfirmationHappens
    <2>1. PICK h \in Intents :
              /\ record[h].status = "Filled"
              /\ stellarNow <= Deadline[h] + MinDispatchWindow
              /\ record' = [record EXCEPT ![h].status = "ConfirmationSent"]
        BY <1>3 DEF ConfirmationHappens
    <2>2. PICK r : r = [record[h] EXCEPT !.status = "ConfirmationSent"]
        OBVIOUS
    <2>3. record[h] \in S!Records /\ record' = [record EXCEPT ![h] = r]
        BY <2>1, <2>2 DEF BridgeInv, BridgeTypeOK
    <2>4. r.status = "ConfirmationSent"
        BY <2>2, <2>3 DEF S!Records
    <2>5. E!Live(h)
        BY <2>1, ConfirmableIsLive
    <2>. QED  BY <1>1, <2>1, <2>3, <2>4, <2>5, RecordMoves
<1>4. CASE CancellationHappens
    <2>1. PICK h \in Intents :
              /\ record[h].status = "Locked"
              /\ record' = [record EXCEPT ![h].status = "Cancelled"]
        BY <1>4 DEF CancellationHappens
    <2>2. PICK r : r = [record[h] EXCEPT !.status = "Cancelled"]
        OBVIOUS
    <2>3. record[h] \in S!Records /\ record' = [record EXCEPT ![h] = r]
        BY <2>1, <2>2 DEF BridgeInv, BridgeTypeOK
    <2>4. r.status = "Cancelled"
        BY <2>2, <2>3 DEF S!Records
    <2>. QED  BY <1>1, <2>1, <2>3, <2>4, RecordMoves
<1>. QED  BY <1>2, <1>3, <1>4, SettleEffects

LEMMA LifecycleStep ==
    ASSUME BridgeInv, TimingInv, StagesMatch, StagesMatch', [Next]_vars
    PROVE  [Lifecycle!Next]_(Lifecycle!vars)
<1>1. UNCHANGED config
    BY SettleEffects
    DEF Next, vars, Lock, CancelExpired, DeliverInstruction, DeliverVerdict, EvmTick, StellarTick
<1>2. CASE ~Timely
    BY <1>1, <1>2, NothingMoves
<1>3. CASE Timely
    <2>1. ASSUME UNCHANGED <<locks, record>>
          PROVE  UNCHANGED Lifecycle!vars
        <3>1. \A i \in Intents : SourceOf(i)' = SourceOf(i)
            BY <2>1 DEF SourceOf, E!Locked
        <3>2. \A i \in Intents : DestinationOf(i)' = DestinationOf(i)
            BY <2>1 DEF StagesMatch
        <3>. QED  BY <1>1, <3>1, <3>2, NothingMoves
    <2>2. CASE EvmTick
        BY <2>1, <2>2 DEF EvmTick, stellarVars
    <2>3. CASE StellarTick
        BY <2>1, <2>3 DEF StellarTick, evmVars
    <2>4. CASE UNCHANGED vars
        BY <2>1, <2>4 DEF vars, evmVars, stellarVars
    <2>. QED  BY <1>3, <2>2, <2>3, <2>4, LockMoves, ExpiryMoves, VerdictMoves,
                 InstructionMoves, SettleMoves DEF Next
<1>. QED  BY <1>2, <1>3

LEMMA LifecycleInit == Init => Lifecycle!Init
<1> SUFFICES ASSUME Init
             PROVE  Lifecycle!Init
    OBVIOUS
<1>1. E!Init /\ S!Init
    BY DEF Init
<1>2. \A h \in Intents : locks[h].solver = NoSolver
    BY <1>1 DEF E!Init, E!NoLock
<1>3. BridgeInv /\ TimingInv /\ StagesMatch
    BY BridgeInitInv, InitTiming, StagesHold
<1>4. \A h \in Intents : SourceOf(h) = "Open"
    BY <1>2, <1>3, SourceStages DEF E!Locked
<1>5. \A h \in Intents : record[h].status = "Unregistered"
    BY <1>1 DEF S!Init, S!Unregistered
<1>6. \A h \in Intents : DestinationOf(h) = "Unknown"
    BY <1>3, <1>5 DEF StagesMatch, Stage
<1>. QED  BY <1>4, <1>6 DEF Lifecycle!Init

(* The two contracts over the endpoint implement IntentLifecycle, all but    *)
(* its fairness: when the grace exceeds the dispatch window by the skew and  *)
(* the latency together, an intent is paid only after its delivery was       *)
(* confirmed and refunded only when it was not, and what can be confirmed on *)
(* Stellar is still locked on the source chain.                              *)
THEOREM LifecycleIsImplemented ==
    Spec => Lifecycle!Init /\ [][Lifecycle!Next]_(Lifecycle!vars)
<1>1. BridgeInv /\ TimingInv /\ StagesMatch /\ StagesMatch' /\ [Next]_vars
          => [Lifecycle!Next]_(Lifecycle!vars)
    BY LifecycleStep
<1>. QED  BY <1>1, StagesHold, TimingHolds, LifecycleInit, PTL DEF Spec

LEMMA ConfirmedStayUnrefunded ==
    ASSUME BridgeInv, TimingInv, Timely, ConfirmedNeverRefunded, [Next]_vars
    PROVE  ConfirmedNeverRefunded'
<1>1. ASSUME NEW h \in Intents, h \notin confirmed, E!Live(h), UNCHANGED stellarVars,
             locks' = [locks EXCEPT ![h].refunded = TRUE]
      PROVE  ConfirmedNeverRefunded'
    <2>1. \A i \in Intents : i # h => locks'[i] = locks[i]
        BY <1>1, EndsShrinkLive
    <2>. QED  BY <1>1, <2>1 DEF ConfirmedNeverRefunded, stellarVars
<1>2. ASSUME NEW h \in Intents, NEW s \in Solvers, Lock(h, s)
      PROVE  ConfirmedNeverRefunded'
    <2>1. /\ locks' = [locks EXCEPT ![h] = NewLock(s, SourceAmount[h])]
          /\ UNCHANGED stellarVars
        BY <1>2, LockRecords
    <2>2. ~NewLock(s, SourceAmount[h]).refunded
        BY NewLockFields
    <2>3. \A i \in Intents : locks'[i].refunded => locks[i].refunded
        BY <2>1, <2>2 DEF BridgeInv, BridgeTypeOK
    <2>. QED  BY <2>1, <2>3 DEF ConfirmedNeverRefunded, stellarVars
<1>3. ASSUME NEW h \in Intents, CancelExpired(h)
      PROVE  ConfirmedNeverRefunded'
    <2>1. /\ E!Live(h) /\ locks' = [locks EXCEPT ![h].refunded = TRUE]
          /\ UNCHANGED stellarVars
        BY <1>3, ExpiryRefunds
    <2>2. h \notin confirmed
        BY <1>3, <2>1, ConfirmedBeforeExpiry DEF CancelExpired, E!CancelExpired
    <2>. QED  BY <1>1, <2>1, <2>2
<1>4. ASSUME NEW n \in DOMAIN stellarOutbox[EvmEid], DeliverVerdict(n)
      PROVE  ConfirmedNeverRefunded'
    <2> DEFINE m == stellarOutbox[EvmEid][n]
    <2>1. UNCHANGED stellarVars
        BY <1>4, VerdictApplies
    <2>2. PICK h \in Intents :
              h = m.hash /\ h \in IF m.type = "FillConfirmed" THEN confirmed ELSE cancelled
        BY VerdictsAreOnLocks DEF TimingInv
    <2>3. CASE E!Live(h) /\ locks' = [locks EXCEPT ![h].released = TRUE]
        <3>1. ~locks'[h].refunded /\ \A i \in Intents : i # h => locks'[i] = locks[i]
            BY <2>3, EndsShrinkLive
        <3>. QED  BY <2>1, <3>1 DEF ConfirmedNeverRefunded, stellarVars
    <2>4. CASE /\ m.type = "CancelIntent" /\ E!Live(h)
               /\ locks' = [locks EXCEPT ![h].refunded = TRUE]
        <3>1. h \notin confirmed
            BY <2>2, <2>4 DEF BridgeInv, StellarMatches, MarkersMatch
        <3>. QED  BY <1>1, <2>1, <2>4, <3>1
    <2>5. CASE UNCHANGED locks
        BY <2>1, <2>5 DEF ConfirmedNeverRefunded, stellarVars
    <2>. QED  BY <1>4, <2>2, <2>3, <2>4, <2>5, VerdictApplies
<1>5. CASE Settle
    <2>1. UNCHANGED locks
        BY <1>5, SettleEffects DEF evmVars
    <2>2. ASSUME NEW h \in Intents, h \in confirmed'
          PROVE  h \in confirmed \/ E!Live(h)
        <3>1. CASE FillHappens
            <4>1. PICK i \in Intents : /\ record[i].status = "Locked"
                                      /\ stellarNow + MinDispatchWindow <= Deadline[i]
                                      /\ confirmed' \subseteq confirmed \cup {i}
                BY <3>1 DEF FillHappens, S!ValidFill
            <4>2. stellarNow \in Nat
                BY DEF BridgeInv, BridgeTypeOK
            <4>3. stellarNow <= Deadline[i] + MinDispatchWindow
                BY <4>1, <4>2, BridgeAssumption
            <4>4. E!Live(i)
                BY <4>1, <4>3, ConfirmableIsLive
            <4>. QED  BY <2>2, <4>1, <4>4
        <3>2. CASE ConfirmationHappens
            BY <2>2, <3>2, ConfirmableIsLive DEF ConfirmationHappens
        <3>3. CASE CancellationHappens
            BY <2>2, <3>3 DEF CancellationHappens
        <3>. QED  BY <1>5, <3>1, <3>2, <3>3, SettleEffects
    <2>. QED  BY <2>1, <2>2 DEF ConfirmedNeverRefunded, E!Live, E!Finalized
<1>6. ASSUME NEW n \in DOMAIN evmOutbox, DeliverInstruction(n)
      PROVE  ConfirmedNeverRefunded'
    BY <1>6, InstructionRegisters DEF ConfirmedNeverRefunded, evmVars
<1>7. CASE EvmTick
    BY <1>7 DEF EvmTick, ConfirmedNeverRefunded, stellarVars
<1>8. CASE StellarTick
    BY <1>8 DEF StellarTick, ConfirmedNeverRefunded, evmVars
<1>9. CASE UNCHANGED vars
    BY <1>9 DEF vars, ConfirmedNeverRefunded, evmVars, stellarVars
<1>. QED  BY <1>2, <1>3, <1>4, <1>5, <1>6, <1>7, <1>8, <1>9 DEF Next

(* A solver that confirmed its fill is repaid or still can be: the escrow    *)
(* never refunds the user of a confirmed intent, when the grace exceeds the  *)
(* dispatch window by the skew and the latency together.  The smallest grace *)
(* the escrow accepts does not, and there a run finds the loss.              *)
THEOREM ConfirmedIsNotRefunded == Spec => [](Timely => ConfirmedNeverRefunded)
<1>1. Init => ConfirmedNeverRefunded
    BY DEF Init, S!Init, ConfirmedNeverRefunded
<1>2. BridgeInv /\ TimingInv /\ (Timely => ConfirmedNeverRefunded) /\ [Next]_vars
          => (Timely => ConfirmedNeverRefunded)'
    <2>1. [Next]_vars => UNCHANGED config
        BY SettleEffects
        DEF Next, vars, Lock, CancelExpired, DeliverInstruction, DeliverVerdict, EvmTick,
            StellarTick
    <2>. QED  BY <2>1, ConfirmedStayUnrefunded DEF Timely
<1>. QED  BY <1>1, <1>2, TimingHolds, PTL DEF Spec
=============================================================================
