-------------------------- MODULE SettlementProofs --------------------------
(* The settlement contract, for any intents, corridors, caps and rewards:    *)
(* the types are kept, the three markers agree with the records, what ended  *)
(* stays ended, and one verdict at most is sent on an intent and counted.    *)
EXTENDS SettlementWindow, AggregateProofs

(* The window a time falls into starts at or before that time.               *)
LEMMA WindowStartInRange ==
    ASSUME stellarNow \in Times, rollingWindowDuration \in Nat, rollingWindowDuration > 0
    PROVE  WindowStart \in 0 .. stellarNow /\ WindowStart \in 0 .. MaxTime
<1>1. stellarNow \in Nat /\ stellarNow <= MaxTime /\ MaxTime \in Nat
    BY ClockAssumption DEF Times
<1>2. WindowStart \in 0 .. stellarNow
    BY <1>1, WindowsAreMultiples DEF WindowStart
<1>. QED  BY <1>1, <1>2

(* The accumulation of an amount keeps the buckets: one for each of some     *)
(* windows, with a natural amount.                                           *)
LEMMA AccumulateKeepsTypes ==
    ASSUME stellarNow \in Times, CapsTypeOK, WindowCapActive,
           NEW amount \in Nat, Accumulate(amount)
    PROVE  /\ DOMAIN rollingWindowBucket' \subseteq 0 .. MaxTime
           /\ \A t \in DOMAIN rollingWindowBucket' : rollingWindowBucket'[t] \in Nat
           /\ IsOption(latestWindowStart', 0 .. MaxTime)
<1>1. WindowStart \in 0 .. MaxTime
    BY WindowStartInRange DEF WindowCapActive, CapsTypeOK
<1>2. /\ DOMAIN LiveBuckets \subseteq 0 .. MaxTime
      /\ \A t \in DOMAIN LiveBuckets : LiveBuckets[t] \in Nat
    BY DEF CapsTypeOK, LiveBuckets, Restrict
<1>3. Accumulated(amount) \in Nat
    BY <1>2 DEF Accumulated, BucketOf
<1>4. IsOption(latestWindowStart', 0 .. MaxTime)
    BY <1>1 DEF Accumulate, CapsTypeOK, IsOption
<1>. QED  BY <1>1, <1>2, <1>3, <1>4 DEF Accumulate

(* enforce_value_caps keeps the types, whether it admits or trips.           *)
LEMMA EnforceKeepsTypes ==
    ASSUME stellarNow \in Times, CapsTypeOK, NEW amount \in Nat,
           Admit(amount) \/ Breach(amount)
    PROVE  CapsTypeOK'
<1>1. UNCHANGED capConfigVars
    BY DEF Admit, Breach
<1>2. rollingWindowTriggered' \in BOOLEAN
    <2>1. CASE Admit(amount)
        BY <2>1 DEF Admit, CapsTypeOK
    <2>2. CASE Breach(amount)
        BY <2>2, Zenon DEF Breach
    <2>. QED  BY <2>1, <2>2
<1>3. IsOption(rollingWindowResetAt', Nat)
    <2>1. CASE Admit(amount)
        BY <2>1 DEF Admit, CapsTypeOK
    <2>2. CASE Breach(amount)
        BY <2>2, ClockAssumption DEF Breach, CapsTypeOK, IsOption, Times
    <2>. QED  BY <2>1, <2>2
<1>4. /\ DOMAIN rollingWindowBucket' \subseteq 0 .. MaxTime
      /\ \A t \in DOMAIN rollingWindowBucket' : rollingWindowBucket'[t] \in Nat
      /\ IsOption(latestWindowStart', 0 .. MaxTime)
    <2>1. CASE Accumulate(amount) /\ WindowCapActive
        BY <2>1, AccumulateKeepsTypes
    <2>2. CASE UNCHANGED <<rollingWindowBucket, latestWindowStart>>
        BY <2>2 DEF CapsTypeOK
    <2>. QED  BY <2>1, <2>2 DEF Admit, Breach
<1>. QED  BY <1>1, <1>2, <1>3, <1>4 DEF CapsTypeOK, capConfigVars

(* So do the admin's changes of the caps and the reset of the breaker.       *)
LEMMA CapsStepKeepsTypes ==
    ASSUME stellarNow \in Times, CapsTypeOK, CapsStep
    PROVE  CapsTypeOK'
<1>1. ASSUME NEW n \in AmountMaxima, SetMaxIntentAmount(n)
      PROVE  CapsTypeOK'
    BY <1>1, CapsAssumption DEF SetMaxIntentAmount, CapsTypeOK, windowVars
<1>2. ASSUME NEW d \in WindowDurations, NEW n \in WindowCaps, SetRollingWindowCap(d, n)
      PROVE  CapsTypeOK'
    BY <1>2, CapsAssumption DEF SetRollingWindowCap, CapsTypeOK, windowVars
<1>3. CASE ResetRollingWindowCap
    <2>1. rollingWindowTriggered' \in BOOLEAN
        BY <1>3, Zenon DEF ResetRollingWindowCap
    <2>2. IsOption(latestWindowStart', 0 .. MaxTime)
        BY <1>3, WindowStartInRange DEF ResetRollingWindowCap, CapsTypeOK, IsOption
    <2>3. /\ DOMAIN rollingWindowBucket' \subseteq 0 .. MaxTime
          /\ \A t \in DOMAIN rollingWindowBucket' : rollingWindowBucket'[t] \in Nat
        BY <1>3 DEF ResetRollingWindowCap, CapsTypeOK, Restrict
    <2>4. IsOption(rollingWindowResetAt', Nat)
        BY <1>3 DEF ResetRollingWindowCap, IsOption
    <2>. QED  BY <1>3, <2>1, <2>2, <2>3, <2>4
              DEF ResetRollingWindowCap, CapsTypeOK, capConfigVars
<1>. QED  BY <1>1, <1>2, <1>3 DEF CapsStep
-----------------------------------------------------------------------------
(* An intent that was registered names the escrow's solver, so a message     *)
(* that confirms its fill can be sent.                                       *)
RegisteredHasSolver ==
    \A h \in Intents : record[h].status # "Unregistered" => record[h].solverEvm \in EvmSolvers

TypeInv == TypeOK /\ RegisteredHasSolver

(* The parts of the type invariant that the intents, the messages and the    *)
(* rewards have; the rest is the configuration.                              *)
IntentTypes ==
    /\ record \in [Intents -> Records]
    /\ settled \subseteq Intents
    /\ cancelled \subseteq Intents
    /\ confirmed \subseteq Intents
    /\ deliveries \in [Intents -> Seq([solver : Accounts, amount : Nat])]
    /\ RegisteredHasSolver

MessageTypes ==
    /\ consumed \in [Eids -> SUBSET Nat]
    /\ outbox \in [Eids -> Seq(Messages)]

ConfigTypes ==
    /\ paused \in BOOLEAN
    /\ pausedEids \subseteq Eids
    /\ allowedDestTokens \subseteq ContractTokens
    /\ keeperReward \in Nat
    /\ dispatchReward \in Nat

PaymentTypes ==
    /\ reserve \in Nat
    /\ reputation \in [Accounts -> Nat]

TypeParts ==
    /\ stellarNow \in Times
    /\ CapsTypeOK
    /\ IntentTypes
    /\ MessageTypes
    /\ ConfigTypes
    /\ PaymentTypes

LEMMA TypeInvParts == (TypeInv <=> TypeParts) /\ (TypeInv' <=> TypeParts')
<1>1. TypeInv <=> TypeParts
    BY DEF TypeInv, TypeOK, TypeParts, IntentTypes, MessageTypes, ConfigTypes, PaymentTypes
<1>2. TypeInv' <=> TypeParts'
    BY DEF TypeInv, TypeOK, TypeParts, IntentTypes, MessageTypes, ConfigTypes, PaymentTypes
<1>. QED  BY <1>1, <1>2

LEMMA InitTypes == Init => TypeInv
<1> SUFFICES ASSUME Init
             PROVE  TypeInv
    OBVIOUS
<1> USE ClockAssumption, CapsAssumption, SettlementAssumption DEF Init
<1>1. stellarNow \in Times
    BY DEF ClockInit, Times
<1>2. CapsTypeOK
    <2>1. rollingWindowTriggered \in BOOLEAN
        BY Zenon DEF CapsInit
    <2>. QED  BY <2>1 DEF CapsInit, CapsTypeOK, IsOption
<1>3. IntentTypes
    BY DEF IntentTypes, RegisteredHasSolver, Unregistered, Records, Statuses
<1>4. MessageTypes
    BY DEF MessageTypes
<1>5. ConfigTypes
    <2>1. paused \in BOOLEAN
        BY Zenon
    <2>. QED  BY <2>1 DEF ConfigTypes
<1>6. PaymentTypes
    BY DEF PaymentTypes
<1>. QED  BY <1>1, <1>2, <1>3, <1>4, <1>5, <1>6, TypeInvParts DEF TypeParts
-----------------------------------------------------------------------------
LEMMA AcceptNonceKeepsTypes ==
    ASSUME MessageTypes, NEW eid \in Eids, NEW nonce \in Nat, AcceptNonce(eid, nonce),
           UNCHANGED outbox
    PROVE  MessageTypes'
BY DEF MessageTypes, AcceptNonce

LEMMA SendKeepsTypes ==
    ASSUME MessageTypes, NEW eid, NEW m \in Messages, Send(eid, m), UNCHANGED consumed
    PROVE  MessageTypes'
<1>1. /\ DOMAIN outbox' = Eids
      /\ outbox' = [e \in Eids |-> outbox'[e]]
    BY DEF MessageTypes, Send
<1>2. ASSUME NEW e \in Eids
      PROVE  outbox'[e] \in Seq(Messages)
    <2>1. outbox[e] \in Seq(Messages)
        BY DEF MessageTypes
    <2>2. Append(outbox[e], m) \in Seq(Messages)
        BY <2>1
    <2>3. outbox'[e] \in {outbox[e], Append(outbox[e], m)}
        BY DEF MessageTypes, Send
    <2>. QED  BY <2>1, <2>2, <2>3
<1>. QED  BY <1>1, <1>2 DEF MessageTypes

LEMMA CreditKeepsTypes ==
    ASSUME PaymentTypes, NEW solver, Credit(solver), reserve' \in Nat
    PROVE  PaymentTypes'
<1>1. reputation' = [a \in Accounts |-> IF a = solver THEN reputation[a] + 1
                                                     ELSE reputation[a]]
    BY DEF PaymentTypes, Credit
<1>. QED  BY <1>1 DEF PaymentTypes

LEMMA RegisterKeepsTypes ==
    ASSUME stellarNow \in Times, CapsTypeOK, IntentTypes,
           NEW eid \in Eids, NEW m \in FillInstructions, Register(eid, m)
    PROVE  CapsTypeOK' /\ IntentTypes'
<1> USE ClockAssumption, SettlementAssumption DEF FillInstructions, Times
<1> DEFINE h == m.hash
<1>1. h \in Intents /\ m.solver \in EvmSolvers /\ m.window \in Nat
    OBVIOUS
<1>2. MinDestAmount[h] \in Nat
    BY <1>1 DEF Register
<1>3. CapsTypeOK'
    BY <1>2, EnforceKeepsTypes DEF Register
<1>4. ReservationEnd(h, m.window) \in Nat
    BY <1>1 DEF ReservationEnd, Earlier
<1>5. CASE UNCHANGED record
    BY <1>3, <1>5 DEF Register, IntentTypes, RegisteredHasSolver
<1>6. CASE record' = [record EXCEPT ![h] =
                [Unregistered EXCEPT !.status = "Locked", !.srcEid = eid,
                                     !.solverEvm = m.solver,
                                     !.reservationExpires = ReservationEnd(h, m.window)]]
    <2>1. record' \in [Intents -> Records]
        BY <1>1, <1>4, <1>6 DEF IntentTypes, Unregistered, Records, Statuses
    <2>2. RegisteredHasSolver'
        BY <1>1, <1>6 DEF IntentTypes, RegisteredHasSolver, Unregistered
    <2>. QED  BY <1>3, <2>1, <2>2 DEF Register, IntentTypes
<1>. QED  BY <1>5, <1>6 DEF Register

LEMMA ApplyCancelKeepsTypes ==
    ASSUME IntentTypes, NEW h \in Intents, ApplyCancel(h)
    PROVE  IntentTypes'
<1>1. CASE UNCHANGED intentVars
    BY <1>1 DEF intentVars, IntentTypes, RegisteredHasSolver
<1>2. CASE ~UNCHANGED intentVars
    <2>1. /\ cancelled' = cancelled \cup {h}
          /\ UNCHANGED <<settled, confirmed, deliveries>>
          /\ record' \in {record, [record EXCEPT ![h].status = "Cancelled"]}
          /\ record' # record => record[h].status = "Locked"
        BY <1>2 DEF ApplyCancel
    <2>2. record' \in [Intents -> Records]
        <3>1. [record[h] EXCEPT !.status = "Cancelled"] \in Records
            BY DEF IntentTypes, Records, Statuses
        <3>2. [record EXCEPT ![h].status = "Cancelled"] \in [Intents -> Records]
            BY <3>1 DEF IntentTypes
        <3>. QED  BY <2>1, <3>2 DEF IntentTypes
    <2>3. RegisteredHasSolver'
        BY <2>1 DEF IntentTypes, RegisteredHasSolver, Records
    <2>. QED  BY <2>1, <2>2, <2>3 DEF IntentTypes
<1>. QED  BY <1>1, <1>2

LEMMA ReceiveKeepsTypes ==
    ASSUME TypeInv, NEW i \in Inbound,
           \/ ReceiveFillInstruction(i.eid, i.nonce, i.message)
           \/ ReceiveCancel(i.eid, i.nonce, i.message)
    PROVE  TypeInv'
<1> USE TypeInvParts, InboundAssumption DEF TypeParts
<1> DEFINE m == i.message
<1>1. i.nonce \in Nat /\ m \in FillInstructions \cup CancelIntents
    OBVIOUS
<1>2. CASE ReceiveFillInstruction(i.eid, i.nonce, m)
    <2>1. i.eid \in Eids /\ AcceptNonce(i.eid, i.nonce) /\ UNCHANGED outbox
        BY <1>2 DEF ReceiveFillInstruction
    <2>2. m \in FillInstructions
        BY <1>1, <1>2 DEF ReceiveFillInstruction, CancelIntents
    <2>3. MessageTypes'
        BY <1>1, <2>1, AcceptNonceKeepsTypes
    <2>4. CapsTypeOK' /\ IntentTypes'
        <3>1. CASE Register(i.eid, m)
            BY <2>1, <2>2, <3>1, RegisterKeepsTypes
        <3>2. CASE UNCHANGED <<capVars, intentVars>>
            BY <3>2 DEF capVars, capConfigVars, windowVars, CapsTypeOK, intentVars,
                        IntentTypes, RegisteredHasSolver
        <3>. QED  BY <1>2, <3>1, <3>2 DEF ReceiveFillInstruction
    <2>. QED  BY <1>2, <2>3, <2>4
              DEF ReceiveFillInstruction, pauseVars, rewardVars, ConfigTypes, PaymentTypes
<1>3. CASE ReceiveCancel(i.eid, i.nonce, m)
    <2>1. i.eid \in Eids /\ AcceptNonce(i.eid, i.nonce) /\ UNCHANGED outbox
        BY <1>3 DEF ReceiveCancel
    <2>2. m.hash \in Intents
        BY <1>1 DEF FillInstructions, CancelIntents
    <2>3. MessageTypes'
        BY <1>1, <2>1, AcceptNonceKeepsTypes
    <2>4. IntentTypes'
        BY <1>3, <2>2, ApplyCancelKeepsTypes DEF ReceiveCancel
    <2>5. CapsTypeOK'
        BY <1>3 DEF ReceiveCancel, capVars, capConfigVars, windowVars, CapsTypeOK
    <2>. QED  BY <1>3, <2>3, <2>4, <2>5
              DEF ReceiveCancel, pauseVars, rewardVars, ConfigTypes, PaymentTypes
<1>. QED  BY <1>2, <1>3
-----------------------------------------------------------------------------
LEMMA FilledByKeepsTypes ==
    ASSUME stellarNow \in Times, IntentTypes, NEW h \in Intents, NEW a \in Accounts,
           NEW s \in EvmSolvers, NEW n \in FillAmounts, ValidFill(s, h, n),
           NEW status \in {"Filled", "ConfirmationSent"},
           record' = FilledBy(h, a, s, n, status),
           settled' = settled \cup {h}, Deliver(h, a, n),
           confirmed' \subseteq Intents, UNCHANGED cancelled
    PROVE  IntentTypes'
<1> USE ClockAssumption, SettlementAssumption DEF Times
<1>1. n \in Nat
    BY DEF ValidFill
<1>2. record' \in [Intents -> Records]
    <2>1. [record[h] EXCEPT !.status = status, !.solver = a, !.solverEvm = s,
                            !.fillAmount = n, !.fillLedger = stellarNow] \in Records
        <3>1. record[h] \in Records
            BY DEF IntentTypes
        <3>2. stellarNow \in Nat
            OBVIOUS
        <3>. QED  BY <1>1, <3>1, <3>2 DEF Records, Statuses
    <2>. QED  BY <2>1 DEF IntentTypes, FilledBy
<1>3. RegisteredHasSolver'
    BY DEF IntentTypes, RegisteredHasSolver, FilledBy, Records
<1>4. deliveries' \in [Intents -> Seq([solver : Accounts, amount : Nat])]
    <2>1. [solver |-> a, amount |-> n] \in [solver : Accounts, amount : Nat]
        BY <1>1
    <2>2. Append(deliveries[h], [solver |-> a, amount |-> n])
             \in Seq([solver : Accounts, amount : Nat])
        <3>1. deliveries[h] \in Seq([solver : Accounts, amount : Nat])
            BY DEF IntentTypes
        <3>. QED  BY <2>1, <3>1
    <2>. QED  BY <2>2 DEF IntentTypes, Deliver
<1>. QED  BY <1>2, <1>3, <1>4 DEF IntentTypes

LEMMA SolverStepKeepsTypes ==
    ASSUME TypeInv, NEW a \in Accounts, NEW s \in EvmSolvers, NEW h \in Intents,
           NEW n \in FillAmounts,
           DeliverIntent(a, s, h, n) \/ FillIntent(a, s, h, n)
    PROVE  TypeInv'
<1> USE TypeInvParts DEF TypeParts
<1>1. stellarNow \in Times /\ UNCHANGED stellarNow
    BY DEF DeliverIntent, FillIntent
<1>2. CapsTypeOK' /\ ConfigTypes'
    BY DEF DeliverIntent, FillIntent, capVars, capConfigVars, windowVars, CapsTypeOK,
           pauseVars, rewardVars, ConfigTypes
<1>3. CASE DeliverIntent(a, s, h, n)
    <2>1. IntentTypes'
        <3>1. confirmed' \subseteq Intents
            BY <1>3 DEF DeliverIntent, IntentTypes
        <3>. QED  BY <1>1, <1>3, <3>1, FilledByKeepsTypes DEF DeliverIntent
    <2>2. MessageTypes' /\ PaymentTypes'
        BY <1>3 DEF DeliverIntent, MessageTypes, PaymentTypes
    <2>. QED  BY <1>1, <1>2, <2>1, <2>2
<1>4. CASE FillIntent(a, s, h, n)
    <2>1. IntentTypes'
        <3>1. confirmed' \subseteq Intents
            BY <1>4 DEF FillIntent, IntentTypes
        <3>. QED  BY <1>1, <1>4, <3>1, FilledByKeepsTypes DEF FillIntent
    <2>2. FillConfirmed(h, s, n) \in Messages
        BY <1>4, SettlementAssumption DEF FillIntent, ValidFill, FillConfirmed, Messages
    <2>3. MessageTypes'
        BY <1>4, <2>2, SendKeepsTypes DEF FillIntent
    <2>4. PaymentTypes'
        BY <1>4, CreditKeepsTypes DEF FillIntent, PaymentTypes
    <2>. QED  BY <1>1, <1>2, <2>1, <2>3, <2>4
<1>. QED  BY <1>3, <1>4

LEMMA KeeperStepKeepsTypes ==
    ASSUME TypeInv, NEW a \in Accounts, NEW h \in Intents,
           DispatchConfirmation(a, h) \/ CancelExpiredIntent(a, h)
    PROVE  TypeInv'
<1> USE TypeInvParts DEF TypeParts
<1>1. stellarNow \in Times /\ UNCHANGED stellarNow
    BY DEF DispatchConfirmation, CancelExpiredIntent
<1>2. CapsTypeOK' /\ ConfigTypes'
    BY DEF DispatchConfirmation, CancelExpiredIntent, capVars, capConfigVars, windowVars,
           CapsTypeOK, pauseVars, rewardVars, ConfigTypes
<1>3. ASSUME NEW status \in Statuses, record[h].status # "Unregistered",
             record' = [record EXCEPT ![h].status = status]
      PROVE  record' \in [Intents -> Records] /\ RegisteredHasSolver'
    <2>1. [record[h] EXCEPT !.status = status] \in Records
        BY DEF IntentTypes, Records
    <2>2. record' \in [Intents -> Records]
        BY <1>3, <2>1 DEF IntentTypes
    <2>. QED  BY <1>3, <2>2 DEF IntentTypes, RegisteredHasSolver, Records
<1>4. CASE DispatchConfirmation(a, h)
    <2>1. IntentTypes'
        BY <1>3, <1>4 DEF DispatchConfirmation, IntentTypes, Statuses
    <2>2. FillConfirmed(h, record[h].solverEvm, record[h].fillAmount) \in Messages
        BY <1>4 DEF DispatchConfirmation, FillConfirmed, Messages, IntentTypes,
                    RegisteredHasSolver, Records
    <2>3. MessageTypes'
        BY <1>4, <2>2, SendKeepsTypes DEF DispatchConfirmation
    <2>4. DispatchDue(a, h) \in Nat
        BY DEF DispatchDue, ConfigTypes
    <2>5. reserve' \in Nat
        BY <1>4, <2>4 DEF DispatchConfirmation, PayFromReserve, PaymentTypes
    <2>6. PaymentTypes'
        BY <1>4, <2>5, CreditKeepsTypes DEF DispatchConfirmation
    <2>. QED  BY <1>1, <1>2, <2>1, <2>3, <2>6
<1>5. CASE CancelExpiredIntent(a, h)
    <2>1. IntentTypes'
        BY <1>3, <1>5 DEF CancelExpiredIntent, IntentTypes, Statuses
    <2>2. CancelIntent(h) \in Messages
        BY DEF CancelIntent, CancelIntents, Messages
    <2>3. MessageTypes'
        BY <1>5, <2>2, SendKeepsTypes DEF CancelExpiredIntent
    <2>4. PaymentTypes'
        BY <1>5 DEF CancelExpiredIntent, PayFromReserve, PaymentTypes, ConfigTypes
    <2>. QED  BY <1>1, <1>2, <2>1, <2>3, <2>4
<1>. QED  BY <1>4, <1>5

LEMMA AdminStepKeepsTypes ==
    ASSUME TypeInv, AdminStep
    PROVE  TypeInv'
<1> USE TypeInvParts DEF TypeParts
<1> USE SettlementAssumption
<1>1. ASSUME UNCHANGED otherThanConfig, ConfigTypes', reserve' \in Nat
      PROVE  TypeInv'
    <2>1. CapsTypeOK' /\ IntentTypes'
        BY <1>1 DEF otherThanConfig, capVars, capConfigVars, windowVars, CapsTypeOK,
                    intentVars, IntentTypes, RegisteredHasSolver
    <2>. QED  BY <1>1, <2>1 DEF otherThanConfig, MessageTypes, PaymentTypes
<1>2. ASSUME NEW flag \in PauseFlags, SetPaused(flag)
      PROVE  TypeInv'
    BY <1>1, <1>2 DEF SetPaused, rewardVars, ConfigTypes, PaymentTypes
<1>3. ASSUME NEW e \in Eids, NEW flag \in PauseFlags, SetPausedEid(e, flag)
      PROVE  TypeInv'
    BY <1>1, <1>3 DEF SetPausedEid, rewardVars, ConfigTypes, PaymentTypes
<1>4. ASSUME NEW t \in ContractTokens, NEW flag \in BOOLEAN, SetDestTokenAllowed(t, flag)
      PROVE  TypeInv'
    BY <1>1, <1>4 DEF SetDestTokenAllowed, pauseVars, rewardVars, ConfigTypes, PaymentTypes
<1>5. ASSUME NEW r \in Rewards, SetKeeperReward(r) \/ SetDispatchKeeperReward(r)
      PROVE  TypeInv'
    BY <1>1, <1>5 DEF SetKeeperReward, SetDispatchKeeperReward, pauseVars, ConfigTypes,
                      PaymentTypes
<1>6. CASE CapsStep /\ UNCHANGED <<stellarNow, intentVars, consumed, outbox, pauseVars,
                                   allowedDestTokens, rewardVars, reserve, reputation>>
    <2>1. CapsTypeOK'
        BY <1>6, CapsStepKeepsTypes
    <2>2. IntentTypes' /\ MessageTypes'
        BY <1>6 DEF intentVars, IntentTypes, RegisteredHasSolver, MessageTypes
    <2>. QED  BY <1>6, <2>1, <2>2 DEF pauseVars, rewardVars, ConfigTypes, PaymentTypes
<1>. QED  BY <1>2, <1>3, <1>4, <1>5, <1>6 DEF AdminStep

LEMMA RestKeepsTypes ==
    ASSUME TypeInv, FundReserve \/ Tick \/ UNCHANGED vars
    PROVE  TypeInv'
<1> USE TypeInvParts DEF TypeParts
<1>1. CapsTypeOK' /\ IntentTypes' /\ MessageTypes' /\ ConfigTypes'
    BY DEF FundReserve, Tick, otherThanConfig, vars, settlementVars, capVars,
           capConfigVars, windowVars, intentVars, pauseVars, rewardVars, CapsTypeOK,
           IntentTypes, RegisteredHasSolver, MessageTypes, ConfigTypes
<1>2. PaymentTypes'
    BY DEF FundReserve, Tick, otherThanConfig, vars, settlementVars, PaymentTypes
<1>3. stellarNow' \in Times
    BY ClockAssumption DEF FundReserve, Tick, otherThanConfig, vars, StellarTick, Times
<1>. QED  BY <1>1, <1>2, <1>3

LEMMA NextKeepsTypes == TypeInv /\ [Next]_vars => TypeInv'
<1> SUFFICES ASSUME TypeInv, [Next]_vars
             PROVE  TypeInv'
    OBVIOUS
<1>1. CASE Receive
    BY <1>1, ReceiveKeepsTypes DEF Receive
<1>2. CASE SolverStep
    BY <1>2, SolverStepKeepsTypes DEF SolverStep
<1>3. CASE KeeperStep
    BY <1>3, KeeperStepKeepsTypes DEF KeeperStep
<1>4. CASE AdminStep
    BY <1>4, AdminStepKeepsTypes
<1>5. CASE FundReserve \/ Tick \/ UNCHANGED vars
    BY <1>5, RestKeepsTypes
<1>. QED  BY <1>1, <1>2, <1>3, <1>4, <1>5 DEF Next

LEMMA TypeInvHolds == Spec => []TypeInv
<1>1. Init => TypeInv
    BY InitTypes
<1>2. TypeInv /\ [Next]_vars => TypeInv'
    BY NextKeepsTypes
<1>. QED  BY <1>1, <1>2, PTL DEF Spec

(* Every state keeps the declared types.  The reserve is never negative,     *)
(* since the token refuses a reward it does not cover, and every message     *)
(* that is sent is well formed: a confirmation names a solver of the source  *)
(* chain, because only registered intents are filled.                        *)
THEOREM TypesHold == Spec => []TypeOK
<1>1. TypeInv => TypeOK
    BY DEF TypeInv
<1>. QED  BY <1>1, TypeInvHolds, PTL
-----------------------------------------------------------------------------

(* What the markers of one intent say of its record.                         *)
MarkersAgree(h) ==
    /\ ~(h \in settled /\ h \in cancelled)
    /\ h \in settled <=> record[h].status \in {"Filled", "ConfirmationSent"}
    /\ h \in confirmed <=> record[h].status = "ConfirmationSent"
    /\ h \in cancelled => record[h].status \in {"Cancelled", "Unregistered"}
    /\ record[h].status = "Cancelled" => h \in cancelled

MarkersInv == \A h \in Intents : MarkersAgree(h)

LEMMA MarkersInvSuffices == TypeInv /\ MarkersInv => MarkersMatchRecord
<1> SUFFICES ASSUME TypeInv, MarkersInv
             PROVE  MarkersMatchRecord
    OBVIOUS
<1>1. settled \cap cancelled = {}
    BY DEF TypeInv, TypeOK, MarkersInv, MarkersAgree
<1>2. ASSUME NEW h \in Intents
      PROVE  Status(h) = IF h \in cancelled THEN "Cancelled" ELSE record[h].status
    <2>1. MarkersAgree(h)
        BY DEF MarkersInv
    <2>2. CASE h \in confirmed
        BY <2>1, <2>2 DEF MarkersAgree, Status
    <2>3. CASE h \in settled \ confirmed
        BY <2>1, <2>3, TypeInv DEF MarkersAgree, Status
    <2>4. CASE h \in cancelled \ settled /\ h \notin confirmed
        BY <2>1, <2>4 DEF MarkersAgree, Status
    <2>5. CASE h \notin confirmed /\ h \notin settled /\ h \notin cancelled
        BY <2>5 DEF Status
    <2>. QED  BY <2>2, <2>3, <2>4, <2>5
<1>. QED  BY <1>1, <1>2 DEF MarkersMatchRecord, MarkersInv, MarkersAgree

(* Only one intent is touched by a step, and the others keep their story.    *)
OnlyTouches(h) ==
    \A g \in Intents \ {h} :
        /\ record'[g] = record[g]
        /\ deliveries'[g] = deliveries[g]
        /\ g \in settled' <=> g \in settled
        /\ g \in cancelled' <=> g \in cancelled
        /\ g \in confirmed' <=> g \in confirmed

LEMMA TouchedMarkersSuffice ==
    ASSUME MarkersInv, NEW h \in Intents, OnlyTouches(h), MarkersAgree(h)'
    PROVE  MarkersInv'
BY DEF MarkersInv, MarkersAgree, OnlyTouches

(* How each step that touches an intent changes its story.                   *)
Registers(h) ==
    /\ ~IsFinalized(h) /\ record[h].status = "Unregistered"
    /\ record'[h].status = "Locked"
    /\ UNCHANGED <<settled, cancelled, confirmed, deliveries>>

IsCancelled(h) ==
    /\ ~IsFinalized(h) /\ record[h].status \in {"Unregistered", "Locked"}
    /\ cancelled' = cancelled \cup {h}
    /\ record'[h].status = IF record[h].status = "Locked" THEN "Cancelled"
                                                          ELSE "Unregistered"
    /\ UNCHANGED <<settled, confirmed, deliveries>>

IsFilled(h) ==
    /\ ~IsFinalized(h) /\ record[h].status = "Locked"
    /\ record[h].srcEid = record'[h].srcEid
    /\ settled' = settled \cup {h}
    /\ \/ record'[h].status = "Filled" /\ confirmed' = confirmed
       \/ record'[h].status = "ConfirmationSent" /\ confirmed' = confirmed \cup {h}
    /\ record'[h].fillAmount >= MinDestAmount[h]
    /\ record'[h].fillLedger + MinDispatchWindow <= Deadline[h]
    /\ deliveries' = [deliveries EXCEPT ![h] =
          Append(@, [solver |-> record'[h].solver, amount |-> record'[h].fillAmount])]
    /\ UNCHANGED cancelled

IsConfirmed(h) ==
    /\ record[h].status = "Filled"
    /\ record' = [record EXCEPT ![h].status = "ConfirmationSent"]
    /\ confirmed' = confirmed \cup {h}
    /\ UNCHANGED <<settled, cancelled, deliveries>>

Story(h) ==
    OnlyTouches(h) /\ (Registers(h) \/ IsCancelled(h) \/ IsFilled(h) \/ IsConfirmed(h))

(* Every step leaves the intents alone or continues the story of one.        *)
LEMMA StepsTellStories ==
    ASSUME TypeInv, [Next]_vars
    PROVE  UNCHANGED intentVars \/ \E h \in Intents : Story(h)
<1> record \in [Intents -> Records] /\ deliveries \in [Intents -> Seq([solver : Accounts, amount : Nat])]
    BY DEF TypeInv, TypeOK
<1>1. ASSUME NEW i \in Inbound,
             ReceiveFillInstruction(i.eid, i.nonce, i.message)
      PROVE  UNCHANGED intentVars \/ \E h \in Intents : Story(h)
    <2> DEFINE m == i.message
               h == m.hash
    <2>1. h \in Intents
        BY InboundAssumption DEF FillInstructions, CancelIntents
    <2>2. CASE ~IsKnown(h) /\ record' # record
        <3>1. Register(i.eid, m) /\ record[h].status = "Unregistered" /\ ~IsFinalized(h)
            BY <1>1, <2>2 DEF ReceiveFillInstruction, IsKnown
        <3>2. record' = [record EXCEPT ![h] =
                [Unregistered EXCEPT !.status = "Locked", !.srcEid = i.eid,
                                     !.solverEvm = m.solver,
                                     !.reservationExpires = ReservationEnd(h, m.window)]]
            BY <2>2, <3>1 DEF Register
        <3>3. Registers(h)
            BY <2>1, <3>1, <3>2 DEF Registers, Register, Unregistered
        <3>4. OnlyTouches(h)
            BY <2>1, <3>1, <3>2 DEF OnlyTouches, Register
        <3>. QED  BY <2>1, <3>3, <3>4 DEF Story
    <2>3. CASE IsKnown(h) \/ record' = record
        BY <1>1, <2>3 DEF ReceiveFillInstruction, Register, intentVars
    <2>. QED  BY <2>2, <2>3
<1>2. ASSUME NEW i \in Inbound, ReceiveCancel(i.eid, i.nonce, i.message)
      PROVE  UNCHANGED intentVars \/ \E h \in Intents : Story(h)
    <2> DEFINE h == i.message.hash
    <2>1. h \in Intents
        BY InboundAssumption DEF FillInstructions, CancelIntents
    <2>2. CASE ~UNCHANGED intentVars
        <3>1. /\ ~IsFinalized(h) /\ record[h].status \in {"Unregistered", "Locked"}
              /\ cancelled' = cancelled \cup {h}
              /\ record' = IF record[h].status = "Locked"
                           THEN [record EXCEPT ![h].status = "Cancelled"] ELSE record
              /\ UNCHANGED <<settled, confirmed, deliveries>>
            BY <1>2, <2>2 DEF ReceiveCancel, ApplyCancel
        <3>2. IsCancelled(h)
            BY <2>1, <3>1 DEF IsCancelled, Records
        <3>3. OnlyTouches(h)
            BY <2>1, <3>1 DEF OnlyTouches
        <3>. QED  BY <2>1, <3>2, <3>3 DEF Story
    <2>. QED  BY <2>2
<1>3. ASSUME NEW a \in Accounts, NEW s \in EvmSolvers, NEW h \in Intents,
             NEW n \in FillAmounts,
             DeliverIntent(a, s, h, n) \/ FillIntent(a, s, h, n)
      PROVE  Story(h)
    <2>1. /\ ValidFill(s, h, n) /\ Deliver(h, a, n) /\ UNCHANGED cancelled
          /\ settled' = settled \cup {h}
          /\ \/ /\ record' = FilledBy(h, a, s, n, "Filled")
                /\ confirmed' = confirmed
             \/ /\ record' = FilledBy(h, a, s, n, "ConfirmationSent")
                /\ confirmed' = confirmed \cup {h}
        BY <1>3 DEF DeliverIntent, FillIntent
    <2>2. PICK status \in {"Filled", "ConfirmationSent"} :
             /\ record' = FilledBy(h, a, s, n, status)
             /\ confirmed' = IF status = "Filled" THEN confirmed ELSE confirmed \cup {h}
        BY <2>1
    <2>3. /\ record'[h] = [record[h] EXCEPT !.status = status, !.solver = a,
                              !.solverEvm = s, !.fillAmount = n, !.fillLedger = stellarNow]
          /\ \A g \in Intents \ {h} : record'[g] = record[g]
        BY <2>2 DEF FilledBy
    <2>4. /\ record'[h].status = status /\ record'[h].solver = a
          /\ record'[h].fillAmount = n /\ record'[h].fillLedger = stellarNow
          /\ record'[h].srcEid = record[h].srcEid
        BY <2>3 DEF Records
    <2>5. IsFilled(h)
        BY <2>1, <2>2, <2>4 DEF IsFilled, ValidFill, Deliver
    <2>6. OnlyTouches(h)
        BY <2>1, <2>2, <2>3 DEF OnlyTouches, Deliver
    <2>. QED  BY <2>5, <2>6 DEF Story
<1>4. ASSUME NEW a \in Accounts, NEW h \in Intents, DispatchConfirmation(a, h)
      PROVE  Story(h)
    BY <1>4 DEF DispatchConfirmation, Story, OnlyTouches, IsConfirmed
<1>5. ASSUME NEW a \in Accounts, NEW h \in Intents, CancelExpiredIntent(a, h)
      PROVE  Story(h)
    <2>1. IsCancelled(h)
        BY <1>5 DEF CancelExpiredIntent, IsCancelled, Records
    <2>2. OnlyTouches(h)
        BY <1>5 DEF CancelExpiredIntent, OnlyTouches
    <2>. QED  BY <2>1, <2>2 DEF Story
<1>6. CASE AdminStep \/ FundReserve \/ Tick \/ UNCHANGED vars
    BY <1>6 DEF AdminStep, SetPaused, SetPausedEid, SetDestTokenAllowed, SetKeeperReward,
                SetDispatchKeeperReward, FundReserve, otherThanConfig, Tick, vars,
                settlementVars
<1>. QED  BY <1>1, <1>2, <1>3, <1>4, <1>5, <1>6
          DEF Next, Receive, SolverStep, KeeperStep


LEMMA StoriesKeepMarkers ==
    ASSUME TypeInv, MarkersInv, [Next]_vars
    PROVE  MarkersInv'
<1>1. CASE UNCHANGED intentVars
    BY <1>1 DEF intentVars, MarkersInv, MarkersAgree
<1>2. ASSUME NEW h \in Intents, Story(h)
      PROVE  MarkersInv'
    <2> SUFFICES MarkersAgree(h)'
        BY <1>2, TouchedMarkersSuffice DEF Story
    <2>1. MarkersAgree(h) /\ record[h] \in Records
        BY DEF MarkersInv, TypeInv, TypeOK
    <2>2. CASE Registers(h)
        BY <2>1, <2>2 DEF Registers, IsFinalized, MarkersAgree
    <2>3. CASE IsCancelled(h)
        BY <2>1, <2>3 DEF IsCancelled, IsFinalized, MarkersAgree
    <2>4. CASE IsFilled(h)
        BY <2>1, <2>4 DEF IsFilled, IsFinalized, MarkersAgree
    <2>5. CASE IsConfirmed(h)
        <3>1. record'[h].status = "ConfirmationSent"
            BY <2>1, <2>5 DEF IsConfirmed, TypeInv, TypeOK, Records
        <3>. QED  BY <2>1, <2>5, <3>1 DEF IsConfirmed, MarkersAgree
    <2>. QED  BY <1>2, <2>2, <2>3, <2>4, <2>5 DEF Story
<1>. QED  BY <1>1, <1>2, StepsTellStories

LEMMA MarkersInvHolds == Spec => []MarkersInv
<1>1. Init => MarkersInv
    BY DEF Init, Unregistered, MarkersInv, MarkersAgree
<1>2. TypeInv /\ MarkersInv /\ [Next]_vars => MarkersInv'
    BY StoriesKeepMarkers
<1>. QED  BY <1>1, <1>2, TypeInvHolds, PTL DEF Spec

(* Settled, Cancelled and ConfirmationSent agree with the status of the      *)
(* record: on_cancel_inbound, cancel_expired_intent and both ways of filling *)
(* test the markers and the status before they write either, so no order of  *)
(* fills, cancels and re-deliveries makes an intent both settled and         *)
(* cancelled.                                                                *)
THEOREM MarkersTellOneStory == Spec => []MarkersMatchRecord
<1>1. TypeInv /\ MarkersInv => MarkersMatchRecord
    BY MarkersInvSuffices
<1>. QED  BY <1>1, TypeInvHolds, MarkersInvHolds, PTL
-----------------------------------------------------------------------------
(* The delivery of one intent.                                               *)
DeliveryMatches(h) ==
    IF h \in settled
    THEN /\ Len(deliveries[h]) = 1
         /\ deliveries[h][1].amount >= MinDestAmount[h]
         /\ deliveries[h][1].amount = record[h].fillAmount
         /\ deliveries[h][1].solver = record[h].solver
         /\ record[h].fillLedger + MinDispatchWindow <= Deadline[h]
    ELSE deliveries[h] = <<>>

LEMMA StoriesKeepDeliveries ==
    ASSUME TypeInv, MarkersInv, DeliveredOnce, [Next]_vars
    PROVE  DeliveredOnce'
<1>1. CASE UNCHANGED intentVars
    BY <1>1 DEF intentVars, DeliveredOnce
<1>2. ASSUME NEW h \in Intents, Story(h), DeliveryMatches(h)'
      PROVE  DeliveredOnce'
    BY <1>2 DEF Story, OnlyTouches, DeliveredOnce, DeliveryMatches
<1>3. ASSUME NEW h \in Intents, Story(h)
      PROVE  DeliveryMatches(h)'
    <2>1. MarkersAgree(h) /\ DeliveryMatches(h) /\ record[h] \in Records
        BY DEF MarkersInv, DeliveredOnce, DeliveryMatches, TypeInv, TypeOK
    <2>2. CASE Registers(h) \/ IsCancelled(h)
        BY <2>1, <2>2 DEF Registers, IsCancelled, IsFinalized, DeliveryMatches
    <2>3. CASE IsFilled(h)
        <3> DEFINE d == [solver |-> record'[h].solver, amount |-> record'[h].fillAmount]
        <3>1. deliveries[h] = <<>> /\ h \in settled'
            BY <2>1, <2>3 DEF IsFilled, IsFinalized, DeliveryMatches
        <3>2. deliveries'[h] = Append(<<>>, d)
            BY <2>3, <3>1 DEF IsFilled, TypeInv, TypeOK
        <3>3. Len(deliveries'[h]) = 1 /\ deliveries'[h][1] = d
            BY <3>2
        <3>. QED  BY <2>3, <3>1, <3>3 DEF IsFilled, DeliveryMatches
    <2>4. CASE IsConfirmed(h)
        <3>1. h \in settled /\ UNCHANGED <<settled, deliveries>>
            BY <2>1, <2>4 DEF IsConfirmed, MarkersAgree
        <3>2. /\ record'[h].fillAmount = record[h].fillAmount
              /\ record'[h].solver = record[h].solver
              /\ record'[h].fillLedger = record[h].fillLedger
            BY <2>1, <2>4 DEF IsConfirmed, TypeInv, TypeOK, Records
        <3>. QED  BY <2>1, <3>1, <3>2 DEF DeliveryMatches
    <2>. QED  BY <1>3, <2>2, <2>3, <2>4 DEF Story
<1>. QED  BY <1>1, <1>2, <1>3, StepsTellStories

(* The recipient of an intent is paid at most once, in full, early enough to *)
(* leave the dispatch window, and never once the intent was cancelled: a     *)
(* fill needs an intent that is Locked and has no marker, and the markers    *)
(* agree with the record in every state.                                     *)
THEOREM DeliversOnce == Spec => []DeliveredOnce
<1>1. Init => DeliveredOnce
    BY DEF Init, DeliveredOnce
<1>2. TypeInv /\ MarkersInv /\ DeliveredOnce /\ [Next]_vars => DeliveredOnce'
    BY StoriesKeepDeliveries
<1>. QED  BY <1>1, <1>2, TypeInvHolds, MarkersInvHolds, PTL DEF Spec
-----------------------------------------------------------------------------
(* What a step may never do to one intent.                                   *)
StaysFinal(h) ==
    /\ IsFinalized(h) => deliveries'[h] = deliveries[h]
    /\ h \in cancelled => h \in cancelled' /\ record'[h] = record[h]
    /\ h \in settled => h \in settled' /\ h \notin cancelled'
    /\ h \in confirmed => record'[h] = record[h]

LEMMA StoriesAreFinal ==
    ASSUME TypeInv, MarkersInv, [Next]_vars, NEW g \in Intents
    PROVE  StaysFinal(g)
<1>1. MarkersAgree(g)
    BY DEF MarkersInv
<1>2. CASE UNCHANGED intentVars
    BY <1>1, <1>2 DEF intentVars, StaysFinal, MarkersAgree
<1>3. ASSUME NEW h \in Intents, h # g, Story(h)
      PROVE  StaysFinal(g)
    BY <1>1, <1>3 DEF Story, OnlyTouches, StaysFinal, MarkersAgree
<1>4. CASE Story(g)
    <2>1. CASE Registers(g)
        BY <1>1, <2>1 DEF Registers, IsFinalized, StaysFinal, MarkersAgree
    <2>2. CASE IsCancelled(g)
        BY <1>1, <2>2 DEF IsCancelled, IsFinalized, StaysFinal, MarkersAgree
    <2>3. CASE IsFilled(g)
        BY <1>1, <2>3 DEF IsFilled, IsFinalized, StaysFinal, MarkersAgree
    <2>4. CASE IsConfirmed(g)
        BY <1>1, <2>4 DEF IsConfirmed, StaysFinal, MarkersAgree
    <2>. QED  BY <1>4, <2>1, <2>2, <2>3, <2>4 DEF Story
<1>. QED  BY <1>2, <1>3, <1>4, StepsTellStories

(* What ended stays ended: the tombstone of an early cancel is never         *)
(* overwritten by a registration, a settled intent is never cancelled, and   *)
(* nothing is delivered after a verdict.                                     *)
THEOREM VerdictsAreFinal == Spec => VerdictIsFinal
<1>1. TypeInv /\ MarkersInv /\ [Next]_vars
        => [\A h \in Intents :
               /\ IsFinalized(h) => deliveries'[h] = deliveries[h]
               /\ h \in cancelled => h \in cancelled' /\ record'[h] = record[h]
               /\ h \in settled => h \in settled' /\ h \notin cancelled'
               /\ h \in confirmed => record'[h] = record[h]]_vars
    BY StoriesAreFinal DEF StaysFinal
<1>. QED  BY <1>1, TypeInvHolds, MarkersInvHolds, PTL DEF Spec, VerdictIsFinal
-----------------------------------------------------------------------------
(* A registered intent has the corridor it came by.                          *)
Corridors == \A h \in Intents : record[h].status # "Unregistered" => record[h].srcEid \in Eids

LEMMA StepsKeepCorridors ==
    ASSUME TypeInv, Corridors, [Next]_vars
    PROVE  Corridors'
<1> USE DEF Corridors
<1>0. record \in [Intents -> Records]
    BY DEF TypeInv, TypeOK
<1>1. ASSUME UNCHANGED record
      PROVE  Corridors'
    BY <1>1
<1>2. ASSUME NEW i \in Inbound, ReceiveFillInstruction(i.eid, i.nonce, i.message)
      PROVE  Corridors'
    <2>1. CASE UNCHANGED record
        BY <1>1, <2>1
    <2>2. CASE i.eid \in Eids
               /\ record' = [record EXCEPT ![i.message.hash] =
                     [Unregistered EXCEPT !.status = "Locked", !.srcEid = i.eid,
                                          !.solverEvm = i.message.solver,
                                          !.reservationExpires =
                                              ReservationEnd(i.message.hash, i.message.window)]]
        BY <1>0, <2>2 DEF Unregistered
    <2>. QED  BY <1>2, <2>1, <2>2 DEF ReceiveFillInstruction, Register, intentVars
<1>3. ASSUME NEW i \in Inbound, ReceiveCancel(i.eid, i.nonce, i.message)
      PROVE  Corridors'
    <2>1. CASE UNCHANGED record
        BY <1>1, <2>1
    <2>2. CASE /\ record[i.message.hash].status = "Locked"
               /\ record' = [record EXCEPT ![i.message.hash].status = "Cancelled"]
        BY <1>0, <2>2 DEF Records
    <2>. QED  BY <1>3, <2>1, <2>2 DEF ReceiveCancel, ApplyCancel, intentVars
<1>4. ASSUME NEW a \in Accounts, NEW s \in EvmSolvers, NEW h \in Intents,
             NEW n \in FillAmounts, DeliverIntent(a, s, h, n) \/ FillIntent(a, s, h, n)
      PROVE  Corridors'
    BY <1>0, <1>4 DEF DeliverIntent, FillIntent, ValidFill, FilledBy, Records
<1>5. ASSUME NEW a \in Accounts, NEW h \in Intents,
             DispatchConfirmation(a, h) \/ CancelExpiredIntent(a, h)
      PROVE  Corridors'
    BY <1>0, <1>5 DEF DispatchConfirmation, CancelExpiredIntent, Records
<1>6. CASE AdminStep \/ FundReserve \/ Tick \/ UNCHANGED vars
    BY <1>1, <1>6
    DEF AdminStep, SetPaused, SetPausedEid, SetDestTokenAllowed, SetKeeperReward,
        SetDispatchKeeperReward, FundReserve, otherThanConfig, Tick, vars, settlementVars,
        intentVars
<1>. QED  BY <1>2, <1>3, <1>4, <1>5, <1>6 DEF Next, Receive, SolverStep, KeeperStep

(* What a step posts: nothing, or the verdict on one intent that had none,   *)
(* on the corridor of that intent.                                           *)
Quiet == UNCHANGED <<outbox, confirmed, reputation>>

Confirms(h) ==
    /\ h \notin confirmed
    /\ confirmed' = confirmed \cup {h}
    /\ Credit(record'[h].solver)
    /\ Send(record[h].srcEid, FillConfirmed(h, record'[h].solverEvm, record'[h].fillAmount))

Refuses(h) ==
    /\ cancelled' = cancelled \cup {h}
    /\ UNCHANGED <<confirmed, reputation>>
    /\ Send(record[h].srcEid, CancelIntent(h))

Posts(h) ==
    /\ h \notin cancelled
    /\ record[h].status \in {"Locked", "Filled"}
    /\ record'[h].srcEid = record[h].srcEid
    /\ Confirms(h) \/ Refuses(h)

LEMMA StepsPost ==
    ASSUME TypeInv, MarkersInv, [Next]_vars
    PROVE  Quiet \/ \E h \in Intents : Posts(h)
<1>0. record \in [Intents -> Records] /\ \A h \in Intents : MarkersAgree(h)
    BY DEF TypeInv, TypeOK, MarkersInv
<1>1. ASSUME NEW a \in Accounts, NEW s \in EvmSolvers, NEW h \in Intents,
             NEW n \in FillAmounts, FillIntent(a, s, h, n)
      PROVE  Posts(h)
    <2>1. record[h] \in Records /\ h \notin cancelled /\ h \notin confirmed
        BY <1>0, <1>1 DEF FillIntent, ValidFill, IsFinalized, MarkersAgree
    <2>2. record'[h] = [record[h] EXCEPT !.status = "ConfirmationSent", !.solver = a,
                              !.solverEvm = s, !.fillAmount = n, !.fillLedger = stellarNow]
        BY <1>0, <1>1 DEF FillIntent, FilledBy
    <2>3. /\ record'[h].solver = a /\ record'[h].solverEvm = s
          /\ record'[h].fillAmount = n /\ record'[h].srcEid = record[h].srcEid
        BY <2>1, <2>2 DEF Records
    <2>. QED  BY <1>1, <2>1, <2>3 DEF FillIntent, ValidFill, Posts, Confirms
<1>2. ASSUME NEW a \in Accounts, NEW h \in Intents, DispatchConfirmation(a, h)
      PROVE  Posts(h)
    <2>1. record[h] \in Records /\ h \notin cancelled /\ h \notin confirmed
        BY <1>0, <1>2 DEF DispatchConfirmation, MarkersAgree
    <2>2. record'[h] = [record[h] EXCEPT !.status = "ConfirmationSent"]
        BY <1>0, <1>2 DEF DispatchConfirmation
    <2>3. /\ record'[h].solver = record[h].solver
          /\ record'[h].solverEvm = record[h].solverEvm
          /\ record'[h].fillAmount = record[h].fillAmount
          /\ record'[h].srcEid = record[h].srcEid
        BY <2>1, <2>2 DEF Records
    <2>. QED  BY <1>2, <2>1, <2>3 DEF DispatchConfirmation, Posts, Confirms
<1>3. ASSUME NEW a \in Accounts, NEW h \in Intents, CancelExpiredIntent(a, h)
      PROVE  Posts(h)
    BY <1>0, <1>3 DEF CancelExpiredIntent, IsFinalized, Posts, Refuses, Records
<1>4. ASSUME NEW a \in Accounts, NEW s \in EvmSolvers, NEW h \in Intents,
             NEW n \in FillAmounts, DeliverIntent(a, s, h, n)
      PROVE  Quiet
    BY <1>4 DEF DeliverIntent, Quiet
<1>5. ASSUME NEW i \in Inbound, \/ ReceiveFillInstruction(i.eid, i.nonce, i.message)
                                \/ ReceiveCancel(i.eid, i.nonce, i.message)
      PROVE  Quiet
    BY <1>5 DEF ReceiveFillInstruction, Register, ReceiveCancel, ApplyCancel, intentVars, Quiet
<1>6. CASE AdminStep \/ FundReserve \/ Tick \/ UNCHANGED vars
    BY <1>6
    DEF AdminStep, SetPaused, SetPausedEid, SetDestTokenAllowed, SetKeeperReward,
        SetDispatchKeeperReward, FundReserve, otherThanConfig, Tick, vars, settlementVars,
        intentVars, Quiet
<1>. QED  BY <1>1, <1>2, <1>3, <1>4, <1>5, <1>6
          DEF Next, Receive, SolverStep, KeeperStep
-----------------------------------------------------------------------------
(* The verdicts that are out, without counting them.                         *)
IsPosted(h, e, k) == e \in Eids /\ k \in DOMAIN outbox[e] /\ outbox[e][k].hash = h

VerdictOf(h) ==
    IF h \in confirmed
    THEN FillConfirmed(h, record[h].solverEvm, record[h].fillAmount)
    ELSE CancelIntent(h)

PostedWell(h) ==
    /\ \A e, k : IsPosted(h, e, k) =>
          /\ e = record[h].srcEid
          /\ outbox[e][k] = VerdictOf(h)
          /\ h \in confirmed \/ h \in cancelled
    /\ \A k, j : IsPosted(h, record[h].srcEid, k) /\ IsPosted(h, record[h].srcEid, j) => k = j
    /\ h \in confirmed => \E e, k : IsPosted(h, e, k)

VerdictsInv == \A h \in Intents : PostedWell(h)

(* A message that is sent is the last one of its corridor; the others stay.  *)
LEMMA SendAppends ==
    ASSUME TypeInv, NEW eid \in Eids, NEW m, Send(eid, m), NEW g, NEW e, NEW k
    PROVE  /\ IsPosted(g, e, k)' <=>
                  \/ IsPosted(g, e, k)
                  \/ e = eid /\ k = Len(outbox[eid]) + 1 /\ m.hash = g
           /\ IsPosted(g, e, k) => outbox'[e][k] = outbox[e][k]
           /\ IsPosted(g, e, k) => ~(e = eid /\ k = Len(outbox[eid]) + 1)
           /\ outbox'[eid][Len(outbox[eid]) + 1] = m
<1>1. outbox \in [Eids -> Seq(Messages)]
    BY DEF TypeInv, TypeOK
<1>2. /\ DOMAIN outbox' = Eids
      /\ outbox'[eid] = Append(outbox[eid], m)
      /\ \A f \in Eids \ {eid} : outbox'[f] = outbox[f]
    BY <1>1 DEF Send
<1> DEFINE s == outbox[eid]
<1>3. /\ DOMAIN Append(s, m) = DOMAIN s \cup {Len(s) + 1}
      /\ Len(s) + 1 \notin DOMAIN s
      /\ Append(s, m)[Len(s) + 1] = m
      /\ \A j \in DOMAIN s : Append(s, m)[j] = s[j]
    <2>1. s \in Seq(Messages)
        BY <1>1
    <2> HIDE DEF s
    <2>2. DOMAIN s = 1 .. Len(s) /\ Len(s) \in Nat
        BY <2>1
    <2>3. s \in Seq(Messages \cup {m}) /\ m \in Messages \cup {m}
        BY <2>1
    <2>4. /\ Len(Append(s, m)) = Len(s) + 1
          /\ \A j \in 1 .. Len(s) : Append(s, m)[j] = s[j]
          /\ Append(s, m)[Len(s) + 1] = m
          /\ Append(s, m) \in Seq(Messages \cup {m})
        BY <2>3, AppendProperties
    <2>5. DOMAIN Append(s, m) = 1 .. Len(s) + 1
        BY <2>4
    <2>. QED  BY <2>2, <2>4, <2>5
<1>4. CASE e = eid
    BY <1>2, <1>3, <1>4 DEF IsPosted
<1>5. CASE e # eid
    BY <1>2, <1>3, <1>5 DEF IsPosted
<1>. QED  BY <1>4, <1>5

LEMMA QuietKeepsVerdicts ==
    ASSUME TypeInv, MarkersInv, VerdictsInv, [Next]_vars, Quiet
    PROVE  VerdictsInv'
<1> SUFFICES ASSUME NEW h \in Intents
             PROVE  PostedWell(h)'
    BY DEF VerdictsInv
<1>1. PostedWell(h) /\ StaysFinal(h) /\ MarkersAgree(h)
    BY StoriesAreFinal DEF VerdictsInv, MarkersInv
<1>2. \A e, k : IsPosted(h, e, k)' <=> IsPosted(h, e, k)
    BY DEF IsPosted, Quiet
<1>3. CASE h \in confirmed \/ h \in cancelled
    <2>1. record'[h] = record[h] /\ (h \in cancelled => h \in cancelled') /\ confirmed' = confirmed
        BY <1>1, <1>3 DEF StaysFinal, Quiet
    <2>2. VerdictOf(h)' = VerdictOf(h)
        BY <2>1 DEF VerdictOf
    <2>. QED  BY <1>1, <1>2, <2>1, <2>2 DEF PostedWell, Quiet
<1>4. CASE ~(h \in confirmed \/ h \in cancelled)
    <2>1. \A e, k : ~IsPosted(h, e, k)'
        BY <1>1, <1>2, <1>4 DEF PostedWell
    <2>2. h \notin confirmed'
        BY <1>4 DEF Quiet
    <2>. QED  BY <2>1, <2>2 DEF PostedWell
<1>. QED  BY <1>3, <1>4

LEMMA PostsKeepVerdicts ==
    ASSUME TypeInv, MarkersInv, Corridors, VerdictsInv, [Next]_vars,
           NEW g \in Intents, Posts(g)
    PROVE  VerdictsInv'
<1> SUFFICES ASSUME NEW h \in Intents
             PROVE  PostedWell(h)'
    BY DEF VerdictsInv
<1>1. PostedWell(h) /\ StaysFinal(h) /\ MarkersAgree(h) /\ MarkersAgree(g)
    BY StoriesAreFinal DEF VerdictsInv, MarkersInv
<1>a. PICK eid \in Eids : eid = record[g].srcEid
    BY DEF Posts, Corridors
<1>2. PICK m : /\ Send(eid, m) /\ m.hash = g
               /\ \/ Confirms(g) /\ m = FillConfirmed(g, record'[g].solverEvm, record'[g].fillAmount)
                  \/ Refuses(g) /\ m = CancelIntent(g)
    BY <1>a DEF Posts, Confirms, Refuses, FillConfirmed, CancelIntent
<1>b. PICK new : new = Len(outbox[eid]) + 1
    OBVIOUS
<1>3. ASSUME NEW e, NEW k
      PROVE  /\ IsPosted(h, e, k)' <=> IsPosted(h, e, k) \/ (e = eid /\ k = new /\ g = h)
             /\ IsPosted(h, e, k) => outbox'[e][k] = outbox[e][k]
             /\ IsPosted(h, e, k) => ~(e = eid /\ k = new)
             /\ outbox'[eid][new] = m
    BY <1>2, <1>b, SendAppends
<1>4. g \notin confirmed /\ g \notin cancelled
    BY <1>1 DEF Posts, MarkersAgree
<1>5. CASE h # g
    <2>1. (h \in confirmed' <=> h \in confirmed) /\ (h \in cancelled => h \in cancelled')
        BY <1>1, <1>2, <1>5 DEF Confirms, Refuses, StaysFinal
    <2>2. \A e, k : /\ IsPosted(h, e, k)' <=> IsPosted(h, e, k)
                    /\ IsPosted(h, e, k) => outbox'[e][k] = outbox[e][k]
        BY <1>3, <1>5
    <2>3. CASE h \in confirmed \/ h \in cancelled
        <3>1. record'[h] = record[h]
            BY <1>1, <2>3 DEF StaysFinal
        <3>2. VerdictOf(h)' = VerdictOf(h)
            BY <2>1, <3>1 DEF VerdictOf
        <3>. QED  BY <1>1, <2>1, <2>2, <3>1, <3>2 DEF PostedWell
    <2>4. CASE ~(h \in confirmed \/ h \in cancelled)
        <3>1. \A e, k : ~IsPosted(h, e, k)'
            BY <1>1, <2>2, <2>4 DEF PostedWell
        <3>2. h \notin confirmed'
            BY <2>1, <2>4
        <3>. QED  BY <3>1, <3>2 DEF PostedWell
    <2>. QED  BY <2>3, <2>4
<1>6. CASE h = g
    <2>1. \A e, k : ~IsPosted(h, e, k)
        BY <1>1, <1>4, <1>6 DEF PostedWell
    <2>2. \A e, k : IsPosted(h, e, k)' <=> e = eid /\ k = new
        BY <1>3, <1>6, <2>1
    <2>3. record'[h].srcEid = eid
        BY <1>6, <1>a DEF Posts
    <2>4. m = VerdictOf(h)' /\ (h \in confirmed' \/ h \in cancelled')
        BY <1>2, <1>4, <1>6 DEF Confirms, Refuses, VerdictOf
    <2>. QED  BY <1>3, <2>2, <2>3, <2>4 DEF PostedWell
<1>. QED  BY <1>5, <1>6

LEMMA VerdictsInvHolds == Spec => [](Corridors /\ VerdictsInv)
<1>1. Init => Corridors
    BY DEF Init, Unregistered, Corridors
<1>2. Init => VerdictsInv
    BY DEF Init, VerdictsInv, PostedWell, IsPosted
<1>3. TypeInv /\ MarkersInv /\ (Corridors /\ VerdictsInv) /\ [Next]_vars
         => (Corridors /\ VerdictsInv)'
    BY StepsKeepCorridors, StepsPost, QuietKeepsVerdicts, PostsKeepVerdicts
<1>. QED  BY <1>1, <1>2, <1>3, TypeInvHolds, MarkersInvHolds, PTL DEF Spec

(* One verdict at most, as the run counts them.                              *)
LEMMA VerdictsAreCounted ==
    ASSUME TypeInv, MarkersInv, DeliveredOnce, VerdictsInv
    PROVE  OneVerdictPerIntent
<1> SUFFICES ASSUME NEW h \in Intents
             PROVE  /\ Cardinality(Sent(h)) <= 1
                    /\ \A p \in Sent(h) :
                          /\ p[1] = record[h].srcEid
                          /\ outbox[p[1]][p[2]] =
                                IF h \in confirmed
                                THEN FillConfirmed(h, record[h].solverEvm, deliveries[h][1].amount)
                                ELSE CancelIntent(h)
                          /\ h \in confirmed \/ h \in cancelled
                    /\ h \in confirmed => Sent(h) # {}
    BY DEF OneVerdictPerIntent
<1>1. PostedWell(h)
    BY DEF VerdictsInv
<1>2. \A e, k : <<e, k>> \in Sent(h) <=> IsPosted(h, e, k)
    BY DEF Sent, IsPosted
<1>3. \A p \in Sent(h) : p = <<p[1], p[2]>> /\ IsPosted(h, p[1], p[2])
    BY DEF Sent, IsPosted
<1>4. Cardinality(Sent(h)) <= 1
    <2>1. \A p, q \in Sent(h) : p = q
        BY <1>1, <1>3 DEF PostedWell
    <2>2. CASE Sent(h) = {}
        BY <2>2, FS_EmptySet
    <2>3. CASE Sent(h) # {}
        <3>1. PICK p \in Sent(h) : Sent(h) = {p}
            BY <2>1, <2>3
        <3>2. Cardinality({p}) = 1
            BY FS_Singleton
        <3>. QED  BY <3>1, <3>2
    <2>. QED  BY <2>2, <2>3
<1>5. ASSUME NEW p \in Sent(h)
      PROVE  /\ p[1] = record[h].srcEid
             /\ outbox[p[1]][p[2]] =
                   IF h \in confirmed
                   THEN FillConfirmed(h, record[h].solverEvm, deliveries[h][1].amount)
                   ELSE CancelIntent(h)
             /\ h \in confirmed \/ h \in cancelled
    <2>1. /\ p[1] = record[h].srcEid
          /\ outbox[p[1]][p[2]] = VerdictOf(h)
          /\ h \in confirmed \/ h \in cancelled
        BY <1>1, <1>3 DEF PostedWell
    <2>2. h \in confirmed => deliveries[h][1].amount = record[h].fillAmount
        BY DEF MarkersInv, MarkersAgree, DeliveredOnce
    <2>. QED  BY <2>1, <2>2 DEF VerdictOf
<1>6. h \in confirmed => Sent(h) # {}
    BY <1>1, <1>2 DEF PostedWell
<1>. QED  BY <1>4, <1>5, <1>6
-----------------------------------------------------------------------------
(* Inductive: the fills confirmed are finitely many, and each is counted.    *)
ConfirmedBy(a) == {h \in confirmed : record[h].solver = a}

CountsInv ==
    IsFiniteSet(confirmed) /\ \A a \in Accounts : reputation[a] = Cardinality(ConfirmedBy(a))

LEMMA StepsKeepCounts ==
    ASSUME TypeInv, MarkersInv, CountsInv, [Next]_vars
    PROVE  CountsInv'
<1>0. /\ confirmed \subseteq Intents
      /\ reputation \in [Accounts -> Nat]
      /\ \A h \in confirmed : record'[h] = record[h]
    BY StoriesAreFinal DEF TypeInv, TypeOK, StaysFinal
<1>1. CASE confirmed' = confirmed /\ reputation' = reputation
    <2>1. \A a : ConfirmedBy(a)' = ConfirmedBy(a)
        BY <1>0, <1>1 DEF ConfirmedBy
    <2>. QED  BY <1>1, <2>1 DEF CountsInv
<1>2. ASSUME NEW g \in Intents, Confirms(g)
      PROVE  CountsInv'
    <2> DEFINE s == record'[g].solver
    <2>1. IsFiniteSet(confirmed')
        BY <1>2, FS_AddElement DEF Confirms, CountsInv
    <2>2. ASSUME NEW a \in Accounts
          PROVE  reputation'[a] = Cardinality(ConfirmedBy(a)')
        <3>1. ConfirmedBy(a) \subseteq confirmed /\ IsFiniteSet(ConfirmedBy(a))
            BY FS_Subset DEF ConfirmedBy, CountsInv
        <3>2. CASE a = s
            <4>1. ConfirmedBy(a)' = ConfirmedBy(a) \cup {g} /\ g \notin ConfirmedBy(a)
                BY <1>0, <1>2, <3>2 DEF ConfirmedBy, Confirms
            <4>2. Cardinality(ConfirmedBy(a)') = Cardinality(ConfirmedBy(a)) + 1
                BY <3>1, <4>1, FS_AddElement
            <4>3. reputation'[a] = reputation[a] + 1
                BY <1>0, <1>2, <3>2 DEF Confirms, Credit
            <4>. QED  BY <4>2, <4>3 DEF CountsInv
        <3>3. CASE a # s
            <4>1. ConfirmedBy(a)' = ConfirmedBy(a)
                BY <1>0, <1>2, <3>3 DEF ConfirmedBy, Confirms
            <4>2. reputation'[a] = reputation[a]
                BY <1>0, <1>2, <3>3 DEF Confirms, Credit
            <4>. QED  BY <4>1, <4>2 DEF CountsInv
        <3>. QED  BY <3>2, <3>3
    <2>. QED  BY <2>1, <2>2 DEF CountsInv
<1>. QED  BY <1>1, <1>2, StepsPost DEF Quiet, Posts, Refuses

LEMMA CountsInvHolds == Spec => []CountsInv
<1>1. Init => CountsInv
    <2> SUFFICES ASSUME Init
                 PROVE  CountsInv
        OBVIOUS
    <2>1. \A a : ConfirmedBy(a) = {}
        BY DEF Init, ConfirmedBy
    <2>. QED  BY <2>1, FS_EmptySet DEF Init, CountsInv
<1>2. TypeInv /\ MarkersInv /\ CountsInv /\ [Next]_vars => CountsInv'
    BY StepsKeepCounts
<1>. QED  BY <1>1, <1>2, TypeInvHolds, MarkersInvHolds, PTL DEF Spec

(* The escrow hears at most one verdict on an intent, the one that the       *)
(* markers and the delivery bear out, on the corridor that registered it;    *)
(* and a solver is credited for each of its confirmed fills, once.  Both     *)
(* ways to confirm and the cancel write a marker in the step that sends,     *)
(* and each looks at the markers first.                                      *)
THEOREM VerdictsAgree == Spec => []VerdictsAddUp
<1>1. TypeInv /\ MarkersInv /\ DeliveredOnce /\ VerdictsInv => OneVerdictPerIntent
    BY VerdictsAreCounted
<1>2. CountsInv => ReputationCountsConfirmed
    BY DEF CountsInv, ReputationCountsConfirmed, ConfirmedBy
<1>. QED  BY <1>1, <1>2, TypeInvHolds, MarkersInvHolds, DeliversOnce, VerdictsInvHolds,
             CountsInvHolds, PTL DEF VerdictsAddUp
-----------------------------------------------------------------------------
(* What the two exits ask for, and what they then do: each variable has one  *)
(* next value, so a call goes through wherever its conditions hold.          *)
CancelConditions(h) ==
    /\ ~IsFinalized(h)
    /\ record[h].status = "Locked"
    /\ stellarNow >= Deadline[h]
    /\ keeperReward <= reserve

CancelEffects(h) ==
    /\ record' = [record EXCEPT ![h].status = "Cancelled"]
    /\ cancelled' = cancelled \cup {h}
    /\ Send(record[h].srcEid, CancelIntent(h))
    /\ reserve' = reserve - keeperReward
    /\ UNCHANGED <<stellarNow, capVars, settled, confirmed, deliveries, consumed,
                   pauseVars, allowedDestTokens, rewardVars, reputation>>

LEMMA CancelExpiredIntentIsItsParts ==
    ASSUME NEW a \in Accounts, NEW h \in Intents
    PROVE  CancelExpiredIntent(a, h) <=> CancelConditions(h) /\ CancelEffects(h)
BY DEF CancelExpiredIntent, PayFromReserve, CancelConditions, CancelEffects

DispatchConditions(caller, h) ==
    /\ h \notin confirmed
    /\ record[h].status = "Filled"
    /\ stellarNow <= Deadline[h] + MinDispatchWindow
    /\ DispatchDue(caller, h) <= reserve

DispatchEffects(caller, h) ==
    /\ Send(record[h].srcEid, FillConfirmed(h, record[h].solverEvm, record[h].fillAmount))
    /\ confirmed' = confirmed \cup {h}
    /\ record' = [record EXCEPT ![h].status = "ConfirmationSent"]
    /\ Credit(record[h].solver)
    /\ reserve' = reserve - DispatchDue(caller, h)
    /\ UNCHANGED <<stellarNow, capVars, settled, cancelled, deliveries, consumed,
                   pauseVars, allowedDestTokens, rewardVars>>

LEMMA DispatchConfirmationIsItsParts ==
    ASSUME NEW a \in Accounts, NEW h \in Intents
    PROVE  DispatchConfirmation(a, h) <=> DispatchConditions(a, h) /\ DispatchEffects(a, h)
BY DEF DispatchConfirmation, PayFromReserve, DispatchConditions, DispatchEffects

LEMMA LockedCanBeCancelled ==
    ASSUME MarkersInv, Corridors, NEW h \in Intents,
           Status(h) = "Locked", stellarNow >= Deadline[h], keeperReward <= reserve
    PROVE  CancelConditions(h) /\ record[h].srcEid \in Eids
<1>1. MarkersAgree(h)
    BY DEF MarkersInv
<1>2. h \notin confirmed /\ h \notin settled /\ h \notin cancelled
    <2>1. CASE h \in confirmed
        BY <1>1, <2>1 DEF MarkersAgree, Status
    <2>2. CASE h \in settled \ confirmed
        BY <1>1, <2>2 DEF MarkersAgree, Status
    <2>3. CASE h \in cancelled /\ h \notin settled /\ h \notin confirmed
        BY <1>1, <2>3 DEF MarkersAgree, Status
    <2>. QED  BY <2>1, <2>2, <2>3
<1>3. Status(h) = record[h].status
    BY <1>2 DEF Status
<1>. QED  BY <1>2, <1>3 DEF CancelConditions, IsFinalized, Corridors

LEMMA FilledCanBeConfirmed ==
    ASSUME TypeInv, MarkersInv, Corridors, DeliveredOnce, NEW h \in Intents, NEW a \in Accounts,
           Status(h) = "Filled", stellarNow <= Deadline[h] + MinDispatchWindow,
           dispatchReward <= reserve
    PROVE  DispatchConditions(a, h) /\ record[h].srcEid \in Eids /\ record[h].solver \in Accounts
<1>1. MarkersAgree(h)
    BY DEF MarkersInv
<1>2. h \notin confirmed
    <2>1. CASE h \in confirmed
        BY <1>1, <2>1 DEF MarkersAgree, Status
    <2>. QED  BY <2>1
<1>3. h \in settled
    <2>1. CASE h \in cancelled /\ h \notin settled /\ h \notin confirmed
        BY <1>1, <2>1 DEF MarkersAgree, Status
    <2>2. CASE h \notin cancelled /\ h \notin settled /\ h \notin confirmed
        <3>1. Status(h) = record[h].status
            BY <2>2 DEF Status
        <3>. QED  BY <1>1, <2>2, <3>1 DEF MarkersAgree
    <2>. QED  BY <1>2, <2>1, <2>2
<1>4. record[h].status = "Filled"
    BY <1>1, <1>2, <1>3 DEF MarkersAgree
<1>5. DispatchDue(a, h) <= reserve
    <2>1. reserve \in Nat
        BY DEF TypeInv, TypeOK
    <2>. QED  BY <2>1 DEF DispatchDue
<1>6. record[h].solver \in Accounts
    <2>1. Len(deliveries[h]) = 1 /\ deliveries[h][1].solver = record[h].solver
        BY <1>3 DEF DeliveredOnce
    <2>2. deliveries[h] \in Seq([solver : Accounts, amount : Nat])
        BY DEF TypeInv, TypeOK
    <2>3. PICK d : d = deliveries[h]
        OBVIOUS
    <2>4. d \in Seq([solver : Accounts, amount : Nat]) /\ 1 \in 1 .. Len(d)
        BY <2>1, <2>2, <2>3
    <2>5. d[1] \in [solver : Accounts, amount : Nat]
        <3> DEFINE Deliveries == [solver : Accounts, amount : Nat]
        <3>1. d \in Seq(Deliveries)
            BY <2>4
        <3> HIDE DEF Deliveries
        <3>2. d[1] \in Deliveries
            BY <2>4, <3>1
        <3>. QED  BY <3>2 DEF Deliveries
    <2>. QED  BY <2>1, <2>3, <2>5
<1>. QED  BY <1>2, <1>4, <1>5, <1>6 DEF DispatchConditions, Corridors

(* What ExitsStayOpen says, with the conditions of the two entry points for  *)
(* their ENABLED: whatever is paused, latched or delisted, anyone can cancel *)
(* an expired intent that the view shows as locked, and confirm a fill within *)
(* its window, as long as the reserve covers the configured reward; and the  *)
(* corridor that is told, and the solver that is credited, are there.        *)
THEOREM ExitsGoThrough ==
    Spec => [](\A h \in Intents, a \in Accounts :
                  /\ Status(h) = "Locked" /\ stellarNow >= Deadline[h] /\ keeperReward <= reserve
                        => CancelConditions(h) /\ record[h].srcEid \in Eids
                  /\ /\ Status(h) = "Filled"
                     /\ stellarNow <= Deadline[h] + MinDispatchWindow
                     /\ dispatchReward <= reserve
                     => /\ DispatchConditions(a, h)
                        /\ record[h].srcEid \in Eids /\ record[h].solver \in Accounts)
<1>1. TypeInv /\ MarkersInv /\ Corridors /\ DeliveredOnce
        => \A h \in Intents, a \in Accounts :
              /\ Status(h) = "Locked" /\ stellarNow >= Deadline[h] /\ keeperReward <= reserve
                    => CancelConditions(h) /\ record[h].srcEid \in Eids
              /\ /\ Status(h) = "Filled"
                 /\ stellarNow <= Deadline[h] + MinDispatchWindow
                 /\ dispatchReward <= reserve
                 => /\ DispatchConditions(a, h)
                    /\ record[h].srcEid \in Eids /\ record[h].solver \in Accounts
    <2> SUFFICES ASSUME TypeInv, MarkersInv, Corridors, DeliveredOnce,
                        NEW h \in Intents, NEW a \in Accounts
                 PROVE  /\ Status(h) = "Locked" /\ stellarNow >= Deadline[h]
                           /\ keeperReward <= reserve
                              => CancelConditions(h) /\ record[h].srcEid \in Eids
                        /\ /\ Status(h) = "Filled"
                           /\ stellarNow <= Deadline[h] + MinDispatchWindow
                           /\ dispatchReward <= reserve
                           => /\ DispatchConditions(a, h)
                              /\ record[h].srcEid \in Eids /\ record[h].solver \in Accounts
        OBVIOUS
    <2>1. ASSUME Status(h) = "Locked", stellarNow >= Deadline[h], keeperReward <= reserve
          PROVE  CancelConditions(h) /\ record[h].srcEid \in Eids
        BY <2>1, LockedCanBeCancelled
    <2>2. ASSUME Status(h) = "Filled", stellarNow <= Deadline[h] + MinDispatchWindow,
                 dispatchReward <= reserve
          PROVE  /\ DispatchConditions(a, h)
                 /\ record[h].srcEid \in Eids /\ record[h].solver \in Accounts
        BY <2>2, FilledCanBeConfirmed
    <2>. QED  BY <2>1, <2>2
<1>. QED  BY <1>1, TypeInvHolds, MarkersInvHolds, VerdictsInvHolds, DeliversOnce, PTL
-----------------------------------------------------------------------------
(* The rolling window.                                                       *)

WindowOf(t) == (t \div rollingWindowDuration) * rollingWindowDuration

\* What was registered under the present configuration was registered in the past.
RegistrationTimes ==
    /\ registeredAt \in [Intents -> Nat]
    /\ \A h \in Intents :
          registeredAt[h] # 0 =>
              record[h].status # "Unregistered" /\ registeredAt[h] <= stellarNow

\* It was accumulated: the memoized window is no older than its window.
RegistrationsAccumulated ==
    WindowCapActive =>
        \A h \in Intents :
            registeredAt[h] # 0 => WindowOf(registeredAt[h]) <= OrZero(latestWindowStart)

\* A breaker that is latched may be reset only when it counts no more.
BreakerOutlastsWindow ==
    WindowCapActive /\ rollingWindowTriggered =>
        \A h \in Intents :
            registeredAt[h] # 0 =>
                \E t \in rollingWindowResetAt : registeredAt[h] + rollingWindowDuration <= t

RegisteredInWindow == Total(IntentOrder, RegisteredSince(WindowStart))

WindowUse == BucketOf(LiveBuckets, WindowStart)

UseCoversRegistrations == WindowCapActive => RegisteredInWindow <= WindowUse

WindowInv ==
    /\ RegistrationTimes /\ RegistrationsAccumulated /\ BreakerOutlastsWindow
    /\ UseCoversRegistrations /\ WindowCapHolds

WindowTypes ==
    /\ TypeInv
    /\ WindowUse \in Nat /\ OrZero(latestWindowStart) \in Nat
    /\ WindowCapActive =>
          /\ rollingWindowDuration \in Nat \ {0}
          /\ WindowStart \in 0 .. stellarNow

LEMMA WindowTypesHold == Spec => []WindowTypes
<1>1. TypeInv => WindowTypes
    <2> SUFFICES ASSUME TypeInv
                 PROVE  WindowTypes
        OBVIOUS
    <2>1. CapsTypeOK /\ stellarNow \in Times
        BY DEF TypeInv, TypeOK
    <2>2. WindowUse \in Nat
        BY <2>1 DEF CapsTypeOK, WindowUse, BucketOf, LiveBuckets, Restrict
    <2>3. OrZero(latestWindowStart) \in Nat
        <3>1. latestWindowStart \subseteq Nat
            BY <2>1, ClockAssumption DEF CapsTypeOK, IsOption
        <3>2. latestWindowStart # {} => (CHOOSE t \in latestWindowStart : TRUE) \in latestWindowStart
            OBVIOUS
        <3>. QED  BY <3>1, <3>2 DEF OrZero
    <2>4. WindowCapActive => rollingWindowDuration \in Nat \ {0} /\ WindowStart \in 0 .. stellarNow
        BY <2>1, WindowStartInRange DEF WindowCapActive, CapsTypeOK
    <2>. QED  BY <2>2, <2>3, <2>4 DEF WindowTypes
<1>. QED  BY <1>1, TypeInvHolds, PTL

LEMMA OrderOfIntents == Enumerates(IntentOrder, Intents)
BY EnumerationExists, SettlementAssumption DEF IntentOrder

\* Where nothing counts, the cap has all its room.
LEMMA NothingCounts ==
    \A amounts : (\A h \in Intents : amounts[h] = 0) => Total(IntentOrder, amounts) = 0
<1>1. IntentOrder \in Seq(Intents)
    BY OrderOfIntents DEF Enumerates
<1>2. ASSUME NEW amounts, \A h \in Intents : amounts[h] = 0
      PROVE  Total(IntentOrder, amounts) = 0
    BY <1>1, <1>2, ZeroTotal
<1>. QED  BY <1>2

LEMMA FreshWindow ==
    ASSUME WindowTypes', RegistrationTimes', RegistrationsAccumulated',
           BreakerOutlastsWindow',
           WindowCapActive' => \A h \in Intents : RegisteredSince(WindowStart)'[h] = 0
    PROVE  WindowInv'
<1>1. WindowCapActive' => RegisteredInWindow' = 0
    <2>1. PICK amounts : amounts = RegisteredSince(WindowStart)'
        OBVIOUS
    <2>2. (\A h \in Intents : amounts[h] = 0) => Total(IntentOrder, amounts) = 0
        BY NothingCounts
    <2>. QED  BY <2>1, <2>2 DEF RegisteredInWindow, IntentOrder
<1>2. WindowUse' \in Nat /\ rollingWindowCap' \in Nat
    BY DEF WindowTypes, TypeInv, TypeOK, CapsTypeOK
<1>. QED  BY <1>1, <1>2 DEF WindowInv, UseCoversRegistrations, WindowCapHolds, RegisteredInWindow

\* A restart of the accounting.
LEMMA RestartKeepsWindow ==
    ASSUME WindowTypes', registeredAt' = [h \in Intents |-> 0]
    PROVE  WindowInv'
<1>1. \A h \in Intents : registeredAt'[h] = 0
    OBVIOUS
<1>2. RegistrationTimes' /\ RegistrationsAccumulated' /\ BreakerOutlastsWindow'
    BY <1>1 DEF RegistrationTimes, RegistrationsAccumulated, BreakerOutlastsWindow
<1>3. \A h \in Intents : RegisteredSince(WindowStart)'[h] = 0
    BY <1>1 DEF RegisteredSince
<1>. QED  BY <1>2, <1>3, FreshWindow

(* What a step means to the rolling window.                                  *)
StaysRegistered ==
    \A h \in Intents : record'[h].status = "Unregistered" <=> record[h].status = "Unregistered"

LeavesWindow ==
    /\ StaysRegistered
    /\ stellarNow' \in {stellarNow, stellarNow + 1}
    /\ UNCHANGED windowVars

ResetsWindow == ResetRollingWindowCap /\ UNCHANGED <<stellarNow, record>>

AdmitsIntent(c) ==
    /\ MinDestAmount[c] > 0
    /\ Admit(MinDestAmount[c])
    /\ record[c].status = "Unregistered" /\ record'[c].status = "Locked"
    /\ \A h \in Intents \ {c} : record'[h] = record[h]
    /\ UNCHANGED stellarNow

DropsIntent(c) ==
    /\ MinDestAmount[c] > 0
    /\ Breach(MinDestAmount[c])
    /\ UNCHANGED <<stellarNow, record>>

LEMMA StepsOfTheWindow ==
    ASSUME TypeInv, [Next]_vars
    PROVE  \/ LeavesWindow \/ ResetsWindow
           \/ \E c \in Intents : AdmitsIntent(c) \/ DropsIntent(c)
<1>0. record \in [Intents -> Records] /\ (UNCHANGED record => StaysRegistered)
    BY DEF TypeInv, TypeOK, StaysRegistered
<1>1. ASSUME NEW i \in Inbound, ReceiveFillInstruction(i.eid, i.nonce, i.message)
      PROVE  LeavesWindow \/ \E c \in Intents : AdmitsIntent(c) \/ DropsIntent(c)
    <2> DEFINE m == i.message
               c == m.hash
    <2>1. c \in Intents
        BY InboundAssumption DEF FillInstructions, CancelIntents
    <2>2. CASE IsKnown(c)
        BY <1>0, <1>1, <2>2 DEF ReceiveFillInstruction, capVars, intentVars, LeavesWindow
    <2>3. CASE ~IsKnown(c)
        <3>1. Register(i.eid, m) /\ record[c].status = "Unregistered" /\ UNCHANGED stellarNow
            BY <1>1, <2>3 DEF ReceiveFillInstruction, IsKnown
        <3>2. CASE Breach(MinDestAmount[c]) /\ UNCHANGED record
            BY <2>1, <3>1, <3>2 DEF DropsIntent, Register
        <3>3. CASE /\ Admit(MinDestAmount[c])
                   /\ record' = [record EXCEPT ![c] =
                        [Unregistered EXCEPT !.status = "Locked", !.srcEid = i.eid,
                                             !.solverEvm = m.solver,
                                             !.reservationExpires = ReservationEnd(c, m.window)]]
            <4>1. record'[c].status = "Locked"
                BY <1>0, <2>1, <3>3 DEF Unregistered
            <4>2. \A h \in Intents \ {c} : record'[h] = record[h]
                BY <1>0, <2>1, <3>3
            <4>. QED  BY <2>1, <3>1, <3>3, <4>1, <4>2 DEF AdmitsIntent, Register
        <3>. QED  BY <3>1, <3>2, <3>3 DEF Register
    <2>. QED  BY <2>2, <2>3
<1>2. ASSUME StaysRegistered, UNCHANGED <<stellarNow, capVars>>
      PROVE  LeavesWindow
    BY <1>2 DEF LeavesWindow, capVars
<1>3. ASSUME NEW c \in Intents, NEW r, record' = [record EXCEPT ![c] = r],
             record[c].status # "Unregistered", r.status # "Unregistered"
      PROVE  StaysRegistered
    BY <1>0, <1>3 DEF StaysRegistered
<1>4. ASSUME NEW i \in Inbound, ReceiveCancel(i.eid, i.nonce, i.message)
      PROVE  LeavesWindow
    <2> DEFINE c == i.message.hash
               r == [record[c] EXCEPT !.status = "Cancelled"]
    <2>1. c \in Intents
        BY InboundAssumption DEF FillInstructions, CancelIntents
    <2>2. r.status = "Cancelled"
        BY <1>0, <2>1 DEF Records
    <2>3. \/ UNCHANGED record
          \/ record' = [record EXCEPT ![c] = r] /\ record[c].status = "Locked"
        BY <1>4 DEF ReceiveCancel, ApplyCancel, intentVars
    <2>4. StaysRegistered
        <3> HIDE DEF r
        <3>. QED  BY <1>0, <1>3, <2>1, <2>2, <2>3
    <2>. QED  BY <1>2, <1>4, <2>4 DEF ReceiveCancel
<1>5. CASE SolverStep
    <2>1. PICK a \in Accounts, s \in EvmSolvers, c \in Intents, n \in FillAmounts :
              DeliverIntent(a, s, c, n) \/ FillIntent(a, s, c, n)
        BY <1>5 DEF SolverStep
    <2>2. /\ UNCHANGED <<stellarNow, capVars>> /\ record[c].status = "Locked"
          /\ \E status \in {"Filled", "ConfirmationSent"} : record' = FilledBy(c, a, s, n, status)
        BY <2>1 DEF DeliverIntent, FillIntent, ValidFill
    <2>3. PICK status \in {"Filled", "ConfirmationSent"} : record' = FilledBy(c, a, s, n, status)
        BY <2>2
    <2> DEFINE r == [record[c] EXCEPT !.status = status, !.solver = a,
                                      !.solverEvm = s, !.fillAmount = n,
                                      !.fillLedger = stellarNow]
    <2>4. record' = [record EXCEPT ![c] = r]
        BY <2>3 DEF FilledBy
    <2>5. r.status = status
        BY <1>0 DEF Records
    <2>6. StaysRegistered
        <3> HIDE DEF r
        <3>. QED  BY <1>3, <2>2, <2>4, <2>5
    <2>. QED  BY <1>2, <2>2, <2>6
<1>6. CASE KeeperStep
    <2>1. PICK a \in Accounts, c \in Intents :
              DispatchConfirmation(a, c) \/ CancelExpiredIntent(a, c)
        BY <1>6 DEF KeeperStep
    <2>2. /\ UNCHANGED <<stellarNow, capVars>> /\ record[c].status \in {"Filled", "Locked"}
          /\ \E status \in {"ConfirmationSent", "Cancelled"} :
                record' = [record EXCEPT ![c].status = status]
        BY <2>1 DEF DispatchConfirmation, CancelExpiredIntent
    <2>3. PICK status \in {"ConfirmationSent", "Cancelled"} :
              record' = [record EXCEPT ![c].status = status]
        BY <2>2
    <2> DEFINE r == [record[c] EXCEPT !.status = status]
    <2>4. record' = [record EXCEPT ![c] = r]
        BY <2>3
    <2>5. r.status = status
        BY <1>0 DEF Records
    <2>6. StaysRegistered
        <3> HIDE DEF r
        <3>. QED  BY <1>3, <2>2, <2>4, <2>5
    <2>. QED  BY <1>2, <2>2, <2>6
<1>7. CASE AdminStep
    <2>1. UNCHANGED record /\ UNCHANGED stellarNow /\ (CapsStep \/ UNCHANGED capVars)
        BY <1>7 DEF AdminStep, SetPaused, SetPausedEid, SetDestTokenAllowed, SetKeeperReward,
                    SetDispatchKeeperReward, otherThanConfig, intentVars
    <2>2. UNCHANGED windowVars \/ ResetRollingWindowCap
        BY <2>1 DEF CapsStep, SetMaxIntentAmount, SetRollingWindowCap, capVars
    <2>3. UNCHANGED windowVars => LeavesWindow
        BY <1>0, <2>1 DEF LeavesWindow
    <2>. QED  BY <2>1, <2>2, <2>3 DEF ResetsWindow
<1>8. CASE FundReserve \/ UNCHANGED vars
    <2>1. UNCHANGED record /\ UNCHANGED <<stellarNow, capVars>>
        BY <1>8 DEF FundReserve, otherThanConfig, intentVars, vars, settlementVars
    <2>. QED  BY <1>0, <1>2, <2>1
<1>9. CASE Tick
    BY <1>0, <1>9 DEF Tick, StellarTick, settlementVars, capVars, intentVars, LeavesWindow
<1>. QED  BY <1>1, <1>4, <1>5, <1>6, <1>7, <1>8, <1>9 DEF Next, Receive

SameWindowConfig == UNCHANGED <<rollingWindowDuration, rollingWindowCap>>

\* Nothing new is registered, and the accounting stays as it is.
LEMMA LeavingKeepsWindow ==
    ASSUME WindowTypes, WindowTypes', WindowInv, SameWindowConfig, LeavesWindow,
           registeredAt' = registeredAt
    PROVE  WindowInv'
<1>0. stellarNow \in Nat /\ stellarNow' \in Nat /\ stellarNow' >= stellarNow
    BY ClockAssumption DEF WindowTypes, TypeInv, TypeOK, Times, LeavesWindow
<1>1. RegistrationTimes'
    BY <1>0 DEF WindowInv, RegistrationTimes, LeavesWindow, StaysRegistered
<1>2. RegistrationsAccumulated'
    BY DEF WindowInv, RegistrationsAccumulated, SameWindowConfig, WindowCapActive, WindowOf,
           OrZero, LeavesWindow, windowVars
<1>3. BreakerOutlastsWindow'
    BY DEF WindowInv, BreakerOutlastsWindow, SameWindowConfig, WindowCapActive,
           LeavesWindow, windowVars
<1>4. WindowCapActive' <=> WindowCapActive
    BY DEF WindowCapActive, SameWindowConfig
<1>5. CASE WindowStart' = WindowStart
    <2>1. RegisteredSince(WindowStart)' = RegisteredSince(WindowStart)
        BY <1>5 DEF RegisteredSince
    <2>2. LiveBuckets' = LiveBuckets
        BY <1>5 DEF LiveBuckets, EntersWindow, OrZero, LeavesWindow, windowVars
    <2>3. WindowUse' = WindowUse
        BY <1>5, <2>2 DEF WindowUse, BucketOf
    <2>. QED  BY <1>1, <1>2, <1>3, <1>4, <2>1, <2>3
              DEF WindowInv, UseCoversRegistrations, WindowCapHolds, RegisteredInWindow,
                  IntentOrder, SameWindowConfig
<1>6. CASE WindowStart' # WindowStart
    <2>1. ASSUME NEW h \in Intents, WindowCapActive'
          PROVE  RegisteredSince(WindowStart)'[h] = 0
        <3>1. PICK d \in Nat \ {0} : d = rollingWindowDuration /\ d = rollingWindowDuration'
            BY <2>1 DEF WindowTypes, SameWindowConfig
        <3>2. PICK s \in Nat, t \in Nat : s = stellarNow /\ t = stellarNow'
            BY <1>0
        <3>3. WindowStart = (s \div d) * d /\ WindowStart' = (t \div d) * d
            BY <3>1, <3>2 DEF WindowStart
        <3>4. t = s + 1
            BY <1>6, <3>2, <3>3 DEF LeavesWindow
        <3>5. (t \div d) * d > s
            <4>1. /\ (s \div d) * d \in 0 .. s
                  /\ (t \div d) * d \in 0 .. t
                  /\ t >= (s \div d) * d => (t \div d) * d >= (s \div d) * d
                  /\ s >= (t \div d) * d => (s \div d) * d >= (t \div d) * d
                BY WindowsAreMultiples
            <4>. QED  BY <1>6, <3>3, <3>4, <4>1
        <3>6. registeredAt[h] \in Nat /\ registeredAt[h] <= s
            BY <3>2 DEF WindowInv, RegistrationTimes
        <3>7. ~(registeredAt'[h] >= WindowStart')
            BY <3>3, <3>5, <3>6, WindowsAreMultiples
        <3>. QED  BY <3>7 DEF RegisteredSince
    <2>. QED  BY <1>1, <1>2, <1>3, <2>1, FreshWindow
<1>. QED  BY <1>5, <1>6

\* A breaker that may be reset: what tripped it has left the window.
LEMMA ResetKeepsWindow ==
    ASSUME WindowTypes, WindowTypes', WindowInv, SameWindowConfig, ResetsWindow,
           rollingWindowTriggered, registeredAt' = registeredAt
    PROVE  WindowInv'
<1>1. RegistrationTimes'
    BY DEF WindowInv, RegistrationTimes, ResetsWindow
<1>2. /\ WindowCapActive' <=> WindowCapActive
      /\ WindowStart' = WindowStart
      /\ \A h \in Intents : WindowOf(registeredAt[h])' = WindowOf(registeredAt[h])
    BY DEF WindowCapActive, WindowStart, WindowOf, SameWindowConfig, ResetsWindow
<1>3. BreakerOutlastsWindow'
    BY DEF BreakerOutlastsWindow, ResetsWindow, ResetRollingWindowCap
<1>4. stellarNow \in Nat
    BY ClockAssumption DEF WindowTypes, TypeInv, TypeOK, Times
<1>5. RegistrationsAccumulated'
    <2> SUFFICES ASSUME WindowCapActive, NEW h \in Intents, registeredAt[h] # 0
                 PROVE  WindowOf(registeredAt[h])' <= OrZero(latestWindowStart')
        BY <1>2 DEF RegistrationsAccumulated
    <2>1. PICK d \in Nat \ {0} : d = rollingWindowDuration
        BY DEF WindowTypes
    <2>2. PICK s \in Nat, t \in Nat : s = registeredAt[h] /\ t = stellarNow /\ s <= t
        BY <1>4 DEF WindowInv, RegistrationTimes
    <2>3. (t \div d) * d >= (s \div d) * d
        <3>1. (s \div d) * d \in 0 .. s
            BY WindowsAreMultiples
        <3>2. t >= (s \div d) * d
            BY <2>2, <3>1
        <3>. QED  BY <3>2, WindowsAreMultiples
    <2>4. (s \div d) * d \in Nat /\ (t \div d) * d \in Nat
        BY WindowsAreMultiples
    <2>5. latestWindowStart' = {WindowStart}
        BY <2>1 DEF ResetsWindow, ResetRollingWindowCap
    <2>6. OrZero(latestWindowStart') = (t \div d) * d
        BY <2>1, <2>2, <2>5 DEF OrZero, WindowStart
    <2>7. WindowOf(registeredAt[h])' = (s \div d) * d
        BY <1>2, <2>1, <2>2 DEF WindowOf
    <2>. QED  BY <2>3, <2>4, <2>6, <2>7
<1>6. ASSUME NEW h \in Intents, WindowCapActive'
      PROVE  RegisteredSince(WindowStart)'[h] = 0
    <2>1. PICK d \in Nat \ {0} : d = rollingWindowDuration
        BY <1>2, <1>6 DEF WindowTypes
    <2>2. PICK s \in Nat : s = stellarNow
        BY <1>4
    <2>3. (s \div d) * d \in Nat /\ s < (s \div d) * d + d
        BY WindowsAreMultiples
    <2>4. WindowStart = (s \div d) * d
        BY <2>1, <2>2 DEF WindowStart
    <2>5. registeredAt[h] \in Nat
        BY DEF WindowInv, RegistrationTimes
    <2>6. registeredAt[h] # 0 => registeredAt[h] + d <= s
        <3> SUFFICES ASSUME registeredAt[h] # 0
                     PROVE  registeredAt[h] + d <= s
            OBVIOUS
        <3>1. PICK t \in rollingWindowResetAt : registeredAt[h] + d <= t
            BY <1>2, <1>6, <2>1 DEF WindowInv, BreakerOutlastsWindow
        <3>2. t <= s
            BY <2>2 DEF ResetsWindow, ResetRollingWindowCap
        <3>3. t \in Nat
            BY DEF WindowTypes, TypeInv, TypeOK, CapsTypeOK, IsOption
        <3>. QED  BY <2>5, <3>1, <3>2, <3>3
    <2>7. registeredAt[h] # 0 => ~(registeredAt[h] >= WindowStart)
        BY <2>3, <2>4, <2>5, <2>6
    <2>. QED  BY <1>2, <2>7 DEF RegisteredSince
<1>. QED  BY <1>1, <1>3, <1>5, <1>6, FreshWindow

\* When the window moves on, nothing that was registered counts in the new one.
LEMMA EnteringForgetsNothing ==
    ASSUME WindowTypes, WindowInv, WindowCapActive, EntersWindow, NEW h \in Intents
    PROVE  RegisteredSince(WindowStart)[h] = 0
<1>1. PICK d \in Nat \ {0} : d = rollingWindowDuration
    BY DEF WindowTypes
<1>2. PICK s \in Nat, t \in Nat : s = stellarNow /\ t = registeredAt[h]
    <2>1. stellarNow \in Nat
        BY ClockAssumption DEF WindowTypes, TypeInv, TypeOK, Times
    <2>2. registeredAt[h] \in Nat
        BY DEF WindowInv, RegistrationTimes
    <2>. QED  BY <2>1, <2>2
<1>3. WindowStart = (s \div d) * d /\ WindowOf(registeredAt[h]) = (t \div d) * d
    BY <1>1, <1>2 DEF WindowStart, WindowOf
<1>4. /\ t >= (s \div d) * d => (t \div d) * d >= (s \div d) * d
      /\ (s \div d) * d \in Nat /\ (t \div d) * d \in Nat
    BY WindowsAreMultiples
<1>5. t # 0 => (t \div d) * d <= OrZero(latestWindowStart)
    BY <1>2, <1>3 DEF WindowInv, RegistrationsAccumulated
<1>6. OrZero(latestWindowStart) \in Nat /\ (s \div d) * d > OrZero(latestWindowStart)
    BY <1>3 DEF WindowTypes, EntersWindow
<1>7. t # 0 => ~(t >= (s \div d) * d)
    BY <1>4, <1>5, <1>6
<1>. QED  BY <1>2, <1>3, <1>7 DEF RegisteredSince

\* What an accumulation leaves in the window.
LEMMA AccumulationAdds ==
    ASSUME WindowTypes, WindowTypes', WindowCapActive, SameWindowConfig, UNCHANGED stellarNow,
           NEW n \in Nat, Accumulate(n)
    PROVE  /\ WindowUse' = WindowUse + n
           /\ OrZero(latestWindowStart') >= WindowStart
           /\ OrZero(latestWindowStart') >= OrZero(latestWindowStart)
<1>1. PICK w \in Nat : w = WindowStart /\ w = WindowStart'
    <2>1. WindowStart' = WindowStart
        BY DEF WindowStart, SameWindowConfig
    <2>2. WindowStart \in Nat
        BY ClockAssumption DEF WindowTypes, TypeInv, TypeOK, Times
    <2>. QED  BY <2>1, <2>2
<1>2. OrZero(latestWindowStart) \in Nat /\ OrZero(latestWindowStart') \in Nat
    BY DEF WindowTypes
<1>3. OrZero({w}) = w
    BY DEF OrZero
<1>4. OrZero(latestWindowStart') =
          IF w > OrZero(latestWindowStart) THEN w ELSE OrZero(latestWindowStart)
    BY <1>1, <1>3 DEF Accumulate, EntersWindow
<1>5. /\ OrZero(latestWindowStart') >= WindowStart
      /\ OrZero(latestWindowStart') >= OrZero(latestWindowStart)
    BY <1>1, <1>2, <1>4
<1>6. ~EntersWindow'
    BY <1>1, <1>2, <1>5 DEF EntersWindow
<1>7. WindowUse' = BucketOf(rollingWindowBucket', w)
    BY <1>1, <1>6 DEF WindowUse, LiveBuckets
<1>8. w \in DOMAIN rollingWindowBucket' /\ rollingWindowBucket'[w] = WindowUse + n
    BY <1>1 DEF Accumulate, Accumulated, WindowUse
<1>. QED  BY <1>5, <1>7, <1>8 DEF BucketOf

RecordsRegistration(c) ==
    /\ MinDestAmount[c] > 0
    /\ record[c].status = "Unregistered" /\ record'[c].status = "Locked"
    /\ \A h \in Intents \ {c} : record'[h] = record[h]
    /\ UNCHANGED stellarNow
    /\ registeredAt' = [registeredAt EXCEPT ![c] = stellarNow]

LEMMA RegistrationAddsToWindow ==
    ASSUME WindowTypes, WindowTypes', WindowInv, WindowCapActive, SameWindowConfig,
           NEW c \in Intents, RecordsRegistration(c)
    PROVE  RegisteredInWindow' = RegisteredInWindow + MinDestAmount[c]
<1>1. WindowStart' = WindowStart
    BY DEF RecordsRegistration, WindowStart, SameWindowConfig
<1>2. stellarNow \in Nat \ {0} /\ stellarNow >= WindowStart
    BY ClockAssumption DEF WindowTypes, TypeInv, TypeOK, Times
<1>3. PICK old : old = RegisteredSince(WindowStart)
    OBVIOUS
<1>4. PICK new : new = RegisteredSince(WindowStart)'
    OBVIOUS
<1>5. /\ registeredAt \in [Intents -> Nat] /\ registeredAt[c] = 0
      /\ registeredAt'[c] = stellarNow
      /\ \A h \in Intents : h # c => registeredAt'[h] = registeredAt[h]
    BY DEF WindowInv, RegistrationTimes, RecordsRegistration
<1>6. \A h \in Intents : old[h] \in Int /\ new[h] \in Int
    BY <1>3, <1>4, SettlementAssumption DEF RegisteredSince
<1>7. \A h \in Intents : h # c => new[h] = old[h]
    BY <1>1, <1>3, <1>4, <1>5 DEF RegisteredSince
<1>8. old[c] = 0 /\ new[c] = MinDestAmount[c]
    BY <1>1, <1>2, <1>3, <1>4, <1>5 DEF RegisteredSince
<1>9. Total(IntentOrder, new) = Total(IntentOrder, old) + (new[c] - old[c])
    BY <1>6, <1>7, OrderOfIntents, TotalOfChange
<1>10. MinDestAmount[c] \in Int
    BY SettlementAssumption
<1>11. new[c] - old[c] = MinDestAmount[c]
    BY <1>8, <1>10
<1>. QED  BY <1>3, <1>4, <1>9, <1>11 DEF RegisteredInWindow, IntentOrder

LEMMA RegisteredIsInt == WindowTypes => RegisteredInWindow \in Int
<1>1. PICK amounts : amounts = RegisteredSince(WindowStart)
    OBVIOUS
<1>2. \A h \in Intents : amounts[h] \in Int
    BY <1>1, SettlementAssumption DEF RegisteredSince
<1>3. IntentOrder \in Seq(Intents)
    BY OrderOfIntents DEF Enumerates
<1>4. Total(IntentOrder, amounts) \in Int
    BY <1>2, <1>3, TotalIsInt DEF Total
<1>. QED  BY <1>1, <1>4 DEF RegisteredInWindow

LEMMA AdmissionKeepsWindow ==
    ASSUME WindowTypes, WindowTypes', WindowInv, SameWindowConfig, NEW c \in Intents,
           AdmitsIntent(c), RecordsRegistration(c)
    PROVE  WindowInv'
<1> DEFINE n == MinDestAmount[c]
<1>0. n \in Nat
    BY SettlementAssumption DEF AdmitsIntent
<1>1. /\ registeredAt \in [Intents -> Nat] /\ stellarNow \in Nat
      /\ registeredAt' \in [Intents -> Nat] /\ registeredAt'[c] = stellarNow
      /\ \A h \in Intents : h # c => registeredAt'[h] = registeredAt[h]
    BY ClockAssumption DEF WindowTypes, TypeInv, TypeOK, Times, WindowInv, RegistrationTimes,
                           RecordsRegistration
<1>2. RegistrationTimes'
    BY <1>1 DEF WindowInv, RegistrationTimes, RecordsRegistration
<1>3. /\ WindowCapActive' <=> WindowCapActive
      /\ WindowStart' = WindowStart
      /\ \A t \in Nat : WindowOf(t)' = WindowOf(t)
    BY DEF WindowCapActive, WindowStart, WindowOf, SameWindowConfig, RecordsRegistration
<1>4. WindowCapActive => Accumulate(n) /\ ~rollingWindowTriggered
    BY DEF AdmitsIntent, Admit, CapsAllow
<1>5. BreakerOutlastsWindow'
    BY <1>3, <1>4 DEF BreakerOutlastsWindow, AdmitsIntent, Admit
<1>6. ASSUME WindowCapActive
      PROVE  /\ WindowUse' = WindowUse + n
             /\ OrZero(latestWindowStart') >= WindowStart
             /\ OrZero(latestWindowStart') >= OrZero(latestWindowStart)
    BY <1>0, <1>4, <1>6, AccumulationAdds DEF RecordsRegistration
<1>7. RegistrationsAccumulated'
    <2> SUFFICES ASSUME WindowCapActive, NEW h \in Intents, registeredAt'[h] # 0
                 PROVE  WindowOf(registeredAt[h])' <= OrZero(latestWindowStart')
        BY <1>3 DEF RegistrationsAccumulated
    <2>1. CASE h = c
        <3>1. WindowOf(registeredAt[h])' = WindowStart
            BY <1>1, <2>1 DEF WindowOf, WindowStart, SameWindowConfig
        <3>2. WindowStart \in Nat /\ OrZero(latestWindowStart') \in Nat
            BY ClockAssumption DEF WindowTypes, TypeInv, TypeOK, Times
        <3>. QED  BY <1>6, <3>1, <3>2
    <2>2. CASE h # c
        <3>1. WindowOf(registeredAt[h])' = WindowOf(registeredAt[h])
            BY <1>1, <2>2 DEF WindowOf, SameWindowConfig
        <3>2. WindowOf(registeredAt[h]) <= OrZero(latestWindowStart)
            BY <1>1, <2>2 DEF WindowInv, RegistrationsAccumulated
        <3>3. WindowOf(registeredAt[h]) \in Int
            <4>1. rollingWindowDuration \in Nat \ {0} /\ registeredAt[h] \in Nat
                BY <1>1 DEF WindowTypes
            <4>. QED  BY <4>1, WindowsAreMultiples DEF WindowOf
        <3>4. OrZero(latestWindowStart) \in Nat /\ OrZero(latestWindowStart') \in Nat
            BY DEF WindowTypes
        <3>. QED  BY <1>6, <3>1, <3>2, <3>3, <3>4
    <2>. QED  BY <2>1, <2>2
<1>8. ASSUME WindowCapActive
      PROVE  RegisteredInWindow' <= WindowUse' /\ RegisteredInWindow' <= rollingWindowCap'
    <2>1. RegisteredInWindow' = RegisteredInWindow + n
        BY <1>8, RegistrationAddsToWindow
    <2>2. RegisteredInWindow <= WindowUse /\ WindowUse \in Nat /\ rollingWindowCap \in Nat
        BY <1>8 DEF WindowInv, UseCoversRegistrations, WindowTypes, TypeInv, TypeOK, CapsTypeOK
    <2>3. RegisteredInWindow \in Int
        BY RegisteredIsInt
    <2>4. WindowUse + n <= rollingWindowCap /\ rollingWindowCap' = rollingWindowCap
        BY <1>8 DEF AdmitsIntent, Admit, Accumulated, WindowUse, SameWindowConfig
    <2>. QED  BY <1>0, <1>6, <1>8, <2>1, <2>2, <2>3, <2>4
<1>. QED  BY <1>2, <1>3, <1>5, <1>7, <1>8
          DEF WindowInv, UseCoversRegistrations, WindowCapHolds, RegisteredInWindow

\* A breach adds to the bucket all the same, and registers nothing.
LEMMA BreachKeepsWindow ==
    ASSUME WindowTypes, WindowTypes', WindowInv, SameWindowConfig, NEW c \in Intents,
           DropsIntent(c), registeredAt' = registeredAt
    PROVE  WindowInv'
<1> DEFINE n == MinDestAmount[c]
<1>0. n \in Nat /\ WindowCapActive /\ Accumulate(n) /\ UNCHANGED stellarNow
    BY SettlementAssumption DEF DropsIntent, Breach
<1>1. RegistrationTimes'
    BY <1>0 DEF WindowInv, RegistrationTimes, DropsIntent
<1>2. /\ WindowCapActive' <=> WindowCapActive
      /\ WindowStart' = WindowStart
      /\ \A t \in Nat : WindowOf(t)' = WindowOf(t)
    BY <1>0 DEF WindowCapActive, WindowStart, WindowOf, SameWindowConfig
<1>3. /\ WindowUse' = WindowUse + n
      /\ OrZero(latestWindowStart') >= OrZero(latestWindowStart)
    BY <1>0, AccumulationAdds
<1>4. \A h \in Intents : registeredAt[h] \in Nat /\ WindowOf(registeredAt[h]) \in Int
    <2>1. rollingWindowDuration \in Nat \ {0} /\ registeredAt \in [Intents -> Nat]
        BY <1>0 DEF WindowTypes, WindowInv, RegistrationTimes
    <2>. QED  BY <2>1, WindowsAreMultiples DEF WindowOf
<1>5. RegistrationsAccumulated'
    <2>1. OrZero(latestWindowStart) \in Nat /\ OrZero(latestWindowStart') \in Nat
        BY DEF WindowTypes
    <2>2. ASSUME NEW h \in Intents, registeredAt[h] # 0
          PROVE  WindowOf(registeredAt[h])' <= OrZero(latestWindowStart')
        <3>1. WindowOf(registeredAt[h])' = WindowOf(registeredAt[h])
            BY <1>2, <1>4 DEF WindowOf, SameWindowConfig
        <3>2. WindowOf(registeredAt[h]) <= OrZero(latestWindowStart)
            BY <1>0, <2>2 DEF WindowInv, RegistrationsAccumulated
        <3>. QED  BY <1>3, <1>4, <2>1, <3>1, <3>2
    <2>. QED  BY <2>2 DEF RegistrationsAccumulated
<1>6. BreakerOutlastsWindow'
    <2>1. PICK d \in Nat : d = rollingWindowDuration /\ d = rollingWindowDuration'
        BY DEF WindowTypes, TypeInv, TypeOK, CapsTypeOK, SameWindowConfig
    <2>2. PICK s \in Nat : s = stellarNow
        BY ClockAssumption DEF WindowTypes, TypeInv, TypeOK, Times
    <2>3. \A h \in Intents : registeredAt[h] # 0 => registeredAt[h] <= s
        BY <2>2 DEF WindowInv, RegistrationTimes
    <2>4. rollingWindowResetAt' = {s + d}
        BY <2>1, <2>2 DEF DropsIntent, Breach
    <2>5. \A h \in Intents : registeredAt[h] # 0 => registeredAt[h] + d <= s + d
        BY <1>4, <2>3
    <2>. QED  BY <2>1, <2>4, <2>5 DEF BreakerOutlastsWindow
<1>7. RegisteredInWindow' = RegisteredInWindow
    <2>1. RegisteredSince(WindowStart)' = RegisteredSince(WindowStart)
        BY <1>2 DEF RegisteredSince
    <2>. QED  BY <2>1 DEF RegisteredInWindow, IntentOrder
<1>8. RegisteredInWindow' <= WindowUse' /\ RegisteredInWindow' <= rollingWindowCap'
    <2>1. /\ RegisteredInWindow <= WindowUse /\ RegisteredInWindow <= rollingWindowCap
          /\ rollingWindowCap' = rollingWindowCap
        BY <1>0 DEF WindowInv, UseCoversRegistrations, WindowCapHolds, RegisteredInWindow,
                    SameWindowConfig
    <2>2. WindowUse \in Nat /\ RegisteredInWindow \in Int
        BY RegisteredIsInt DEF WindowTypes
    <2>. QED  BY <1>0, <1>3, <1>7, <2>1, <2>2
<1>. QED  BY <1>1, <1>5, <1>6, <1>8
          DEF WindowInv, UseCoversRegistrations, WindowCapHolds, RegisteredInWindow

LEMMA StepsKeepWindowInv ==
    ASSUME WindowTypes, WindowTypes', WindowInv, [WindowNext]_<<vars, registeredAt>>
    PROVE  WindowInv'
<1>0. registeredAt \in [Intents -> Nat] /\ record \in [Intents -> Records]
    BY DEF WindowInv, RegistrationTimes, WindowTypes, TypeInv, TypeOK
<1>1. CASE UNCHANGED <<vars, registeredAt>>
    <2>1. LeavesWindow /\ SameWindowConfig
        BY <1>1 DEF vars, settlementVars, capVars, capConfigVars, windowVars, intentVars,
                    LeavesWindow, StaysRegistered, SameWindowConfig
    <2>. QED  BY <1>1, <2>1, LeavingKeepsWindow
<1>2. CASE WindowNext /\ Restarts
    <2>1. registeredAt' = [h \in Intents |-> 0]
        BY <1>2 DEF WindowNext
    <2>. QED  BY <2>1, RestartKeepsWindow
<1>3. CASE WindowNext /\ ~Restarts
    <2>1. SameWindowConfig /\ ~(ResetRollingWindowCap /\ ~rollingWindowTriggered)
        BY <1>3 DEF Restarts, SameWindowConfig
    <2>2. registeredAt' = [h \in Intents |->
              IF record[h].status = "Unregistered" /\ record'[h].status = "Locked"
              THEN stellarNow ELSE registeredAt[h]]
        BY <1>3 DEF WindowNext
    <2>3. ASSUME StaysRegistered
          PROVE  registeredAt' = registeredAt
        BY <1>0, <2>2, <2>3 DEF StaysRegistered
    <2>4. UNCHANGED record => StaysRegistered
        BY DEF StaysRegistered
    <2>5. CASE LeavesWindow
        BY <2>1, <2>3, <2>5, LeavingKeepsWindow DEF LeavesWindow
    <2>6. CASE ResetsWindow
        BY <2>1, <2>3, <2>4, <2>6, ResetKeepsWindow DEF ResetsWindow
    <2>7. ASSUME NEW c \in Intents, DropsIntent(c)
          PROVE  WindowInv'
        BY <2>1, <2>3, <2>4, <2>7, BreachKeepsWindow DEF DropsIntent
    <2>8. ASSUME NEW c \in Intents, AdmitsIntent(c)
          PROVE  WindowInv'
        <3>1. \A h \in Intents :
                  registeredAt'[h] = IF h = c THEN stellarNow ELSE registeredAt[h]
            BY <2>2, <2>8 DEF AdmitsIntent
        <3>2. registeredAt' = [registeredAt EXCEPT ![c] = stellarNow]
            BY <1>0, <2>2, <3>1
        <3>. QED  BY <2>1, <2>8, <3>2, AdmissionKeepsWindow
                  DEF AdmitsIntent, RecordsRegistration
    <2>9. TypeInv /\ [Next]_vars
        BY <1>3 DEF WindowNext, WindowTypes
    <2>. QED  BY <2>5, <2>6, <2>7, <2>8, <2>9, StepsOfTheWindow
<1>. QED  BY <1>1, <1>2, <1>3

(* Under one configuration no window registers more than the cap, for any    *)
(* intents, caps and durations: dropping the bucket of an older window when  *)
(* the memoized start moves on, and the reset of a breaker whose time is     *)
(* over, never make the contract forget what it admitted.                    *)
THEOREM WindowCapIsKept == WindowSpec => []WindowCapHolds
<1>1. WindowInit /\ WindowTypes => WindowInv
    <2> SUFFICES ASSUME WindowInit, WindowTypes
                 PROVE  WindowInv
        OBVIOUS
    <2>1. registeredAt \in [Intents -> Nat] /\ \A h \in Intents : registeredAt[h] = 0
        BY DEF WindowInit
    <2>2. RegistrationTimes /\ RegistrationsAccumulated /\ BreakerOutlastsWindow
        BY <2>1 DEF RegistrationTimes, RegistrationsAccumulated, BreakerOutlastsWindow
    <2>3. RegisteredInWindow = 0
        <3>1. \A h \in Intents : RegisteredSince(WindowStart)[h] = 0
            BY <2>1 DEF RegisteredSince
        <3>. QED  BY <3>1, NothingCounts DEF RegisteredInWindow
    <2>4. WindowUse \in Nat /\ rollingWindowCap \in Nat
        BY DEF WindowTypes, TypeInv, TypeOK, CapsTypeOK
    <2>. QED  BY <2>2, <2>3, <2>4
              DEF WindowInv, UseCoversRegistrations, WindowCapHolds, RegisteredInWindow
<1>2. WindowTypes /\ WindowTypes' /\ WindowInv /\ [WindowNext]_<<vars, registeredAt>>
          => WindowInv'
    BY StepsKeepWindowInv
<1>3. WindowSpec => Spec
    <2>1. WindowInit => Init
        BY DEF WindowInit
    <2>2. [WindowNext]_<<vars, registeredAt>> => [Next]_vars
        BY DEF WindowNext
    <2>. QED  BY <2>1, <2>2, PTL DEF WindowSpec, Spec
<1>4. WindowInv => WindowCapHolds
    BY DEF WindowInv
<1>. QED  BY <1>1, <1>2, <1>3, <1>4, WindowTypesHold, PTL DEF WindowSpec
=============================================================================
