------------------------------- MODULE Bridge -------------------------------
(* The escrow on the source chain and the settlement contract on Stellar,    *)
(* joined by LayerZero: a message is delivered at any time after it was      *)
(* sent, in any order, repeatedly or never.  The two chains have clocks of   *)
(* their own.  Configuration, caps, pauses and rewards are held fixed here;  *)
(* modules Escrow and Settlement have them.                                  *)
EXTENDS Integers, Sequences, FiniteSets

CONSTANTS
    Intents, SourceAsset, SourceAmount, MinDestAmount, Deadline, PreferredSolver,
    DestAsset, Assets, NoAsset, Solvers, NoSolver, User, StellarPeer, NoPeer,
    Admin, NoAccount, StellarAccounts, EvmEid, NoEid,
    FillAmounts,
    ConfirmationGrace, MinConfirmationGrace, MaxConfirmationGrace,
    MinDispatchWindow, MaxDeadlineHorizon,
    StartTime, MaxTime,
    Timings  \* how far the clocks of the two chains may drift apart, and how long a
             \* message to the escrow takes at most, on its clock

ASSUME BridgeAssumption ==
    /\ Timings \subseteq [skew : Nat, latency : Nat]
    /\ SourceAsset \in [Intents -> Assets] /\ SourceAmount \in [Intents -> Nat]
    /\ MinDestAmount \in [Intents -> Nat] /\ Deadline \in [Intents -> Nat]
    /\ NoSolver \notin Solvers /\ User \notin Solvers
    /\ NoEid # EvmEid
    /\ FillAmounts \subseteq Int
    /\ ConfirmationGrace \in Nat /\ MinDispatchWindow \in Nat \ {0}
    /\ StartTime \in Nat

VARIABLES
    evmNow, locks, totalLocked, balance, payments, evmConsumed, evmOutbox,
    stellarNow, record, settled, cancelled, confirmed, deliveries,
    stellarConsumed, stellarOutbox, reputation,
    config,   \* the configuration of the escrow and the timing, which stay as they were
    sentAt   \* history: when each message to the escrow was sent, on its clock

evmVars == <<evmNow, locks, totalLocked, balance, payments, evmConsumed, evmOutbox>>
stellarVars == <<stellarNow, record, settled, cancelled, confirmed, deliveries,
                 stellarConsumed, stellarOutbox, reputation>>
vars == <<config, evmVars, stellarVars, sentAt>>

E == INSTANCE Escrow WITH
        Accounts <- {Admin}, RoleCallers <- {}, ConfigCallers <- {}, Deployer <- Admin,
        GuardianPauseTtl <- 1,
        ConfiguredMax <- [a \in Assets |-> MaxTime], ConfiguredGlobalMax <- 0,
        ConfiguredDuration <- 0, ConfiguredCap <- [a \in Assets |-> 0],
        ToggledAssets <- {}, LockMaxima <- {}, WindowDurations <- {}, WindowCaps <- {},
        TransferFee <- [a \in Assets |-> 0], LzFee <- 0, CallValues <- {0},
        Peers <- {StellarPeer}, ConfiguredPeer <- StellarPeer,
        ConfiguredGrace <- ConfirmationGrace, GraceValues <- {},
        InboundMessages <- {}, InboundNonces <- {}, MaxDonation <- 0,
        owner <- config.owner, pendingOwner <- config.pendingOwner,
        guardian <- config.guardian, paused <- config.off, guardianPauseExpiry <- 0, guardianPauseCooldownUntil <- 0,
        assetAllowed <- config.assets, maxIntentAmountPerAsset <- [a \in Assets |-> MaxTime],
        maxIntentAmount <- 0, rollingWindowDuration <- 0,
        rollingWindowCapPerAsset <- [a \in Assets |-> 0],
        rollingWindowBuckets <- [a \in Assets |-> [t \in 0 .. MaxTime |-> 0]],
        latestWindowStart <- [a \in Assets |-> 0], rollingWindowTriggered <- config.off,
        rollingWindowTriggeredAsset <- config.noAsset, rollingWindowResetEarliestAt <- 0,
        stellarPeer <- config.peer, confirmationGrace <- config.grace,
        nativeBalance <- 0, consumed <- evmConsumed, outbox <- evmOutbox

S == INSTANCE Settlement WITH
        ConfiguredMaxAmount <- 0, ConfiguredDuration <- 0, ConfiguredCap <- 0,
        AmountMaxima <- {}, WindowDurations <- {}, WindowCaps <- {},
        ContractTokens <- {}, Eids <- {EvmEid}, EvmSolvers <- Solvers,
        Accounts <- StellarAccounts, DispatchRewardGrace <- 1, Inbound <- {},
        PauseFlags <- {}, Rewards <- {}, InitialReserve <- 0, MaxReserve <- 0,
        maxIntentAmount <- 0, rollingWindowDuration <- 0, rollingWindowCap <- 0,
        rollingWindowBucket <- << >>, latestWindowStart <- {},
        rollingWindowTriggered <- config.off, rollingWindowResetAt <- {},
        consumed <- stellarConsumed, outbox <- stellarOutbox,
        paused <- config.off, pausedEids <- {}, allowedDestTokens <- {},
        keeperReward <- 0, dispatchReward <- 0, reserve <- 0

Configured(timing) ==
    [owner |-> Admin, pendingOwner |-> NoAccount, guardian |-> NoAccount,
     assets |-> Assets, noAsset |-> NoAsset, peer |-> StellarPeer,
     grace |-> ConfirmationGrace, off |-> FALSE, timing |-> timing]

Init == (\E t \in Timings : config = Configured(t)) /\ E!Init /\ S!Init /\ sentAt = <<>>
-----------------------------------------------------------------------------
Lock(h, solver) ==
    /\ UNCHANGED <<config, stellarVars, sentAt>>
    /\ E!Lock(h, solver, 0)

CancelExpired(h) ==
    /\ UNCHANGED <<config, stellarVars, sentAt>>
    /\ E!CancelExpired(h)

(* The endpoint delivers the n-th message of the other chain.                *)
DeliverInstruction(n) ==
    /\ n \in DOMAIN evmOutbox
    /\ UNCHANGED <<config, evmVars, sentAt>>
    /\ S!ReceiveFillInstruction(EvmEid, n, evmOutbox[n])

DeliverVerdict(n) ==
    /\ n \in DOMAIN stellarOutbox[EvmEid]
    /\ UNCHANGED <<config, stellarVars, sentAt>>
    /\ E!LzReceive(StellarPeer, n, stellarOutbox[EvmEid][n], 0)

StampNewMessage ==
    sentAt' = IF Len(stellarOutbox'[EvmEid]) > Len(sentAt)
              THEN Append(sentAt, evmNow) ELSE sentAt

Settle ==
    /\ UNCHANGED <<config, evmVars>>
    /\ S!SolverStep \/ S!KeeperStep
    /\ StampNewMessage

(* The escrow's clock stays within the skew of Stellar's, and does not move   *)
(* on while a message for a live lock is as old as the latency.              *)
Overdue ==
    \E n \in DOMAIN sentAt :
        /\ n \notin evmConsumed
        /\ E!Live(stellarOutbox[EvmEid][n].hash)
        /\ evmNow >= sentAt[n] + config.timing.latency

EvmTick ==
    /\ UNCHANGED <<config, locks, totalLocked, balance, payments, evmConsumed, evmOutbox,
                   stellarVars, sentAt>>
    /\ evmNow < stellarNow + config.timing.skew
    /\ ~Overdue
    /\ E!EvmTick

StellarTick ==
    /\ UNCHANGED <<config, evmVars, record, settled, cancelled, confirmed, deliveries,
                   stellarConsumed, stellarOutbox, reputation, sentAt>>
    /\ stellarNow < evmNow + config.timing.skew
    /\ S!StellarTick

Next ==
    \/ \E h \in Intents, s \in Solvers : Lock(h, s)
    \/ \E h \in Intents : CancelExpired(h)
    \/ \E n \in DOMAIN evmOutbox : DeliverInstruction(n)
    \/ \E n \in DOMAIN stellarOutbox[EvmEid] : DeliverVerdict(n)
    \/ Settle
    \/ EvmTick
    \/ StellarTick

Spec == Init /\ [][Next]_vars

(* Both chains go on, the endpoint executes what it carries, and somebody    *)
(* makes the permissionless refund call; no solver and no keeper is obliged  *)
(* to act on Stellar.                                                        *)
FairSpec ==
    /\ Spec
    /\ WF_vars(EvmTick)
    /\ WF_vars(StellarTick)
    /\ \A n \in 1 .. Cardinality(Intents) : WF_vars(DeliverVerdict(n))
    /\ \A h \in Intents : WF_vars(CancelExpired(h))
-----------------------------------------------------------------------------
(* I3, no payout without delivery: the escrow releases only what was         *)
(* delivered on Stellar in full, once, and to the address the fill named,    *)
(* which is the one that locked: the escrow encodes no reservation window,   *)
(* so a fill is open to no other solver before the deadline.                 *)
PaidOnlyAfterDelivery ==
    \A h \in Intents :
        locks[h].released =>
            /\ h \in confirmed
            /\ h \notin cancelled
            /\ Len(deliveries[h]) = 1
            /\ deliveries[h][1].amount >= MinDestAmount[h]
            /\ payments[h][1].to = record[h].solverEvm
            /\ payments[h][1].to = locks[h].solver
            /\ payments[h][1].amount = SourceAmount[h]

(* Stellar knows an intent only through a lock of the same solver.           *)
RegisteredIsLocked ==
    \A h \in Intents :
        record[h].status # "Unregistered" =>
            /\ locks[h].solver # NoSolver
            /\ record[h].status = "Locked" => record[h].solverEvm = locks[h].solver

(* The two chains never tell different stories of an intent: what Stellar    *)
(* knows was locked on Ethereum, what Ethereum paid was delivered on Stellar.*)
ChainsAgree == PaidOnlyAfterDelivery /\ RegisteredIsLocked

(* The grace exceeds the dispatch window by more than the skew and the       *)
(* latency together.                                                         *)
Timely ==
    ConfirmationGrace > MinDispatchWindow + config.timing.skew + config.timing.latency

(* A confirmed fill is never refunded: the solver that delivered and         *)
(* confirmed in time is repaid.                                              *)
ConfirmedNeverRefunded == \A h \in Intents : h \in confirmed => ~locks[h].refunded

(* I1 of the formal specification: either settled on Stellar or refunded on  *)
(* the source chain, never both.                                             *)
NeverBoth == \A h \in Intents : ~(h \in settled /\ locks[h].refunded)

SourceOf(h) ==
    CASE ~E!Locked(h) -> "Open"
      [] locks[h].released -> "Released"
      [] locks[h].refunded -> "Refunded"
      [] OTHER -> "Locked"

DestinationOf(h) ==
    CASE S!Status(h) = "Unregistered" -> "Unknown"
      [] S!Status(h) = "Locked" -> "Registered"
      [] S!Status(h) = "Filled" -> "Delivered"
      [] S!Status(h) = "ConfirmationSent" -> "Confirmed"
      [] S!Status(h) = "Cancelled" -> "Abandoned"

Lifecycle == INSTANCE IntentLifecycle WITH
                source <- [h \in Intents |-> IF Timely THEN SourceOf(h) ELSE "Open"],
                destination <- [h \in Intents |-> IF Timely THEN DestinationOf(h)
                                                             ELSE "Unknown"]

(* Under timely messages the two contracts together keep the promise of      *)
(* IntentLifecycle, its liveness included; untimely ones map to an intent    *)
(* that nobody touches.                                                      *)
KeepsPromise == Lifecycle!Spec
=============================================================================
