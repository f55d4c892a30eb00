----------------------------- MODULE Settlement -----------------------------
(* The Soroban settlement contract, perihelion-settlement.  It registers the *)
(* intents that FillInstructions announce, lets a solver deliver the         *)
(* destination asset, and sends either a FillConfirmed or a CancelIntent     *)
(* back to the escrow that holds the funds.  Every call is atomic: one that  *)
(* returns an error or traps is a step that is not taken.                    *)
(*                                                                           *)
(* An intent hash commits to the minimum amount, the deadline and the        *)
(* destination asset, so these are functions of the hash.                    *)
EXTENDS SettlementCaps, Sequences

CONSTANTS
    Intents,             \* intent hashes
    MinDestAmount,       \* [Intents -> Int]
    Deadline,            \* [Intents -> Nat]
    DestAsset,           \* [Intents -> the asset named by the intent]
    ContractTokens,      \* assets that need an entry in the token allowlist
    Eids,                \* the endpoint ids with a configured peer
    NoEid,
    EvmSolvers, NoSolver,  \* solver addresses on the source chain; None
    Accounts, NoAccount,   \* Stellar addresses of solvers and keepers; None
    FillAmounts,         \* the amounts a solver may deliver
    MinDispatchWindow,   \* MIN_DISPATCH_WINDOW
    MaxDeadlineHorizon,  \* MAX_DEADLINE_HORIZON
    DispatchRewardGrace, \* DISPATCH_REWARD_GRACE_LEDGERS
    Inbound,             \* what may arrive: records [eid, nonce, message]
    PauseFlags,          \* the values the admin may give to a pause
    Rewards,             \* the keeper rewards the admin may set
    InitialReserve,      \* native tokens deposited for keeper rewards
    MaxReserve           \* bound on the reserve

ASSUME SettlementAssumption ==
    /\ IsFiniteSet(Intents)
    /\ MinDestAmount \in [Intents -> Int]
    /\ Deadline \in [Intents -> Nat]
    /\ NoEid \notin Eids
    /\ NoSolver \notin EvmSolvers
    /\ NoAccount \notin Accounts
    /\ FillAmounts \subseteq Int
    /\ MinDispatchWindow \in Nat \ {0}
    /\ MaxDeadlineHorizon \in Nat
    /\ DispatchRewardGrace \in Nat
    /\ PauseFlags \subseteq BOOLEAN
    /\ Rewards \subseteq Int
    /\ InitialReserve \in Nat
    /\ MaxReserve \in Nat

(* The endpoint delivers messages that decode: decode_message rejects any    *)
(* other body, and the call is rolled back.                                  *)
FillInstructions == [type : {"FillInstruction"}, hash : Intents,
                     solver : EvmSolvers, window : Nat]
CancelIntents == [type : {"CancelIntent"}, hash : Intents]

ASSUME InboundAssumption ==
    \A i \in Inbound :
        i.nonce \in Nat /\ i.message \in FillInstructions \cup CancelIntents

VARIABLES
    record,        \* [Intents -> IntentRecord]
    settled,       \* the hashes with a Settled marker
    cancelled,     \* the hashes with a Cancelled marker
    confirmed,     \* the hashes with a ConfirmationSent marker
    consumed,      \* [Eids -> the inbound nonces accepted]
    outbox,        \* [Eids -> messages sent; the nonce is the position]
    paused,
    pausedEids,
    allowedDestTokens,
    keeperReward,
    dispatchReward,
    reserve,       \* the contract's native-token balance
    reputation,    \* [Accounts -> fills confirmed]
    deliveries     \* history: [Intents -> the transfers to the recipient]

intentVars == <<record, settled, cancelled, confirmed, deliveries>>
pauseVars == <<paused, pausedEids>>
rewardVars == <<keeperReward, dispatchReward>>
settlementVars == <<capVars, intentVars, consumed, outbox, pauseVars,
                    allowedDestTokens, rewardVars, reserve, reputation>>
vars == <<stellarNow, settlementVars>>

Unregistered ==
    [status |-> "Unregistered", srcEid |-> NoEid, solverEvm |-> NoSolver,
     reservationExpires |-> 0, solver |-> NoAccount, fillAmount |-> 0, fillLedger |-> 0]

FillConfirmed(h, solverEvm, amount) ==
    [type |-> "FillConfirmed", hash |-> h, solverEvm |-> solverEvm, fillAmount |-> amount]

CancelIntent(h) == [type |-> "CancelIntent", hash |-> h]

Init ==
    /\ ClockInit
    /\ CapsInit
    /\ record = [h \in Intents |-> Unregistered]
    /\ settled = {}
    /\ cancelled = {}
    /\ confirmed = {}
    /\ consumed = [e \in Eids |-> {}]
    /\ outbox = [e \in Eids |-> <<>>]
    /\ paused = FALSE
    /\ pausedEids = {}
    /\ allowedDestTokens = {}
    /\ keeperReward = 0
    /\ dispatchReward = 0
    /\ reserve = InitialReserve
    /\ reputation = [a \in Accounts |-> 0]
    /\ deliveries = [h \in Intents |-> <<>>]
-----------------------------------------------------------------------------
IsFinalized(h) == h \in settled \/ h \in cancelled

\* A guard that forgets the tombstone of an early cancel (a mutant).
HasRecord(h) == record[h].status # "Unregistered" \/ h \in settled

IsKnown(h) == IsFinalized(h) \/ record[h].status # "Unregistered"

AcceptNonce(eid, nonce) ==
    /\ nonce > 0
    /\ nonce \notin consumed[eid]
    /\ consumed' = [consumed EXCEPT ![eid] = @ \cup {nonce}]

Earlier(s, t) == IF s <= t THEN s ELSE t

ReservationEnd(h, window) ==
    IF window > 0 THEN Earlier(stellarNow + window, Deadline[h]) ELSE Deadline[h]

(* on_fill_instruction, for an intent it does not know: registered within    *)
(* the caps, or acknowledged and dropped when it breaches the window.        *)
Register(eid, m) ==
    LET h == m.hash IN
    /\ MinDestAmount[h] > 0
    /\ Deadline[h] <= stellarNow + MaxDeadlineHorizon
    /\ \/ /\ Admit(MinDestAmount[h])
          /\ record' = [record EXCEPT ![h] =
                [Unregistered EXCEPT !.status = "Locked", !.srcEid = eid,
                                     !.solverEvm = m.solver,
                                     !.reservationExpires = ReservationEnd(h, m.window)]]
       \/ Breach(MinDestAmount[h]) /\ UNCHANGED record
    /\ UNCHANGED <<settled, cancelled, confirmed, deliveries>>

(* lz_receive_bytes for a FillInstruction; re-delivery is a no-op.           *)
ReceiveFillInstruction(eid, nonce, m) ==
    /\ m.type = "FillInstruction"
    /\ eid \in Eids
    /\ DestAsset[m.hash] \in ContractTokens => DestAsset[m.hash] \in allowedDestTokens
    /\ ~paused
    /\ eid \notin pausedEids
    /\ AcceptNonce(eid, nonce)
    /\ IF IsKnown(m.hash) THEN UNCHANGED <<capVars, intentVars>> ELSE Register(eid, m)
    /\ UNCHANGED <<stellarNow, outbox, pauseVars, allowedDestTokens, rewardVars,
                   reserve, reputation>>

\* An inbound cancel that looks at no marker and no status (a mutant).
CancelAnything(h) ==
    /\ cancelled' = cancelled \cup {h}
    /\ record' = [record EXCEPT ![h].status = "Cancelled"]
    /\ UNCHANGED <<settled, confirmed, deliveries>>

(* on_cancel_inbound: a cancel that lost the race is ignored; one that       *)
(* overtook its FillInstruction leaves a tombstone and no record.            *)
ApplyCancel(h) ==
    IF IsFinalized(h) \/ record[h].status \notin {"Unregistered", "Locked"}
    THEN UNCHANGED intentVars
    ELSE /\ cancelled' = cancelled \cup {h}
         /\ record' = IF record[h].status = "Locked"
                      THEN [record EXCEPT ![h].status = "Cancelled"]
                      ELSE record
         /\ UNCHANGED <<settled, confirmed, deliveries>>

(* lz_receive_bytes for a CancelIntent, which the pause does not stop.       *)
ReceiveCancel(eid, nonce, m) ==
    /\ m.type = "CancelIntent"
    /\ eid \in Eids
    /\ AcceptNonce(eid, nonce)
    /\ ApplyCancel(m.hash)
    /\ UNCHANGED <<stellarNow, capVars, outbox, pauseVars, allowedDestTokens,
                   rewardVars, reserve, reputation>>
-----------------------------------------------------------------------------
\* A fill that is accepted up to the deadline itself (a mutant).
FillUpToDeadline(solverEvm, h, amount) ==
    /\ ~IsFinalized(h)
    /\ record[h].status = "Locked"
    /\ stellarNow <= Deadline[h] + MinDispatchWindow
    /\ stellarNow < record[h].reservationExpires => solverEvm = record[h].solverEvm
    /\ amount > 0
    /\ amount >= MinDestAmount[h]

(* validate_and_stage_fill.  A FillInstruction on the wire names no          *)
(* preferred Stellar solver, so only the escrow's solver is reserved.        *)
ValidFill(solverEvm, h, amount) ==
    /\ ~IsFinalized(h)
    /\ record[h].status = "Locked"
    /\ stellarNow + MinDispatchWindow <= Deadline[h]
    /\ stellarNow < record[h].reservationExpires => solverEvm = record[h].solverEvm
    /\ amount > 0
    /\ amount >= MinDestAmount[h]

FilledBy(h, solver, solverEvm, amount, status) ==
    [record EXCEPT ![h] = [@ EXCEPT !.status = status, !.solver = solver,
                                    !.solverEvm = solverEvm, !.fillAmount = amount,
                                    !.fillLedger = stellarNow]]

Deliver(h, solver, amount) ==
    deliveries' = [deliveries EXCEPT ![h] = Append(@, [solver |-> solver, amount |-> amount])]

Send(eid, m) == outbox' = [outbox EXCEPT ![eid] = Append(@, m)]

Credit(solver) == reputation' = [reputation EXCEPT ![solver] = @ + 1]

DeliverIntent(solver, solverEvm, h, amount) ==
    /\ ~paused
    /\ ValidFill(solverEvm, h, amount)
    /\ record' = FilledBy(h, solver, solverEvm, amount, "Filled")
    /\ settled' = settled \cup {h}
    /\ Deliver(h, solver, amount)
    /\ UNCHANGED <<stellarNow, capVars, cancelled, confirmed, consumed, outbox,
                   pauseVars, allowedDestTokens, rewardVars, reserve, reputation>>

\* A payment that must leave something in the reserve (a mutant).
PayBelowReserve(reward) ==
    /\ reward < reserve
    /\ reserve' = reserve - reward

(* A reward the reserve does not cover makes the token trap, and the whole   *)
(* call is rolled back.                                                      *)
PayFromReserve(reward) ==
    /\ reward <= reserve
    /\ reserve' = reserve - reward

DispatchDue(caller, h) ==
    IF /\ caller # record[h].solver
       /\ stellarNow - record[h].fillLedger >= DispatchRewardGrace
    THEN dispatchReward
    ELSE 0

\* A dispatch that can be repeated (a mutant).
DispatchAgain(caller, h) ==
    /\ record[h].status \in {"Filled", "ConfirmationSent"}
    /\ stellarNow <= Deadline[h] + MinDispatchWindow
    /\ Send(record[h].srcEid, FillConfirmed(h, record[h].solverEvm, record[h].fillAmount))
    /\ confirmed' = confirmed \cup {h}
    /\ record' = [record EXCEPT ![h].status = "ConfirmationSent"]
    /\ Credit(record[h].solver)
    /\ PayFromReserve(DispatchDue(caller, h))
    /\ UNCHANGED <<stellarNow, capVars, settled, cancelled, deliveries, consumed,
                   pauseVars, allowedDestTokens, rewardVars>>

\* A dispatch that checks no window (a mutant).
DispatchAnyTime(caller, h) ==
    /\ h \notin confirmed
    /\ record[h].status = "Filled"
    /\ Send(record[h].srcEid, FillConfirmed(h, record[h].solverEvm, record[h].fillAmount))
    /\ confirmed' = confirmed \cup {h}
    /\ record' = [record EXCEPT ![h].status = "ConfirmationSent"]
    /\ Credit(record[h].solver)
    /\ PayFromReserve(DispatchDue(caller, h))
    /\ UNCHANGED <<stellarNow, capVars, settled, cancelled, deliveries, consumed,
                   pauseVars, allowedDestTokens, rewardVars>>

DispatchConfirmation(caller, h) ==
    /\ h \notin confirmed
    /\ record[h].status = "Filled"
    /\ stellarNow <= Deadline[h] + MinDispatchWindow
    /\ Send(record[h].srcEid, FillConfirmed(h, record[h].solverEvm, record[h].fillAmount))
    /\ confirmed' = confirmed \cup {h}
    /\ record' = [record EXCEPT ![h].status = "ConfirmationSent"]
    /\ Credit(record[h].solver)
    /\ PayFromReserve(DispatchDue(caller, h))
    /\ UNCHANGED <<stellarNow, capVars, settled, cancelled, deliveries, consumed,
                   pauseVars, allowedDestTokens, rewardVars>>

FillIntent(solver, solverEvm, h, amount) ==
    /\ ~paused
    /\ ValidFill(solverEvm, h, amount)
    /\ record' = FilledBy(h, solver, solverEvm, amount, "ConfirmationSent")
    /\ settled' = settled \cup {h}
    /\ confirmed' = confirmed \cup {h}
    /\ Deliver(h, solver, amount)
    /\ Send(record[h].srcEid, FillConfirmed(h, solverEvm, amount))
    /\ Credit(solver)
    /\ UNCHANGED <<stellarNow, capVars, cancelled, consumed, pauseVars,
                   allowedDestTokens, rewardVars, reserve>>

\* A cancel that forgets that the intent may be filled (a mutant).
CancelFilled(caller, h) ==
    /\ h \notin cancelled
    /\ record[h].status # "Unregistered"
    /\ stellarNow >= Deadline[h]
    /\ record' = [record EXCEPT ![h].status = "Cancelled"]
    /\ cancelled' = cancelled \cup {h}
    /\ Send(record[h].srcEid, CancelIntent(h))
    /\ PayFromReserve(keeperReward)
    /\ UNCHANGED <<stellarNow, capVars, settled, confirmed, deliveries, consumed,
                   pauseVars, allowedDestTokens, rewardVars, reputation>>

\* A cancel that the pause stops (a mutant).
CancelUnlessPaused(caller, h) ==
    ~paused /\ record[h].status = "Locked" /\ CancelFilled(caller, h)

CancelExpiredIntent(caller, h) ==
    /\ ~IsFinalized(h)
    /\ record[h].status = "Locked"
    /\ stellarNow >= Deadline[h]
    /\ record' = [record EXCEPT ![h].status = "Cancelled"]
    /\ cancelled' = cancelled \cup {h}
    /\ Send(record[h].srcEid, CancelIntent(h))
    /\ PayFromReserve(keeperReward)
    /\ UNCHANGED <<stellarNow, capVars, settled, confirmed, deliveries, consumed,
                   pauseVars, allowedDestTokens, rewardVars, reputation>>
-----------------------------------------------------------------------------
otherThanConfig == <<stellarNow, capVars, intentVars, consumed, outbox, reputation>>

SetPaused(flag) ==
    /\ paused' = flag
    /\ UNCHANGED <<otherThanConfig, pausedEids, allowedDestTokens, rewardVars, reserve>>

SetPausedEid(eid, flag) ==
    /\ pausedEids' = IF flag THEN pausedEids \cup {eid} ELSE pausedEids \ {eid}
    /\ UNCHANGED <<otherThanConfig, paused, allowedDestTokens, rewardVars, reserve>>

SetDestTokenAllowed(token, flag) ==
    /\ allowedDestTokens' = IF flag THEN allowedDestTokens \cup {token}
                                    ELSE allowedDestTokens \ {token}
    /\ UNCHANGED <<otherThanConfig, pauseVars, rewardVars, reserve>>

SetKeeperReward(reward) ==
    /\ reward >= 0
    /\ keeperReward' = reward
    /\ UNCHANGED <<otherThanConfig, pauseVars, allowedDestTokens, dispatchReward, reserve>>

SetDispatchKeeperReward(reward) ==
    /\ reward >= 0
    /\ dispatchReward' = reward
    /\ UNCHANGED <<otherThanConfig, pauseVars, allowedDestTokens, keeperReward, reserve>>

(* A deposit of native tokens, a plain transfer to the contract.             *)
FundReserve ==
    /\ reserve < MaxReserve
    /\ reserve' = reserve + 1
    /\ UNCHANGED <<otherThanConfig, pauseVars, allowedDestTokens, rewardVars>>

AdminStep ==
    \/ \E flag \in PauseFlags : SetPaused(flag)
    \/ \E e \in Eids, flag \in PauseFlags : SetPausedEid(e, flag)
    \/ \E t \in ContractTokens, flag \in BOOLEAN : SetDestTokenAllowed(t, flag)
    \/ \E r \in Rewards : SetKeeperReward(r) \/ SetDispatchKeeperReward(r)
    \/ CapsStep /\ UNCHANGED <<stellarNow, intentVars, consumed, outbox, pauseVars,
                               allowedDestTokens, rewardVars, reserve, reputation>>

Receive ==
    \E i \in Inbound :
        \/ ReceiveFillInstruction(i.eid, i.nonce, i.message)
        \/ ReceiveCancel(i.eid, i.nonce, i.message)

SolverStep ==
    \E a \in Accounts, s \in EvmSolvers, h \in Intents, n \in FillAmounts :
        DeliverIntent(a, s, h, n) \/ FillIntent(a, s, h, n)

KeeperStep ==
    \E a \in Accounts, h \in Intents :
        DispatchConfirmation(a, h) \/ CancelExpiredIntent(a, h)

Tick == StellarTick /\ UNCHANGED settlementVars

Next == Receive \/ SolverStep \/ KeeperStep \/ AdminStep \/ FundReserve \/ Tick

Spec == Init /\ [][Next]_vars

(* Ledgers close, and for each expired intent some keeper or the user makes  *)
(* the permissionless call.                                                  *)
FairSpec ==
    /\ Spec
    /\ WF_vars(Tick)
    /\ \A h \in Intents : WF_vars(\E a \in Accounts : CancelExpiredIntent(a, h))
-----------------------------------------------------------------------------
(* The view status(): the markers first, then the live record.               *)
Status(h) ==
    CASE h \in confirmed -> "ConfirmationSent"
      [] h \in settled \ confirmed -> "Filled"
      [] h \in cancelled \ settled -> "Cancelled"
      [] OTHER -> record[h].status

Statuses == {"Unregistered", "Locked", "Filled", "ConfirmationSent", "Cancelled"}

Records == [status : Statuses, srcEid : Eids \cup {NoEid},
            solverEvm : EvmSolvers \cup {NoSolver}, reservationExpires : Nat,
            solver : Accounts \cup {NoAccount}, fillAmount : Nat, fillLedger : Nat]

Messages == [type : {"FillConfirmed"}, hash : Intents, solverEvm : EvmSolvers,
             fillAmount : Nat]
            \cup CancelIntents

TypeOK ==
    /\ stellarNow \in Times
    /\ CapsTypeOK
    /\ record \in [Intents -> Records]
    /\ settled \subseteq Intents
    /\ cancelled \subseteq Intents
    /\ confirmed \subseteq Intents
    /\ consumed \in [Eids -> SUBSET Nat]
    /\ outbox \in [Eids -> Seq(Messages)]
    /\ paused \in BOOLEAN
    /\ pausedEids \subseteq Eids
    /\ allowedDestTokens \subseteq ContractTokens
    /\ keeperReward \in Nat
    /\ dispatchReward \in Nat
    /\ reserve \in Nat
    /\ reputation \in [Accounts -> Nat]
    /\ deliveries \in [Intents -> Seq([solver : Accounts, amount : Nat])]

(* The three markers and the record tell one story, with a cancel before,    *)
(* during and after registration, and both ways of filling; the status view  *)
(* reports the record's status, or the tombstone of an early cancel.         *)
MarkersMatchRecord ==
    /\ settled \cap cancelled = {}
    /\ \A h \in Intents :
        /\ h \in settled <=> record[h].status \in {"Filled", "ConfirmationSent"}
        /\ h \in confirmed <=> record[h].status = "ConfirmationSent"
        /\ h \in cancelled =>
              record[h].status \in {"Cancelled", "Unregistered"}
        /\ record[h].status = "Cancelled" => h \in cancelled
        /\ Status(h) = IF h \in cancelled THEN "Cancelled" ELSE record[h].status

(* The recipient is paid once at most, at least the minimum, early enough to *)
(* leave the dispatch window before the deadline, and never for an intent    *)
(* that was cancelled.                                                       *)
DeliveredOnce ==
    \A h \in Intents :
        IF h \in settled
        THEN /\ Len(deliveries[h]) = 1
             /\ deliveries[h][1].amount >= MinDestAmount[h]
             /\ deliveries[h][1].amount = record[h].fillAmount
             /\ deliveries[h][1].solver = record[h].solver
             /\ record[h].fillLedger + MinDispatchWindow <= Deadline[h]
        ELSE deliveries[h] = <<>>

Sent(h) == {p \in UNION {{e} \X DOMAIN outbox[e] : e \in Eids} :
                outbox[p[1]][p[2]].hash = h}

(* For one intent the escrow hears one verdict at most: a FillConfirmed that *)
(* matches the delivery, or a CancelIntent, on the corridor of registration. *)
OneVerdictPerIntent ==
    \A h \in Intents :
        /\ Cardinality(Sent(h)) <= 1
        /\ \A p \in Sent(h) :
              /\ p[1] = record[h].srcEid
              /\ outbox[p[1]][p[2]] =
                    IF h \in confirmed
                    THEN FillConfirmed(h, record[h].solverEvm, deliveries[h][1].amount)
                    ELSE CancelIntent(h)
              /\ h \in confirmed \/ h \in cancelled
        /\ h \in confirmed => Sent(h) # {}

(* A solver's reputation counts exactly its confirmed fills, each once.      *)
ReputationCountsConfirmed ==
    \A a \in Accounts :
        reputation[a] = Cardinality({h \in confirmed : record[h].solver = a})

(* The verdicts and what they are counted for agree.                         *)
VerdictsAddUp == OneVerdictPerIntent /\ ReputationCountsConfirmed

(* What ended stays ended: a tombstoned hash is never registered, a settled  *)
(* or cancelled intent is never delivered again, cancelled or unfilled.      *)
VerdictIsFinal ==
    [][\A h \in Intents :
         /\ IsFinalized(h) => deliveries'[h] = deliveries[h]
         /\ h \in cancelled => h \in cancelled' /\ record'[h] = record[h]
         /\ h \in settled => h \in settled' /\ h \notin cancelled'
         /\ h \in confirmed => record'[h] = record[h]]_vars

(* The exit paths stay open (issue #288): whatever is paused, an expired     *)
(* intent can be cancelled and a fill confirmed within its window, as long   *)
(* as the reserve covers the configured reward.                              *)
ExitsStayOpen ==
    \A h \in Intents, a \in Accounts :
        /\ /\ Status(h) = "Locked"
           /\ stellarNow >= Deadline[h]
           /\ keeperReward <= reserve
           => ENABLED CancelExpiredIntent(a, h)
        /\ /\ Status(h) = "Filled"
           /\ stellarNow <= Deadline[h] + MinDispatchWindow
           /\ dispatchReward <= reserve
           => ENABLED DispatchConfirmation(a, h)

(* A registered intent does not stay open: it ends although the contract is  *)
(* paused and its token delisted, provided that from some time on the        *)
(* reserve covers the configured reward.                                     *)
RegisteredEnds ==
    \A h \in Intents :
        <>[](keeperReward <= reserve) => (Status(h) = "Locked" ~> Status(h) # "Locked")

(* The comment of set_paused: a paused contract cannot move funds.           *)
PausedMovesNoFunds == [][paused /\ paused' => reserve' >= reserve]_vars

(* The comment in dispatch_confirmation: a failure to pay the reward does    *)
(* not roll back the confirmation, so any caller can confirm a fill within   *)
(* its window.                                                               *)
RewardNeverBlocksDispatch ==
    \A h \in Intents, a \in Accounts :
        Status(h) = "Filled" /\ stellarNow <= Deadline[h] + MinDispatchWindow
            => ENABLED DispatchConfirmation(a, h)

(* The comment of enforce_value_caps: while the breaker is latched, every    *)
(* call fails until the reset, so nothing is registered.                     *)
LatchStopsRegistration ==
    [][rollingWindowTriggered /\ rollingWindowTriggered'
        => \A h \in Intents :
               record[h].status = "Unregistered" => record'[h].status = "Unregistered"]_vars

(* The comment on issue #905: at most one bucket exists.                     *)
AtMostOneBucket == Cardinality(DOMAIN rollingWindowBucket) <= 1
=============================================================================
