------------------------------- MODULE Escrow -------------------------------
(* PerihelionEscrow.sol, the contract of the source chain.  A solver locks a *)
(* user's signed intent: the contract pulls the user's tokens and sends a    *)
(* FillInstruction to Stellar.  The lock ends once: released to the solver   *)
(* by a FillConfirmed, refunded to the user by a CancelIntent, or refunded   *)
(* by anyone after the deadline and the confirmation grace.                  *)
(*                                                                           *)
(* An intent hash commits to the fields of the intent, so they are functions *)
(* of the hash.  Calls are atomic (nonReentrant), and a call that reverts is *)
(* a step that is not taken.                                                 *)
EXTENDS EscrowCaps, Aggregates

CONSTANTS
    Intents,           \* intent hashes
    SourceAsset,       \* [Intents -> Assets]
    SourceAmount,      \* [Intents -> Nat]
    MinDestAmount,     \* [Intents -> Nat]
    Deadline,          \* [Intents -> Nat]
    PreferredSolver,   \* [Intents -> Solvers \cup {NoSolver}]
    Solvers,           \* the EVM addresses that lock and are repaid
    NoSolver,          \* address(0)
    User,              \* the recipient of refunds
    TransferFee,       \* [Assets -> Nat]: what a fee-on-transfer token withholds
    LzFee,             \* what endpoint.quote asks for a FillInstruction
    CallValues,        \* the msg.value of a call
    Peers, NoPeer,     \* the possible settlement peers; bytes32(0)
    ConfiguredPeer,
    ConfiguredGrace,
    MinConfirmationGrace, MaxConfirmationGrace,
    GraceValues,       \* the graces the owner may try to set
    InboundMessages,   \* what the endpoint may deliver
    InboundNonces,     \* and under which transport nonces
    MaxDonation        \* bound on the tokens sent to the contract by accident

ASSUME EscrowAssumption ==
    /\ IsFiniteSet(Intents)
    /\ SourceAsset \in [Intents -> Assets]
    /\ SourceAmount \in [Intents -> Nat]
    /\ MinDestAmount \in [Intents -> Nat]
    /\ Deadline \in [Intents -> Nat]
    /\ PreferredSolver \in [Intents -> Solvers \cup {NoSolver}]
    /\ NoSolver \notin Solvers
    /\ User \notin Solvers
    /\ TransferFee \in [Assets -> Nat]
    /\ LzFee \in Nat
    /\ CallValues \subseteq Nat
    /\ NoPeer \notin Peers
    /\ ConfiguredPeer \in Peers
    /\ MinConfirmationGrace \in Nat
    /\ MaxConfirmationGrace \in Nat
    /\ ConfiguredGrace \in MinConfirmationGrace .. MaxConfirmationGrace
    /\ GraceValues \subseteq Nat
    /\ MaxDonation \in Nat

(* What the decoders of lzReceive accept; any other body reverts the call.   *)
FillConfirmations == [type : {"FillConfirmed"}, hash : Intents, solverEvm : Solvers,
                      fillAmount : Int]
CancelIntents == [type : {"CancelIntent"}, hash : Intents]

ASSUME InboundAssumption ==
    /\ InboundMessages \subseteq FillConfirmations \cup CancelIntents
    /\ InboundNonces \subseteq Nat

VARIABLES
    stellarPeer,
    confirmationGrace,
    locks,        \* [Intents -> Lock]
    totalLocked,  \* [Assets -> Nat]: the liability towards live locks
    balance,      \* [Assets -> Nat]: balanceOf(this), held by the token
    nativeBalance,
    consumed,     \* the inbound nonces that were accepted
    outbox,       \* FillInstructions sent; the nonce is the position
    payments      \* history: [Intents -> the transfers out of the contract]

lockVars == <<locks, totalLocked, payments>>
transportVars == <<consumed, outbox>>
escrowConfigVars == <<stellarPeer, confirmationGrace, adminVars, capVars>>
escrowVars == <<escrowConfigVars, lockVars, transportVars, balance, nativeBalance>>
vars == <<evmNow, escrowVars>>

NoLock == [solver |-> NoSolver, amount |-> 0, released |-> FALSE, refunded |-> FALSE]

Locks == [solver : Solvers \cup {NoSolver}, amount : Nat,
          released : BOOLEAN, refunded : BOOLEAN]

Locked(h) == locks[h].solver # NoSolver
Finalized(h) == locks[h].released \/ locks[h].refunded
Live(h) == Locked(h) /\ ~Finalized(h)

(* _encodeFillInstruction always encodes an empty reservation window.        *)
FillInstruction(h, solver) ==
    [type |-> "FillInstruction", hash |-> h, solver |-> solver, window |-> 0]

FillInstructions == [type : {"FillInstruction"}, hash : Intents, solver : Solvers,
                     window : {0}]

Init ==
    /\ AdminInit
    /\ CapsInit
    /\ stellarPeer = ConfiguredPeer
    /\ confirmationGrace = ConfiguredGrace
    /\ locks = [h \in Intents |-> NoLock]
    /\ totalLocked = [a \in Assets |-> 0]
    /\ balance = [a \in Assets |-> 0]
    /\ nativeBalance = 0
    /\ consumed = {}
    /\ outbox = <<>>
    /\ payments = [h \in Intents |-> <<>>]
-----------------------------------------------------------------------------
(* _validateIntent, after the pause and peer checks of lock.                 *)
AcceptsLock(h, solver) ==
    /\ ~paused
    /\ stellarPeer # NoPeer
    /\ evmNow < Deadline[h]
    /\ PreferredSolver[h] \in {NoSolver, solver}
    /\ SourceAsset[h] \in assetAllowed
    /\ ~Locked(h)

Received(h) == SourceAmount[h] - TransferFee[SourceAsset[h]]

(* _recordLock and the dispatch of the FillInstruction.                      *)
RecordAndDispatch(h, solver, amount) ==
    /\ locks' = [locks EXCEPT ![h] = [NoLock EXCEPT !.solver = solver,
                                                    !.amount = amount]]
    /\ totalLocked' = [totalLocked EXCEPT ![SourceAsset[h]] = @ + amount]
    /\ outbox' = Append(outbox, FillInstruction(h, solver))

(* The caps admit the lock: the tokens are pulled, the received amount is    *)
(* recorded; the value pays the endpoint and the excess goes back.           *)
LockFunded(h, solver, value) ==
    /\ AcceptsLock(h, solver)
    /\ CapsAllow(SourceAsset[h], SourceAmount[h])
    /\ ~BreachesWindow(SourceAsset[h], SourceAmount[h])
    /\ Received(h) > 0
    /\ value >= LzFee
    /\ CommitToWindow(SourceAsset[h], Received(h))
    /\ balance' = [balance EXCEPT ![SourceAsset[h]] = @ + Received(h)]
    /\ RecordAndDispatch(h, solver, Received(h))
    /\ UNCHANGED <<evmNow, adminVars, stellarPeer, confirmationGrace, consumed,
                   nativeBalance, payments>>

(* The rolling window is breached: _pullFunds latches the breaker, returns   *)
(* the value and comes back with nothing received, and lock goes on to       *)
(* record and dispatch an empty lock.  The value is gone, so the fee and the *)
(* second refund of the excess come from the native surplus; without enough  *)
(* of it the call reverts and takes the latch back.                          *)
LockBreaching(h, solver, value) ==
    /\ AcceptsLock(h, solver)
    /\ CapsAllow(SourceAsset[h], SourceAmount[h])
    /\ BreachesWindow(SourceAsset[h], SourceAmount[h])
    /\ LatchBreaker(SourceAsset[h])
    /\ value >= LzFee
    /\ nativeBalance >= value
    /\ nativeBalance' = nativeBalance - value
    /\ RecordAndDispatch(h, solver, 0)
    /\ UNCHANGED <<evmNow, adminVars, stellarPeer, confirmationGrace, consumed,
                   balance, payments>>

Lock(h, solver, value) ==
    LockFunded(h, solver, value) \/ LockBreaching(h, solver, value)
-----------------------------------------------------------------------------
(* A terminal transition: the flag, the liability and the transfer of the    *)
(* locked amount.  The token refuses a transfer that the contract's balance  *)
(* does not cover, and the call then reverts.                                *)
PayOut(h, to) ==
    LET asset == SourceAsset[h]
    IN /\ balance[asset] >= locks[h].amount
       /\ balance' = [balance EXCEPT ![asset] = @ - locks[h].amount]
       /\ totalLocked' = [totalLocked EXCEPT ![asset] = @ - locks[h].amount]
       /\ payments' = [payments EXCEPT ![h] = Append(@, [to |-> to,
                                                         amount |-> locks[h].amount])]

\* A release without the terminal-flag guard (a mutant).
ReleaseTwice(h, solverEvm, fillAmount) ==
    /\ Locked(h)
    /\ evmNow < Deadline[h] => solverEvm = locks[h].solver
    /\ fillAmount >= MinDestAmount[h]
    /\ locks' = [locks EXCEPT ![h].released = TRUE]
    /\ PayOut(h, solverEvm)

(* _onFillConfirmed                                                          *)
Release(h, solverEvm, fillAmount) ==
    /\ Locked(h)
    /\ evmNow < Deadline[h] => solverEvm = locks[h].solver
    /\ ~Finalized(h)
    /\ fillAmount >= MinDestAmount[h]
    /\ locks' = [locks EXCEPT ![h].released = TRUE]
    /\ PayOut(h, solverEvm)

\* A refund that leaves the liability as it was (a mutant).
RefundKeepingLiability(h) ==
    /\ locks' = [locks EXCEPT ![h].refunded = TRUE]
    /\ balance[SourceAsset[h]] >= locks[h].amount
    /\ balance' = [balance EXCEPT ![SourceAsset[h]] = @ - locks[h].amount]
    /\ payments' = [payments EXCEPT ![h] = Append(@, [to |-> User,
                                                      amount |-> locks[h].amount])]
    /\ UNCHANGED totalLocked

Refund(h) ==
    /\ locks' = [locks EXCEPT ![h].refunded = TRUE]
    /\ PayOut(h, User)

(* _onCancelIntent: a cancel of an unknown or finalized lock is ignored, yet *)
(* its nonce stays consumed.                                                 *)
ApplyCancel(h) ==
    IF Live(h) THEN Refund(h) ELSE UNCHANGED <<lockVars, balance>>

(* lzReceive: any native value that comes with the message stays here.       *)
LzReceive(sender, nonce, m, value) ==
    /\ sender = stellarPeer
    /\ nonce > 0
    /\ nonce \notin consumed
    /\ consumed' = consumed \cup {nonce}
    /\ \/ m.type = "FillConfirmed" /\ Release(m.hash, m.solverEvm, m.fillAmount)
       \/ m.type = "CancelIntent" /\ ApplyCancel(m.hash)
    /\ nativeBalance' = nativeBalance + value
    /\ UNCHANGED <<evmNow, escrowConfigVars, outbox>>

\* A refund path that respects the pause (a mutant).
CancelUnlessPaused(h) ==
    /\ ~paused
    /\ Live(h)
    /\ evmNow >= Deadline[h] + confirmationGrace
    /\ Refund(h)
    /\ UNCHANGED <<evmNow, escrowConfigVars, transportVars, nativeBalance>>

CancelExpired(h) ==
    /\ Live(h)
    /\ evmNow >= Deadline[h] + confirmationGrace
    /\ Refund(h)
    /\ UNCHANGED <<evmNow, escrowConfigVars, transportVars, nativeBalance>>
-----------------------------------------------------------------------------
SetPeer(caller, peer) ==
    /\ caller = owner
    /\ peer # NoPeer
    /\ stellarPeer' = peer
    /\ UNCHANGED <<evmNow, confirmationGrace, adminVars, capVars, lockVars,
                   transportVars, balance, nativeBalance>>

SetConfirmationGrace(caller, grace) ==
    /\ caller = owner
    /\ grace \in MinConfirmationGrace .. MaxConfirmationGrace
    /\ confirmationGrace' = grace
    /\ UNCHANGED <<evmNow, stellarPeer, adminVars, capVars, lockVars,
                   transportVars, balance, nativeBalance>>

\* A skim bounded by the whole balance (a mutant).
SkimAll(caller, asset, amount) ==
    /\ caller = owner
    /\ amount \in 1 .. balance[asset]
    /\ balance' = [balance EXCEPT ![asset] = @ - amount]
    /\ UNCHANGED <<evmNow, escrowConfigVars, lockVars, transportVars, nativeBalance>>

Surplus(asset) ==
    IF balance[asset] > totalLocked[asset] THEN balance[asset] - totalLocked[asset] ELSE 0

Skim(caller, asset, amount) ==
    /\ caller = owner
    /\ amount \in 1 .. Surplus(asset)
    /\ balance' = [balance EXCEPT ![asset] = @ - amount]
    /\ UNCHANGED <<evmNow, escrowConfigVars, lockVars, transportVars, nativeBalance>>

SkimNative(caller, amount) ==
    /\ caller = owner
    /\ amount \in 1 .. nativeBalance
    /\ nativeBalance' = nativeBalance - amount
    /\ UNCHANGED <<evmNow, escrowConfigVars, lockVars, transportVars, balance>>

(* Tokens sent to the contract without a lock.                               *)
Donate(asset) ==
    /\ balance[asset] < totalLocked[asset] + MaxDonation
    /\ balance' = [balance EXCEPT ![asset] = @ + 1]
    /\ UNCHANGED <<evmNow, escrowConfigVars, lockVars, transportVars, nativeBalance>>
-----------------------------------------------------------------------------
OwnerStep ==
    \E c \in ConfigCallers :
        \/ \E p \in Peers : SetPeer(c, p)
        \/ \E g \in GraceValues : SetConfirmationGrace(c, g)
        \/ \E a \in Assets : \E n \in 1 .. balance[a] : Skim(c, a, n)
        \/ \E n \in 1 .. nativeBalance : SkimNative(c, n)

NonEscrowVars == <<evmNow, stellarPeer, confirmationGrace, lockVars, transportVars,
                   balance, nativeBalance>>

GovernanceStep ==
    \/ AdminStep /\ UNCHANGED <<capVars, NonEscrowVars>>
    \/ CapsStep /\ UNCHANGED <<adminVars, NonEscrowVars>>
    \/ OwnerStep

Receive ==
    \E p \in Peers, n \in InboundNonces, m \in InboundMessages, v \in CallValues :
        LzReceive(p, n, m, v)

Tick == EvmTick /\ UNCHANGED escrowVars

Next ==
    \/ \E h \in Intents, s \in Solvers, v \in CallValues : Lock(h, s, v)
    \/ Receive
    \/ \E h \in Intents : CancelExpired(h)
    \/ GovernanceStep
    \/ \E a \in Assets : Donate(a)
    \/ Tick

Spec == Init /\ [][Next]_vars

(* Time passes, and for each lock somebody (the user, a keeper) eventually   *)
(* makes the permissionless call.                                            *)
FairSpec ==
    /\ Spec
    /\ WF_vars(Tick)
    /\ \A h \in Intents : WF_vars(CancelExpired(h))
-----------------------------------------------------------------------------
Payments == [to : Solvers \cup {User}, amount : Nat]

TypeOK ==
    /\ AdminTypeOK
    /\ CapsTypeOK
    /\ stellarPeer \in Peers
    /\ confirmationGrace \in MinConfirmationGrace .. MaxConfirmationGrace
    /\ locks \in [Intents -> Locks]
    /\ totalLocked \in [Assets -> Nat]
    /\ balance \in [Assets -> Nat]
    /\ nativeBalance \in Nat
    /\ consumed \subseteq Nat
    /\ outbox \in Seq(FillInstructions)
    /\ payments \in [Intents -> Seq(Payments)]

(* A lock is paid out once, in full, and exactly when it is finalized: never *)
(* both released and refunded, whatever the order of FillConfirmed,          *)
(* CancelIntent, cancelExpired and their repetitions.                        *)
PaidOnce ==
    \A h \in Intents :
        /\ ~(locks[h].released /\ locks[h].refunded)
        /\ Finalized(h) => Locked(h)
        /\ IF Finalized(h)
           THEN /\ Len(payments[h]) = 1
                /\ payments[h][1].amount = locks[h].amount
                /\ locks[h].refunded => payments[h][1].to = User
           ELSE payments[h] = <<>>

\* Of each intent, what it adds to the liability in an asset.
IntentOrder == SetToSeq(Intents)

LiveAmounts(asset) ==
    [h \in Intents |-> IF SourceAsset[h] = asset /\ Live(h) THEN locks[h].amount ELSE 0]

(* totalLocked is the sum of the live locks of the asset, so it never wraps  *)
(* around below zero; skim relies on it.                                     *)
LiabilityMatchesLocks ==
    /\ TypeOK
    /\ \A a \in Assets : totalLocked[a] = Total(IntentOrder, LiveAmounts(a))

(* The tokens held cover every live lock, with fee-on-transfer tokens,       *)
(* donations and skims in any order.                                         *)
Solvent == \A a \in Assets : balance[a] >= totalLocked[a]

(* A claimed intent is never locked again or altered, and a finalized lock   *)
(* stays as it is: AlreadyLocked and AlreadyFinalized in every order of      *)
(* calls, messages and roles.                                                *)
LockIsFinal ==
    [][\A h \in Intents :
         /\ Locked(h) => /\ locks'[h].solver = locks[h].solver
                         /\ locks'[h].amount = locks[h].amount
         /\ Finalized(h) => locks'[h] = locks[h]]_vars

(* cancelExpired is the guaranteed refund path: once the longest grace has   *)
(* passed, the call goes through for every live lock, paused or not, with    *)
(* any peer, caps and owner, and the tokens are there.                       *)
RefundStaysOpen ==
    \A h \in Intents :
        Live(h) /\ evmNow >= Deadline[h] + MaxConfirmationGrace
            => ENABLED CancelExpired(h)

(* No lock stays forever: it is released or refunded.                        *)
LocksEnd == \A h \in Intents : Locked(h) ~> Finalized(h)

(* Nothing is blocked for good: the locks end and so do the pauses that a    *)
(* guardian left behind (cancelExpired and decayGuardianPause, which anyone  *)
(* may call).                                                                *)
LocksAndPausesEnd == LocksEnd /\ LeftoverPauseEnds

(* The comment on the exact-zero check of _pullFunds: a transfer that        *)
(* delivered nothing is rejected, so no recorded lock is empty.              *)
EveryLockFunded == \A h \in Intents : Locked(h) => locks[h].amount > 0

(* The comment on maxIntentAmount: the maximum amount a single intent can    *)
(* lock, zero for unlimited, enforced at lock time.                          *)
GlobalMaximumEnforced ==
    [][\A h \in Intents :
         ~Locked(h) /\ locks'[h].solver # NoSolver
            => \/ maxIntentAmount = 0
               \/ locks'[h].amount <= maxIntentAmount]_vars
=============================================================================
