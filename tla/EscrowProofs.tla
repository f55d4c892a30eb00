------------------------------- MODULE EscrowProofs ---------------------------
(* The escrow, for any accounts, intents, assets, solvers, fees and caps.    *)
(* First its emergency pause alone: the types are kept, and a guardian pause *)
(* stays within its bounds in every order of the owner's, the guardian's and *)
(* a bystander's calls.  Then its locks, with every role at work: a lock is  *)
(* paid out once, in full, what was claimed or finalized stays so, and the   *)
(* contract can always pay.                                                  *)
EXTENDS EscrowWindow, EscrowClient, AggregateProofs

(* A step of the roles or of the pause keeps the types.                      *)
LEMMA AdminStepKeepsTypes ==
    ASSUME AdminTypeOK, AdminStep, UNCHANGED evmNow
    PROVE  AdminTypeOK'
<1> USE ClockAssumption, AdminAssumption DEF AdminTypeOK, Times
<1>1. ASSUME NEW c \in RoleCallers, NEW a \in Accounts \cup {NoAccount},
             TransferOwnership(c, a) \/ SetGuardian(c, a)
      PROVE  AdminTypeOK'
    BY <1>1 DEF TransferOwnership, SetGuardian, pauseVars
<1>2. ASSUME NEW c \in RoleCallers, CancelOwnershipTransfer(c)
      PROVE  AdminTypeOK'
    BY <1>2 DEF CancelOwnershipTransfer, pauseVars
<1>3. ASSUME NEW c \in RoleCallers, AcceptOwnership(c)
      PROVE  AdminTypeOK'
    \* Only an account can call, so the role never goes to NoAccount.
    BY <1>3 DEF AcceptOwnership, pauseVars
<1>4. ASSUME NEW c \in RoleCallers, NEW flag \in BOOLEAN, SetPaused(c, flag)
      PROVE  AdminTypeOK'
    BY <1>4 DEF SetPaused, roleVars
<1>5. ASSUME NEW c \in RoleCallers, Pause(c)
      PROVE  AdminTypeOK'
    BY <1>5 DEF Pause, roleVars
<1>6. CASE DecayGuardianPause
    <2>1. paused' \in BOOLEAN
        BY <1>6, Zenon DEF DecayGuardianPause
    <2>. QED  BY <1>6, <2>1 DEF DecayGuardianPause, roleVars
<1>. QED  BY <1>1, <1>2, <1>3, <1>4, <1>5, <1>6 DEF AdminStep

LEMMA TickKeepsTypes ==
    ASSUME AdminTypeOK, EvmTick, UNCHANGED adminVars
    PROVE  AdminTypeOK'
BY ClockAssumption DEF AdminTypeOK, EvmTick, Times, adminVars, roleVars, pauseVars

(* Every state keeps the declared types; the owner is always an account, so  *)
(* no order of handovers leaves the contract without one.                    *)
THEOREM AdminTypesHold == AdminSpec => []AdminTypeOK
<1>1. AdminInit => AdminTypeOK
    <2> SUFFICES ASSUME AdminInit
                 PROVE  AdminTypeOK
        OBVIOUS
    <2>1. paused \in BOOLEAN
        BY Zenon DEF AdminInit
    <2>. QED  BY <2>1, ClockAssumption, AdminAssumption
              DEF ClockInit, AdminInit, AdminTypeOK, Times
<1>2. AdminTypeOK /\ [AdminNext]_<<evmNow, adminVars>> => AdminTypeOK'
    <2> SUFFICES ASSUME AdminTypeOK, [AdminNext]_<<evmNow, adminVars>>
                 PROVE  AdminTypeOK'
        OBVIOUS
    <2>1. CASE AdminStep /\ UNCHANGED evmNow
        BY <2>1, AdminStepKeepsTypes
    <2>2. CASE EvmTick /\ UNCHANGED adminVars
        BY <2>2, TickKeepsTypes
    <2>3. CASE UNCHANGED <<evmNow, adminVars>>
        BY <2>3 DEF AdminTypeOK, adminVars, roleVars, pauseVars
    <2>. QED  BY <2>1, <2>2, <2>3 DEF AdminNext
<1>. QED  BY <1>1, <1>2, PTL DEF AdminSpec
-----------------------------------------------------------------------------
LEMMA AdminStepKeepsPauseBounds ==
    ASSUME AdminTypeOK, GuardianPauseWithinBounds, AdminStep, UNCHANGED evmNow
    PROVE  GuardianPauseWithinBounds'
<1> USE ClockAssumption, AdminAssumption DEF AdminTypeOK, GuardianPauseWithinBounds, Times
<1>1. CASE UNCHANGED pauseVars
    BY <1>1 DEF pauseVars
<1>2. ASSUME NEW c \in RoleCallers, NEW flag \in BOOLEAN, SetPaused(c, flag)
      PROVE  GuardianPauseWithinBounds'
    BY <1>2 DEF SetPaused
<1>3. ASSUME NEW c \in RoleCallers, Pause(c)
      PROVE  GuardianPauseWithinBounds'
    \* The cooldown is over when the guardian pauses, and the owner's pause
    \* has no expiry.
    BY <1>3 DEF Pause
<1>4. CASE DecayGuardianPause
    BY <1>4 DEF DecayGuardianPause
<1>. QED  BY <1>1, <1>2, <1>3, <1>4
          DEF AdminStep, TransferOwnership, CancelOwnershipTransfer, AcceptOwnership,
              SetGuardian

(* A guardian pause is in force while its expiry is set, lies past the       *)
(* cooldown of the previous one and ends within the TTL: the argument is     *)
(* that pause() compares the cooldown with the clock before it sets an       *)
(* expiry, and that the clock only moves forward.                            *)
THEOREM GuardianPauseIsBounded == AdminSpec => []GuardianPauseWithinBounds
<1>1. AdminInit => GuardianPauseWithinBounds
    BY DEF AdminInit, GuardianPauseWithinBounds
<1>2. AdminTypeOK /\ GuardianPauseWithinBounds /\ [AdminNext]_<<evmNow, adminVars>>
         => GuardianPauseWithinBounds'
    <2> SUFFICES ASSUME AdminTypeOK, GuardianPauseWithinBounds,
                        [AdminNext]_<<evmNow, adminVars>>
                 PROVE  GuardianPauseWithinBounds'
        OBVIOUS
    <2>1. CASE AdminStep /\ UNCHANGED evmNow
        BY <2>1, AdminStepKeepsPauseBounds
    <2>2. CASE EvmTick /\ UNCHANGED adminVars
        BY <2>2, ClockAssumption, AdminAssumption
        DEF AdminTypeOK, GuardianPauseWithinBounds, Times, EvmTick, adminVars, pauseVars
    <2>3. CASE UNCHANGED <<evmNow, adminVars>>
        BY <2>3 DEF GuardianPauseWithinBounds, adminVars, pauseVars
    <2>. QED  BY <2>1, <2>2, <2>3 DEF AdminNext
<1>. QED  BY <1>1, <1>2, AdminTypesHold, PTL DEF AdminSpec
-----------------------------------------------------------------------------
(* The records of the locks and of the payments have their shape.  That the  *)
(* liability is a natural number is not needed here: it rests on the sum     *)
(* over the live locks, which the runs check.                                *)
LockTypes ==
    /\ locks \in [Intents -> Locks]
    /\ payments \in [Intents -> Seq(Payments)]

(* What a step does to one lock.                                             *)
OnlyTouches(h) ==
    \A g \in Intents \ {h} : locks'[g] = locks[g] /\ payments'[g] = payments[g]

IsClaimed(h) ==
    /\ ~Locked(h)
    /\ \E s \in Solvers, n \in Nat :
          locks' = [locks EXCEPT ![h] = [NoLock EXCEPT !.solver = s, !.amount = n]]
    /\ UNCHANGED payments

IsReleased(h) ==
    /\ Live(h)
    /\ locks' = [locks EXCEPT ![h].released = TRUE]
    /\ \E s \in Solvers :
          payments' = [payments EXCEPT ![h] = Append(@, [to |-> s, amount |-> locks[h].amount])]

IsRefunded(h) ==
    /\ Live(h)
    /\ locks' = [locks EXCEPT ![h].refunded = TRUE]
    /\ payments' = [payments EXCEPT ![h] = Append(@, [to |-> User, amount |-> locks[h].amount])]

Story(h) == IsClaimed(h) \/ IsReleased(h) \/ IsRefunded(h)

(* Every step leaves the locks alone, claims one, releases one or refunds    *)
(* one.                                                                      *)
LEMMA StepsTellStories ==
    ASSUME LockTypes, [Next]_vars
    PROVE  UNCHANGED <<locks, payments>> \/ \E h \in Intents : Story(h)
<1>1. ASSUME NEW h \in Intents, NEW s \in Solvers, NEW v \in CallValues, Lock(h, s, v)
      PROVE  Story(h)
    <2>1. Received(h) \in Int
        BY EscrowAssumption DEF Received
    <2>2. \E n \in Nat : RecordAndDispatch(h, s, n) /\ UNCHANGED payments
        BY <1>1, <2>1 DEF Lock, LockFunded, LockBreaching
    <2>3. ~Locked(h)
        BY <1>1 DEF Lock, LockFunded, LockBreaching, AcceptsLock
    <2>. QED  BY <2>2, <2>3 DEF RecordAndDispatch, Story, IsClaimed
<1>2. ASSUME NEW p \in Peers, NEW n \in InboundNonces, NEW m \in InboundMessages,
             NEW v \in CallValues, LzReceive(p, n, m, v)
      PROVE  UNCHANGED <<locks, payments>> \/ \E h \in Intents : Story(h)
    <2>1. m.hash \in Intents
        BY InboundAssumption DEF FillConfirmations, CancelIntents
    <2>2. CASE m.type = "FillConfirmed" /\ Release(m.hash, m.solverEvm, m.fillAmount)
        <3>1. m.solverEvm \in Solvers
            BY <2>2, InboundAssumption DEF FillConfirmations, CancelIntents
        <3>2. IsReleased(m.hash)
            BY <2>2, <3>1 DEF Release, PayOut, IsReleased, Live
        <3>. QED  BY <2>1, <3>2 DEF Story
    <2>3. CASE m.type = "CancelIntent" /\ ApplyCancel(m.hash)
        BY <2>1, <2>3 DEF ApplyCancel, Refund, PayOut, lockVars, Story, IsRefunded
    <2>. QED  BY <1>2, <2>2, <2>3 DEF LzReceive
<1>3. ASSUME NEW h \in Intents, CancelExpired(h)
      PROVE  Story(h)
    BY <1>3 DEF CancelExpired, Refund, PayOut, Story, IsRefunded
<1>4. CASE GovernanceStep \/ (\E a \in Assets : Donate(a)) \/ Tick \/ UNCHANGED vars
    <2>1. CASE GovernanceStep
        BY <2>1 DEF GovernanceStep, NonEscrowVars, lockVars, OwnerStep, SetPeer,
                    SetConfirmationGrace, Skim, SkimNative
    <2>2. CASE (\E a \in Assets : Donate(a)) \/ Tick \/ UNCHANGED vars
        BY <2>2 DEF Donate, Tick, vars, escrowVars, lockVars
    <2>. QED  BY <1>4, <2>1, <2>2
<1>. QED  BY <1>1, <1>2, <1>3, <1>4 DEF Next, Receive

LEMMA StoriesTouchOne ==
    ASSUME LockTypes, NEW h \in Intents, Story(h)
    PROVE  OnlyTouches(h)
BY DEF LockTypes, Story, IsClaimed, IsReleased, IsRefunded, OnlyTouches

(* The records of a touched lock and of its payments.                        *)
LEMMA StoryOfOneLock ==
    ASSUME LockTypes, NEW h \in Intents, Story(h)
    PROVE  \/ /\ ~Locked(h) /\ payments'[h] = payments[h]
              /\ locks'[h] \in Locks /\ locks'[h].solver \in Solvers
              /\ ~locks'[h].released /\ ~locks'[h].refunded
           \/ /\ Live(h)
              /\ \/ locks'[h] = [locks[h] EXCEPT !.released = TRUE]
                 \/ locks'[h] = [locks[h] EXCEPT !.refunded = TRUE]
              /\ \E p \in Payments :
                    /\ payments'[h] = Append(payments[h], p)
                    /\ p.amount = locks[h].amount
                    /\ locks'[h].refunded => p.to = User
<1>1. CASE IsClaimed(h)
    <2>1. PICK s \in Solvers, n \in Nat :
             locks' = [locks EXCEPT ![h] = [NoLock EXCEPT !.solver = s, !.amount = n]]
        BY <1>1 DEF IsClaimed
    <2>2. locks'[h] = [solver |-> s, amount |-> n, released |-> FALSE, refunded |-> FALSE]
        BY <2>1 DEF LockTypes, NoLock
    <2>3. locks'[h] \in Locks
        BY <2>2 DEF Locks
    <2>4. locks'[h].solver = s /\ ~locks'[h].released /\ ~locks'[h].refunded
        BY <2>2
    <2>. QED  BY <1>1, <2>3, <2>4 DEF IsClaimed
<1>2. CASE IsReleased(h)
    <2>1. PICK s \in Solvers : payments' =
             [payments EXCEPT ![h] = Append(@, [to |-> s, amount |-> locks[h].amount])]
        BY <1>2 DEF IsReleased
    <2>2. [to |-> s, amount |-> locks[h].amount] \in Payments
        BY DEF Payments, LockTypes, Locks
    <2>3. locks'[h] = [locks[h] EXCEPT !.released = TRUE] /\ ~locks'[h].refunded
        BY <1>2 DEF IsReleased, LockTypes, Locks, Live, Finalized
    <2>. QED  BY <1>2, <2>1, <2>2, <2>3 DEF IsReleased, LockTypes
<1>3. CASE IsRefunded(h)
    <2>1. [to |-> User, amount |-> locks[h].amount] \in Payments
        BY DEF Payments, LockTypes, Locks
    <2>. QED  BY <1>3, <2>1 DEF IsRefunded, LockTypes, Locks
<1>. QED  BY <1>1, <1>2, <1>3 DEF Story

LEMMA StoriesKeepTypes ==
    ASSUME LockTypes, NEW h \in Intents, Story(h)
    PROVE  LockTypes'
<1>1. locks' = [g \in Intents |-> locks'[g]] /\ payments' = [g \in Intents |-> payments'[g]]
    BY DEF LockTypes, Story, IsClaimed, IsReleased, IsRefunded
<1>2. locks'[h] \in Locks /\ payments'[h] \in Seq(Payments)
    <2>1. locks[h] \in Locks /\ payments[h] \in Seq(Payments)
        BY DEF LockTypes
    <2>2. /\ [locks[h] EXCEPT !.released = TRUE] \in Locks
          /\ [locks[h] EXCEPT !.refunded = TRUE] \in Locks
        BY <2>1 DEF Locks
    <2>3. \A p \in Payments : Append(payments[h], p) \in Seq(Payments)
        BY <2>1
    <2>. QED  BY <2>1, <2>2, <2>3, StoryOfOneLock
<1>3. \A g \in Intents \ {h} : locks'[g] \in Locks /\ payments'[g] \in Seq(Payments)
    BY StoriesTouchOne DEF OnlyTouches, LockTypes
<1>. QED  BY <1>1, <1>2, <1>3 DEF LockTypes

LEMMA LockTypesHold == Spec => []LockTypes
<1>1. Init => LockTypes
    <2> SUFFICES ASSUME Init
                 PROVE  LockTypes
        OBVIOUS
    <2>1. NoLock \in Locks
        BY DEF NoLock, Locks
    <2>. QED  BY <2>1 DEF Init, LockTypes
<1>2. LockTypes /\ [Next]_vars => LockTypes'
    <2> SUFFICES ASSUME LockTypes, [Next]_vars
                 PROVE  LockTypes'
        OBVIOUS
    <2>1. CASE UNCHANGED <<locks, payments>>
        BY <2>1 DEF LockTypes
    <2>. QED  BY <2>1, StepsTellStories, StoriesKeepTypes
<1>. QED  BY <1>1, <1>2, PTL DEF Spec
-----------------------------------------------------------------------------
(* PaidOnce for one lock.                                                    *)
Paid(h) ==
    /\ ~(locks[h].released /\ locks[h].refunded)
    /\ Finalized(h) => Locked(h)
    /\ IF Finalized(h)
       THEN /\ Len(payments[h]) = 1
            /\ payments[h][1].amount = locks[h].amount
            /\ locks[h].refunded => payments[h][1].to = User
       ELSE payments[h] = <<>>

LEMMA StoriesKeepPaid ==
    ASSUME LockTypes, NEW h \in Intents, Story(h), Paid(h)
    PROVE  Paid(h)'
<1> locks[h] \in Locks /\ payments[h] \in Seq(Payments)
    BY DEF LockTypes
<1>1. CASE /\ ~Locked(h) /\ payments'[h] = payments[h]
           /\ ~locks'[h].released /\ ~locks'[h].refunded
    BY <1>1 DEF Paid, Finalized
<1>2. CASE /\ Live(h)
           /\ \/ locks'[h] = [locks[h] EXCEPT !.released = TRUE]
              \/ locks'[h] = [locks[h] EXCEPT !.refunded = TRUE]
           /\ \E p \in Payments :
                 /\ payments'[h] = Append(payments[h], p)
                 /\ p.amount = locks[h].amount
                 /\ locks'[h].refunded => p.to = User
    <2>1. payments[h] = <<>> /\ ~locks[h].released /\ ~locks[h].refunded
        BY <1>2 DEF Live, Finalized, Paid
    <2>2. PICK p \in Payments : /\ payments'[h] = Append(<<>>, p)
                                /\ p.amount = locks[h].amount
                                /\ locks'[h].refunded => p.to = User
        BY <1>2, <2>1
    <2>3. Len(payments'[h]) = 1 /\ payments'[h][1] = p
        BY <2>2
    <2>4. /\ locks'[h].amount = locks[h].amount
          /\ locks'[h].solver = locks[h].solver
          /\ Finalized(h)'
          /\ ~(locks'[h].released /\ locks'[h].refunded)
        BY <1>2, <2>1 DEF Locks, Finalized
    <2>. QED  BY <1>2, <2>2, <2>3, <2>4 DEF Paid, Live, Locked
<1>. QED  BY <1>1, <1>2, StoryOfOneLock

(* A lock is paid out at most once, in full, when it is finalized: whatever  *)
(* the order of FillConfirmed, CancelIntent, cancelExpired and of what the   *)
(* owner and the guardian do in between.  Release and refund both test the   *)
(* terminal flags of the lock and set one of them with the payment.          *)
THEOREM LocksArePaidOnce == Spec => []PaidOnce
<1>1. Init => PaidOnce
    BY DEF Init, PaidOnce, NoLock, Finalized
<1>2. LockTypes /\ PaidOnce /\ [Next]_vars => PaidOnce'
    <2> SUFFICES ASSUME LockTypes, PaidOnce, [Next]_vars, NEW g \in Intents
                 PROVE  Paid(g)'
        BY DEF PaidOnce, Paid
    <2>1. Paid(g)
        BY DEF PaidOnce, Paid
    <2>2. CASE UNCHANGED <<locks, payments>>
        BY <2>1, <2>2 DEF Paid, Finalized, Locked
    <2>3. ASSUME NEW h \in Intents, h # g, Story(h)
          PROVE  Paid(g)'
        BY <2>1, <2>3, StoriesTouchOne DEF OnlyTouches, Paid, Finalized, Locked
    <2>4. CASE Story(g)
        BY <2>1, <2>4, StoriesKeepPaid
    <2>. QED  BY <2>2, <2>3, <2>4, StepsTellStories
<1>. QED  BY <1>1, <1>2, LockTypesHold, PTL DEF Spec

(* A claimed intent keeps its solver and its amount, and a finalized lock is *)
(* left alone: the checks for AlreadyLocked and AlreadyFinalized hold in     *)
(* every order of calls and messages.                                        *)
THEOREM LocksAreFinal == Spec => LockIsFinal
<1>1. LockTypes /\ PaidOnce /\ [Next]_vars
        => [\A h \in Intents :
               /\ Locked(h) => /\ locks'[h].solver = locks[h].solver
                               /\ locks'[h].amount = locks[h].amount
               /\ Finalized(h) => locks'[h] = locks[h]]_vars
    <2> SUFFICES ASSUME LockTypes, PaidOnce, [Next]_vars, NEW g \in Intents
                 PROVE  /\ Locked(g) => /\ locks'[g].solver = locks[g].solver
                                        /\ locks'[g].amount = locks[g].amount
                        /\ Finalized(g) => locks'[g] = locks[g]
        OBVIOUS
    <2>1. CASE UNCHANGED <<locks, payments>>
        BY <2>1
    <2>2. ASSUME NEW h \in Intents, h # g, Story(h)
          PROVE  locks'[g] = locks[g]
        BY <2>2, StoriesTouchOne DEF OnlyTouches
    <2>3. CASE Story(g)
        <3>1. locks[g] \in Locks /\ (Finalized(g) => Locked(g))
            BY DEF LockTypes, PaidOnce
        <3>. QED  BY <2>3, <3>1, StoryOfOneLock DEF Live, Locks
    <2>. QED  BY <2>1, <2>2, <2>3, StepsTellStories
<1>. QED  BY <1>1, LockTypesHold, LocksArePaidOnce, PTL DEF Spec, LockIsFinal

-----------------------------------------------------------------------------
MoneyTypes ==
    /\ totalLocked \in [Assets -> Int]
    /\ balance \in [Assets -> Int]

ChangesSurplus(a, n) ==
    /\ balance[a] + n >= totalLocked[a]
    /\ balance' = [balance EXCEPT ![a] = @ + n]
    /\ UNCHANGED totalLocked

(* The tokens held and the liability towards the locks move together: a lock *)
(* adds what was received to both, a payment takes the locked amount from    *)
(* both, and what the owner skims or somebody sends changes only the         *)
(* surplus.                                                                  *)
MoneyMoves ==
    \/ UNCHANGED <<balance, totalLocked>>
    \/ \E a \in Assets, n \in Int :
          /\ balance' = [balance EXCEPT ![a] = @ + n]
          /\ totalLocked' = [totalLocked EXCEPT ![a] = @ + n]
    \/ \E a \in Assets, n \in Int : ChangesSurplus(a, n)

LEMMA PaymentMovesBoth ==
    ASSUME LockTypes, MoneyTypes, NEW h \in Intents, NEW to, PayOut(h, to)
    PROVE  MoneyMoves
<1> DEFINE n == -locks[h].amount
<1>1. SourceAsset[h] \in Assets /\ locks[h].amount \in Nat /\ n \in Int
    BY EscrowAssumption DEF LockTypes, Locks
<1>2. /\ balance' = [balance EXCEPT ![SourceAsset[h]] = @ + n]
      /\ totalLocked' = [totalLocked EXCEPT ![SourceAsset[h]] = @ + n]
    BY <1>1 DEF PayOut, MoneyTypes
<1>. QED  BY <1>1, <1>2 DEF MoneyMoves

LEMMA StepsMoveMoney ==
    ASSUME LockTypes, MoneyTypes, Solvent, [Next]_vars
    PROVE  MoneyMoves
<1>1. ASSUME NEW h \in Intents, NEW s \in Solvers, NEW v \in CallValues, Lock(h, s, v)
      PROVE  MoneyMoves
    <2>1. SourceAsset[h] \in Assets /\ Received(h) \in Int
        BY EscrowAssumption DEF Received
    <2>2. CASE LockFunded(h, s, v)
        BY <2>1, <2>2 DEF LockFunded, RecordAndDispatch, MoneyMoves
    <2>3. CASE LockBreaching(h, s, v)
        <3>1. UNCHANGED balance /\ totalLocked' = [totalLocked EXCEPT ![SourceAsset[h]] = @ + 0]
            BY <2>3 DEF LockBreaching, RecordAndDispatch
        <3>2. UNCHANGED totalLocked
            BY <3>1 DEF MoneyTypes
        <3>. QED  BY <3>1, <3>2 DEF MoneyMoves
    <2>. QED  BY <1>1, <2>2, <2>3 DEF Lock
<1>2. ASSUME NEW p \in Peers, NEW n \in InboundNonces, NEW m \in InboundMessages,
             NEW v \in CallValues, LzReceive(p, n, m, v)
      PROVE  MoneyMoves
    <2>1. m.hash \in Intents
        BY InboundAssumption DEF FillConfirmations, CancelIntents
    <2>2. CASE PayOut(m.hash, m.solverEvm) \/ PayOut(m.hash, User)
        BY <2>1, <2>2, PaymentMovesBoth
    <2>3. CASE UNCHANGED <<lockVars, balance>>
        BY <2>3 DEF lockVars, MoneyMoves
    <2>. QED  BY <1>2, <2>2, <2>3 DEF LzReceive, Release, ApplyCancel, Refund
<1>3. ASSUME NEW h \in Intents, CancelExpired(h)
      PROVE  MoneyMoves
    BY <1>3, PaymentMovesBoth DEF CancelExpired, Refund
<1>4. ASSUME NEW c \in ConfigCallers, NEW a \in Assets, NEW n \in 1 .. balance[a],
             Skim(c, a, n)
      PROVE  MoneyMoves
    <2>1. balance[a] \in Int /\ totalLocked[a] \in Int /\ balance[a] >= totalLocked[a]
        BY DEF MoneyTypes, Solvent
    <2>2. balance' = [balance EXCEPT ![a] = @ + (-n)] /\ UNCHANGED totalLocked
        BY <1>4, <2>1 DEF Skim, lockVars, MoneyTypes
    <2>3. balance[a] + (-n) >= totalLocked[a]
        BY <1>4, <2>1 DEF Skim, Surplus
    <2>4. -n \in Int /\ ChangesSurplus(a, -n)
        BY <2>1, <2>2, <2>3 DEF ChangesSurplus
    <2>. QED  BY <2>4 DEF MoneyMoves
<1>5. ASSUME NEW a \in Assets, Donate(a)
      PROVE  MoneyMoves
    <2>1. balance[a] + 1 >= totalLocked[a]
        BY DEF MoneyTypes, Solvent
    <2>2. ChangesSurplus(a, 1)
        BY <1>5, <2>1 DEF Donate, lockVars, ChangesSurplus
    <2>. QED  BY <2>2 DEF MoneyMoves
<1>6. CASE \/ GovernanceStep /\ UNCHANGED balance
           \/ Tick \/ UNCHANGED vars
    BY <1>6 DEF GovernanceStep, NonEscrowVars, lockVars, OwnerStep, SetPeer,
                SetConfirmationGrace, Skim, SkimNative, Tick, vars, escrowVars, MoneyMoves
<1>7. GovernanceStep => \/ UNCHANGED balance
                        \/ \E c \in ConfigCallers, a \in Assets :
                              \E n \in 1 .. balance[a] : Skim(c, a, n)
    BY DEF GovernanceStep, NonEscrowVars, OwnerStep, SetPeer, SetConfirmationGrace,
           SkimNative
<1>. QED  BY <1>1, <1>2, <1>3, <1>4, <1>5, <1>6, <1>7 DEF Next, Receive

LEMMA MoneyHolds == Spec => [](MoneyTypes /\ Solvent)
<1>1. Init => MoneyTypes /\ Solvent
    BY DEF Init, MoneyTypes, Solvent
<1>2. LockTypes /\ (MoneyTypes /\ Solvent) /\ [Next]_vars => (MoneyTypes /\ Solvent)'
    <2> SUFFICES ASSUME LockTypes, MoneyTypes, Solvent, MoneyMoves
                 PROVE  MoneyTypes' /\ Solvent'
        BY StepsMoveMoney
    <2>1. \A a \in Assets : /\ balance[a] \in Int /\ totalLocked[a] \in Int
                            /\ balance[a] >= totalLocked[a]
        BY DEF MoneyTypes, Solvent
    <2>2. CASE UNCHANGED <<balance, totalLocked>>
        BY <2>2 DEF MoneyTypes, Solvent
    <2>3. ASSUME NEW a \in Assets, NEW n \in Int,
                 balance' = [balance EXCEPT ![a] = @ + n],
                 totalLocked' = [totalLocked EXCEPT ![a] = @ + n]
          PROVE  MoneyTypes' /\ Solvent'
        BY <2>1, <2>3 DEF MoneyTypes, Solvent
    <2>4. ASSUME NEW a \in Assets, NEW n \in Int, ChangesSurplus(a, n)
          PROVE  MoneyTypes' /\ Solvent'
        BY <2>1, <2>4 DEF ChangesSurplus, MoneyTypes, Solvent
    <2>. QED  BY <2>2, <2>3, <2>4 DEF MoneyMoves
<1>. QED  BY <1>1, <1>2, LockTypesHold, PTL DEF Spec

(* The tokens held cover the liability towards the live locks, for every     *)
(* token that withholds a fee, with donations and skims in any order: skim   *)
(* is bounded by the surplus and every other step moves both together.       *)
THEOREM AlwaysSolvent == Spec => []Solvent
BY MoneyHolds, PTL
-----------------------------------------------------------------------------
(* What one lock adds to the liability.                                      *)
Weight(h) == IF Live(h) THEN locks[h].amount ELSE 0

Liability == \A a \in Assets : totalLocked[a] = Total(IntentOrder, LiveAmounts(a))

(* The liability and the weight of one lock move together.                   *)
Reweighs(h, n) ==
    /\ \A g \in Intents \ {h} : locks'[g] = locks[g]
    /\ totalLocked' = [totalLocked EXCEPT ![SourceAsset[h]] = @ + n]
    /\ Weight(h)' = Weight(h) + n

LEMMA PaymentReweighs ==
    ASSUME LockTypes, MoneyTypes, NEW h \in Intents, NEW to, PayOut(h, to), Live(h),
           \/ locks' = [locks EXCEPT ![h].released = TRUE]
           \/ locks' = [locks EXCEPT ![h].refunded = TRUE]
    PROVE  \E n \in Int : Reweighs(h, n)
<1>1. SourceAsset[h] \in Assets /\ locks[h] \in Locks /\ locks[h].amount \in Nat
    BY EscrowAssumption DEF LockTypes, Locks
<1>2. Finalized(h)'
    BY <1>1 DEF LockTypes, Locks, Finalized
<1>3. Weight(h) = locks[h].amount /\ Weight(h)' = 0
    BY <1>2 DEF Weight, Live
<1>4. totalLocked' = [totalLocked EXCEPT ![SourceAsset[h]] = @ + (-locks[h].amount)]
    BY <1>1 DEF PayOut, MoneyTypes
<1>5. \A g \in Intents \ {h} : locks'[g] = locks[g]
    BY DEF LockTypes
<1>6. -locks[h].amount \in Int /\ Reweighs(h, -locks[h].amount)
    BY <1>1, <1>3, <1>4, <1>5 DEF Reweighs
<1>. QED  BY <1>6

LEMMA StepsReweigh ==
    ASSUME LockTypes, MoneyTypes, [Next]_vars
    PROVE  \/ UNCHANGED <<locks, totalLocked>>
           \/ \E h \in Intents, n \in Int : Reweighs(h, n)
<1>1. ASSUME NEW h \in Intents, NEW s \in Solvers, NEW v \in CallValues, Lock(h, s, v)
      PROVE  \E n \in Int : Reweighs(h, n)
    <2>1. ~Locked(h)
        BY <1>1 DEF Lock, LockFunded, LockBreaching, AcceptsLock
    <2>2. Received(h) \in Int
        BY EscrowAssumption DEF Received
    <2>3. PICK n \in Int : RecordAndDispatch(h, s, n)
        BY <1>1, <2>2 DEF Lock, LockFunded, LockBreaching
    <2>4. locks'[h] = [solver |-> s, amount |-> n, released |-> FALSE, refunded |-> FALSE]
        BY <2>3 DEF RecordAndDispatch, LockTypes, NoLock
    <2>5. Live(h)' /\ locks'[h].amount = n
        <3>1. locks'[h].solver = s /\ ~locks'[h].released /\ ~locks'[h].refunded
              /\ locks'[h].amount = n
            BY <2>4
        <3>. QED  BY <3>1, EscrowAssumption DEF Live, Locked, Finalized
    <2>6. Weight(h) = 0 /\ Weight(h)' = n
        BY <2>1, <2>5 DEF Weight, Live
    <2>7. Reweighs(h, n)
        BY <2>3, <2>6 DEF RecordAndDispatch, LockTypes, Reweighs
    <2>. QED  BY <2>7
<1>2. ASSUME NEW p \in Peers, NEW k \in InboundNonces, NEW m \in InboundMessages,
             NEW v \in CallValues, LzReceive(p, k, m, v)
      PROVE  \/ UNCHANGED <<locks, totalLocked>>
             \/ \E h \in Intents, n \in Int : Reweighs(h, n)
    <2>1. m.hash \in Intents
        BY InboundAssumption DEF FillConfirmations, CancelIntents
    <2>2. CASE Release(m.hash, m.solverEvm, m.fillAmount)
        BY <2>1, <2>2, PaymentReweighs DEF Release, Live
    <2>3. CASE ApplyCancel(m.hash)
        <3>1. CASE Live(m.hash) /\ Refund(m.hash)
            BY <2>1, <3>1, PaymentReweighs DEF Refund
        <3>2. CASE UNCHANGED <<lockVars, balance>>
            BY <3>2 DEF lockVars
        <3>. QED  BY <2>3, <3>1, <3>2 DEF ApplyCancel
    <2>. QED  BY <1>2, <2>2, <2>3 DEF LzReceive
<1>3. ASSUME NEW h \in Intents, CancelExpired(h)
      PROVE  \E n \in Int : Reweighs(h, n)
    BY <1>3, PaymentReweighs DEF CancelExpired, Refund
<1>4. CASE GovernanceStep \/ (\E a \in Assets : Donate(a)) \/ Tick \/ UNCHANGED vars
    <2>1. CASE GovernanceStep
        BY <2>1 DEF GovernanceStep, NonEscrowVars, lockVars, OwnerStep, SetPeer,
                    SetConfirmationGrace, Skim, SkimNative
    <2>2. CASE (\E a \in Assets : Donate(a)) \/ Tick \/ UNCHANGED vars
        BY <2>2 DEF Donate, Tick, vars, escrowVars, lockVars
    <2>. QED  BY <1>4, <2>1, <2>2
<1>. QED  BY <1>1, <1>2, <1>3, <1>4 DEF Next, Receive

LEMMA OrderOfIntents == Enumerates(IntentOrder, Intents)
BY EnumerationExists, EscrowAssumption DEF IntentOrder

LEMMA AmountsAreInts ==
    ASSUME LockTypes, NEW a
    PROVE  \A h \in Intents : LiveAmounts(a)[h] \in Nat
BY DEF LockTypes, Locks, LiveAmounts

LEMMA ReweighingKeepsLiability ==
    ASSUME LockTypes, LockTypes', MoneyTypes, Liability,
           NEW c \in Intents, NEW n \in Int, Reweighs(c, n)
    PROVE  Liability'
<1> SUFFICES ASSUME NEW a \in Assets
             PROVE  totalLocked'[a] = Total(IntentOrder, LiveAmounts(a)')
    BY DEF Liability, IntentOrder
<1>1. PICK old : old = LiveAmounts(a)
    OBVIOUS
<1>2. PICK new : new = LiveAmounts(a)'
    OBVIOUS
<1>3. /\ \A h \in Intents : old[h] = IF SourceAsset[h] = a THEN Weight(h) ELSE 0
      /\ \A h \in Intents : new[h] = IF SourceAsset[h] = a THEN Weight(h)' ELSE 0
    BY <1>1, <1>2 DEF LiveAmounts, Weight
<1>4. /\ \A h \in Intents : old[h] \in Nat
      /\ \A h \in Intents : new[h] \in Nat
    BY <1>1, <1>2 DEF LockTypes, Locks, LiveAmounts
<1>5. \A h \in Intents : h # c => new[h] = old[h]
    BY <1>3 DEF Reweighs, Weight, Live, Locked, Finalized
<1>6. Total(IntentOrder, new) = Total(IntentOrder, old) + (new[c] - old[c])
    <2>1. \A h \in Intents : old[h] \in Int /\ new[h] \in Int
        BY <1>4
    <2>. QED  BY <1>5, <2>1, OrderOfIntents, TotalOfChange
<1>7. totalLocked[a] = Total(IntentOrder, old) /\ totalLocked[a] \in Int
    BY <1>1 DEF Liability, MoneyTypes
<1>8. totalLocked'[a] = totalLocked[a] + (new[c] - old[c])
    <2>1. CASE SourceAsset[c] = a
        BY <1>3, <1>4, <1>7, <2>1 DEF Reweighs, MoneyTypes
    <2>2. CASE SourceAsset[c] # a
        BY <1>3, <1>7, <2>2 DEF Reweighs, MoneyTypes
    <2>. QED  BY <2>1, <2>2
<1>. QED  BY <1>2, <1>6, <1>7, <1>8

LEMMA LiabilityHolds == Spec => []Liability
<1>1. Init => Liability
    <2> SUFFICES ASSUME Init, NEW a \in Assets
                 PROVE  totalLocked[a] = Total(IntentOrder, LiveAmounts(a))
        BY DEF Liability
    <2>1. \A h \in Intents : LiveAmounts(a)[h] = 0
        BY DEF Init, LiveAmounts, NoLock, Live, Locked
    <2>2. IntentOrder \in Seq(Intents)
        BY OrderOfIntents DEF Enumerates
    <2>3. Total(IntentOrder, LiveAmounts(a)) = 0
        BY <2>1, <2>2, ZeroTotal
    <2>. QED  BY <2>3 DEF Init
<1>2. LockTypes /\ LockTypes' /\ (MoneyTypes /\ Solvent) /\ Liability /\ [Next]_vars => Liability'
    <2> SUFFICES ASSUME LockTypes, LockTypes', MoneyTypes, Liability, [Next]_vars
                 PROVE  Liability'
        OBVIOUS
    <2>1. CASE UNCHANGED <<locks, totalLocked>>
        BY <2>1 DEF Liability, LiveAmounts, Live, Locked, Finalized
    <2>. QED  BY <2>1, StepsReweigh, ReweighingKeepsLiability
<1>. QED  BY <1>1, <1>2, LockTypesHold, MoneyHolds, PTL DEF Spec
-----------------------------------------------------------------------------
(* The other types of the escrow.                                            *)

LEMMA WindowHasBegun ==
    ASSUME evmNow \in Nat, rollingWindowDuration \in Nat \ {0}
    PROVE  WindowStart \in 0 .. evmNow
BY WindowsAreMultiples DEF WindowStart

LEMMA CapsStepKeepsTypes ==
    ASSUME CapsTypeOK, evmNow \in Nat, evmNow <= MaxTime, CapsStep
    PROVE  CapsTypeOK'
<1> USE CapsAssumption DEF CapsTypeOK
<1>1. ASSUME NEW c \in ConfigCallers, NEW a \in ToggledAssets, NEW b \in BOOLEAN,
             SetAssetAllowed(c, a, b)
      PROVE  CapsTypeOK'
    BY <1>1 DEF SetAssetAllowed, windowConfigVars, windowUseVars, breakerVars
<1>2. ASSUME NEW c \in ConfigCallers, NEW a \in Assets, NEW n \in LockMaxima,
             SetMaxIntentAmountPerAsset(c, a, n)
      PROVE  CapsTypeOK'
    BY <1>2 DEF SetMaxIntentAmountPerAsset, windowConfigVars, windowUseVars, breakerVars
<1>3. ASSUME NEW c \in ConfigCallers, NEW n \in LockMaxima, SetMaxIntentAmount(c, n)
      PROVE  CapsTypeOK'
    BY <1>3 DEF SetMaxIntentAmount, windowConfigVars, windowUseVars, breakerVars
<1>4. ASSUME NEW c \in ConfigCallers, NEW d \in WindowDurations, NEW n \in WindowCaps,
             SetRollingWindowCap(c, d, n)
      PROVE  CapsTypeOK'
    BY <1>4 DEF SetRollingWindowCap, limitVars, windowUseVars, breakerVars
<1>5. ASSUME NEW c \in ConfigCallers, NEW a \in Assets, NEW d \in WindowDurations,
             NEW n \in WindowCaps, SetRollingWindowCapForAsset(c, a, d, n)
      PROVE  CapsTypeOK'
    BY <1>5 DEF SetRollingWindowCapForAsset, limitVars, windowUseVars, breakerVars
<1>6. ASSUME NEW c \in ConfigCallers, ResetRollingWindowCap(c)
      PROVE  CapsTypeOK'
    <2>1. rollingWindowBuckets' \in [Assets -> [0 .. MaxTime -> Nat]]
        BY <1>6 DEF ResetRollingWindowCap
    <2>. QED  BY <1>6, <2>1 DEF ResetRollingWindowCap, limitVars, windowConfigVars
<1> HIDE DEF CapsTypeOK
<1>. QED  BY <1>1, <1>2, <1>3, <1>4, <1>5, <1>6 DEF CapsStep

LEMMA CommitKeepsTypes ==
    ASSUME CapsTypeOK, evmNow \in Nat, evmNow <= MaxTime, NEW a \in Assets,
           NEW n \in Nat, CommitToWindow(a, n)
    PROVE  CapsTypeOK'
<1>1. CASE WindowCapActive(a)
    <2>1. WindowStart \in 0 .. MaxTime
        BY <1>1, WindowHasBegun, ClockAssumption DEF WindowCapActive, CapsTypeOK
    <2>2. rollingWindowBuckets' \in [Assets -> [0 .. MaxTime -> Nat]]
        <3>1. PICK t \in 0 .. MaxTime : t = WindowStart
            BY <2>1
        <3>2. rollingWindowBuckets' = [rollingWindowBuckets EXCEPT ![a][t] = @ + n]
            BY <1>1, <3>1 DEF CommitToWindow
        <3>3. /\ rollingWindowBuckets \in [Assets -> [0 .. MaxTime -> Nat]]
              /\ rollingWindowBuckets[a] \in [0 .. MaxTime -> Nat]
            BY DEF CapsTypeOK
        <3>4. rollingWindowBuckets[a][t] + n \in Nat
            BY <3>1, <3>3
        <3>5. [rollingWindowBuckets[a] EXCEPT ![t] = rollingWindowBuckets[a][t] + n]
                  \in [0 .. MaxTime -> Nat]
            BY <3>1, <3>3, <3>4
        <3>. QED  BY <3>2, <3>3, <3>5
    <2>3. latestWindowStart' \in [Assets -> 0 .. MaxTime]
        BY <1>1, <2>1 DEF CommitToWindow, CapsTypeOK
    <2>. QED  BY <2>2, <2>3 DEF CommitToWindow, CapsTypeOK, limitVars, windowConfigVars, breakerVars
<1>2. CASE ~WindowCapActive(a)
    BY <1>2 DEF CommitToWindow, CapsTypeOK, limitVars, windowConfigVars, windowUseVars,
                breakerVars
<1>. QED  BY <1>1, <1>2

OtherTypes ==
    /\ AdminTypeOK
    /\ CapsTypeOK
    /\ stellarPeer \in Peers
    /\ confirmationGrace \in MinConfirmationGrace .. MaxConfirmationGrace
    /\ nativeBalance \in Nat
    /\ consumed \subseteq Nat
    /\ outbox \in Seq(FillInstructions)

LEMMA LockKeepsOtherTypes ==
    ASSUME OtherTypes, NEW h \in Intents, NEW s \in Solvers, NEW v \in CallValues,
           Lock(h, s, v)
    PROVE  OtherTypes'
<1> USE EscrowAssumption DEF OtherTypes
<1>1. evmNow \in Nat /\ evmNow <= MaxTime /\ SourceAsset[h] \in Assets /\ v \in Nat
    BY ClockAssumption DEF AdminTypeOK, Times
<1>2. outbox' \in Seq(FillInstructions)
    <2>1. FillInstruction(h, s) \in FillInstructions
        BY DEF FillInstruction, FillInstructions
    <2>2. outbox' = Append(outbox, FillInstruction(h, s))
        BY DEF Lock, LockFunded, LockBreaching, RecordAndDispatch
    <2>. QED  BY <2>1, <2>2
<1>3. UNCHANGED <<evmNow, adminVars, stellarPeer, confirmationGrace, consumed>>
    BY DEF Lock, LockFunded, LockBreaching
<1>4. AdminTypeOK'
    BY <1>3 DEF AdminTypeOK, adminVars, roleVars, pauseVars
<1>5. nativeBalance' \in Nat
    BY <1>1 DEF Lock, LockFunded, LockBreaching
<1>6. CapsTypeOK'
    <2>1. CASE LockFunded(h, s, v)
        <3>1. Received(h) \in Nat
            BY <1>1, <2>1 DEF LockFunded, Received
        <3>. QED  BY <1>1, <2>1, <3>1, CommitKeepsTypes DEF LockFunded
    <2>2. CASE LockBreaching(h, s, v)
        <3>1. evmNow + rollingWindowDuration \in Nat
            BY <1>1 DEF CapsTypeOK
        <3>. QED  BY <1>1, <2>2, <3>1
                  DEF LockBreaching, LatchBreaker, CapsTypeOK, limitVars, windowConfigVars,
                      windowUseVars
    <2>. QED  BY <2>1, <2>2 DEF Lock
<1>. QED  BY <1>2, <1>3, <1>4, <1>5, <1>6

LEMMA OtherTypesHold == Spec => []OtherTypes
<1>1. Init => OtherTypes
    <2> SUFFICES ASSUME Init
                 PROVE  OtherTypes
        OBVIOUS
    <2>1. paused \in BOOLEAN
        BY Zenon DEF Init, AdminInit
    <2>2. AdminTypeOK
        BY <2>1, ClockAssumption, AdminAssumption
           DEF Init, ClockInit, AdminInit, AdminTypeOK, Times
    <2>3. rollingWindowTriggered \in BOOLEAN
        BY Zenon DEF Init, CapsInit
    <2>4. CapsTypeOK
        BY <2>3, ClockAssumption, CapsAssumption DEF Init, CapsInit, CapsTypeOK
    <2>. QED  BY <2>2, <2>4, EscrowAssumption DEF Init, OtherTypes
<1>2. OtherTypes /\ [Next]_vars => OtherTypes'
    <2> SUFFICES ASSUME OtherTypes, [Next]_vars
                 PROVE  OtherTypes'
        OBVIOUS
    <2>1. evmNow \in Nat /\ evmNow <= MaxTime
        BY ClockAssumption DEF OtherTypes, AdminTypeOK, Times
    <2>2. ASSUME UNCHANGED <<evmNow, adminVars>>
          PROVE  AdminTypeOK'
        BY <2>2 DEF OtherTypes, AdminTypeOK, adminVars, roleVars, pauseVars
    <2>3. ASSUME UNCHANGED capVars
          PROVE  CapsTypeOK'
        BY <2>3 DEF OtherTypes, CapsTypeOK, capVars, limitVars, windowConfigVars,
                    windowUseVars, breakerVars
    <2>4. ASSUME NEW p \in Peers, NEW n \in InboundNonces, NEW m \in InboundMessages,
                 NEW v \in CallValues, LzReceive(p, n, m, v)
          PROVE  OtherTypes'
        <3>1. /\ UNCHANGED <<evmNow, escrowConfigVars, outbox>>
              /\ nativeBalance' = nativeBalance + v /\ consumed' = consumed \cup {n}
            BY <2>4 DEF LzReceive
        <3>2. AdminTypeOK' /\ CapsTypeOK'
            BY <3>1, <2>2, <2>3 DEF escrowConfigVars
        <3>. QED  BY <3>1, <3>2, EscrowAssumption, InboundAssumption
                  DEF OtherTypes, escrowConfigVars
    <2>5. ASSUME NEW h \in Intents, CancelExpired(h)
          PROVE  OtherTypes'
        <3>1. UNCHANGED <<evmNow, escrowConfigVars, transportVars, nativeBalance>>
            BY <2>5 DEF CancelExpired
        <3>2. AdminTypeOK' /\ CapsTypeOK'
            BY <3>1, <2>2, <2>3 DEF escrowConfigVars
        <3>. QED  BY <3>1, <3>2 DEF OtherTypes, escrowConfigVars, transportVars
    <2>6. CASE AdminStep /\ UNCHANGED <<capVars, NonEscrowVars>>
        <3>1. AdminTypeOK'
            BY <2>6, AdminStepKeepsTypes DEF OtherTypes, NonEscrowVars
        <3>2. CapsTypeOK'
            BY <2>6, <2>3
        <3>. QED  BY <2>6, <3>1, <3>2 DEF OtherTypes, NonEscrowVars, transportVars
    <2>7. CASE CapsStep /\ UNCHANGED <<adminVars, NonEscrowVars>>
        <3>1. CapsTypeOK'
            BY <2>1, <2>7, CapsStepKeepsTypes DEF OtherTypes
        <3>2. AdminTypeOK'
            BY <2>7, <2>2 DEF NonEscrowVars
        <3>. QED  BY <2>7, <3>1, <3>2 DEF OtherTypes, NonEscrowVars, transportVars
    <2>8. CASE OwnerStep
        <3>1. ASSUME NEW c \in ConfigCallers, NEW p \in Peers, SetPeer(c, p)
              PROVE  OtherTypes'
            BY <3>1, <2>2, <2>3 DEF SetPeer, OtherTypes, transportVars
        <3>2. ASSUME NEW c \in ConfigCallers, NEW g \in GraceValues, SetConfirmationGrace(c, g)
              PROVE  OtherTypes'
            BY <3>2, <2>2, <2>3 DEF SetConfirmationGrace, OtherTypes, transportVars
        <3>3. ASSUME NEW c \in ConfigCallers, NEW a \in Assets, NEW n, Skim(c, a, n)
              PROVE  OtherTypes'
            BY <3>3, <2>2, <2>3 DEF Skim, OtherTypes, transportVars, escrowConfigVars
        <3>4. ASSUME NEW c \in ConfigCallers, NEW n \in 1 .. nativeBalance, SkimNative(c, n)
              PROVE  OtherTypes'
            BY <3>4, <2>2, <2>3 DEF SkimNative, OtherTypes, transportVars, escrowConfigVars
        <3>. QED  BY <2>8, <3>1, <3>2, <3>3, <3>4 DEF OwnerStep
    <2>9. CASE \E a \in Assets : Donate(a)
        BY <2>9, <2>2, <2>3 DEF Donate, OtherTypes, transportVars, escrowConfigVars
    <2>10. CASE Tick
        <3>1. AdminTypeOK'
            BY <2>10, TickKeepsTypes DEF Tick, escrowVars, escrowConfigVars, OtherTypes
        <3>2. CapsTypeOK'
            BY <2>10, <2>3 DEF Tick, escrowVars, escrowConfigVars
        <3>. QED  BY <2>10, <3>1, <3>2
                  DEF Tick, escrowVars, escrowConfigVars, OtherTypes, transportVars
    <2>11. CASE UNCHANGED vars
        BY <2>11, <2>2, <2>3 DEF vars, escrowVars, escrowConfigVars, OtherTypes, transportVars
    <2>12. CASE GovernanceStep
        BY <2>12, <2>6, <2>7, <2>8 DEF GovernanceStep
    <2>. QED  BY <2>4, <2>5, <2>9, <2>10, <2>11, <2>12, LockKeepsOtherTypes DEF Next, Receive
<1>. QED  BY <1>1, <1>2, PTL DEF Spec

(* totalLocked is the sum of the live locks of the asset, whatever order the *)
(* locks, messages, refunds and skims come in: it never wraps around below   *)
(* zero, and the amount that skim leaves alone is the one that is owed.      *)
THEOREM LiabilityIsTrue == Spec => []LiabilityMatchesLocks
<1>1. LockTypes /\ (MoneyTypes /\ Solvent) /\ Liability /\ OtherTypes => LiabilityMatchesLocks
    <2> SUFFICES ASSUME LockTypes, MoneyTypes, Solvent, Liability, OtherTypes
                 PROVE  LiabilityMatchesLocks
        OBVIOUS
    <2>1. ASSUME NEW a \in Assets
          PROVE  totalLocked[a] \in Nat
        <3>1. PICK amounts : amounts = LiveAmounts(a)
            OBVIOUS
        <3>2. \A h \in Intents : amounts[h] \in Nat
            BY <3>1, AmountsAreInts
        <3>3. Total(IntentOrder, amounts) \in Nat
            BY <3>2, OrderOfIntents, TotalIsNat
        <3>. QED  BY <3>1, <3>3 DEF Liability
    <2>2. totalLocked \in [Assets -> Nat]
        BY <2>1 DEF MoneyTypes
    <2>3. balance \in [Assets -> Nat]
        BY <2>2 DEF MoneyTypes, Solvent
    <2>. QED  BY <2>2, <2>3
              DEF LiabilityMatchesLocks, TypeOK, LockTypes, Liability, OtherTypes
<1>. QED  BY <1>1, LockTypesHold, MoneyHolds, LiabilityHolds, OtherTypesHold, PTL

(* The tokens of every live lock are there: the transfer of a release, a     *)
(* cancel or a refund goes through, whatever was skimmed, paid or withheld   *)
(* before.                                                                   *)
THEOREM LiveLocksAreCovered ==
    Spec => [](\A h \in Intents : Live(h) => balance[SourceAsset[h]] >= locks[h].amount)
<1>1. LockTypes /\ (MoneyTypes /\ Solvent) /\ Liability
        => \A h \in Intents : Live(h) => balance[SourceAsset[h]] >= locks[h].amount
    <2> SUFFICES ASSUME LockTypes, MoneyTypes, Solvent, Liability,
                        NEW h \in Intents, Live(h)
                 PROVE  balance[SourceAsset[h]] >= locks[h].amount
        OBVIOUS
    <2>1. PICK a \in Assets : a = SourceAsset[h]
        BY EscrowAssumption
    <2>2. PICK amounts : amounts = LiveAmounts(a)
        OBVIOUS
    <2>3. \A g \in Intents : amounts[g] \in Nat
        BY <2>2, AmountsAreInts
    <2>4. amounts[h] <= Total(IntentOrder, amounts) /\ Total(IntentOrder, amounts) \in Nat
        BY <2>3, OrderOfIntents, TotalCoversEach
    <2>5. amounts[h] = locks[h].amount /\ totalLocked[a] = Total(IntentOrder, amounts)
        BY <2>1, <2>2 DEF LiveAmounts, Liability
    <2>6. balance[a] >= totalLocked[a] /\ balance[a] \in Int
        BY DEF Solvent, MoneyTypes
    <2>. QED  BY <2>1, <2>3, <2>4, <2>5, <2>6
<1>. QED  BY <1>1, LockTypesHold, MoneyHolds, LiabilityHolds, PTL

(* What cancelExpired asks for, and what it then does: each variable has one *)
(* next value, so the call goes through wherever its conditions hold.        *)
RefundConditions(h) ==
    /\ Live(h)
    /\ evmNow >= Deadline[h] + confirmationGrace
    /\ balance[SourceAsset[h]] >= locks[h].amount

RefundEffects(h) ==
    LET asset == SourceAsset[h]
    IN /\ locks' = [locks EXCEPT ![h].refunded = TRUE]
       /\ balance' = [balance EXCEPT ![asset] = @ - locks[h].amount]
       /\ totalLocked' = [totalLocked EXCEPT ![asset] = @ - locks[h].amount]
       /\ payments' = [payments EXCEPT ![h] = Append(@, [to |-> User,
                                                         amount |-> locks[h].amount])]
       /\ UNCHANGED <<evmNow, escrowConfigVars, transportVars, nativeBalance>>

LEMMA CancelExpiredIsItsParts ==
    ASSUME NEW h \in Intents
    PROVE  CancelExpired(h) <=> RefundConditions(h) /\ RefundEffects(h)
BY DEF CancelExpired, Refund, PayOut, RefundConditions, RefundEffects

(* What RefundIsInReach says, with the conditions of cancelExpired for its   *)
(* ENABLED: they hold for every live lock once the longest grace has passed, *)
(* paused or not, whatever the owner, the guardian and the skims did; and    *)
(* refundStatus of the SDK calls a lock refundable exactly when they hold.   *)
THEOREM RefundsGoThrough ==
    Spec => [](\A h \in Intents :
                  /\ Live(h) /\ evmNow >= Deadline[h] + MaxConfirmationGrace
                        => RefundConditions(h)
                  /\ IsRefundable(h) <=> RefundConditions(h))
<1>1. /\ OtherTypes
      /\ \A h \in Intents : Live(h) => balance[SourceAsset[h]] >= locks[h].amount
      => \A h \in Intents :
            /\ Live(h) /\ evmNow >= Deadline[h] + MaxConfirmationGrace
                  => RefundConditions(h)
            /\ IsRefundable(h) <=> RefundConditions(h)
    <2> SUFFICES ASSUME OtherTypes, NEW h \in Intents,
                        \A g \in Intents : Live(g) => balance[SourceAsset[g]] >= locks[g].amount
                 PROVE  /\ Live(h) /\ evmNow >= Deadline[h] + MaxConfirmationGrace
                              => RefundConditions(h)
                        /\ IsRefundable(h) <=> RefundConditions(h)
        OBVIOUS
    <2>1. /\ evmNow \in Nat /\ Deadline[h] \in Nat /\ confirmationGrace \in Nat
          /\ confirmationGrace <= MaxConfirmationGrace /\ MaxConfirmationGrace \in Nat
        BY EscrowAssumption, ClockAssumption DEF OtherTypes, AdminTypeOK, Times
    <2>2. Live(h) /\ evmNow >= Deadline[h] + MaxConfirmationGrace => RefundConditions(h)
        BY <2>1 DEF RefundConditions
    <2>3. CASE ~Locked(h)
        <3>1. GetLock(h) = {} /\ ~Live(h)
            BY <2>3 DEF GetLock, Live
        <3>2. RefundStatus(h) = "NotLocked"
            BY <2>3, <3>1 DEF RefundStatus
        <3>. QED  BY <2>2, <3>1, <3>2 DEF IsRefundable, RefundConditions
    <2>4. CASE Locked(h) /\ Finalized(h)
        <3>1. GetLock(h) # {} /\ ~Live(h)
            BY <2>4 DEF GetLock, Live
        <3>2. RefundStatus(h) = "AlreadyFinalized"
            BY <2>4, <3>1 DEF RefundStatus
        <3>. QED  BY <2>2, <3>1, <3>2 DEF IsRefundable, RefundConditions
    <2>5. CASE Live(h)
        <3>1. GetLock(h) # {} /\ ~(Locked(h) /\ Finalized(h))
            BY <2>5 DEF GetLock, Live
        <3>2. RefundStatus(h) = IF evmNow < Deadline[h] + confirmationGrace
                                THEN "DeadlineNotPassed" ELSE "refundable"
            BY <2>5, <3>1 DEF RefundStatus, RefundableAt
        <3>3. IsRefundable(h) <=> evmNow >= Deadline[h] + confirmationGrace
            BY <2>1, <3>2 DEF IsRefundable
        <3>. QED  BY <2>2, <2>5, <3>3 DEF RefundConditions
    <2>. QED  BY <2>3, <2>4, <2>5 DEF Live
<1>. QED  BY <1>1, OtherTypesHold, LiveLocksAreCovered, PTL
-----------------------------------------------------------------------------
(* The rolling window.                                                       *)

WindowOf(t) == (t \div rollingWindowDuration) * rollingWindowDuration

\* A lock that was recorded under the present configuration is in the past.
LockTimes ==
    /\ lockedAt \in [Intents -> Nat]
    /\ \A h \in Intents : lockedAt[h] # 0 => Locked(h) /\ lockedAt[h] <= evmNow

\* What was locked was committed: the memoized window is no older than its window.
LocksAreCommitted ==
    \A h \in Intents :
        lockedAt[h] # 0 /\ locks[h].amount > 0 /\ WindowCapActive(SourceAsset[h])
            => WindowOf(lockedAt[h]) <= latestWindowStart[SourceAsset[h]]

\* A breaker that is latched may be reset only when no lock counts any more.
BreakerOutlastsLocks ==
    /\ rollingWindowTriggeredAsset # NoAsset => rollingWindowTriggered
    /\ rollingWindowTriggered =>
          \A h \in Intents :
              lockedAt[h] # 0 =>
                  lockedAt[h] + rollingWindowDuration <= rollingWindowResetEarliestAt

LockedInWindow(asset) == Total(IntentOrder, LockedSince(asset, WindowStart))

UseCoversLocks ==
    \A a \in Assets : WindowCapActive(a) => LockedInWindow(a) <= WindowUse(a)

WindowInv ==
    /\ LockTimes /\ LocksAreCommitted /\ BreakerOutlastsLocks
    /\ UseCoversLocks /\ WindowCapHolds

UseIsNat == \A a \in Assets : WindowCapActive(a) => WindowUse(a) \in Nat

WindowTypes == LockTypes /\ OtherTypes /\ UseIsNat

LEMMA WindowTypesHold == Spec => []WindowTypes
<1>1. OtherTypes => UseIsNat
    <2> SUFFICES ASSUME OtherTypes, NEW a \in Assets, WindowCapActive(a)
                 PROVE  WindowUse(a) \in Nat
        BY DEF UseIsNat
    <2>1. evmNow \in Nat
        BY ClockAssumption DEF OtherTypes, AdminTypeOK, Times
    <2>2. WindowStart \in Nat
        BY <2>1, WindowHasBegun DEF WindowCapActive, OtherTypes, CapsTypeOK
    <2>3. WindowStart <= latestWindowStart[a] => WindowStart \in 0 .. MaxTime
        BY <2>2, ClockAssumption DEF OtherTypes, CapsTypeOK
    <2>4. latestWindowStart[a] \in Nat
        BY DEF OtherTypes, CapsTypeOK
    <2>5. rollingWindowBuckets[a] \in [0 .. MaxTime -> Nat]
        BY DEF OtherTypes, CapsTypeOK
    <2>6. WindowStart <= latestWindowStart[a] => rollingWindowBuckets[a][WindowStart] \in Nat
        BY <2>3, <2>5
    <2>. QED  BY <2>2, <2>4, <2>6 DEF WindowUse
<1>. QED  BY <1>1, LockTypesHold, OtherTypesHold, PTL DEF WindowTypes

KeepsLocks ==
    \A h \in Intents : /\ locks'[h].solver = locks[h].solver
                       /\ locks'[h].amount = locks[h].amount

Quiet ==
    /\ KeepsLocks
    /\ evmNow' \in {evmNow, evmNow + 1}
    /\ UNCHANGED <<windowConfigVars, windowUseVars, breakerVars>>

Reconfigures ==
    /\ KeepsLocks
    /\ evmNow' = evmNow
    /\ UNCHANGED <<windowUseVars, breakerVars>>

ResetsWindow ==
    /\ KeepsLocks
    /\ evmNow' = evmNow
    /\ \E c \in ConfigCallers : ResetRollingWindowCap(c)

(* What a step means to the rolling window.                                  *)
LEMMA StepsOfTheWindow ==
    ASSUME LockTypes, [Next]_vars
    PROVE  \/ Quiet \/ Reconfigures \/ ResetsWindow
           \/ \E h \in Intents, s \in Solvers, v \in CallValues : Lock(h, s, v)
<1>0. ASSUME UNCHANGED locks
      PROVE  KeepsLocks
    BY <1>0 DEF KeepsLocks
<1>1. ASSUME NEW h \in Intents,
             \/ locks' = [locks EXCEPT ![h].released = TRUE]
             \/ locks' = [locks EXCEPT ![h].refunded = TRUE]
      PROVE  KeepsLocks
    <2>1. /\ \A g \in Intents : g # h => locks'[g] = locks[g]
          /\ \/ locks'[h] = [locks[h] EXCEPT !.released = TRUE]
             \/ locks'[h] = [locks[h] EXCEPT !.refunded = TRUE]
        BY <1>1 DEF LockTypes
    <2>2. locks'[h].solver = locks[h].solver /\ locks'[h].amount = locks[h].amount
        BY <2>1 DEF LockTypes, Locks
    <2>. QED  BY <2>1, <2>2 DEF KeepsLocks
<1>2. ASSUME UNCHANGED capVars
      PROVE  UNCHANGED <<windowConfigVars, windowUseVars, breakerVars>>
    BY <1>2 DEF capVars
<1>3. ASSUME NEW p \in Peers, NEW k \in InboundNonces, NEW m \in InboundMessages,
             NEW v \in CallValues, LzReceive(p, k, m, v)
      PROVE  Quiet
    <2>1. m.hash \in Intents
        BY InboundAssumption DEF FillConfirmations, CancelIntents
    <2>2. KeepsLocks
        BY <1>0, <1>1, <1>3, <2>1 DEF LzReceive, Release, ApplyCancel, Refund, lockVars
    <2>. QED  BY <1>2, <1>3, <2>2 DEF LzReceive, escrowConfigVars, Quiet
<1>4. ASSUME NEW h \in Intents, CancelExpired(h)
      PROVE  Quiet
    BY <1>1, <1>2, <1>4 DEF CancelExpired, Refund, escrowConfigVars, Quiet
<1>5. CASE AdminStep /\ UNCHANGED <<capVars, NonEscrowVars>>
    BY <1>0, <1>2, <1>5 DEF NonEscrowVars, lockVars, Quiet
<1>6. CASE CapsStep /\ UNCHANGED <<adminVars, NonEscrowVars>>
    <2>1. KeepsLocks /\ evmNow' = evmNow
        BY <1>0, <1>6 DEF NonEscrowVars, lockVars
    <2>2. \/ UNCHANGED <<windowConfigVars, windowUseVars, breakerVars>>
          \/ UNCHANGED <<windowUseVars, breakerVars>>
          \/ \E c \in ConfigCallers : ResetRollingWindowCap(c)
        BY <1>6 DEF CapsStep, SetAssetAllowed, SetMaxIntentAmountPerAsset,
                    SetMaxIntentAmount, SetRollingWindowCap, SetRollingWindowCapForAsset
    <2>. QED  BY <2>1, <2>2 DEF Quiet, Reconfigures, ResetsWindow
<1>7. CASE OwnerStep
    BY <1>0, <1>2, <1>7 DEF OwnerStep, SetPeer, SetConfirmationGrace, Skim, SkimNative,
                            escrowConfigVars, lockVars, Quiet
<1>8. CASE (\E a \in Assets : Donate(a)) \/ UNCHANGED vars
    BY <1>0, <1>2, <1>8 DEF Donate, vars, escrowVars, escrowConfigVars, lockVars, Quiet
<1>9. CASE Tick
    BY <1>0, <1>2, <1>9 DEF Tick, EvmTick, escrowVars, escrowConfigVars, lockVars, Quiet
<1>. QED  BY <1>3, <1>4, <1>5, <1>6, <1>7, <1>8, <1>9 DEF Next, Receive, GovernanceStep

\* Where nothing counts, the cap has all its room.
LEMMA NothingCounts ==
    \A amounts : (\A h \in Intents : amounts[h] = 0) => Total(IntentOrder, amounts) = 0
<1>1. IntentOrder \in Seq(Intents)
    BY OrderOfIntents DEF Enumerates
<1>2. ASSUME NEW amounts, \A h \in Intents : amounts[h] = 0
      PROVE  Total(IntentOrder, amounts) = 0
    BY <1>1, <1>2, ZeroTotal
<1>. QED  BY <1>2

\* When nothing that was locked counts any more.
LEMMA FreshWindow ==
    ASSUME WindowTypes', LockTimes', LocksAreCommitted', BreakerOutlastsLocks',
           \A a \in Assets, h \in Intents :
               WindowCapActive(a)' => LockedSince(a, WindowStart)'[h] = 0
    PROVE  WindowInv'
<1>1. ASSUME NEW a \in Assets, WindowCapActive(a)'
      PROVE  LockedInWindow(a)' = 0
    <2>1. PICK amounts : amounts = LockedSince(a, WindowStart)'
        OBVIOUS
    <2>2. \A h \in Intents : amounts[h] = 0
        BY <1>1, <2>1
    <2>. QED  BY <2>1, <2>2, NothingCounts DEF LockedInWindow, IntentOrder
<1>2. UseCoversLocks'
    <2>1. \A a \in Assets : WindowCapActive(a)' => WindowUse(a)' \in Nat
        BY DEF WindowTypes, UseIsNat
    <2>2. ASSUME NEW a \in Assets, WindowCapActive(a)'
          PROVE  LockedInWindow(a)' <= WindowUse(a)'
        BY <1>1, <2>1, <2>2
    <2>. QED  BY <2>2 DEF UseCoversLocks
<1>3. WindowCapHolds'
    <2>1. ASSUME NEW a \in Assets, WindowCapActive(a)'
          PROVE  LockedInWindow(a)' <= rollingWindowCapPerAsset'[a]
        <3>1. rollingWindowCapPerAsset'[a] \in Nat
            BY DEF WindowTypes, OtherTypes, CapsTypeOK
        <3>. QED  BY <1>1, <2>1, <3>1
    <2>. QED  BY <2>1 DEF WindowCapHolds, LockedInWindow
<1>. QED  BY <1>2, <1>3 DEF WindowInv

LEMMA QuietKeepsWindow ==
    ASSUME WindowTypes, WindowTypes', WindowInv, Quiet, lockedAt' = lockedAt
    PROVE  WindowInv'
<1>0. evmNow \in Nat /\ evmNow' \in Nat /\ evmNow' >= evmNow
    BY ClockAssumption DEF WindowTypes, OtherTypes, AdminTypeOK, Times, Quiet
<1>1. LockTimes'
    BY <1>0 DEF WindowInv, LockTimes, Quiet, KeepsLocks, Locked
<1>2. LocksAreCommitted'
    BY DEF WindowInv, LocksAreCommitted, Quiet, KeepsLocks, WindowCapActive, WindowOf,
           windowConfigVars, windowUseVars
<1>3. BreakerOutlastsLocks'
    BY DEF WindowInv, BreakerOutlastsLocks, Quiet, windowConfigVars, breakerVars
<1>4. CASE WindowStart' = WindowStart
    <2>1. ASSUME NEW a \in Assets
          PROVE  /\ LockedInWindow(a)' = LockedInWindow(a)
                 /\ WindowUse(a)' = WindowUse(a)
                 /\ WindowCapActive(a)' <=> WindowCapActive(a)
        <3>1. LockedSince(a, WindowStart)' = LockedSince(a, WindowStart)
            BY <1>4 DEF LockedSince, Quiet, KeepsLocks
        <3>2. WindowUse(a)' = WindowUse(a)
            BY <1>4 DEF WindowUse, Quiet, windowUseVars
        <3>. QED  BY <3>1, <3>2 DEF LockedInWindow, IntentOrder, WindowCapActive, Quiet,
                                    windowConfigVars
    <2>. QED  BY <1>1, <1>2, <1>3, <2>1
              DEF WindowInv, UseCoversLocks, WindowCapHolds, LockedInWindow, Quiet,
                  windowConfigVars
<1>5. CASE WindowStart' # WindowStart
    <2>1. ASSUME NEW a \in Assets, NEW h \in Intents, WindowCapActive(a)'
          PROVE  LockedSince(a, WindowStart)'[h] = 0
        <3>1. rollingWindowDuration' = rollingWindowDuration
            BY DEF Quiet, windowConfigVars
        <3>2. PICK d \in Nat \ {0} : d = rollingWindowDuration
            BY <2>1, <3>1 DEF WindowCapActive, WindowTypes, OtherTypes, CapsTypeOK
        <3>3. PICK s \in Nat, t \in Nat : s = evmNow /\ t = evmNow'
            BY <1>0
        <3>4. WindowStart = (s \div d) * d /\ WindowStart' = (t \div d) * d
            BY <3>1, <3>2, <3>3 DEF WindowStart
        <3>5. t = s + 1
            BY <1>5, <3>3, <3>4 DEF Quiet
        <3>6. (t \div d) * d > s
            <4>1. /\ (s \div d) * d \in 0 .. s
                  /\ (t \div d) * d \in 0 .. t
                  /\ t >= (s \div d) * d => (t \div d) * d >= (s \div d) * d
                  /\ s >= (t \div d) * d => (s \div d) * d >= (t \div d) * d
                BY WindowsAreMultiples
            <4>. QED  BY <1>5, <3>4, <3>5, <4>1
        <3>7. lockedAt[h] \in Nat /\ lockedAt[h] <= s
            BY <3>3 DEF WindowInv, LockTimes
        <3>8. ~(lockedAt'[h] >= WindowStart')
            BY <3>4, <3>6, <3>7, WindowsAreMultiples
        <3>. QED  BY <3>8 DEF LockedSince
    <2>. QED  BY <1>1, <1>2, <1>3, <2>1, FreshWindow
<1>. QED  BY <1>4, <1>5

LEMMA ResetKeepsWindow ==
    ASSUME WindowTypes, WindowTypes', WindowInv, ResetsWindow, lockedAt' = lockedAt
    PROVE  WindowInv'
<1>1. PICK c \in ConfigCallers : ResetRollingWindowCap(c)
    BY DEF ResetsWindow
<1>2. LockTimes'
    BY DEF WindowInv, LockTimes, ResetsWindow, KeepsLocks, Locked
<1>3. LocksAreCommitted'
    BY <1>1 DEF WindowInv, LocksAreCommitted, ResetsWindow, KeepsLocks, WindowCapActive,
                WindowOf, ResetRollingWindowCap, windowConfigVars
<1>4. BreakerOutlastsLocks'
    BY <1>1 DEF BreakerOutlastsLocks, ResetRollingWindowCap
<1>5. \A a \in Assets : /\ WindowCapActive(a)' <=> WindowCapActive(a)
                        /\ LockedSince(a, WindowStart)' = LockedSince(a, WindowStart)
    BY <1>1 DEF ResetsWindow, KeepsLocks, WindowCapActive, ResetRollingWindowCap,
                windowConfigVars, LockedSince, WindowStart
<1>6. CASE rollingWindowTriggered
    <2>1. ASSUME NEW a \in Assets, NEW h \in Intents, WindowCapActive(a)'
          PROVE  LockedSince(a, WindowStart)'[h] = 0
        <3>1. PICK d \in Nat \ {0} : d = rollingWindowDuration
            BY <1>5, <2>1 DEF WindowCapActive, WindowTypes, OtherTypes, CapsTypeOK
        <3>2. PICK s \in Nat : s = evmNow
            BY ClockAssumption DEF WindowTypes, OtherTypes, AdminTypeOK, Times
        <3>3. (s \div d) * d \in Nat /\ s < (s \div d) * d + d
            BY WindowsAreMultiples
        <3>4. WindowStart = (s \div d) * d
            BY <3>1, <3>2 DEF WindowStart
        <3>5. lockedAt[h] \in Nat /\ rollingWindowResetEarliestAt \in Nat
            BY DEF WindowInv, LockTimes, WindowTypes, OtherTypes, CapsTypeOK
        <3>6. lockedAt[h] # 0 => lockedAt[h] + d <= s
            BY <1>1, <1>6, <3>1, <3>2, <3>5
               DEF WindowInv, BreakerOutlastsLocks, ResetRollingWindowCap
        <3>7. lockedAt[h] # 0 => ~(lockedAt[h] >= WindowStart)
            BY <3>3, <3>4, <3>5, <3>6
        <3>. QED  BY <1>5, <3>7 DEF LockedSince
    <2>. QED  BY <1>2, <1>3, <1>4, <2>1, FreshWindow
<1>7. CASE ~rollingWindowTriggered
    <2>1. UNCHANGED <<rollingWindowBuckets, latestWindowStart, windowConfigVars>>
        BY <1>1, <1>7 DEF ResetRollingWindowCap, WindowInv, BreakerOutlastsLocks
    <2>2. \A a \in Assets : WindowUse(a)' = WindowUse(a)
        BY <2>1 DEF WindowUse, WindowStart, ResetsWindow, windowConfigVars
    <2>. QED  BY <1>2, <1>3, <1>4, <1>5, <2>1, <2>2
              DEF WindowInv, UseCoversLocks, WindowCapHolds, LockedInWindow, IntentOrder,
                  windowConfigVars
<1>. QED  BY <1>6, <1>7

LEMMA ReconfigurationKeepsWindow ==
    ASSUME WindowTypes', WindowInv, Reconfigures, lockedAt' = [h \in Intents |-> 0]
    PROVE  WindowInv'
<1>1. \A h \in Intents : lockedAt'[h] = 0
    OBVIOUS
<1>2. LockTimes' /\ LocksAreCommitted'
    BY <1>1 DEF LockTimes, LocksAreCommitted
<1>3. BreakerOutlastsLocks'
    BY <1>1 DEF WindowInv, BreakerOutlastsLocks, Reconfigures, breakerVars
<1>4. \A a \in Assets, h \in Intents : LockedSince(a, WindowStart)'[h] = 0
    BY <1>1 DEF LockedSince
<1>. QED  BY <1>2, <1>3, <1>4, FreshWindow

LEMMA TotalOfWindow ==
    ASSUME WindowTypes, NEW a \in Assets
    PROVE  LockedInWindow(a) \in Nat
<1>1. PICK amounts : amounts = LockedSince(a, WindowStart)
    OBVIOUS
<1>2. \A h \in Intents : amounts[h] \in Nat
    BY <1>1 DEF LockedSince, WindowTypes, LockTypes, Locks
<1>3. Total(IntentOrder, amounts) \in Nat
    BY <1>2, OrderOfIntents, TotalIsNat
<1>. QED  BY <1>1, <1>3 DEF LockedInWindow

\* A lock records its amount and its time.
RecordsLock(c, n) ==
    /\ ~Locked(c)
    /\ evmNow' = evmNow
    /\ UNCHANGED windowConfigVars
    /\ Locked(c)' /\ locks'[c].amount = n
    /\ \A h \in Intents \ {c} : locks'[h] = locks[h]
    /\ lockedAt' = [lockedAt EXCEPT ![c] = evmNow]

LEMMA LockAddsToWindow ==
    ASSUME WindowTypes, WindowTypes', LockTimes, NEW c \in Intents, NEW n \in Nat,
           RecordsLock(c, n), NEW a \in Assets, WindowCapActive(a)
    PROVE  LockedInWindow(a)' =
               IF SourceAsset[c] = a THEN LockedInWindow(a) + n ELSE LockedInWindow(a)
<1>1. WindowStart' = WindowStart
    BY DEF RecordsLock, WindowStart, windowConfigVars
<1>2. evmNow \in Nat \ {0} /\ evmNow >= WindowStart
    <2>1. evmNow \in Nat \ {0}
        BY ClockAssumption DEF WindowTypes, OtherTypes, AdminTypeOK, Times
    <2>2. WindowStart \in 0 .. evmNow
        BY <2>1, WindowHasBegun DEF WindowCapActive, WindowTypes, OtherTypes, CapsTypeOK
    <2>. QED  BY <2>1, <2>2
<1>3. PICK old : old = LockedSince(a, WindowStart)
    OBVIOUS
<1>4. PICK new : new = LockedSince(a, WindowStart)'
    OBVIOUS
<1>5. /\ lockedAt \in [Intents -> Nat] /\ lockedAt[c] = 0
      /\ lockedAt'[c] = evmNow /\ \A h \in Intents : h # c => lockedAt'[h] = lockedAt[h]
    BY DEF LockTimes, RecordsLock
<1>6. \A h \in Intents : old[h] \in Int /\ new[h] \in Int
    BY <1>3, <1>4 DEF LockedSince, WindowTypes, LockTypes, Locks
<1>7. \A h \in Intents : h # c => new[h] = old[h]
    BY <1>1, <1>3, <1>4, <1>5 DEF LockedSince, RecordsLock
<1>8. old[c] = 0 /\ new[c] = IF SourceAsset[c] = a THEN n ELSE 0
    BY <1>1, <1>2, <1>3, <1>4, <1>5 DEF LockedSince, RecordsLock
<1>9. Total(IntentOrder, new) = Total(IntentOrder, old) + (new[c] - old[c])
    BY <1>6, <1>7, OrderOfIntents, TotalOfChange
<1>10. Total(IntentOrder, old) \in Int
    <2>1. \A h \in Intents : old[h] \in Nat
        BY <1>3 DEF LockedSince, WindowTypes, LockTypes, Locks
    <2>2. Total(IntentOrder, old) \in Nat
        BY <2>1, OrderOfIntents, TotalIsNat
    <2>. QED  BY <2>2
<1>. QED  BY <1>3, <1>4, <1>8, <1>9, <1>10 DEF LockedInWindow, IntentOrder

LEMMA RecordingKeepsTimes ==
    ASSUME WindowTypes, LockTimes, NEW c \in Intents, NEW n \in Nat, RecordsLock(c, n)
    PROVE  /\ LockTimes'
           /\ lockedAt'[c] = evmNow
           /\ \A h \in Intents : h # c => lockedAt'[h] = lockedAt[h] /\ locks'[h] = locks[h]
<1>1. evmNow \in Nat
    BY ClockAssumption DEF WindowTypes, OtherTypes, AdminTypeOK, Times
<1>. QED  BY <1>1 DEF LockTimes, RecordsLock, Locked

LEMMA FundedLockKeepsWindow ==
    ASSUME WindowTypes, WindowTypes', WindowInv, NEW c \in Intents, NEW s \in Solvers,
           NEW v \in CallValues, LockFunded(c, s, v), RecordsLock(c, Received(c))
    PROVE  WindowInv'
<1>1. PICK b \in Assets : b = SourceAsset[c]
    BY EscrowAssumption
<1>2. PICK n \in Nat : n = Received(c) /\ n <= SourceAmount[c]
    <2>1. SourceAmount[c] \in Nat /\ TransferFee[SourceAsset[c]] \in Nat
        BY EscrowAssumption
    <2>2. Received(c) \in Nat /\ Received(c) <= SourceAmount[c]
        BY <2>1 DEF LockFunded, Received
    <2>. QED  BY <2>2
<1>3. RecordsLock(c, n) /\ CommitToWindow(b, n)
    BY <1>1, <1>2 DEF LockFunded
<1>4. /\ LockTimes'
      /\ lockedAt'[c] = evmNow
      /\ \A h \in Intents : h # c => lockedAt'[h] = lockedAt[h] /\ locks'[h] = locks[h]
    BY <1>2, <1>3, RecordingKeepsTimes DEF WindowInv
<1>5. evmNow \in Nat /\ evmNow <= MaxTime
    BY ClockAssumption DEF WindowTypes, OtherTypes, AdminTypeOK, Times
<1>6. \A a \in Assets : WindowCapActive(a) => WindowStart \in 0 .. evmNow
    BY <1>5, WindowHasBegun DEF WindowCapActive, WindowTypes, OtherTypes, CapsTypeOK
<1>7. /\ \A a \in Assets : WindowCapActive(a)' <=> WindowCapActive(a)
      /\ WindowStart' = WindowStart
      /\ UNCHANGED <<rollingWindowDuration, rollingWindowCapPerAsset>>
    BY <1>3 DEF RecordsLock, WindowCapActive, WindowStart, windowConfigVars
<1>8. /\ \A a \in Assets : a # b => /\ rollingWindowBuckets'[a] = rollingWindowBuckets[a]
                                    /\ latestWindowStart'[a] = latestWindowStart[a]
      /\ \A a \in Assets : latestWindowStart[a] \in Nat /\ latestWindowStart'[a] \in Nat
    <2>1. DOMAIN rollingWindowBuckets = Assets /\ DOMAIN latestWindowStart = Assets
        BY DEF WindowTypes, OtherTypes, CapsTypeOK
    <2>2. \A a \in Assets : a # b => /\ rollingWindowBuckets'[a] = rollingWindowBuckets[a]
                                     /\ latestWindowStart'[a] = latestWindowStart[a]
        <3>1. CASE UNCHANGED windowUseVars
            BY <3>1 DEF windowUseVars
        <3>2. CASE WindowCapActive(b)
            BY <1>3, <2>1, <3>2 DEF CommitToWindow
        <3>. QED  BY <1>3, <3>1, <3>2 DEF CommitToWindow
    <2>3. \A a \in Assets : latestWindowStart[a] \in Nat /\ latestWindowStart'[a] \in Nat
        BY DEF WindowTypes, OtherTypes, CapsTypeOK
    <2>. QED  BY <2>2, <2>3
<1>9. WindowCapActive(b) =>
          /\ latestWindowStart'[b] >= WindowStart
          /\ latestWindowStart'[b] >= latestWindowStart[b]
    <2> SUFFICES ASSUME WindowCapActive(b)
                 PROVE  /\ latestWindowStart'[b] >= WindowStart
                        /\ latestWindowStart'[b] >= latestWindowStart[b]
        OBVIOUS
    <2>1. WindowStart \in Int
        BY <1>6
    <2>2. latestWindowStart'[b] = IF WindowStart > latestWindowStart[b] THEN WindowStart
                                                                   ELSE latestWindowStart[b]
        BY <1>3 DEF CommitToWindow, WindowTypes, OtherTypes, CapsTypeOK
    <2>. QED  BY <1>8, <2>1, <2>2
<1>10. LocksAreCommitted'
    <2> SUFFICES ASSUME NEW h \in Intents, lockedAt'[h] # 0, locks'[h].amount > 0,
                        WindowCapActive(SourceAsset[h])'
                 PROVE  WindowOf(lockedAt[h])' <= latestWindowStart'[SourceAsset[h]]
        BY DEF LocksAreCommitted
    <2>1. PICK a \in Assets : a = SourceAsset[h]
        BY EscrowAssumption
    <2>2. CASE h = c
        BY <1>1, <1>4, <1>7, <1>9, <2>1, <2>2 DEF WindowOf, WindowStart
    <2>3. CASE h # c
        <3>1. WindowOf(lockedAt[h])' = WindowOf(lockedAt[h])
            BY <1>4, <1>7, <2>3 DEF WindowOf
        <3>2. WindowOf(lockedAt[h]) <= latestWindowStart[a]
            BY <1>4, <1>7, <2>1, <2>3 DEF WindowInv, LocksAreCommitted
        <3>3. WindowOf(lockedAt[h]) \in Int
            <4>1. rollingWindowDuration \in Nat \ {0} /\ lockedAt[h] \in Nat
                BY <1>7 DEF WindowCapActive, WindowTypes, OtherTypes, CapsTypeOK,
                            WindowInv, LockTimes
            <4>. QED  BY <4>1, WindowsAreMultiples DEF WindowOf
        <3>4. latestWindowStart'[a] >= latestWindowStart[a]
            BY <1>7, <1>8, <1>9, <2>1
        <3>. QED  BY <1>8, <2>1, <3>1, <3>2, <3>3, <3>4
    <2>. QED  BY <2>2, <2>3
<1>11. BreakerOutlastsLocks'
    BY <1>3 DEF WindowInv, BreakerOutlastsLocks, LockFunded, CapsAllow, CommitToWindow,
                breakerVars
<1>12. ASSUME NEW a \in Assets, WindowCapActive(a)
       PROVE  /\ LockedInWindow(a)' <= WindowUse(a)'
              /\ LockedInWindow(a)' <= rollingWindowCapPerAsset[a]
    <2>1. /\ LockedInWindow(a) <= WindowUse(a) /\ WindowUse(a) \in Nat
          /\ LockedInWindow(a) <= rollingWindowCapPerAsset[a]
          /\ rollingWindowCapPerAsset[a] \in Nat
        BY <1>12 DEF WindowInv, UseCoversLocks, WindowCapHolds, LockedInWindow, WindowTypes,
                     UseIsNat, OtherTypes, CapsTypeOK
    <2>2. LockedInWindow(a)' = IF b = a THEN LockedInWindow(a) + n ELSE LockedInWindow(a)
        BY <1>1, <1>2, <1>3, <1>12, LockAddsToWindow DEF WindowInv
    <2>3. CASE a # b
        <3>1. WindowUse(a)' = WindowUse(a)
            BY <1>7, <1>8, <2>3 DEF WindowUse
        <3>. QED  BY <2>1, <2>2, <2>3, <3>1
    <2>4. CASE a = b
        <3>1. PICK t \in 0 .. MaxTime : t = WindowStart
            BY <1>5, <1>6, <1>12, ClockAssumption
        <3>2. /\ rollingWindowBuckets \in [Assets -> [0 .. MaxTime -> Nat]]
              /\ rollingWindowBuckets[b] \in [0 .. MaxTime -> Nat]
              /\ rollingWindowBuckets[b][t] \in Nat
            BY DEF WindowTypes, OtherTypes, CapsTypeOK
        <3>3. rollingWindowBuckets'[b][t] = rollingWindowBuckets[b][t] + n
            BY <1>3, <1>12, <2>4, <3>1, <3>2 DEF CommitToWindow
        <3>4. WindowUse(b)' = rollingWindowBuckets'[b][t]
            BY <1>7, <1>8, <1>9, <1>12, <2>4, <3>1 DEF WindowUse
        <3>5. WindowUse(b) <= rollingWindowBuckets[b][t]
            BY <3>1, <3>2 DEF WindowUse
        <3>6. WindowUse(b) + SourceAmount[c] <= rollingWindowCapPerAsset[b]
            BY <1>1, <1>12, <2>1, <2>4, EscrowAssumption DEF LockFunded, BreachesWindow
        <3>7. LockedInWindow(b) \in Int /\ SourceAmount[c] \in Nat
            BY <2>4, EscrowAssumption, TotalOfWindow
        <3>. QED  BY <1>2, <2>1, <2>2, <2>4, <3>2, <3>3, <3>4, <3>5, <3>6, <3>7
    <2>. QED  BY <2>3, <2>4
<1>. QED  BY <1>4, <1>7, <1>10, <1>11, <1>12
          DEF WindowInv, UseCoversLocks, WindowCapHolds, LockedInWindow

LEMMA BreachingLockKeepsWindow ==
    ASSUME WindowTypes, WindowTypes', WindowInv, NEW c \in Intents, NEW s \in Solvers,
           NEW v \in CallValues, LockBreaching(c, s, v), RecordsLock(c, 0)
    PROVE  WindowInv'
<1>1. LatchBreaker(SourceAsset[c]) /\ SourceAsset[c] \in Assets
    BY EscrowAssumption DEF LockBreaching
<1>2. /\ LockTimes'
      /\ lockedAt'[c] = evmNow
      /\ \A h \in Intents : h # c => lockedAt'[h] = lockedAt[h] /\ locks'[h] = locks[h]
      /\ locks'[c].amount = 0
    <2>1. 0 \in Nat
        OBVIOUS
    <2>. QED  BY <2>1, RecordingKeepsTimes DEF WindowInv, RecordsLock
<1>3. LocksAreCommitted'
    BY <1>1, <1>2 DEF WindowInv, LocksAreCommitted, LatchBreaker, WindowCapActive, WindowOf,
                      windowConfigVars, windowUseVars
<1>4. BreakerOutlastsLocks'
    <2>1. /\ evmNow \in Nat /\ rollingWindowDuration \in Nat /\ evmNow' = evmNow
          /\ \A h \in Intents : lockedAt'[h] \in Nat
          /\ \A h \in Intents : lockedAt'[h] # 0 => lockedAt'[h] <= evmNow
        BY <1>2, ClockAssumption DEF WindowTypes, OtherTypes, AdminTypeOK, Times, CapsTypeOK,
                                     RecordsLock, LockTimes
    <2>2. /\ rollingWindowTriggered'
          /\ rollingWindowResetEarliestAt' = evmNow + rollingWindowDuration
          /\ rollingWindowDuration' = rollingWindowDuration
        BY <1>1 DEF LatchBreaker, windowConfigVars
    <2>. QED  BY <2>1, <2>2 DEF BreakerOutlastsLocks
<1>5. ASSUME NEW a \in Assets, WindowCapActive(a)
      PROVE  LockedInWindow(a)' = LockedInWindow(a) /\ WindowUse(a)' = WindowUse(a)
    <2>1. LockedInWindow(a)' = IF SourceAsset[c] = a THEN LockedInWindow(a) + 0
                                                     ELSE LockedInWindow(a)
        <3>1. 0 \in Nat /\ LockTimes
            BY DEF WindowInv
        <3>. QED  BY <1>5, <3>1, LockAddsToWindow
    <2>2. LockedInWindow(a) \in Int
        BY TotalOfWindow
    <2>3. WindowUse(a)' = WindowUse(a)
        BY <1>1 DEF LatchBreaker, RecordsLock, WindowUse, WindowStart, windowConfigVars,
                    windowUseVars
    <2>. QED  BY <2>1, <2>2, <2>3
<1>6. \A a \in Assets : WindowCapActive(a)' <=> WindowCapActive(a)
    BY <1>1 DEF LatchBreaker, WindowCapActive, windowConfigVars
<1>7. UNCHANGED rollingWindowCapPerAsset
    BY <1>1 DEF LatchBreaker, windowConfigVars
<1>. QED  BY <1>2, <1>3, <1>4, <1>5, <1>6, <1>7
          DEF WindowInv, UseCoversLocks, WindowCapHolds, LockedInWindow

LEMMA StepsKeepWindowInv ==
    ASSUME WindowTypes, WindowTypes', WindowInv, [WindowNext]_<<vars, lockedAt>>
    PROVE  WindowInv'
<1>1. CASE UNCHANGED <<vars, lockedAt>>
    <2>1. Quiet
        BY <1>1 DEF vars, escrowVars, escrowConfigVars, capVars, lockVars, Quiet, KeepsLocks
    <2>. QED  BY <1>1, <2>1, QuietKeepsWindow
<1>2. CASE WindowNext
    <2>1. lockedAt \in [Intents -> Nat]
        BY DEF WindowInv, LockTimes
    <2>2. ASSUME KeepsLocks, UNCHANGED windowConfigVars
          PROVE  lockedAt' = lockedAt
        BY <1>2, <2>1, <2>2 DEF WindowNext, KeepsLocks, Locked
    <2>3. CASE Quiet
        BY <2>2, <2>3, QuietKeepsWindow DEF Quiet
    <2>4. CASE ResetsWindow
        <3>1. UNCHANGED windowConfigVars
            BY <2>4 DEF ResetsWindow, ResetRollingWindowCap
        <3>. QED  BY <2>2, <2>4, <3>1, ResetKeepsWindow DEF ResetsWindow
    <2>5. CASE Reconfigures
        <3>1. CASE UNCHANGED windowConfigVars
            BY <2>3, <2>5, <3>1 DEF Quiet, Reconfigures
        <3>2. CASE windowConfigVars' # windowConfigVars
            <4>1. lockedAt' = [h \in Intents |-> 0]
                BY <1>2, <3>2 DEF WindowNext
            <4>. QED  BY <2>5, <4>1, ReconfigurationKeepsWindow
        <3>. QED  BY <3>1, <3>2
    <2>6. ASSUME NEW h \in Intents, NEW s \in Solvers, NEW v \in CallValues, Lock(h, s, v)
          PROVE  WindowInv'
        <3>1. ASSUME NEW n \in Nat, RecordAndDispatch(h, s, n), ~Locked(h),
                     evmNow' = evmNow, UNCHANGED windowConfigVars
              PROVE  RecordsLock(h, n)
            <4>1. locks'[h] = [NoLock EXCEPT !.solver = s, !.amount = n]
                BY <3>1 DEF RecordAndDispatch, WindowTypes, LockTypes
            <4>2. locks'[h].solver = s /\ locks'[h].amount = n
                BY <4>1 DEF NoLock
            <4>3. \A g \in Intents \ {h} : locks'[g] = locks[g]
                BY <3>1 DEF RecordAndDispatch, WindowTypes, LockTypes
            <4>4. s # NoSolver
                BY EscrowAssumption
            <4>5. \A g \in Intents : lockedAt'[g] = IF g = h THEN evmNow ELSE lockedAt[g]
                BY <1>2, <3>1, <4>2, <4>3, <4>4 DEF WindowNext, Locked
            <4>6. lockedAt' = [lockedAt EXCEPT ![h] = evmNow]
                BY <1>2, <2>1, <4>5 DEF WindowNext
            <4>. QED  BY <3>1, <4>2, <4>3, <4>4, <4>6 DEF RecordsLock, Locked
        <3>2. CASE LockFunded(h, s, v)
            <4>1. Received(h) \in Nat
                BY <3>2, EscrowAssumption DEF LockFunded, Received
            <4>2. RecordsLock(h, Received(h))
                BY <3>1, <3>2, <4>1 DEF LockFunded, AcceptsLock, CommitToWindow
            <4>. QED  BY <3>2, <4>2, FundedLockKeepsWindow
        <3>3. CASE LockBreaching(h, s, v)
            <4>1. 0 \in Nat
                OBVIOUS
            <4>2. RecordsLock(h, 0)
                BY <3>1, <3>3, <4>1 DEF LockBreaching, AcceptsLock, LatchBreaker
            <4>. QED  BY <3>3, <4>2, BreachingLockKeepsWindow
        <3>. QED  BY <2>6, <3>2, <3>3 DEF Lock
    <2>7. LockTypes /\ [Next]_vars
        BY <1>2 DEF WindowNext, WindowTypes
    <2>. QED  BY <2>3, <2>4, <2>5, <2>6, <2>7, StepsOfTheWindow
<1>. QED  BY <1>1, <1>2

(* Under one configuration no window admits more of an asset than its cap,   *)
(* for any intents, caps, durations and fees: the memoized start, the bucket *)
(* of a window that a reset deletes and the locks of other assets never make *)
(* the contract forget what it admitted.                                     *)
THEOREM WindowCapIsKept == WindowSpec => []WindowCapHolds
<1>1. WindowInit /\ WindowTypes => WindowInv
    <2> SUFFICES ASSUME WindowInit, WindowTypes
                 PROVE  WindowInv
        OBVIOUS
    <2>1. \A h \in Intents : lockedAt[h] = 0
        BY DEF WindowInit
    <2>2. LockTimes /\ LocksAreCommitted
        BY <2>1 DEF WindowInit, LockTimes, LocksAreCommitted
    <2>3. BreakerOutlastsLocks
        BY <2>1 DEF WindowInit, Init, CapsInit, BreakerOutlastsLocks
    <2>4. ASSUME NEW a \in Assets
          PROVE  LockedInWindow(a) = 0
        <3>1. \A h \in Intents : LockedSince(a, WindowStart)[h] = 0
            BY <2>1 DEF LockedSince
        <3>. QED  BY <3>1, NothingCounts DEF LockedInWindow
    <2>5. UseCoversLocks
        BY <2>4 DEF UseCoversLocks, WindowTypes, UseIsNat
    <2>6. WindowCapHolds
        BY <2>4 DEF WindowCapHolds, LockedInWindow, WindowTypes, OtherTypes, CapsTypeOK
    <2>. QED  BY <2>2, <2>3, <2>5, <2>6 DEF WindowInv
<1>2. WindowTypes /\ WindowTypes' /\ WindowInv /\ [WindowNext]_<<vars, lockedAt>>
          => WindowInv'
    BY StepsKeepWindowInv
<1>3. WindowSpec => Spec
    <2>1. WindowInit => Init
        BY DEF WindowInit
    <2>2. [WindowNext]_<<vars, lockedAt>> => [Next]_vars
        BY DEF WindowNext
    <2>. QED  BY <2>1, <2>2, PTL DEF WindowSpec, Spec
<1>4. WindowInv => WindowCapHolds
    BY DEF WindowInv
<1>. QED  BY <1>1, <1>2, <1>3, <1>4, WindowTypesHold, PTL DEF WindowSpec
=============================================================================
