---------------------------- MODULE EscrowAdmin -----------------------------
(* Ownership and the emergency pause of PerihelionEscrow.sol: a two-step     *)
(* ownership handover, and a pause that the owner sets without limit or the  *)
(* guardian sets for GuardianPauseTtl, after which anyone may dismiss it.    *)
(* What the pause blocks is the business of module Escrow.                   *)
EXTENDS EvmClock

CONSTANTS
    Accounts,         \* the addresses that can hold a role
    NoAccount,        \* address(0)
    RoleCallers,      \* the accounts that change roles and pause in the instance
    Deployer,         \* msg.sender of the constructor
    GuardianPauseTtl  \* GUARDIAN_PAUSE_TTL

ASSUME AdminAssumption ==
    /\ NoAccount \notin Accounts
    /\ RoleCallers \subseteq Accounts
    /\ Deployer \in Accounts
    /\ GuardianPauseTtl \in Nat \ {0}

VARIABLES
    owner,
    pendingOwner,
    guardian,
    paused,
    guardianPauseExpiry,         \* 0 when no guardian pause is running
    guardianPauseCooldownUntil   \* 0 when the guardian is not cooling down

pauseVars == <<paused, guardianPauseExpiry, guardianPauseCooldownUntil>>
roleVars == <<owner, pendingOwner, guardian>>
adminVars == <<roleVars, pauseVars>>

AdminInit ==
    /\ ClockInit
    /\ owner = Deployer
    /\ pendingOwner = NoAccount
    /\ guardian = NoAccount
    /\ paused = FALSE
    /\ guardianPauseExpiry = 0
    /\ guardianPauseCooldownUntil = 0
-----------------------------------------------------------------------------
TransferOwnership(caller, newOwner) ==
    /\ caller = owner
    /\ pendingOwner' = newOwner
    /\ UNCHANGED <<owner, guardian, pauseVars>>

CancelOwnershipTransfer(caller) ==
    /\ caller = owner
    /\ pendingOwner # NoAccount
    /\ pendingOwner' = NoAccount
    /\ UNCHANGED <<owner, guardian, pauseVars>>

AcceptOwnership(caller) ==
    /\ caller = pendingOwner
    /\ owner' = pendingOwner
    /\ pendingOwner' = NoAccount
    /\ UNCHANGED <<guardian, pauseVars>>

SetGuardian(caller, newGuardian) ==
    /\ caller = owner
    /\ guardian' = newGuardian
    /\ UNCHANGED <<owner, pendingOwner, pauseVars>>

(* setPaused: the owner takes full control, so any guardian expiry is        *)
(* dropped.                                                                  *)
SetPaused(caller, flag) ==
    /\ caller = owner
    /\ paused' = flag
    /\ guardianPauseExpiry' = 0
    /\ guardianPauseCooldownUntil' = IF flag THEN guardianPauseCooldownUntil ELSE 0
    /\ UNCHANGED roleVars

\* pause(), the guardian's branch without the cooldown check (a mutant).
PauseIgnoringCooldown(caller) ==
    /\ caller \in {owner, guardian}
    /\ guardianPauseExpiry' = IF caller = guardian THEN evmNow + GuardianPauseTtl ELSE 0
    /\ paused' = TRUE
    /\ UNCHANGED <<guardianPauseCooldownUntil, roleVars>>

(* pause(): the guardian's branch is taken first, also when the owner holds  *)
(* both roles.                                                               *)
Pause(caller) ==
    /\ caller \in {owner, guardian}
    /\ caller = guardian => evmNow >= guardianPauseCooldownUntil
    /\ guardianPauseExpiry' = IF caller = guardian THEN evmNow + GuardianPauseTtl ELSE 0
    /\ paused' = TRUE
    /\ UNCHANGED <<guardianPauseCooldownUntil, roleVars>>

DecayGuardianPause ==
    /\ guardianPauseExpiry # 0
    /\ evmNow >= guardianPauseExpiry
    /\ guardianPauseCooldownUntil' = evmNow + GuardianPauseTtl
    /\ guardianPauseExpiry' = 0
    /\ paused' = FALSE
    /\ UNCHANGED roleVars
-----------------------------------------------------------------------------
AdminStep ==
    \/ \E c \in RoleCallers :
        \/ \E a \in Accounts \cup {NoAccount} : TransferOwnership(c, a)
        \/ CancelOwnershipTransfer(c)
        \/ AcceptOwnership(c)
        \/ \E a \in Accounts \cup {NoAccount} : SetGuardian(c, a)
        \/ \E flag \in BOOLEAN : SetPaused(c, flag)
        \/ Pause(c)
    \/ DecayGuardianPause

AdminNext ==
    \/ AdminStep /\ UNCHANGED evmNow
    \/ EvmTick /\ UNCHANGED adminVars

AdminSpec == AdminInit /\ [][AdminNext]_<<evmNow, adminVars>>

(* Anyone may dismiss an expired guardian pause, and the clock runs.         *)
FairAdminSpec ==
    /\ AdminSpec
    /\ WF_<<evmNow, adminVars>>(EvmTick /\ UNCHANGED adminVars)
    /\ WF_<<evmNow, adminVars>>(DecayGuardianPause /\ UNCHANGED evmNow)
-----------------------------------------------------------------------------
AdminTypeOK ==
    /\ evmNow \in Times
    /\ owner \in Accounts
    /\ pendingOwner \in Accounts \cup {NoAccount}
    /\ guardian \in Accounts \cup {NoAccount}
    /\ paused \in BOOLEAN
    /\ guardianPauseExpiry \in Nat
    /\ guardianPauseCooldownUntil \in Nat

(* A running guardian pause is in force, began no earlier than the end of    *)
(* the cooldown left by the previous one, and can be dismissed at the latest *)
(* GuardianPauseTtl from now.                                                *)
GuardianPauseWithinBounds ==
    guardianPauseExpiry # 0 =>
        /\ paused
        /\ guardianPauseCooldownUntil + GuardianPauseTtl <= guardianPauseExpiry
        /\ guardianPauseExpiry <= evmNow + GuardianPauseTtl

(* Once no account holds the guardian role, a pause the guardian left behind *)
(* is dismissed: the "auto-expires" of pause()'s comment, which needs a      *)
(* caller of decayGuardianPause.  A pause that outlives the horizon of the   *)
(* model is left out: the clock stops before it expires.                     *)
LeftoverPauseEnds ==
    <>[](guardian = NoAccount)
        => []<>(guardianPauseExpiry = 0 \/ guardianPauseExpiry > MaxTime)

(* The comment of pause(): a guardian pause auto-expires after the TTL       *)
(* unless the owner ratifies it.  Nothing but an owner's step may then move  *)
(* its expiry; the code lets the guardian push it back.                      *)
GuardianPauseIsNotExtended ==
    [][guardianPauseExpiry # 0 /\ guardianPauseExpiry' # 0
        => guardianPauseExpiry' = guardianPauseExpiry]_<<evmNow, adminVars>>

(* The comment of pause(): an owner-initiated pause has no expiry.           *)
OwnerPauseHasNoExpiry ==
    [][owner # guardian /\ paused /\ guardianPauseExpiry = 0 /\ paused'
        => guardianPauseExpiry' = 0]_<<evmNow, adminVars>>
=============================================================================
