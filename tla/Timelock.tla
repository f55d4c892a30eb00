------------------------------ MODULE Timelock ------------------------------
(***************************************************************************)
(* PerihelionTimelock (src/contracts/evm/src/PerihelionTimelock.sol): the  *)
(* M-of-N multisig with a delay that owns the escrow.  An operation is the *)
(* hash of a call and a salt, so it is the same operation when it is       *)
(* proposed again.  A call that reverts changes nothing and is no step.    *)
(***************************************************************************)
EXTENDS Integers, FiniteSets

CONSTANTS
    Accounts, InitialOwners, InitialThreshold, InitialDelay,
    Operations,        \* operation ids
    Call,              \* the call that an id commits to
    GracePeriod, MinDelay, MaxDelay,
    LastTimelockTime   \* bound: the clock

Calls ==
    [fn : {"addOwner", "removeOwner"}, owner : Accounts]
        \cup [fn : {"setThreshold", "setDelay"}, value : Nat]
        \cup [fn : {"escrow"}]

ASSUME TimelockAssumption ==
    /\ InitialOwners \subseteq Accounts /\ IsFiniteSet(Accounts)
    /\ InitialThreshold \in 1 .. Cardinality(InitialOwners)
    /\ {GracePeriod, MinDelay, MaxDelay, LastTimelockTime} \subseteq Nat
    /\ InitialDelay \in MinDelay .. MaxDelay /\ MinDelay >= 1
    /\ \A id \in Operations : Call[id] \in Calls

VARIABLES
    timelockTime,
    owners, threshold, delay,
    operations,              \* the Operation records
    confirmedBy,             \* flags per operation and owner
    cancelConfirmations, cancelConfirmedBy,
    backing, opposing,       \* history: the votes on the proposal that stands
    proposedAt,              \* history: when it was proposed
    dismissed, returned      \* history: owners who were removed, and who came back

config == <<owners, threshold, delay>>
votes  == <<confirmedBy, cancelConfirmations, cancelConfirmedBy>>
tenure == <<dismissed, returned>>
told   == <<backing, opposing, proposedAt, tenure>>
timelockVars == <<timelockTime, config, operations, votes, told>>

Unknown == [confirmations |-> 0, readyAt |-> 0, executed |-> FALSE, exists |-> FALSE]
Pending(id) == operations[id].exists /\ ~operations[id].executed

-----------------------------------------------------------------------------
(* Operations *)

\* readyAt is set when the threshold is first reached.
ClockStarts(id) ==
    operations[id].readyAt = 0 /\ operations[id].confirmations + 1 >= threshold

\* _confirm
AddConfirmation(id, o) ==
    /\ o \notin confirmedBy[id]
    /\ confirmedBy' = [confirmedBy EXCEPT ![id] = @ \cup {o}]
    /\ operations' = [operations EXCEPT
           ![id].exists = TRUE,
           ![id].confirmations = @ + 1,
           ![id].readyAt = IF ClockStarts(id) THEN timelockTime + delay ELSE @]

Propose(id, o) ==
    /\ o \in owners
    /\ ~operations[id].exists
    /\ AddConfirmation(id, o)
    /\ backing' = [backing EXCEPT ![id] = {o}]
    /\ opposing' = [opposing EXCEPT ![id] = {}]
    /\ proposedAt' = [proposedAt EXCEPT ![id] = timelockTime]
    /\ UNCHANGED <<timelockTime, config, cancelConfirmations, cancelConfirmedBy, tenure>>

Confirm(id, o) ==
    /\ o \in owners
    /\ Pending(id)
    /\ AddConfirmation(id, o)
    /\ backing' = [backing EXCEPT ![id] = @ \cup {o}]
    /\ UNCHANGED <<timelockTime, config, cancelConfirmations, cancelConfirmedBy,
                   opposing, proposedAt, tenure>>

\* The checked subtraction reverts at zero, which the flag of an account that came back
\* can lead to.
RevokeConfirmation(id, o) ==
    /\ o \in owners
    /\ Pending(id)
    /\ o \in confirmedBy[id]
    /\ operations[id].confirmations > 0
    /\ confirmedBy' = [confirmedBy EXCEPT ![id] = @ \ {o}]
    /\ operations' = [operations EXCEPT ![id].confirmations = @ - 1]
    /\ backing' = [backing EXCEPT ![id] = @ \ {o}]
    /\ UNCHANGED <<timelockTime, config, cancelConfirmations, cancelConfirmedBy,
                   opposing, proposedAt, tenure>>

\* The operation stays when it is cancelled, but for its flags (a mutant).
OperationKept(id) == [operations EXCEPT ![id].exists = FALSE, ![id].confirmations = 0]

\* delete operations[id]
OperationDeleted(id) == [operations EXCEPT ![id] = Unknown]

\* With the threshold reached the operation and the flags of the owners of the day go;
\* those of former owners stay.
Cancel(id, o) ==
    /\ o \in owners
    /\ Pending(id)
    /\ o \notin cancelConfirmedBy[id]
    /\ LET against == cancelConfirmedBy[id] \cup {o}
           count == cancelConfirmations[id] + 1
       IN \/ /\ count < threshold
             /\ cancelConfirmedBy' = [cancelConfirmedBy EXCEPT ![id] = against]
             /\ cancelConfirmations' = [cancelConfirmations EXCEPT ![id] = count]
             /\ opposing' = [opposing EXCEPT ![id] = @ \cup {o}]
             /\ UNCHANGED <<operations, confirmedBy, backing>>
          \/ /\ count >= threshold
             /\ cancelConfirmedBy' = [cancelConfirmedBy EXCEPT ![id] = against \ owners]
             /\ cancelConfirmations' = [cancelConfirmations EXCEPT ![id] = 0]
             /\ confirmedBy' = [confirmedBy EXCEPT ![id] = @ \ owners]
             /\ operations' = OperationDeleted(id)
             /\ backing' = [backing EXCEPT ![id] = {}]
             /\ opposing' = [opposing EXCEPT ![id] = {}]
    /\ UNCHANGED <<timelockTime, config, proposedAt, tenure>>

-----------------------------------------------------------------------------
(* The calls of an operation.  The escrow's setters change nothing here.      *)

AddOwner(o) ==
    /\ o \notin owners
    /\ owners' = owners \cup {o}
    /\ returned' = returned \cup ({o} \cap dismissed)
    /\ UNCHANGED <<threshold, delay, dismissed>>

\* The owner who leaves is counted among those who stay (a mutant).
RemoveOwnerLate(o) ==
    /\ o \in owners
    /\ Cardinality(owners) >= threshold
    /\ owners' = owners \ {o}
    /\ dismissed' = dismissed \cup {o}
    /\ UNCHANGED <<threshold, delay, returned>>

RemoveOwner(o) ==
    /\ o \in owners
    /\ Cardinality(owners) - 1 >= threshold
    /\ owners' = owners \ {o}
    /\ dismissed' = dismissed \cup {o}
    /\ UNCHANGED <<threshold, delay, returned>>

SetThreshold(n) ==
    /\ n \in 1 .. Cardinality(owners)
    /\ threshold' = n
    /\ UNCHANGED <<owners, delay, tenure>>

SetDelay(d) ==
    /\ d \in MinDelay .. MaxDelay
    /\ delay' = d
    /\ UNCHANGED <<owners, threshold, tenure>>

Perform(call) ==
    \/ call.fn = "addOwner" /\ AddOwner(call.owner)
    \/ call.fn = "removeOwner" /\ RemoveOwner(call.owner)
    \/ call.fn = "setThreshold" /\ SetThreshold(call.value)
    \/ call.fn = "setDelay" /\ SetDelay(call.value)
    \/ call.fn = "escrow" /\ UNCHANGED <<config, tenure>>

\* Only the flags of present owners count.
ValidConfirmations(id) == Cardinality(owners \cap confirmedBy[id])

Execute(id, o) ==
    LET op == operations[id]
    IN /\ o \in owners
       /\ Pending(id)
       /\ ValidConfirmations(id) >= threshold
       /\ op.readyAt # 0
       /\ timelockTime \in op.readyAt .. op.readyAt + GracePeriod
       /\ operations' = [operations EXCEPT ![id].executed = TRUE]
       /\ Perform(Call[id])
       /\ UNCHANGED <<timelockTime, votes, backing, opposing, proposedAt>>

TimelockTick ==
    /\ timelockTime < LastTimelockTime
    /\ timelockTime' = timelockTime + 1
    /\ UNCHANGED <<config, operations, votes, told>>

-----------------------------------------------------------------------------
TimelockInit ==
    /\ timelockTime = 1
    /\ owners = InitialOwners /\ threshold = InitialThreshold /\ delay = InitialDelay
    /\ operations = [id \in Operations |-> Unknown]
    /\ confirmedBy = [id \in Operations |-> {}]
    /\ cancelConfirmations = [id \in Operations |-> 0]
    /\ cancelConfirmedBy = [id \in Operations |-> {}]
    /\ backing = [id \in Operations |-> {}] /\ opposing = [id \in Operations |-> {}]
    /\ proposedAt = [id \in Operations |-> 0] /\ dismissed = {} /\ returned = {}

TimelockNext ==
    \/ TimelockTick
    \/ \E id \in Operations, o \in Accounts :
          \/ Propose(id, o) \/ Confirm(id, o) \/ RevokeConfirmation(id, o)
          \/ Cancel(id, o) \/ Execute(id, o)

TimelockSpec == TimelockInit /\ [][TimelockNext]_timelockVars

-----------------------------------------------------------------------------
(* Properties *)

Executes(id) == operations'[id].executed /\ ~operations[id].executed

\* execute, PerihelionTimelock.sol:261-288: users have at least MIN_DELAY between the
\* proposal that is executed and its execution, and a quorum of the owners of the day
\* confirmed that proposal and stands by it, whatever was cancelled, proposed again or
\* revoked, and however owners, threshold and delay changed in between; except that the
\* vote of an owner who was removed and came back may be one for an earlier proposal.
ExecutedByQuorum ==
    [][\A id \in Operations : Executes(id) =>
          /\ timelockTime - proposedAt[id] >= MinDelay
          /\ Cardinality(owners \cap (backing[id] \cup returned)) >= threshold]_timelockVars

\* The multisig does not lock itself out: the owners can always reach the threshold, and
\* as long as no owner has come back each pending operation has the confirmations that
\* were given and can still be cancelled by the owners that did not vote (so an expired
\* one can be proposed again).  The votes against an operation are those against its
\* present proposal.
TimelockStaysUsable ==
    /\ threshold \in 1 .. Cardinality(owners)
    /\ delay \in MinDelay .. MaxDelay
    /\ \A id \in Operations : Pending(id) =>
          /\ cancelConfirmations[id] = Cardinality(opposing[id])
          /\ returned = {} =>
                /\ operations[id].confirmations = Cardinality(backing[id])
                /\ cancelConfirmations[id] + Cardinality(owners \ cancelConfirmedBy[id])
                      >= threshold

\* What PerihelionTimelock.sol:321-326 says of a cancel, that no stale vote is left: the
\* votes that execute counts are votes for the proposal that it executes.
VotesAreForTheProposal ==
    [][\A id \in Operations : Executes(id) =>
          Cardinality(owners \cap backing[id]) >= threshold]_timelockVars

\* What PerihelionTimelock.sol:290-295 says of cancel: the quorum that is required to run a
\* proposal is required to kill it.
KilledByQuorum ==
    [][\A id \in Operations, o \in Accounts :
          Cancel(id, o) /\ ~operations'[id].exists =>
              Cardinality(owners \cap (opposing[id] \cup {o})) >= threshold]_timelockVars

\* What PerihelionTimelock.sol:33-36 says of an operation past its grace, that it must be
\* re-proposed: an owner can propose it.
ExpiredIsProposable ==
    \A id \in Operations :
        operations[id].readyAt # 0 /\ timelockTime > operations[id].readyAt + GracePeriod
        /\ ~operations[id].executed
            => ~operations[id].exists
=============================================================================
