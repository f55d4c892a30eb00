---------------------------- MODULE EscrowClient ----------------------------
(* sdk/escrow-client.ts: what the client of a user or a keeper reads from    *)
(* the escrow before it sends cancelExpired.  lock and cancelExpired pass a  *)
(* transaction on, so they are the actions of module Escrow.                 *)
EXTENDS Escrow

RefundBlockers == {"NotLocked", "AlreadyFinalized", "DeadlineNotPassed"}

(* getLock: the getter of an unknown hash returns zeros, which the client    *)
(* reads as no lock.                                                         *)
GetLock(h) == IF Locked(h) THEN {locks[h]} ELSE {}

RefundableAt(h) == Deadline[h] + confirmationGrace

\* The deadline alone decides (a mutant).
RefundStatusAtDeadline(h) ==
    CASE GetLock(h) = {} -> "NotLocked"
      [] Locked(h) /\ Finalized(h) -> "AlreadyFinalized"
      [] Live(h) /\ evmNow < Deadline[h] -> "DeadlineNotPassed"
      [] OTHER -> "refundable"

(* refundStatus: the lock, the grace and the time are read at one block.     *)
RefundStatus(h) ==
    CASE GetLock(h) = {} -> "NotLocked"
      [] Locked(h) /\ Finalized(h) -> "AlreadyFinalized"
      [] Live(h) /\ evmNow < RefundableAt(h) -> "DeadlineNotPassed"
      [] OTHER -> "refundable"

IsRefundable(h) == RefundStatus(h) = "refundable"
-----------------------------------------------------------------------------
(* The verdict is right both ways: the client calls a lock refundable        *)
(* exactly when cancelExpired goes through, which also needs the escrow to   *)
(* hold the tokens, whatever the owner, the guardian and the skims did.      *)
RefundVerdictIsRight ==
    \A h \in Intents : IsRefundable(h) <=> ENABLED CancelExpired(h)

(* A lock can be refunded from a time on that the owner cannot move beyond   *)
(* the longest grace, and its user is told so.                               *)
RefundIsInReach == RefundStaysOpen /\ RefundVerdictIsRight

(* The comment of refundStatus: a refundable verdict stays true unless       *)
(* another transaction finalizes the lock first.                             *)
RefundVerdictLasts ==
    [][\A h \in Intents : IsRefundable(h) /\ ~Finalized(h)' => IsRefundable(h)']_vars
=============================================================================
