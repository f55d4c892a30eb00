---------------------------- MODULE EscrowNonces ----------------------------
(* How the escrow keeps the nonces of one corridor: a bitmap word for every  *)
(* WordBits nonces, zero until used, and an observational high-water mark.   *)
(* The other end of the corridor has a bitmap that is pruned, Bitmap.        *)
EXTENDS Integers, FiniteSetsExt

CONSTANTS
    MaxNonce,
    WordBits   \* 256 in the contract

ASSUME BitmapAssumption ==
    /\ MaxNonce \in Nat
    /\ WordBits \in Nat \ {0}

VARIABLES
    inboundNonceBitmap,  \* [word index -> the bits that are set]
    inboundNonce         \* the high-water mark

vars == <<inboundNonceBitmap, inboundNonce>>

Words == 0 .. MaxNonce \div WordBits

\* The remainder that mistakes the mask for the size (a mutant).
BitByMask(nonce) == nonce % (WordBits - 1)

BitOf(nonce) == nonce % WordBits

WordOf(nonce) == nonce \div WordBits

Init ==
    /\ inboundNonceBitmap = [i \in Words |-> {}]
    /\ inboundNonce = 0

\* The check against the high-water mark alone (a mutant).
AboveHighWater(nonce) == nonce <= inboundNonce

IsNonceConsumed(nonce) == BitOf(nonce) \in inboundNonceBitmap[WordOf(nonce)]

ConsumeNonce(nonce) ==
    /\ inboundNonceBitmap' =
          [inboundNonceBitmap EXCEPT ![WordOf(nonce)] = @ \cup {BitOf(nonce)}]
    /\ inboundNonce' = IF nonce > inboundNonce THEN nonce ELSE inboundNonce

(* The nonce guard of lzReceive.                                             *)
Fresh(nonce) == nonce > 0 /\ ~IsNonceConsumed(nonce)

AcceptNonce(nonce) == Fresh(nonce) /\ ConsumeNonce(nonce)

Next == \E nonce \in 0 .. MaxNonce : AcceptNonce(nonce)

Spec == Init /\ [][Next]_vars
-----------------------------------------------------------------------------
Consumed ==
    {nonce \in 1 .. MaxNonce : BitOf(nonce) \in inboundNonceBitmap[WordOf(nonce)]}

(* The high-water mark is the largest nonce accepted so far, although the    *)
(* messages arrive in any order.                                             *)
HighWaterIsMax == inboundNonce = Max(Consumed \cup {0})

(* The bitmap accepts each nonce once, in any order.                         *)
Abstract == INSTANCE NonceSet WITH accepted <- Consumed
AcceptsEachNonceOnce == Abstract!Spec

(* It also accepts every nonce: those below the high-water mark too.         *)
EveryNonceFits == \A nonce \in (1 .. MaxNonce) \ Consumed : Fresh(nonce)
-----------------------------------------------------------------------------
(* The settlement contract at the other end of the corridor.                 *)
CONSTANTS MaxPruneWordsPerCall

ASSUME PruneAssumption == MaxPruneWordsPerCall \in Nat

VARIABLES words, floor, paused

Bitmap == INSTANCE NonceBitmap

(* Both nonce bitmaps in their own terms: the high-water mark of the escrow  *)
(* is the largest nonce and holds no other back; the pruning of the          *)
(* settlement contract leaves no word below its floor.                       *)
NoncesAreKept ==
    HighWaterIsMax /\ EveryNonceFits /\ Bitmap!TypeOK /\ Bitmap!NoWordBelowFloor

(* NonceBitmap: the pruned bitmap accepts each nonce once and forgets none.  *)
BitmapAcceptsEachNonceOnce == Bitmap!AcceptsEachNonceOnce
=============================================================================
