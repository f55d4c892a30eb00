------------------------------ MODULE NonceSet ------------------------------
(* What both contracts promise of the transport nonces of one corridor: each *)
(* nonce is accepted once, in any order.  Modules Escrow and Settlement keep *)
(* just this set.                                                            *)
EXTENDS Integers

CONSTANT MaxNonce  \* the bound on the nonces of an instance

VARIABLE accepted

Init == accepted = {}

Accept(nonce) ==
    /\ nonce \notin accepted
    /\ accepted' = accepted \cup {nonce}

Next == \E nonce \in 1 .. MaxNonce : Accept(nonce)

Spec == Init /\ [][Next]_accepted
=============================================================================
