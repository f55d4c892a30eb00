----------------------------- MODULE NonceBitmap ----------------------------
(* How the settlement contract keeps the nonces of one corridor: a bitmap    *)
(* word for every WordBits nonces, written on first use, and a floor below   *)
(* which words are pruned and nonces rejected.  A word is the set of its     *)
(* bits; a word without an entry is not in the domain of words.              *)
EXTENDS Integers, Functions

CONSTANTS
    MaxNonce,
    WordBits,            \* 64 in the contract; more than one
    MaxPruneWordsPerCall \* MAX_PRUNE_WORDS_PER_CALL

VARIABLES words, floor, paused

vars == <<words, floor, paused>>

Bits == 0 .. WordBits - 1

BitOf(nonce) == nonce % WordBits

WordOf(nonce) == nonce \div WordBits

Word(index) == IF index \in DOMAIN words THEN words[index] ELSE {}

Init ==
    /\ words = << >>
    /\ floor = 0
    /\ paused = FALSE

Fresh(nonce) ==
    /\ nonce > 0
    /\ nonce >= floor
    /\ BitOf(nonce) \notin Word(WordOf(nonce))

AcceptNonce(nonce) ==
    LET index == WordOf(nonce) IN
    /\ Fresh(nonce)
    /\ words' = [i \in DOMAIN words \cup {index} |->
                    IF i = index THEN Word(i) \cup {BitOf(nonce)} ELSE words[i]]
    /\ UNCHANGED <<floor, paused>>

\* A scan that skips over words without an entry (a mutant).
SomeWord(index) == index \in DOMAIN words

(* Nonce 0 is invalid, so bit 0 of word 0 is never set.                      *)
CompleteWord(index) ==
    index \in DOMAIN words /\ Word(index) = IF index = 0 THEN Bits \ {0} ELSE Bits

FirstKept ==
    LET start == floor \div WordBits
    IN CHOOSE last \in start .. start + MaxPruneWordsPerCall :
          /\ \A i \in start .. last - 1 : CompleteWord(i)
          /\ last < start + MaxPruneWordsPerCall => ~CompleteWord(last)

(* prune_nonce_words drops the complete words from the floor on.             *)
PruneNonceWords ==
    /\ ~paused
    /\ words' = Restrict(words,
                    {i \in DOMAIN words : i < floor \div WordBits \/ i >= FirstKept})
    /\ floor' = FirstKept * WordBits
    /\ UNCHANGED paused

SetPaused(flag) ==
    /\ paused' = flag
    /\ UNCHANGED <<words, floor>>

Next ==
    \/ \E nonce \in 1 .. MaxNonce : AcceptNonce(nonce)
    \/ PruneNonceWords
    \/ \E flag \in BOOLEAN : SetPaused(flag)

Spec == Init /\ [][Next]_vars
-----------------------------------------------------------------------------
TypeOK ==
    /\ \A i \in DOMAIN words : i \in Nat /\ words[i] \subseteq Bits
    /\ floor \in Nat
    /\ paused \in BOOLEAN

InBitmap(nonce) == BitOf(nonce) \in Word(WordOf(nonce))

Accepted == {nonce \in 1 .. MaxNonce : nonce < floor \/ InBitmap(nonce)}

(* The bitmap with its pruning accepts each nonce once and forgets none: a   *)
(* pruned word does not re-open its nonces, and the floor rejects no nonce   *)
(* that is still to come.                                                    *)
Abstract == INSTANCE NonceSet WITH accepted <- Accepted
AcceptsEachNonceOnce == Abstract!Spec

(* Storage is bounded by the pruning: no word is left below the floor, which *)
(* lies on a word boundary.                                                  *)
NoWordBelowFloor ==
    /\ floor % WordBits = 0
    /\ \A i \in DOMAIN words : i >= floor \div WordBits
=============================================================================
