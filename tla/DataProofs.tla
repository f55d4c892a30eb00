-------------------------------- MODULE DataProofs ----------------------------
(* The parts that keep to themselves: the nonces of the escrow, the rules    *)
(* for an intent, the start of the services, the rate limits of the mempool, *)
(* the delayed rotation of peers and endpoints in the settlement contract,   *)
(* the multisig that owns the escrow, and the text forms of the SDK; for any *)
(* widths, horizons, settings, limits, delays, peers, accounts, operations,  *)
(* keys and amounts.                                                         *)
EXTENDS EscrowNonces, IntentRules, Startup, RateLimit, SettlementGovernance, Timelock,
        Encodings, AggregateProofs

(* The nonce bitmap implements the set of accepted nonces.  A nonce is its   *)
(* word and its bit.                                                         *)
LEMMA WordAndBit ==
    ASSUME NEW nonce \in Nat
    PROVE  /\ WordOf(nonce) \in Nat
           /\ BitOf(nonce) \in 0 .. WordBits - 1
           /\ nonce = WordBits * WordOf(nonce) + BitOf(nonce)
BY BitmapAssumption DEF WordOf, BitOf

LEMMA WordsCoverNonces ==
    ASSUME NEW nonce \in 0 .. MaxNonce
    PROVE  WordOf(nonce) \in Words
<1> DEFINE w == WordBits
           p == nonce \div w
           q == MaxNonce \div w
<1>1. w \in Nat \ {0} /\ nonce \in Nat /\ MaxNonce \in Nat /\ nonce <= MaxNonce
    BY BitmapAssumption
<1> HIDE DEF w
<1>2. p \in Nat /\ q \in Nat /\ nonce >= w * p /\ MaxNonce < w * q + w
    BY <1>1
<1>3. p <= q
    <2>1. SUFFICES ASSUME p >= q + 1
                   PROVE  FALSE
        BY <1>2
    <2> HIDE DEF p, q
    <2>2. w * p >= w * (q + 1)
        BY <1>1, <1>2, <2>1
    <2>3. w * (q + 1) = w * q + w
        BY <1>1, <1>2
    <2>. QED  BY <1>1, <1>2, <2>2, <2>3
<1>. QED  BY <1>2, <1>3 DEF WordOf, Words, w

BitmapShape == DOMAIN inboundNonceBitmap = Words

LEMMA BitmapShapeHolds == Spec => []BitmapShape
<1>1. Init => BitmapShape
    BY DEF Init, BitmapShape
<1>2. BitmapShape /\ [Next]_vars => BitmapShape'
    BY DEF BitmapShape, Next, AcceptNonce, ConsumeNonce, vars
<1>. QED  BY <1>1, <1>2, PTL DEF Spec

(* Writing one bit accepts one nonce and no other.                           *)
LEMMA OneBitOneNonce ==
    ASSUME BitmapShape, NEW nonce \in 0 .. MaxNonce, AcceptNonce(nonce)
    PROVE  /\ nonce \in 1 .. MaxNonce
           /\ nonce \notin Consumed
           /\ Consumed' = Consumed \cup {nonce}
<1>1. nonce \in 1 .. MaxNonce /\ ~IsNonceConsumed(nonce)
    BY BitmapAssumption DEF AcceptNonce, Fresh
<1>2. WordOf(nonce) \in DOMAIN inboundNonceBitmap
    BY WordsCoverNonces DEF BitmapShape
<1>3. inboundNonceBitmap' =
         [inboundNonceBitmap EXCEPT ![WordOf(nonce)] = @ \cup {BitOf(nonce)}]
    BY DEF AcceptNonce, ConsumeNonce
<1>4. ASSUME NEW k \in 1 .. MaxNonce
      PROVE  k \in Consumed' <=> k \in Consumed \/ k = nonce
    <2>1. WordOf(k) \in DOMAIN inboundNonceBitmap
        BY WordsCoverNonces, BitmapAssumption DEF BitmapShape
    <2>2. WordOf(k) = WordOf(nonce) /\ BitOf(k) = BitOf(nonce) => k = nonce
        <3>1. k \in Nat /\ nonce \in Nat
            BY BitmapAssumption
        <3>. QED  BY <3>1, WordAndBit
    <2>3. k \in Consumed' <=> BitOf(k) \in inboundNonceBitmap'[WordOf(k)]
        BY DEF Consumed, BitOf, WordOf
    <2>4. k \in Consumed <=> BitOf(k) \in inboundNonceBitmap[WordOf(k)]
        BY DEF Consumed
    <2>. QED  BY <1>2, <1>3, <2>1, <2>2, <2>3, <2>4
<1>. QED  BY <1>1, <1>4 DEF Consumed, IsNonceConsumed

(* Each nonce of a corridor is accepted once, in any order: no two nonces    *)
(* share a bit, so the bitmap of lzReceive is as good as the set of the      *)
(* nonces that were accepted.                                                *)
THEOREM BitmapImplementsSet == Spec => AcceptsEachNonceOnce
<1>1. Init => Abstract!Init
    BY WordsCoverNonces, BitmapAssumption DEF Init, Abstract!Init, Consumed
<1>2. BitmapShape /\ [Next]_vars => [Abstract!Next]_Consumed
    <2> SUFFICES ASSUME BitmapShape, [Next]_vars
                 PROVE  [Abstract!Next]_Consumed
        OBVIOUS
    <2>1. ASSUME NEW nonce \in 0 .. MaxNonce, AcceptNonce(nonce)
          PROVE  Abstract!Next
        BY <2>1, OneBitOneNonce DEF Abstract!Next, Abstract!Accept
    <2>2. CASE UNCHANGED vars
        BY <2>2 DEF vars, Consumed, BitOf, WordOf
    <2>. QED  BY <2>1, <2>2 DEF Next
<1>. QED  BY <1>1, <1>2, BitmapShapeHolds, PTL
          DEF Spec, AcceptsEachNonceOnce, Abstract!Spec
-----------------------------------------------------------------------------
(* The bitmap of the settlement contract, which prune_nonce_words keeps      *)
(* short.  No word lies below its floor, and the floor lies between words.   *)
PrunedInv == Bitmap!TypeOK /\ Bitmap!NoWordBelowFloor

(* A nonce lies below a word boundary when its word does.                    *)
LEMMA BelowBoundary ==
    ASSUME NEW nonce \in Nat, NEW f \in Nat
    PROVE  nonce < f * WordBits <=> nonce \div WordBits < f
<1> DEFINE w == WordBits
           q == nonce \div w
           r == nonce % w
<1>1. w \in Nat \ {0}
    BY BitmapAssumption
<1> HIDE DEF w
<1>2. q \in Nat /\ r \in 0 .. w - 1 /\ nonce = w * q + r
    BY <1>1
<1> HIDE DEF q, r
<1>3. q < f => w * (q + 1) <= w * f
    BY <1>1, <1>2
<1>4. q >= f => w * q >= w * f
    BY <1>1, <1>2
<1>5. w * (q + 1) = w * q + w /\ f * w = w * f /\ w * q \in Nat /\ w * f \in Nat
    BY <1>1, <1>2
<1>6. nonce < f * w <=> q < f
    <2>1. CASE q < f
        BY <2>1, <1>1, <1>2, <1>3, <1>5
    <2>2. CASE q >= f
        BY <2>2, <1>1, <1>2, <1>4, <1>5
    <2>. QED  BY <1>2, <2>1, <2>2
<1>. QED  BY <1>6 DEF q, w

LEMMA Boundary ==
    ASSUME NEW f \in Nat
    PROVE  /\ f * WordBits \in Nat
           /\ (f * WordBits) \div WordBits = f
           /\ (f * WordBits) % WordBits = 0
<1> DEFINE w == WordBits
           n == f * w
           q == n \div w
           r == n % w
<1>1. w \in Nat \ {0}
    BY BitmapAssumption
<1> HIDE DEF w
<1>2. n \in Nat
    BY <1>1
<1> HIDE DEF n
<1>3. q \in Nat /\ r \in 0 .. w - 1 /\ n = w * q + r
    BY <1>1, <1>2
<1>4. ~(n < f * w)
    BY <1>2 DEF n
<1>5. n < (f + 1) * w
    BY <1>1 DEF n
<1>6. q >= f /\ q < f + 1
    BY <1>2, <1>3, <1>4, <1>5, BelowBoundary DEF q, w
<1> HIDE DEF q, r
<1>7. q = f
    BY <1>3, <1>6
<1>8. r = 0
    BY <1>1, <1>3, <1>7 DEF n
<1>. QED  BY <1>2, <1>7, <1>8 DEF n, q, r, w

(* What prune_nonce_words finds: the first word, from the floor on, that is  *)
(* not complete or that this call does not reach.                            *)
LEMMA FirstKeptIsFirst ==
    ASSUME floor \in Nat
    PROVE  /\ Bitmap!FirstKept \in Nat
           /\ floor \div WordBits <= Bitmap!FirstKept
           /\ \A i \in floor \div WordBits .. Bitmap!FirstKept - 1 : Bitmap!CompleteWord(i)
<1> DEFINE start == floor \div WordBits
           end == start + MaxPruneWordsPerCall
           Stop == {i \in Nat : i = end \/ (start <= i /\ i < end /\ ~Bitmap!CompleteWord(i))}
           IsFirst(last) == /\ \A i \in start .. last - 1 : Bitmap!CompleteWord(i)
                            /\ last < end => ~Bitmap!CompleteWord(last)
<1>1. start \in Nat /\ end \in Nat /\ MaxPruneWordsPerCall \in Nat /\ start <= end
    BY BitmapAssumption, PruneAssumption
<1>2. Bitmap!FirstKept = CHOOSE last \in start .. end : IsFirst(last)
    BY DEF Bitmap!FirstKept
<1> HIDE DEF start
<1>3. end \in Stop
    BY <1>1
<1>4. PICK last \in Stop : \A i \in Stop : ~(i < last)
    <2>1. PICK last \in Stop : \A i \in Stop : ~(<<i, last>> \in OpToRel(<, Nat))
        BY <1>3, NatLessThanWellFounded, WFMin
    <2>. QED  BY <2>1 DEF OpToRel
<1>5. last \in start .. end /\ IsFirst(last)
    <2>1. last \in start .. end
        BY <1>1
    <2>2. ASSUME NEW i \in start .. last - 1
          PROVE  Bitmap!CompleteWord(i)
        BY <1>1, <1>4, <2>1
    <2>. QED  BY <1>1, <2>1, <2>2
<1>6. Bitmap!FirstKept \in start .. end /\ IsFirst(Bitmap!FirstKept)
    <2> HIDE DEF IsFirst
    <2>. QED  BY <1>2, <1>5
<1>. QED  BY <1>1, <1>6 DEF start
LEMMA AcceptKeepsPrunedInv ==
    ASSUME PrunedInv, NEW nonce \in 1 .. MaxNonce, Bitmap!AcceptNonce(nonce)
    PROVE  PrunedInv'
<1> DEFINE index == Bitmap!WordOf(nonce)
           bit == Bitmap!BitOf(nonce)
<1>1. nonce \in Nat /\ index \in Nat /\ bit \in Bitmap!Bits
    <2>1. nonce \in Nat
        BY BitmapAssumption
    <2>. QED  BY <2>1, WordAndBit
              DEF WordOf, BitOf, Bitmap!WordOf, Bitmap!BitOf, Bitmap!Bits
<1>2. index >= floor \div WordBits
    <2>1. floor \in Nat /\ nonce >= floor /\ floor \div WordBits \in Nat
        BY BitmapAssumption DEF PrunedInv, Bitmap!TypeOK, Bitmap!AcceptNonce, Bitmap!Fresh
    <2>2. (floor \div WordBits) * WordBits = floor
        <3>1. floor % WordBits = 0
            BY DEF PrunedInv, Bitmap!NoWordBelowFloor
        <3>. QED  BY <2>1, <3>1, BitmapAssumption
    <2>3. ~(nonce < (floor \div WordBits) * WordBits)
        BY <1>1, <2>1, <2>2
    <2>. QED  BY <1>1, <2>1, <2>3, BelowBoundary DEF Bitmap!WordOf
<1>3. /\ words' = [i \in DOMAIN words \cup {index} |->
                      IF i = index THEN Bitmap!Word(i) \cup {bit} ELSE words[i]]
      /\ UNCHANGED <<floor, paused>>
    BY DEF Bitmap!AcceptNonce
<1> HIDE DEF index, bit
<1>4. Bitmap!Word(index) \subseteq Bitmap!Bits
    BY DEF PrunedInv, Bitmap!TypeOK, Bitmap!Word
<1>5. Bitmap!TypeOK'
    BY <1>1, <1>3, <1>4 DEF PrunedInv, Bitmap!TypeOK, Bitmap!Bits
<1>6. Bitmap!NoWordBelowFloor'
    BY <1>2, <1>3 DEF PrunedInv, Bitmap!NoWordBelowFloor
<1>. QED  BY <1>5, <1>6 DEF PrunedInv

LEMMA PruneKeepsPrunedInv ==
    ASSUME PrunedInv, Bitmap!PruneNonceWords
    PROVE  PrunedInv'
<1> DEFINE first == Bitmap!FirstKept
<1>1. first \in Nat /\ floor \div WordBits <= first
    BY FirstKeptIsFirst DEF PrunedInv, Bitmap!TypeOK
<1>2. /\ DOMAIN words' = {i \in DOMAIN words : i < floor \div WordBits \/ i >= first}
      /\ \A i \in DOMAIN words' : words'[i] = words[i]
      /\ floor' = first * WordBits
      /\ paused' = paused
    BY DEF Bitmap!PruneNonceWords, Bitmap!Restrict
<1> HIDE DEF first
<1>3. floor' \in Nat /\ floor' \div WordBits = first /\ floor' % WordBits = 0
    BY <1>1, <1>2, Boundary
<1>4. Bitmap!TypeOK'
    BY <1>2, <1>3 DEF PrunedInv, Bitmap!TypeOK, Bitmap!Bits
<1>5. ASSUME NEW i \in DOMAIN words'
      PROVE  i >= first
    BY <1>2, BitmapAssumption DEF PrunedInv, Bitmap!TypeOK, Bitmap!NoWordBelowFloor
<1>6. Bitmap!NoWordBelowFloor'
    BY <1>3, <1>5 DEF Bitmap!NoWordBelowFloor
<1>. QED  BY <1>4, <1>6 DEF PrunedInv

LEMMA PrunedInvHolds == Bitmap!Spec => []PrunedInv
<1>1. Bitmap!Init => PrunedInv
    <2>1. 0 % WordBits = 0 /\ 0 \div WordBits = 0
        BY BitmapAssumption
    <2>2. \A i : i \notin DOMAIN << >>
        OBVIOUS
    <2>3. Bitmap!Init => \A i : i \notin DOMAIN words
        BY <2>2 DEF Bitmap!Init
    <2>4. Bitmap!Init => floor = 0 /\ paused \in BOOLEAN
        BY DEF Bitmap!Init
    <2>. QED  BY <2>1, <2>3, <2>4 DEF PrunedInv, Bitmap!TypeOK, Bitmap!NoWordBelowFloor
<1>2. PrunedInv /\ [Bitmap!Next]_(Bitmap!vars) => PrunedInv'
    <2> SUFFICES ASSUME PrunedInv, [Bitmap!Next]_(Bitmap!vars)
                 PROVE  PrunedInv'
        OBVIOUS
    <2>1. ASSUME NEW flag \in BOOLEAN, Bitmap!SetPaused(flag)
          PROVE  PrunedInv'
        BY <2>1 DEF PrunedInv, Bitmap!TypeOK, Bitmap!NoWordBelowFloor, Bitmap!SetPaused,
                    Bitmap!Bits
    <2>2. CASE UNCHANGED Bitmap!vars
        BY <2>2 DEF PrunedInv, Bitmap!TypeOK, Bitmap!NoWordBelowFloor, Bitmap!vars,
                    Bitmap!Bits
    <2>. QED  BY <2>1, <2>2, AcceptKeepsPrunedInv, PruneKeepsPrunedInv DEF Bitmap!Next
<1>. QED  BY <1>1, <1>2, PTL DEF Bitmap!Spec

(* Accepting sets the bit of one nonce and of no other.                      *)
LEMMA AcceptAddsOne ==
    ASSUME PrunedInv, NEW nonce \in 1 .. MaxNonce, Bitmap!AcceptNonce(nonce)
    PROVE  /\ nonce \notin Bitmap!Accepted
           /\ Bitmap!Accepted' = Bitmap!Accepted \cup {nonce}
<1> DEFINE index == Bitmap!WordOf(nonce)
           bit == Bitmap!BitOf(nonce)
<1>1. /\ nonce >= floor /\ floor \in Nat /\ ~Bitmap!InBitmap(nonce)
      /\ words' = [i \in DOMAIN words \cup {index} |->
                      IF i = index THEN Bitmap!Word(i) \cup {bit} ELSE words[i]]
      /\ floor' = floor
    BY DEF Bitmap!AcceptNonce, Bitmap!Fresh, Bitmap!InBitmap, PrunedInv, Bitmap!TypeOK
<1>2. ASSUME NEW k \in 1 .. MaxNonce
      PROVE  Bitmap!InBitmap(k)' <=> Bitmap!InBitmap(k) \/ k = nonce
    <2> DEFINE kIndex == Bitmap!WordOf(k)
               kBit == Bitmap!BitOf(k)
    <2>1. kIndex = index /\ kBit = bit => k = nonce
        <3>1. k \in Nat /\ nonce \in Nat
            BY BitmapAssumption
        <3>. QED  BY <3>1, WordAndBit
                  DEF WordOf, BitOf, Bitmap!WordOf, Bitmap!BitOf
    <2>2. /\ Bitmap!InBitmap(k)' <=> kIndex \in DOMAIN words' /\ kBit \in words'[kIndex]
          /\ Bitmap!InBitmap(k) <=> kIndex \in DOMAIN words /\ kBit \in words[kIndex]
        BY DEF Bitmap!InBitmap, Bitmap!Word, Bitmap!WordOf, Bitmap!BitOf
    <2>3. k = nonce => kIndex = index /\ kBit = bit
        OBVIOUS
    <2>4. Bitmap!Word(index) = IF index \in DOMAIN words THEN words[index] ELSE {}
        BY DEF Bitmap!Word
    <2> HIDE DEF index, bit, kIndex, kBit
    <2>. QED  BY <1>1, <2>1, <2>2, <2>3, <2>4
<1>3. nonce < floor <=> FALSE
    BY <1>1, BitmapAssumption
<1>4. nonce \notin Bitmap!Accepted
    BY <1>1, <1>3 DEF Bitmap!Accepted
<1>5. ASSUME NEW k \in 1 .. MaxNonce
      PROVE  k \in Bitmap!Accepted' <=> k \in Bitmap!Accepted \/ k = nonce
    <2>1. k \in Bitmap!Accepted' <=> k < floor' \/ Bitmap!InBitmap(k)'
        BY DEF Bitmap!Accepted
    <2>2. k \in Bitmap!Accepted <=> k < floor \/ Bitmap!InBitmap(k)
        BY DEF Bitmap!Accepted
    <2>. QED  BY <1>1, <1>2, <2>1, <2>2
<1>6. Bitmap!Accepted \subseteq 1 .. MaxNonce /\ Bitmap!Accepted' \subseteq 1 .. MaxNonce
    BY DEF Bitmap!Accepted
<1>. QED  BY <1>4, <1>5, <1>6

(* Pruning forgets no nonce, and the floor that it raises rejects none that  *)
(* is still to come: what goes is complete.                                  *)
LEMMA PruneKeepsAccepted ==
    ASSUME PrunedInv, Bitmap!PruneNonceWords
    PROVE  Bitmap!Accepted' = Bitmap!Accepted
<1> DEFINE first == Bitmap!FirstKept
           start == floor \div WordBits
<1>1. /\ first \in Nat /\ start \in Nat /\ start <= first /\ floor \in Nat
      /\ \A i \in start .. first - 1 : Bitmap!CompleteWord(i)
    BY FirstKeptIsFirst, BitmapAssumption DEF PrunedInv, Bitmap!TypeOK
<1>2. floor = start * WordBits
    BY <1>1, BitmapAssumption DEF PrunedInv, Bitmap!NoWordBelowFloor
<1>3. /\ DOMAIN words' = {i \in DOMAIN words : i < start \/ i >= first}
      /\ \A i \in DOMAIN words' : words'[i] = words[i]
      /\ floor' = first * WordBits
    BY DEF Bitmap!PruneNonceWords, Bitmap!Restrict
<1> HIDE DEF first, start
<1>4. ASSUME NEW k \in 1 .. MaxNonce
      PROVE  k < floor' \/ Bitmap!InBitmap(k)' <=> k < floor \/ Bitmap!InBitmap(k)
    <2> DEFINE index == k \div WordBits
               bit == k % WordBits
    <2>1. k \in Nat /\ k # 0 /\ index \in Nat /\ bit \in Bitmap!Bits
        BY BitmapAssumption DEF Bitmap!Bits
    <2>2. index = 0 => bit # 0
        BY <2>1, BitmapAssumption
    <2>3. /\ Bitmap!InBitmap(k)' <=> index \in DOMAIN words' /\ bit \in words'[index]
          /\ Bitmap!InBitmap(k) <=> index \in DOMAIN words /\ bit \in words[index]
        BY DEF Bitmap!InBitmap, Bitmap!Word, Bitmap!WordOf, Bitmap!BitOf
    <2>4. (k < floor <=> index < start) /\ (k < floor' <=> index < first)
        BY <1>1, <1>2, <1>3, <2>1, BelowBoundary
    <2> HIDE DEF index, bit
    <2>5. CASE index < start
        BY <1>1, <2>1, <2>4, <2>5
    <2>6. CASE start <= index /\ index < first
        <3>1. Bitmap!CompleteWord(index)
            BY <1>1, <2>1, <2>6
        <3>2. index \in DOMAIN words /\ bit \in words[index]
            BY <2>1, <2>2, <3>1 DEF Bitmap!CompleteWord, Bitmap!Word
        <3>. QED  BY <2>3, <2>4, <2>6, <3>2
    <2>7. CASE index >= first
        BY <1>1, <1>3, <2>1, <2>3, <2>4, <2>7
    <2>. QED  BY <1>1, <2>1, <2>5, <2>6, <2>7
<1>5. /\ Bitmap!Accepted = {k \in 1 .. MaxNonce : k < floor \/ Bitmap!InBitmap(k)}
      /\ Bitmap!Accepted' = {k \in 1 .. MaxNonce : k < floor' \/ Bitmap!InBitmap(k)'}
    BY DEF Bitmap!Accepted
<1>. QED  BY <1>4, <1>5

(* Each nonce of a corridor is accepted once on Stellar too, in any order,   *)
(* however often and from wherever the permissionless pruning is called.     *)
THEOREM PrunedBitmapImplementsSet == Bitmap!Spec => BitmapAcceptsEachNonceOnce
<1>1. Bitmap!Init => Bitmap!Abstract!Init
    <2>1. Bitmap!Init => Bitmap!Accepted = {}
        BY DEF Bitmap!Init, Bitmap!Accepted, Bitmap!InBitmap, Bitmap!Word
    <2>. QED  BY <2>1 DEF Bitmap!Abstract!Init
<1>2. PrunedInv /\ [Bitmap!Next]_(Bitmap!vars) => [Bitmap!Abstract!Next]_(Bitmap!Accepted)
    <2> SUFFICES ASSUME PrunedInv, [Bitmap!Next]_(Bitmap!vars)
                 PROVE  [Bitmap!Abstract!Next]_(Bitmap!Accepted)
        OBVIOUS
    <2>1. ASSUME NEW nonce \in 1 .. MaxNonce, Bitmap!AcceptNonce(nonce)
          PROVE  Bitmap!Abstract!Next
        BY <2>1, AcceptAddsOne DEF Bitmap!Abstract!Next, Bitmap!Abstract!Accept
    <2>2. CASE Bitmap!PruneNonceWords
        BY <2>2, PruneKeepsAccepted
    <2>3. ASSUME UNCHANGED <<words, floor>>
          PROVE  UNCHANGED Bitmap!Accepted
        BY <2>3 DEF Bitmap!Accepted, Bitmap!InBitmap, Bitmap!Word, Bitmap!WordOf, Bitmap!BitOf
    <2>4. ASSUME NEW flag \in BOOLEAN, Bitmap!SetPaused(flag)
          PROVE  UNCHANGED <<words, floor>>
        BY <2>4 DEF Bitmap!SetPaused
    <2>5. CASE UNCHANGED Bitmap!vars
        BY <2>3, <2>5 DEF Bitmap!vars
    <2>. QED  BY <2>1, <2>2, <2>3, <2>4, <2>5 DEF Bitmap!Next
<1>. QED  BY <1>1, <1>2, PrunedInvHolds, PTL
          DEF Bitmap!Spec, BitmapAcceptsEachNonceOnce, Bitmap!AcceptsEachNonceOnce,
              Bitmap!Abstract!Spec
-----------------------------------------------------------------------------
(* What the high-water mark of the escrow says and what it does not.         *)

LEMMA MaxIsGreatest ==
    ASSUME NEW S \in SUBSET Nat, NEW m \in S, \A k \in S : m >= k
    PROVE  m = Max(S)
<1> DEFINE greatest == Max(S)
<1>1. (\A k \in S : greatest >= k) /\ greatest \in S
    BY DEF Max
<1> HIDE DEF greatest
<1>2. m >= greatest /\ greatest >= m /\ m \in Nat /\ greatest \in Nat
    BY <1>1
<1>3. m = greatest
    BY <1>2
<1>. QED  BY <1>3 DEF greatest

\* The mark was accepted itself and no greater nonce was.
HighWaterInv ==
    /\ BitmapShape
    /\ inboundNonce \in Consumed \cup {0}
    /\ \A k \in Consumed : inboundNonce >= k

LEMMA HighWaterInvHolds == Spec => []HighWaterInv
<1>1. Init => HighWaterInv
    BY WordsCoverNonces, BitmapAssumption DEF Init, HighWaterInv, BitmapShape, Consumed
<1>2. HighWaterInv /\ [Next]_vars => HighWaterInv'
    <2> SUFFICES ASSUME HighWaterInv, [Next]_vars
                 PROVE  HighWaterInv'
        OBVIOUS
    <2>1. ASSUME NEW nonce \in 0 .. MaxNonce, AcceptNonce(nonce)
          PROVE  HighWaterInv'
        <3>1. /\ nonce \in 1 .. MaxNonce
              /\ Consumed' = Consumed \cup {nonce}
            BY <2>1, OneBitOneNonce DEF HighWaterInv
        <3>2. BitmapShape'
            BY <2>1 DEF HighWaterInv, BitmapShape, AcceptNonce, ConsumeNonce
        <3>3. inboundNonce' = IF nonce > inboundNonce THEN nonce ELSE inboundNonce
            BY <2>1 DEF AcceptNonce, ConsumeNonce
        <3>4. Consumed \subseteq Nat /\ inboundNonce \in Nat /\ nonce \in Nat
            BY <3>1, BitmapAssumption DEF HighWaterInv, Consumed
        <3>5. inboundNonce' \in Consumed' \cup {0}
            BY <3>1, <3>3 DEF HighWaterInv
        <3>6. \A k \in Consumed \cup {nonce} : inboundNonce' >= k
            BY <3>3, <3>4 DEF HighWaterInv
        <3>. QED  BY <3>1, <3>2, <3>5, <3>6 DEF HighWaterInv
    <2>2. CASE UNCHANGED vars
        BY <2>2 DEF vars, HighWaterInv, BitmapShape, Consumed, BitOf, WordOf
    <2>. QED  BY <2>1, <2>2 DEF Next
<1>. QED  BY <1>1, <1>2, PTL DEF Spec

(* In whatever order LayerZero delivers them, the mark of the escrow is the  *)
(* greatest nonce and holds no other one back, and the pruning of the        *)
(* settlement contract leaves no word below a floor that lies between two.   *)
THEOREM MarksAreTrue == Spec /\ Bitmap!Spec => []NoncesAreKept
<1>1. HighWaterInv => HighWaterIsMax /\ EveryNonceFits
    <2> SUFFICES ASSUME HighWaterInv
                 PROVE  HighWaterIsMax /\ EveryNonceFits
        OBVIOUS
    <2>1. Consumed \cup {0} \in SUBSET Nat
        BY BitmapAssumption DEF Consumed
    <2>2. \A k \in Consumed \cup {0} : inboundNonce >= k
        BY <2>1 DEF HighWaterInv
    <2>3. inboundNonce = Max(Consumed \cup {0})
        BY <2>1, <2>2, MaxIsGreatest DEF HighWaterInv
    <2>4. ASSUME NEW nonce \in (1 .. MaxNonce) \ Consumed
          PROVE  Fresh(nonce)
        BY BitmapAssumption DEF Fresh, IsNonceConsumed, Consumed
    <2>. QED  BY <2>3, <2>4 DEF HighWaterIsMax, EveryNonceFits
<1>2. HighWaterInv /\ PrunedInv => NoncesAreKept
    BY <1>1 DEF NoncesAreKept, PrunedInv
<1>. QED  BY <1>2, HighWaterInvHolds, PrunedInvHolds, PTL
-----------------------------------------------------------------------------
(* The rules of the SDK, the mempool, the escrow and the settlement contract *)
(* agree along the way of one intent: BuiltIsAccepted and VerifiedIsValid.   *)

\* What the flags `built` and `verified` stand for: the intent passed buildIntent at some
\* earlier time, and the signature passed verifyIntent with the code that the account had.
BuiltEarlier == built => \E now \in 0 .. intentTime : BuildIntent(intent, now)
VerifiedEarlier ==
    verified.done =>
        IF verified.client = "answers" /\ verified.deployed
        THEN intent.signature.wallet # "refuses"
        ELSE SignedByKey(intent.signature)

RulesInv ==
    /\ intentTime \in Nat /\ intent \in Candidates /\ deployed \in BOOLEAN
    /\ BuiltEarlier /\ VerifiedEarlier

\* The rules of buildIntent at one time imply those of the parser, the escrow and the
\* settlement contract at every later time, but for the chain, the allowlist and the clock.
LEMMA BuiltPassesChecks ==
    ASSUME NEW i \in Candidates, NEW t \in Nat, NEW now \in 0 .. t, BuildIntent(i, now)
    PROVE  /\ ParseIntent(i)
           /\ i.chain = 1 /\ i.sourceAsset = "allowed" /\ t < i.deadline =>
                  EscrowAccepts(i, t)
           /\ SettlementAccepts(i, t)
<1>1. ValidateIntent(i, now)
  BY DEF BuildIntent
<1>2. /\ {i.amount, i.min, i.nonce, i.chain, i.deadline} \subseteq Nat \cup {Malformed}
      /\ {I128Max, U128Max, Uint256Max, MaxDeadlineHorizon} \subseteq Nat
      /\ I128Max < U128Max /\ U128Max < Uint256Max
  BY IntentRulesAssumption
<1>3. ParseIntent(i)
  BY <1>1, <1>2 DEF ValidateIntent, ParseIntent, Malformed
<1>4. ASSUME i.chain = 1, i.sourceAsset = "allowed", t < i.deadline
      PROVE  EscrowAccepts(i, t)
  <2>1. Encodable(i)
    BY <1>1, <1>2 DEF ValidateIntent, Encodable, IsPositiveInt, IsNonNegInt, Malformed
  <2>. QED
    BY <1>1, <1>4, <2>1 DEF ValidateIntent, EscrowAccepts
<1>5. SettlementAccepts(i, t)
  BY <1>1, <1>2 DEF ValidateIntent, SettlementAccepts, IsPositiveInt, Malformed
<1>. QED
  BY <1>3, <1>4, <1>5

LEMMA InitRules == IntentInit => RulesInv
<1>. SUFFICES ASSUME IntentInit PROVE RulesInv
  OBVIOUS
<1>1. ~built /\ deployed \in BOOLEAN
  BY Zenon DEF IntentInit
<1>2. ~verified.done
  BY Zenon DEF IntentInit, Unverified
<1>. QED
  BY <1>1, <1>2 DEF IntentInit, RulesInv, BuiltEarlier, VerifiedEarlier

\* Each step keeps what the flags stand for: time only grows, the intent is never
\* exchanged, and each flag is raised by the check that it is about.
LEMMA StepRules == RulesInv /\ [IntentNext]_ruleVars => RulesInv'
<1>. SUFFICES ASSUME RulesInv, [IntentNext]_ruleVars
              PROVE  RulesInv'
  OBVIOUS
<1>1. /\ intentTime' \in Nat /\ intentTime <= intentTime'
      /\ intent' = intent /\ deployed' \in BOOLEAN
  <2>1. intentTime' = intentTime \/ intentTime' = intentTime + 1
    BY DEF IntentNext, IntentTick, CodeChanges, Build, SignAnything, SubmitSigned,
           LockIntent, RegisterIntent, Move, ruleVars
  <2>2. intent' = intent
    BY DEF IntentNext, IntentTick, CodeChanges, Build, SignAnything, SubmitSigned,
           LockIntent, RegisterIntent, Move, ruleVars
  <2>3. deployed' = deployed \/ deployed' = ~deployed
    BY Zenon DEF IntentNext, IntentTick, CodeChanges, Build, SignAnything, SubmitSigned,
           LockIntent, RegisterIntent, Move, ruleVars
  <2>4. deployed' \in BOOLEAN
    BY <2>3, Zenon DEF RulesInv
  <2>. QED
    BY <2>1, <2>2, <2>4 DEF RulesInv
<1>2. BuiltEarlier'
  <2>1. CASE Build
    <3>1. BuildIntent(intent, intentTime) /\ intentTime' = intentTime
      BY <2>1 DEF Build, Move
    <3>. QED
      BY <3>1, <1>1 DEF BuiltEarlier, RulesInv
  <2>2. CASE ~Build
    <3>1. built' = built
      BY <2>2 DEF IntentNext, IntentTick, CodeChanges, SignAnything, SubmitSigned,
                  LockIntent, RegisterIntent, ruleVars
    <3>. QED
      BY <3>1, <1>1 DEF BuiltEarlier, RulesInv
  <2>. QED
    BY <2>1, <2>2
<1>3. VerifiedEarlier'
  <2>1. CASE SubmitSigned
    <3>1. PICK client \in {"none", "answers", "fails"} :
             /\ VerifyIntent(intent, client)
             /\ verified' = [client |-> client, deployed |-> deployed, done |-> TRUE]
      BY <2>1 DEF SubmitSigned
    <3>. QED
      BY <3>1, <1>1 DEF VerifiedEarlier, VerifyIntent
  <2>2. CASE ~SubmitSigned
    <3>1. verified' = verified
      BY <2>2 DEF IntentNext, IntentTick, CodeChanges, Build, SignAnything,
                  LockIntent, RegisterIntent, ruleVars
    <3>. QED
      BY <3>1, <1>1 DEF VerifiedEarlier, RulesInv
  <2>. QED
    BY <2>1, <2>2
<1>. QED
  BY <1>1, <1>2, <1>3 DEF RulesInv

LEMMA RulesHold == IntentSpec => []RulesInv
  BY InitRules, StepRules, PTL DEF IntentSpec

\* An intent that the SDK built is listed by the mempool, locked by the escrow and registered
\* on Stellar at any later time (MAX_DEADLINE_HORIZON, intent.ts:216-228).
THEOREM BuiltIntentsPass == IntentSpec => []BuiltIsAccepted
<1>1. RulesInv => BuiltIsAccepted
  <2>. SUFFICES ASSUME RulesInv, built
                PROVE  BuiltIsAccepted
    BY DEF BuiltIsAccepted
  <2>1. PICK now \in 0 .. intentTime : BuildIntent(intent, now)
    BY DEF RulesInv, BuiltEarlier
  <2>. QED
    BY <2>1, BuiltPassesChecks DEF RulesInv, BuiltIsAccepted
<1>. QED
  BY <1>1, RulesHold, PTL

\* A signature that verifyIntent accepted is accepted by the escrow, with the three
\* exceptions of VerifiedIsValid (intent.ts:494-519).
THEOREM VerifiedIntentsPass == IntentSpec => []VerifiedIsValid
<1>1. RulesInv => VerifiedIsValid
  BY IntentRulesAssumption DEF RulesInv, VerifiedEarlier, VerifiedIsValid, EscrowVerifies
<1>. QED
  BY <1>1, RulesHold, PTL
-----------------------------------------------------------------------------
(* The services of one deployment.                                           *)

\* What a running service was given, and what its start required of the environment.
SolverInv ==
    solver.running =>
        /\ SolverConfigured
        /\ solver.executing => ExecutorConfigured
        /\ solver.address = env["PERIHELION_SOLVER_ADDRESS"]
        /\ solver.escrow = Escrow /\ solver.chain = Chain
        /\ solver.settlement = ReadUnified("PERIHELION_SETTLEMENT_CONTRACT",
                                           "PERIHELION_SETTLEMENT_CONTRACT_ID")
        /\ solver.rpc = ReadUnified("PERIHELION_SOROBAN_RPC_URL", "PERIHELION_STELLAR_RPC_URL")
        /\ solver.executorSettlement = ExecutorSettlement
        /\ solver.executorRpc = ExecutorRpc
        /\ solver.signer = DerivedAddress
        /\ solver.network = env["STELLAR_NETWORK"]

RelayerInv ==
    relayer.running =>
        /\ RelayerConfigured
        /\ relayer.escrow = Escrow
        /\ relayer.settlement = RelayerSettlement /\ relayer.rpc = RelayerRpc
        /\ relayer.network = env["STELLAR_NETWORK"]

MempoolInv == mempool.running => mempool.escrow = Escrow /\ mempool.chain = Chain

ServicesInv == SolverInv /\ RelayerInv /\ MempoolInv

LEMMA ServicesInvHolds == StartupSpec => []ServicesInv
<1>1. StartupInit => ServicesInv
    <2>1. ~Stopped.running
        BY DEF Stopped
    <2>. QED  BY <2>1 DEF StartupInit, ServicesInv, SolverInv, RelayerInv, MempoolInv
<1>2. ServicesInv /\ [StartupNext]_startupVars => ServicesInv'
    <2> SUFFICES ASSUME ServicesInv, [StartupNext]_startupVars
                 PROVE  ServicesInv'
        OBVIOUS
    <2> USE DEF ServicesInv
    <2>1. ASSUME env' = env, solver' = solver
          PROVE  SolverInv'
        BY <2>1 DEF SolverInv, SolverConfigured, ExecutorConfigured, Escrow, Chain, Conflict,
                    ExecutorSettlement, ExecutorRpc, DerivedAddress, ReadUnified
    <2>2. ASSUME env' = env, relayer' = relayer
          PROVE  RelayerInv'
        BY <2>2 DEF RelayerInv, RelayerConfigured, Escrow, RelayerSettlement, RelayerRpc,
                    RelayerMode, Confirmations
    <2>3. ASSUME env' = env, mempool' = mempool
          PROVE  MempoolInv'
        BY <2>3 DEF MempoolInv, Escrow, Chain
    <2>4. CASE StartSolver
        <3>1. env' = env /\ relayer' = relayer /\ mempool' = mempool
            BY <2>4 DEF StartSolver
        <3>2. SolverConfigured /\ (WatchOnly \/ ExecutorConfigured)
            BY <2>4 DEF StartSolver
        <3>3. solver'.executing = ~WatchOnly
            BY <2>4, Zenon DEF StartSolver
        <3>4. /\ solver'.address = env["PERIHELION_SOLVER_ADDRESS"]
              /\ solver'.escrow = Escrow /\ solver'.chain = Chain
              /\ solver'.settlement = ReadUnified("PERIHELION_SETTLEMENT_CONTRACT",
                                                  "PERIHELION_SETTLEMENT_CONTRACT_ID")
              /\ solver'.rpc = ReadUnified("PERIHELION_SOROBAN_RPC_URL",
                                           "PERIHELION_STELLAR_RPC_URL")
              /\ solver'.executorSettlement = ExecutorSettlement
              /\ solver'.executorRpc = ExecutorRpc
              /\ solver'.signer = DerivedAddress
              /\ solver'.network = env["STELLAR_NETWORK"]
            BY <2>4 DEF StartSolver
        <3>5. SolverInv'
            BY <3>1, <3>2, <3>3, <3>4
               DEF SolverInv, SolverConfigured, ExecutorConfigured, Escrow, Chain, Conflict,
                   ExecutorSettlement, ExecutorRpc, DerivedAddress, ReadUnified
        <3>. QED  BY <3>1, <3>5, <2>2, <2>3
    <2>5. CASE StartRelayer
        <3>1. env' = env /\ solver' = solver /\ mempool' = mempool
            BY <2>5 DEF StartRelayer
        <3>2. /\ RelayerConfigured
              /\ relayer'.escrow = Escrow
              /\ relayer'.settlement = RelayerSettlement /\ relayer'.rpc = RelayerRpc
              /\ relayer'.network = env["STELLAR_NETWORK"]
            BY <2>5 DEF StartRelayer
        <3>3. RelayerInv'
            BY <3>1, <3>2
               DEF RelayerInv, RelayerConfigured, Escrow, RelayerSettlement, RelayerRpc,
                   RelayerMode, Confirmations
        <3>. QED  BY <3>1, <3>3, <2>1, <2>3
    <2>6. CASE StartMempool
        <3>1. /\ env' = env /\ solver' = solver /\ relayer' = relayer
              /\ mempool'.escrow = Escrow /\ mempool'.chain = Chain
            BY <2>6 DEF StartMempool
        <3>2. MempoolInv'
            BY <3>1 DEF MempoolInv, Escrow, Chain
        <3>. QED  BY <3>1, <3>2, <2>1, <2>2
    <2>7. CASE UNCHANGED startupVars
        BY <2>1, <2>2, <2>3, <2>7 DEF startupVars
    <2>. QED  BY <2>4, <2>5, <2>6, <2>7 DEF StartupNext
<1>. QED  BY <1>1, <1>2, PTL DEF StartupSpec

(* A name wins over its alias whichever way round a service reads them, if   *)
(* it refuses two that differ or one that is set to nothing.                 *)
LEMMA AliasesAgree ==
    ASSUME NEW v, NEW alias, ~Conflict(v, alias), IsProper(NullishOr(v, alias))
    PROVE  /\ IsSet(v) => NullishOr(v, alias) = v
           /\ ~IsSet(v) => NullishOr(v, alias) = alias /\ IsSet(alias)
           /\ IsSet(alias) => NullishOr(v, alias) = alias
BY DEF Conflict, IsProper, NullishOr, IsSet

(* The solver, the relayer and the mempool that start from one environment   *)
(* serve one bridge under one identity, although each reads the settings by  *)
(* rules of its own.                                                         *)
THEOREM ServicesAgree == StartupSpec => []OneDeployment
<1>1. ASSUME ServicesInv, solver.running, relayer.running
      PROVE  /\ solver.settlement = relayer.settlement /\ solver.rpc = relayer.rpc
             /\ solver.executorSettlement = relayer.settlement
             /\ solver.executorRpc = relayer.rpc
    <2> DEFINE id == env["PERIHELION_SETTLEMENT_CONTRACT_ID"]
               contract == env["PERIHELION_SETTLEMENT_CONTRACT"]
               soroban == env["PERIHELION_SOROBAN_RPC_URL"]
               stellar == env["PERIHELION_STELLAR_RPC_URL"]
    <2>1. ~Conflict(contract, id) /\ ~Conflict(soroban, stellar)
        BY <1>1 DEF ServicesInv, SolverInv, SolverConfigured
    <2>2. IsProper(NullishOr(id, contract)) /\ IsProper(NullishOr(soroban, stellar))
        BY <1>1 DEF ServicesInv, RelayerInv, RelayerConfigured, RelayerSettlement, RelayerRpc
    <2>3. ~Conflict(id, contract)
        BY <2>1 DEF Conflict
    <2>4. relayer.settlement = NullishOr(id, contract) /\ relayer.rpc = NullishOr(soroban, stellar)
        BY <1>1 DEF ServicesInv, RelayerInv, RelayerSettlement, RelayerRpc
    <2>5. /\ solver.settlement = IF IsSet(contract) THEN contract
                                 ELSE IF IsSet(id) THEN id ELSE "unset"
          /\ solver.executorSettlement = IF IsSet(id) THEN id
                                         ELSE IF IsSet(contract) THEN contract ELSE "unset"
          /\ solver.rpc = IF IsSet(soroban) THEN soroban
                          ELSE IF IsSet(stellar) THEN stellar ELSE "unset"
          /\ solver.executorRpc = solver.rpc
        BY <1>1 DEF ServicesInv, SolverInv, ExecutorSettlement, ExecutorRpc, ReadUnified
    <2> HIDE DEF id, contract, soroban, stellar
    <2>. QED  BY <2>1, <2>2, <2>3, <2>4, <2>5, AliasesAgree
<1>2. ServicesInv => PartiesAgree
    BY <1>1 DEF PartiesAgree, ServicesInv, SolverInv, RelayerInv, MempoolInv
<1>3. ServicesInv => EligibleIsSigner
    BY DEF EligibleIsSigner, ServicesInv, SolverInv, ExecutorConfigured
<1>. QED  BY <1>2, <1>3, ServicesInvHolds, PTL DEF OneDeployment
-----------------------------------------------------------------------------
(* The rate limits of the mempool.                                           *)

RateTypeOK ==
    /\ clock \in Nat
    /\ passed \in [Buckets -> SUBSET Requests]
    /\ hits \in [Buckets -> SUBSET Requests]
    /\ rejected \in [Buckets -> Int]
    /\ \A key \in Buckets : IsFiniteSet(passed[key])

\* The requests of a key are numbered, and none is from the future.
Numbered ==
    \A key \in Buckets : \A r \in passed[key] :
        r.nth < Cardinality(passed[key]) /\ r.at <= clock

\* What rateLimitHits forgot no longer counts.
HitsAreRecent ==
    \A key \in Buckets :
        /\ hits[key] \subseteq passed[key]
        /\ \A r \in passed[key] \ hits[key] : clock - r.at >= Window

WindowsAreLimited ==
    \A key \in Buckets : \A t \in Int :
        Cardinality(PassedIn(key, t, t + Window - 1)) <= Limit(key)

RefusalsAreEarned ==
    \A key \in Buckets :
        rejected[key] >= 0 =>
            Cardinality(PassedIn(key, rejected[key] - Window + 1, rejected[key])) >= Limit(key)

RateInv == RateTypeOK /\ Numbered /\ HitsAreRecent /\ WindowsAreLimited /\ RefusalsAreEarned

LEMMA LimitIsNat == \A key \in Buckets : Limit(key) \in Nat
BY RateLimitAssumption DEF Limit

(* Of each key, rateLimitHits counts the requests of the last window.        *)
LEMMA RecentIsWindow ==
    ASSUME RateInv, NEW key \in Buckets
    PROVE  /\ Recent(key) = PassedIn(key, clock - Window + 1, clock)
           /\ IsFiniteSet(Recent(key))
<1>1. \A r \in passed[key] : r.at \in Nat /\ r.at <= clock
    BY DEF RateInv, RateTypeOK, Requests, Numbered
<1>2. Recent(key) = PassedIn(key, clock - Window + 1, clock)
    BY <1>1, RateLimitAssumption
       DEF RateInv, RateTypeOK, HitsAreRecent, Recent, PassedIn
<1>3. IsFiniteSet(passed[key]) /\ PassedIn(key, clock - Window + 1, clock) \subseteq passed[key]
    BY DEF RateInv, RateTypeOK, PassedIn
<1>. QED  BY <1>2, <1>3, FS_Subset

LEMMA RefusalKeepsRateInv ==
    ASSUME RateInv, NEW key \in Buckets, Cardinality(Recent(key)) >= Limit(key),
           rejected' = [rejected EXCEPT ![key] = clock], UNCHANGED <<clock, hits, passed>>
    PROVE  RateInv'
<1>1. RateTypeOK' /\ Numbered' /\ HitsAreRecent' /\ WindowsAreLimited'
    BY DEF RateInv, RateTypeOK, Numbered, HitsAreRecent, WindowsAreLimited, PassedIn, Limit
<1>2. ASSUME NEW k \in Buckets, rejected'[k] >= 0
      PROVE  Cardinality(PassedIn(k, rejected'[k] - Window + 1, rejected'[k])) >= Limit(k)
    <2>1. CASE k = key
        BY <2>1, RecentIsWindow DEF RateInv, RateTypeOK
    <2>2. CASE k # key
        BY <1>2, <2>2 DEF RateInv, RateTypeOK, RefusalsAreEarned
    <2>. QED  BY <2>1, <2>2
<1>3. RefusalsAreEarned'
    BY <1>2 DEF RefusalsAreEarned, PassedIn, Limit
<1>. QED  BY <1>1, <1>3 DEF RateInv

LEMMA AddsAtMostOne ==
    ASSUME NEW S, IsFiniteSet(S), NEW e
    PROVE  /\ IsFiniteSet(S \cup {e})
           /\ Cardinality(S \cup {e}) <= Cardinality(S) + 1
           /\ Cardinality(S \cup {e}) \in Nat
<1>1. Cardinality(S) \in Nat
    BY FS_CardinalityType
<1>2. CASE e \in S
    <2>1. S \cup {e} = S
        BY <1>2
    <2>2. Cardinality(S) <= Cardinality(S) + 1
        BY <1>1
    <2>. QED  BY <1>1, <2>1, <2>2, Zenon
<1>3. CASE e \notin S
    BY <1>1, <1>3, FS_AddElement
<1>. QED  BY <1>2, <1>3

LEMMA PassKeepsRateInv ==
    ASSUME RateInv, NEW key \in Buckets, NEW request,
           request = [at |-> clock, nth |-> Cardinality(passed[key])],
           Cardinality(Recent(key)) < Limit(key),
           hits' = [hits EXCEPT ![key] = Recent(key) \cup {request}],
           passed' = [passed EXCEPT ![key] = @ \cup {request}],
           UNCHANGED <<clock, rejected>>
    PROVE  RateInv'
<1>1. /\ IsFiniteSet(passed[key]) /\ Cardinality(passed[key]) \in Nat /\ clock \in Nat
      /\ passed[key] \subseteq Requests
    BY FS_CardinalityType DEF RateInv, RateTypeOK
<1>2. request \in Requests /\ request.at = clock /\ request.nth = Cardinality(passed[key])
    BY <1>1 DEF Requests
<1>3. request \notin passed[key]
    BY <1>1, <1>2 DEF RateInv, Numbered
<1>4. /\ IsFiniteSet(passed[key] \cup {request})
      /\ Cardinality(passed[key] \cup {request}) = Cardinality(passed[key]) + 1
    BY <1>1, <1>3, FS_AddElement
<1>5. /\ passed'[key] = passed[key] \cup {request}
      /\ hits'[key] = Recent(key) \cup {request}
      /\ \A k \in Buckets \ {key} : passed'[k] = passed[k] /\ hits'[k] = hits[k]
    BY DEF RateInv, RateTypeOK
<1>6. Recent(key) \subseteq hits[key]
    BY DEF Recent
<1>7. RateTypeOK'
    <2>1. passed' \in [Buckets -> SUBSET Requests] /\ hits' \in [Buckets -> SUBSET Requests]
        BY <1>2, <1>6 DEF RateInv, RateTypeOK
    <2>2. \A k \in Buckets : IsFiniteSet(passed'[k])
        BY <1>4, <1>5 DEF RateInv, RateTypeOK
    <2>. QED  BY <2>1, <2>2 DEF RateInv, RateTypeOK
<1>8. Numbered'
    <2>1. ASSUME NEW k \in Buckets, NEW r \in passed'[k]
          PROVE  r.nth < Cardinality(passed'[k]) /\ r.at <= clock
        <3> DEFINE count == Cardinality(passed[key])
        <3>4. k = key => Cardinality(passed'[k]) = count + 1
            BY <1>4, <1>5
        <3>5. count \in Nat /\ request.nth = count /\ request.at = clock
            BY <1>1, <1>2
        <3>6. \A q \in passed[key] : q.nth < count /\ q.at <= clock /\ q.nth \in Nat
            BY <1>1 DEF RateInv, Numbered, Requests
        <3> HIDE DEF count
        <3>1. CASE k = key /\ r = request
            BY <1>1, <3>1, <3>4, <3>5
        <3>2. CASE k = key /\ r \in passed[key]
            BY <1>1, <3>2, <3>4, <3>5, <3>6
        <3>3. CASE k # key
            BY <1>5, <2>1, <3>3 DEF RateInv, Numbered
        <3>. QED  BY <1>5, <2>1, <3>1, <3>2, <3>3
    <2>. QED  BY <2>1 DEF Numbered
<1>9. HitsAreRecent'
    <2>1. ASSUME NEW r \in passed[key] \ Recent(key)
          PROVE  clock - r.at >= Window
        <3>1. r.at \in Nat
            BY <1>1 DEF Requests
        <3>. QED  BY <1>1, <3>1, RateLimitAssumption DEF RateInv, HitsAreRecent, Recent
    <2>2. Recent(key) \subseteq passed[key]
        BY <1>6 DEF RateInv, HitsAreRecent
    <2>3. ASSUME NEW k \in Buckets
          PROVE  /\ hits'[k] \subseteq passed'[k]
                 /\ \A r \in passed'[k] \ hits'[k] : clock - r.at >= Window
        BY <1>5, <2>1, <2>2 DEF RateInv, HitsAreRecent
    <2>. QED  BY <2>3 DEF HitsAreRecent
<1>10. ASSUME NEW k \in Buckets, NEW from \in Int, NEW to \in Int
       PROVE  /\ IsFiniteSet(PassedIn(k, from, to)) /\ IsFiniteSet(PassedIn(k, from, to)')
              /\ PassedIn(k, from, to) \subseteq PassedIn(k, from, to)'
              /\ k # key \/ clock \notin from .. to =>
                     PassedIn(k, from, to)' = PassedIn(k, from, to)
              /\ k = key => PassedIn(k, from, to)' \subseteq PassedIn(k, from, to) \cup {request}
    <2>1. /\ PassedIn(k, from, to) = {r \in passed[k] : r.at \in from .. to}
          /\ PassedIn(k, from, to)' = {r \in passed'[k] : r.at \in from .. to}
        BY DEF PassedIn
    <2>2. IsFiniteSet(passed[k]) /\ IsFiniteSet(passed'[k])
        BY <1>7 DEF RateInv, RateTypeOK
    <2>3. IsFiniteSet(PassedIn(k, from, to)) /\ IsFiniteSet(PassedIn(k, from, to)')
        BY <2>1, <2>2, FS_Subset
    <2>. QED  BY <1>2, <1>5, <2>1, <2>3
<1>11. WindowsAreLimited'
    <2>1. ASSUME NEW k \in Buckets, NEW t \in Int
          PROVE  Cardinality(PassedIn(k, t, t + Window - 1)') <= Limit(k)
        <3>1. Window \in Nat \ {0} /\ t + Window - 1 \in Int /\ Limit(k) \in Nat
            BY RateLimitAssumption, LimitIsNat
        <3>2. CASE k # key \/ clock \notin t .. t + Window - 1
            BY <1>10, <3>1, <3>2 DEF RateInv, WindowsAreLimited
        <3>3. CASE k = key /\ clock \in t .. t + Window - 1
            <4> DEFINE old == PassedIn(k, t, t + Window - 1)
                       new == PassedIn(k, t, t + Window - 1)'
            <4>1. IsFiniteSet(old) /\ IsFiniteSet(new) /\ new \subseteq old \cup {request}
                BY <1>10, <3>1, <3>3
            <4>2. old \subseteq Recent(key)
                <5>1. \A r \in passed[key] : r.at \in Nat /\ r.at <= clock
                    BY <1>1 DEF RateInv, Numbered, Requests
                <5>. QED  BY <1>1, <3>1, <3>3, <5>1, RecentIsWindow DEF PassedIn
            <4> HIDE DEF old, new
            <4>3. /\ Cardinality(old) \in Nat /\ Cardinality(Recent(key)) \in Nat
                  /\ Cardinality(old) <= Cardinality(Recent(key))
                BY <4>1, <4>2, RecentIsWindow, FS_Subset, FS_CardinalityType
            <4>4. /\ IsFiniteSet(old \cup {request})
                  /\ Cardinality(old \cup {request}) <= Cardinality(old) + 1
                  /\ Cardinality(old \cup {request}) \in Nat
                BY <4>1, AddsAtMostOne
            <4>5. Cardinality(new) <= Cardinality(old \cup {request}) /\ Cardinality(new) \in Nat
                BY <4>1, <4>4, FS_Subset, FS_CardinalityType
            <4>6. Cardinality(new) <= Limit(k)
                BY <3>1, <3>3, <4>3, <4>4, <4>5
            <4>. QED  BY <4>6 DEF new
        <3>. QED  BY <3>2, <3>3
    <2>. QED  BY <2>1 DEF WindowsAreLimited, Limit, PassedIn
<1>12. RefusalsAreEarned'
    <2>1. ASSUME NEW k \in Buckets, rejected[k] >= 0
          PROVE  Cardinality(PassedIn(k, rejected[k] - Window + 1, rejected[k])') >= Limit(k)
        <3> DEFINE from == rejected[k] - Window + 1
                   to == rejected[k]
        <3>1. from \in Int /\ to \in Int /\ Limit(k) \in Nat
            BY RateLimitAssumption, LimitIsNat DEF RateInv, RateTypeOK
        <3>2. Cardinality(PassedIn(k, from, to)) >= Limit(k)
            BY <2>1 DEF RateInv, RefusalsAreEarned
        <3> HIDE DEF from, to
        <3>3. PICK f \in Int : f = from
            BY <3>1
        <3>4. PICK g \in Int : g = to
            BY <3>1
        <3>5. Cardinality({r \in passed'[k] : r.at \in f .. g}) >= Limit(k)
            <4> DEFINE old == PassedIn(k, f, g)
                       new == PassedIn(k, f, g)'
            <4>1. IsFiniteSet(new) /\ old \subseteq new /\ IsFiniteSet(old)
                BY <1>10
            <4>2. new = {r \in passed'[k] : r.at \in f .. g}
                BY DEF PassedIn
            <4>3. Cardinality(old) >= Limit(k)
                BY <3>2, <3>3, <3>4
            <4> HIDE DEF old, new
            <4>4. /\ Cardinality(old) <= Cardinality(new)
                  /\ Cardinality(old) \in Nat /\ Cardinality(new) \in Nat
                BY <4>1, FS_Subset, FS_CardinalityType
            <4>. QED  BY <3>1, <4>2, <4>3, <4>4
        <3>6. rejected' = rejected
            OBVIOUS
        <3>. QED  BY <3>3, <3>4, <3>5, <3>6 DEF PassedIn, from, to
    <2>. QED  BY <2>1 DEF RefusalsAreEarned, PassedIn, Limit
<1>. QED  BY <1>7, <1>8, <1>9, <1>11, <1>12 DEF RateInv

LEMMA RateInvHolds == RateSpec => []RateInv
<1>1. RateInit => RateInv
    <2> SUFFICES ASSUME RateInit
                 PROVE  RateInv
        OBVIOUS
    <2>1. IsFiniteSet({}) /\ Cardinality({}) = 0
        BY FS_EmptySet
    <2>2. RateTypeOK /\ Numbered /\ HitsAreRecent /\ RefusalsAreEarned
        BY <2>1 DEF RateInit, RateTypeOK, Numbered, HitsAreRecent, RefusalsAreEarned
    <2>3. ASSUME NEW key \in Buckets, NEW t \in Int
          PROVE  Cardinality(PassedIn(key, t, t + Window - 1)) <= Limit(key)
        <3>1. PassedIn(key, t, t + Window - 1) = {}
            BY DEF RateInit, PassedIn
        <3>. QED  BY <2>1, <3>1, LimitIsNat
    <2>. QED  BY <2>2, <2>3 DEF RateInv, WindowsAreLimited
<1>2. RateInv /\ [RateNext]_rateVars => RateInv'
    <2> SUFFICES ASSUME RateInv, [RateNext]_rateVars
                 PROVE  RateInv'
        OBVIOUS
    <2>1. ASSUME NEW key \in Buckets, Request(key)
          PROVE  RateInv'
        <3>1. CASE Cardinality(Recent(key)) >= Limit(key)
            BY <2>1, <3>1, RefusalKeepsRateInv DEF Request
        <3>2. CASE ~(Cardinality(Recent(key)) >= Limit(key))
            <4>1. Cardinality(Recent(key)) < Limit(key)
                BY <3>2, RecentIsWindow, FS_CardinalityType, LimitIsNat
            <4>2. PICK request : request = [at |-> clock, nth |-> Cardinality(passed[key])]
                OBVIOUS
            <4>. QED  BY <2>1, <3>2, <4>1, <4>2, PassKeepsRateInv DEF Request
        <3>. QED  BY <3>1, <3>2
    <2>2. CASE RateTick
        <3>1. \A key \in Buckets : \A r \in passed[key] : r.at \in Nat
            BY DEF RateInv, RateTypeOK, Requests
        <3>2. RateTypeOK' /\ Numbered' /\ HitsAreRecent'
            BY <2>2, <3>1, RateLimitAssumption
               DEF RateTick, RateInv, RateTypeOK, Numbered, HitsAreRecent
        <3>3. WindowsAreLimited' /\ RefusalsAreEarned'
            BY <2>2 DEF RateTick, RateInv, WindowsAreLimited, RefusalsAreEarned, PassedIn, Limit
        <3>. QED  BY <3>2, <3>3 DEF RateInv
    <2>3. CASE UNCHANGED rateVars
        BY <2>3 DEF rateVars, RateInv, RateTypeOK, Numbered, HitsAreRecent,
                    WindowsAreLimited, RefusalsAreEarned, PassedIn, Limit
    <2>. QED  BY <2>1, <2>2, <2>3 DEF RateNext
<1>. QED  BY <1>1, <1>2, PTL DEF RateSpec

(* No window of the mempool, wherever it starts, has more requests of a      *)
(* client than its limit, and who is refused has used up that very budget.   *)
THEOREM RatesAreLimited == RateSpec => []RateHolds
<1>1. RateInv => RateHolds
    BY DEF RateInv, RateTypeOK, RateHolds, WindowsAreLimited, RefusalsAreEarned
<1>. QED  BY <1>1, RateInvHolds, PTL

-----------------------------------------------------------------------------
(* SettlementGovernance: a verdict goes home.                                *)

Moment == Nat \ {0}
Announcements ==
    [at : Moment, chain : Chains, peer : Peers, endpoint : Principals,
     quiet : BOOLEAN, rotated : BOOLEAN]
Answers == [at : Moment, peer : Peers, endpoint : Principals]

GovernanceTypeOK ==
    /\ governanceTime \in Moment
    /\ endpoint \in Principals
    /\ \A change \in pendingEndpoint : change.to \in Principals /\ change.since \in Moment
    /\ peer \in [Chains -> Peers \cup {NoPeer}]
    /\ DOMAIN pendingPeer = Chains
    /\ \A e \in Chains : \A change \in pendingPeer[e] :
          /\ change.to \in Peers /\ change.since \in Moment
          /\ change.delay \in Nat /\ change.delay >= MinPeerChangeDelay
    /\ announced \in [OpenIntents -> Announcements \cup {Absent}]
    /\ verdict \in [OpenIntents -> Answers \cup {Absent}]

\* A change that waits was proposed no earlier than the announcement a.
Later(a, changes) == \A change \in changes : change.since >= a.at

\* What the delay protects while an intent is under way: either the configuration is the
\* one that a met, or the delay since then is over.
HomeIsKept(a) ==
    /\ a.at <= governanceTime
    /\ a.quiet =>
          /\ Later(a, pendingPeer[a.chain]) /\ Later(a, pendingEndpoint)
          /\ \/ peer[a.chain] = a.peer
             \/ governanceTime - a.at >= MinPeerChangeDelay
          /\ \/ a.rotated \/ endpoint = a.endpoint
             \/ governanceTime - a.at >= MinPeerChangeDelay

UnderWayAreSafe == \A h \in OpenIntents : Registered(h) => HomeIsKept(announced[h])

AnsweredAreRegistered == \A h \in OpenIntents : Answered(h) => Registered(h)

GovernanceInv ==
    GovernanceTypeOK /\ UnderWayAreSafe /\ AnsweredAreRegistered /\ VerdictGoesHome

LEMMA AbsentIsNoRecord ==
    /\ \A a \in Announcements : a # Absent
    /\ \A v \in Answers : v # Absent
<1>1. \A a \in Announcements : a.at # 0
    BY DEF Announcements, Moment
<1>2. \A v \in Answers : v.at # 0
    BY DEF Answers, Moment
<1>3. Absent.at = 0
    BY DEF Absent
<1>. QED  BY <1>1, <1>2, <1>3

LEMMA GovernanceInitInv == GovernanceInit => GovernanceInv
<1> SUFFICES ASSUME GovernanceInit
             PROVE  GovernanceInv
    OBVIOUS
<1>1. GovernanceTypeOK
    BY GovernanceAssumption DEF GovernanceInit, GovernanceTypeOK, Moment
<1>2. \A h \in OpenIntents : ~Registered(h) /\ ~Answered(h)
    BY DEF GovernanceInit, Registered, Answered
<1>. QED  BY <1>1, <1>2
          DEF GovernanceInv, UnderWayAreSafe, AnsweredAreRegistered, VerdictGoesHome

\* What a step leaves alone, the invariant keeps: the intents and the configuration.
LEMMA RolesKeepInv ==
    ASSUME GovernanceInv, UNCHANGED <<governanceTime, endpoints, peers, intents>>
    PROVE  GovernanceInv'
BY DEF GovernanceInv, GovernanceTypeOK, UnderWayAreSafe, HomeIsKept, Later,
       AnsweredAreRegistered, VerdictGoesHome, Registered, Answered, endpoints, peers, intents

\* The verdicts that were given, and the announcements that they answer, stay.
LEMMA OldVerdictsStay ==
    ASSUME VerdictGoesHome, UNCHANGED intents
    PROVE  VerdictGoesHome'
BY DEF VerdictGoesHome, Answered, intents

LEMMA TickKeepsInv ==
    ASSUME GovernanceInv, GovernanceTick
    PROVE  GovernanceInv'
<1> USE DEF GovernanceInv, GovernanceTick, endpoints, peers, intents
<1>1. GovernanceTypeOK'
    BY DEF GovernanceTypeOK, Moment
<1>2. UnderWayAreSafe'
    <2> SUFFICES ASSUME NEW h \in OpenIntents, Registered(h)
                 PROVE  HomeIsKept(announced[h])'
        BY DEF UnderWayAreSafe, Registered
    <2>1. announced[h] \in Announcements /\ HomeIsKept(announced[h])
        BY DEF GovernanceTypeOK, UnderWayAreSafe, Registered
    <2>. QED  BY <2>1, GovernanceAssumption
              DEF HomeIsKept, Later, GovernanceTypeOK, Announcements, Moment
<1>3. AnsweredAreRegistered'
    BY DEF AnsweredAreRegistered, Registered, Answered
<1>. QED  BY <1>1, <1>2, <1>3, OldVerdictsStay

LEMMA SetEndpointKeepsInv ==
    ASSUME GovernanceInv, NEW p \in Principals, SetEndpoint(p)
    PROVE  GovernanceInv'
<1> USE DEF GovernanceInv, SetEndpoint, peers
<1>1. \A h \in OpenIntents :
          announced'[h] = IF Registered(h) THEN [announced[h] EXCEPT !.rotated = TRUE]
                                           ELSE announced[h]
    OBVIOUS
<1>2. ASSUME NEW h \in OpenIntents, Registered(h)
      PROVE  /\ announced[h] \in Announcements /\ announced'[h] \in Announcements
             /\ announced'[h].rotated
             /\ announced'[h].at = announced[h].at
             /\ announced'[h].chain = announced[h].chain
             /\ announced'[h].peer = announced[h].peer
             /\ announced'[h].quiet = announced[h].quiet
    <2>1. announced[h] \in Announcements
        BY <1>2 DEF GovernanceTypeOK, Registered
    <2>2. announced'[h] = [announced[h] EXCEPT !.rotated = TRUE]
        BY <1>1, <1>2
    <2>3. announced'[h].rotated
        BY <2>1, <2>2, Zenon DEF Announcements
    <2>4. announced'[h] \in Announcements
        BY <2>1, <2>2, Zenon DEF Announcements
    <2>5. /\ announced'[h].at = announced[h].at
          /\ announced'[h].chain = announced[h].chain
          /\ announced'[h].peer = announced[h].peer
          /\ announced'[h].quiet = announced[h].quiet
        BY <2>1, <2>2 DEF Announcements
    <2>. QED  BY <2>1, <2>3, <2>4, <2>5
<1>3. \A h \in OpenIntents : Registered(h)' <=> Registered(h)
    BY <1>1, <1>2, AbsentIsNoRecord DEF Registered
<1>4. GovernanceTypeOK'
    <2>1. \A h \in OpenIntents : announced'[h] \in Announcements \cup {Absent}
        BY <1>1, <1>2 DEF GovernanceTypeOK
    <2>. QED  BY <2>1 DEF GovernanceTypeOK
<1>5. UnderWayAreSafe'
    <2> SUFFICES ASSUME NEW h \in OpenIntents, Registered(h)
                 PROVE  HomeIsKept(announced[h])'
        BY <1>3 DEF UnderWayAreSafe
    <2>1. HomeIsKept(announced[h])
        BY DEF UnderWayAreSafe
    <2>. QED  BY <1>2, <2>1 DEF HomeIsKept, Later
<1>6. AnsweredAreRegistered'
    BY <1>3 DEF AnsweredAreRegistered, Answered
<1>7. VerdictGoesHome'
    <2> SUFFICES ASSUME NEW h \in OpenIntents, Answered(h)', announced'[h].quiet,
                        verdict'[h].at - announced'[h].at < MinPeerChangeDelay
                 PROVE  /\ verdict'[h].peer = announced'[h].peer
                        /\ \/ announced'[h].rotated
                           \/ verdict'[h].endpoint = announced'[h].endpoint
        BY DEF VerdictGoesHome
    <2>1. Answered(h) /\ Registered(h)
        BY DEF AnsweredAreRegistered, Answered
    <2>. QED  BY <1>2, <2>1 DEF VerdictGoesHome
<1>. QED  BY <1>4, <1>5, <1>6, <1>7

LEMMA EndpointChangeKeepsInv ==
    ASSUME GovernanceInv,
           \/ \E p \in Principals : ProposeEndpoint(p)
           \/ ConfirmEndpoint
           \/ CancelPendingEndpoint
    PROVE  GovernanceInv'
<1> USE DEF GovernanceInv, ProposeEndpoint, ConfirmEndpoint, CancelPendingEndpoint,
            peers, intents
<1>1. GovernanceTypeOK'
    BY DEF GovernanceTypeOK
<1>2. UnderWayAreSafe'
    <2> SUFFICES ASSUME NEW h \in OpenIntents, Registered(h)
                 PROVE  HomeIsKept(announced[h])'
        BY DEF UnderWayAreSafe, Registered
    <2>1. announced[h] \in Announcements /\ HomeIsKept(announced[h])
        BY DEF GovernanceTypeOK, UnderWayAreSafe, Registered
    <2>2. ASSUME NEW p \in Principals, ProposeEndpoint(p)
          PROVE  HomeIsKept(announced[h])'
        BY <2>1, <2>2 DEF HomeIsKept, Later
    <2>3. CASE ConfirmEndpoint
        \* The delay since the change was proposed is over, and it was proposed after the
        \* intent was announced.
        <3>1. PICK change \in pendingEndpoint :
                  /\ governanceTime >= change.since + MinPeerChangeDelay
                  /\ pendingEndpoint' = {}
                  /\ UNCHANGED <<governanceTime, peer, pendingPeer, announced>>
            BY <2>3, GovernanceAssumption DEF GovernanceTypeOK, Moment
        <3>2. announced[h].quiet => governanceTime - announced[h].at >= MinPeerChangeDelay
            BY <2>1, <3>1, GovernanceAssumption
            DEF HomeIsKept, Later, GovernanceTypeOK, Announcements, Moment
        <3>. QED  BY <2>1, <3>1, <3>2 DEF HomeIsKept, Later
    <2>4. CASE CancelPendingEndpoint
        BY <2>1, <2>4 DEF HomeIsKept, Later
    <2>. QED  BY <2>2, <2>3, <2>4
<1>3. AnsweredAreRegistered'
    BY DEF AnsweredAreRegistered, Registered, Answered
<1>. QED  BY <1>1, <1>2, <1>3, OldVerdictsStay

LEMMA PeerChangeKeepsInv ==
    ASSUME GovernanceInv, NEW e \in Chains,
           \/ \E p \in Peers, d \in Delays : ProposePeer(e, p, d)
           \/ ConfirmPeer(e)
           \/ CancelPendingPeer(e)
    PROVE  GovernanceInv'
<1> USE DEF GovernanceInv, ProposePeer, ConfirmPeer, CancelPendingPeer, endpoints, intents
<1>1. GovernanceTypeOK'
    <2>1. ASSUME NEW p \in Peers, NEW d \in Delays, ProposePeer(e, p, d)
          PROVE  GovernanceTypeOK'
        BY <2>1, GovernanceAssumption DEF GovernanceTypeOK, ValidDelays
    <2>2. CASE ConfirmPeer(e)
        BY <2>2 DEF GovernanceTypeOK
    <2>3. CASE CancelPendingPeer(e)
        BY <2>3 DEF GovernanceTypeOK
    <2>. QED  BY <2>1, <2>2, <2>3
<1>2. UnderWayAreSafe'
    <2> SUFFICES ASSUME NEW h \in OpenIntents, Registered(h)
                 PROVE  HomeIsKept(announced[h])'
        BY DEF UnderWayAreSafe, Registered
    <2>1. announced[h] \in Announcements /\ HomeIsKept(announced[h])
        BY DEF GovernanceTypeOK, UnderWayAreSafe, Registered
    <2>2. announced[h].chain \in Chains /\ announced[h].at \in Moment
        BY <2>1 DEF Announcements
    <2>3. ASSUME NEW p \in Peers, NEW d \in Delays, ProposePeer(e, p, d)
          PROVE  HomeIsKept(announced[h])'
        BY <2>1, <2>2, <2>3 DEF HomeIsKept, Later, GovernanceTypeOK
    <2>4. CASE ConfirmPeer(e)
        <3>0. PICK change \in pendingPeer[e] :
                  /\ governanceTime \in change.since + change.delay
                         .. change.since + change.delay + PeerChangeGrace
                  /\ peer' = [peer EXCEPT ![e] = change.to]
                  /\ pendingPeer' = [pendingPeer EXCEPT ![e] = {}]
                  /\ UNCHANGED <<governanceTime, endpoint, pendingEndpoint, announced>>
            BY <2>4
        <3>1. governanceTime >= change.since + change.delay
            BY <3>0, GovernanceAssumption DEF GovernanceTypeOK, Moment
        <3>2. CASE announced[h].chain = e
            <4>1. announced[h].quiet
                      => governanceTime - announced[h].at >= MinPeerChangeDelay
                BY <2>1, <2>2, <3>0, <3>1, <3>2, GovernanceAssumption
                DEF HomeIsKept, Later, GovernanceTypeOK, Moment
            <4>. QED  BY <2>1, <3>0, <3>2, <4>1 DEF HomeIsKept, Later, GovernanceTypeOK
        <3>3. CASE announced[h].chain # e
            BY <2>1, <2>2, <3>0, <3>3 DEF HomeIsKept, Later, GovernanceTypeOK
        <3>. QED  BY <3>2, <3>3
    <2>5. CASE CancelPendingPeer(e)
        BY <2>1, <2>2, <2>5 DEF HomeIsKept, Later, GovernanceTypeOK
    <2>. QED  BY <2>3, <2>4, <2>5
<1>3. AnsweredAreRegistered'
    BY DEF AnsweredAreRegistered, Registered, Answered
<1>. QED  BY <1>1, <1>2, <1>3, OldVerdictsStay

LEMMA RegisterKeepsInv ==
    ASSUME GovernanceInv, NEW h \in OpenIntents, NEW e \in Chains, RegisterFrom(h, e)
    PROVE  GovernanceInv'
<1> USE DEF GovernanceInv, RegisterFrom, endpoints, peers
<1> DEFINE a == [at |-> governanceTime, chain |-> e, peer |-> peer[e], endpoint |-> endpoint,
                 quiet |-> pendingPeer[e] = {} /\ pendingEndpoint = {}, rotated |-> FALSE]
<1>1. announced' = [announced EXCEPT ![h] = a]
    OBVIOUS
<1>2. a \in Announcements
    <2>1. (pendingPeer[e] = {} /\ pendingEndpoint = {}) \in BOOLEAN
        OBVIOUS
    <2>2. peer[e] \in Peers
        BY DEF GovernanceTypeOK
    <2>. QED  BY <2>1, <2>2, Zenon DEF GovernanceTypeOK, Announcements
<1>3. /\ a.at = governanceTime /\ a.chain = e /\ a.peer = peer[e] /\ a.endpoint = endpoint
      /\ a.quiet => pendingPeer[e] = {} /\ pendingEndpoint = {}
    <2>1. a.quiet => pendingPeer[e] = {} /\ pendingEndpoint = {}
        BY Zenon
    <2>. QED  BY <2>1
<1> HIDE DEF a
<1>4. GovernanceTypeOK'
    BY <1>1, <1>2 DEF GovernanceTypeOK
<1>5. HomeIsKept(announced[h])'
    <2>1. announced'[h] = a
        BY <1>1 DEF GovernanceTypeOK
    <2>. QED  BY <1>3, <2>1, GovernanceAssumption
              DEF HomeIsKept, Later, GovernanceTypeOK, Moment
<1>6. UnderWayAreSafe'
    <2> SUFFICES ASSUME NEW i \in OpenIntents, Registered(i)'
                 PROVE  HomeIsKept(announced[i])'
        BY DEF UnderWayAreSafe
    <2>1. CASE i = h
        BY <1>5, <2>1
    <2>2. CASE i # h
        BY <1>1, <2>2 DEF UnderWayAreSafe, Registered, HomeIsKept, Later, GovernanceTypeOK
    <2>. QED  BY <2>1, <2>2
<1>7. ~Answered(h)
    BY DEF AnsweredAreRegistered
<1>8. AnsweredAreRegistered'
    BY <1>1, <1>7 DEF AnsweredAreRegistered, Registered, Answered, GovernanceTypeOK
<1>9. VerdictGoesHome'
    BY <1>1, <1>7 DEF VerdictGoesHome, Answered, GovernanceTypeOK
<1>. QED  BY <1>4, <1>6, <1>8, <1>9

LEMMA DispatchKeepsInv ==
    ASSUME GovernanceInv, NEW h \in OpenIntents, Dispatch(h)
    PROVE  GovernanceInv'
<1> USE DEF GovernanceInv, Dispatch, endpoints, peers
<1> DEFINE a == announced[h]
           v == [at |-> governanceTime, peer |-> peer[a.chain], endpoint |-> endpoint]
<1>1. a \in Announcements /\ HomeIsKept(a)
    BY DEF GovernanceTypeOK, UnderWayAreSafe, Registered
<1>2. v \in Answers
    BY <1>1 DEF GovernanceTypeOK, Announcements, Answers
<1>3. verdict' = [verdict EXCEPT ![h] = v]
    OBVIOUS
<1>4. GovernanceTypeOK'
    BY <1>2, <1>3 DEF GovernanceTypeOK
<1>5. UnderWayAreSafe'
    BY DEF UnderWayAreSafe, Registered, HomeIsKept, Later
<1>6. AnsweredAreRegistered'
    BY <1>3 DEF AnsweredAreRegistered, Registered, Answered, GovernanceTypeOK
<1>7. VerdictGoesHome'
    <2> SUFFICES ASSUME NEW i \in OpenIntents, Answered(i)', announced'[i].quiet,
                        verdict'[i].at - announced'[i].at < MinPeerChangeDelay
                 PROVE  /\ verdict'[i].peer = announced'[i].peer
                        /\ \/ announced'[i].rotated
                           \/ verdict'[i].endpoint = announced'[i].endpoint
        BY DEF VerdictGoesHome
    <2>1. CASE i = h
        <3>1. verdict'[h] = v /\ announced'[h] = a
            BY <1>3 DEF GovernanceTypeOK
        <3>2. a.at \in Moment /\ governanceTime \in Moment
            BY <1>1 DEF Announcements, GovernanceTypeOK
        <3>3. ~(governanceTime - a.at >= MinPeerChangeDelay) /\ a.quiet
            BY <2>1, <3>1, <3>2, GovernanceAssumption DEF Moment
        <3>. QED  BY <1>1, <2>1, <3>1, <3>3 DEF HomeIsKept
    <2>2. CASE i # h
        BY <1>3, <2>2 DEF VerdictGoesHome, Answered, GovernanceTypeOK
    <2>. QED  BY <2>1, <2>2
<1>. QED  BY <1>4, <1>5, <1>6, <1>7

(* The verdict of an intent that was registered while no change was pending, *)
(* and is given within the delay, goes back the way the intent came: between *)
(* the two no peer and no endpoint is confirmed, because a change has to be  *)
(* proposed after the first and to wait for the delay; set_endpoint is the   *)
(* exception.                                                                *)
THEOREM VerdictsGoHome == GovernanceSpec => []VerdictGoesHome
<1>1. GovernanceInv /\ [GovernanceNext]_governanceVars => GovernanceInv'
    <2> SUFFICES ASSUME GovernanceInv, [GovernanceNext]_governanceVars
                 PROVE  GovernanceInv'
        OBVIOUS
    <2>1. CASE GovernanceTick
        BY <2>1, TickKeepsInv
    <2>2. ASSUME NEW a \in Principals,
                 SetAdmin(a) \/ AcceptAdmin(a) \/ SetEndpoint(a) \/ ProposeEndpoint(a)
          PROVE  GovernanceInv'
        BY <2>2, RolesKeepInv, SetEndpointKeepsInv, EndpointChangeKeepsInv
        DEF SetAdmin, AcceptAdmin
    <2>3. CASE ConfirmEndpoint \/ CancelPendingEndpoint
        BY <2>3, EndpointChangeKeepsInv
    <2>4. ASSUME NEW e \in Chains,
                 \/ \E p \in Peers, d \in Delays : ProposePeer(e, p, d)
                 \/ ConfirmPeer(e) \/ CancelPendingPeer(e)
          PROVE  GovernanceInv'
        BY <2>4, PeerChangeKeepsInv
    <2>5. ASSUME NEW h \in OpenIntents, Dispatch(h) \/ \E e \in Chains : RegisterFrom(h, e)
          PROVE  GovernanceInv'
        BY <2>5, DispatchKeepsInv, RegisterKeepsInv
    <2>6. CASE UNCHANGED governanceVars
        BY <2>6, RolesKeepInv DEF governanceVars
    <2>. QED  BY <2>1, <2>2, <2>3, <2>4, <2>5, <2>6 DEF GovernanceNext
<1>2. GovernanceInv => VerdictGoesHome
    BY DEF GovernanceInv
<1>. QED  BY <1>1, <1>2, GovernanceInitInv, PTL DEF GovernanceSpec
-----------------------------------------------------------------------------
(* Timelock: every vote that is counted was cast by an owner, for the        *)
(* proposal that stands or before the owner was removed.                     *)

OperationRecords ==
    [confirmations : Nat, readyAt : Nat, executed : BOOLEAN, exists : BOOLEAN]

TimelockTypeOK ==
    /\ timelockTime \in Nat /\ delay \in Nat
    /\ owners \subseteq Accounts /\ dismissed \subseteq Accounts
    /\ operations \in [Operations -> OperationRecords]
    /\ confirmedBy \in [Operations -> SUBSET Accounts]
    /\ cancelConfirmedBy \in [Operations -> SUBSET Accounts]
    /\ backing \in [Operations -> SUBSET Accounts]
    /\ opposing \in [Operations -> SUBSET Accounts]
    /\ cancelConfirmations \in [Operations -> Nat]
    /\ proposedAt \in [Operations -> Nat]

\* The flags of an operation are those of the votes on its present proposal and of
\* former owners.
FlagsOf(votesCast, flags) ==
    /\ votesCast \subseteq flags
    /\ flags \subseteq owners \cup dismissed
    /\ flags \ votesCast \subseteq dismissed

FlagsAreVotes ==
    \A id \in Operations :
        /\ FlagsOf(backing[id], confirmedBy[id])
        /\ FlagsOf(opposing[id], cancelConfirmedBy[id])

\* An operation that does not exist has no votes and no counters.
UnknownIsClean ==
    \A id \in Operations : ~operations[id].exists =>
        /\ operations[id].confirmations = 0 /\ operations[id].readyAt = 0
        /\ ~operations[id].executed
        /\ cancelConfirmations[id] = 0
        /\ backing[id] = {} /\ opposing[id] = {}

\* The counters count the votes; that of the confirmations, as long as no owner has come
\* back.
CountersCount ==
    \A id \in Operations : Pending(id) =>
        /\ cancelConfirmations[id] = Cardinality(opposing[id])
        /\ returned = {} => operations[id].confirmations = Cardinality(backing[id])

\* An operation that can be executed waits for the delay since it was proposed.
DelayIsServed ==
    \A id \in Operations :
        /\ proposedAt[id] <= timelockTime
        /\ operations[id].readyAt # 0 =>
               operations[id].readyAt >= proposedAt[id] + MinDelay

ConfigIsSound ==
    /\ threshold \in 1 .. Cardinality(owners)
    /\ delay \in MinDelay .. MaxDelay
    /\ owners \cap dismissed \subseteq returned

TimelockInv ==
    /\ TimelockTypeOK /\ FlagsAreVotes /\ UnknownIsClean /\ CountersCount
    /\ DelayIsServed /\ ConfigIsSound

\* Sets of accounts are finite, so their sizes are numbers.
LEMMA AccountSetsCount ==
    ASSUME NEW A \in SUBSET Accounts
    PROVE  /\ IsFiniteSet(A) /\ Cardinality(A) \in Nat
           /\ A = {} <=> Cardinality(A) = 0
           /\ \A o \in Accounts :
                 /\ o \notin A => Cardinality(A \cup {o}) = Cardinality(A) + 1
                 /\ o \in A => Cardinality(A \ {o}) = Cardinality(A) - 1
           /\ \A B \in SUBSET A : Cardinality(B) <= Cardinality(A)
BY TimelockAssumption, FS_Subset, FS_CardinalityType, FS_EmptySet, FS_AddElement,
   FS_RemoveElement

LEMMA TimelockInitInv == TimelockInit => TimelockInv
<1> SUFFICES ASSUME TimelockInit
             PROVE  TimelockInv
    OBVIOUS
<1> USE TimelockAssumption DEF TimelockInit
<1>1. Unknown \in OperationRecords
    BY DEF Unknown, OperationRecords
<1>2. \A id \in Operations :
          ~operations[id].exists /\ ~operations[id].executed
          /\ operations[id].confirmations = 0 /\ operations[id].readyAt = 0
    BY DEF Unknown
<1>3. TimelockTypeOK
    BY <1>1 DEF TimelockTypeOK
<1>4. FlagsAreVotes
    BY DEF FlagsAreVotes, FlagsOf
<1>5. UnknownIsClean /\ CountersCount
    BY <1>2 DEF UnknownIsClean, CountersCount, Pending
<1>6. DelayIsServed
    BY <1>2 DEF DelayIsServed
<1>7. ConfigIsSound
    BY DEF ConfigIsSound
<1>. QED  BY <1>3, <1>4, <1>5, <1>6, <1>7 DEF TimelockInv

\* The properties follow from the invariant: flags that are no votes belong to accounts
\* that were removed, so as long as none of them came back the owners who did not vote
\* against an operation have not flagged it either.
LEMMA InvKeepsUsable == TimelockInv => TimelockStaysUsable
<1> SUFFICES ASSUME TimelockInv, NEW id \in Operations, Pending(id), returned = {}
             PROVE  cancelConfirmations[id] + Cardinality(owners \ cancelConfirmedBy[id])
                        >= threshold
    BY DEF TimelockInv, ConfigIsSound, CountersCount, TimelockStaysUsable
<1> DEFINE voted == opposing[id]
           kept == owners \ cancelConfirmedBy[id]
<1>1. owners \in SUBSET Accounts /\ voted \in SUBSET Accounts /\ kept \in SUBSET Accounts
    BY DEF TimelockInv, TimelockTypeOK
<1>2. owners \subseteq voted \cup kept
    BY DEF TimelockInv, FlagsAreVotes, FlagsOf, ConfigIsSound
<1>3. Cardinality(voted \cup kept) <= Cardinality(voted) + Cardinality(kept)
    <2>1. IsFiniteSet(voted) /\ IsFiniteSet(kept)
        BY <1>1, AccountSetsCount
    <2>2. Cardinality(voted \cap kept) \in Nat
        BY <1>1, AccountSetsCount
    <2>3. Cardinality(voted \cup kept)
              = Cardinality(voted) + Cardinality(kept) - Cardinality(voted \cap kept)
        BY <2>1, FS_Union
    <2>. QED  BY <1>1, <2>2, <2>3, AccountSetsCount
<1>4. Cardinality(owners) <= Cardinality(voted \cup kept)
    BY <1>1, <1>2, AccountSetsCount
<1>5. /\ Cardinality(owners) \in Nat /\ Cardinality(voted) \in Nat
      /\ Cardinality(kept) \in Nat /\ Cardinality(voted \cup kept) \in Nat
    BY <1>1, AccountSetsCount
<1>6. threshold \in 1 .. Cardinality(owners) /\ cancelConfirmations[id] = Cardinality(voted)
    BY DEF TimelockInv, ConfigIsSound, CountersCount
<1>. QED  BY <1>3, <1>4, <1>5, <1>6
\* What a confirmation does to the operations.
LEMMA ConfirmationCounted ==
    ASSUME TimelockInv, NEW id \in Operations, NEW o \in Accounts, AddConfirmation(id, o)
    PROVE  LET old == operations[id]
               new == operations'[id]
           IN /\ operations' \in [Operations -> OperationRecords]
              /\ new.exists
              /\ new.executed = old.executed
              /\ new.confirmations = old.confirmations + 1
              /\ \/ new.readyAt = old.readyAt
                 \/ old.readyAt = 0 /\ new.readyAt = timelockTime + delay
              /\ \A i \in Operations \ {id} : operations'[i] = operations[i]
              /\ confirmedBy' \in [Operations -> SUBSET Accounts]
              /\ confirmedBy'[id] = confirmedBy[id] \cup {o}
              /\ \A i \in Operations \ {id} : confirmedBy'[i] = confirmedBy[i]
<1> DEFINE old == operations[id]
           ready == IF ClockStarts(id) THEN timelockTime + delay ELSE old.readyAt
           new == [old EXCEPT !.exists = TRUE, !.confirmations = old.confirmations + 1,
                              !.readyAt = ready]
<1>1. /\ operations \in [Operations -> OperationRecords] /\ old \in OperationRecords
      /\ confirmedBy \in [Operations -> SUBSET Accounts]
      /\ timelockTime \in Nat /\ delay \in Nat
    BY DEF TimelockInv, TimelockTypeOK
<1>2. operations' = [operations EXCEPT ![id] = new]
    BY <1>1 DEF AddConfirmation
<1>3. /\ ready \in Nat
      /\ \/ ready = old.readyAt
         \/ old.readyAt = 0 /\ ready = timelockTime + delay
    BY <1>1 DEF ClockStarts, OperationRecords
<1>4. old.confirmations + 1 \in Nat
    BY <1>1 DEF OperationRecords
<1> HIDE DEF ready
<1>5. new \in OperationRecords
    BY <1>1, <1>3, <1>4, Zenon DEF OperationRecords
<1>6. new.exists
    BY <1>1, Zenon DEF OperationRecords
<1>7. /\ new.executed = old.executed /\ new.readyAt = ready
      /\ new.confirmations = old.confirmations + 1
    BY <1>1 DEF OperationRecords
<1> HIDE DEF new
<1>8. operations'[id] = new /\ \A i \in Operations \ {id} : operations'[i] = operations[i]
    BY <1>1, <1>2
<1>9. operations' \in [Operations -> OperationRecords]
    BY <1>1, <1>2, <1>5
<1>. QED  BY <1>1, <1>3, <1>6, <1>7, <1>8, <1>9 DEF AddConfirmation

LEMMA ProposeKeepsInv ==
    ASSUME TimelockInv, NEW id \in Operations, NEW o \in Accounts, Propose(id, o)
    PROVE  TimelockInv'
<1> USE DEF Propose, config
<1>1. AddConfirmation(id, o)
    OBVIOUS
<1>2. /\ operations[id].confirmations = 0 /\ operations[id].readyAt = 0
      /\ ~operations[id].executed /\ cancelConfirmations[id] = 0
      /\ backing[id] = {} /\ opposing[id] = {}
    BY DEF TimelockInv, UnknownIsClean
<1>3. TimelockTypeOK'
    BY <1>1, ConfirmationCounted DEF TimelockInv, TimelockTypeOK, tenure
<1>4. FlagsAreVotes'
    BY <1>1, <1>2, ConfirmationCounted
    DEF TimelockInv, TimelockTypeOK, FlagsAreVotes, FlagsOf, tenure
<1>5. UnknownIsClean'
    BY <1>1, ConfirmationCounted DEF TimelockInv, TimelockTypeOK, UnknownIsClean
<1>6. CountersCount'
    <2> SUFFICES ASSUME NEW i \in Operations, Pending(i)'
                 PROVE  /\ cancelConfirmations'[i] = Cardinality(opposing'[i])
                        /\ returned' = {} =>
                              operations'[i].confirmations = Cardinality(backing'[i])
        BY DEF CountersCount
    <2>1. CASE i = id
        <3>1. backing'[id] = {o} /\ opposing'[id] = {} /\ cancelConfirmations'[id] = 0
            BY <1>2 DEF TimelockInv, TimelockTypeOK
        <3>2. operations'[id].confirmations = 1
            BY <1>1, <1>2, ConfirmationCounted
        <3>. QED  BY <2>1, <3>1, <3>2, FS_EmptySet, FS_Singleton
    <2>2. CASE i # id
        BY <1>1, <2>2, ConfirmationCounted
        DEF TimelockInv, TimelockTypeOK, CountersCount, Pending, tenure
    <2>. QED  BY <2>1, <2>2
<1>7. DelayIsServed'
    BY <1>1, <1>2, ConfirmationCounted, TimelockAssumption
    DEF TimelockInv, TimelockTypeOK, DelayIsServed, ConfigIsSound
<1>8. ConfigIsSound'
    BY DEF TimelockInv, ConfigIsSound, tenure
<1>. QED  BY <1>3, <1>4, <1>5, <1>6, <1>7, <1>8 DEF TimelockInv

LEMMA ConfirmKeepsInv ==
    ASSUME TimelockInv, NEW id \in Operations, NEW o \in Accounts, Confirm(id, o)
    PROVE  TimelockInv'
<1> USE DEF Confirm, config
<1>1. AddConfirmation(id, o)
    OBVIOUS
<1>2. operations[id].exists /\ ~operations[id].executed
    BY DEF Pending
<1>3. TimelockTypeOK'
    BY <1>1, ConfirmationCounted DEF TimelockInv, TimelockTypeOK, tenure
<1>4. FlagsAreVotes'
    BY <1>1, ConfirmationCounted
    DEF TimelockInv, TimelockTypeOK, FlagsAreVotes, FlagsOf, tenure
<1>5. UnknownIsClean'
    BY <1>1, ConfirmationCounted DEF TimelockInv, TimelockTypeOK, UnknownIsClean
<1>6. CountersCount'
    <2> SUFFICES ASSUME NEW i \in Operations, Pending(i)'
                 PROVE  /\ cancelConfirmations'[i] = Cardinality(opposing'[i])
                        /\ returned' = {} =>
                              operations'[i].confirmations = Cardinality(backing'[i])
        BY DEF CountersCount
    <2>1. CASE i = id
        <3>1. o \notin backing[id]
            BY <1>1 DEF AddConfirmation, TimelockInv, FlagsAreVotes, FlagsOf
        <3>2. backing[id] \in SUBSET Accounts /\ backing'[id] = backing[id] \cup {o}
            BY DEF TimelockInv, TimelockTypeOK
        <3>3. Cardinality(backing'[id]) = Cardinality(backing[id]) + 1
            BY <3>1, <3>2, AccountSetsCount
        <3>. QED  BY <1>1, <1>2, <2>1, <3>3, ConfirmationCounted
                  DEF TimelockInv, CountersCount, Pending, tenure
    <2>2. CASE i # id
        BY <1>1, <2>2, ConfirmationCounted
        DEF TimelockInv, TimelockTypeOK, CountersCount, Pending, tenure
    <2>. QED  BY <2>1, <2>2
<1>7. DelayIsServed'
    BY <1>1, <1>2, ConfirmationCounted, TimelockAssumption
    DEF TimelockInv, TimelockTypeOK, DelayIsServed, ConfigIsSound
<1>8. ConfigIsSound'
    BY DEF TimelockInv, ConfigIsSound, tenure
<1>. QED  BY <1>3, <1>4, <1>5, <1>6, <1>7, <1>8 DEF TimelockInv
LEMMA RevokeKeepsInv ==
    ASSUME TimelockInv, NEW id \in Operations, NEW o \in Accounts, RevokeConfirmation(id, o)
    PROVE  TimelockInv'
<1> USE DEF RevokeConfirmation, config
<1> DEFINE new == [operations[id] EXCEPT !.confirmations = operations[id].confirmations - 1]
<1>1. operations[id] \in OperationRecords /\ operations[id].exists /\ ~operations[id].executed
    BY DEF TimelockInv, TimelockTypeOK, Pending
<1>2. /\ new \in OperationRecords
      /\ new.confirmations = operations[id].confirmations - 1
      /\ new.readyAt = operations[id].readyAt
      /\ new.exists = operations[id].exists /\ new.executed = operations[id].executed
    <2>1. operations[id].confirmations - 1 \in Nat
        BY <1>1 DEF OperationRecords
    <2>2. new \in OperationRecords
        BY <1>1, <2>1, Zenon DEF OperationRecords
    <2>. QED  BY <1>1, <2>2 DEF OperationRecords
<1>3. operations' = [operations EXCEPT ![id] = new]
    BY DEF TimelockInv, TimelockTypeOK
<1> HIDE DEF new
<1>4. /\ operations'[id] = new
      /\ \A i \in Operations \ {id} : operations'[i] = operations[i]
      /\ operations' \in [Operations -> OperationRecords]
    BY <1>2, <1>3 DEF TimelockInv, TimelockTypeOK
<1>5. TimelockTypeOK'
    BY <1>4 DEF TimelockInv, TimelockTypeOK, tenure
<1>6. FlagsAreVotes'
    BY DEF TimelockInv, TimelockTypeOK, FlagsAreVotes, FlagsOf, tenure
<1>7. UnknownIsClean'
    BY <1>1, <1>2, <1>4 DEF TimelockInv, TimelockTypeOK, UnknownIsClean
<1>8. CountersCount'
    <2> SUFFICES ASSUME NEW i \in Operations, Pending(i)'
                 PROVE  /\ cancelConfirmations'[i] = Cardinality(opposing'[i])
                        /\ returned' = {} =>
                              operations'[i].confirmations = Cardinality(backing'[i])
        BY DEF CountersCount
    <2>1. CASE i = id
        <3>1. ASSUME returned = {}
              PROVE  operations'[id].confirmations = Cardinality(backing'[id])
            \* Nobody came back, so the flag that is withdrawn is a vote.
            <4>1. o \in backing[id]
                BY <3>1 DEF TimelockInv, FlagsAreVotes, FlagsOf, ConfigIsSound
            <4>2. backing[id] \in SUBSET Accounts /\ backing'[id] = backing[id] \ {o}
                BY DEF TimelockInv, TimelockTypeOK
            <4>3. Cardinality(backing'[id]) = Cardinality(backing[id]) - 1
                BY <4>1, <4>2, AccountSetsCount
            <4>. QED  BY <1>2, <1>4, <3>1, <4>3 DEF TimelockInv, CountersCount
        <3>. QED  BY <2>1, <3>1 DEF TimelockInv, CountersCount, tenure
    <2>2. CASE i # id
        BY <1>4, <2>2 DEF TimelockInv, TimelockTypeOK, CountersCount, Pending, tenure
    <2>. QED  BY <2>1, <2>2
<1>9. DelayIsServed'
    BY <1>2, <1>4 DEF TimelockInv, TimelockTypeOK, DelayIsServed
<1>10. ConfigIsSound'
    BY DEF TimelockInv, ConfigIsSound, tenure
<1>. QED  BY <1>5, <1>6, <1>7, <1>8, <1>9, <1>10 DEF TimelockInv

LEMMA CancelKeepsInv ==
    ASSUME TimelockInv, NEW id \in Operations, NEW o \in Accounts, Cancel(id, o)
    PROVE  TimelockInv'
<1> DEFINE against == cancelConfirmedBy[id] \cup {o}
           count == cancelConfirmations[id] + 1
<1>1. /\ o \in owners /\ Pending(id) /\ o \notin cancelConfirmedBy[id]
      /\ UNCHANGED <<timelockTime, config, proposedAt, tenure>>
    BY DEF Cancel
<1>2. /\ opposing[id] \in SUBSET Accounts /\ count \in Nat /\ against \in SUBSET Accounts
    BY DEF TimelockInv, TimelockTypeOK
<1>3. ConfigIsSound'
    BY <1>1 DEF TimelockInv, ConfigIsSound, tenure, config
<1>4. CASE /\ cancelConfirmedBy' = [cancelConfirmedBy EXCEPT ![id] = against]
           /\ cancelConfirmations' = [cancelConfirmations EXCEPT ![id] = count]
           /\ opposing' = [opposing EXCEPT ![id] = @ \cup {o}]
           /\ UNCHANGED <<operations, confirmedBy, backing>>
    <2>1. TimelockTypeOK'
        BY <1>1, <1>2, <1>4 DEF TimelockInv, TimelockTypeOK, tenure, config
    <2>2. FlagsAreVotes'
        BY <1>1, <1>4 DEF TimelockInv, TimelockTypeOK, FlagsAreVotes, FlagsOf, tenure, config
    <2>3. UnknownIsClean'
        BY <1>1, <1>4 DEF TimelockInv, TimelockTypeOK, UnknownIsClean, Pending
    <2>4. CountersCount'
        <3>1. o \notin opposing[id]
            BY <1>1 DEF TimelockInv, FlagsAreVotes, FlagsOf
        <3>2. Cardinality(opposing[id] \cup {o}) = Cardinality(opposing[id]) + 1
            BY <1>2, <3>1, AccountSetsCount
        <3>. QED  BY <1>1, <1>4, <3>2
                  DEF TimelockInv, TimelockTypeOK, CountersCount, Pending, tenure
    <2>5. DelayIsServed'
        BY <1>1, <1>4 DEF TimelockInv, DelayIsServed
    <2>. QED  BY <1>3, <2>1, <2>2, <2>3, <2>4, <2>5 DEF TimelockInv
<1>5. CASE /\ cancelConfirmedBy' = [cancelConfirmedBy EXCEPT ![id] = against \ owners]
           /\ cancelConfirmations' = [cancelConfirmations EXCEPT ![id] = 0]
           /\ confirmedBy' = [confirmedBy EXCEPT ![id] = @ \ owners]
           /\ operations' = OperationDeleted(id)
           /\ backing' = [backing EXCEPT ![id] = {}]
           /\ opposing' = [opposing EXCEPT ![id] = {}]
    <2>1. /\ Unknown \in OperationRecords
          /\ Unknown.confirmations = 0 /\ Unknown.readyAt = 0
          /\ ~Unknown.exists /\ ~Unknown.executed
        BY DEF Unknown, OperationRecords
    <2>2. /\ operations'[id] = Unknown
          /\ \A i \in Operations \ {id} : operations'[i] = operations[i]
          /\ operations' \in [Operations -> OperationRecords]
        BY <1>5, <2>1 DEF TimelockInv, TimelockTypeOK, OperationDeleted
    <2>3. TimelockTypeOK'
        BY <1>1, <1>2, <1>5, <2>2 DEF TimelockInv, TimelockTypeOK, tenure, config
    <2>4. FlagsAreVotes'
        BY <1>1, <1>5 DEF TimelockInv, TimelockTypeOK, FlagsAreVotes, FlagsOf, tenure, config
    <2>5. UnknownIsClean'
        BY <1>5, <2>1, <2>2 DEF TimelockInv, TimelockTypeOK, UnknownIsClean
    <2>6. CountersCount'
        BY <1>1, <1>5, <2>1, <2>2
        DEF TimelockInv, TimelockTypeOK, CountersCount, Pending, tenure
    <2>7. DelayIsServed'
        BY <1>1, <2>1, <2>2 DEF TimelockInv, DelayIsServed
    <2>. QED  BY <1>3, <2>3, <2>4, <2>5, <2>6, <2>7 DEF TimelockInv
<1>. QED  BY <1>4, <1>5, Zenon DEF Cancel

LEMMA PerformKeepsConfig ==
    ASSUME TimelockInv, NEW call \in Calls, Perform(call)
    PROVE  /\ ConfigIsSound'
           /\ owners' \subseteq Accounts /\ dismissed' \subseteq Accounts /\ delay' \in Nat
           /\ owners \cup dismissed \subseteq owners' \cup dismissed'
           /\ dismissed \subseteq dismissed'
           /\ returned \subseteq returned'
<1> USE TimelockAssumption DEF TimelockInv, TimelockTypeOK, ConfigIsSound
<1>1. CASE call.fn = "addOwner" /\ AddOwner(call.owner)
    <2>1. call.owner \in Accounts
        BY <1>1 DEF Calls
    <2>2. Cardinality(owners') = Cardinality(owners) + 1 /\ Cardinality(owners) \in Nat
        BY <1>1, <2>1, AccountSetsCount DEF AddOwner
    <2>. QED  BY <1>1, <2>1, <2>2 DEF AddOwner
<1>2. CASE call.fn = "removeOwner" /\ RemoveOwner(call.owner)
    <2>1. call.owner \in Accounts
        BY <1>2 DEF Calls
    <2>2. Cardinality(owners') = Cardinality(owners) - 1 /\ Cardinality(owners) \in Nat
        BY <1>2, <2>1, AccountSetsCount DEF RemoveOwner
    <2>. QED  BY <1>2, <2>1, <2>2 DEF RemoveOwner
<1>3. CASE call.fn = "setThreshold" /\ SetThreshold(call.value)
    BY <1>3 DEF SetThreshold, tenure
<1>4. CASE call.fn = "setDelay" /\ SetDelay(call.value)
    BY <1>4 DEF SetDelay, tenure
<1>5. CASE call.fn = "escrow" /\ UNCHANGED <<config, tenure>>
    BY <1>5 DEF config, tenure
<1>. QED  BY <1>1, <1>2, <1>3, <1>4, <1>5 DEF Perform

LEMMA ExecuteKeepsInv ==
    ASSUME TimelockInv, NEW id \in Operations, NEW o \in Accounts, Execute(id, o)
    PROVE  TimelockInv'
<1> DEFINE new == [operations[id] EXCEPT !.executed = TRUE]
<1>1. /\ operations[id] \in OperationRecords /\ operations[id].exists
      /\ operations' = [operations EXCEPT ![id] = new]
      /\ UNCHANGED <<timelockTime, votes, backing, opposing, proposedAt>>
    BY DEF Execute, Pending, TimelockInv, TimelockTypeOK
<1>2. Call[id] \in Calls /\ Perform(Call[id])
    BY TimelockAssumption DEF Execute
<1>3. /\ new \in OperationRecords /\ new.executed
      /\ new.readyAt = operations[id].readyAt /\ new.exists = operations[id].exists
    <2>1. new \in OperationRecords /\ new.executed
        BY <1>1, Zenon DEF OperationRecords
    <2>. QED  BY <1>1, <2>1 DEF OperationRecords
<1> HIDE DEF new
<1>4. /\ operations'[id] = new
      /\ \A i \in Operations \ {id} : operations'[i] = operations[i]
      /\ operations' \in [Operations -> OperationRecords]
    BY <1>1, <1>3 DEF TimelockInv, TimelockTypeOK
<1>5. TimelockTypeOK'
    BY <1>1, <1>2, <1>4, PerformKeepsConfig DEF TimelockInv, TimelockTypeOK, votes
<1>6. FlagsAreVotes'
    BY <1>1, <1>2, PerformKeepsConfig DEF TimelockInv, FlagsAreVotes, FlagsOf, votes
<1>7. UnknownIsClean'
    BY <1>1, <1>3, <1>4 DEF TimelockInv, UnknownIsClean, votes
<1>8. CountersCount'
    BY <1>1, <1>2, <1>3, <1>4, PerformKeepsConfig DEF TimelockInv, CountersCount, Pending, votes
<1>9. DelayIsServed'
    BY <1>1, <1>3, <1>4 DEF TimelockInv, DelayIsServed
<1>. QED  BY <1>2, <1>5, <1>6, <1>7, <1>8, <1>9, PerformKeepsConfig DEF TimelockInv
LEMMA TimelockStepKeepsInv ==
    ASSUME TimelockInv, [TimelockNext]_timelockVars
    PROVE  TimelockInv'
<1>1. CASE TimelockTick
    BY <1>1
    DEF TimelockTick, TimelockInv, TimelockTypeOK, FlagsAreVotes, FlagsOf, UnknownIsClean,
        CountersCount, Pending, DelayIsServed, ConfigIsSound, config, votes, told, tenure
<1>2. ASSUME NEW id \in Operations, NEW o \in Accounts,
             \/ Propose(id, o) \/ Confirm(id, o) \/ RevokeConfirmation(id, o)
             \/ Cancel(id, o) \/ Execute(id, o)
      PROVE  TimelockInv'
    BY <1>2, ProposeKeepsInv, ConfirmKeepsInv, RevokeKeepsInv, CancelKeepsInv,
       ExecuteKeepsInv
<1>3. CASE UNCHANGED timelockVars
    BY <1>3
    DEF timelockVars, TimelockInv, TimelockTypeOK, FlagsAreVotes, FlagsOf, UnknownIsClean,
        CountersCount, Pending, DelayIsServed, ConfigIsSound, config, votes, told, tenure
<1>. QED  BY <1>1, <1>2, <1>3 DEF TimelockNext

(* The multisig does not lock itself out, for any number of owners: the      *)
(* threshold stays within their number, and as long as no owner has come     *)
(* back each pending operation has the votes that were given and can still   *)
(* be cancelled.  Flags and votes differ by those of former owners only.     *)
THEOREM TimelockIsUsable == TimelockSpec => []TimelockStaysUsable
<1>1. TimelockInv /\ [TimelockNext]_timelockVars => TimelockInv'
    BY TimelockStepKeepsInv
<1>. QED  BY <1>1, TimelockInitInv, InvKeepsUsable, PTL DEF TimelockSpec

\* The step that executes an operation does so after the delay, with a quorum.
LEMMA ExecutionHasQuorum ==
    ASSUME TimelockInv, NEW id \in Operations, NEW o \in Accounts, Execute(id, o)
    PROVE  /\ timelockTime - proposedAt[id] >= MinDelay
           /\ Cardinality(owners \cap (backing[id] \cup returned)) >= threshold
<1>1. /\ timelockTime \in Nat /\ proposedAt[id] \in Nat /\ threshold \in Nat
      /\ operations[id].readyAt \in Nat /\ owners \subseteq Accounts
      /\ {GracePeriod, MinDelay} \subseteq Nat
    BY TimelockAssumption
    DEF TimelockInv, TimelockTypeOK, OperationRecords, ConfigIsSound
<1>2. timelockTime >= operations[id].readyAt /\ operations[id].readyAt # 0
    BY <1>1 DEF Execute
<1>3. timelockTime - proposedAt[id] >= MinDelay
    BY <1>1, <1>2 DEF TimelockInv, DelayIsServed
<1> DEFINE counted == owners \cap confirmedBy[id]
           standing == owners \cap (backing[id] \cup returned)
<1>4. counted \subseteq standing
    BY DEF TimelockInv, FlagsAreVotes, FlagsOf, ConfigIsSound
<1>5. /\ standing \in SUBSET Accounts /\ counted \in SUBSET standing
      /\ Cardinality(counted) >= threshold
    BY <1>1, <1>4 DEF Execute, ValidConfirmations
<1>6. /\ Cardinality(counted) <= Cardinality(standing)
      /\ Cardinality(counted) \in Nat /\ Cardinality(standing) \in Nat
    BY <1>5, AccountSetsCount
<1>. QED  BY <1>1, <1>3, <1>5, <1>6

\* No other step executes one.
LEMMA OnlyExecuteExecutes ==
    ASSUME TimelockInv, [TimelockNext]_timelockVars, NEW id \in Operations, Executes(id)
    PROVE  \E o \in Accounts : Execute(id, o)
<1>1. \A i \in Operations : operations[i] \in OperationRecords
    BY DEF TimelockInv, TimelockTypeOK
<1>2. CASE TimelockTick \/ UNCHANGED timelockVars
    BY <1>2 DEF TimelockTick, timelockVars, Executes
<1>3. ASSUME NEW i \in Operations, NEW o \in Accounts, Propose(i, o) \/ Confirm(i, o)
      PROVE  FALSE
    <2>1. AddConfirmation(i, o)
        BY <1>3 DEF Propose, Confirm
    <2>2. operations'[id].executed = operations[id].executed
        BY <2>1, ConfirmationCounted
    <2>. QED  BY <2>2 DEF Executes
<1>4. ASSUME NEW i \in Operations, NEW o \in Accounts, RevokeConfirmation(i, o)
      PROVE  FALSE
    <2>1. operations' = [operations EXCEPT
              ![i] = [operations[i] EXCEPT !.confirmations = operations[i].confirmations - 1]]
        BY <1>4 DEF RevokeConfirmation, TimelockInv, TimelockTypeOK
    <2>2. operations'[id].executed = operations[id].executed
        BY <1>1, <2>1 DEF OperationRecords, TimelockInv, TimelockTypeOK
    <2>. QED  BY <2>2 DEF Executes
<1>5. ASSUME NEW i \in Operations, NEW o \in Accounts, Cancel(i, o)
      PROVE  FALSE
    <2>1. operations' = operations \/ operations' = [operations EXCEPT ![i] = Unknown]
        BY <1>5 DEF Cancel, OperationDeleted
    <2>2. ~Unknown.executed
        BY DEF Unknown
    <2>. QED  BY <2>1, <2>2 DEF Executes, TimelockInv, TimelockTypeOK
<1>6. ASSUME NEW i \in Operations, NEW o \in Accounts, Execute(i, o), i # id
      PROVE  FALSE
    BY <1>6 DEF Execute, Executes, TimelockInv, TimelockTypeOK
<1>. QED  BY <1>2, <1>3, <1>4, <1>5, <1>6 DEF TimelockNext

(* An operation is executed no sooner than MIN_DELAY after it was proposed   *)
(* and by as many owners of the day as the threshold asks for, whose         *)
(* standing confirmations are for that proposal, but for owners who were     *)
(* removed and came back.                                                    *)
THEOREM ExecutionTakesQuorum == TimelockSpec => ExecutedByQuorum
<1>1. TimelockInv /\ [TimelockNext]_timelockVars => TimelockInv'
    BY TimelockStepKeepsInv
<1>2. TimelockInv /\ [TimelockNext]_timelockVars =>
          \A id \in Operations : Executes(id) =>
              /\ timelockTime - proposedAt[id] >= MinDelay
              /\ Cardinality(owners \cap (backing[id] \cup returned)) >= threshold
    BY OnlyExecuteExecutes, ExecutionHasQuorum
<1>. QED  BY <1>1, <1>2, TimelockInitInv, PTL DEF TimelockSpec, ExecutedByQuorum

-----------------------------------------------------------------------------
(* The text forms.  First the checksum.  Two messages that differ in a burst *)
(* have registers that differ too, and the difference is followed back from  *)
(* the end: if the checksums were equal, the registers would be equal all    *)
(* the way to the first bit of the burst, where they are not.  A strkey      *)
(* stores the low byte first, so a burst that reaches into the checksum      *)
(* splits in it, and gets lemmas of its own.                                 *)

Bit == {0, 1}
Register == [1 .. 16 -> Bit]

\* A shift moves the difference of two registers, and feeds the bit that leaves back in.
LEMMA ShiftedDiffers ==
    ASSUME NEW c \in Register, NEW d \in Register
    PROVE  /\ Shifted(c) \in Register
           /\ \A i \in 1 .. 16 :
                 Shifted(c)[i] # Shifted(d)[i]
                     <=> IF i = 16 THEN c[1] # d[1]
                         ELSE (c[i + 1] # d[i + 1]) <=> ~(c[1] # d[1] /\ i \in {4, 11})
<1>1. \A e \in Register : \A i \in 1 .. 16 :
          Shifted(e)[i] = IF i = 16 THEN e[1]
                          ELSE IF e[1] = 1 /\ i \in {4, 11} THEN 1 - e[i + 1] ELSE e[i + 1]
    BY DEF Shifted, Xor, Polynomial, Register, Bit
<1>2. Shifted(c) \in Register
    BY DEF Shifted, Xor, Polynomial, Register, Bit
<1>. QED  BY <1>1, <1>2 DEF Register, Bit

\* f holds the registers of the first m bits, each made from the one before it.
Step(f, bits, k) == IF k = 0 THEN Zeros(16) ELSE Shifted(Entered(f[k - 1], bits, k))
IsRun(f, bits, m) == f = [k \in 0 .. m |-> Step(f, bits, k)]

\* Registers is defined: the least m without such an f would have one.
LEMMA RegistersExist ==
    ASSUME NEW n \in Nat, n % 8 = 0, NEW bits \in [1 .. n -> Bit]
    PROVE  LET crc == Registers(bits)
           IN /\ DOMAIN crc = 0 .. n
              /\ crc[0] = Zeros(16)
              /\ \A k \in 1 .. n : crc[k] = Shifted(Entered(crc[k - 1], bits, k))
              /\ \A k \in 0 .. n : crc[k] \in Register
              /\ \A k \in 1 .. n : Entered(crc[k - 1], bits, k) \in Register
<1> DEFINE Missing == {m \in Nat : ~ \E f : IsRun(f, bits, m)}
<1>1. Missing = {}
    <2>1. SUFFICES ASSUME Missing # {}
                   PROVE  FALSE
        OBVIOUS
    <2>2. PICK m \in Missing : \A j \in Missing : m <= j
        <3>1. Missing \in SUBSET Nat
            OBVIOUS
        <3>. HIDE DEF Missing
        <3>. QED  BY <2>1, <3>1, LeastMissing
    <2>3. m # 0
        <3>1. IsRun([k \in 0 .. 0 |-> Zeros(16)], bits, 0)
            BY DEF IsRun, Step
        <3>. QED  BY <2>2, <3>1
    <2>4. m - 1 \in Nat /\ m - 1 < m
        BY <2>3
    <2>5. PICK f : IsRun(f, bits, m - 1)
        BY <2>2, <2>4
    <2> DEFINE g == [k \in 0 .. m |-> IF k = m THEN Step(f, bits, m) ELSE f[k]]
    <2>6. ASSUME NEW k \in 0 .. m
          PROVE  g[k] = Step(g, bits, k)
        <3>1. CASE k = m
            BY <2>2, <2>3, <3>1 DEF Step
        <3>2. CASE k # m
            <4>1. k \in 0 .. m - 1 /\ (k # 0 => k - 1 \in 0 .. m - 1)
                BY <2>2, <3>2
            <4>2. f[k] = Step(f, bits, k)
                BY <2>5, <4>1 DEF IsRun
            <4>. QED  BY <2>2, <3>2, <4>1, <4>2 DEF Step
        <3>. QED  BY <3>1, <3>2
    <2>7. IsRun(g, bits, m)
        BY <2>6 DEF IsRun
    <2>. QED  BY <2>2, <2>7
<1>2. Len(bits) = n
    OBVIOUS
<1>3. PICK f : IsRun(f, bits, n)
    BY <1>1
<1>4. IsRun(Registers(bits), bits, n)
    BY <1>2, <1>3 DEF Registers, IsRun, Step
<1> DEFINE crc == Registers(bits)
<1>5. /\ DOMAIN crc = 0 .. n
      /\ crc[0] = Zeros(16)
      /\ \A k \in 1 .. n : crc[k] = Shifted(Entered(crc[k - 1], bits, k))
    BY <1>4 DEF IsRun, Step
<1> HIDE DEF crc
<1>6. ASSUME NEW c \in Register, NEW k \in 1 .. n
      PROVE  Entered(c, bits, k) \in Register
    <2>1. CASE k % 8 # 1
        BY <2>1 DEF Entered
    <2>2. CASE k % 8 = 1
        BY <2>2 DEF Entered, Xor, Register, Bit
    <2>. QED  BY <2>1, <2>2
<1>7. \A k \in 0 .. n : crc[k] \in Register
    <2> DEFINE Typed == {k \in 0 .. n : crc[k] \in Register}
    <2>1. 0 \in Typed
        BY <1>5 DEF Zeros, Register, Bit
    <2>2. ASSUME NEW k \in 1 .. n, k - 1 \in Typed
          PROVE  k \in Typed
        <3>1. Entered(crc[k - 1], bits, k) \in Register
            BY <1>6, <2>2
        <3>2. Shifted(Entered(crc[k - 1], bits, k)) \in Register
            BY <3>1, ShiftedDiffers
        <3>. QED  BY <1>5, <3>2
    <2>3. ASSUME NEW k \in 0 .. n
          PROVE  k \in Typed
        <3>1. \A j \in 1 .. k : j - 1 \in Typed => j \in Typed
            BY <2>2
        <3> HIDE DEF Typed
        <3>. QED  BY <2>1, <3>1, InductionTo
    <2>. QED  BY <2>3
<1>8. \A k \in 1 .. n : Entered(crc[k - 1], bits, k) \in Register
    BY <1>6, <1>7
<1>. QED  BY <1>5, <1>7, <1>8 DEF crc

\* The bits of the current byte that entered the register before their turn.
Ahead(k) == (8 - (k % 8)) % 8

\* The messages differ in a bit that entered early, after k bits and before bit k leaves.
Early(a, b, k, i) == i <= Ahead(k) /\ a[k + i] # b[k + i]
Entering(a, b, k, i) == i <= Ahead(k) + 1 /\ a[k - 1 + i] # b[k - 1 + i]

\* Two registers differ after k bits, at bit i, in more than the bits that entered early.
Apart(a, b, k, i) == (Registers(a)[k][i] # Registers(b)[k][i]) <=> ~Early(a, b, k, i)

\* Bit by bit: the next register shifts the difference, and feeds back the bit that leaves.
FeedsBack(a, b, k) == Apart(a, b, k - 1, 1) <=> ~(a[k] # b[k])

\* What a byte adds to the difference as it enters.
LEMMA EnteredDiffers ==
    ASSUME NEW n \in Nat, n % 8 = 0, NEW a \in [1 .. n -> Bit], NEW b \in [1 .. n -> Bit],
           NEW k \in 1 .. n, NEW i \in 1 .. 16
    PROVE  Entered(Registers(a)[k - 1], a, k)[i] # Entered(Registers(b)[k - 1], b, k)[i]
               <=> (Apart(a, b, k - 1, i) <=> ~Entering(a, b, k, i))
<1> DEFINE c == Registers(a)[k - 1]
           d == Registers(b)[k - 1]
<1>1. c \in Register /\ d \in Register
    <2>1. k - 1 \in 0 .. n
        OBVIOUS
    <2>. QED  BY <2>1, RegistersExist
<1>2. CASE k % 8 = 1
    <2>1. Ahead(k) = 7 /\ Ahead(k - 1) = 0 /\ k + 7 <= n
        BY <1>2 DEF Ahead
    <2>2. Apart(a, b, k - 1, i) <=> c[i] # d[i]
        BY <2>1 DEF Apart, Early
    <2> HIDE DEF c, d
    <2>3. /\ Entered(c, a, k)[i] = IF c[i] = (IF i <= 8 THEN a[k - 1 + i] ELSE 0) THEN 0 ELSE 1
          /\ Entered(d, b, k)[i] = IF d[i] = (IF i <= 8 THEN b[k - 1 + i] ELSE 0) THEN 0 ELSE 1
        BY <1>1, <1>2 DEF Entered, Xor, ByteAt, Register
    <2>4. c[i] \in Bit /\ d[i] \in Bit
        BY <1>1 DEF Register
    <2>5. i <= 8 => a[k - 1 + i] \in Bit /\ b[k - 1 + i] \in Bit
        BY <2>1
    <2>6. Entered(c, a, k)[i] # Entered(d, b, k)[i]
              <=> (c[i] # d[i] <=> ~(i <= 8 /\ a[k - 1 + i] # b[k - 1 + i]))
        BY <2>3, <2>4, <2>5 DEF Bit
    <2>. QED  BY <2>1, <2>2, <2>6 DEF c, d, Entering
<1>3. CASE k % 8 # 1
    <2>1. Ahead(k - 1) = Ahead(k) + 1
        BY <1>3 DEF Ahead
    <2>2. Entered(c, a, k) = c /\ Entered(d, b, k) = d
        BY <1>3 DEF Entered
    <2>3. Apart(a, b, k - 1, i) <=>
              (c[i] # d[i] <=> ~Entering(a, b, k, i))
        BY <2>1 DEF Apart, Early, Entering
    <2>. QED  BY <2>2, <2>3
<1>. QED  BY <1>2, <1>3

\* One bit moves the difference by one place.
LEMMA ApartIsShifted ==
    ASSUME NEW n \in Nat, n % 8 = 0, NEW a \in [1 .. n -> Bit], NEW b \in [1 .. n -> Bit],
           NEW k \in 1 .. n, NEW i \in 1 .. 16
    PROVE  Apart(a, b, k, i)
               <=> IF i = 16 THEN FeedsBack(a, b, k)
                   ELSE Apart(a, b, k - 1, i + 1) <=> ~(FeedsBack(a, b, k) /\ i \in {4, 11})
<1> DEFINE c == Entered(Registers(a)[k - 1], a, k)
           d == Entered(Registers(b)[k - 1], b, k)
<1>1. /\ c \in Register /\ Registers(a)[k] = Shifted(c)
      /\ d \in Register /\ Registers(b)[k] = Shifted(d)
    BY RegistersExist
<1>2. Ahead(k) \in 0 .. 7
    BY DEF Ahead
<1>3. \A j \in 1 .. 16 : c[j] # d[j] <=> (Apart(a, b, k - 1, j) <=> ~Entering(a, b, k, j))
    BY EnteredDiffers
<1>4. Apart(a, b, k, i) <=> (Shifted(c)[i] # Shifted(d)[i] <=> ~Early(a, b, k, i))
    BY <1>1 DEF Apart
<1> HIDE DEF c, d
<1>5. c[1] # d[1] <=> FeedsBack(a, b, k)
    <2>1. 1 \in 1 .. 16
        OBVIOUS
    <2>2. Entering(a, b, k, 1) <=> a[k] # b[k]
        BY <1>2 DEF Entering
    <2>. QED  BY <1>3, <2>1, <2>2 DEF FeedsBack
<1>6. i # 16 => (c[i + 1] # d[i + 1] <=> (Apart(a, b, k - 1, i + 1) <=> ~Early(a, b, k, i)))
    <2>1. i # 16 => (Entering(a, b, k, i + 1) <=> Early(a, b, k, i))
        BY <1>2 DEF Entering, Early
    <2>2. i # 16 => i + 1 \in 1 .. 16
        OBVIOUS
    <2>. QED  BY <1>3, <2>1, <2>2
<1>7. i = 16 => ~Early(a, b, k, i)
    BY <1>2 DEF Early
<1>8. Shifted(c)[i] # Shifted(d)[i]
          <=> IF i = 16 THEN c[1] # d[1]
              ELSE (c[i + 1] # d[i + 1]) <=> ~(c[1] # d[1] /\ i \in {4, 11})
    BY <1>1, ShiftedDiffers
<1>. QED  BY <1>4, <1>5, <1>6, <1>7, <1>8

\* No difference before the first bit.
LEMMA ApartStarts ==
    ASSUME NEW n \in Nat, n % 8 = 0, NEW a \in [1 .. n -> Bit], NEW b \in [1 .. n -> Bit],
           NEW i \in 1 .. 16
    PROVE  ~Apart(a, b, 0, i)
<1>1. Ahead(0) = 0
    BY DEF Ahead
<1>2. Registers(a)[0] = Registers(b)[0]
    BY RegistersExist
<1>. QED  BY <1>1, <1>2 DEF Apart, Early

\* After the last bit nothing is still to come: what is apart differs.
LEMMA ApartEnds ==
    ASSUME NEW n \in Nat, n % 8 = 0, NEW a \in [1 .. n -> Bit], NEW b \in [1 .. n -> Bit],
           NEW i \in 1 .. 16
    PROVE  ~Apart(a, b, n, i) <=> Crc16(a)[i] = Crc16(b)[i]
<1>1. Ahead(n) = 0
    BY DEF Ahead
<1>2. Len(a) = n /\ Len(b) = n
    OBVIOUS
<1>. QED  BY <1>1, <1>2 DEF Apart, Early, Crc16

\* The first q bits agree, and so do the registers over them.
LEMMA TogetherToStart ==
    ASSUME NEW n \in Nat, n % 8 = 0, NEW a \in [1 .. n -> Bit], NEW b \in [1 .. n -> Bit],
           NEW q \in 0 .. n, \A j \in 1 .. q : a[j] = b[j]
    PROVE  \A i \in 1 .. 16 : ~Apart(a, b, q, i)
<1> DEFINE Together == {k \in 0 .. n : \A i \in 1 .. 16 : ~Apart(a, b, k, i)}
<1>1. 0 \in Together
    BY ApartStarts
<1>2. ASSUME NEW k \in 1 .. q, k - 1 \in Together
      PROVE  k \in Together
    <2>1. k \in 1 .. n /\ a[k] = b[k]
        OBVIOUS
    <2>2. \A i \in 1 .. 16 : ~Apart(a, b, k - 1, i)
        BY <1>2
    <2>3. ~FeedsBack(a, b, k)
        BY <2>1, <2>2 DEF FeedsBack
    <2>4. ASSUME NEW i \in 1 .. 16
          PROVE  ~Apart(a, b, k, i)
        <3>1. Apart(a, b, k, i)
                  <=> IF i = 16 THEN FeedsBack(a, b, k)
                      ELSE Apart(a, b, k - 1, i + 1) <=> ~(FeedsBack(a, b, k) /\ i \in {4, 11})
            BY <2>1, ApartIsShifted
        <3>2. i # 16 => ~Apart(a, b, k - 1, i + 1)
            <4>1. i # 16 => i + 1 \in 1 .. 16
                OBVIOUS
            <4>. QED  BY <2>2, <4>1
        <3>. QED  BY <2>3, <3>1, <3>2
    <2>. QED  BY <2>1, <2>4
<1> HIDE DEF Together
<1>3. q \in Together
    BY <1>1, <1>2, InductionTo
<1>. QED  BY <1>3 DEF Together

\* One step back: when the last bits of two registers agree, the difference before is the
\* difference after, shifted, with the difference of the messages in front.
LEMMA StepBack ==
    ASSUME NEW n \in Nat, n % 8 = 0, NEW a \in [1 .. n -> Bit], NEW b \in [1 .. n -> Bit],
           NEW k \in 1 .. n
    PROVE  /\ Apart(a, b, k, 16) <=> FeedsBack(a, b, k)
           /\ \A i \in 1 .. 15 :
                 Apart(a, b, k - 1, i + 1)
                     <=> (Apart(a, b, k, i) <=> ~(Apart(a, b, k, 16) /\ i \in {4, 11}))
           /\ ~Apart(a, b, k, 16) => (Apart(a, b, k - 1, 1) <=> a[k] # b[k])
<1>1. Apart(a, b, k, 16) <=> FeedsBack(a, b, k)
    <2>1. 16 \in 1 .. 16
        OBVIOUS
    <2>. QED  BY <2>1, ApartIsShifted
<1>2. ASSUME NEW i \in 1 .. 15
      PROVE  Apart(a, b, k - 1, i + 1)
                 <=> (Apart(a, b, k, i) <=> ~(Apart(a, b, k, 16) /\ i \in {4, 11}))
    <2>1. i \in 1 .. 16 /\ i # 16
        OBVIOUS
    <2>2. Apart(a, b, k, i) <=>
              (Apart(a, b, k - 1, i + 1) <=> ~(FeedsBack(a, b, k) /\ i \in {4, 11}))
        BY <2>1, ApartIsShifted
    <2>. QED  BY <1>1, <2>2
<1>. QED  BY <1>1, <1>2 DEF FeedsBack

\* The messages differ i bits after bit k.
InFront(a, b, n, k, i) == k + i <= n /\ a[k + i] # b[k + i]

\* A burst of at most 16 bits changes the checksum: between its first bit and the end, the
\* registers differ in the bits of the burst that are still to come, and in no other.
LEMMA BurstChangesCrc ==
    ASSUME NEW n \in Nat, n % 8 = 0, NEW a \in [1 .. n -> Bit], NEW b \in [1 .. n -> Bit],
           NEW q \in 0 .. n, \A j \in 1 .. q : a[j] = b[j],
           \A j \in q + 17 .. n : a[j] = b[j],
           Crc16(a) = Crc16(b)
    PROVE  a = b
<1> DEFINE Ahead16(k) == \A i \in 1 .. 16 : Apart(a, b, k, i) <=> InFront(a, b, n, k, i)
           Back == {t \in 0 .. n - q : Ahead16(n - t)}
<1>1. 0 \in Back
    <2>1. ASSUME NEW i \in 1 .. 16
          PROVE  Apart(a, b, n, i) <=> InFront(a, b, n, n, i)
        <3>1. ~InFront(a, b, n, n, i)
            BY DEF InFront
        <3>2. ~Apart(a, b, n, i)
            BY ApartEnds
        <3>. QED  BY <3>1, <3>2
    <2>2. n - 0 = n /\ 0 \in 0 .. n - q
        OBVIOUS
    <2>. QED  BY <2>1, <2>2
<1>2. ASSUME NEW t \in 1 .. n - q, t - 1 \in Back
      PROVE  t \in Back
    <2>1. PICK k \in q + 1 .. n : k = n - (t - 1)
        OBVIOUS
    <2>2. k \in 1 .. n /\ n - t = k - 1
        BY <2>1
    <2>3. Ahead16(k)
        BY <1>2, <2>1
    <2>4. ~Apart(a, b, k, 16)
        <3>1. ~InFront(a, b, n, k, 16)
            BY <2>1 DEF InFront
        <3>2. 16 \in 1 .. 16
            OBVIOUS
        <3>. QED  BY <2>3, <3>1, <3>2
    <2>5. Apart(a, b, k - 1, 1) <=> InFront(a, b, n, k - 1, 1)
        <3>1. InFront(a, b, n, k - 1, 1) <=> a[k] # b[k]
            BY <2>2 DEF InFront
        <3>2. ~Apart(a, b, k, 16) => (Apart(a, b, k - 1, 1) <=> a[k] # b[k])
            BY <2>2, StepBack
        <3>. QED  BY <2>4, <3>1, <3>2
    <2>6. ASSUME NEW i \in 1 .. 15
          PROVE  Apart(a, b, k - 1, i + 1) <=> InFront(a, b, n, k - 1, i + 1)
        <3>1. Apart(a, b, k - 1, i + 1)
                  <=> (Apart(a, b, k, i) <=> ~(Apart(a, b, k, 16) /\ i \in {4, 11}))
            BY <2>2, StepBack
        <3>2. InFront(a, b, n, k - 1, i + 1) <=> InFront(a, b, n, k, i)
            BY <2>2 DEF InFront
        <3>3. i \in 1 .. 16
            OBVIOUS
        <3>. QED  BY <2>3, <2>4, <3>1, <3>2, <3>3
    <2>7. ASSUME NEW i \in 1 .. 16
          PROVE  Apart(a, b, k - 1, i) <=> InFront(a, b, n, k - 1, i)
        <3>1. CASE i = 1
            BY <2>5, <3>1
        <3>2. CASE i # 1
            <4>1. PICK j \in 1 .. 15 : i = j + 1
                <5>1. i - 1 \in 1 .. 15 /\ i = (i - 1) + 1
                    BY <3>2
                <5>. QED  BY <5>1
            <4>. QED  BY <2>6, <4>1
        <3>. QED  BY <3>1, <3>2
    <2>8. Ahead16(n - t)
        BY <2>2, <2>7
    <2>. QED  BY <2>8
<1>3. n - q \in Nat /\ n - (n - q) = q
    OBVIOUS
<1>4. Ahead16(q)
    <2> HIDE DEF Ahead16
    <2>1. 0 \in Back /\ \A t \in 1 .. n - q : t - 1 \in Back => t \in Back
        BY <1>1, <1>2
    <2>2. n - q \in Back
        <3> HIDE DEF Back
        <3>. QED  BY <1>3, <2>1, InductionTo
    <2>. QED  BY <1>3, <2>2
<1>5. \A i \in 1 .. 16 : ~InFront(a, b, n, q, i)
    BY <1>4, TogetherToStart
<1>6. ASSUME NEW j \in 1 .. n
      PROVE  a[j] = b[j]
    <2>1. CASE j <= q \/ j >= q + 17
        BY <2>1
    <2>2. CASE j > q /\ j < q + 17
        <3>1. PICK i \in 1 .. 16 : j = q + i
            <4>1. j - q \in 1 .. 16 /\ j = q + (j - q)
                BY <2>2
            <4>. QED  BY <4>1
        <3>2. ~InFront(a, b, n, q, i)
            BY <1>5
        <3>. QED  BY <3>1, <3>2 DEF InFront
    <2>. QED  BY <2>1, <2>2
<1>. QED  BY <1>6

\* The difference after n bits is the one t bits before, shifted.
Moved(a, b, n, t) ==
    \A i \in 1 .. 16 - t : Apart(a, b, n - t, i + t) <=> Apart(a, b, n, i)

\* As long as no difference leaves the registers, going back shifts it.
LEMMA DifferenceMovesBack ==
    ASSUME NEW n \in Nat, n % 8 = 0, NEW a \in [1 .. n -> Bit], NEW b \in [1 .. n -> Bit],
           NEW h \in 1 .. 16, \A i \in h + 1 .. 16 : ~Apart(a, b, n, i),
           NEW t \in 0 .. 16 - h, t <= n
    PROVE  Moved(a, b, n, t)
<1> DEFINE Back == {s \in 0 .. t : Moved(a, b, n, s)}
<1>1. 0 \in Back
    <2>1. n - 0 = n /\ \A i \in 1 .. 16 : i + 0 = i
        OBVIOUS
    <2>. QED  BY <2>1 DEF Moved
<1>2. ASSUME NEW s \in 1 .. t, s - 1 \in Back
      PROVE  s \in Back
    <2>1. PICK k \in 1 .. n : k = n - (s - 1)
        OBVIOUS
    <2>2. n - s = k - 1 /\ Moved(a, b, n, s - 1)
        BY <1>2, <2>1
    <2>3. \A i \in 1 .. 16 - (s - 1) : Apart(a, b, k, i + (s - 1)) <=> Apart(a, b, n, i)
        BY <2>1, <2>2 DEF Moved
    <2>4. ~Apart(a, b, k, 16)
        <3>1. PICK i \in h + 1 .. 16 : i = 16 - (s - 1)
            OBVIOUS
        <3>2. i \in 1 .. 16 - (s - 1) /\ i + (s - 1) = 16
            BY <3>1
        <3>3. Apart(a, b, k, i + (s - 1)) <=> Apart(a, b, n, i)
            BY <2>3, <3>2
        <3>. QED  BY <3>2, <3>3
    <2>5. ASSUME NEW i \in 1 .. 16 - s
          PROVE  Apart(a, b, k - 1, i + s) <=> Apart(a, b, n, i)
        <3>1. PICK j \in 1 .. 15 : j = i + (s - 1)
            OBVIOUS
        <3>2. Apart(a, b, k - 1, j + 1) <=> Apart(a, b, k, j)
            BY <2>4, StepBack
        <3>3. Apart(a, b, k, j) <=> Apart(a, b, n, i)
            <4>1. i \in 1 .. 16 - (s - 1)
                OBVIOUS
            <4>. QED  BY <2>3, <3>1, <4>1
        <3>4. j + 1 = i + s
            BY <3>1
        <3>. QED  BY <3>2, <3>3, <3>4
    <2>6. Moved(a, b, n, s)
        BY <2>2, <2>5 DEF Moved
    <2>. QED  BY <2>6
<1>3. t \in Back
    <2> HIDE DEF Back
    <2>. QED  BY <1>1, <1>2, InductionTo
<1>. QED  BY <1>3

\* Registers that agree before a step and in bit 4 after it agree after it: what is fed
\* back shows there.
LEMMA QuietStep ==
    ASSUME NEW n \in Nat, n % 8 = 0, NEW a \in [1 .. n -> Bit], NEW b \in [1 .. n -> Bit],
           NEW k \in 1 .. n, \A i \in 1 .. 16 : ~Apart(a, b, k - 1, i), ~Apart(a, b, k, 4)
    PROVE  \A i \in 1 .. 16 : ~Apart(a, b, k, i)
<1>1. \A i \in 1 .. 15 :
          Apart(a, b, k - 1, i + 1) <=> (Apart(a, b, k, i) <=> ~(Apart(a, b, k, 16) /\ i \in {4, 11}))
    BY StepBack
<1>2. ~Apart(a, b, k, 16)
    <2>1. Apart(a, b, k - 1, 4 + 1) <=> (Apart(a, b, k, 4) <=> ~(Apart(a, b, k, 16) /\ 4 \in {4, 11}))
        <3>1. 4 \in 1 .. 15
            OBVIOUS
        <3>. QED  BY <1>1, <3>1
    <2>2. ~Apart(a, b, k - 1, 4 + 1)
        <3>1. 4 + 1 \in 1 .. 16
            OBVIOUS
        <3>. QED  BY <3>1
    <2>. QED  BY <2>1, <2>2
<1>3. ASSUME NEW i \in 1 .. 15
      PROVE  ~Apart(a, b, k, i)
    <2>1. ~Apart(a, b, k - 1, i + 1)
        <3>1. i + 1 \in 1 .. 16
            OBVIOUS
        <3>. QED  BY <3>1
    <2>. QED  BY <1>1, <1>2, <2>1
<1>4. \A i \in 1 .. 16 : i = 16 \/ i \in 1 .. 15
    OBVIOUS
<1>. QED  BY <1>2, <1>3, <1>4

\* n bits and their checksum, the low byte first.
Body(A, n) == [j \in 1 .. n |-> A[j]]
IsCodeword(A, n) ==
    /\ A \in [1 .. n + 16 -> Bit]
    /\ \A i \in 1 .. 8 : Crc16(Body(A, n))[i] = A[n + 8 + i]
    /\ \A i \in 9 .. 16 : Crc16(Body(A, n))[i] = A[n - 8 + i]

\* The last nine bits of the body and the first of the checksum: undoing the feedback of
\* that one bit takes more than nine bits.
LEMMA NineBitsShow ==
    ASSUME NEW n \in Nat, n % 8 = 0, 9 <= n,
           NEW a \in [1 .. n -> Bit], NEW b \in [1 .. n -> Bit],
           \A j \in 1 .. n - 9 : a[j] = b[j], \A i \in 1 .. 16 : i # 9 => ~Apart(a, b, n, i)
    PROVE  ~Apart(a, b, n, 9)
<1>1. \A i \in 1 .. 16 - 7 : Apart(a, b, n - 7, i + 7) <=> Apart(a, b, n, i)
    <2>1. PICK h \in 1 .. 16 : h = 9
        OBVIOUS
    <2>2. PICK t \in 0 .. 16 - h : t = 7 /\ t <= n
        BY <2>1
    <2>3. \A i \in h + 1 .. 16 : ~Apart(a, b, n, i)
        BY <2>1
    <2>4. Moved(a, b, n, t)
        BY <2>2, <2>3, DifferenceMovesBack
    <2>. QED  BY <2>2, <2>4 DEF Moved
<1>2. /\ Apart(a, b, n - 7, 16) <=> Apart(a, b, n, 9)
      /\ Apart(a, b, n - 7, 15) <=> Apart(a, b, n, 8)
      /\ Apart(a, b, n - 7, 11) <=> Apart(a, b, n, 4)
    <2>1. 9 \in 1 .. 16 - 7 /\ 8 \in 1 .. 16 - 7 /\ 4 \in 1 .. 16 - 7
        OBVIOUS
    <2>2. 9 + 7 = 16 /\ 8 + 7 = 15 /\ 4 + 7 = 11
        OBVIOUS
    <2>3. /\ Apart(a, b, n - 7, 9 + 7) <=> Apart(a, b, n, 9)
          /\ Apart(a, b, n - 7, 8 + 7) <=> Apart(a, b, n, 8)
          /\ Apart(a, b, n - 7, 4 + 7) <=> Apart(a, b, n, 4)
        BY <1>1, <2>1
    <2>. QED  BY <2>2, <2>3
<1>3. ~Apart(a, b, n, 8) /\ ~Apart(a, b, n, 4)
    <2>1. 8 \in 1 .. 16 /\ 8 # 9 /\ 4 \in 1 .. 16 /\ 4 # 9
        OBVIOUS
    <2>. QED  BY <2>1
<1>4. PICK k \in 1 .. n : k = n - 7
    OBVIOUS
<1>5. PICK m \in 1 .. n : m = n - 8
    OBVIOUS
<1>6. k - 1 = m /\ m - 1 = n - 9 /\ n - 9 \in 0 .. n
    BY <1>4, <1>5
<1>7. /\ Apart(a, b, m, 12) <=> (Apart(a, b, k, 11) <=> ~Apart(a, b, k, 16))
      /\ Apart(a, b, m, 16) <=> Apart(a, b, k, 15)
    <2>1. 11 \in 1 .. 15 /\ 15 \in 1 .. 15 /\ 11 + 1 = 12 /\ 15 + 1 = 16
          /\ 11 \in {4, 11} /\ 15 \notin {4, 11}
        OBVIOUS
    <2>2. \A i \in 1 .. 15 :
              Apart(a, b, k - 1, i + 1) <=> (Apart(a, b, k, i) <=> ~(Apart(a, b, k, 16) /\ i \in {4, 11}))
        BY StepBack
    <2>3. /\ Apart(a, b, k - 1, 11 + 1) <=> (Apart(a, b, k, 11) <=> ~(Apart(a, b, k, 16) /\ 11 \in {4, 11}))
          /\ Apart(a, b, k - 1, 15 + 1) <=> (Apart(a, b, k, 15) <=> ~(Apart(a, b, k, 16) /\ 15 \in {4, 11}))
        BY <2>1, <2>2
    <2>. QED  BY <1>6, <2>1, <2>3
<1>8. ~Apart(a, b, m, 16) => (Apart(a, b, m - 1, 13) <=> Apart(a, b, m, 12))
    <2>1. 12 \in 1 .. 15 /\ 12 + 1 = 13
        OBVIOUS
    <2>2. \A i \in 1 .. 15 :
              Apart(a, b, m - 1, i + 1) <=> (Apart(a, b, m, i) <=> ~(Apart(a, b, m, 16) /\ i \in {4, 11}))
        BY StepBack
    <2>3. Apart(a, b, m - 1, 12 + 1) <=> (Apart(a, b, m, 12) <=> ~(Apart(a, b, m, 16) /\ 12 \in {4, 11}))
        BY <2>1, <2>2
    <2>. QED  BY <2>1, <2>3
<1>9. ~Apart(a, b, n - 9, 13)
    <2>1. \A i \in 1 .. 16 : ~Apart(a, b, n - 9, i)
        BY <1>6, TogetherToStart
    <2>2. 13 \in 1 .. 16
        OBVIOUS
    <2>. QED  BY <2>1, <2>2
<1>. QED  BY <1>2, <1>3, <1>4, <1>6, <1>7, <1>8, <1>9

\* The last four bits of the body: each shows in the high byte of the checksum.
LEMMA FourBitsShow ==
    ASSUME NEW n \in Nat, n % 8 = 0, 4 <= n,
           NEW a \in [1 .. n -> Bit], NEW b \in [1 .. n -> Bit],
           \A j \in 1 .. n - 4 : a[j] = b[j], \A i \in 1 .. 4 : ~Apart(a, b, n, i),
           ~Apart(a, b, n, 15), ~Apart(a, b, n, 16)
    PROVE  \A i \in 1 .. 16 : ~Apart(a, b, n, i)
<1> DEFINE Quiet(k) == \A i \in 1 .. 16 : ~Apart(a, b, k, i)
           Moves(k, i) == Apart(a, b, k - 1, i + 1) <=> Apart(a, b, k, i)
<1>1. PICK k1 \in 1 .. n : k1 = n - 3
    OBVIOUS
<1>2. PICK k2 \in 1 .. n : k2 = n - 2
    OBVIOUS
<1>3. PICK k3 \in 1 .. n : k3 = n - 1
    OBVIOUS
<1>4. /\ n \in 1 .. n /\ n - 4 \in 0 .. n
      /\ k1 - 1 = n - 4 /\ k2 - 1 = k1 /\ k3 - 1 = k2 /\ n - 1 = k3
    BY <1>1, <1>2, <1>3
<1>5. ASSUME NEW k \in 1 .. n
      PROVE  Moves(k, 1) /\ Moves(k, 2) /\ Moves(k, 3)
    <2>1. \A i \in 1 .. 15 :
              Apart(a, b, k - 1, i + 1) <=> (Apart(a, b, k, i) <=> ~(Apart(a, b, k, 16) /\ i \in {4, 11}))
        BY StepBack
    <2>2. \A i \in {1, 2, 3} : i \in 1 .. 15 /\ i \notin {4, 11}
        OBVIOUS
    <2>3. \A i \in {1, 2, 3} : Moves(k, i)
        BY <2>1, <2>2
    <2>. QED  BY <2>3
<1>6. 1 + 1 = 2 /\ 2 + 1 = 3 /\ 3 + 1 = 4
    OBVIOUS
<1>7. \A i \in {1, 2, 3, 4} : ~Apart(a, b, n, i)
    OBVIOUS
<1>8. ~Apart(a, b, k1, 4) /\ ~Apart(a, b, k2, 4) /\ ~Apart(a, b, k3, 4)
    <2>1. Moves(n, 1) /\ Moves(n, 2) /\ Moves(n, 3) /\ Moves(k3, 2) /\ Moves(k3, 3) /\ Moves(k2, 3)
        BY <1>4, <1>5
    <2>. QED  BY <1>4, <1>6, <1>7, <2>1
<1>9. Quiet(n - 4)
    BY <1>4, TogetherToStart
<1>10. Quiet(k1)
    BY <1>4, <1>8, <1>9, QuietStep
<1>11. Quiet(k2)
    BY <1>4, <1>8, <1>10, QuietStep
<1>12. Quiet(k3)
    BY <1>4, <1>8, <1>11, QuietStep
<1>. QED  BY <1>4, <1>7, <1>12, QuietStep

\* Two codewords that differ in two neighbouring characters at most are one.
LEMMA CodewordsDiffer ==
    ASSUME NEW n \in Nat, n % 8 = 0, n % 5 = 4, n >= 9,
           NEW A, NEW B, IsCodeword(A, n), IsCodeword(B, n),
           NEW q \in Nat, q % 5 = 0, q + 10 <= n + 16,
           \A j \in 1 .. q : A[j] = B[j], \A j \in q + 11 .. n + 16 : A[j] = B[j]
    PROVE  A = B
<1> DEFINE a == Body(A, n)
           b == Body(B, n)
<1>1. a \in [1 .. n -> Bit] /\ b \in [1 .. n -> Bit] /\ \A j \in 1 .. n : a[j] = A[j] /\ b[j] = B[j]
    <2>1. A \in [1 .. n + 16 -> Bit] /\ B \in [1 .. n + 16 -> Bit]
        BY DEF IsCodeword
    <2>. QED  BY <2>1 DEF Body
<1>2. \A i \in 1 .. 8 : Crc16(a)[i] = A[n + 8 + i] /\ Crc16(b)[i] = B[n + 8 + i]
    BY DEF IsCodeword
<1>3. \A i \in 9 .. 16 : Crc16(a)[i] = A[n - 8 + i] /\ Crc16(b)[i] = B[n - 8 + i]
    BY DEF IsCodeword
<1>4. A \in [1 .. n + 16 -> Bit] /\ B \in [1 .. n + 16 -> Bit]
    BY DEF IsCodeword
<1>5. Crc16(a) \in Register /\ Crc16(b) \in Register
    <2>1. Len(a) = n /\ Len(b) = n
        BY <1>1
    <2>2. n \in 0 .. n
        OBVIOUS
    <2> HIDE DEF a, b
    <2>. QED  BY <1>1, <2>1, <2>2, RegistersExist DEF Crc16
<1> HIDE DEF a, b
<1>6. \A i \in 1 .. 16 : Apart(a, b, n, i) <=> Crc16(a)[i] # Crc16(b)[i]
    <2>1. ASSUME NEW i \in 1 .. 16
          PROVE  Apart(a, b, n, i) <=> Crc16(a)[i] # Crc16(b)[i]
        <3>1. a \in [1 .. n -> Bit] /\ b \in [1 .. n -> Bit]
            BY <1>1
        <3>. QED  BY <3>1, ApartEnds
    <2>. QED  BY <2>1
\* The checksums agree, and so do the codewords.
<1>7. ASSUME a = b
      PROVE  A = B
    <2>1. ASSUME NEW j \in 1 .. n + 16
          PROVE  A[j] = B[j]
        <3>1. CASE j <= n
            BY <1>1, <1>7, <3>1
        <3>2. CASE j > n + 8
            <4>1. PICK i \in 1 .. 8 : j = n + 8 + i
                <5>1. j - (n + 8) \in 1 .. 8 /\ j = n + 8 + (j - (n + 8))
                    BY <3>2
                <5>. QED  BY <5>1
            <4>. QED  BY <1>2, <1>7, <4>1
        <3>3. CASE j > n /\ j <= n + 8
            <4>1. PICK i \in 9 .. 16 : j = n - 8 + i
                <5>1. j - (n - 8) \in 9 .. 16 /\ j = n - 8 + (j - (n - 8))
                    BY <3>3
                <5>. QED  BY <5>1
            <4>. QED  BY <1>3, <1>7, <4>1
        <3>. QED  BY <3>1, <3>2, <3>3
    <2>. QED  BY <1>4, <2>1
<1>8. ASSUME \A i \in 1 .. 16 : ~Apart(a, b, n, i), q <= n
      PROVE  a = b
    <2>1. Crc16(a) = Crc16(b)
        BY <1>5, <1>6, <1>8 DEF Register
    <2>2. q \in 0 .. n /\ (\A j \in 1 .. q : a[j] = b[j]) /\ (\A j \in q + 17 .. n : a[j] = b[j])
        BY <1>1, <1>8
    <2>. QED  BY <1>1, <2>1, <2>2, BurstChangesCrc
\* The bits of the checksum that agree.
<1>9. \A i \in 1 .. 8 : A[n + 8 + i] = B[n + 8 + i] => ~Apart(a, b, n, i)
    BY <1>2, <1>6
<1>10. \A i \in 9 .. 16 : A[n - 8 + i] = B[n - 8 + i] => ~Apart(a, b, n, i)
    BY <1>3, <1>6
<1>11. \A i \in 1 .. 8 : q + 10 <= n + 8 => ~Apart(a, b, n, i)
    BY <1>9
<1>12. \A i \in 9 .. 16 : q + 10 <= n - 9 + i => ~Apart(a, b, n, i)
    BY <1>10
<1>13. CASE q + 10 <= n
    <2>1. \A i \in 1 .. 16 : ~Apart(a, b, n, i)
        BY <1>11, <1>12, <1>13
    <2>. QED  BY <1>7, <1>8, <1>13, <2>1
<1>14. CASE q = n - 9
    <2>1. \A i \in 1 .. 16 : i # 9 => ~Apart(a, b, n, i)
        BY <1>11, <1>12, <1>14
    <2>2. \A j \in 1 .. n - 9 : a[j] = b[j]
        BY <1>1, <1>14
    <2>3. ~Apart(a, b, n, 9)
        BY <1>1, <2>1, <2>2, NineBitsShow
    <2>4. \A i \in 1 .. 16 : ~Apart(a, b, n, i)
        BY <2>1, <2>3
    <2>. QED  BY <1>7, <1>8, <1>14, <2>4
<1>15. CASE q = n - 4
    <2>1. /\ \A i \in 1 .. 4 : ~Apart(a, b, n, i)
          /\ ~Apart(a, b, n, 15) /\ ~Apart(a, b, n, 16)
        BY <1>11, <1>12, <1>15
    <2>2. \A j \in 1 .. n - 4 : a[j] = b[j]
        BY <1>1, <1>15
    <2>3. \A i \in 1 .. 16 : ~Apart(a, b, n, i)
        <3>1. 4 <= n
            OBVIOUS
        <3>. QED  BY <1>1, <2>1, <2>2, <3>1, FourBitsShow
    <2>. QED  BY <1>7, <1>8, <1>15, <2>3
<1>16. CASE q >= n
    <2>1. a = b
        BY <1>1, <1>16
    <2>. QED  BY <1>7, <2>1
<1>17. q + 10 <= n \/ q = n - 9 \/ q = n - 4 \/ q >= n
    OBVIOUS
<1>. QED  BY <1>13, <1>14, <1>15, <1>16, <1>17
-----------------------------------------------------------------------------
\* The bits of a version and a key, and of the strkey made of them.
BodyBits == 8 * (KeyBytes + 1)

LEMMA Sizes ==
    /\ BodyBits \in Nat /\ BodyBits % 8 = 0 /\ BodyBits % 5 = 4 /\ BodyBits >= 16
    /\ BodyBits + 16 = 8 * (KeyBytes + 3)
    /\ StrkeyLength \in Nat /\ 5 * StrkeyLength = BodyBits + 16 /\ StrkeyLength >= 2
BY EncodingsAssumption DEF BodyBits, StrkeyLength

\* The five bits of a character.
LEMMA CharBits ==
    ASSUME NEW c \in 0 .. 31
    PROVE  /\ CharBit(c, 1) = (c \div 16) % 2 /\ CharBit(c, 2) = (c \div 8) % 2
           /\ CharBit(c, 3) = (c \div 4) % 2 /\ CharBit(c, 4) = (c \div 2) % 2
           /\ CharBit(c, 5) = (c \div 1) % 2
           /\ \A i \in 1 .. 5 : CharBit(c, i) \in Bit
<1>1. /\ CharBit(c, 1) = (c \div 16) % 2 /\ CharBit(c, 2) = (c \div 8) % 2
      /\ CharBit(c, 3) = (c \div 4) % 2 /\ CharBit(c, 4) = (c \div 2) % 2
      /\ CharBit(c, 5) = (c \div 1) % 2
    BY DEF CharBit
<1>2. \A i \in 1 .. 5 : i \in {1, 2, 3, 4, 5}
    OBVIOUS
<1>. QED  BY <1>1, <1>2 DEF Bit

\* A character is its bits.
LEMMA CharIsItsBits ==
    ASSUME NEW c \in 0 .. 31, NEW d \in 0 .. 31, \A i \in 1 .. 5 : CharBit(c, i) = CharBit(d, i)
    PROVE  c = d
<1>1. \A i \in {1, 2, 3, 4, 5} : CharBit(c, i) = CharBit(d, i)
    OBVIOUS
<1>2. /\ (c \div 16) % 2 = (d \div 16) % 2 /\ (c \div 8) % 2 = (d \div 8) % 2
      /\ (c \div 4) % 2 = (d \div 4) % 2 /\ (c \div 2) % 2 = (d \div 2) % 2
      /\ (c \div 1) % 2 = (d \div 1) % 2
    BY <1>1, CharBits
<1>. QED  BY <1>2

\* Five bits make one character.
LEMMA BitsMakeChar ==
    ASSUME NEW b1 \in Bit, NEW b2 \in Bit, NEW b3 \in Bit, NEW b4 \in Bit, NEW b5 \in Bit,
           NEW c, c = 16 * b1 + 8 * b2 + 4 * b3 + 2 * b4 + b5
    PROVE  /\ c \in 0 .. 31
           /\ CharBit(c, 1) = b1 /\ CharBit(c, 2) = b2 /\ CharBit(c, 3) = b3
           /\ CharBit(c, 4) = b4 /\ CharBit(c, 5) = b5
<1>1. c \in 0 .. 31
    BY DEF Bit
<1>2. /\ (c \div 16) % 2 = b1 /\ (c \div 8) % 2 = b2 /\ (c \div 4) % 2 = b3
      /\ (c \div 2) % 2 = b4 /\ (c \div 1) % 2 = b5
    BY DEF Bit
<1>. QED  BY <1>1, <1>2, CharBits

Chars == 0 .. NotInAlphabet

\* Decoding either refuses or gives the bits of each character.
LEMMA DecodedBits ==
    ASSUME NEW chars \in Seq(Chars)
    PROVE  LET bits == Base32Decode(chars)
           IN \/ bits = Null
              \/ /\ (5 * Len(chars)) % 8 = 0
                 /\ \A k \in 1 .. Len(chars) : chars[k] \in 0 .. 31
                 /\ bits \in [1 .. 5 * Len(chars) -> Bit]
                 /\ bits = [j \in 1 .. 5 * Len(chars) |->
                               CharBit(chars[(j + 4) \div 5], ((j + 4) % 5) + 1)]
<1>1. CASE (5 * Len(chars)) % 8 # 0 \/ NotInAlphabet \in ToSet(chars)
    BY <1>1 DEF Base32Decode
<1>2. CASE ~((5 * Len(chars)) % 8 # 0 \/ NotInAlphabet \in ToSet(chars))
    <2>1. ASSUME NEW k \in 1 .. Len(chars)
          PROVE  chars[k] \in 0 .. 31
        <3>1. chars[k] \in Chars
            OBVIOUS
        <3>2. chars[k] \in ToSet(chars)
            BY DEF ToSet
        <3>3. chars[k] # 32
            BY <1>2, <3>2 DEF NotInAlphabet
        <3>. QED  BY <3>1, <3>3 DEF Chars, NotInAlphabet
    <2>2. ASSUME NEW j \in 1 .. 5 * Len(chars)
          PROVE  CharBit(chars[(j + 4) \div 5], ((j + 4) % 5) + 1) \in Bit
        <3>1. PICK k \in 1 .. Len(chars) : k = (j + 4) \div 5
            <4>1. Len(chars) \in Nat
                OBVIOUS
            <4>. QED  BY <4>1
        <3>2. PICK i \in 1 .. 5 : i = ((j + 4) % 5) + 1
            OBVIOUS
        <3>. QED  BY <2>1, <3>1, <3>2, CharBits
    <2>3. Base32Decode(chars) = [j \in 1 .. 5 * Len(chars) |->
                                    CharBit(chars[(j + 4) \div 5], ((j + 4) % 5) + 1)]
        BY <1>2 DEF Base32Decode
    <2>. QED  BY <1>2, <2>1, <2>2, <2>3
<1>. QED  BY <1>1, <1>2

LEMMA BitsAreSequence ==
    ASSUME NEW m \in Nat, NEW s \in [1 .. m -> Bit]
    PROVE  s \in Seq(Bit) /\ Len(s) = m
OBVIOUS

LEMMA BitsWithin ==
    ASSUME NEW m \in Nat, NEW s \in [1 .. m -> Bit],
           NEW i \in 1 .. m + 1, NEW j \in 0 .. m, i <= j + 1
    PROVE  SubSeq(s, i, j) = [k \in 1 .. j - i + 1 |-> s[k + i - 1]]
<1>1. s \in Seq(Bit) /\ Len(s) = m
    BY BitsAreSequence
<1>. QED  BY <1>1

LEMMA BitsTogether ==
    ASSUME NEW m \in Nat, NEW s \in [1 .. m -> Bit], NEW p \in Nat, NEW t \in [1 .. p -> Bit]
    PROVE  /\ s \o t = [k \in 1 .. m + p |-> IF k <= m THEN s[k] ELSE t[k - m]]
           /\ s \o t \in [1 .. m + p -> Bit]
<1>1. s \in Seq(Bit) /\ Len(s) = m /\ t \in Seq(Bit) /\ Len(t) = p
    BY BitsAreSequence
<1>2. s \o t = [k \in 1 .. m + p |-> IF k <= m THEN s[k] ELSE t[k - m]]
    <2>1. s \o t \in Seq(Bit) /\ Len(s \o t) = m + p
        BY <1>1, ConcatProperties
    <2>2. \A k \in 1 .. m + p : (s \o t)[k] = IF k <= m THEN s[k] ELSE t[k - m]
        BY <1>1, ConcatProperties
    <2> DEFINE both == s \o t
    <2> HIDE DEF both
    <2>3. both = [k \in 1 .. m + p |-> both[k]]
        <3>1. both \in Seq(Bit) /\ Len(both) = m + p
            BY <2>1 DEF both
        <3>. QED  BY <3>1
    <2>4. \A k \in 1 .. m + p : both[k] = IF k <= m THEN s[k] ELSE t[k - m]
        BY <2>2 DEF both
    <2>5. both = [k \in 1 .. m + p |-> IF k <= m THEN s[k] ELSE t[k - m]]
        BY <2>3, <2>4
    <2>. QED  BY <2>5 DEF both
<1>3. ASSUME NEW k \in 1 .. m + p
      PROVE  (IF k <= m THEN s[k] ELSE t[k - m]) \in Bit
    OBVIOUS
<1>. QED  BY <1>2, <1>3

\* The checksum of a strkey's length of bits.
LEMMA ChecksumIsCodeword ==
    ASSUME NEW bits \in [1 .. BodyBits + 16 -> Bit]
    PROVE  /\ Crc16(Body(bits, BodyBits)) \in Register
           /\ ChecksumHolds(bits) <=> IsCodeword(bits, BodyBits)
<1> DEFINE n == BodyBits
           body == Body(bits, n)
           low == [k \in 1 .. 8 |-> bits[n + 8 + k]]
           high == [k \in 1 .. 8 |-> bits[n + k]]
           stored == [k \in 1 .. 16 |-> IF k <= 8 THEN bits[n + 8 + k] ELSE bits[n - 8 + k]]
<1>1. n \in Nat /\ n % 8 = 0 /\ n >= 16
    BY Sizes
<1> HIDE DEF n
<1>2. n + 16 \in Nat /\ bits \in [1 .. n + 16 -> Bit]
    BY <1>1 DEF n
<1>3. Len(bits) = n + 16
    BY <1>2, BitsAreSequence
<1>4. SubSeq(bits, 1, n) = body
    <2>1. 1 \in 1 .. n + 16 + 1 /\ n \in 0 .. n + 16 /\ 1 <= n + 1
        BY <1>1
    <2>2. SubSeq(bits, 1, n) = [k \in 1 .. n - 1 + 1 |-> bits[k + 1 - 1]]
        BY <1>2, <2>1, BitsWithin
    <2>3. n - 1 + 1 = n /\ \A k \in 1 .. n : k + 1 - 1 = k
        BY <1>1
    <2>. QED  BY <2>2, <2>3 DEF Body
<1>5. SubSeq(bits, n + 9, n + 16) = low
    <2>1. PICK i \in 1 .. n + 16 + 1 : i = n + 9
        BY <1>1
    <2>4. PICK j \in 0 .. n + 16 : j = n + 16
        BY <1>1
    <2>5. i <= j + 1
        BY <1>1, <2>1, <2>4
    <2>2. SubSeq(bits, i, j) = [k \in 1 .. j - i + 1 |-> bits[k + i - 1]]
        BY <1>2, <2>5, BitsWithin
    <2>3. j - i + 1 = 8 /\ \A k \in 1 .. 8 : k + i - 1 = n + 8 + k
        BY <1>1, <2>1, <2>4
    <2>. QED  BY <2>1, <2>2, <2>3, <2>4
<1>6. SubSeq(bits, n + 1, n + 8) = high
    <2>1. PICK i \in 1 .. n + 16 + 1 : i = n + 1
        BY <1>1
    <2>4. PICK j \in 0 .. n + 16 : j = n + 8
        BY <1>1
    <2>5. i <= j + 1
        BY <1>1, <2>1, <2>4
    <2>2. SubSeq(bits, i, j) = [k \in 1 .. j - i + 1 |-> bits[k + i - 1]]
        BY <1>2, <2>5, BitsWithin
    <2>3. j - i + 1 = 8 /\ \A k \in 1 .. 8 : k + i - 1 = n + k
        BY <1>1, <2>1, <2>4
    <2>. QED  BY <2>1, <2>2, <2>3, <2>4
<1>7. low \in [1 .. 8 -> Bit] /\ high \in [1 .. 8 -> Bit]
    <2>1. ASSUME NEW k \in 1 .. 8
          PROVE  bits[n + 8 + k] \in Bit /\ bits[n + k] \in Bit
        <3>1. n + 8 + k \in 1 .. n + 16 /\ n + k \in 1 .. n + 16
            BY <1>1
        <3>. QED  BY <1>2, <3>1
    <2>. QED  BY <2>1
<1>8. low \o high = stored
    <2>1. low \o high = [k \in 1 .. 8 + 8 |-> IF k <= 8 THEN low[k] ELSE high[k - 8]]
        <3> HIDE DEF low, high
        <3>1. PICK m \in Nat : m = 8
            OBVIOUS
        <3>2. low \in [1 .. m -> Bit] /\ high \in [1 .. m -> Bit]
            BY <1>7, <3>1
        <3>3. low \o high = [k \in 1 .. m + m |-> IF k <= m THEN low[k] ELSE high[k - m]]
            BY <3>2, BitsTogether
        <3>. QED  BY <3>1, <3>3
    <2>2. ASSUME NEW k \in 1 .. 16
          PROVE  (IF k <= 8 THEN low[k] ELSE high[k - 8]) = stored[k]
        <3>1. CASE k <= 8
            BY <3>1
        <3>2. CASE k > 8
            <4>1. k - 8 \in 1 .. 8 /\ n + (k - 8) = n - 8 + k
                BY <1>1, <3>2
            <4>. QED  BY <3>2, <4>1
        <3>. QED  BY <3>1, <3>2
    <2> HIDE DEF low, high
    <2>. QED  BY <2>1, <2>2
<1>9. ChecksumHolds(bits) <=> Crc16(body) = stored
    <2>1. Len(bits) - 16 = n /\ Len(bits) - 7 = n + 9 /\ Len(bits) - 15 = n + 1 /\ Len(bits) - 8 = n + 8
        BY <1>1, <1>3
    <2> HIDE DEF low, high, stored, body
    <2>. QED  BY <1>3, <1>4, <1>5, <1>6, <1>8, <2>1 DEF ChecksumHolds
<1>10. Crc16(body) \in Register
    <2>1. n \in 0 .. n
        BY <1>1
    <2>2. body \in [1 .. n -> Bit]
        <3>1. ASSUME NEW j \in 1 .. n
              PROVE  bits[j] \in Bit
            <4>1. j \in 1 .. n + 16
                BY <1>1
            <4>. QED  BY <1>2, <4>1
        <3>. QED  BY <3>1 DEF Body
    <2>3. Len(body) = n
        BY <1>1, <2>2, BitsAreSequence
    <2> HIDE DEF body
    <2>. QED  BY <1>1, <2>1, <2>2, <2>3, RegistersExist DEF Crc16
<1>11. Crc16(body) = stored
           <=> /\ \A i \in 1 .. 8 : Crc16(body)[i] = bits[n + 8 + i]
               /\ \A i \in 9 .. 16 : Crc16(body)[i] = bits[n - 8 + i]
    <2> DEFINE crc == Crc16(body)
    <2> HIDE DEF crc
    <2>1. crc = stored <=> \A i \in 1 .. 16 : crc[i] = stored[i]
        <3>1. crc \in [1 .. 16 -> Bit]
            BY <1>10 DEF crc, Register
        <3>. QED  BY <3>1
    <2>2. \A i \in 1 .. 16 : i \in 1 .. 8 \/ i \in 9 .. 16
        OBVIOUS
    <2>3. \A i \in 1 .. 8 : i \in 1 .. 16 /\ stored[i] = bits[n + 8 + i]
        OBVIOUS
    <2>4. \A i \in 9 .. 16 : i \in 1 .. 16 /\ stored[i] = bits[n - 8 + i]
        OBVIOUS
    <2> HIDE DEF stored
    <2>5. (\A i \in 1 .. 16 : crc[i] = stored[i])
              <=> /\ \A i \in 1 .. 8 : crc[i] = bits[n + 8 + i]
                  /\ \A i \in 9 .. 16 : crc[i] = bits[n - 8 + i]
        BY <2>2, <2>3, <2>4
    <2>. QED  BY <2>1, <2>5 DEF crc
<1>12. IsCodeword(bits, n)
           <=> /\ \A i \in 1 .. 8 : Crc16(body)[i] = bits[n + 8 + i]
               /\ \A i \in 9 .. 16 : Crc16(body)[i] = bits[n - 8 + i]
    BY <1>2 DEF IsCodeword
<1> HIDE DEF stored, low, high
<1>13. ChecksumHolds(bits) <=> IsCodeword(bits, n)
    BY <1>9, <1>11, <1>12
<1>. QED  BY <1>10, <1>13 DEF n

KeyBits == [1 .. 8 * KeyBytes -> Bit]

\* What Stellar writes is a codeword, made of the version and the key.
LEMMA StrkeyIsCodeword ==
    ASSUME NEW v \in Versions, NEW key \in KeyBits
    PROVE  LET bits == StrkeyBits(v, key)
           IN /\ bits \in [1 .. BodyBits + 16 -> Bit]
              /\ IsCodeword(bits, BodyBits)
              /\ SubSeq(bits, 1, 8) = v
              /\ SubSeq(bits, 9, BodyBits) = key
<1> DEFINE n == BodyBits
           m == 8 * KeyBytes
           body == v \o key
           crc == Crc16(body)
           low == [k \in 1 .. 8 |-> crc[k + 8]]
           high == [k \in 1 .. 8 |-> crc[k]]
           bits == StrkeyBits(v, key)
<1>1. n \in Nat /\ n % 8 = 0 /\ n >= 16 /\ m \in Nat /\ 8 + m = n
    BY Sizes, EncodingsAssumption DEF BodyBits
<1>2. PICK eight \in Nat : eight = 8
    OBVIOUS
<1>3. v \in [1 .. eight -> Bit] /\ key \in [1 .. m -> Bit]
    BY <1>2 DEF Versions, AccountVersion, ContractVersion, Bit, KeyBits
<1> HIDE DEF n, m
<1>4. /\ body = [k \in 1 .. n |-> IF k <= 8 THEN v[k] ELSE key[k - 8]]
      /\ body \in [1 .. n -> Bit]
    <2>1. /\ body = [k \in 1 .. eight + m |-> IF k <= eight THEN v[k] ELSE key[k - eight]]
          /\ body \in [1 .. eight + m -> Bit]
        BY <1>1, <1>3, BitsTogether
    <2>. QED  BY <1>1, <1>2, <2>1
<1> HIDE DEF body
<1>5. crc \in [1 .. 16 -> Bit]
    <2>1. n \in 0 .. n /\ Len(body) = n
        BY <1>1, <1>4, BitsAreSequence
    <2>2. crc \in Register
        BY <1>1, <1>4, <2>1, RegistersExist DEF Crc16
    <2>. QED  BY <2>2 DEF Register
<1> HIDE DEF crc
<1>6. SubSeq(crc, 9, 16) = low /\ SubSeq(crc, 1, 8) = high
    <2>1. PICK m1 \in Nat : m1 = 16
        OBVIOUS
    <2>2. PICK i \in 1 .. m1 + 1 : i = 9
        BY <2>1
    <2>3. PICK j \in 0 .. m1 : j = 16
        BY <2>1
    <2>4. PICK i1 \in 1 .. m1 + 1 : i1 = 1
        BY <2>1
    <2>5. PICK j1 \in 0 .. m1 : j1 = 8
        BY <2>1
    <2>6. crc \in [1 .. m1 -> Bit] /\ i <= j + 1 /\ i1 <= j1 + 1
        BY <1>5, <2>1, <2>2, <2>3, <2>4, <2>5
    <2>7. SubSeq(crc, i, j) = [k \in 1 .. j - i + 1 |-> crc[k + i - 1]]
        BY <2>6, BitsWithin
    <2>8. SubSeq(crc, i1, j1) = [k \in 1 .. j1 - i1 + 1 |-> crc[k + i1 - 1]]
        BY <2>6, BitsWithin
    <2>9. j - i + 1 = 8 /\ \A k \in 1 .. 8 : k + i - 1 = k + 8
        BY <2>2, <2>3
    <2>10. j1 - i1 + 1 = 8 /\ \A k \in 1 .. 8 : k + i1 - 1 = k
        BY <2>4, <2>5
    <2>11. SubSeq(crc, i, j) = low
        BY <2>7, <2>9
    <2>12. SubSeq(crc, i1, j1) = high
        BY <2>8, <2>10
    <2>. QED  BY <2>2, <2>3, <2>4, <2>5, <2>11, <2>12
<1>7. low \in [1 .. eight -> Bit] /\ high \in [1 .. eight -> Bit]
    <2>1. \A k \in 1 .. 8 : crc[k + 8] \in Bit /\ crc[k] \in Bit
        BY <1>5
    <2>. QED  BY <1>2, <2>1
<1>8. /\ bits = [k \in 1 .. n + 16 |-> IF k <= n THEN body[k]
                                       ELSE IF k <= n + 8 THEN crc[k - n + 8] ELSE crc[k - n - 8]]
      /\ bits \in [1 .. n + 16 -> Bit]
    <2> HIDE DEF low, high
    <2>1. /\ body \o low = [k \in 1 .. n + eight |-> IF k <= n THEN body[k] ELSE low[k - n]]
          /\ body \o low \in [1 .. n + eight -> Bit]
        <3>1. n \in Nat /\ body \in [1 .. n -> Bit]
            BY <1>1, <1>4
        <3>. QED  BY <1>7, <3>1, BitsTogether
    <2> DEFINE front == body \o low
    <2>2. PICK p \in Nat : p = n + eight
        BY <1>1
    <2>3. front \in [1 .. p -> Bit]
        BY <2>1, <2>2
    <2> HIDE DEF front
    <2>4. /\ front \o high = [k \in 1 .. p + eight |-> IF k <= p THEN front[k] ELSE high[k - p]]
          /\ front \o high \in [1 .. p + eight -> Bit]
        BY <1>7, <2>3, BitsTogether
    <2>5. bits = front \o high
        BY <1>6 DEF StrkeyBits, front, body, crc
    <2>6. p + eight = n + 16
        BY <1>1, <1>2, <2>2
    <2> HIDE DEF bits
    <2>7. ASSUME NEW k \in 1 .. n + 16
          PROVE  bits[k] = IF k <= n THEN body[k]
                           ELSE IF k <= n + 8 THEN crc[k - n + 8] ELSE crc[k - n - 8]
        <3>1. bits[k] = IF k <= n + 8 THEN front[k] ELSE high[k - (n + 8)]
            BY <1>1, <1>2, <2>2, <2>4, <2>5, <2>6
        <3>2. CASE k <= n + 8
            <4>1. front[k] = IF k <= n THEN body[k] ELSE low[k - n]
                BY <1>1, <1>2, <2>1, <3>2 DEF front
            <4>2. k > n => low[k - n] = crc[k - n + 8]
                <5>1. SUFFICES ASSUME k > n
                               PROVE  low[k - n] = crc[k - n + 8]
                    OBVIOUS
                <5>2. PICK x \in 1 .. 8 : x = k - n
                    BY <1>1, <3>2, <5>1
                <5>3. low[x] = crc[x + 8]
                    BY DEF low
                <5>. QED  BY <5>2, <5>3
            <4>3. k > n \/ k <= n
                BY <1>1
            <4>. QED  BY <1>1, <3>1, <3>2, <4>1, <4>2, <4>3
        <3>3. CASE k > n + 8
            <4>1. k - (n + 8) \in 1 .. 8 /\ k - (n + 8) = k - n - 8 /\ ~(k <= n) /\ ~(k <= n + 8)
                BY <1>1, <3>3
            <4>. QED  BY <3>1, <4>1 DEF high
        <3>. QED  BY <1>1, <3>2, <3>3
    <2>8. bits \in [1 .. n + 16 -> Bit]
        BY <2>4, <2>5, <2>6
    <2>. QED  BY <2>7, <2>8
<1> HIDE DEF bits
<1>12. \A j \in 1 .. n + 16 : bits[j] = IF j <= n THEN body[j]
                                        ELSE IF j <= n + 8 THEN crc[j - n + 8] ELSE crc[j - n - 8]
    BY <1>8
<1>9. Body(bits, n) = body
    <2>1. ASSUME NEW j \in 1 .. n
          PROVE  bits[j] = body[j]
        <3>1. j \in 1 .. n + 16 /\ j <= n
            BY <1>1
        <3>. QED  BY <1>8, <3>1
    <2>2. body = [j \in 1 .. n |-> body[j]]
        BY <1>4
    <2>. QED  BY <2>1, <2>2 DEF Body
<1>10. IsCodeword(bits, n)
    <2>1. ASSUME NEW i \in 1 .. 8
          PROVE  crc[i] = bits[n + 8 + i]
        <3>1. PICK j \in 1 .. n + 16 : j = n + 8 + i
            BY <1>1
        <3>2. ~(j <= n) /\ ~(j <= n + 8) /\ j - n - 8 = i
            BY <1>1, <3>1
        <3>3. bits[j] = crc[j - n - 8]
            BY <1>12, <3>2
        <3>. QED  BY <3>1, <3>2, <3>3
    <2>2. ASSUME NEW i \in 9 .. 16
          PROVE  crc[i] = bits[n - 8 + i]
        <3>1. PICK j \in 1 .. n + 16 : j = n - 8 + i
            BY <1>1
        <3>2. ~(j <= n) /\ j <= n + 8 /\ j - n + 8 = i
            BY <1>1, <3>1
        <3>3. bits[j] = crc[j - n + 8]
            BY <1>12, <3>2
        <3>. QED  BY <3>1, <3>2, <3>3
    <2>. QED  BY <1>8, <1>9, <2>1, <2>2 DEF IsCodeword, crc
<1>11. SubSeq(bits, 1, 8) = v /\ SubSeq(bits, 9, n) = key
    <2>1. PICK m1 \in Nat : m1 = n + 16
        BY <1>1
    <2>2. PICK i \in 1 .. m1 + 1 : i = 1
        BY <1>1, <2>1
    <2>3. PICK j \in 0 .. m1 : j = 8
        BY <1>1, <2>1
    <2>4. PICK i1 \in 1 .. m1 + 1 : i1 = 9
        BY <1>1, <2>1
    <2>5. PICK j1 \in 0 .. m1 : j1 = n
        BY <1>1, <2>1
    <2>6. bits \in [1 .. m1 -> Bit] /\ i <= j + 1 /\ i1 <= j1 + 1
        <3>1. bits \in [1 .. m1 -> Bit]
            BY <1>8, <2>1
        <3>2. i <= j + 1 /\ i1 <= j1 + 1
            BY <1>1, <2>2, <2>3, <2>4, <2>5
        <3>. QED  BY <3>1, <3>2
    <2>7. SubSeq(bits, i, j) = [k \in 1 .. j - i + 1 |-> bits[k + i - 1]]
        BY <2>6, BitsWithin
    <2>8. SubSeq(bits, i1, j1) = [k \in 1 .. j1 - i1 + 1 |-> bits[k + i1 - 1]]
        BY <2>6, BitsWithin
    <2>9. j - i + 1 = 8 /\ \A k \in 1 .. 8 : k + i - 1 = k
        BY <2>2, <2>3
    <2>10. j1 - i1 + 1 = m /\ \A k \in 1 .. m : k + i1 - 1 = k + 8
        BY <1>1, <2>4, <2>5
    <2>11. ASSUME NEW k \in 1 .. 8
           PROVE  bits[k] = v[k]
        <3>1. k \in 1 .. n + 16 /\ k <= n /\ k \in 1 .. n
            BY <1>1
        <3>. QED  BY <1>4, <1>8, <3>1
    <2>12. ASSUME NEW k \in 1 .. m
           PROVE  bits[k + 8] = key[k]
        <3>1. k + 8 \in 1 .. n + 16 /\ k + 8 <= n /\ k + 8 \in 1 .. n /\ ~(k + 8 <= 8) /\ k + 8 - 8 = k
            BY <1>1
        <3>. QED  BY <1>4, <1>8, <3>1
    <2>13. SubSeq(bits, i, j) = [k \in 1 .. 8 |-> v[k]]
        BY <2>7, <2>9, <2>11
    <2>14. SubSeq(bits, i1, j1) = [k \in 1 .. m |-> key[k]]
        BY <2>8, <2>10, <2>12
    <2>15. v = [k \in 1 .. 8 |-> v[k]] /\ key = [k \in 1 .. m |-> key[k]]
        BY <1>2, <1>3
    <2>. QED  BY <2>2, <2>3, <2>4, <2>5, <2>13, <2>14, <2>15
<1>. QED  BY <1>8, <1>10, <1>11 DEF bits, n

\* Decoding undoes the encoding.
LEMMA StrkeyDecodes ==
    ASSUME NEW v \in Versions, NEW key \in KeyBits
    PROVE  /\ Strkey(v, key) \in [1 .. StrkeyLength -> 0 .. 31]
           /\ Base32Decode(Strkey(v, key)) = StrkeyBits(v, key)
<1> DEFINE bits == StrkeyBits(v, key)
           chars == Strkey(v, key)
           L == StrkeyLength
<1>1. /\ L \in Nat /\ 5 * L = BodyBits + 16 /\ (5 * L) % 8 = 0
    <2>1. L \in Nat /\ 5 * L = BodyBits + 16 /\ BodyBits % 8 = 0 /\ BodyBits \in Nat
        BY Sizes
    <2>. QED  BY <2>1
<1>2. bits \in [1 .. 5 * L -> Bit]
    BY <1>1, StrkeyIsCodeword
<1>3. chars = [k \in 1 .. L |-> 16 * bits[5 * k - 4] + 8 * bits[5 * k - 3] + 4 * bits[5 * k - 2]
                                    + 2 * bits[5 * k - 1] + bits[5 * k]]
    BY DEF Strkey
<1> HIDE DEF bits, chars, L
<1>4. ASSUME NEW k \in 1 .. L
      PROVE  /\ chars[k] \in 0 .. 31
             /\ CharBit(chars[k], 1) = bits[5 * k - 4] /\ CharBit(chars[k], 2) = bits[5 * k - 3]
             /\ CharBit(chars[k], 3) = bits[5 * k - 2] /\ CharBit(chars[k], 4) = bits[5 * k - 1]
             /\ CharBit(chars[k], 5) = bits[5 * k]
    <2>1. /\ 5 * k - 4 \in 1 .. 5 * L /\ 5 * k - 3 \in 1 .. 5 * L /\ 5 * k - 2 \in 1 .. 5 * L
          /\ 5 * k - 1 \in 1 .. 5 * L /\ 5 * k \in 1 .. 5 * L
        BY <1>1
    <2>2. /\ bits[5 * k - 4] \in Bit /\ bits[5 * k - 3] \in Bit /\ bits[5 * k - 2] \in Bit
          /\ bits[5 * k - 1] \in Bit /\ bits[5 * k] \in Bit
        BY <1>2, <2>1
    <2>3. PICK b1 \in Bit, b2 \in Bit, b3 \in Bit, b4 \in Bit, b5 \in Bit :
             /\ b1 = bits[5 * k - 4] /\ b2 = bits[5 * k - 3] /\ b3 = bits[5 * k - 2]
             /\ b4 = bits[5 * k - 1] /\ b5 = bits[5 * k]
        BY <2>2
    <2>4. chars[k] = 16 * b1 + 8 * b2 + 4 * b3 + 2 * b4 + b5
        BY <1>3, <2>3
    <2>5. PICK c : c = chars[k]
        OBVIOUS
    <2>6. /\ c \in 0 .. 31
          /\ CharBit(c, 1) = b1 /\ CharBit(c, 2) = b2 /\ CharBit(c, 3) = b3
          /\ CharBit(c, 4) = b4 /\ CharBit(c, 5) = b5
        BY <2>4, <2>5, BitsMakeChar
    <2>. QED  BY <2>3, <2>5, <2>6
<1>5. chars \in [1 .. L -> 0 .. 31]
    BY <1>3, <1>4
<1>6. Len(chars) = L /\ NotInAlphabet \notin ToSet(chars)
    <2>1. Len(chars) = L
        BY <1>1, <1>5
    <2>2. \A c \in ToSet(chars) : c \in 0 .. 31
        BY <1>5 DEF ToSet
    <2>3. NotInAlphabet \notin 0 .. 31
        BY DEF NotInAlphabet
    <2>4. NotInAlphabet \notin ToSet(chars)
        <3> HIDE DEF NotInAlphabet
        <3>. QED  BY <2>2, <2>3
    <2>. QED  BY <2>1, <2>4
<1>7. ASSUME NEW j \in 1 .. 5 * L
      PROVE  CharBit(chars[(j + 4) \div 5], ((j + 4) % 5) + 1) = bits[j]
    <2>1. PICK k \in 1 .. L : k = (j + 4) \div 5
        BY <1>1
    <2>2. PICK i \in {1, 2, 3, 4, 5} : i = ((j + 4) % 5) + 1
        BY <1>1
    <2>3. j = 5 * k - 5 + i
        BY <1>1, <2>1, <2>2
    <2>4. CharBit(chars[k], i) = bits[j]
        <3>1. CASE i = 1
            BY <1>4, <2>3, <3>1
        <3>2. CASE i = 2
            BY <1>4, <2>3, <3>2
        <3>3. CASE i = 3
            BY <1>4, <2>3, <3>3
        <3>4. CASE i = 4
            BY <1>4, <2>3, <3>4
        <3>5. CASE i = 5
            BY <1>4, <2>3, <3>5
        <3>. QED  BY <2>2, <3>1, <3>2, <3>3, <3>4, <3>5
    <2>. QED  BY <2>1, <2>2, <2>4
<1>8. Base32Decode(chars) = [j \in 1 .. 5 * L |-> CharBit(chars[(j + 4) \div 5], ((j + 4) % 5) + 1)]
    BY <1>1, <1>6 DEF Base32Decode
<1>9. bits = [j \in 1 .. 5 * L |-> bits[j]]
    BY <1>2
<1>10. Base32Decode(chars) = bits
    BY <1>7, <1>8, <1>9
<1>. QED  BY <1>5, <1>10 DEF chars, bits, L

\* What every check of a strkey asks.
Accepted(chars) ==
    /\ Len(chars) = StrkeyLength
    /\ Len(Base32Decode(chars)) >= 24 /\ ChecksumHolds(Base32Decode(chars))

LEMMA AcceptedIsCodeword ==
    ASSUME NEW chars \in Seq(Chars), Len(chars) = StrkeyLength,
           Len(Base32Decode(chars)) >= 24
    PROVE  /\ \A k \in 1 .. StrkeyLength : chars[k] \in 0 .. 31
           /\ Base32Decode(chars) \in [1 .. BodyBits + 16 -> Bit]
           /\ Base32Decode(chars) = [j \in 1 .. BodyBits + 16 |->
                                        CharBit(chars[(j + 4) \div 5], ((j + 4) % 5) + 1)]
           /\ ChecksumHolds(Base32Decode(chars)) <=> IsCodeword(Base32Decode(chars), BodyBits)
<1> DEFINE bits == Base32Decode(chars)
<1>1. bits # Null
    <2>1. Len(Null) = 0
        BY DEF Null
    <2>. QED  BY <2>1
<1>2. 5 * Len(chars) = BodyBits + 16
    BY Sizes
<1>3. /\ \A k \in 1 .. Len(chars) : chars[k] \in 0 .. 31
      /\ bits \in [1 .. 5 * Len(chars) -> Bit]
      /\ bits = [j \in 1 .. 5 * Len(chars) |->
                    CharBit(chars[(j + 4) \div 5], ((j + 4) % 5) + 1)]
    BY <1>1, DecodedBits
<1> HIDE DEF bits
<1>4. bits \in [1 .. BodyBits + 16 -> Bit]
    BY <1>2, <1>3
<1>5. ChecksumHolds(bits) <=> IsCodeword(bits, BodyBits)
    BY <1>4, ChecksumIsCodeword
<1>. QED  BY <1>2, <1>3, <1>4, <1>5 DEF bits

\* Two strkeys that differ in two neighbouring characters at most are one.
LEMMA NeighboursShow ==
    ASSUME NEW s \in Seq(Chars), NEW t \in Seq(Chars), Accepted(s), Accepted(t),
           NEW p \in 1 .. StrkeyLength - 1,
           \A k \in 1 .. StrkeyLength : k # p /\ k # p + 1 => s[k] = t[k]
    PROVE  s = t
<1> DEFINE A == Base32Decode(s)
           B == Base32Decode(t)
           L == StrkeyLength
           n == BodyBits
           Place(j) == (j + 4) \div 5
           Bit5(j) == ((j + 4) % 5) + 1
<1>1. /\ L \in Nat /\ 5 * L = n + 16 /\ n \in Nat /\ n % 8 = 0 /\ n % 5 = 4 /\ n >= 9
    BY Sizes
<1>2. Len(s) = L /\ Len(t) = L
    BY DEF Accepted
<1>3. /\ \A k \in 1 .. L : s[k] \in 0 .. 31
      /\ A = [j \in 1 .. n + 16 |-> CharBit(s[Place(j)], Bit5(j))]
      /\ IsCodeword(A, n)
    BY AcceptedIsCodeword DEF Accepted
<1>4. /\ \A k \in 1 .. L : t[k] \in 0 .. 31
      /\ B = [j \in 1 .. n + 16 |-> CharBit(t[Place(j)], Bit5(j))]
      /\ IsCodeword(B, n)
    BY AcceptedIsCodeword DEF Accepted
<1> HIDE DEF A, B, L, n
<1>5. PICK q \in Nat : q = 5 * (p - 1)
    BY <1>1 DEF L
<1>6. q % 5 = 0 /\ q + 10 <= n + 16
    BY <1>1, <1>5 DEF L
<1>7. ASSUME NEW j \in 1 .. n + 16, j <= q \/ j >= q + 11
      PROVE  A[j] = B[j]
    <2>1. PICK k \in 1 .. L : k = Place(j)
        BY <1>1
    <2>2. k # p /\ k # p + 1
        BY <1>1, <1>5, <1>7, <2>1
    <2>3. s[k] = t[k]
        BY <2>2 DEF L
    <2>4. A[j] = CharBit(s[k], Bit5(j)) /\ B[j] = CharBit(t[k], Bit5(j))
        BY <1>3, <1>4, <2>1
    <2>. QED  BY <2>3, <2>4
<1>8. (\A j \in 1 .. q : A[j] = B[j]) /\ (\A j \in q + 11 .. n + 16 : A[j] = B[j])
    <2>1. \A j \in 1 .. q : j \in 1 .. n + 16 /\ j <= q
        BY <1>1, <1>6
    <2>2. \A j \in q + 11 .. n + 16 : j \in 1 .. n + 16 /\ j >= q + 11
        BY <1>1
    <2>. QED  BY <1>7, <2>1, <2>2
<1>9. A = B
    <2>1. n \in Nat /\ n % 8 = 0 /\ n % 5 = 4 /\ n >= 9
        BY <1>1
    <2>2. IsCodeword(A, n) /\ IsCodeword(B, n)
        BY <1>3, <1>4
    <2>. QED  BY <1>6, <1>8, <2>1, <2>2, CodewordsDiffer
<1>10. ASSUME NEW k \in 1 .. L
       PROVE  s[k] = t[k]
    <2>1. ASSUME NEW i \in 1 .. 5
          PROVE  CharBit(s[k], i) = CharBit(t[k], i)
        <3>1. PICK j \in 1 .. n + 16 : j = 5 * k - 5 + i
            BY <1>1
        <3>2. Place(j) = k /\ Bit5(j) = i
            BY <1>1, <3>1
        <3>3. A[j] = CharBit(s[Place(j)], Bit5(j)) /\ B[j] = CharBit(t[Place(j)], Bit5(j))
            BY <1>3, <1>4
        <3>. QED  BY <1>9, <3>2, <3>3
    <2>2. s[k] \in 0 .. 31 /\ t[k] \in 0 .. 31
        BY <1>3, <1>4
    <2>. QED  BY <2>1, <2>2, CharIsItsBits
<1>. QED  BY <1>2, <1>10

\* One mistake keeps to the characters; it changes two neighbours at most or the length.
LEMMA MistypedDiffers ==
    ASSUME NEW s \in Seq(Chars), NEW t \in Mistyped(s)
    PROVE  /\ t \in Seq(Chars)
           /\ \/ Len(t) # Len(s)
              \/ /\ Len(t) = Len(s)
                 /\ Len(s) >= 2 => \E p \in 1 .. Len(s) - 1 :
                        \A k \in 1 .. Len(s) : k # p /\ k # p + 1 => s[k] = t[k]
<1>1. ASSUME NEW k \in 1 .. Len(s), NEW c \in Chars, t = [s EXCEPT ![k] = c]
      PROVE  /\ t \in Seq(Chars) /\ Len(t) = Len(s)
             /\ Len(s) >= 2 => \E p \in 1 .. Len(s) - 1 :
                    \A j \in 1 .. Len(s) : j # p /\ j # p + 1 => s[j] = t[j]
    <2>1. t \in Seq(Chars) /\ Len(t) = Len(s) /\ \A j \in 1 .. Len(s) : j # k => s[j] = t[j]
        BY <1>1
    <2>2. CASE k < Len(s)
        <3>1. k \in 1 .. Len(s) - 1
            BY <2>2
        <3>. QED  BY <2>1, <3>1
    <2>3. ASSUME k >= Len(s), Len(s) >= 2
          PROVE  \E p \in 1 .. Len(s) - 1 :
                     \A j \in 1 .. Len(s) : j # p /\ j # p + 1 => s[j] = t[j]
        <3>2. PICK p \in 1 .. Len(s) - 1 : k = p + 1
            <4>1. k - 1 \in 1 .. Len(s) - 1 /\ k = (k - 1) + 1
                BY <2>3
            <4>. QED  BY <4>1
        <3>. QED  BY <2>1, <3>2
    <2>4. k < Len(s) \/ k >= Len(s)
        OBVIOUS
    <2>. QED  BY <2>1, <2>2, <2>3, <2>4
<1>2. ASSUME NEW k \in 2 .. Len(s), t = [s EXCEPT ![k] = s[k - 1], ![k - 1] = s[k]]
      PROVE  /\ t \in Seq(Chars) /\ Len(t) = Len(s)
             /\ \E p \in 1 .. Len(s) - 1 :
                    \A j \in 1 .. Len(s) : j # p /\ j # p + 1 => s[j] = t[j]
    <2>1. k - 1 \in 1 .. Len(s) /\ k \in 1 .. Len(s) /\ k - 1 \in 1 .. Len(s) - 1 /\ k = (k - 1) + 1
        OBVIOUS
    <2>2. PICK l \in 1 .. Len(s) - 1 : l = k - 1
        BY <2>1
    <2>3. s[k] \in Chars /\ s[l] \in Chars
        <3>1. \A j \in 1 .. Len(s) : s[j] \in Chars
            OBVIOUS
        <3>. QED  BY <2>1, <2>2, <3>1
    <2>4. PICK c \in Chars, d \in Chars : c = s[l] /\ d = s[k]
        BY <2>3
    <2>5. t = [s EXCEPT ![k] = c, ![l] = d]
        BY <1>2, <2>2, <2>4
    <2>6. t \in Seq(Chars) /\ Len(t) = Len(s) /\ \A j \in 1 .. Len(s) : j # l /\ j # k => s[j] = t[j]
        BY <2>5
    <2>. QED  BY <2>1, <2>2, <2>6
<1>3. ASSUME NEW k \in 1 .. Len(s), t = RemoveAt(s, k)
      PROVE  t \in Seq(Chars) /\ Len(t) # Len(s)
    <2>1. k \in 1 .. Len(s) /\ Len(s) \in Nat
        OBVIOUS
    <2>2. /\ SubSeq(s, 1, k - 1) \in Seq(Chars) /\ Len(SubSeq(s, 1, k - 1)) = k - 1
          /\ SubSeq(s, k + 1, Len(s)) \in Seq(Chars) /\ Len(SubSeq(s, k + 1, Len(s))) = Len(s) - k
        BY <2>1
    <2> DEFINE front == SubSeq(s, 1, k - 1)
               rest == SubSeq(s, k + 1, Len(s))
    <2>3. t = front \o rest
        BY <1>3 DEF RemoveAt
    <2> HIDE DEF front, rest
    <2>4. /\ front \in Seq(Chars) /\ Len(front) = k - 1
          /\ rest \in Seq(Chars) /\ Len(rest) = Len(s) - k
        BY <2>2 DEF front, rest
    <2>5. t \in Seq(Chars) /\ Len(t) = Len(front) + Len(rest)
        BY <2>3, <2>4, ConcatProperties
    <2>. QED  BY <2>1, <2>4, <2>5
<1>4. \/ \E k \in 1 .. Len(s), c \in Chars : t = [s EXCEPT ![k] = c]
      \/ \E k \in 2 .. Len(s) : t = [s EXCEPT ![k] = s[k - 1], ![k - 1] = s[k]]
      \/ \E k \in 1 .. Len(s) : t = RemoveAt(s, k)
    <2>1. DOMAIN s = 1 .. Len(s)
        OBVIOUS
    <2> DEFINE wrong == {[s EXCEPT ![k] = c] : k \in DOMAIN s, c \in 0 .. NotInAlphabet}
               swapped == {[s EXCEPT ![k] = s[k - 1], ![k - 1] = s[k]] : k \in 2 .. Len(s)}
               omitted == {RemoveAt(s, k) : k \in DOMAIN s}
    <2>2. t \in wrong \/ t \in swapped \/ t \in omitted
        <3> HIDE DEF wrong, swapped, omitted
        <3>1. t \in wrong \cup swapped \cup omitted
            BY DEF Mistyped, wrong, swapped, omitted
        <3>. QED  BY <3>1
    <2>3. t \in wrong => \E k \in 1 .. Len(s), c \in Chars : t = [s EXCEPT ![k] = c]
        BY <2>1 DEF Chars
    <2>4. t \in swapped => \E k \in 2 .. Len(s) : t = [s EXCEPT ![k] = s[k - 1], ![k - 1] = s[k]]
        BY Zenon
    <2>5. t \in omitted => \E k \in 1 .. Len(s) : t = RemoveAt(s, k)
        BY <2>1, Zenon
    <2>. QED  BY <2>2, <2>3, <2>4, <2>5
<1>. QED  BY <1>1, <1>2, <1>3, <1>4

\* One mistake in an accepted strkey is refused.
LEMMA MistypedIsRefused ==
    ASSUME NEW s \in Seq(Chars), Accepted(s), NEW t \in Mistyped(s), t # s
    PROVE  ~Accepted(t)
<1>1. SUFFICES ASSUME Accepted(t)
               PROVE  FALSE
    OBVIOUS
<1>2. Len(s) = StrkeyLength /\ Len(t) = StrkeyLength /\ StrkeyLength >= 2
    <2>1. StrkeyLength >= 2
        BY Sizes
    <2>. QED  BY <1>1, <2>1 DEF Accepted
<1>3. t \in Seq(Chars)
    BY MistypedDiffers
<1>4. PICK p \in 1 .. StrkeyLength - 1 :
          \A k \in 1 .. StrkeyLength : k # p /\ k # p + 1 => s[k] = t[k]
    <2>1. Len(t) = Len(s) /\ Len(s) >= 2
        BY <1>2
    <2>2. Len(s) >= 2 => \E p \in 1 .. Len(s) - 1 :
              \A k \in 1 .. Len(s) : k # p /\ k # p + 1 => s[k] = t[k]
        BY <2>1, MistypedDiffers
    <2>. QED  BY <1>2, <2>1, <2>2
<1>5. s = t
    BY <1>1, <1>3, <1>4, NeighboursShow
<1>. QED  BY <1>5

\* The first eight bits, as a version.
LEMMA VersionHasLetter ==
    ASSUME NEW chars \in Seq(Chars), Len(chars) = StrkeyLength,
           Len(Base32Decode(chars)) >= 24
    PROVE  /\ SubSeq(Base32Decode(chars), 1, 8) = AccountVersion => chars[1] = LetterG
           /\ SubSeq(Base32Decode(chars), 1, 8) = ContractVersion => chars[1] = LetterC
<1> DEFINE bits == Base32Decode(chars)
           n == BodyBits + 16
<1>1. n \in Nat /\ n >= 32 /\ StrkeyLength >= 2
    BY Sizes
<1>2. /\ chars[1] \in 0 .. 31
      /\ bits \in [1 .. n -> Bit]
      /\ bits = [j \in 1 .. n |-> CharBit(chars[(j + 4) \div 5], ((j + 4) % 5) + 1)]
    <2>1. 1 \in 1 .. StrkeyLength
        BY Sizes
    <2>. QED  BY <2>1, AcceptedIsCodeword
<1> HIDE DEF bits, n
<1>3. \A j \in 1 .. 5 : bits[j] = CharBit(chars[1], j)
    <2>1. ASSUME NEW j \in 1 .. 5
          PROVE  bits[j] = CharBit(chars[1], j)
        <3>1. j \in 1 .. n /\ (j + 4) \div 5 = 1 /\ ((j + 4) % 5) + 1 = j
            BY <1>1
        <3>. QED  BY <1>2, <3>1
    <2>. QED  BY <2>1
<1>4. \A j \in 1 .. 8 : SubSeq(bits, 1, 8)[j] = bits[j]
    <2>1. PICK i \in 1 .. n + 1 : i = 1
        BY <1>1
    <2>2. PICK l \in 0 .. n : l = 8 /\ i <= l + 1
        BY <1>1, <2>1
    <2>3. SubSeq(bits, i, l) = [k \in 1 .. l - i + 1 |-> bits[k + i - 1]]
        BY <1>1, <1>2, <2>2, BitsWithin
    <2>4. l - i + 1 = 8 /\ \A k \in 1 .. 8 : k + i - 1 = k
        BY <2>1, <2>2
    <2>. QED  BY <2>1, <2>2, <2>3, <2>4
<1>5. /\ 1 \in 1 .. 5 /\ 2 \in 1 .. 5 /\ 3 \in 1 .. 5 /\ 4 \in 1 .. 5 /\ 5 \in 1 .. 5
      /\ (1 .. 5) \subseteq (1 .. 8)
    OBVIOUS
<1>6. PICK c \in 0 .. 31 : c = chars[1]
    BY <1>2
<1>7. \A j \in 1 .. 5 : SubSeq(bits, 1, 8)[j] = CharBit(c, j)
    BY <1>3, <1>4, <1>5, <1>6
<1> DEFINE version == SubSeq(bits, 1, 8)
<1> HIDE DEF version
<1>8. /\ version[1] = (c \div 16) % 2 /\ version[2] = (c \div 8) % 2 /\ version[3] = (c \div 4) % 2
      /\ version[4] = (c \div 2) % 2 /\ version[5] = (c \div 1) % 2
    BY <1>5, <1>7, CharBits DEF version
<1>9. version = AccountVersion => c = LetterG
    <2>1. /\ AccountVersion[1] = 0 /\ AccountVersion[2] = 0 /\ AccountVersion[3] = 1
          /\ AccountVersion[4] = 1 /\ AccountVersion[5] = 0
        BY DEF AccountVersion
    <2>. QED  BY <1>8, <2>1 DEF LetterG
<1>10. version = ContractVersion => c = LetterC
    <2>1. /\ ContractVersion[1] = 0 /\ ContractVersion[2] = 0 /\ ContractVersion[3] = 0
          /\ ContractVersion[4] = 1 /\ ContractVersion[5] = 0
        BY DEF ContractVersion
    <2>. QED  BY <1>8, <2>1 DEF LetterC
<1>. QED  BY <1>6, <1>9, <1>10 DEF version, bits

\* A strkey is an address, and decodes to what it was written for.
LEMMA StrkeyIsAddress ==
    ASSUME NEW v \in Versions, NEW key \in KeyBits
    PROVE  /\ Strkey(v, key) \in Seq(Chars) /\ Len(Strkey(v, key)) = StrkeyLength
           /\ IsStellarAddress(Strkey(v, key)) /\ Accepted(Strkey(v, key))
           /\ DecodeStrkey(Strkey(v, key)) = <<v, key>>
<1> DEFINE chars == Strkey(v, key)
           bits == Base32Decode(chars)
           n == BodyBits
<1>1. n \in Nat /\ n >= 16 /\ n + 16 = 8 * (KeyBytes + 3) /\ StrkeyLength \in Nat
    BY Sizes
<1>2. chars \in Seq(Chars) /\ Len(chars) = StrkeyLength
    <2>1. chars \in [1 .. StrkeyLength -> 0 .. 31]
        BY StrkeyDecodes
    <2>2. 0 .. 31 \subseteq Chars
        BY DEF Chars, NotInAlphabet
    <2> HIDE DEF chars, bits
    <2>3. chars \in [1 .. StrkeyLength -> Chars]
        <3>1. \A k \in 1 .. StrkeyLength : chars[k] \in Chars
            BY <2>1, <2>2
        <3>. QED  BY <2>1, <3>1
    <2>4. PICK length \in Nat : length = StrkeyLength
        BY <1>1
    <2>5. chars \in [1 .. length -> Chars]
        BY <2>3, <2>4
    <2>6. chars \in Seq(Chars) /\ Len(chars) = length
        BY <2>5
    <2>. QED  BY <2>4, <2>6
<1>3. /\ bits \in [1 .. n + 16 -> Bit] /\ IsCodeword(bits, n)
      /\ SubSeq(bits, 1, 8) = v /\ SubSeq(bits, 9, n) = key
    <2>1. bits = StrkeyBits(v, key)
        BY StrkeyDecodes
    <2>. QED  BY <2>1, StrkeyIsCodeword
<1> HIDE DEF bits, chars
<1>4. ChecksumHolds(bits)
    BY <1>3, ChecksumIsCodeword
<1> HIDE DEF n
<1>5. Len(bits) = n + 16
    BY <1>1, <1>3
<1>6. Len(bits) >= 24 /\ Len(bits) = 8 * (KeyBytes + 3) /\ Len(bits) - 16 = n
    BY <1>1, <1>5
<1>7. /\ v = AccountVersion => chars[1] = LetterG
      /\ v = ContractVersion => chars[1] = LetterC
    BY <1>2, <1>3, <1>6, VersionHasLetter DEF bits
<1>8. v = AccountVersion \/ v = ContractVersion
    BY DEF Versions
<1>9. IsStellarAddress(chars)
    BY <1>2, <1>3, <1>4, <1>6, <1>7, <1>8 DEF IsStellarAddress, IsValidStrkey, bits
<1>10. Accepted(chars)
    BY <1>2, <1>4, <1>6 DEF Accepted, bits
<1>11. DecodeStrkey(chars) = <<v, key>>
    BY <1>3, <1>4, <1>6 DEF DecodeStrkey, bits
<1>. QED  BY <1>2, <1>9, <1>10, <1>11 DEF chars

\* The two implementations of the check take the same strings.
LEMMA AddressesDecode ==
    ASSUME NEW chars \in Seq(Chars)
    PROVE  IsStellarAddress(chars) <=> DecodeStrkey(chars) # Null
<1> DEFINE bits == Base32Decode(chars)
           n == BodyBits
           decoded == <<SubSeq(bits, 1, 8), SubSeq(bits, 9, Len(bits) - 16)>>
<1>1. /\ n \in Nat /\ n >= 16 /\ n + 16 = 8 * (KeyBytes + 3)
      /\ StrkeyLength \in Nat /\ 5 * StrkeyLength = n + 16
    BY Sizes
<1>2. decoded # Null
    <2>1. Len(decoded) = 2 /\ Len(Null) = 0
        BY DEF Null
    <2> HIDE DEF decoded
    <2>. QED  BY <2>1
<1> HIDE DEF decoded
<1>3. DecodeStrkey(chars) = IF /\ Len(bits) = 8 * (KeyBytes + 3)
                               /\ SubSeq(bits, 1, 8) \in Versions
                               /\ ChecksumHolds(bits)
                            THEN decoded ELSE Null
    BY DEF DecodeStrkey, decoded
<1>4. ASSUME IsStellarAddress(chars)
      PROVE  DecodeStrkey(chars) # Null
    <2>1. /\ Len(chars) = StrkeyLength
          /\ Len(bits) >= 24 /\ SubSeq(bits, 1, 8) \in Versions /\ ChecksumHolds(bits)
        BY <1>4 DEF IsStellarAddress, IsValidStrkey, Versions
    <2>2. bits \in [1 .. n + 16 -> Bit]
        BY <2>1, AcceptedIsCodeword
    <2> HIDE DEF bits, n
    <2>3. Len(bits) = n + 16
        BY <1>1, <2>2
    <2>. QED  BY <1>1, <1>2, <1>3, <2>1, <2>3
<1>5. ASSUME DecodeStrkey(chars) # Null
      PROVE  IsStellarAddress(chars)
    <2>1. Len(bits) = n + 16 /\ SubSeq(bits, 1, 8) \in Versions /\ ChecksumHolds(bits)
        BY <1>1, <1>3, <1>5
    <2>2. bits # Null
        <3>1. Len(Null) = 0
            BY DEF Null
        <3>. QED  BY <1>1, <2>1, <3>1
    <2>3. bits \in [1 .. 5 * Len(chars) -> Bit]
        BY <2>2, DecodedBits
    <2> HIDE DEF bits
    <2>4. Len(chars) = StrkeyLength
        <3>1. Len(bits) = 5 * Len(chars)
            BY <2>3
        <3> HIDE DEF n
        <3>. QED  BY <1>1, <2>1, <3>1
    <2>5. Len(bits) >= 24
        BY <1>1, <2>1
    <2>6. /\ SubSeq(bits, 1, 8) = AccountVersion => chars[1] = LetterG
          /\ SubSeq(bits, 1, 8) = ContractVersion => chars[1] = LetterC
        BY <2>4, <2>5, VersionHasLetter DEF bits
    <2>. QED  BY <2>1, <2>4, <2>5, <2>6 DEF IsStellarAddress, IsValidStrkey, Versions, bits
<1>. QED  BY <1>4, <1>5

\* Every one of the checks asks for an accepted strkey.
LEMMA OnlyAcceptedPass ==
    ASSUME NEW chars, IsStellarAddress(chars) \/ IsContractAsset(chars) \/ IsIssuer(chars)
    PROVE  Accepted(chars)
BY DEF IsStellarAddress, IsContractAsset, IsIssuer, IsValidStrkey, Accepted

-----------------------------------------------------------------------------
(* Amounts                                                                  *)

\* Division with rest.
LEMMA WholeAndRest ==
    ASSUME NEW a \in Nat, NEW b \in Nat, b > 0
    PROVE  a = b * (a \div b) + (a % b) /\ a \div b \in Nat /\ a % b \in 0 .. b - 1
<1>1. a = b * (a \div b) + (a % b)
    BY SMTT(60)
<1>. QED  BY <1>1

LEMMA Divides ==
    ASSUME NEW a \in Nat, NEW b \in Nat, b > 0
    PROVE  a % b = 0 <=> \E q \in Nat : a = b * q
<1>1. a % b = 0 => \E q \in Nat : a = b * q
    BY WholeAndRest
<1>2. ASSUME NEW q \in Nat, a = b * q
      PROVE  a % b = 0
    BY <1>2
<1>. QED  BY <1>1, <1>2

\* Min, of a set that has a least element.
LEMMA LeastIsMin ==
    ASSUME NEW S \in SUBSET Nat, S # {}
    PROVE  Min(S) \in S /\ \A k \in S : Min(S) <= k
<1>1. \E x \in S : \A y \in S : x <= y
    BY LeastMissing
<1>. QED  BY <1>1, Zenon DEF Min

\* The digits that are kept: the rest is a number of them, and the last of them is not zero.
LEMMA DigitsAreExact ==
    ASSUME NEW d \in Nat, NEW rest \in Nat
    PROVE  LET digits == Min({k \in 0 .. d : rest % Tens[d - k] = 0})
               fraction == rest \div Tens[d - digits]
           IN /\ digits \in 0 .. d /\ fraction \in Nat
              /\ rest = Tens[d - digits] * fraction
              /\ digits > 0 => fraction % 10 # 0
<1> DEFINE Exact == {k \in 0 .. d : rest % Tens[d - k] = 0}
           digits == Min(Exact)
<1>1. Exact \in SUBSET Nat /\ d \in Exact
    <2>1. PICK zero \in Nat : zero = d - d
        OBVIOUS
    <2>2. Tens[zero] = 1
        BY <2>1, TensRecur
    <2>3. rest % 1 = 0
        OBVIOUS
    <2>. QED  BY <2>1, <2>2, <2>3
<1>2. digits \in Exact /\ \A k \in Exact : digits <= k
    <2> HIDE DEF Exact
    <2>. QED  BY <1>1, LeastIsMin
<1> HIDE DEF digits
<1>3. digits \in 0 .. d /\ rest % Tens[d - digits] = 0
    BY <1>2
<1>4. PICK left \in Nat : left = d - digits
    BY <1>3
<1>5. PICK P \in Nat : P = Tens[left] /\ P > 0
    BY TensArePositive
<1>6. PICK fraction \in Nat : fraction = rest \div P /\ rest = P * fraction
    BY <1>3, <1>4, <1>5, WholeAndRest
<1>7. ASSUME digits > 0, fraction % 10 = 0
      PROVE  FALSE
    <2>1. PICK q \in Nat : fraction = 10 * q
        BY <1>7, Divides
    <2>2. PICK fewer \in 0 .. d : fewer = digits - 1
        BY <1>3, <1>7
    <2>3. d - fewer = left + 1 /\ Tens[left + 1] = 10 * P
        BY <1>3, <1>4, <1>5, <2>2, TensRecur
    <2>4. PICK B \in Nat : B = 10 * P /\ B > 0
        BY <1>5
    <2>5. rest = B * q
        BY <1>6, <2>1, <2>4
    <2>6. rest % B = 0
        BY <2>4, <2>5, Divides
    <2>7. fewer \in Exact
        BY <2>3, <2>4, <2>6
    <2>8. digits <= fewer
        BY <1>2, <2>7
    <2>. QED  BY <1>3, <2>2, <2>8
<1>. QED  BY <1>3, <1>4, <1>5, <1>6, <1>7 DEF digits, Exact

\* What is shown of an amount: its parts, and that they make it again.
LEMMA ShownIsExact ==
    ASSUME NEW n \in Int, NEW d \in Nat
    PROVE  LET h == FromSmallestUnits(n, d)
               magnitude == IF n < 0 THEN -n ELSE n
           IN /\ (h.negative <=> n < 0) /\ h.digits \in 0 .. d
              /\ (h.whole * Tens[h.digits] + h.fraction) * Tens[d - h.digits] = magnitude
              /\ h.whole * Tens[d] + h.fraction * Tens[d - h.digits] = magnitude
              /\ h.digits > 0 => h.fraction % 10 # 0
<1> DEFINE h == FromSmallestUnits(n, d)
<1>1. PICK magnitude \in Nat : magnitude = IF n < 0 THEN -n ELSE n
    OBVIOUS
<1>2. PICK T \in Nat : T = Tens[d] /\ T > 0
    BY TensArePositive
<1>3. PICK whole \in Nat, rest \in Nat :
          whole = magnitude \div T /\ rest = magnitude % T /\ magnitude = T * whole + rest
    <2>1. /\ magnitude = T * (magnitude \div T) + (magnitude % T)
          /\ magnitude \div T \in Nat /\ magnitude % T \in 0 .. T - 1
        BY <1>2, WholeAndRest
    <2>. QED  BY <1>2, <2>1
<1>4. PICK digits : digits = Min({k \in 0 .. d : rest % Tens[d - k] = 0})
    OBVIOUS
<1>5. PICK fraction : fraction = rest \div Tens[d - digits]
    OBVIOUS
<1>6. /\ digits \in 0 .. d /\ fraction \in Nat
      /\ rest = Tens[d - digits] * fraction
      /\ digits > 0 => fraction % 10 # 0
    BY <1>4, <1>5, DigitsAreExact
<1>7. h = [negative |-> n < 0, whole |-> whole, fraction |-> fraction, digits |-> digits]
    BY <1>1, <1>2, <1>3, <1>4, <1>5 DEF FromSmallestUnits
<1>8. PICK left \in Nat : left = d - digits
    BY <1>6
<1>9. PICK D \in Nat, P \in Nat : D = Tens[digits] /\ P = Tens[left]
    BY <1>6, TensArePositive
<1>10. T = D * P
    <2>1. digits \in Nat /\ digits + left = d
        BY <1>6, <1>8
    <2>. QED  BY <1>2, <1>9, <2>1, TensMultiply
<1>11. rest = P * fraction
    BY <1>6, <1>8, <1>9
<1>12. (whole * D + fraction) * P = magnitude /\ whole * T + fraction * P = magnitude
    BY <1>3, <1>6, <1>10, <1>11
<1> HIDE DEF h
<1>13. /\ h.whole = whole /\ h.fraction = fraction /\ h.digits = digits
       /\ (h.negative <=> n < 0)
    BY <1>7
<1>. QED  BY <1>1, <1>2, <1>6, <1>8, <1>9, <1>12, <1>13 DEF h

\* An amount of either sign, with any number of decimals.
LEMMA AmountsReadBack ==
    ASSUME amount \in Int, decimals \in Nat
    PROVE  AmountsRoundTrip
<1> DEFINE h == FromSmallestUnits(amount, decimals)
<1>1. PICK magnitude : magnitude = IF amount < 0 THEN -amount ELSE amount
    OBVIOUS
<1>2. /\ (h.negative <=> amount < 0) /\ h.digits \in 0 .. decimals
      /\ (h.whole * Tens[h.digits] + h.fraction) * Tens[decimals - h.digits] = magnitude
      /\ h.whole * Tens[decimals] + h.fraction * Tens[decimals - h.digits] = magnitude
      /\ h.digits > 0 => h.fraction % 10 # 0
    BY <1>1, ShownIsExact
<1> HIDE DEF h
<1>3. ~(h.digits > decimals)
    BY <1>2
<1>4. ToSmallestUnits(h, decimals) =
          IF amount < 0 THEN NoAmount ELSE [refused |-> FALSE, units |-> magnitude]
    BY <1>2, <1>3 DEF ToSmallestUnits
<1>5. ToSmallestUnits(h, decimals) =
          IF amount < 0 THEN NoAmount ELSE [refused |-> FALSE, units |-> amount]
    BY <1>1, <1>4
<1>. QED  BY <1>1, <1>2, <1>5 DEF AmountsRoundTrip, h
-----------------------------------------------------------------------------
(* What is in the variables.                                                *)

\* What is written is a strkey, and what is typed is it with one mistake at most.
TextsAreKept ==
    /\ amount \in Int /\ decimals \in Nat
    /\ \/ written = Null /\ typed = Null
       \/ \E v \in Versions, key \in Keys :
              written = Strkey(v, key) /\ (typed = written \/ typed \in Mistyped(written))
    /\ written # Null /\ slips = 0 => typed = written

LEMMA KeysAreBits == Keys \subseteq KeyBits
BY EncodingsAssumption DEF KeyBits, Bit

\* A strkey is never empty.
LEMMA StrkeyIsSomething ==
    ASSUME NEW v \in Versions, NEW key \in Keys
    PROVE  Strkey(v, key) # Null
<1>1. Len(Strkey(v, key)) = StrkeyLength
    BY KeysAreBits, StrkeyIsAddress
<1>2. StrkeyLength >= 2
    BY Sizes
<1>3. Len(Null) = 0
    BY DEF Null
<1>. QED  BY <1>1, <1>2, <1>3

\* The invariant is what makes the texts faithful.
LEMMA KeptTextsAreFaithful == TextsAreKept => FormsAreFaithful
<1>1. SUFFICES ASSUME TextsAreKept
               PROVE  SlipIsCaught /\ DecodersAgree /\ AmountsRoundTrip
    BY DEF FormsAreFaithful
<1>2. AmountsRoundTrip
    BY <1>1, AmountsReadBack DEF TextsAreKept
<1>3. CASE written = Null /\ typed = Null
    <2>1. Null \in Seq(Chars) /\ Len(Null) = 0
        BY DEF Null
    <2>2. ~IsStellarAddress(Null)
        <3>1. StrkeyLength # 0
            BY Sizes
        <3>. QED  BY <2>1, <3>1 DEF IsStellarAddress
    <2>3. DecodeStrkey(Null) = Null
        BY <2>1, <2>2, AddressesDecode
    <2>. QED  BY <1>2, <1>3, <2>2, <2>3 DEF SlipIsCaught, DecodersAgree
<1>4. ASSUME NEW v \in Versions, NEW key \in Keys,
             written = Strkey(v, key), typed = written \/ typed \in Mistyped(written)
      PROVE  SlipIsCaught /\ DecodersAgree
    <2>1. /\ written \in Seq(Chars) /\ IsStellarAddress(written) /\ Accepted(written)
          /\ DecodeStrkey(written) = <<v, key>>
        BY <1>4, KeysAreBits, StrkeyIsAddress
    <2>2. typed \in Seq(Chars)
        BY <1>4, <2>1, MistypedDiffers
    <2>3. SlipIsCaught
        <3>1. CASE typed = written
            BY <2>1, <3>1 DEF SlipIsCaught
        <3>2. CASE typed # written
            <4>1. ~Accepted(typed)
                BY <1>4, <2>1, <3>2, MistypedIsRefused
            <4>. QED  BY <3>2, <4>1, OnlyAcceptedPass DEF SlipIsCaught
        <3>. QED  BY <3>1, <3>2
    <2>4. IsStellarAddress(typed) <=> DecodeStrkey(typed) # Null
        BY <2>2, AddressesDecode
    <2>5. Strkey(DecodeStrkey(written)[1], DecodeStrkey(written)[2]) = written
        <3>1. DecodeStrkey(written)[1] = v /\ DecodeStrkey(written)[2] = key
            BY <2>1
        <3>. QED  BY <1>4, <3>1
    <2>. QED  BY <2>3, <2>4, <2>5 DEF DecodersAgree
<1>. QED  BY <1>1, <1>2, <1>3, <1>4 DEF TextsAreKept

LEMMA TextsAreKeptAtFirst == EncInit => TextsAreKept
BY DEF EncInit, TextsAreKept

LEMMA TextsStayKept == TextsAreKept /\ [EncNext]_encVars => TextsAreKept'
<1>1. SUFFICES ASSUME TextsAreKept, [EncNext]_encVars
               PROVE  TextsAreKept'
    OBVIOUS
<1>2. CASE Write
    <2>1. PICK v \in Versions, key \in Keys : written' = Strkey(v, key)
        BY <1>2 DEF Write
    <2>. QED  BY <1>1, <1>2, <2>1 DEF Write, TextsAreKept
<1>3. CASE Slip
    <2>1. /\ written # Null /\ slips = 0 /\ slips' = 1 /\ typed' \in Mistyped(typed)
          /\ UNCHANGED <<written, amount, decimals>>
        BY <1>3 DEF Slip
    <2>2. typed = written
        BY <1>1, <2>1 DEF TextsAreKept
    <2>3. PICK v \in Versions, key \in Keys : written = Strkey(v, key)
        BY <1>1, <2>1 DEF TextsAreKept
    <2>. QED  BY <1>1, <2>1, <2>2, <2>3 DEF TextsAreKept
<1>4. CASE Show
    <2>1. amount' \in Int /\ decimals' \in Nat /\ UNCHANGED <<written, typed, slips>>
        BY <1>4, EncodingsAssumption DEF Show
    <2>. QED  BY <1>1, <2>1 DEF TextsAreKept
<1>5. CASE UNCHANGED encVars
    BY <1>1, <1>5 DEF TextsAreKept, encVars
<1>. QED  BY <1>1, <1>2, <1>3, <1>4, <1>5 DEF EncNext

\* Whatever key of whatever length is written, one wrong character, two neighbours swapped or
\* a character left out is refused by isStellarAddress, isStellarAsset and the check of an
\* issuer (the checksum finds every burst this short); isStellarAddress and decodeStrkey take
\* the same strings, and decoding gives back what was written (src/sdk/src/stellar.ts); an
\* amount of any size and any number of decimals is shown exactly, without trailing zeros,
\* and reads back as itself (src/sdk/src/units.ts).
THEOREM TextKeepsItsMeaning == EncSpec => []FormsAreFaithful
BY TextsAreKeptAtFirst, TextsStayKept, KeptTextsAreFaithful, PTL DEF EncSpec

=============================================================================
