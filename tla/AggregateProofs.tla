--------------------------- MODULE AggregateProofs ---------------------------
(* What the sums of a mapping do when one entry or every entry changes, what *)
(* a selection keeps of its sequence, the windows of a length, and the       *)
(* powers of ten.                                                            *)
EXTENDS Aggregates, SequenceTheorems, FiniteSetTheorems, WellFoundedInduction, TLAPS
-----------------------------------------------------------------------------
LEMMA PartialSumsExist ==
    ASSUME NEW S, NEW keys \in Seq(S), NEW amount
    PROVE  LET sum == PartialSums(keys, amount)
           IN /\ DOMAIN sum = 0 .. Len(keys)
              /\ sum[0] = 0
              /\ \A i \in 1 .. Len(keys) : sum[i] = sum[i - 1] + amount[keys[i]]
<1> DEFINE IsSum(f, n) == f = [i \in 0 .. n |-> IF i = 0 THEN 0 ELSE f[i - 1] + amount[keys[i]]]
           Missing == {n \in Nat : ~ \E f : IsSum(f, n)}
<1>1. Missing = {}
    <2>1. SUFFICES ASSUME Missing # {}
                   PROVE  FALSE
        OBVIOUS
    <2>2. PICK n \in Missing : \A m \in Missing : ~(m < n)
        <3>1. PICK n \in Missing : \A m \in Missing : ~(<<m, n>> \in OpToRel(<, Nat))
            BY <2>1, NatLessThanWellFounded, WFMin
        <3>. QED  BY <3>1 DEF OpToRel
    <2>3. n # 0
        <3>1. IsSum([i \in 0 .. 0 |-> 0], 0)
            OBVIOUS
        <3>. QED  BY <3>1
    <2>4. n - 1 \in Nat /\ n - 1 < n
        BY <2>3
    <2>5. PICK f : IsSum(f, n - 1)
        BY <2>2, <2>4
    <2> DEFINE g == [i \in 0 .. n |-> IF i = n THEN f[n - 1] + amount[keys[n]] ELSE f[i]]
    <2>6. ASSUME NEW i \in 0 .. n
          PROVE  g[i] = IF i = 0 THEN 0 ELSE g[i - 1] + amount[keys[i]]
        <3>1. CASE i = n
            BY <2>2, <2>3, <3>1
        <3>2. CASE i # n
            <4>1. i \in 0 .. n - 1 /\ (i # 0 => i - 1 \in 0 .. n - 1)
                BY <2>2, <3>2
            <4>2. f[i] = IF i = 0 THEN 0 ELSE f[i - 1] + amount[keys[i]]
                BY <2>5, <4>1
            <4>. QED  BY <2>2, <3>2, <4>1, <4>2
        <3>. QED  BY <3>1, <3>2
    <2>7. IsSum(g, n)
        BY <2>6
    <2>. QED  BY <2>2, <2>7
<1>2. Len(keys) \in Nat
    OBVIOUS
<1>3. PICK f : IsSum(f, Len(keys))
    BY <1>1, <1>2
<1>4. IsSum(PartialSums(keys, amount), Len(keys))
    BY <1>3 DEF PartialSums
<1>. QED  BY <1>2, <1>4

LEMMA InductionTo ==
    ASSUME NEW n \in Nat, NEW P, 0 \in P, \A i \in 1 .. n : i - 1 \in P => i \in P
    PROVE  n \in P
<1> DEFINE Missing == {i \in 0 .. n : i \notin P}
<1>1. SUFFICES ASSUME Missing # {}
               PROVE  FALSE
    OBVIOUS
<1>2. PICK m \in Missing : \A i \in Missing : ~(i < m)
    <2>1. Missing \subseteq Nat
        OBVIOUS
    <2>2. PICK m \in Missing : \A i \in Missing : ~(<<i, m>> \in OpToRel(<, Nat))
        BY <1>1, <2>1, NatLessThanWellFounded, WFMin
    <2>. QED  BY <2>1, <2>2 DEF OpToRel
<1>3. m \in 1 .. n /\ m - 1 \in 0 .. n /\ m - 1 < m
    BY <1>2
<1>4. m - 1 \in P
    BY <1>2, <1>3
<1>. QED  BY <1>2, <1>3, <1>4

LEMMA TotalIsInt ==
    ASSUME NEW S, NEW keys \in Seq(S), NEW amount, \A h \in S : amount[h] \in Int
    PROVE  \A i \in 0 .. Len(keys) : PartialSums(keys, amount)[i] \in Int
<1> DEFINE sum == PartialSums(keys, amount)
           P == {i \in 0 .. Len(keys) : sum[i] \in Int}
<1>1. /\ sum[0] = 0
      /\ \A i \in 1 .. Len(keys) : sum[i] = sum[i - 1] + amount[keys[i]]
    BY PartialSumsExist
<1> HIDE DEF sum
<1>2. \A i \in 1 .. Len(keys) : keys[i] \in S
    OBVIOUS
<1>3. ASSUME NEW n \in 0 .. Len(keys)
      PROVE  n \in P
    <2>1. 0 \in P /\ \A i \in 1 .. n : i - 1 \in P => i \in P
        BY <1>1, <1>2
    <2>2. n \in Nat
        OBVIOUS
    <2> HIDE DEF P
    <2>. QED  BY <2>1, <2>2, InductionTo
<1>. QED  BY <1>3 DEF sum

(* A sum of more is no less.                                                 *)
LEMMA TotalsCompare ==
    ASSUME NEW S, NEW keys \in Seq(S), NEW less, NEW more,
           \A h \in S : less[h] \in Int /\ more[h] \in Int /\ less[h] <= more[h]
    PROVE  Total(keys, less) <= Total(keys, more)
<1> DEFINE low == PartialSums(keys, less)
           high == PartialSums(keys, more)
           P == {i \in 0 .. Len(keys) : low[i] <= high[i]}
<1>1. /\ low[0] = 0 /\ high[0] = 0
      /\ \A i \in 1 .. Len(keys) : /\ low[i] = low[i - 1] + less[keys[i]]
                                   /\ high[i] = high[i - 1] + more[keys[i]]
    BY PartialSumsExist
<1>2. \A i \in 0 .. Len(keys) : low[i] \in Int /\ high[i] \in Int
    BY TotalIsInt
<1> HIDE DEF low, high
<1>3. \A i \in 1 .. Len(keys) : keys[i] \in S
    OBVIOUS
<1>4. 0 \in P
    BY <1>1
<1>5. ASSUME NEW i \in 1 .. Len(keys), i - 1 \in P
      PROVE  i \in P
    <2>1. /\ low[i] = low[i - 1] + less[keys[i]] /\ high[i] = high[i - 1] + more[keys[i]]
          /\ less[keys[i]] \in Int /\ more[keys[i]] \in Int /\ less[keys[i]] <= more[keys[i]]
          /\ low[i - 1] \in Int /\ high[i - 1] \in Int /\ low[i - 1] <= high[i - 1]
        BY <1>1, <1>2, <1>3, <1>5
    <2>. QED  BY <2>1
<1>6. Len(keys) \in Nat
    OBVIOUS
<1>7. Len(keys) \in P
    <2> HIDE DEF P
    <2>. QED  BY <1>4, <1>5, <1>6, InductionTo
<1>. QED  BY <1>7 DEF Total, low, high

(* A sum in which one entry changes changes by as much.                      *)
LEMMA TotalOfChange ==
    ASSUME NEW S, NEW keys, Enumerates(keys, S), NEW old, NEW new, NEW c \in S,
           \A h \in S : old[h] \in Int /\ new[h] \in Int,
           \A h \in S : h # c => new[h] = old[h]
    PROVE  Total(keys, new) = Total(keys, old) + (new[c] - old[c])
<1> DEFINE a == PartialSums(keys, old)
           b == PartialSums(keys, new)
           d == new[c] - old[c]
<1>0. keys \in Seq(S) /\ DOMAIN keys = 1 .. Len(keys) /\ Len(keys) \in Nat
    BY DEF Enumerates
<1>1. /\ a[0] = 0 /\ b[0] = 0
      /\ \A i \in 1 .. Len(keys) : /\ a[i] = a[i - 1] + old[keys[i]]
                                   /\ b[i] = b[i - 1] + new[keys[i]]
    BY <1>0, PartialSumsExist
<1>2. \A i \in 0 .. Len(keys) : a[i] \in Int /\ b[i] \in Int
    BY <1>0, TotalIsInt
<1> HIDE DEF a, b
<1>3. PICK k \in 1 .. Len(keys) : keys[k] = c
    BY <1>0 DEF Enumerates
<1>4. \A i \in 1 .. Len(keys) : keys[i] \in S /\ (keys[i] = c => i = k)
    BY <1>0, <1>3 DEF Enumerates
<1> DEFINE P == {i \in 0 .. Len(keys) : b[i] = IF i < k THEN a[i] ELSE a[i] + d}
<1>5. 0 \in P
    BY <1>0, <1>1
<1>6. ASSUME NEW i \in 1 .. Len(keys), i - 1 \in P
      PROVE  i \in P
    <2>1. /\ a[i] = a[i - 1] + old[keys[i]] /\ b[i] = b[i - 1] + new[keys[i]]
          /\ a[i] \in Int /\ b[i] \in Int /\ a[i - 1] \in Int /\ b[i - 1] \in Int
          /\ old[keys[i]] \in Int /\ new[keys[i]] \in Int
        BY <1>0, <1>1, <1>2, <1>4
    <2>2. CASE i = k
        <3>1. b[i - 1] = a[i - 1] /\ keys[i] = c
            BY <1>3, <1>6, <2>2
        <3>. QED  BY <2>1, <2>2, <3>1
    <2>3. CASE i # k
        <3>1. new[keys[i]] = old[keys[i]]
            BY <1>4, <2>3
        <3>. QED  BY <1>6, <2>1, <2>3, <3>1
    <2>. QED  BY <2>2, <2>3
<1>7. Len(keys) \in P
    <2> HIDE DEF P
    <2>. QED  BY <1>0, <1>5, <1>6, InductionTo
<1>. QED  BY <1>0, <1>7 DEF Total, a, b

LEMMA ZeroTotal ==
    ASSUME NEW S, NEW keys \in Seq(S), NEW zero, \A h \in S : zero[h] = 0
    PROVE  Total(keys, zero) = 0
<1> DEFINE sum == PartialSums(keys, zero)
           P == {i \in 0 .. Len(keys) : sum[i] = 0}
<1>1. /\ sum[0] = 0
      /\ \A i \in 1 .. Len(keys) : sum[i] = sum[i - 1] + zero[keys[i]]
    BY PartialSumsExist
<1> HIDE DEF sum
<1>2. Len(keys) \in Nat /\ \A i \in 1 .. Len(keys) : keys[i] \in S
    OBVIOUS
<1>3. 0 \in P /\ \A i \in 1 .. Len(keys) : i - 1 \in P => i \in P
    BY <1>1, <1>2
<1>4. Len(keys) \in P
    <2> HIDE DEF P
    <2>. QED  BY <1>2, <1>3, InductionTo
<1>. QED  BY <1>4 DEF Total, sum

LEMMA TotalIsNat ==
    ASSUME NEW S, NEW keys, Enumerates(keys, S), NEW amount,
           \A h \in S : amount[h] \in Nat
    PROVE  Total(keys, amount) \in Nat
<1> DEFINE zero == [h \in S |-> 0]
<1>1. /\ keys \in Seq(S) /\ Len(keys) \in Nat
      /\ \A h \in S : zero[h] = 0
      /\ \A h \in S : zero[h] \in Int /\ amount[h] \in Int /\ zero[h] <= amount[h]
      /\ \A h \in S : amount[h] \in Int
    BY DEF Enumerates
<1> HIDE DEF zero
<1>2. Total(keys, zero) = 0
    BY <1>1, ZeroTotal
<1>3. Total(keys, zero) <= Total(keys, amount)
    BY <1>1, TotalsCompare
<1>4. Total(keys, amount) \in Int
    BY <1>1, TotalIsInt DEF Total
<1>. QED  BY <1>2, <1>3, <1>4

(* A sum of no less than zero is no less than any of its entries.            *)
LEMMA TotalCoversEach ==
    ASSUME NEW S, NEW keys, Enumerates(keys, S), NEW amount, NEW c \in S,
           \A h \in S : amount[h] \in Nat
    PROVE  Total(keys, amount) \in Nat /\ amount[c] <= Total(keys, amount)
<1> DEFINE zero == [h \in S |-> 0]
           others == [h \in S |-> IF h = c THEN 0 ELSE amount[h]]
<1>1. keys \in Seq(S) /\ Len(keys) \in Nat
    BY DEF Enumerates
<1>2. /\ \A h \in S : amount[h] \in Int /\ others[h] \in Int
      /\ \A h \in S : zero[h] = 0
      /\ \A h \in S : zero[h] \in Int /\ others[h] \in Int /\ zero[h] <= others[h]
      /\ \A h \in S : h # c => others[h] = amount[h]
      /\ others[c] = 0
    OBVIOUS
<1> HIDE DEF zero, others
<1>3. Total(keys, others) = Total(keys, amount) + (others[c] - amount[c])
    <2>1. \A old, new :
             /\ \A h \in S : old[h] \in Int /\ new[h] \in Int
             /\ \A h \in S : h # c => new[h] = old[h]
             => Total(keys, new) = Total(keys, old) + (new[c] - old[c])
        BY TotalOfChange
    <2>. QED  BY <1>2, <2>1
<1>4. Total(keys, zero) = 0
    BY <1>1, <1>2, ZeroTotal
<1>5. Total(keys, zero) <= Total(keys, others)
    BY <1>1, <1>2, TotalsCompare
<1>6. Total(keys, amount) \in Int
    BY <1>1, <1>2, TotalIsInt DEF Total
<1>7. Total(keys, others) = Total(keys, amount) - amount[c]
    BY <1>2, <1>3, <1>6
<1>. QED  BY <1>2, <1>4, <1>5, <1>6, <1>7

LEMMA EnumerationExists ==
    ASSUME NEW S, IsFiniteSet(S)
    PROVE  Enumerates(SetToSeq(S), S)
<1> DEFINE n == Cardinality(S)
<1>1. n \in Nat /\ ExistsBijection(1 .. n, S)
    BY FS_CardinalityType
<1>2. PICK f \in [1 .. n -> S] : IsInjective(f)
    BY <1>1 DEF ExistsBijection, Bijection, Injection, IsInjective
<1>3. SetToSeq(S) \in [1 .. n -> S] /\ IsInjective(SetToSeq(S))
    BY <1>2 DEF SetToSeq
<1> DEFINE keys == SetToSeq(S)
<1>4. keys \in [1 .. n -> S] /\ IsInjective(keys)
    BY <1>3
<1> HIDE DEF keys
<1>5. keys \in Injection(1 .. n, S)
    BY <1>4 DEF Injection, IsInjective
<1>6. Cardinality(1 .. n) = Cardinality(S)
    BY <1>1, FS_Interval
<1>7. keys \in Surjection(1 .. n, S)
    BY <1>5, <1>6, FS_Injection
<1>8. \A h \in S : \E i \in 1 .. n : keys[i] = h
    BY <1>7 DEF Surjection
<1>9. keys \in Seq(S) /\ DOMAIN keys = 1 .. n
    BY <1>1, <1>4
<1>10. Enumerates(keys, S)
    BY <1>4, <1>8, <1>9 DEF Enumerates, IsInjective
<1>. QED  BY <1>10 DEF keys
-----------------------------------------------------------------------------
LEMMA SelectionsExist ==
    ASSUME NEW S, NEW seq \in Seq(S), NEW K
    PROVE  LET kept == Selections(seq, K)
           IN /\ DOMAIN kept = 0 .. Len(seq)
              /\ kept[0] = <<>>
              /\ \A i \in 1 .. Len(seq) :
                     kept[i] = IF seq[i] \in K THEN Append(kept[i - 1], seq[i])
                                               ELSE kept[i - 1]
<1> DEFINE Kept(f, i) == IF i = 0 THEN <<>>
                         ELSE IF seq[i] \in K THEN Append(f[i - 1], seq[i]) ELSE f[i - 1]
           AreKept(f, n) == f = [i \in 0 .. n |-> Kept(f, i)]
           P == {n \in Nat : \E f : AreKept(f, n)}
<1>1. Len(seq) \in Nat
    OBVIOUS
<1>2. 0 \in P
    <2>1. AreKept([i \in 0 .. 0 |-> <<>>], 0)
        OBVIOUS
    <2>. QED  BY <2>1
<1>3. ASSUME NEW n \in 1 .. Len(seq), n - 1 \in P
      PROVE  n \in P
    <2>1. PICK f : AreKept(f, n - 1)
        BY <1>3
    <2> DEFINE g == [i \in 0 .. n |-> IF i = n THEN Kept(f, n) ELSE f[i]]
    <2>2. ASSUME NEW i \in 0 .. n
          PROVE  g[i] = Kept(g, i)
        <3>1. CASE i = n
            <4>1. g[n - 1] = f[n - 1]
                BY <1>3
            <4>. QED  BY <1>3, <3>1, <4>1
        <3>2. CASE i # n
            <4>1. i \in 0 .. n - 1 /\ (i # 0 => i - 1 \in 0 .. n - 1)
                BY <3>2
            <4>2. f[i] = Kept(f, i)
                <5> HIDE DEF Kept
                <5>. QED  BY <2>1, <4>1
            <4>3. g[i] = f[i] /\ (i # 0 => g[i - 1] = f[i - 1])
                <5>1. (i - 1 \in 0 .. n /\ i - 1 # n) \/ i = 0
                    BY <1>3, <4>1
                <5> HIDE DEF Kept
                <5>. QED  BY <3>2, <5>1
            <4>. QED  BY <4>2, <4>3
        <3>. QED  BY <3>1, <3>2
    <2>3. AreKept(g, n)
        <3> HIDE DEF Kept
        <3>. QED  BY <2>2
    <2>4. n \in Nat /\ \E h : AreKept(h, n)
        <3> HIDE DEF g, AreKept
        <3>. QED  BY <1>3, <2>3
    <2> HIDE DEF AreKept
    <2>. QED  BY <2>4
<1>4. Len(seq) \in P
    <2> HIDE DEF P
    <2>. QED  BY <1>1, <1>2, <1>3, InductionTo
<1>5. PICK f : AreKept(f, Len(seq))
    BY <1>4
<1>6. AreKept(Selections(seq, K), Len(seq))
    BY <1>5 DEF Selections
<1>7. PICK kept : kept = Selections(seq, K)
    OBVIOUS
<1>8. kept = [i \in 0 .. Len(seq) |-> Kept(kept, i)]
    BY <1>6, <1>7
<1>9. DOMAIN kept = 0 .. Len(seq) /\ \A i \in 0 .. Len(seq) : kept[i] = Kept(kept, i)
    <2> HIDE DEF Kept
    <2>. QED  BY <1>8
<1>10. \A i \in 1 .. Len(seq) : i \in 0 .. Len(seq) /\ i # 0
    BY <1>1
<1>11. kept[0] = <<>>
    BY <1>1, <1>9
<1>12. \A i \in 1 .. Len(seq) :
           kept[i] = IF seq[i] \in K THEN Append(kept[i - 1], seq[i]) ELSE kept[i - 1]
    BY <1>9, <1>10
<1>. QED  BY <1>7, <1>9, <1>11, <1>12

\* What a selection keeps: the entry at each place of an increasing list of places.
Thinned(kept, seq, n, places, K) ==
    /\ places \in [1 .. Len(kept) -> 1 .. n]
    /\ \A i \in 1 .. Len(kept) : kept[i] = seq[places[i]]
    /\ \A i, j \in 1 .. Len(kept) : i < j => places[i] < places[j]
    /\ \A k \in 1 .. n : seq[k] \in K <=> \E i \in 1 .. Len(kept) : places[i] = k
    /\ Len(kept) <= n
    /\ (\E k \in 1 .. n : seq[k] \notin K) => Len(kept) < n

LEMMA SelectionIsThinned ==
    ASSUME NEW S, NEW seq \in Seq(S), NEW K
    PROVE  /\ Selected(seq, K) \in Seq(S)
           /\ \E places : Thinned(Selected(seq, K), seq, Len(seq), places, K)
<1> DEFINE kept == Selections(seq, K)
           Good(n) == kept[n] \in Seq(S) /\ \E places : Thinned(kept[n], seq, n, places, K)
           P == {n \in Nat : Good(n)}
<1>1. /\ kept[0] = <<>>
      /\ \A i \in 1 .. Len(seq) :
             kept[i] = IF seq[i] \in K THEN Append(kept[i - 1], seq[i]) ELSE kept[i - 1]
    BY SelectionsExist
<1> HIDE DEF kept
<1>2. Len(seq) \in Nat /\ \A i \in 1 .. Len(seq) : seq[i] \in S
    OBVIOUS
<1>3. 0 \in P
    <2>1. Thinned(<<>>, seq, 0, <<>>, K)
        BY DEF Thinned
    <2>2. Good(0)
        BY <1>1, <2>1
    <2>. QED  BY <2>2
<1>4. ASSUME NEW n \in 1 .. Len(seq), n - 1 \in P
      PROVE  n \in P
    <2>1. PICK places : Thinned(kept[n - 1], seq, n - 1, places, K)
        BY <1>4
    <2>2. kept[n - 1] \in Seq(S) /\ Len(kept[n - 1]) \in Nat /\ n \in Nat \ {0} /\ n - 1 \in Nat
        BY <1>2, <1>4
    <2>3. CASE seq[n] \in K
        <3> DEFINE l == Len(kept[n - 1]) + 1
                   more == [i \in 1 .. l |-> IF i = l THEN n ELSE places[i]]
        <3>1. /\ kept[n] = Append(kept[n - 1], seq[n]) /\ kept[n] \in Seq(S)
              /\ Len(kept[n]) = l /\ kept[n][l] = seq[n]
              /\ \A i \in 1 .. l - 1 : kept[n][i] = kept[n - 1][i]
            <4>1. kept[n] = Append(kept[n - 1], seq[n]) /\ seq[n] \in S
                BY <1>1, <1>2, <2>3
            <4>. QED  BY <2>2, <4>1, AppendProperties
        <3>2. l \in Nat \ {0} /\ l - 1 = Len(kept[n - 1])
            BY <2>2
        <3> HIDE DEF l
        <3>3. more[l] = n /\ \A i \in 1 .. l - 1 : more[i] = places[i] /\ places[i] \in 1 .. n - 1
            <4>1. \A i \in 1 .. l - 1 : i \in 1 .. l /\ i # l
                BY <3>2
            <4>2. \A i \in 1 .. l - 1 : places[i] \in 1 .. n - 1
                BY <2>1, <3>2 DEF Thinned
            <4>. QED  BY <3>2, <4>1, <4>2
        <3>5. \A i \in 1 .. l : i = l \/ i \in 1 .. l - 1
            BY <3>2
        <3>4. more \in [1 .. l -> 1 .. n]
            <4>1. n \in 1 .. n /\ \A j \in 1 .. n - 1 : j \in 1 .. n
                BY <2>2
            <4>2. \A i \in 1 .. l : more[i] \in 1 .. n
                <5> HIDE DEF more
                <5>. QED  BY <3>3, <3>5, <4>1
            <4>. QED  BY <4>2
        <3> HIDE DEF more
        <3>6. \A i \in 1 .. l : kept[n][i] = seq[more[i]]
            BY <2>1, <3>1, <3>2, <3>3, <3>5 DEF Thinned
        <3>7. \A i, j \in 1 .. l : i < j => more[i] < more[j]
            <4> SUFFICES ASSUME NEW i \in 1 .. l, NEW j \in 1 .. l, i < j
                         PROVE  more[i] < more[j]
                OBVIOUS
            <4>1. i \in 1 .. l - 1
                BY <3>2
            <4>2. CASE j = l
                BY <2>2, <3>3, <4>1, <4>2
            <4>3. CASE j # l
                <5>1. j \in 1 .. l - 1
                    BY <3>5, <4>3
                <5>. QED  BY <2>1, <3>2, <3>3, <4>1, <5>1 DEF Thinned
            <4>. QED  BY <4>2, <4>3
        <3>8. \A k \in 1 .. n : seq[k] \in K <=> \E i \in 1 .. l : more[i] = k
            <4> SUFFICES ASSUME NEW k \in 1 .. n
                         PROVE  seq[k] \in K <=> \E i \in 1 .. l : more[i] = k
                OBVIOUS
            <4>1. CASE k = n
                BY <2>3, <3>2, <3>3, <4>1
            <4>2. CASE k # n
                <5>1. k \in 1 .. n - 1
                    BY <2>2, <4>2
                <5>2. seq[k] \in K <=> \E i \in 1 .. l - 1 : places[i] = k
                    BY <2>1, <3>2, <5>1 DEF Thinned
                <5>3. \A i \in 1 .. l - 1 : i \in 1 .. l
                    BY <3>2
                <5>. QED  BY <3>3, <3>5, <4>2, <5>2, <5>3
            <4>. QED  BY <4>1, <4>2
        <3>9. l <= n /\ ((\E k \in 1 .. n : seq[k] \notin K) => l < n)
            <4>1. l - 1 <= n - 1 /\ ((\E k \in 1 .. n - 1 : seq[k] \notin K) => l - 1 < n - 1)
                BY <2>1, <3>2 DEF Thinned
            <4>2. \A k \in 1 .. n : seq[k] \notin K => k \in 1 .. n - 1
                BY <2>2, <2>3
            <4>. QED  BY <2>2, <3>2, <4>1, <4>2
        <3>10. Thinned(kept[n], seq, n, more, K)
            BY <3>1, <3>4, <3>6, <3>7, <3>8, <3>9 DEF Thinned
        <3>. QED  BY <2>2, <3>1, <3>10
    <2>4. CASE seq[n] \notin K
        <3>1. kept[n] = kept[n - 1]
            BY <1>1, <2>4
        <3>2. \A k \in 1 .. n : k = n \/ k \in 1 .. n - 1
            BY <2>2
        <3>3. places \in [1 .. Len(kept[n]) -> 1 .. n]
            BY <2>1, <2>2, <3>1 DEF Thinned
        <3>4. \A i \in 1 .. Len(kept[n]) : places[i] # n
            BY <2>1, <2>2, <3>1 DEF Thinned
        <3>5. \A k \in 1 .. n : seq[k] \in K <=> \E i \in 1 .. Len(kept[n]) : places[i] = k
            BY <2>1, <2>4, <3>1, <3>2, <3>4 DEF Thinned
        <3>6. Len(kept[n]) <= n - 1
            BY <2>1, <3>1 DEF Thinned
        <3>7. Thinned(kept[n], seq, n, places, K)
            BY <2>1, <2>2, <3>1, <3>3, <3>5, <3>6 DEF Thinned
        <3>. QED  BY <2>2, <3>1, <3>7
    <2>. QED  BY <2>3, <2>4
<1>5. Len(seq) \in P
    <2> HIDE DEF P
    <2>. QED  BY <1>2, <1>3, <1>4, InductionTo
<1>. QED  BY <1>5 DEF Selected, kept

(* A selection has the members that are selected, and is shorter if one is   *)
(* not.                                                                      *)
LEMMA SelectionMembers ==
    ASSUME NEW S, NEW seq \in Seq(S), NEW K
    PROVE  /\ Selected(seq, K) \in Seq(S)
           /\ ToSet(Selected(seq, K)) = ToSet(seq) \cap K
           /\ Len(Selected(seq, K)) <= Len(seq)
           /\ \A a \in ToSet(seq) : a \notin K => Len(Selected(seq, K)) < Len(seq)
<1>1. PICK kept : kept = Selected(seq, K)
    OBVIOUS
<1>2. PICK places : Thinned(kept, seq, Len(seq), places, K)
    BY <1>1, SelectionIsThinned
<1>3. kept \in Seq(S) /\ DOMAIN kept = 1 .. Len(kept) /\ DOMAIN seq = 1 .. Len(seq)
    BY <1>1, SelectionIsThinned
<1>4. /\ \A i \in 1 .. Len(kept) : places[i] \in 1 .. Len(seq) /\ kept[i] = seq[places[i]]
      /\ \A k \in 1 .. Len(seq) : seq[k] \in K <=> \E i \in 1 .. Len(kept) : places[i] = k
    BY <1>2 DEF Thinned
<1>5. ToSet(kept) = ToSet(seq) \cap K
    BY <1>3, <1>4 DEF ToSet
<1>6. Len(kept) <= Len(seq) /\ \A a \in ToSet(seq) : a \notin K => Len(kept) < Len(seq)
    BY <1>2, <1>3 DEF Thinned, ToSet
<1>. QED  BY <1>1, <1>3, <1>5, <1>6

LEMMA SelectionIsInjective ==
    ASSUME NEW S, NEW seq \in Seq(S), NEW K, IsInjective(seq)
    PROVE  IsInjective(Selected(seq, K))
<1>1. PICK kept : kept = Selected(seq, K)
    OBVIOUS
<1>2. PICK places : Thinned(kept, seq, Len(seq), places, K)
    BY <1>1, SelectionIsThinned
<1>3. kept \in Seq(S) /\ DOMAIN kept = 1 .. Len(kept) /\ DOMAIN seq = 1 .. Len(seq)
    BY <1>1, SelectionIsThinned
<1>4. ASSUME NEW i \in 1 .. Len(kept), NEW j \in 1 .. Len(kept), kept[i] = kept[j]
      PROVE  i = j
    <2>1. places[i] = places[j] /\ places[i] \in Int
        BY <1>2, <1>3, <1>4 DEF Thinned, IsInjective
    <2>2. ~(i < j) /\ ~(j < i)
        BY <1>2, <2>1 DEF Thinned
    <2>. QED  BY <2>2
<1>. QED  BY <1>1, <1>3, <1>4 DEF IsInjective

LEMMA SelectionKeepsOrder ==
    ASSUME NEW S, NEW seq \in Seq(S), NEW K, NEW a \in K, NEW b \in K, Follows(seq, a, b)
    PROVE  Follows(Selected(seq, K), a, b)
<1>1. PICK kept : kept = Selected(seq, K)
    OBVIOUS
<1>2. PICK places : Thinned(kept, seq, Len(seq), places, K)
    BY <1>1, SelectionIsThinned
<1>3. kept \in Seq(S) /\ DOMAIN kept = 1 .. Len(kept) /\ DOMAIN seq = 1 .. Len(seq)
    BY <1>1, SelectionIsThinned
<1>4. PICK i \in 1 .. Len(seq), j \in 1 .. Len(seq) : i < j /\ seq[i] = a /\ seq[j] = b
    BY <1>3 DEF Follows
<1>5. PICK x \in 1 .. Len(kept), y \in 1 .. Len(kept) : places[x] = i /\ places[y] = j
    BY <1>2, <1>4 DEF Thinned
<1>6. x < y /\ kept[x] = a /\ kept[y] = b
    <2>1. x # y /\ ~(y < x)
        BY <1>2, <1>4, <1>5 DEF Thinned
    <2>. QED  BY <1>2, <1>4, <1>5, <2>1 DEF Thinned
<1>. QED  BY <1>1, <1>3, <1>6 DEF Follows

(* What is appended comes after everything.                                  *)
LEMMA AppendKeepsOrder ==
    ASSUME NEW S, NEW seq \in Seq(S), NEW c \in S
    PROVE  /\ Append(seq, c) \in Seq(S) /\ Len(Append(seq, c)) = Len(seq) + 1
           /\ \A a, b : Follows(seq, a, b) => Follows(Append(seq, c), a, b)
           /\ \A a \in ToSet(seq) : Follows(Append(seq, c), a, c)
           /\ ToSet(Append(seq, c)) = ToSet(seq) \cup {c}
           /\ IsInjective(seq) /\ c \notin ToSet(seq) => IsInjective(Append(seq, c))
<1>1. PICK more : more = Append(seq, c)
    OBVIOUS
<1>2. /\ DOMAIN seq = 1 .. Len(seq) /\ Len(seq) \in Nat
      /\ DOMAIN more = 1 .. Len(seq) + 1 /\ more[Len(seq) + 1] = c
      /\ \A i \in 1 .. Len(seq) : more[i] = seq[i]
      /\ more \in Seq(S) /\ Len(more) = Len(seq) + 1
    BY <1>1, AppendProperties
<1>3. \A i \in 1 .. Len(seq) + 1 : i = Len(seq) + 1 \/ i \in 1 .. Len(seq)
    BY <1>2
<1>4. Len(seq) + 1 \in DOMAIN more /\ \A i \in DOMAIN seq : i \in DOMAIN more /\ i < Len(seq) + 1
    BY <1>2
<1>5. \A a, b : Follows(seq, a, b) => Follows(more, a, b)
    BY <1>2, <1>4 DEF Follows
<1>6. \A a \in ToSet(seq) : Follows(more, a, c)
    BY <1>2, <1>4 DEF Follows, ToSet
<1>7. ToSet(more) = ToSet(seq) \cup {c}
    BY <1>2, <1>3, <1>4 DEF ToSet
<1>8. IsInjective(seq) /\ c \notin ToSet(seq) => IsInjective(more)
    BY <1>2, <1>3, <1>4 DEF IsInjective, ToSet
<1>. QED  BY <1>1, <1>2, <1>5, <1>6, <1>7, <1>8
-----------------------------------------------------------------------------
\* Windows of length d, each starting at a multiple of d, tile the time.
LEMMA WindowsAreMultiples ==
    ASSUME NEW d \in Nat \ {0}, NEW s \in Nat, NEW t \in Nat
    PROVE  /\ (s \div d) * d \in 0 .. s
           /\ s < (s \div d) * d + d
           /\ t >= (s \div d) * d => (t \div d) * d >= (s \div d) * d
<1> DEFINE p == t \div d
           q == s \div d
           r == s % d
           u == t % d
<1>1. /\ p \in Nat /\ u \in 0 .. d - 1 /\ t = d * p + u
      /\ q \in Nat /\ r \in 0 .. d - 1 /\ s = d * q + r
    OBVIOUS
<1> HIDE DEF p, q, r, u
<1>2. p * d = d * p /\ d * p \in Nat /\ q * d = d * q /\ d * q \in Nat
    BY <1>1
<1>3. ASSUME t >= d * q
      PROVE  d * p >= d * q
    <2>1. CASE p >= q
        <3>1. PICK k \in Nat : p = q + k
            BY <1>1, <2>1
        <3>2. d * p = d * q + d * k /\ d * k \in Nat
            BY <1>1, <3>1
        <3>. QED  BY <1>2, <3>2
    <2>2. CASE p < q
        <3>1. PICK k \in Nat : q = p + 1 + k
            <4>1. q - (p + 1) \in Nat /\ q = p + 1 + (q - (p + 1))
                BY <1>1, <2>2
            <4>. QED  BY <4>1
        <3>2. d * q = d * p + d + d * k /\ d * k \in Nat
            BY <1>1, <3>1
        <3>. QED  BY <1>1, <1>2, <1>3, <3>2
    <2>. QED  BY <1>1, <2>1, <2>2
<1>. QED  BY <1>1, <1>2, <1>3 DEF p, q
-----------------------------------------------------------------------------
(* The powers of ten exist, are positive, and multiply as their exponents add. *)

\* The least natural number that is missing from a property, if any is.
LEMMA LeastMissing ==
    ASSUME NEW T \in SUBSET Nat, T # {}
    PROVE  \E n \in T : \A m \in T : n <= m
<1>1. PICK n \in T : \A m \in T : ~(<<m, n>> \in OpToRel(<, Nat))
    BY NatLessThanWellFounded, WFMin
<1>2. \A m \in T : ~(m < n)
    BY <1>1 DEF OpToRel
<1>. QED  BY <1>2

TensUpTo(f, n) == f = [i \in 0 .. n |-> IF i = 0 THEN 1 ELSE 10 * f[i - 1]]

LEMMA TensUpToExist == \A n \in Nat : \E f : TensUpTo(f, n)
<1> DEFINE Missing == {n \in Nat : ~ \E f : TensUpTo(f, n)}
<1>1. SUFFICES ASSUME Missing # {}
               PROVE  FALSE
    OBVIOUS
<1>2. PICK n \in Missing : \A m \in Missing : n <= m
    BY <1>1, LeastMissing
<1>3. n # 0
    <2>1. TensUpTo([i \in 0 .. 0 |-> 1], 0)
        BY DEF TensUpTo
    <2>. QED  BY <2>1
<1>4. n - 1 \in Nat /\ n - 1 < n
    BY <1>3
<1>5. PICK f : TensUpTo(f, n - 1)
    BY <1>2, <1>4
<1> DEFINE g == [i \in 0 .. n |-> IF i = n THEN 10 * f[n - 1] ELSE f[i]]
<1>6. ASSUME NEW i \in 0 .. n
      PROVE  g[i] = IF i = 0 THEN 1 ELSE 10 * g[i - 1]
    <2>1. CASE i = n
        BY <1>2, <1>3, <2>1
    <2>2. CASE i # n
        <3>1. i \in 0 .. n - 1 /\ (i # 0 => i - 1 \in 0 .. n - 1)
            BY <1>2, <2>2
        <3>2. f[i] = IF i = 0 THEN 1 ELSE 10 * f[i - 1]
            BY <1>5, <3>1 DEF TensUpTo
        <3>. QED  BY <1>2, <2>2, <3>1, <3>2
    <2>. QED  BY <2>1, <2>2
<1>7. TensUpTo(g, n)
    BY <1>6 DEF TensUpTo
<1>. QED  BY <1>2, <1>7

LEMMA TensUpToAgree ==
    ASSUME NEW m \in Nat, NEW n \in Nat, m <= n,
           NEW f, NEW g, TensUpTo(f, m), TensUpTo(g, n)
    PROVE  \A i \in 0 .. m : f[i] = g[i]
<1> DEFINE Apart == {i \in 0 .. m : f[i] # g[i]}
<1>1. SUFFICES ASSUME Apart # {}
               PROVE  FALSE
    OBVIOUS
<1>2. PICK i \in Apart : \A j \in Apart : i <= j
    <2>1. Apart \in SUBSET Nat
        OBVIOUS
    <2>. QED  BY <1>1, <2>1, LeastMissing
<1>3. /\ f[i] = IF i = 0 THEN 1 ELSE 10 * f[i - 1]
      /\ g[i] = IF i = 0 THEN 1 ELSE 10 * g[i - 1]
    <2>1. i \in 0 .. m /\ i \in 0 .. n
        BY <1>2
    <2>2. f[i] = IF i = 0 THEN 1 ELSE 10 * f[i - 1]
        BY <2>1 DEF TensUpTo
    <2>3. g[i] = IF i = 0 THEN 1 ELSE 10 * g[i - 1]
        BY <2>1 DEF TensUpTo
    <2>. QED  BY <2>2, <2>3
<1>4. i # 0
    BY <1>2, <1>3
<1>5. i - 1 \in 0 .. m /\ i - 1 \notin Apart
    BY <1>2, <1>4
<1>. QED  BY <1>2, <1>3, <1>4, <1>5

LEMMA TensRecur ==
    /\ Tens[0] = 1
    /\ \A n \in Nat : Tens[n + 1] = 10 * Tens[n]
<1> DEFINE F == [n \in Nat |-> (CHOOSE f : TensUpTo(f, n))[n]]
           G == [n \in Nat |-> IF n = 0 THEN 1 ELSE 10 * F[n - 1]]
<1>1. ASSUME NEW n \in Nat
      PROVE  F[n] = IF n = 0 THEN 1 ELSE 10 * F[n - 1]
    <2>1. PICK f : TensUpTo(f, n) /\ F[n] = f[n]
        <3>1. TensUpTo(CHOOSE f : TensUpTo(f, n), n)
            BY TensUpToExist
        <3>. QED  BY <3>1
    <2>2. f[n] = IF n = 0 THEN 1 ELSE 10 * f[n - 1]
        <3>1. n \in 0 .. n
            OBVIOUS
        <3>. QED  BY <2>1, <3>1 DEF TensUpTo
    <2>3. CASE n = 0
        BY <2>1, <2>2, <2>3
    <2>4. CASE n # 0
        <3>1. n - 1 \in Nat
            BY <2>4
        <3>2. PICK g : TensUpTo(g, n - 1) /\ F[n - 1] = g[n - 1]
            <4>1. TensUpTo(CHOOSE f1 : TensUpTo(f1, n - 1), n - 1)
                BY <3>1, TensUpToExist
            <4>. QED  BY <3>1, <4>1
        <3>3. \A i \in 0 .. n - 1 : g[i] = f[i]
            BY <2>1, <3>1, <3>2, TensUpToAgree
        <3>4. g[n - 1] = f[n - 1]
            BY <3>1, <3>3
        <3>. QED  BY <2>1, <2>2, <2>4, <3>2, <3>4
    <2>. QED  BY <2>3, <2>4
<1>2. F = [n \in Nat |-> IF n = 0 THEN 1 ELSE 10 * F[n - 1]]
    <2>1. \A n \in Nat : F[n] = G[n]
        BY <1>1
    <2> HIDE DEF F
    <2>2. G = [n \in Nat |-> G[n]]
        OBVIOUS
    <2>3. F = [n \in Nat |-> F[n]]
        BY DEF F
    <2>. QED  BY <2>1, <2>2, <2>3
<1> HIDE DEF F
<1>3. \E f : f = [n \in Nat |-> IF n = 0 THEN 1 ELSE 10 * f[n - 1]]
    BY <1>2
<1>4. Tens = [n \in Nat |-> IF n = 0 THEN 1 ELSE 10 * Tens[n - 1]]
    BY <1>3 DEF Tens
<1>5. ASSUME NEW n \in Nat
      PROVE  Tens[n] = IF n = 0 THEN 1 ELSE 10 * Tens[n - 1]
    BY <1>4
<1>6. ASSUME NEW n \in Nat
      PROVE  Tens[n + 1] = 10 * Tens[n]
    BY <1>5
<1>. QED  BY <1>5, <1>6

LEMMA TensArePositive == \A n \in Nat : Tens[n] \in Nat \ {0}
<1> DEFINE Missing == {n \in Nat : Tens[n] \notin Nat \ {0}}
<1>1. SUFFICES ASSUME Missing # {}
               PROVE  FALSE
    OBVIOUS
<1>2. PICK n \in Missing : \A m \in Missing : n <= m
    BY <1>1, LeastMissing
<1>3. n # 0
    BY <1>2, TensRecur
<1>4. n - 1 \in Nat /\ n - 1 \notin Missing /\ n = (n - 1) + 1
    BY <1>2, <1>3
<1>5. Tens[n] = 10 * Tens[n - 1] /\ Tens[n - 1] \in Nat \ {0}
    BY <1>4, TensRecur
<1>. QED  BY <1>2, <1>5

LEMMA TensMultiply ==
    ASSUME NEW a \in Nat
    PROVE  \A b \in Nat : Tens[a + b] = Tens[a] * Tens[b]
<1> DEFINE Missing == {b \in Nat : Tens[a + b] # Tens[a] * Tens[b]}
<1>1. SUFFICES ASSUME Missing # {}
               PROVE  FALSE
    OBVIOUS
<1>2. PICK b \in Missing : \A m \in Missing : b <= m
    BY <1>1, LeastMissing
<1>3. b # 0
    BY <1>2, TensRecur, TensArePositive
<1>4. PICK c \in Nat : b = c + 1
    <2>1. b - 1 \in Nat /\ b = (b - 1) + 1
        BY <1>2, <1>3
    <2>. QED  BY <2>1
<1>5. Tens[a + c] = Tens[a] * Tens[c]
    BY <1>2, <1>4
<1>6. Tens[a + b] = 10 * Tens[a + c] /\ Tens[b] = 10 * Tens[c]
    <2>1. a + b = (a + c) + 1 /\ a + c \in Nat
        BY <1>4
    <2>. QED  BY <1>4, <2>1, TensRecur
<1>7. Tens[a] \in Nat /\ Tens[c] \in Nat
    BY TensArePositive
<1>8. 10 * (Tens[a] * Tens[c]) = Tens[a] * (10 * Tens[c])
    BY <1>7
<1>. QED  BY <1>2, <1>5, <1>6, <1>8

=============================================================================
