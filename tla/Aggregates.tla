----------------------------- MODULE Aggregates -----------------------------
(* Sums over the keys of a mapping, selections from a sequence, and powers   *)
(* of ten, as functions on an initial segment of the naturals.               *)
EXTENDS Integers, SequencesExt

\* The sums of the first entries of amount, in the order of the keys.
PartialSums(keys, amount) ==
    LET sum[i \in 0 .. Len(keys)] == IF i = 0 THEN 0 ELSE sum[i - 1] + amount[keys[i]]
    IN sum

Total(keys, amount) == PartialSums(keys, amount)[Len(keys)]

\* Each element of S once.
Enumerates(keys, S) ==
    /\ keys \in Seq(S)
    /\ \A h \in S : \E i \in DOMAIN keys : keys[i] = h
    /\ \A i, j \in DOMAIN keys : keys[i] = keys[j] => i = j

\* The entries of seq that are members of K, in their order: SelectSeq, of which the
\* provers know nothing.
Selections(seq, K) ==
    LET kept[i \in 0 .. Len(seq)] ==
            IF i = 0 THEN <<>>
            ELSE IF seq[i] \in K THEN Append(kept[i - 1], seq[i]) ELSE kept[i - 1]
    IN kept

Selected(seq, K) == Selections(seq, K)[Len(seq)]

\* An entry b comes after an entry a.
Follows(seq, a, b) == \E i, j \in DOMAIN seq : i < j /\ seq[i] = a /\ seq[j] = b

\* 10n ** n
Tens ==
    LET power[n \in Nat] == IF n = 0 THEN 1 ELSE 10 * power[n - 1]
    IN power
=============================================================================
