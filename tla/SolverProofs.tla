------------------------------- MODULE SolverProofs ---------------------------
(* The solver, for any intents, prices, floors and margins, and any sizes and *)
(* times to live of its caches.                                              *)
EXTENDS Solver, SolverMemory, Quote, AggregateProofs

(* A refusal for good stays right: the gates that count as final read only   *)
(* the intent and the clock, and the clock only closes them.                 *)
QuoteTypes == quoteTime \in Nat /\ retired \subseteq Quoted

(* Inductive: the final gate at which each retired intent failed still      *)
(* refuses it.                                                              *)
RetiredForGood == QuoteTypes /\ \A i \in retired : RefusedForGood(i)

(* A final gate that refuses an intent refuses it later as well.            *)
LEMMA FinalGatesStayClosed ==
    ASSUME QuoteTypes, NEW i \in Quoted, RefusedForGood(i),
           quoteTime' \in Nat, quoteTime <= quoteTime'
    PROVE  RefusedForGood(i)'
<1>1. PICK gate \in TerminalGates : FailsGate(i, gate)
    BY DEF RefusedForGood
<1>2. i.deadline \in Nat /\ MinFillHeadroom \in Nat
    BY QuoteAssumption
<1>3. FailsGate(i, gate)'
    <2>1. CASE gate = "wrong_chain"
        BY <1>1, <2>1 DEF FailsGate
    <2>2. CASE gate = "expired"
        BY <1>1, <1>2, <2>2 DEF FailsGate, IsExpired, QuoteTypes
    <2>3. CASE gate = "headroom"
        BY <1>1, <1>2, <2>3 DEF FailsGate, IsExpired, QuoteTypes
    <2>4. CASE gate = "unsupported_asset"
        BY <1>1, <2>4 DEF FailsGate
    <2>5. CASE gate = "reserved"
        BY <1>1, <2>5 DEF FailsGate
    <2>. QED  BY <2>1, <2>2, <2>3, <2>4, <2>5 DEF TerminalGates
<1>. QED  BY <1>1, <1>3 DEF RefusedForGood, TerminalGates

LEMMA RefusalsStart == QuoteInit => RetiredForGood
BY DEF QuoteInit, RetiredForGood, QuoteTypes

LEMMA RefusalsStay == RetiredForGood /\ [QuoteNext]_quoteVars => RetiredForGood'
<1>. SUFFICES ASSUME RetiredForGood, [QuoteNext]_quoteVars PROVE RetiredForGood'
    OBVIOUS
<1>. USE DEF RetiredForGood, QuoteTypes
<1>1. quoteTime' \in Nat /\ quoteTime <= quoteTime'
    BY DEF QuoteNext, MarketMoves, QuoteTick, Consult, quoteVars
<1>2. \A i \in retired' : i \in Quoted /\ RefusedForGood(i)
    <2>1. ASSUME NEW i \in Quoted, Consult(i)
          PROVE  \A j \in retired' : j \in Quoted /\ RefusedForGood(j)
        BY <2>1 DEF Consult
    <2>2. CASE UNCHANGED retired
        BY <2>2
    <2>. QED  BY <2>1, <2>2 DEF QuoteNext, MarketMoves, QuoteTick, quoteVars
<1>3. \A i \in retired' : RefusedForGood(i)'
    BY <1>1, <1>2, FinalGatesStayClosed
<1>. QED  BY <1>1, <1>2, <1>3

(* A refused intent is not worth a fill: every final gate is a gate.        *)
LEMMA RefusedIsNotFilled ==
    ASSUME NEW i \in Quoted, RefusedForGood(i)
    PROVE  Evaluate(i) # "fill"
BY DEF RefusedForGood, Evaluate, Gates

(* FillDecision.terminal, quote.ts:151-155: the solver may forget for good  *)
(* an intent that it refused for good; no later market would make it fill.  *)
THEOREM RefusalsAreDurable == QuoteSpec => []TerminalIsDurable
<1>1. RetiredForGood => TerminalIsDurable
    BY RefusedIsNotFilled DEF RetiredForGood, QuoteTypes, TerminalIsDurable
<1>. QED  BY <1>1, RefusalsStart, RefusalsStay, PTL DEF QuoteSpec
-----------------------------------------------------------------------------
(* What a fill pays.                                                        *)

\* The quotient of a division that truncates.
LEMMA QuotientBounds ==
    ASSUME NEW x \in Nat, NEW y \in Nat \ {0}
    PROVE  /\ x \div y \in Nat
           /\ (x \div y) * y <= x /\ x < ((x \div y) + 1) * y
OBVIOUS

LEMMA ProductsCompare ==
    ASSUME NEW a \in Int, NEW b \in Int, NEW c \in Nat \ {0}
    PROVE  a <= b <=> a * c <= b * c
OBVIOUS

MarketTypes ==
    /\ DOMAIN market = DOMAIN Quotes
    /\ \A field \in DOMAIN Quotes : market[field] \in Quotes[field]

LEMMA MarketFields ==
    ASSUME MarketTypes
    PROVE  /\ market.rate \in Int /\ market.fee \in Nat \cup {Absent}
           /\ market.available \in Int /\ market.reserved \in Int
           /\ market.source \in Int /\ market.estimate \in Int
           /\ market.dest \in Int /\ market.destEstimate \in Int
<1>1. /\ DOMAIN Quotes = {"rate", "fee", "available", "reserved", "source", "estimate",
                        "dest", "destEstimate"}
      /\ Quotes.rate \subseteq Int /\ Quotes.fee \subseteq Nat \cup {Absent}
      /\ Quotes.available \subseteq Int /\ Quotes.reserved \subseteq Int
      /\ Quotes.source \subseteq Int /\ Quotes.estimate \subseteq Int
      /\ Quotes.dest \subseteq Int /\ Quotes.destEstimate \subseteq Int
    BY QuoteAssumption
<1>. QED  BY <1>1 DEF MarketTypes

LEMMA MarketTypesHold == QuoteSpec => []MarketTypes
<1>1. QuoteInit => MarketTypes
    BY QuoteAssumption DEF QuoteInit, MarketTypes
<1>2. MarketTypes /\ [QuoteNext]_quoteVars => MarketTypes'
    <2> SUFFICES ASSUME MarketTypes, [QuoteNext]_quoteVars
                 PROVE  MarketTypes'
        OBVIOUS
    <2>1. CASE MarketMoves
        BY <2>1 DEF MarketMoves, MarketTypes
    <2>2. CASE UNCHANGED market
        BY <2>2 DEF MarketTypes
    <2>. QED  BY <2>1, <2>2 DEF QuoteNext, QuoteTick, Consult, quoteVars
<1>. QED  BY <1>1, <1>2, PTL DEF QuoteSpec

\* What the decision reads is a number when the pricing does not throw.
Priced(i) ==
    /\ {i.srcDecimals, i.dstDecimals} \subseteq Nat
    /\ market.rate \in Nat \ {0} /\ market.fee \in Nat

LEMMA FillsArePriced ==
    ASSUME MarketTypes, NEW i \in Quoted, Evaluate(i) = "fill"
    PROVE  Priced(i)
<1>1. ~FailsGate(i, "pricing_error")
    BY DEF Evaluate, Gates
<1>2. ~PricingThrows(i)
    BY <1>1 DEF FailsGate
<1>. QED  BY <1>2, MarketFields, QuoteAssumption DEF PricingThrows, Priced

\* The proceeds are the whole part of the exact value, whichever asset has more decimals.
LEMMA ProceedsAreExact ==
    ASSUME NEW i \in Quoted, Priced(i)
    PROVE  /\ Proceeds(i) \in Nat /\ Numerator(i) \in Nat /\ Denominator(i) \in Nat \ {0}
           /\ Proceeds(i) * Denominator(i) <= Numerator(i)
           /\ Numerator(i) < (Proceeds(i) + 1) * Denominator(i)
<1> DEFINE product == i.amount * market.rate
           up == i.dstDecimals - i.srcDecimals
           s == Tens[i.srcDecimals]
           t == Tens[i.dstDecimals]
           p == Proceeds(i)
<1>1. /\ i.amount \in Nat /\ market.rate \in Nat /\ RateScale \in Nat \ {0}
      /\ i.srcDecimals \in Nat /\ i.dstDecimals \in Nat
    BY QuoteAssumption DEF Priced
<1>2. product \in Nat /\ up \in Int /\ s \in Nat \ {0} /\ t \in Nat \ {0}
    BY <1>1, TensArePositive
<1>3. Numerator(i) = product * t /\ Denominator(i) = RateScale * s
    BY DEF Numerator, Denominator
<1> HIDE DEF product, s, t
<1>4. Numerator(i) \in Nat /\ Denominator(i) \in Nat \ {0}
    BY <1>1, <1>2, <1>3
<1>5. CASE up >= 0
    <2> DEFINE u == Tens[up]
               x == product * u
    <2>1. up \in Nat /\ i.dstDecimals = i.srcDecimals + up
        BY <1>1, <1>5
    <2>2. u \in Nat \ {0} /\ t = s * u
        BY <1>1, <2>1, TensArePositive, TensMultiply DEF s, t
    <2>3. p = x \div RateScale
        BY <1>5 DEF Proceeds, product
    <2> HIDE DEF u, p
    <2>4. x \in Nat
        BY <1>2, <2>2
    <2>5. Numerator(i) = x * s
        BY <1>2, <1>3, <2>2
    <2> HIDE DEF x
    <2>6. p \in Nat /\ p * RateScale <= x /\ x < (p + 1) * RateScale
        BY <1>1, <2>3, <2>4, QuotientBounds
    <2>7. (p * RateScale) * s <= x * s /\ x * s < ((p + 1) * RateScale) * s
        BY <1>1, <1>2, <2>4, <2>6
    <2>8. p * Denominator(i) <= Numerator(i) /\ Numerator(i) < (p + 1) * Denominator(i)
        BY <1>1, <1>2, <1>3, <2>5, <2>6, <2>7
    <2>. QED  BY <1>4, <2>6, <2>8 DEF p
<1>6. CASE up < 0
    <2> DEFINE u == Tens[-up]
               y == RateScale * u
    <2>1. -up \in Nat /\ i.srcDecimals = i.dstDecimals + (-up)
        BY <1>1, <1>6
    <2>2. u \in Nat \ {0} /\ s = t * u
        BY <1>1, <2>1, TensArePositive, TensMultiply DEF s, t
    <2>3. p = product \div y
        BY <1>2, <1>6 DEF Proceeds, product
    <2> HIDE DEF u, p
    <2>4. y \in Nat \ {0}
        BY <1>1, <2>2
    <2>5. Denominator(i) = y * t
        BY <1>1, <1>2, <1>3, <2>2
    <2> HIDE DEF y
    <2>6. p \in Nat /\ p * y <= product /\ product < (p + 1) * y
        BY <1>2, <2>3, <2>4, QuotientBounds
    <2>7. (p * y) * t <= product * t /\ product * t < ((p + 1) * y) * t
        BY <1>2, <2>4, <2>6
    <2>8. p * Denominator(i) <= Numerator(i) /\ Numerator(i) < (p + 1) * Denominator(i)
        BY <1>2, <1>3, <2>4, <2>5, <2>6, <2>7
    <2>. QED  BY <1>4, <2>6, <2>8 DEF p
<1>. QED  BY <1>2, <1>5, <1>6

\* A margin between two bounds, taken of truncated proceeds, holds of the exact value, but
\* for the part that the truncation dropped.
LEMMA MarginSurvives ==
    ASSUME NEW p \in Nat, NEW q \in Nat, NEW n \in Nat, NEW d \in Nat \ {0},
           p * d <= n, n < (p + 1) * d, p - q > 0,
           NEW B \in Nat \ {0}, NEW S \in Nat \ {0}, NEW M \in Nat, NEW X \in Nat,
           ((p - q) * B * S) \div p >= M * S,
           (((p - q) * B * S) \div p) \div S <= X
    PROVE  LET gain == n - q * d
           IN gain > 0 /\ gain * B >= M * n /\ (gain - d) * B < (X + 1) * n
<1> DEFINE profit == p - q
           x == profit * B * S
           r == x \div p
           gain == n - q * d
<1>1. profit \in Nat \ {0} /\ p \in Nat \ {0} /\ p = profit + q
    OBVIOUS
<1> HIDE DEF profit
<1>2. profit * B \in Nat \ {0}
    BY <1>1
<1>3. x \in Nat
    BY <1>2
<1> HIDE DEF x
<1>4. r \in Nat /\ r * p <= x /\ x < (r + 1) * p
    BY <1>1, <1>3, QuotientBounds
<1>5. r >= M * S /\ r \div S <= X
    BY DEF r, x, profit
<1> HIDE DEF r
<1>6. profit * B >= M * p
    <2>1. (M * S) * p <= r * p
        BY <1>1, <1>4, <1>5
    <2>2. (M * p) * S <= (profit * B) * S
        <3>1. M * S \in Nat /\ (M * S) * p \in Nat /\ r * p \in Nat
            BY <1>1, <1>4
        <3>2. (M * S) * p <= x
            BY <1>3, <1>4, <2>1, <3>1
        <3>3. (M * S) * p = (M * p) * S
            OBVIOUS
        <3>. QED  BY <3>2, <3>3 DEF x
    <2>. QED  BY <1>2, <2>2, ProductsCompare
<1>7. profit * B < (X + 1) * p
    <2>1. r < ((r \div S) + 1) * S /\ r \div S \in Nat
        BY <1>4, QuotientBounds
    <2>2. ((r \div S) + 1) * S <= (X + 1) * S
        BY <1>5, <2>1
    <2>3. r + 1 <= (X + 1) * S
        BY <1>4, <2>1, <2>2
    <2>4. (r + 1) * p <= ((X + 1) * S) * p
        BY <1>1, <1>4, <2>3, ProductsCompare
    <2>5. x < ((X + 1) * p) * S
        <3>1. ((X + 1) * S) * p = ((X + 1) * p) * S
            OBVIOUS
        <3>. QED  BY <1>3, <1>4, <2>4, <3>1
    <2>6. (profit * B) * S < ((X + 1) * p) * S
        BY <2>5 DEF x
    <2>. QED  BY <1>1, <1>2, <2>6, ProductsCompare
<1>8. p * d = profit * d + q * d /\ profit * d \in Nat \ {0} /\ q * d \in Nat
    BY <1>1
<1>9. gain > 0 /\ gain >= profit * d /\ gain - d < profit * d /\ gain \in Int
    <2>1. (p + 1) * d = p * d + d /\ p * d \in Nat
        OBVIOUS
    <2>. QED  BY <1>8, <2>1
<1>10. gain * B >= M * n
    <2>1. (B - M) * p >= q * B
        BY <1>1, <1>6
    <2>2. B >= M
        <3>1. CASE B < M
            <4>1. (B - M) * p < 0
                BY <1>1, <3>1
            <4>2. q * B >= 0
                OBVIOUS
            <4>. QED  BY <1>1, <2>1, <4>1, <4>2
        <3>. QED  BY <3>1
    <2>3. (B - M) * (p * d) <= (B - M) * n
        BY <1>1, <2>2
    <2>4. ((B - M) * p) * d >= (q * B) * d
        BY <1>1, <2>1
    <2>5. ((B - M) * p) * d = (B - M) * (p * d) /\ (q * B) * d = (q * d) * B
        OBVIOUS
    <2>6. (q * d) * B <= (B - M) * n
        BY <2>3, <2>4, <2>5
    <2>7. (B - M) * n = n * B - M * n /\ gain * B = n * B - (q * d) * B
        OBVIOUS
    <2>. QED  BY <2>6, <2>7
<1>11. (gain - d) * B < (X + 1) * n
    <2>1. (gain - d) * B < (profit * d) * B
        BY <1>8, <1>9
    <2>2. (profit * B) * d < ((X + 1) * p) * d
        BY <1>1, <1>2, <1>7
    <2>3. (profit * d) * B = (profit * B) * d /\ ((X + 1) * p) * d = (X + 1) * (p * d)
        BY <1>1
    <2>4. (X + 1) * (p * d) <= (X + 1) * n
        OBVIOUS
    <2>. QED  BY <1>1, <1>9, <2>1, <2>2, <2>3, <2>4
<1>. QED  BY <1>9, <1>10, <1>11

(* quote.ts:335-405: the decision computes its margin from truncated         *)
(* proceeds, and still every fill leaves at least the configured margin of   *)
(* the exact value, no more than the plausible one, and spends only what no  *)
(* other fill has reserved, for any amounts, decimals, rates and fees.       *)
THEOREM FillsPay == QuoteSpec => []FillPays
<1>1. MarketTypes => FillPays
    <2> SUFFICES ASSUME MarketTypes, NEW i \in Quoted, Evaluate(i) = "fill"
                 PROVE  LET n == Numerator(i)
                            d == Denominator(i)
                            gain == n - (i.min + market.fee) * d
                        IN /\ gain > 0 /\ gain * BasisPoints >= MinMarginBps * n
                           /\ (gain - d) * BasisPoints < (MaxPlausibleProfitBps + 1) * n
                           /\ market.available >= i.min + market.reserved
                           /\ market.source = Absent \/ market.source >= SourceNativeCost
                           /\ market.dest = Absent \/ market.dest >= DestNativeCost
        BY DEF FillPays
    <2> DEFINE q == i.min + market.fee
               p == Proceeds(i)
    <2>1. /\ ~FailsGate(i, "non_positive") /\ ~FailsGate(i, "below_margin")
          /\ ~FailsGate(i, "implausible_profit") /\ ~FailsGate(i, "insufficient_inventory")
          /\ ~FailsGate(i, "source_balance") /\ ~FailsGate(i, "dest_balance")
        BY DEF Evaluate, Gates
    <2>2. Priced(i) /\ i.min \in Nat /\ market.fee \in Nat
        BY FillsArePriced, QuoteAssumption DEF Priced
    <2>3. /\ p \in Nat /\ Numerator(i) \in Nat /\ Denominator(i) \in Nat \ {0}
          /\ p * Denominator(i) <= Numerator(i) /\ Numerator(i) < (p + 1) * Denominator(i)
        BY <2>2, ProceedsAreExact
    <2>4. q \in Nat /\ Profit(i) = p - q
        BY <2>2, <2>3 DEF Profit
    <2>5. p - q > 0
        <3>1. ~(Profit(i) <= 0)
            BY <2>1 DEF FailsGate
        <3>. QED  BY <2>3, <2>4, <3>1
    <2>6. ProfitBpsScaled(i) = ((p - q) * BasisPoints * SubBps) \div p
        BY <2>4 DEF ProfitBpsScaled
    <2>7. /\ ~(ProfitBpsScaled(i) < MinMarginBps * SubBps)
          /\ ~(ProfitBpsScaled(i) \div SubBps > MaxPlausibleProfitBps)
        BY <2>1 DEF FailsGate
    <2>8. /\ BasisPoints \in Nat \ {0} /\ SubBps \in Nat \ {0}
          /\ MinMarginBps \in Nat /\ MaxPlausibleProfitBps \in Nat
          /\ SourceFloor \in Nat /\ GasBuffer \in Nat /\ DestFloor \in Nat
        BY QuoteAssumption
    <2> HIDE DEF p, q
    <2>9. /\ ((p - q) * BasisPoints * SubBps) \div p >= MinMarginBps * SubBps
          /\ (((p - q) * BasisPoints * SubBps) \div p) \div SubBps <= MaxPlausibleProfitBps
        <3>1. (p - q) * BasisPoints * SubBps \in Nat /\ p \in Nat \ {0}
            BY <2>3, <2>4, <2>5, <2>8
        <3>2. ProfitBpsScaled(i) \in Nat
            BY <2>6, <3>1, QuotientBounds
        <3>3. ProfitBpsScaled(i) \div SubBps \in Nat /\ MinMarginBps * SubBps \in Nat
            BY <2>8, <3>2, QuotientBounds
        <3>. QED  BY <2>6, <2>7, <2>8, <3>2, <3>3
    <2>10. LET gain == Numerator(i) - q * Denominator(i)
           IN /\ gain > 0 /\ gain * BasisPoints >= MinMarginBps * Numerator(i)
              /\ (gain - Denominator(i)) * BasisPoints
                     < (MaxPlausibleProfitBps + 1) * Numerator(i)
        BY <2>3, <2>4, <2>5, <2>8, <2>9, MarginSurvives
    <2>11. market.available >= i.min + market.reserved
        <3>1. ~(market.available - market.reserved < i.min)
            BY <2>1 DEF FailsGate
        <3>. QED  BY <2>2, <3>1, MarketFields
    <2>12. market.source = Absent \/ market.source >= SourceNativeCost
        <3>1. market.source = Absent \/ ~(market.source < SourceNativeCost)
            BY <2>1 DEF FailsGate
        <3>2. SourceNativeCost \in Int
            BY <2>8, MarketFields DEF SourceNativeCost
        <3>. QED  BY <3>1, <3>2, MarketFields
    <2>13. market.dest = Absent \/ market.dest >= DestNativeCost
        <3>1. market.dest = Absent \/ ~(market.dest < DestNativeCost)
            BY <2>1 DEF FailsGate
        <3>2. DestNativeCost \in Int
            BY <2>8, MarketFields DEF DestNativeCost
        <3>. QED  BY <3>1, <3>2, MarketFields
    <2>. QED  BY <2>10, <2>11, <2>12, <2>13 DEF q
<1>. QED  BY <1>1, MarketTypesHold, PTL
-----------------------------------------------------------------------------
(* The loop and its executor.  The types the proofs rest on; what is held    *)
(* has no bound here, its bound is the length of one list.                   *)
AtRest == {"idle", "list", "turn"}
BeforeSubmission == {"check", "getLock", "lock", "receipt", "wait", "fill"}

SolverTypes ==
    /\ time \in Nat /\ balance \in Nat /\ reading \in Nat /\ held \in Nat /\ reserved \in Nat
    /\ lock \in [Intents -> {None, "own", "other", "ended"}]
    /\ dest \in [Intents -> {None, "locked", "filled", "cancelled"}]
    /\ record \in [Intents -> {None, "valid", "badSignature", "badHash"}]
    /\ tries \in [Intents -> 0 .. MaxRetries]
    /\ phase \in Phases

(* consider reserves the amount as it hands the intent over, and the finally *)
(* block ends both.                                                          *)
OneAtHand ==
    IF phase \in AtRest THEN cur = None /\ reserved = 0
    ELSE cur \in Intents /\ reserved = Amount

(* What a step of the executor does.                                         *)
GoesOn(i) ==
    /\ phase \in BeforeSubmission /\ phase' \in BeforeSubmission
    /\ UNCHANGED <<time, lock, dest, fillTx, balance, record, reported, late,
                   cur, page, retry, capital, crashes>>
    /\ lockTx' \in {lockTx, lockTx \cup {i}}

Submits(i) == phase = "fill" /\ SubmitFill(i)

Fails(i) ==
    \/ phase \in BeforeSubmission /\ \E definite \in BOOLEAN : Failed(i, definite)
    \/ phase = "confirm" /\ Failed(i, FALSE)

Wins(i) ==
    /\ \/ phase = "check"
       \/ phase = "confirm" /\ i \notin fillTx
    /\ dest[i] = "filled"
    /\ Filled(i)

LEMMA FillStories ==
    ASSUME NEW i \in Intents, Fill(i)
    PROVE  /\ cur = i /\ phase \notin AtRest
           /\ GoesOn(i) \/ Submits(i) \/ Fails(i) \/ Wins(i) \/ Report(i)
<1> USE DEF AtRest, BeforeSubmission, Running, Fails
<1>1. CASE CheckFillStatus(i)
    BY <1>1 DEF CheckFillStatus, ReadStatus, None, Goto, GoesOn, Wins, outside
<1>2. CASE GetLock(i)
    BY <1>2 DEF GetLock, Goto, GoesOn, outside
<1>3. CASE SubmitLock(i)
    BY <1>3 DEF SubmitLock, GoesOn
<1>4. CASE LockReverts(i) \/ FillRefused(i) \/ GiveUpWaiting(i)
    BY <1>4 DEF LockReverts, FillRefused, GiveUpWaiting
<1>5. CASE Receipt(i)
    BY <1>5 DEF Receipt, Goto, GoesOn, outside
<1>6. CASE WaitEnds(i)
    BY <1>6 DEF WaitEnds, Goto, GoesOn, outside
<1>7. CASE SubmitFill(i)
    BY <1>7 DEF SubmitFill, Submits
<1>8. CASE FillConfirmed(i)
    BY <1>8 DEF FillConfirmed, Wins
<1>9. CASE CallFails(i)
    BY <1>9 DEF CallFails
<1>10. CASE Report(i)
    BY <1>10 DEF Report
<1>. QED  BY <1>1, <1>2, <1>3, <1>4, <1>5, <1>6, <1>7, <1>8, <1>9, <1>10 DEF Fill

LEMMA RetriesKeepTypes ==
    ASSUME SolverTypes, NEW i \in Intents, Retire(i) \/ ScheduleRetry(i)
    PROVE  tries' \in [Intents -> 0 .. MaxRetries]
BY SolverAssumption DEF SolverTypes, Retire, ScheduleRetry

LEMMA NextKeepsSolverTypes ==
    ASSUME SolverTypes, OneAtHand, [Next]_vars
    PROVE  SolverTypes' /\ OneAtHand'
<1> USE SolverAssumption DEF SolverTypes, OneAtHand, AtRest
<1>1. CASE Tick \/ BeginTick
    BY <1>1 DEF Tick, BeginTick, loop, retry, capital, Phases
<1>a. CASE List \/ ListFails \/ EndTick
    BY <1>a DEF List, ListFails, EndTick, outside, retry, capital, Phases
<1>b. CASE UNCHANGED vars
    BY <1>b DEF vars, outside, loop, retry, capital
<1>2. CASE Restart
    BY <1>2 DEF Restart, Phases, outside
<1>3. ASSUME NEW i \in Intents, World(i)
      PROVE  SolverTypes' /\ OneAtHand'
    BY <1>3 DEF World, Correct, Unlist, OtherLocks, LockMined, Registers, OtherFills,
                FillIncluded, FillAccepted, Cancels, LockEnds, Elapse, outside, loop,
                retry, capital
<1>4. ASSUME NEW i \in Intents, Consider(i)
      PROVE  SolverTypes' /\ OneAtHand'
    <2>1. CASE Mismatch(i) \/ NoHeadroom(i)
        BY <2>1, RetriesKeepTypes DEF Mismatch, NoHeadroom, NextRecord, outside, capital
    <2>2. CASE BadSignature(i) \/ Skip(i)
        BY <2>2 DEF BadSignature, Skip, NextRecord, outside, capital, retry
    <2>3. CASE Commit(i)
        BY <2>3 DEF Commit, NextRecord, outside, retry, Phases
    <2>. QED  BY <1>4, <2>1, <2>2, <2>3 DEF Consider
<1>5. ASSUME NEW i \in Intents, Fill(i)
      PROVE  SolverTypes' /\ OneAtHand'
    <2>0. cur = i /\ cur \in Intents /\ reserved = Amount
        BY <1>5, FillStories
    <2>1. CASE GoesOn(i)
        BY <2>1 DEF GoesOn, BeforeSubmission, retry, capital, Phases
    <2>2. CASE Submits(i)
        BY <2>0, <2>2 DEF Submits, SubmitFill, retry, capital, Phases
    <2>3. CASE Fails(i)
        <3>1. PICK definite \in BOOLEAN : Failed(i, definite)
            BY <2>3 DEF Fails
        <3>. QED  BY <2>0, <3>1, RetriesKeepTypes
                  DEF Failed, Release, HoldForRefresh, Phases
    <2>4. CASE Wins(i)
        BY <2>0, <2>4, RetriesKeepTypes DEF Wins, Filled, outside, capital, Phases
    <2>5. CASE Report(i)
        BY <2>0, <2>5 DEF Report, HoldForRefresh, retry, Phases
    <2>. QED  BY <1>5, <2>1, <2>2, <2>3, <2>4, <2>5, FillStories
<1>. QED  BY <1>1, <1>a, <1>b, <1>2, <1>3, <1>4, <1>5 DEF Next

LEMMA SolverTypesHold == Spec => [](SolverTypes /\ OneAtHand)
<1>1. Init => SolverTypes /\ OneAtHand
    BY SolverAssumption DEF Init, SolverTypes, OneAtHand, AtRest, Phases
<1>2. (SolverTypes /\ OneAtHand) /\ [Next]_vars => (SolverTypes /\ OneAtHand)'
    BY NextKeepsSolverTypes
<1>. QED  BY <1>1, <1>2, PTL DEF Spec
-----------------------------------------------------------------------------
(* What Stellar has delivered stays delivered.                               *)
LEMMA DeliveredStays ==
    ASSUME SolverTypes, [Next]_vars, NEW i \in Intents, dest[i] = "filled"
    PROVE  dest'[i] = "filled"
<1> USE DEF SolverTypes
<1>1. CASE Tick \/ BeginTick \/ List \/ ListFails \/ EndTick \/ Restart \/ UNCHANGED vars
    BY <1>1 DEF Tick, BeginTick, List, ListFails, EndTick, Restart, vars, outside
<1>2. ASSUME NEW j \in Intents, World(j)
      PROVE  dest'[i] = "filled"
    <2>1. \/ UNCHANGED dest
          \/ dest[j] = "locked" /\ \E s : dest' = [dest EXCEPT ![j] = s]
          \/ dest[j] = None /\ \E s : dest' = [dest EXCEPT ![j] = s]
          \/ dest' = [dest EXCEPT ![j] = "filled"]
        BY <1>2 DEF World, Correct, Unlist, OtherLocks, LockMined, Registers, OtherFills,
                    FillIncluded, FillAccepted, Cancels, LockEnds, Elapse, outside
    <2>. QED  BY <2>1 DEF None
<1>3. ASSUME NEW j \in Intents, Consider(j)
      PROVE  dest'[i] = "filled"
    BY <1>3 DEF Consider, Mismatch, BadSignature, NoHeadroom, Skip, Commit, outside
<1>4. ASSUME NEW j \in Intents, Fill(j)
      PROVE  dest'[i] = "filled"
    BY <1>4, FillStories
    DEF GoesOn, Submits, SubmitFill, Fails, Failed, Wins, Filled, Report, outside
<1>. QED  BY <1>1, <1>2, <1>3, <1>4 DEF Next

(* What sets of fills cost.                                                  *)
LEMMA CostsCompare ==
    ASSUME NEW S, IsFiniteSet(S), NEW T, T \subseteq S
    PROVE  /\ IsFiniteSet(T)
           /\ Cost(S) \in Nat /\ Cost(T) \in Nat /\ Cost(T) <= Cost(S)
<1>1. IsFiniteSet(T) /\ Cardinality(T) <= Cardinality(S)
    BY FS_Subset
<1>2. Cardinality(S) \in Nat /\ Cardinality(T) \in Nat
    BY <1>1, FS_CardinalityType
<1>3. ASSUME NEW m \in Nat, NEW n \in Nat, m <= n
      PROVE  Amount * m \in Nat /\ Amount * n \in Nat /\ Amount * m <= Amount * n
    BY <1>3, SolverAssumption
<1>. QED  BY <1>1, <1>2, <1>3 DEF Cost

LEMMA CostOfOne ==
    ASSUME NEW S, IsFiniteSet(S), NEW x, x \in S
    PROVE  Cost(S) = Cost(S \ {x}) + Amount
<1>1. Cardinality(S \ {x}) = Cardinality(S) - 1 /\ Cardinality(S) \in Nat
    BY FS_RemoveElement, FS_CardinalityType
<1>2. ASSUME NEW n \in Nat
      PROVE  Amount * n = Amount * (n - 1) + Amount
    BY SolverAssumption
<1>. QED  BY <1>1, <1>2 DEF Cost

LEMMA CostOfOneMore ==
    ASSUME NEW S, IsFiniteSet(S), NEW x, NEW T, T \subseteq S \cup {x}
    PROVE  Cost(T) <= Cost(S) + Amount
<1>1. IsFiniteSet(S \cup {x}) /\ IsFiniteSet(T)
    BY FS_AddElement, FS_Subset
<1>2. T \ {x} \subseteq S
    OBVIOUS
<1>3. /\ Cost(T \ {x}) <= Cost(S)
      /\ Cost(T \ {x}) \in Nat /\ Cost(S) \in Nat
    BY <1>2, CostsCompare
<1>4. CASE x \in T
    BY <1>1, <1>3, <1>4, CostOfOne, SolverAssumption
<1>5. CASE x \notin T
    <2>1. T \subseteq S
        BY <1>5
    <2>. QED  BY <2>1, <1>3, CostsCompare, SolverAssumption
<1>. QED  BY <1>4, <1>5
-----------------------------------------------------------------------------
(* A fill of ours that is under way was sent before the tick began, is the   *)
(* one at hand, or will not come up again in this tick.                      *)
FillsInv ==
    /\ fillTx \subseteq Intents /\ IsFiniteSet(fillTx)
    /\ late \subseteq Intents /\ IsFiniteSet(late)
    /\ phase = "list" => fillTx \subseteq late
    /\ phase \notin {"idle", "list"} => DOMAIN page \cap (fillTx \ late) = {}
    /\ phase \notin AtRest => cur \notin DOMAIN page
    /\ cur \in fillTx \ late => phase = "confirm"

(* What was given up on in this tick and may still land.                     *)
Outstanding == {i \in fillTx \ (late \cup {cur}) : dest[i] # "filled"}

(* What the fill at hand has taken from the account already.                 *)
Spent == IF phase \in {"confirm", "report"} /\ dest[cur] = "filled" THEN Amount ELSE 0

(* Inductive: what was read covers what is held and reserved, what is held   *)
(* covers what may still land, and what is left of the reading is left in    *)
(* the account, but for the old fills that have landed.                      *)
CapitalInv ==
    IF phase = "idle" THEN Cost(Outstanding) <= balance + Cost(Landed)
    ELSE /\ held + reserved <= reading
         /\ Cost(Outstanding) <= held
         /\ Cost(Outstanding) + reading <= balance + held + Spent + Cost(Landed)

LEMMA SumsAreNat ==
    ASSUME SolverTypes, FillsInv
    PROVE  /\ IsFiniteSet(Outstanding) /\ Cost(Outstanding) \in Nat
           /\ IsFiniteSet(Landed) /\ Cost(Landed) \in Nat
           /\ Spent \in {0, Amount} /\ Spent \in Nat
<1>1. Outstanding \subseteq fillTx /\ Landed \subseteq late
    BY DEF Outstanding, Landed
<1>. QED  BY <1>1, CostsCompare, SolverAssumption DEF FillsInv, Spent

LEMMA StepsKeepFills ==
    ASSUME SolverTypes, OneAtHand, FillsInv, [Next]_vars
    PROVE  FillsInv'
<1> USE SolverAssumption DEF FillsInv, OneAtHand, AtRest
<1>1. CASE Tick \/ UNCHANGED vars
    BY <1>1 DEF Tick, vars, outside, loop
<1>2. CASE BeginTick
    BY <1>2 DEF BeginTick
<1>3. CASE List
    BY <1>3 DEF List, outside
<1>4. CASE ListFails \/ EndTick
    BY <1>4 DEF ListFails, EndTick, outside
<1>5. CASE Restart
    BY <1>5 DEF Restart, outside
<1>6. ASSUME NEW i \in Intents, World(i)
      PROVE  FillsInv'
    <2>1. CASE FillIncluded(i)
        BY <2>1, FS_RemoveElement DEF FillIncluded, loop
    <2>2. CASE ~FillIncluded(i)
        BY <1>6, <2>2 DEF World, Correct, Unlist, OtherLocks, LockMined, Registers,
                          OtherFills, Cancels, LockEnds, Elapse, outside, loop
    <2>. QED  BY <2>1, <2>2
<1>7. ASSUME NEW i \in Intents, Consider(i)
      PROVE  FillsInv'
    <2>1. /\ UNCHANGED <<fillTx, late>> /\ phase = "turn"
          /\ DOMAIN page' \subseteq DOMAIN page /\ i \in DOMAIN page /\ i \notin DOMAIN page'
          /\ \/ phase' = "turn" /\ cur' = cur
             \/ phase' = "check" /\ cur' = i
        BY <1>7 DEF Consider, Mismatch, BadSignature, NoHeadroom, Skip, Commit, NextRecord,
                    outside
    <2>. QED  BY <2>1
<1>8. ASSUME NEW i \in Intents, Fill(i)
      PROVE  FillsInv'
    <2>0. cur = i /\ phase \notin AtRest
        BY <1>8, FillStories
    <2>1. CASE GoesOn(i)
        BY <2>0, <2>1 DEF GoesOn, BeforeSubmission
    <2>2. CASE Submits(i)
        BY <2>0, <2>2, FS_AddElement DEF Submits, SubmitFill
    <2>3. CASE Fails(i) \/ Report(i)
        BY <2>0, <2>3 DEF Fails, Failed, Report
    <2>4. CASE Wins(i)
        BY <2>0, <2>4 DEF Wins, Filled, outside
    <2>. QED  BY <1>8, <2>1, <2>2, <2>3, <2>4, FillStories
<1>. QED  BY <1>1, <1>2, <1>3, <1>4, <1>5, <1>6, <1>7, <1>8 DEF Next

(* A step that sends nothing and takes nothing from the account.             *)
LEMMA LooserKeeps ==
    ASSUME SolverTypes, FillsInv, CapitalInv, late' = late,
           UNCHANGED <<held, reserved, reading, balance>>,
           phase = "idle" <=> phase' = "idle",
           Outstanding' \subseteq Outstanding, Landed \subseteq Landed',
           Spent <= Spent', Spent' \in Nat
    PROVE  CapitalInv'
<1>1. Landed' \subseteq late
    BY DEF Landed
<1>2. Cost(Outstanding') <= Cost(Outstanding) /\ Cost(Landed) <= Cost(Landed')
    BY <1>1, SumsAreNat, CostsCompare DEF FillsInv
<1>3. /\ Cost(Outstanding') \in Nat /\ Cost(Outstanding) \in Nat
      /\ Cost(Landed) \in Nat /\ Cost(Landed') \in Nat /\ Spent \in Nat
    BY <1>1, SumsAreNat, CostsCompare DEF FillsInv
<1>. QED  BY <1>2, <1>3 DEF CapitalInv, SolverTypes

LEMMA WorldKeepsCapital ==
    ASSUME SolverTypes, OneAtHand, FillsInv, CapitalInv, NEW i \in Intents, World(i)
    PROVE  CapitalInv'
<1> USE SolverAssumption
<1>0. \A j \in Intents : dest[j] = "filled" => dest'[j] = "filled"
    BY DeliveredStays DEF Next
<1>1. UNCHANGED <<phase, cur, held, reserved, reading, late>>
    BY DEF World, Correct, Unlist, OtherLocks, LockMined, Registers, OtherFills,
           FillIncluded, Cancels, LockEnds, Elapse, outside, loop, retry, capital
<1>2. fillTx' \subseteq fillTx
    BY DEF World, Correct, Unlist, OtherLocks, LockMined, Registers, OtherFills,
           FillIncluded, Cancels, LockEnds, Elapse, outside
<1>3. /\ Outstanding' \subseteq Outstanding /\ Landed \subseteq Landed'
      /\ Spent <= Spent' /\ Spent' \in Nat
    <2>1. Outstanding' \subseteq Outstanding /\ Landed \subseteq Landed'
        BY <1>0, <1>1, <1>2 DEF Outstanding, Landed, FillsInv
    <2>2. Spent <= Spent' /\ Spent' \in Nat
        BY <1>0, <1>1 DEF Spent, OneAtHand, AtRest
    <2>. QED  BY <2>1, <2>2
<1>4. CASE balance' = balance
    BY <1>1, <1>3, <1>4, LooserKeeps
<1>5. CASE balance' # balance
    <2>1. /\ i \in fillTx /\ fillTx' = fillTx \ {i}
          /\ dest[i] = "locked" /\ dest' = [dest EXCEPT ![i] = "filled"]
          /\ balance' = balance - Amount
        BY <1>5 DEF World, Correct, Unlist, OtherLocks, LockMined, Registers, OtherFills,
                    FillIncluded, FillAccepted, Cancels, LockEnds, Elapse, outside
    <2>2. dest'[i] = "filled" /\ \A j \in Intents \ {i} : dest'[j] = dest[j]
        BY <2>1 DEF SolverTypes
    <2>3. /\ Cost(Outstanding') \in Nat /\ Cost(Outstanding') <= Cost(Outstanding)
          /\ Cost(Landed') \in Nat /\ Cost(Landed) <= Cost(Landed')
        <3>1. Landed' \subseteq late
            BY <1>1 DEF Landed
        <3>. QED  BY <1>3, <3>1, SumsAreNat, CostsCompare DEF FillsInv
    \* It was one of the old ones, one that was given up on, or the one at hand.
    <2>4. CASE i \in late
        <3>1. i \in Landed' /\ Landed = Landed' \ {i}
            BY <1>1, <2>1, <2>2, <2>4 DEF Landed, FillsInv
        <3>2. IsFiniteSet(Landed')
            BY <1>1, FS_Subset DEF Landed, FillsInv
        <3>3. Cost(Landed') = Cost(Landed) + Amount
            BY <3>1, <3>2, CostOfOne
        <3>. QED  BY <1>1, <1>3, <2>1, <2>3, <3>3, SumsAreNat DEF CapitalInv, SolverTypes
    <2>5. CASE i \notin late /\ i # cur
        <3>1. i \in Outstanding /\ Outstanding' = Outstanding \ {i}
            BY <1>1, <2>1, <2>2, <2>5 DEF Outstanding, FillsInv
        <3>2. Cost(Outstanding) = Cost(Outstanding') + Amount
            BY <3>1, SumsAreNat, CostOfOne
        <3>. QED  BY <1>1, <1>3, <2>1, <2>3, <3>2, SumsAreNat DEF CapitalInv, SolverTypes
    <2>6. CASE i \notin late /\ i = cur
        <3>1. phase = "confirm"
            BY <2>1, <2>6 DEF FillsInv
        <3>2. Spent = 0 /\ Spent' = Amount
            BY <1>1, <2>1, <2>2, <2>6, <3>1 DEF Spent
        <3>. QED  BY <1>1, <2>1, <2>3, <3>1, <3>2, SumsAreNat DEF CapitalInv, SolverTypes
    <2>. QED  BY <2>4, <2>5, <2>6
<1>. QED  BY <1>4, <1>5

LEMMA FillKeepsCapital ==
    ASSUME SolverTypes, OneAtHand, FillsInv, CapitalInv, NEW i \in Intents, Fill(i)
    PROVE  CapitalInv'
<1> USE SolverAssumption
<1>0. cur = i /\ phase \notin AtRest /\ reserved = Amount
    BY FillStories DEF OneAtHand
<1>a. /\ Cost(Outstanding) \in Nat /\ Cost(Landed) \in Nat /\ Spent \in {0, Amount}
      /\ held + reserved <= reading /\ Cost(Outstanding) <= held
      /\ Cost(Outstanding) + reading <= balance + held + Spent + Cost(Landed)
    BY <1>0, SumsAreNat DEF CapitalInv, AtRest
<1>1. CASE GoesOn(i)
    <2>1. Outstanding' = Outstanding /\ Landed' = Landed /\ Spent = 0 /\ Spent' = 0
        BY <1>1 DEF GoesOn, BeforeSubmission, Outstanding, Landed, Spent
    <2>. QED  BY <1>1, <2>1, LooserKeeps DEF GoesOn, BeforeSubmission, capital
<1>2. CASE Submits(i)
    <2>1. Outstanding' = Outstanding /\ Landed' = Landed /\ Spent = 0 /\ Spent' = 0
        BY <1>0, <1>2 DEF Submits, SubmitFill, FillAccepted, Outstanding, Landed, Spent
    <2>. QED  BY <1>2, <2>1, LooserKeeps DEF Submits, SubmitFill, capital
<1>3. CASE Fails(i)
    <2>1. PICK definite \in BOOLEAN : Failed(i, definite) /\ (phase = "confirm" => ~definite)
        BY <1>3 DEF Fails, BeforeSubmission
    <2>2. /\ phase' = "turn" /\ cur' = None /\ reserved' = 0 /\ Spent' = 0
          /\ UNCHANGED <<dest, fillTx, balance, late, reading>> /\ Landed' = Landed
        BY <1>0, <2>1 DEF Failed, Release, HoldForRefresh, Spent, Landed
    <2>3. CASE phase # "confirm"
        \* A definite failure took nothing; after any other the amount is held.
        <3>1. phase \in BeforeSubmission /\ Spent = 0 /\ held' \in {held, held + Amount}
            BY <1>3, <2>1, <2>3 DEF Fails, Spent, BeforeSubmission, Failed, Release,
                                    HoldForRefresh
        <3>2. Outstanding' = Outstanding
            BY <1>0, <2>2, <2>3 DEF Outstanding, FillsInv
        <3>. QED  BY <1>0, <1>a, <2>2, <3>1, <3>2 DEF CapitalInv, SolverTypes
    <2>4. CASE phase = "confirm"
        <3>1. held' = held + Amount
            BY <2>1, <2>4 DEF Failed, HoldForRefresh
        <3>2. CASE dest[i] = "filled"
            <4>1. Outstanding' = Outstanding
                BY <1>0, <2>2, <3>2 DEF Outstanding, FillsInv
            <4>. QED  BY <1>0, <1>a, <2>2, <3>1, <4>1 DEF CapitalInv, SolverTypes
        <3>3. CASE dest[i] # "filled"
            <4>1. Outstanding' \subseteq Outstanding \cup {i} /\ Outstanding' \subseteq fillTx
                BY <1>0, <2>2 DEF Outstanding
            <4>2. Cost(Outstanding') <= Cost(Outstanding) + Amount /\ Cost(Outstanding') \in Nat
                BY <4>1, SumsAreNat, CostOfOneMore, CostsCompare DEF FillsInv
            <4>3. Spent = 0
                BY <1>0, <3>3 DEF Spent
            <4>. QED  BY <1>0, <1>a, <2>2, <3>1, <4>2, <4>3 DEF CapitalInv, SolverTypes
        <3>. QED  BY <3>2, <3>3
    <2>. QED  BY <2>3, <2>4
<1>4. CASE Wins(i)
    <2>1. /\ Outstanding' = Outstanding /\ Landed' = Landed
          /\ phase' = "report" /\ phase # "idle" /\ late' = late
          /\ UNCHANGED <<held, reserved, reading, balance>>
        BY <1>0, <1>4 DEF Wins, Filled, outside, capital, Outstanding, Landed
    <2>2. Spent' = Amount
        BY <1>0, <1>4 DEF Wins, Filled, outside, Spent
    <2>. QED  BY <1>a, <2>1, <2>2, LooserKeeps
<1>5. CASE Report(i)
    <2>1. /\ phase' = "turn" /\ cur' = None /\ reserved' = 0 /\ held' = held + Amount
          /\ UNCHANGED <<dest, fillTx, balance, late, reading>> /\ Landed' = Landed
          /\ Spent' = 0 /\ phase = "report"
        BY <1>0, <1>5 DEF Report, Running, HoldForRefresh, Spent, Landed
    <2>2. Outstanding' = Outstanding
        BY <1>0, <2>1 DEF Outstanding, FillsInv
    <2>. QED  BY <1>0, <1>a, <2>1, <2>2 DEF CapitalInv, SolverTypes
<1>. QED  BY <1>1, <1>2, <1>3, <1>4, <1>5, FillStories

LEMMA LoopKeepsCapital ==
    ASSUME SolverTypes, OneAtHand, FillsInv, CapitalInv,
           Tick \/ BeginTick \/ List \/ ListFails \/ EndTick \/ Restart \/ UNCHANGED vars
    PROVE  CapitalInv'
<1> USE SolverAssumption
<1>a. Cost(Outstanding) \in Nat /\ Cost(Landed) \in Nat /\ Spent \in {0, Amount}
    BY SumsAreNat
<1>1. CASE BeginTick
    \* All that is under way is old now.
    <2>1. /\ held' = 0 /\ reserved' = 0 /\ reading' = balance /\ balance' = balance
          /\ phase' = "list" /\ late' = fillTx /\ fillTx' = fillTx
        BY <1>1 DEF BeginTick, OneAtHand, AtRest
    <2>2. Outstanding' = {} /\ Landed' \subseteq fillTx /\ Spent' = 0
        BY <2>1 DEF Outstanding, Landed, Spent
    <2>3. Cost(Outstanding') = 0 /\ Cost(Landed') \in Nat
        BY <2>2, FS_EmptySet, CostsCompare DEF FillsInv, Cost
    <2>. QED  BY <2>1, <2>2, <2>3 DEF CapitalInv, SolverTypes
<1>2. CASE Restart
    <2>1. /\ UNCHANGED <<dest, fillTx, balance, late>> /\ cur' = None /\ phase' = "idle"
          /\ Landed' = Landed
        BY <1>2 DEF Restart, outside, Landed
    <2>2. CASE phase \in AtRest \/ dest[cur] = "filled"
        <3>1. Outstanding' \subseteq Outstanding
            BY <2>1, <2>2 DEF Outstanding, OneAtHand
        <3>2. Cost(Outstanding') <= Cost(Outstanding) /\ Cost(Outstanding') \in Nat
            BY <3>1, SumsAreNat, CostsCompare
        <3>3. phase # "idle" => held + Spent <= reading
            BY <2>2 DEF CapitalInv, Spent, AtRest, OneAtHand, SolverTypes
        <3>. QED  BY <1>a, <2>1, <3>2, <3>3 DEF CapitalInv, SolverTypes
    <2>3. CASE phase \notin AtRest /\ dest[cur] # "filled"
        <3>1. Outstanding' \subseteq Outstanding \cup {cur} /\ Outstanding' \subseteq fillTx
            BY <2>1 DEF Outstanding
        <3>2. Cost(Outstanding') <= Cost(Outstanding) + Amount /\ Cost(Outstanding') \in Nat
            BY <3>1, SumsAreNat, CostOfOneMore, CostsCompare DEF FillsInv
        <3>3. Spent = 0 /\ reserved = Amount /\ phase # "idle"
            BY <2>3 DEF Spent, OneAtHand, AtRest
        <3>. QED  BY <1>a, <2>1, <3>2, <3>3 DEF CapitalInv, SolverTypes
    <2>. QED  BY <2>2, <2>3
<1>3. CASE List \/ ListFails \/ EndTick
    <2>1. /\ UNCHANGED <<dest, fillTx, balance, late, cur, held, reserved, reading>>
          /\ Landed' = Landed /\ Outstanding' = Outstanding
          /\ phase \in {"list", "turn"} /\ phase' \in {"idle", "turn"}
        BY <1>3 DEF List, ListFails, EndTick, outside, capital, Landed, Outstanding
    <2>2. Spent = 0 /\ Spent' = 0 /\ reserved = 0
        BY <2>1 DEF Spent, OneAtHand, AtRest
    <2>. QED  BY <1>a, <2>1, <2>2 DEF CapitalInv, SolverTypes
<1>4. CASE Tick \/ UNCHANGED vars
    <2>1. /\ UNCHANGED <<dest, fillTx, balance, late, cur, phase, held, reserved, reading>>
        BY <1>4 DEF Tick, vars, outside, loop, capital
    <2>2. Landed' = Landed /\ Outstanding' = Outstanding /\ Spent' = Spent
        BY <2>1 DEF Landed, Outstanding, Spent
    <2>. QED  BY <2>1, <2>2 DEF CapitalInv
<1>. QED  BY <1>1, <1>2, <1>3, <1>4

LEMMA ConsiderKeepsCapital ==
    ASSUME SolverTypes, OneAtHand, FillsInv, CapitalInv, NEW i \in Intents, Consider(i)
    PROVE  CapitalInv'
<1> USE SolverAssumption
<1>a. Cost(Outstanding) \in Nat /\ Cost(Landed) \in Nat
    BY SumsAreNat
<1>1. CASE Commit(i)
    \* What is covered by the reading and not held is in the account.
    <2>1. /\ UNCHANGED <<dest, fillTx, balance, late, held>> /\ Landed' = Landed
          /\ phase = "turn" /\ phase' = "check" /\ cur = None /\ reserved = 0
          /\ reserved' = Amount
          /\ reading' \in {reading, balance} /\ held + Amount <= reading'
        BY <1>1 DEF Commit, Covered, NextRecord, OneAtHand, AtRest, outside, Landed, SolverTypes
    <2>2. Outstanding' \subseteq Outstanding /\ Spent = 0 /\ Spent' = 0
        BY <2>1 DEF Outstanding, Spent, FillsInv
    <2>3. Cost(Outstanding') <= Cost(Outstanding) /\ Cost(Outstanding') \in Nat
        BY <2>2, SumsAreNat, CostsCompare
    <2>. QED  BY <1>a, <2>1, <2>2, <2>3 DEF CapitalInv, SolverTypes
<1>2. CASE Mismatch(i) \/ BadSignature(i) \/ NoHeadroom(i) \/ Skip(i)
    <2>1. /\ UNCHANGED <<dest, fillTx, balance, late, cur, phase, held, reserved, reading>>
        BY <1>2 DEF Mismatch, BadSignature, NoHeadroom, Skip, NextRecord, outside, capital
    <2>2. Landed' = Landed /\ Outstanding' = Outstanding /\ Spent' = Spent
        BY <2>1 DEF Landed, Outstanding, Spent
    <2>. QED  BY <2>1, <2>2 DEF CapitalInv
<1>. QED  BY <1>1, <1>2 DEF Consider

LEMMA CommittedIsCovered ==
    ASSUME SolverTypes, OneAtHand, FillsInv, CapitalInv
    PROVE  CapitalCovers
<1> USE SolverAssumption
<1>a. Cost(Outstanding) \in Nat /\ Cost(Landed) \in Nat
    BY SumsAreNat
<1>1. CASE phase \in AtRest
    <2>1. Committed = Outstanding /\ Spent = 0 /\ cur = None /\ reserved = 0
        BY <1>1 DEF Committed, Outstanding, Spent, OneAtHand, AtRest, FillsInv
    <2>. QED  BY <1>1, <1>a, <2>1 DEF CapitalCovers, CapitalInv, AtRest, SolverTypes
<1>2. CASE phase \notin AtRest
    <2>1. /\ cur \in Intents /\ cur # None /\ reserved = Amount /\ held + Amount <= reading
          /\ Cost(Outstanding) + reading <= balance + held + Spent + Cost(Landed)
        BY <1>2 DEF OneAtHand, CapitalInv, AtRest
    <2>2. CASE dest[cur] = "filled"
        <3>1. Committed = Outstanding /\ Spent \in {0, Amount}
            BY <2>1, <2>2 DEF Committed, Outstanding, Spent
        <3>. QED  BY <1>2, <1>a, <2>1, <3>1 DEF CapitalCovers, AtRest, SolverTypes
    <2>3. CASE dest[cur] # "filled"
        <3>1. Committed \subseteq Outstanding \cup {cur} /\ Spent = 0
            BY <2>3 DEF Committed, Outstanding, Spent
        <3>2. Cost(Committed) <= Cost(Outstanding) + Amount /\ Cost(Committed) \in Nat
            <4>1. Committed \subseteq fillTx \cup {cur} /\ IsFiniteSet(fillTx \cup {cur})
                BY FS_AddElement DEF Committed, FillsInv
            <4>. QED  BY <3>1, <4>1, SumsAreNat, CostOfOneMore, CostsCompare
        <3>. QED  BY <1>2, <1>a, <2>1, <3>1, <3>2 DEF CapitalCovers, AtRest, SolverTypes
    <2>. QED  BY <2>2, <2>3
<1>. QED  BY <1>1, <1>2

(* Two fills are never promised the same capital: until the next refresh     *)
(* what a failed attempt may have spent stays held, so the account covers    *)
(* the fill at hand together with all that were given up on in this tick.    *)
(* Only a fill that was under way before the balance was read can take more, *)
(* and no more than its own amount.                                          *)
THEOREM CapitalIsCovered == Spec => []CapitalCovers
<1>1. Init => FillsInv /\ CapitalInv
    <2> SUFFICES ASSUME Init
                 PROVE  FillsInv /\ CapitalInv
        OBVIOUS
    <2>1. FillsInv
        BY FS_EmptySet DEF Init, FillsInv, AtRest
    <2>2. Outstanding = {} /\ Landed = {}
        BY DEF Init, Outstanding, Landed
    <2>3. Cost({}) = 0
        BY FS_EmptySet, SolverAssumption DEF Cost
    <2>. QED  BY <2>1, <2>2, <2>3, SolverAssumption DEF Init, CapitalInv
<1>2. (SolverTypes /\ OneAtHand) /\ (FillsInv /\ CapitalInv) /\ [Next]_vars
         => (FillsInv /\ CapitalInv)'
    <2> SUFFICES ASSUME SolverTypes, OneAtHand, FillsInv, CapitalInv, [Next]_vars
                 PROVE  FillsInv' /\ CapitalInv'
        OBVIOUS
    <2>1. CASE Tick \/ BeginTick \/ List \/ ListFails \/ EndTick \/ Restart \/ UNCHANGED vars
        BY <2>1, StepsKeepFills, LoopKeepsCapital
    <2>2. ASSUME NEW i \in Intents, World(i) \/ Consider(i) \/ Fill(i)
          PROVE  FillsInv' /\ CapitalInv'
        BY <2>2, StepsKeepFills, WorldKeepsCapital, ConsiderKeepsCapital, FillKeepsCapital
    <2>. QED  BY <2>1, <2>2 DEF Next
<1>3. (SolverTypes /\ OneAtHand) /\ (FillsInv /\ CapitalInv) => CapitalCovers
    BY CommittedIsCovered
<1>. QED  BY <1>1, <1>2, <1>3, SolverTypesHold, PTL DEF Spec
-----------------------------------------------------------------------------
(* Inductive: while the report is on its way, the intent is delivered.       *)
ReportInv ==
    /\ reported \subseteq Intents /\ ReportedIsDelivered
    /\ phase = "report" => cur \in Intents /\ dest[cur] = "filled"

LEMMA StepsKeepReports ==
    ASSUME SolverTypes, ReportInv, [Next]_vars
    PROVE  ReportInv'
<1>1. \A i \in Intents : dest[i] = "filled" => dest'[i] = "filled"
    BY DeliveredStays
<1>2. CASE /\ reported' = reported
           /\ phase' = "report" => phase = "report" /\ cur' = cur
    BY <1>1, <1>2 DEF ReportInv, ReportedIsDelivered
<1>3. CASE Tick \/ BeginTick \/ List \/ ListFails \/ EndTick \/ Restart \/ UNCHANGED vars
    BY <1>2, <1>3 DEF Tick, BeginTick, List, ListFails, EndTick, Restart, vars, outside, loop
<1>4. ASSUME NEW i \in Intents, World(i) \/ Consider(i)
      PROVE  ReportInv'
    BY <1>2, <1>4
    DEF World, Correct, Unlist, OtherLocks, LockMined, Registers, OtherFills, FillIncluded,
        Cancels, LockEnds, Elapse, Consider, Mismatch, BadSignature, NoHeadroom, Skip,
        Commit, NextRecord, outside, loop
<1>5. ASSUME NEW i \in Intents, Fill(i)
      PROVE  ReportInv'
    <2>1. CASE GoesOn(i) \/ Submits(i) \/ Fails(i)
        BY <1>2, <2>1 DEF GoesOn, BeforeSubmission, Submits, SubmitFill, Fails, Failed
    <2>2. CASE Wins(i)
        BY <1>1, <1>5, <2>2, FillStories
        DEF Wins, Filled, outside, ReportInv, ReportedIsDelivered
    <2>3. CASE Report(i)
        BY <1>1, <2>3 DEF Report, Running, ReportInv, ReportedIsDelivered
    <2>. QED  BY <1>5, <2>1, <2>2, <2>3, FillStories
<1>. QED  BY <1>3, <1>4, <1>5 DEF Next

(* reportFilled is sent for what Stellar has delivered and for nothing else: *)
(* the executor returns only from a status of Settled or a confirmed fill,   *)
(* and neither is ever undone.                                               *)
THEOREM ReportsAreTrue == Spec => []ReportedIsDelivered
<1>1. Init => ReportInv
    BY DEF Init, ReportInv, ReportedIsDelivered
<1>2. (SolverTypes /\ OneAtHand) /\ ReportInv /\ [Next]_vars => ReportInv'
    BY StepsKeepReports
<1>3. ReportInv => ReportedIsDelivered
    BY DEF ReportInv
<1>. QED  BY <1>1, <1>2, <1>3, SolverTypesHold, PTL DEF Spec
-----------------------------------------------------------------------------
(* A record whose hash is wrong is never taken up, so its intent is never    *)
(* locked: nothing of ours is lost when it is retired.                       *)
PageHas(i, r) == i \in DOMAIN page /\ page[i] = r

Unlocked(i) == lock[i] # "own" /\ i \notin lockTx /\ (phase \in AtRest \/ cur # i)

HashInv ==
    \A i \in Intents :
        /\ record[i] = "badHash" \/ PageHas(i, "badHash") => Unlocked(i)
        /\ PageHas(i, "valid") => record[i] # "badHash"

LEMMA StepsKeepHashes ==
    ASSUME SolverTypes, OneAtHand, HashInv, [Next]_vars
    PROVE  HashInv'
<1> SUFFICES ASSUME NEW i \in Intents
             PROVE  /\ (record[i] = "badHash" \/ PageHas(i, "badHash") => Unlocked(i))'
                    /\ (PageHas(i, "valid") => record[i] # "badHash")'
    BY DEF HashInv
<1> USE DEF SolverTypes
<1>0. /\ record[i] = "badHash" \/ PageHas(i, "badHash") => Unlocked(i)
      /\ PageHas(i, "valid") => record[i] # "badHash"
    BY DEF HashInv
<1>1. ASSUME \A r \in {"badHash", "valid"} : PageHas(i, r)' => PageHas(i, r),
             record'[i] = "badHash" => record[i] = "badHash",
             Unlocked(i) => Unlocked(i)'
      PROVE  /\ (record[i] = "badHash" \/ PageHas(i, "badHash") => Unlocked(i))'
             /\ (PageHas(i, "valid") => record[i] # "badHash")'
    BY <1>0, <1>1
<1>2. CASE Tick \/ BeginTick \/ ListFails \/ EndTick \/ UNCHANGED vars
    BY <1>1, <1>2 DEF Tick, BeginTick, ListFails, EndTick, vars, outside, loop, PageHas,
                      Unlocked, AtRest
<1>3. CASE Restart
    BY <1>1, <1>3 DEF Restart, Empty, PageHas, Unlocked, AtRest, outside
<1>4. CASE List
    <2>1. \A r : PageHas(i, r)' => record[i] = r
        BY <1>4 DEF List, PageHas
    <2>2. UNCHANGED record /\ (Unlocked(i) => Unlocked(i)')
        BY <1>4 DEF List, outside, Unlocked, AtRest
    <2>. QED  BY <1>0, <2>1, <2>2
<1>5. ASSUME NEW j \in Intents, World(j)
      PROVE  /\ (record[i] = "badHash" \/ PageHas(i, "badHash") => Unlocked(i))'
             /\ (PageHas(i, "valid") => record[i] # "badHash")'
    <2>1. /\ UNCHANGED <<page, phase, cur>>
          /\ lockTx' \subseteq lockTx
          /\ record'[i] = "badHash" => record[i] = "badHash"
        BY <1>5 DEF World, Correct, Unlist, OtherLocks, LockMined, Registers, OtherFills,
                    FillIncluded, Cancels, LockEnds, Elapse, outside, loop, None
    <2>2. Unlocked(i) => lock'[i] # "own"
        BY <1>5 DEF World, Correct, Unlist, OtherLocks, LockMined, Registers, OtherFills,
                    FillIncluded, Cancels, LockEnds, Elapse, outside, loop, Unlocked
    <2>. QED  BY <1>1, <2>1, <2>2 DEF PageHas, Unlocked
<1>6. ASSUME NEW j \in Intents, Consider(j)
      PROVE  /\ (record[i] = "badHash" \/ PageHas(i, "badHash") => Unlocked(i))'
             /\ (PageHas(i, "valid") => record[i] # "badHash")'
    <2>1. /\ UNCHANGED <<lock, lockTx, record>>
          /\ \A r : PageHas(i, r)' <=> PageHas(i, r) /\ i # j
          /\ phase \in AtRest
        BY <1>6 DEF Consider, Mismatch, BadSignature, NoHeadroom, Skip, Commit, NextRecord,
                    outside, PageHas, AtRest
    <2>2. CASE Commit(j)
        <3>1. cur' = j /\ PageHas(j, "valid")
            BY <2>2 DEF Commit, NextRecord, PageHas
        <3>2. CASE i = j
            BY <1>0, <2>1, <3>1, <3>2
        <3>3. CASE i # j
            BY <1>1, <2>1, <3>1, <3>3 DEF Unlocked
        <3>. QED  BY <3>2, <3>3
    <2>3. CASE ~Commit(j)
        <3>1. phase' = phase
            BY <1>6, <2>3 DEF Consider, Mismatch, BadSignature, NoHeadroom, Skip, NextRecord
        <3>. QED  BY <1>1, <2>1, <3>1 DEF Unlocked
    <2>. QED  BY <2>2, <2>3
<1>7. ASSUME NEW j \in Intents, Fill(j)
      PROVE  /\ (record[i] = "badHash" \/ PageHas(i, "badHash") => Unlocked(i))'
             /\ (PageHas(i, "valid") => record[i] # "badHash")'
    <2>1. /\ UNCHANGED <<lock, page>>
          /\ lockTx' \subseteq lockTx \cup {j}
          /\ phase' \in AtRest \/ cur' = j
          /\ cur = j /\ phase \notin AtRest
          /\ record'[i] = "badHash" => record[i] = "badHash"
        BY <1>7, FillStories
        DEF GoesOn, Submits, SubmitFill, Fails, Failed, Wins, Filled, Report, outside, None,
            AtRest
    <2>. QED  BY <1>1, <2>1 DEF PageHas, Unlocked
<1>. QED  BY <1>2, <1>3, <1>4, <1>5, <1>6, <1>7 DEF Next

LEMMA HashInvHolds == Spec => []HashInv
<1>1. Init => HashInv
    BY DEF Init, HashInv, PageHas, Unlocked, AtRest, Empty, None
<1>2. (SolverTypes /\ OneAtHand) /\ HashInv /\ [Next]_vars => HashInv'
    BY StepsKeepHashes
<1>. QED  BY <1>1, <1>2, SolverTypesHold, PTL DEF Spec

(* How an intent comes to be remembered as done.                             *)
LEMMA RetiredOnlyBy ==
    ASSUME SolverTypes, HashInv, [Next]_vars, NEW i \in Intents, i \notin seen, i \in seen'
    PROVE  \/ dest[i] = "filled"
           \/ lock[i] # "own" /\ lock' = lock
           \/ NoHeadroom(i)
           \/ tries[i] = MaxRetries
<1>1. CASE Tick \/ BeginTick \/ List \/ ListFails \/ EndTick \/ Restart \/ UNCHANGED vars
    BY <1>1 DEF Tick, BeginTick, List, ListFails, EndTick, Restart, vars, retry
<1>2. ASSUME NEW j \in Intents, World(j)
      PROVE  FALSE
    BY <1>2 DEF World, Correct, Unlist, OtherLocks, LockMined, Registers, OtherFills,
                FillIncluded, Cancels, LockEnds, Elapse, retry
<1>3. ASSUME NEW j \in Intents, Consider(j)
      PROVE  \/ lock[i] # "own" /\ lock' = lock
             \/ NoHeadroom(i)
    <2>1. CASE Mismatch(j)
        BY <2>1 DEF Mismatch, NextRecord, Retire, PageHas, HashInv, Unlocked, outside
    <2>2. CASE NoHeadroom(j)
        <3>1. i = j
            BY <2>2 DEF NoHeadroom, Retire
        <3>. QED  BY <2>2, <3>1
    <2>3. CASE BadSignature(j) \/ Skip(j) \/ Commit(j)
        BY <2>3 DEF BadSignature, Skip, Commit, retry
    <2>. QED  BY <1>3, <2>1, <2>2, <2>3 DEF Consider
<1>4. ASSUME NEW j \in Intents, Fill(j)
      PROVE  dest[i] = "filled" \/ tries[i] = MaxRetries
    <2>1. CASE GoesOn(j) \/ Submits(j) \/ Report(j)
        BY <2>1 DEF GoesOn, Submits, SubmitFill, Report, retry
    <2>2. CASE Fails(j)
        BY <2>2, SolverAssumption DEF Fails, Failed, ScheduleRetry, Retire, SolverTypes
    <2>3. CASE Wins(j)
        BY <2>3 DEF Wins, Filled, Retire
    <2>. QED  BY <1>4, <2>1, <2>2, <2>3, FillStories
<1>. QED  BY <1>1, <1>2, <1>3, <1>4 DEF Next

(* A lock becomes ours only as our transaction is mined.                     *)
LEMMA OwnedOnlyByMining ==
    ASSUME SolverTypes, [Next]_vars, NEW i \in Intents, lock[i] # "own", lock'[i] = "own"
    PROVE  LockMined(i)
<1> USE DEF SolverTypes
<1>1. CASE Tick \/ BeginTick \/ List \/ ListFails \/ EndTick \/ Restart \/ UNCHANGED vars
    BY <1>1 DEF Tick, BeginTick, List, ListFails, EndTick, Restart, vars, outside
<1>2. ASSUME NEW j \in Intents, World(j)
      PROVE  LockMined(i)
    <2>1. LockMined(j) \/ UNCHANGED lock \/ \E s \in {"other", "ended"} : lock' = [lock EXCEPT ![j] = s]
        BY <1>2 DEF World, Correct, Unlist, OtherLocks, Registers, OtherFills,
                    FillIncluded, Cancels, LockEnds, Elapse, outside
    <2>2. LockMined(j) => i = j
        BY DEF LockMined
    <2>. QED  BY <2>1, <2>2
<1>3. ASSUME NEW j \in Intents, Consider(j) \/ Fill(j)
      PROVE  lock' = lock
    BY <1>3, FillStories
    DEF Consider, Mismatch, BadSignature, NoHeadroom, Skip, Commit, outside,
        GoesOn, Submits, SubmitFill, Fails, Failed, Wins, Filled, Report
<1>. QED  BY <1>1, <1>2, <1>3 DEF Next

LEMMA ClockRuns ==
    ASSUME SolverTypes, [Next]_vars
    PROVE  time' \in Nat /\ time <= time'
<1> USE DEF SolverTypes
<1>1. CASE Tick \/ BeginTick \/ List \/ ListFails \/ EndTick \/ Restart \/ UNCHANGED vars
    BY <1>1 DEF Tick, BeginTick, List, ListFails, EndTick, Restart, vars, outside
<1>2. ASSUME NEW j \in Intents, World(j) \/ Consider(j)
      PROVE  time' = time
    BY <1>2
    DEF World, Correct, Unlist, OtherLocks, LockMined, Registers, OtherFills, FillIncluded,
        Cancels, LockEnds, Elapse, Consider, Mismatch, BadSignature, NoHeadroom, Skip,
        Commit, outside
<1>3. ASSUME NEW j \in Intents, Fill(j)
      PROVE  time' = time
    BY <1>3, FillStories
    DEF GoesOn, Submits, SubmitFill, Fails, Failed, Wins, Filled, Report, outside
<1>. QED  BY <1>1, <1>2, <1>3 DEF Next

(* A lock of ours is never given up through a failed call or a lost race:    *)
(* the steps that put an intent among the seen ones find it delivered,       *)
(* without a lock of ours, too late, or out of retries.                      *)
THEOREM LocksAreNotAbandoned == Spec => AbandonedOnlyBy
<1> DEFINE Allowed(i) == \/ tries[i] = MaxRetries
                         \/ NoHeadroom(i)
                         \/ LockMined(i)
<1>1. ASSUME SolverTypes, HashInv, [Next]_vars, NEW i \in Intents, ~Abandoned(i), Abandoned(i)'
      PROVE  Allowed(i)
    <2>1. dest[i] # "filled"
        BY <1>1, DeliveredStays DEF Abandoned
    <2>2. time + DispatchWindow <= Deadline
        BY <1>1, ClockRuns, SolverAssumption DEF Abandoned, SolverTypes
    <2>3. i \notin seen \/ lock[i] # "own"
        BY <1>1, <2>1, <2>2 DEF Abandoned
    <2>4. CASE lock[i] # "own"
        BY <1>1, <2>4, OwnedOnlyByMining DEF Abandoned
    <2>5. CASE i \notin seen /\ lock[i] = "own"
        BY <1>1, <2>1, <2>5, RetiredOnlyBy DEF Abandoned
    <2>. QED  BY <2>3, <2>4, <2>5
<1>2. (SolverTypes /\ OneAtHand) /\ HashInv /\ [Next]_vars
         => [\A i \in Intents : ~Abandoned(i) /\ Abandoned(i)' => Allowed(i)]_vars
    BY <1>1
<1>. QED  BY <1>2, SolverTypesHold, HashInvHolds, PTL DEF Spec, AbandonedOnlyBy
-----------------------------------------------------------------------------
(* The memory: caches that forget, and what is never forgotten too early.    *)

\* A cache keeps its bound, and one entry for a key.
IsCache(cache) ==
    /\ cache \in Seq(ToSet(cache)) /\ Len(cache) <= CacheSize
    /\ \A j, k \in DOMAIN cache : cache[j].key = cache[k].key => j = k

Modes == {"asleep", "tick", "filling", "halted"}
Signatures == {"none", "good", "bad", "mismatch"}

MemoryTypes ==
    /\ now \in Nat
    /\ failed \in [Hashes -> 0 .. FillRetries + 1] /\ refused \in [Hashes -> {-1} \cup Nat]

\* Every entry outlives the deadline of its intent.
EntriesInv ==
    /\ IsCache(seenCache) /\ IsCache(retryCache)
    /\ \A e \in ToSet(seenCache) : e.until \in Nat /\ FillDeadline <= e.until
    /\ \A e \in ToSet(retryCache) :
          /\ e.until \in Nat /\ FillDeadline <= e.until
          /\ e.attempts \in 1 .. FillRetries

\* The failures of an intent are counted in its retry entry until it is refused, or
\* until no fill can start any more.
FailuresKnown ==
    \A h \in Hashes :
        failed[h] > 0 =>
            \/ \E e \in ToSet(seenCache) : e.key = h
            \/ \E e \in ToSet(retryCache) : e.key = h /\ failed[h] <= e.attempts
            \/ FillDeadline < now

RefusalsKnown ==
    \A h \in Hashes :
        refused[h] >= 0 /\ now <= refused[h] + MinSeenTtl =>
            \E e \in ToSet(seenCache) : e.key = h /\ refused[h] + MinSeenTtl <= e.until

\* An intent is filled only while its failures are counted and no refusal holds.
FillKnown ==
    mode = "filling" =>
        LET h == filling.hash
        IN /\ h \in Hashes /\ filling.signature = "good"
           /\ filling.until \in Nat /\ FillDeadline <= filling.until
           /\ failed[h] <= FillRetries
           /\ failed[h] > 0 =>
                 \E e \in ToSet(retryCache) : e.key = h /\ failed[h] <= e.attempts
           /\ refused[h] < 0 \/ refused[h] + MinSeenTtl < now

\* What the caches still hold is enough to judge an intent by.
Known == MemoryTypes /\ EntriesInv /\ FailuresKnown /\ RefusalsKnown

VerdictsKnown ==
    /\ IsCache(verdicts) /\ offered \in [Hashes -> Signatures]
    /\ \A e \in ToSet(verdicts) : \A h \in Hashes, s \in Signatures :
          e.key = <<h, s>> => e.valid = (s = "good")

CountsKnown ==
    /\ stats \in [attempted : Int, won : Int, lost : Int, gas : Int]
    /\ mode \in Modes /\ FillsAreCounted

MemoryInv == Known /\ FillKnown /\ VerdictsKnown /\ CountsKnown

LEMMA MembersMakeSequence ==
    ASSUME NEW S, NEW seq \in Seq(S)
    PROVE  seq \in Seq(ToSet(seq))
<1>1. DOMAIN seq = 1 .. Len(seq) /\ Len(seq) \in Nat /\ seq = [i \in 1 .. Len(seq) |-> seq[i]]
    OBVIOUS
<1>2. \A i \in 1 .. Len(seq) : seq[i] \in ToSet(seq)
    BY <1>1 DEF ToSet
<1>. QED  BY <1>1, <1>2

LEMMA FilteredIsCache ==
    ASSUME NEW cache, IsCache(cache), NEW K
    PROVE  IsCache(Selected(cache, K)) /\ ToSet(Selected(cache, K)) = ToSet(cache) \cap K
<1>1. PICK kept : kept = Selected(cache, K)
    OBVIOUS
<1>2. cache \in Seq(ToSet(cache)) /\ Len(cache) <= CacheSize /\ Len(cache) \in Nat
      /\ DOMAIN cache = 1 .. Len(cache)
      /\ \A j, k \in DOMAIN cache : cache[j].key = cache[k].key => j = k
    BY DEF IsCache
<1>3. kept \in Seq(ToSet(cache)) /\ ToSet(kept) = ToSet(cache) \cap K /\ Len(kept) <= Len(cache)
    BY <1>1, <1>2, SelectionMembers
<1>4. kept \in Seq(ToSet(kept)) /\ DOMAIN kept = 1 .. Len(kept) /\ Len(kept) \in Nat
    BY <1>3, MembersMakeSequence
<1>5. PICK places : Thinned(kept, cache, Len(cache), places, K)
    BY <1>1, <1>2, SelectionIsThinned
<1>6. ASSUME NEW j \in 1 .. Len(kept), NEW k \in 1 .. Len(kept), kept[j].key = kept[k].key
      PROVE  j = k
    <2>1. places[j] \in 1 .. Len(cache) /\ places[k] \in 1 .. Len(cache)
          /\ kept[j] = cache[places[j]] /\ kept[k] = cache[places[k]]
        BY <1>5 DEF Thinned
    <2>2. places[j] = places[k]
        BY <1>2, <1>6, <2>1
    <2>3. ~(j < k) /\ ~(k < j)
        BY <1>5, <2>1, <2>2 DEF Thinned
    <2>. QED  BY <1>4, <2>3
<1>7. Len(kept) <= CacheSize
    BY <1>2, <1>3, <1>4, SolverMemoryAssumption
<1>8. \A j, k \in DOMAIN kept : kept[j].key = kept[k].key => j = k
    BY <1>4, <1>6
<1>9. IsCache(kept)
    BY <1>4, <1>7, <1>8 DEF IsCache
<1>. QED  BY <1>1, <1>3, <1>9

LEMMA AppendedIsCache ==
    ASSUME NEW cache, IsCache(cache), Len(cache) < CacheSize,
           NEW entry, \A d \in ToSet(cache) : d.key # entry.key
    PROVE  IsCache(Append(cache, entry)) /\ ToSet(Append(cache, entry)) = ToSet(cache) \cup {entry}
<1> DEFINE S == ToSet(cache) \cup {entry}
<1>1. PICK more : more = Append(cache, entry)
    OBVIOUS
<1>2. cache \in Seq(S) /\ Len(cache) \in Nat /\ DOMAIN cache = 1 .. Len(cache)
    <2>1. cache \in Seq(ToSet(cache))
        BY DEF IsCache
    <2>. QED  BY <2>1
<1>3. /\ more \in Seq(S) /\ Len(more) = Len(cache) + 1 /\ more[Len(cache) + 1] = entry
      /\ \A i \in 1 .. Len(cache) : more[i] = cache[i]
      /\ DOMAIN more = 1 .. Len(cache) + 1
    BY <1>1, <1>2, AppendProperties
<1>4. ToSet(more) = S
    BY <1>1, <1>2, AppendKeepsOrder
<1>5. more \in Seq(ToSet(more)) /\ Len(more) <= CacheSize
    BY <1>2, <1>3, <1>4, SolverMemoryAssumption
<1>6. \A i \in 1 .. Len(cache) + 1 : i = Len(cache) + 1 \/ i \in 1 .. Len(cache)
    BY <1>2
<1>7. \A i \in 1 .. Len(cache) : more[i].key # entry.key
    BY <1>2, <1>3 DEF ToSet
<1>8. \A j, k \in DOMAIN more : more[j].key = more[k].key => j = k
    BY <1>2, <1>3, <1>6, <1>7 DEF IsCache
<1>. QED  BY <1>1, <1>4, <1>5, <1>8 DEF IsCache

LEMMA TailIsCache ==
    ASSUME NEW cache, IsCache(cache), Len(cache) > 0
    PROVE  /\ IsCache(Tail(cache)) /\ Len(Tail(cache)) = Len(cache) - 1
           /\ ToSet(Tail(cache)) \subseteq ToSet(cache)
           /\ \A d \in ToSet(cache) : d = cache[1] \/ d \in ToSet(Tail(cache))
<1>1. PICK rest : rest = Tail(cache)
    OBVIOUS
<1>2. cache \in Seq(ToSet(cache)) /\ Len(cache) \in Nat /\ DOMAIN cache = 1 .. Len(cache)
      /\ Len(cache) <= CacheSize
    BY DEF IsCache
<1>3. /\ rest \in Seq(ToSet(cache)) /\ Len(rest) = Len(cache) - 1
      /\ DOMAIN rest = 1 .. Len(cache) - 1
      /\ \A i \in 1 .. Len(cache) - 1 : rest[i] = cache[i + 1]
    BY <1>1, <1>2
<1>4. \A i \in 1 .. Len(cache) - 1 : i + 1 \in 1 .. Len(cache)
    BY <1>2
<1>5. \A i \in 1 .. Len(cache) : i = 1 \/ (i - 1 \in 1 .. Len(cache) - 1 /\ i - 1 + 1 = i)
    BY <1>2
<1>6. ToSet(rest) \subseteq ToSet(cache)
    BY <1>2, <1>3, <1>4 DEF ToSet
<1>7. \A d \in ToSet(cache) : d = cache[1] \/ d \in ToSet(rest)
    <2> SUFFICES ASSUME NEW d \in ToSet(cache), d # cache[1]
                 PROVE  d \in ToSet(rest)
        OBVIOUS
    <2>1. PICK i \in 1 .. Len(cache) : d = cache[i]
        BY <1>2 DEF ToSet
    <2>2. i - 1 \in 1 .. Len(cache) - 1 /\ i - 1 + 1 = i
        BY <1>5, <2>1
    <2>3. i - 1 \in DOMAIN rest /\ d = rest[i - 1]
        BY <1>3, <2>1, <2>2
    <2>. QED  BY <2>3 DEF ToSet
<1>8. \A j, k \in DOMAIN rest : rest[j].key = rest[k].key => j = k
    <2> SUFFICES ASSUME NEW j \in 1 .. Len(cache) - 1, NEW k \in 1 .. Len(cache) - 1,
                        rest[j].key = rest[k].key
                 PROVE  j = k
        BY <1>3
    <2>1. cache[j + 1].key = cache[k + 1].key /\ j + 1 \in DOMAIN cache /\ k + 1 \in DOMAIN cache
        BY <1>2, <1>3, <1>4
    <2>2. j + 1 = k + 1
        BY <2>1 DEF IsCache
    <2>. QED  BY <2>2
<1>9. rest \in Seq(ToSet(rest)) /\ Len(rest) <= CacheSize
    BY <1>2, <1>3, MembersMakeSequence, SolverMemoryAssumption
<1>. QED  BY <1>1, <1>3, <1>6, <1>7, <1>8, <1>9 DEF IsCache

LEMMA WithoutKeeps ==
    ASSUME NEW cache, IsCache(cache), NEW key
    PROVE  /\ IsCache(Without(cache, key))
           /\ ToSet(Without(cache, key)) = {d \in ToSet(cache) : d.key # key}
<1> DEFINE K == {d \in ToSet(cache) : d.key # key}
<1>1. Without(cache, key) = Selected(cache, K)
    BY DEF Without
<1>2. ToSet(cache) \cap K = K
    OBVIOUS
<1> HIDE DEF K
<1>3. IsCache(Without(cache, key)) /\ ToSet(Without(cache, key)) = K
    BY <1>1, <1>2, FilteredIsCache
<1>. QED  BY <1>3 DEF K

\* An entry that is put in may push out one other.
LEMMA PutKeeps ==
    ASSUME NEW cache, IsCache(cache), NEW entry
    PROVE  LET more == Put(cache, entry)
               evicted == EvictedBy(cache, entry.key)
           IN /\ IsCache(more) /\ entry \in ToSet(more)
              /\ \A d \in ToSet(more) : d = entry \/ d \in ToSet(cache)
              /\ \A d \in ToSet(cache) :
                    d.key # entry.key => d \in ToSet(more) \/ d.key \in evicted
              /\ entry.key \notin evicted
<1>1. PICK rest : rest = Without(cache, entry.key)
    OBVIOUS
<1>2. IsCache(rest) /\ ToSet(rest) = {d \in ToSet(cache) : d.key # entry.key}
    BY <1>1, WithoutKeeps
<1>3. Len(rest) \in Nat /\ Len(rest) <= CacheSize /\ CacheSize \in Nat \ {0}
      /\ DOMAIN rest = 1 .. Len(rest)
    BY <1>2, SolverMemoryAssumption DEF IsCache
<1>4. CASE Len(rest) >= CacheSize
    <2>1. PICK tail : tail = Tail(rest)
        OBVIOUS
    <2>2. /\ IsCache(tail) /\ Len(tail) < CacheSize /\ ToSet(tail) \subseteq ToSet(rest)
          /\ \A d \in ToSet(rest) : d = rest[1] \/ d \in ToSet(tail)
        BY <1>2, <1>3, <1>4, <2>1, TailIsCache
    <2>3. Put(cache, entry) = Append(tail, entry)
        BY <1>1, <1>4, <2>1 DEF Put
    <2>4. EvictedBy(cache, entry.key) = {rest[1].key} /\ rest[1] \in ToSet(rest)
        BY <1>1, <1>3, <1>4 DEF EvictedBy, ToSet
    <2>5. IsCache(Append(tail, entry)) /\ ToSet(Append(tail, entry)) = ToSet(tail) \cup {entry}
        <3>1. \A d \in ToSet(tail) : d.key # entry.key
            BY <1>2, <2>2
        <3>. QED  BY <2>2, <3>1, AppendedIsCache
    <2>. QED  BY <1>2, <2>2, <2>3, <2>4, <2>5
<1>5. CASE ~(Len(rest) >= CacheSize)
    <2>1. Put(cache, entry) = Append(rest, entry)
        BY <1>1, <1>5 DEF Put
    <2>2. EvictedBy(cache, entry.key) = {}
        BY <1>1, <1>5 DEF EvictedBy
    <2>3. IsCache(Append(rest, entry)) /\ ToSet(Append(rest, entry)) = ToSet(rest) \cup {entry}
        BY <1>2, <1>3, <1>5, AppendedIsCache
    <2>. QED  BY <1>2, <2>1, <2>2, <2>3
<1>. QED  BY <1>4, <1>5

\* What a cache gives out is the entry of the key, unless it has expired.
LEMMA EntryIsFound ==
    ASSUME NEW cache, IsCache(cache), NEW key
    PROVE  /\ Has(cache, key) => /\ Entry(cache, key) \in ToSet(cache)
                                 /\ Entry(cache, key).key = key
                                 /\ now <= Entry(cache, key).until
           /\ \A d \in ToSet(cache) : d.key = key /\ now <= d.until => Has(cache, key)
           /\ \A d \in ToSet(cache) : d.key = key => d = Entry(cache, key)
<1>1. \A d \in ToSet(cache) : \E k \in DOMAIN cache : d = cache[k]
    BY DEF ToSet
<1>2. \A k \in DOMAIN cache : cache[k] \in ToSet(cache)
    BY DEF ToSet
<1>3. \A d, e \in ToSet(cache) : d.key = e.key => d = e
    BY <1>1 DEF IsCache
<1>4. \A d \in ToSet(cache) : d.key = key => d = Entry(cache, key)
    BY <1>3 DEF Entry
<1>5. \A d \in ToSet(cache) : d.key = key /\ now <= d.until => Has(cache, key)
    BY <1>1 DEF Has
<1>6. Has(cache, key) => /\ Entry(cache, key) \in ToSet(cache)
                         /\ Entry(cache, key).key = key
                         /\ now <= Entry(cache, key).until
    BY <1>2, <1>4 DEF Has
<1>. QED  BY <1>4, <1>5, <1>6

\* Nothing but expired entries goes.
Keeps(cache, cache2) ==
    /\ IsCache(cache2) /\ ToSet(cache2) \subseteq ToSet(cache)
    /\ \A d \in ToSet(cache) : now <= d.until => d \in ToSet(cache2)

LEMMA TouchKeeps ==
    ASSUME NEW cache, IsCache(cache), NEW key
    PROVE  Keeps(cache, Touch(cache, key))
<1>1. PICK rest : rest = Without(cache, key)
    OBVIOUS
<1>2. IsCache(rest) /\ ToSet(rest) = {d \in ToSet(cache) : d.key # key}
    BY <1>1, WithoutKeeps
<1>3. CASE Has(cache, key)
    <2>1. PICK e : e = Entry(cache, key)
        OBVIOUS
    <2>2. e \in ToSet(cache) /\ e.key = key
        BY <1>3, <2>1, EntryIsFound
    <2>3. Len(rest) < CacheSize
        <3>1. cache \in Seq(ToSet(cache)) /\ Len(cache) <= CacheSize /\ Len(rest) \in Nat
            BY <1>2 DEF IsCache
        <3>2. e \notin {d \in ToSet(cache) : d.key # key}
            BY <2>2
        <3>3. Len(rest) < Len(cache)
            <4> DEFINE K == {d \in ToSet(cache) : d.key # key}
            <4>1. rest = Selected(cache, K) /\ e \notin K
                BY <1>1, <3>2 DEF Without
            <4> HIDE DEF K
            <4>. QED  BY <2>2, <3>1, <4>1, SelectionMembers
        <3>. QED  BY <3>1, <3>3, SolverMemoryAssumption
    <2>4. \A d \in ToSet(rest) : d.key # e.key
        BY <1>2, <2>2
    <2>5. IsCache(Append(rest, e)) /\ ToSet(Append(rest, e)) = ToSet(rest) \cup {e}
        BY <1>2, <2>3, <2>4, AppendedIsCache
    <2>6. \A d \in ToSet(cache) : d \in ToSet(rest) \cup {e}
        BY <1>2, <2>1, EntryIsFound
    <2>7. Touch(cache, key) = Append(rest, e)
        BY <1>1, <1>3, <2>1 DEF Touch
    <2>. QED  BY <1>2, <2>2, <2>5, <2>6, <2>7 DEF Keeps
<1>4. CASE ~Has(cache, key)
    <2>1. Touch(cache, key) = rest
        BY <1>1, <1>4 DEF Touch
    <2>2. \A d \in ToSet(cache) : now <= d.until => d.key # key
        BY <1>4, EntryIsFound
    <2>. QED  BY <1>2, <2>1, <2>2 DEF Keeps
<1>. QED  BY <1>3, <1>4

LEMMA EvictExpiredKeeps ==
    ASSUME NEW cache, IsCache(cache)
    PROVE  Keeps(cache, EvictExpired(cache))
<1> DEFINE K == {d \in ToSet(cache) : now <= d.until}
<1>1. EvictExpired(cache) = Selected(cache, K)
    BY DEF EvictExpired
<1> HIDE DEF K
<1>2. IsCache(EvictExpired(cache)) /\ ToSet(EvictExpired(cache)) = ToSet(cache) \cap K
    BY <1>1, FilteredIsCache
<1>. QED  BY <1>2 DEF Keeps, K

\* What the lemmas on the caches say of the two that a step may change.
LEMMA QuietStep ==
    ASSUME Known, now' \in Nat, now <= now', UNCHANGED history,
           Keeps(seenCache, seenCache'), Keeps(retryCache, retryCache')
    PROVE  Known'
<1>1. MemoryTypes'
    BY DEF Known, MemoryTypes, history
<1>2. EntriesInv'
    BY DEF Known, EntriesInv, Keeps
<1>3. FailuresKnown'
    <2> SUFFICES ASSUME NEW h \in Hashes, failed[h] > 0, ~(FillDeadline < now')
                 PROVE  \/ \E e \in ToSet(seenCache') : e.key = h
                        \/ \E e \in ToSet(retryCache') : e.key = h /\ failed[h] <= e.attempts
        BY DEF FailuresKnown, history
    <2>1. now \in Nat /\ FillDeadline \in Nat /\ now <= FillDeadline
        BY SolverMemoryAssumption DEF Known, MemoryTypes
    <2>2. /\ \A e \in ToSet(seenCache) : now <= e.until
          /\ \A e \in ToSet(retryCache) : now <= e.until
        BY <2>1 DEF Known, EntriesInv
    <2>3. ToSet(seenCache) \subseteq ToSet(seenCache') /\ ToSet(retryCache) \subseteq ToSet(retryCache')
        BY <2>2 DEF Keeps
    <2>4. ~(FillDeadline < now)
        BY <2>1
    <2>. QED  BY <2>3, <2>4 DEF Known, FailuresKnown
<1>4. RefusalsKnown'
    <2> SUFFICES ASSUME NEW h \in Hashes, refused[h] >= 0, now' <= refused[h] + MinSeenTtl
                 PROVE  \E e \in ToSet(seenCache') : e.key = h /\ refused[h] + MinSeenTtl <= e.until
        BY DEF RefusalsKnown, history
    <2>1. now \in Nat /\ refused[h] \in Int /\ MinSeenTtl \in Nat
        BY SolverMemoryAssumption DEF Known, MemoryTypes
    <2>2. now <= refused[h] + MinSeenTtl
        BY <2>1
    <2>3. PICK e \in ToSet(seenCache) : e.key = h /\ refused[h] + MinSeenTtl <= e.until
        BY <2>2 DEF Known, RefusalsKnown
    <2>4. e.until \in Nat
        BY DEF Known, EntriesInv
    <2>5. now <= e.until
        BY <2>1, <2>2, <2>3, <2>4
    <2>. QED  BY <2>3, <2>5 DEF Keeps
<1>. QED  BY <1>1, <1>2, <1>3, <1>4 DEF Known

LEMMA StayingKeeps == \A cache : IsCache(cache) => Keeps(cache, cache)
  BY DEF Keeps

\* An intent that is forgotten by a cache starts anew, in the histories as well.
LEMMA ForgetStep ==
    ASSUME Known, now' = now, NEW h \in Hashes, NEW until \in Nat, FillDeadline <= until,
           NEW R \in {{}, {h}}, NEW F \in {{}, {h}}, Forget(h, until, R, F),
           R = {h} => now + MinSeenTtl <= until,
           R = {} => refused[h] < 0 \/ refused[h] + MinSeenTtl < now,
           F = {h} => failed[h] <= FillRetries
    PROVE  Known'
<1> DEFINE entry == [key |-> h, until |-> until]
<1>1. PICK evicted : evicted = EvictedBy(seenCache, h)
    OBVIOUS
<1>2. IsCache(seenCache) /\ IsCache(retryCache)
    BY DEF Known, EntriesInv
<1>3. entry.key = h /\ entry.until = until
    OBVIOUS
<1>4. seenCache' = Put(seenCache, entry) /\ retryCache' = Without(retryCache, h)
    BY DEF Forget
<1> HIDE DEF entry
<1>5. /\ IsCache(seenCache') /\ entry \in ToSet(seenCache')
      /\ \A d \in ToSet(seenCache') : d = entry \/ d \in ToSet(seenCache)
      /\ \A d \in ToSet(seenCache) : d.key # h => d \in ToSet(seenCache') \/ d.key \in evicted
      /\ h \notin evicted
    BY <1>1, <1>2, <1>3, <1>4, PutKeeps
<1>6. IsCache(retryCache') /\ ToSet(retryCache') = {d \in ToSet(retryCache) : d.key # h}
    BY <1>2, <1>4, WithoutKeeps
<1>7. /\ failed' = [g \in Hashes |-> IF g \in F THEN failed[g] + 1
                                     ELSE IF g \in evicted THEN 0 ELSE failed[g]]
      /\ refused' = [g \in Hashes |-> IF g \in R THEN now
                                      ELSE IF g \in evicted THEN -1 ELSE refused[g]]
    BY <1>1 DEF Forget, Remember
<1>8. MemoryTypes'
    <2>1. now' \in Nat /\ FillRetries \in Nat
        BY SolverMemoryAssumption DEF Known, MemoryTypes
    <2>2. ASSUME NEW g \in Hashes
          PROVE  failed'[g] \in 0 .. FillRetries + 1 /\ refused'[g] \in {-1} \cup Nat
        <3>1. failed[g] \in 0 .. FillRetries + 1 /\ refused[g] \in {-1} \cup Nat /\ now \in Nat
            BY DEF Known, MemoryTypes
        <3>2. g \in F => g = h /\ failed[g] <= FillRetries
            OBVIOUS
        <3>. QED  BY <1>7, <2>1, <3>1, <3>2
    <2>. QED  BY <1>7, <2>1, <2>2 DEF MemoryTypes
<1>9. EntriesInv'
    BY <1>3, <1>5, <1>6 DEF Known, EntriesInv
<1>10. FailuresKnown'
    <2> SUFFICES ASSUME NEW g \in Hashes, failed'[g] > 0, ~(FillDeadline < now)
                 PROVE  \/ \E e \in ToSet(seenCache') : e.key = g
                        \/ \E e \in ToSet(retryCache') : e.key = g /\ failed'[g] <= e.attempts
        BY DEF FailuresKnown
    <2>1. CASE g = h
        BY <1>3, <1>5, <2>1
    <2>2. CASE g # h
        <3>1. g \notin F /\ g \notin evicted /\ failed'[g] = failed[g]
            BY <1>7, <2>2
        <3>2. \/ \E e \in ToSet(seenCache) : e.key = g
              \/ \E e \in ToSet(retryCache) : e.key = g /\ failed[g] <= e.attempts
            BY <3>1 DEF Known, FailuresKnown
        <3>. QED  BY <1>5, <1>6, <2>2, <3>1, <3>2
    <2>. QED  BY <2>1, <2>2
<1>11. RefusalsKnown'
    <2> SUFFICES ASSUME NEW g \in Hashes, refused'[g] >= 0, now <= refused'[g] + MinSeenTtl
                 PROVE  \E e \in ToSet(seenCache') :
                            e.key = g /\ refused'[g] + MinSeenTtl <= e.until
        BY DEF RefusalsKnown
    <2>1. now \in Nat /\ refused[g] \in Int /\ MinSeenTtl \in Nat
        BY SolverMemoryAssumption DEF Known, MemoryTypes
    <2>2. CASE g = h
        <3>1. CASE R = {h}
            <4>1. refused'[g] = now
                BY <1>7, <2>2, <3>1
            <4>. QED  BY <1>3, <1>5, <2>2, <3>1, <4>1
        <3>2. CASE R = {}
            <4>1. refused'[g] = refused[g]
                BY <1>5, <1>7, <2>2, <3>2
            <4>. QED  BY <2>1, <2>2, <3>2, <4>1
        <3>. QED  BY <3>1, <3>2
    <2>3. CASE g # h
        <3>1. g \notin R /\ g \notin evicted /\ refused'[g] = refused[g]
            BY <1>7, <2>3
        <3>2. PICK e \in ToSet(seenCache) : e.key = g /\ refused[g] + MinSeenTtl <= e.until
            BY <3>1 DEF Known, RefusalsKnown
        <3>. QED  BY <1>5, <2>3, <3>1, <3>2
    <2>. QED  BY <2>2, <2>3
<1>. QED  BY <1>8, <1>9, <1>10, <1>11 DEF Known

\* A fill that failed is counted by a retry entry that is as long-lived.
LEMMA RetriedStep ==
    ASSUME Known, now' = now, NEW h \in Hashes, NEW entry, entry.key = h,
           entry.until \in Nat, FillDeadline <= entry.until, entry.attempts \in 1 .. FillRetries,
           failed[h] <= FillRetries,
           failed[h] + 1 <= entry.attempts \/ FillDeadline < now,
           retryCache' = Put(retryCache, entry), UNCHANGED seenCache,
           Remember(EvictedBy(retryCache, h), {}, {h})
    PROVE  Known'
<1>1. PICK evicted : evicted = EvictedBy(retryCache, h)
    OBVIOUS
<1>2. IsCache(retryCache)
    BY DEF Known, EntriesInv
<1>3. /\ IsCache(retryCache') /\ entry \in ToSet(retryCache')
      /\ \A d \in ToSet(retryCache') : d = entry \/ d \in ToSet(retryCache)
      /\ \A d \in ToSet(retryCache) : d.key # h => d \in ToSet(retryCache') \/ d.key \in evicted
      /\ h \notin evicted
    BY <1>1, <1>2, PutKeeps
<1>4. /\ failed' = [g \in Hashes |-> IF g \in {h} THEN failed[g] + 1
                                     ELSE IF g \in evicted THEN 0 ELSE failed[g]]
      /\ refused' = [g \in Hashes |-> IF g \in {} THEN now
                                      ELSE IF g \in evicted THEN -1 ELSE refused[g]]
    BY <1>1 DEF Remember
<1>5. MemoryTypes'
    <2>1. now' \in Nat /\ FillRetries \in Nat
        BY SolverMemoryAssumption DEF Known, MemoryTypes
    <2>2. ASSUME NEW g \in Hashes
          PROVE  failed'[g] \in 0 .. FillRetries + 1 /\ refused'[g] \in {-1} \cup Nat
        <3>1. failed[g] \in 0 .. FillRetries + 1 /\ refused[g] \in {-1} \cup Nat
            BY DEF Known, MemoryTypes
        <3>. QED  BY <1>4, <2>1, <3>1
    <2>. QED  BY <1>4, <2>1, <2>2 DEF MemoryTypes
<1>6. EntriesInv'
    BY <1>3 DEF Known, EntriesInv
<1>7. FailuresKnown'
    <2> SUFFICES ASSUME NEW g \in Hashes, failed'[g] > 0, ~(FillDeadline < now)
                 PROVE  \/ \E e \in ToSet(seenCache) : e.key = g
                        \/ \E e \in ToSet(retryCache') : e.key = g /\ failed'[g] <= e.attempts
        BY DEF FailuresKnown
    <2>1. CASE g = h
        <3>1. failed'[g] = failed[h] + 1
            BY <1>4, <2>1
        <3>. QED  BY <1>3, <2>1, <3>1
    <2>2. CASE g # h
        <3>1. g \notin evicted /\ failed'[g] = failed[g]
            BY <1>4, <2>2
        <3>. QED  BY <1>3, <2>2, <3>1 DEF Known, FailuresKnown
    <2>. QED  BY <2>1, <2>2
<1>8. RefusalsKnown'
    <2> SUFFICES ASSUME NEW g \in Hashes, refused'[g] >= 0, now <= refused'[g] + MinSeenTtl
                 PROVE  \E e \in ToSet(seenCache) : e.key = g /\ refused'[g] + MinSeenTtl <= e.until
        BY DEF RefusalsKnown
    <2>1. refused'[g] = refused[g]
        BY <1>4
    <2>. QED  BY <2>1 DEF Known, RefusalsKnown
<1>. QED  BY <1>5, <1>6, <1>7, <1>8 DEF Known

\* A signature that is refused is not held against the intent.
LEMMA BadSignatureStep ==
    ASSUME Known, now' = now, NEW h \in Hashes,
           seenCache' = Touch(seenCache, h), retryCache' = Without(retryCache, h),
           Remember({h}, {}, {})
    PROVE  Known'
<1>1. Keeps(seenCache, seenCache')
    BY TouchKeeps DEF Known, EntriesInv
<1>2. IsCache(retryCache') /\ ToSet(retryCache') = {d \in ToSet(retryCache) : d.key # h}
    BY WithoutKeeps DEF Known, EntriesInv
<1>3. /\ failed' = [g \in Hashes |-> IF g = h THEN 0 ELSE failed[g]]
      /\ refused' = [g \in Hashes |-> IF g = h THEN -1 ELSE refused[g]]
    BY DEF Remember
<1>4. MemoryTypes'
    BY <1>3, SolverMemoryAssumption DEF Known, MemoryTypes
<1>5. EntriesInv'
    BY <1>1, <1>2 DEF Known, EntriesInv, Keeps
<1>6. now \in Nat /\ FillDeadline \in Nat /\ MinSeenTtl \in Nat
    BY SolverMemoryAssumption DEF Known, MemoryTypes
<1>7. FailuresKnown'
    <2> SUFFICES ASSUME NEW g \in Hashes, failed'[g] > 0, ~(FillDeadline < now)
                 PROVE  \/ \E e \in ToSet(seenCache') : e.key = g
                        \/ \E e \in ToSet(retryCache') : e.key = g /\ failed'[g] <= e.attempts
        BY DEF FailuresKnown
    <2>1. g # h /\ failed'[g] = failed[g]
        BY <1>3
    <2>2. \A e \in ToSet(seenCache) : now <= e.until
        BY <1>6 DEF Known, EntriesInv
    <2>3. ToSet(seenCache) \subseteq ToSet(seenCache')
        BY <1>1, <2>2 DEF Keeps
    <2>. QED  BY <1>2, <2>1, <2>3 DEF Known, FailuresKnown
<1>8. RefusalsKnown'
    <2> SUFFICES ASSUME NEW g \in Hashes, refused'[g] >= 0, now <= refused'[g] + MinSeenTtl
                 PROVE  \E e \in ToSet(seenCache') :
                            e.key = g /\ refused'[g] + MinSeenTtl <= e.until
        BY DEF RefusalsKnown
    <2>1. refused'[g] = refused[g]
        BY <1>3
    <2>2. PICK e \in ToSet(seenCache) : e.key = g /\ refused[g] + MinSeenTtl <= e.until
        BY <2>1 DEF Known, RefusalsKnown
    <2>3. e.until \in Nat /\ refused[g] \in Int
        BY DEF Known, EntriesInv, MemoryTypes
    <2>4. now <= e.until
        BY <1>6, <2>1, <2>2, <2>3
    <2>. QED  BY <1>1, <2>1, <2>2, <2>4 DEF Keeps
<1>. QED  BY <1>4, <1>5, <1>7, <1>8 DEF Known

\* An intent that passes the caches has its failures counted, and no refusal holds.
LEMMA ConsideredIsFree ==
    ASSUME Known, NEW h \in Hashes, ~Has(seenCache, h)
    PROVE  /\ refused[h] < 0 \/ refused[h] + MinSeenTtl < now
           /\ now < FillDeadline =>
                 /\ failed[h] <= FillRetries
                 /\ failed[h] > 0 =>
                       \E e \in ToSet(retryCache) : e.key = h /\ failed[h] <= e.attempts
<1>1. now \in Nat /\ FillDeadline \in Nat /\ MinSeenTtl \in Nat /\ FillRetries \in Nat
      /\ refused[h] \in Int /\ failed[h] \in Nat
    BY SolverMemoryAssumption DEF Known, MemoryTypes
<1>2. \A e \in ToSet(seenCache) : e.key = h => ~(now <= e.until)
    BY EntryIsFound DEF Known, EntriesInv
<1>3. refused[h] < 0 \/ refused[h] + MinSeenTtl < now
    <2> SUFFICES ASSUME refused[h] >= 0, now <= refused[h] + MinSeenTtl
                 PROVE  FALSE
        BY <1>1
    <2>1. PICK e \in ToSet(seenCache) : e.key = h /\ refused[h] + MinSeenTtl <= e.until
        BY DEF Known, RefusalsKnown
    <2>2. e.until \in Nat
        BY DEF Known, EntriesInv
    <2>. QED  BY <1>1, <1>2, <2>1, <2>2
<1>4. ASSUME now < FillDeadline
      PROVE  /\ failed[h] <= FillRetries
             /\ failed[h] > 0 =>
                   \E e \in ToSet(retryCache) : e.key = h /\ failed[h] <= e.attempts
    <2>1. ~ \E e \in ToSet(seenCache) : e.key = h
        <3>1. \A e \in ToSet(seenCache) : now <= e.until
            BY <1>1, <1>4 DEF Known, EntriesInv
        <3>. QED  BY <1>2, <3>1
    <2>2. failed[h] > 0 => \E e \in ToSet(retryCache) : e.key = h /\ failed[h] <= e.attempts
        BY <1>1, <1>4, <2>1 DEF Known, FailuresKnown
    <2>3. \A e \in ToSet(retryCache) : e.attempts \in 1 .. FillRetries
        BY DEF Known, EntriesInv
    <2>. QED  BY <1>1, <2>2, <2>3
<1>. QED  BY <1>3, <1>4

LEMMA KnownStep ==
    ASSUME MemoryInv, MemoryNext
    PROVE  Known'
<1>1. /\ Known /\ FillKnown /\ IsCache(seenCache) /\ IsCache(retryCache)
      /\ now \in Nat /\ MinSeenTtl \in Nat /\ FillDeadline \in Nat /\ FillRetries \in Nat
    BY SolverMemoryAssumption DEF MemoryInv, Known, MemoryTypes, EntriesInv
<1>2. ASSUME UNCHANGED <<seenCache, retryCache, history>>, now' \in {now, now + 1}
      PROVE  Known'
    <2>1. Keeps(seenCache, seenCache') /\ Keeps(retryCache, retryCache')
        BY <1>1, <1>2, StayingKeeps
    <2>. QED  BY <1>1, <1>2, <2>1, QuietStep
<1>3. CASE TickSucceeds \/ TickThrows \/ FillIsFatal \/ (\E h \in Hashes : Resubmit(h)) \/ MemoryTick
    <2>1. UNCHANGED <<seenCache, retryCache, history>> /\ now' \in {now, now + 1}
        BY <1>3 DEF TickSucceeds, TickThrows, FillIsFatal, FillDone, Resubmit, MemoryTick, caches
    <2>. QED  BY <1>2, <2>1
<1>4. CASE StartTick
    <2>1. now' = now /\ UNCHANGED history
          /\ seenCache' = EvictExpired(seenCache) /\ retryCache' = EvictExpired(retryCache)
        BY <1>4 DEF StartTick
    <2>2. Keeps(seenCache, seenCache') /\ Keeps(retryCache, retryCache')
        BY <1>1, <2>1, EvictExpiredKeeps
    <2>. QED  BY <1>1, <2>1, <2>2, QuietStep
<1>5. ASSUME NEW h \in Hashes, PassOver(h) \/ SkipForNow(h) \/ SkipImplausible(h) \/ StartFill(h)
      PROVE  Known'
    <2>1. /\ now' = now /\ UNCHANGED history /\ seenCache' = Touch(seenCache, h)
          /\ retryCache' = retryCache \/ retryCache' = Touch(retryCache, h)
        BY <1>5 DEF PassOver, SkipForNow, SkipImplausible, StartFill, Evaluated, Considered
    <2>2. Keeps(seenCache, seenCache') /\ Keeps(retryCache, retryCache')
        BY <1>1, <2>1, StayingKeeps, TouchKeeps
    <2>. QED  BY <1>1, <2>1, <2>2, QuietStep
<1>6. SeenTtl \in Nat /\ FillDeadline <= SeenTtl /\ now + MinSeenTtl <= SeenTtl
    BY <1>1 DEF SeenTtl
<1>7. ASSUME NEW h \in Hashes, HashMismatch(h) \/ SkipForGood(h)
      PROVE  Known'
    <2>1. now' = now /\ Forget(h, SeenTtl, {h}, {})
        BY <1>7 DEF HashMismatch, SkipForGood, Evaluated, Considered
    <2>. QED  BY <1>1, <1>6, <2>1, ForgetStep
<1>8. ASSUME NEW h \in Hashes, SignatureRefused(h)
      PROVE  Known'
    <2>1. /\ now' = now /\ seenCache' = Touch(seenCache, h) /\ retryCache' = Without(retryCache, h)
          /\ Remember({h}, {}, {})
        BY <1>8 DEF SignatureRefused, Considered
    <2>. QED  BY <1>1, <2>1, BadSignatureStep
<1>9. CASE FillWon \/ LockedByOther
    <2>1. now' = now /\ mode = "filling" /\ Forget(filling.hash, filling.until, {}, {})
        BY <1>9 DEF FillWon, LockedByOther, FillDone
    <2>2. PICK h \in Hashes : h = filling.hash
        BY <1>1, <2>1 DEF FillKnown
    <2>3. PICK until \in Nat : until = filling.until /\ FillDeadline <= until
        BY <1>1, <2>1 DEF FillKnown
    <2>4. refused[h] < 0 \/ refused[h] + MinSeenTtl < now
        BY <1>1, <2>1, <2>2 DEF FillKnown
    <2>5. Forget(h, until, {}, {})
        BY <2>1, <2>2, <2>3
    <2>. QED  BY <1>1, <2>1, <2>3, <2>4, <2>5, ForgetStep
<1>10. CASE FillFailed
    <2> DEFINE last == IF Has(retryCache, filling.hash)
                       THEN Entry(retryCache, filling.hash).attempts + 1 ELSE 1
    <2>1. now' = now /\ mode = "filling"
        BY <1>10 DEF FillFailed, FillDone
    <2>2. PICK h \in Hashes : h = filling.hash
        BY <1>1, <2>1 DEF FillKnown
    <2>3. PICK until \in Nat : until = filling.until /\ FillDeadline <= until
        BY <1>1, <2>1 DEF FillKnown
    <2>4. /\ refused[h] < 0 \/ refused[h] + MinSeenTtl < now
          /\ failed[h] \in Nat /\ failed[h] <= FillRetries
          /\ failed[h] > 0 => \E e \in ToSet(retryCache) : e.key = h /\ failed[h] <= e.attempts
        BY <1>1, <2>1, <2>2 DEF FillKnown, Known, MemoryTypes
    <2>5. PICK attempts : attempts = last
        OBVIOUS
    <2>6. \A e \in ToSet(retryCache) : e.until \in Nat /\ FillDeadline <= e.until
                                       /\ e.attempts \in 1 .. FillRetries
        BY <1>1 DEF Known, EntriesInv
    <2>7. attempts \in Nat \ {0} /\ (failed[h] + 1 <= attempts \/ FillDeadline < now)
        <3>1. CASE Has(retryCache, h)
            <4>1. PICK e \in ToSet(retryCache) :
                      /\ e = Entry(retryCache, h)
                      /\ \A d \in ToSet(retryCache) : d.key = h => d = e
                BY <1>1, <3>1, EntryIsFound
            <4>2. attempts = e.attempts + 1
                BY <2>2, <2>5, <3>1, <4>1
            <4>. QED  BY <1>1, <2>4, <2>6, <4>1, <4>2
        <3>2. CASE ~Has(retryCache, h)
            <4>1. attempts = 1
                BY <2>2, <2>5, <3>2
            <4>2. \A e \in ToSet(retryCache) : e.key = h => ~(now <= e.until)
                BY <1>1, <3>2, EntryIsFound
            <4>. QED  BY <1>1, <2>4, <2>6, <4>1, <4>2
        <3>. QED  BY <3>1, <3>2
    <2>8. CASE attempts > FillRetries
        <3>1. Forget(h, until, {}, {h})
            BY <1>10, <2>2, <2>3, <2>5, <2>8 DEF FillFailed
        <3>. QED  BY <1>1, <2>1, <2>3, <2>4, <3>1, ForgetStep
    <2>9. CASE ~(attempts > FillRetries)
        <3>1. PICK entry : entry = [key |-> h, attempts |-> attempts,
                                    next |-> now + RetryBackoff(attempts - 1), until |-> until]
            OBVIOUS
        <3>2. entry.key = h /\ entry.attempts = attempts /\ entry.until = until
            BY <3>1
        <3>3. /\ retryCache' = Put(retryCache, entry) /\ UNCHANGED seenCache
              /\ Remember(EvictedBy(retryCache, h), {}, {h})
            BY <1>10, <2>2, <2>3, <2>5, <2>9, <3>1 DEF FillFailed
        <3>4. entry.attempts \in 1 .. FillRetries
            BY <1>1, <2>7, <2>9, <3>2
        <3>5. failed[h] + 1 <= entry.attempts \/ FillDeadline < now
            BY <2>7, <3>2
        <3>6. entry.until \in Nat /\ FillDeadline <= entry.until
            BY <2>3, <3>2
        <3>. QED  BY <1>1, <2>1, <2>4, <3>2, <3>3, <3>4, <3>5, <3>6, RetriedStep
    <2>. QED  BY <2>8, <2>9
<1>. QED  BY <1>3, <1>4, <1>5, <1>7, <1>8, <1>9, <1>10 DEF MemoryNext, Judge

\* The cached verdict is the one that a check of the signature would give.
LEMMA VerdictIsTrue ==
    ASSUME VerdictsKnown, NEW h \in Hashes
    PROVE  Verdict(h) = (offered[h] = "good")
<1>1. CASE Has(verdicts, VerificationKey(h))
    <2>1. PICK e \in ToSet(verdicts) : e = Entry(verdicts, VerificationKey(h))
                                       /\ e.key = VerificationKey(h)
        BY <1>1, EntryIsFound DEF VerdictsKnown
    <2>2. e.key = <<h, offered[h]>> /\ offered[h] \in Signatures
        BY <2>1 DEF VerificationKey, VerdictsKnown
    <2>3. e.valid = (offered[h] = "good")
        BY <2>2 DEF VerdictsKnown
    <2>4. Verdict(h) = e.valid
        BY <1>1, <2>1, Zenon DEF Verdict
    <2>. QED  BY <2>3, <2>4, Zenon
<1>2. CASE ~Has(verdicts, VerificationKey(h))
    BY <1>2, Zenon DEF Verdict
<1>. QED  BY <1>1, <1>2

LEMMA VerdictsStay ==
    ASSUME VerdictsKnown, NEW h \in Hashes, RememberVerdict(h), offered' = offered
    PROVE  VerdictsKnown'
<1>1. CASE Has(verdicts, VerificationKey(h))
    <2>1. verdicts' = Touch(verdicts, VerificationKey(h))
        BY <1>1 DEF RememberVerdict
    <2>2. Keeps(verdicts, verdicts')
        BY <2>1, TouchKeeps DEF VerdictsKnown
    <2>. QED  BY <2>2 DEF VerdictsKnown, Keeps
<1>2. CASE ~Has(verdicts, VerificationKey(h))
    <2>1. PICK until : until = (IF Verdict(h) THEN LastMemoryTime ELSE now + NegativeTtl)
        OBVIOUS
    <2>2. PICK entry : entry = [key |-> VerificationKey(h), valid |-> Verdict(h), until |-> until]
        OBVIOUS
    <2>3. entry.key = <<h, offered[h]>> /\ entry.valid = Verdict(h)
        BY <2>2, Zenon DEF VerificationKey
    <2>4. verdicts' = Put(verdicts, entry)
        BY <1>2, <2>1, <2>2 DEF RememberVerdict
    <2>5. IsCache(verdicts') /\ \A d \in ToSet(verdicts') : d = entry \/ d \in ToSet(verdicts)
        BY <2>4, PutKeeps DEF VerdictsKnown
    <2>6. ASSUME NEW g \in Hashes, NEW s \in Signatures, entry.key = <<g, s>>
          PROVE  entry.valid = (s = "good")
        <3>1. g = h /\ s = offered[h]
            BY <2>3, <2>6
        <3>. QED  BY <2>3, <3>1, VerdictIsTrue, Zenon
    <2>. QED  BY <2>5, <2>6 DEF VerdictsKnown
<1>. QED  BY <1>1, <1>2

LEMMA VerdictsStep ==
    ASSUME VerdictsKnown, MemoryNext
    PROVE  VerdictsKnown'
<1>1. ASSUME UNCHANGED <<verdicts, offered>>
      PROVE  VerdictsKnown'
    BY <1>1 DEF VerdictsKnown
<1>2. ASSUME NEW h \in Hashes, SignatureRefused(h) \/ SkipForNow(h) \/ SkipForGood(h)
                               \/ SkipImplausible(h) \/ StartFill(h)
      PROVE  VerdictsKnown'
    <2>1. RememberVerdict(h) /\ offered' = offered
        BY <1>2 DEF SignatureRefused, SkipForNow, SkipForGood, SkipImplausible, StartFill,
                    Evaluated, Considered
    <2>. QED  BY <2>1, VerdictsStay
<1>3. ASSUME NEW h \in Hashes, Resubmit(h)
      PROVE  VerdictsKnown'
    <2>1. offered' \in [Hashes -> Signatures] /\ verdicts' = verdicts
        BY <1>3 DEF Resubmit, VerdictsKnown, Signatures, caches
    <2>. QED  BY <2>1 DEF VerdictsKnown
<1>4. ASSUME NEW h \in Hashes, PassOver(h) \/ HashMismatch(h)
      PROVE  VerdictsKnown'
    BY <1>1, <1>4 DEF PassOver, HashMismatch, Considered
<1>5. CASE StartTick \/ TickSucceeds \/ TickThrows \/ FillWon \/ LockedByOther \/ FillFailed
           \/ FillIsFatal \/ MemoryTick
    BY <1>1, <1>5 DEF StartTick, TickSucceeds, TickThrows, FillWon, LockedByOther, FillFailed,
                      FillIsFatal, FillDone, MemoryTick, caches
<1>. QED  BY <1>2, <1>3, <1>4, <1>5 DEF MemoryNext, Judge

LEMMA FillStep ==
    ASSUME MemoryInv, MemoryNext
    PROVE  FillKnown'
<1>1. ASSUME NEW h \in Hashes, StartFill(h)
      PROVE  FillKnown'
    <2>1. /\ ~Has(seenCache, h) /\ now < FillDeadline /\ Verdict(h)
          /\ filling' = [hash |-> h, signature |-> offered[h], until |-> SeenTtl]
          /\ retryCache' = Touch(retryCache, h) /\ UNCHANGED history /\ now' = now
        BY <1>1 DEF StartFill, Evaluated, Considered
    <2>2. offered[h] = "good"
        BY <2>1, VerdictIsTrue DEF MemoryInv
    <2>3. /\ refused[h] < 0 \/ refused[h] + MinSeenTtl < now
          /\ failed[h] <= FillRetries
          /\ failed[h] > 0 => \E e \in ToSet(retryCache) : e.key = h /\ failed[h] <= e.attempts
        BY <2>1, ConsideredIsFree DEF MemoryInv
    <2>4. now \in Nat /\ FillDeadline \in Nat /\ MinSeenTtl \in Nat
        BY SolverMemoryAssumption DEF MemoryInv, Known, MemoryTypes
    <2>5. \A e \in ToSet(retryCache) : now <= e.until
        BY <2>1, <2>4 DEF MemoryInv, Known, EntriesInv
    <2>6. Keeps(retryCache, retryCache')
        BY <2>1, TouchKeeps DEF MemoryInv, Known, EntriesInv
    <2>7. failed[h] > 0 => \E e \in ToSet(retryCache') : e.key = h /\ failed[h] <= e.attempts
        BY <2>3, <2>5, <2>6 DEF Keeps
    <2>8. SeenTtl \in Nat /\ FillDeadline <= SeenTtl
        BY <2>4 DEF SeenTtl
    <2>9. filling'.hash = h /\ filling'.signature = "good" /\ filling'.until = SeenTtl
        BY <2>1, <2>2
    <2>10. failed' = failed /\ refused' = refused
        BY <2>1 DEF history
    <2>. QED  BY <2>1, <2>3, <2>7, <2>8, <2>9, <2>10 DEF FillKnown
<1>2. CASE (\E h \in Hashes : Resubmit(h)) \/ MemoryTick
    <2>1. UNCHANGED <<mode, filling, retryCache, failed, refused>> /\ now' \in {now, now + 1}
        BY <1>2 DEF Resubmit, MemoryTick, caches, history
    <2>2. now \in Nat /\ MinSeenTtl \in Nat /\ \A h \in Hashes : refused[h] \in Int
        BY SolverMemoryAssumption DEF MemoryInv, Known, MemoryTypes
    <2>3. ASSUME mode = "filling"
          PROVE  refused[filling.hash] < 0 \/ refused[filling.hash] + MinSeenTtl < now'
        BY <2>1, <2>2, <2>3 DEF MemoryInv, FillKnown
    <2>. QED  BY <2>1, <2>3 DEF MemoryInv, FillKnown
<1>3. ASSUME mode' # "filling"
      PROVE  FillKnown'
    BY <1>3 DEF FillKnown
<1>4. CASE StartTick \/ TickSucceeds \/ TickThrows \/ FillWon \/ LockedByOther \/ FillFailed
           \/ FillIsFatal
    BY <1>3, <1>4 DEF StartTick, TickSucceeds, TickThrows, FillWon, LockedByOther, FillFailed,
                      FillIsFatal, Sleep
<1>5. ASSUME NEW h \in Hashes, PassOver(h) \/ HashMismatch(h) \/ SignatureRefused(h)
                               \/ SkipForNow(h) \/ SkipForGood(h) \/ SkipImplausible(h)
      PROVE  FillKnown'
    BY <1>3, <1>5 DEF PassOver, HashMismatch, SignatureRefused, SkipForNow, SkipForGood,
                      SkipImplausible, Evaluated, Considered
<1>. QED  BY <1>1, <1>2, <1>4, <1>5 DEF MemoryNext, Judge

LEMMA CountsStep ==
    ASSUME CountsKnown, MemoryNext
    PROVE  CountsKnown'
<1>1. stats \in [attempted : Int, won : Int, lost : Int, gas : Int] /\ mode \in Modes
      /\ FillsAreCounted /\ EstimatedFee \in Nat /\ SpentGas \in Nat
    BY SolverMemoryAssumption DEF CountsKnown
<1>2. ASSUME UNCHANGED <<stats, mode>>
      PROVE  CountsKnown'
    BY <1>2 DEF CountsKnown, FillsAreCounted
<1>3. ASSUME UNCHANGED stats, mode \in {"asleep", "tick"}, mode' \in {"asleep", "tick", "halted"}
      PROVE  CountsKnown'
    BY <1>1, <1>3 DEF CountsKnown, FillsAreCounted, Modes
<1>4. CASE StartTick \/ TickSucceeds \/ TickThrows
    <2>1. UNCHANGED stats /\ mode \in {"asleep", "tick"} /\ mode' \in {"asleep", "tick", "halted"}
        BY <1>4 DEF StartTick, TickSucceeds, TickThrows, Sleep
    <2>. QED  BY <1>3, <2>1
<1>5. ASSUME NEW h \in Hashes, PassOver(h) \/ HashMismatch(h) \/ SignatureRefused(h)
                               \/ SkipForNow(h) \/ SkipForGood(h) \/ SkipImplausible(h)
      PROVE  CountsKnown'
    <2>1. UNCHANGED stats /\ mode = "tick" /\ mode' \in {"tick", "halted"}
        BY <1>5 DEF PassOver, HashMismatch, SignatureRefused, SkipForNow, SkipForGood,
                    SkipImplausible, Evaluated, Considered
    <2>. QED  BY <1>3, <2>1
<1>6. CASE (\E h \in Hashes : Resubmit(h)) \/ MemoryTick
    BY <1>2, <1>6 DEF Resubmit, MemoryTick
<1>7. ASSUME NEW h \in Hashes, StartFill(h)
      PROVE  CountsKnown'
    <2>1. mode = "tick" /\ mode' = "filling" /\ RecordFillAttempt
        BY <1>7 DEF StartFill, Evaluated, Considered
    <2>. QED  BY <1>1, <2>1 DEF RecordFillAttempt, CountsKnown, FillsAreCounted, Modes
<1>8. CASE FillWon
    <2>1. mode = "filling" /\ mode' = "tick" /\ RecordFillWon
        BY <1>8 DEF FillWon, FillDone
    <2>2. PICK spent \in Int : spent = stats.gas + EstimatedFee + SpentGas
        BY <1>1
    <2>3. stats' = [stats EXCEPT !.won = stats.won + 1, !.gas = spent]
        BY <2>1, <2>2 DEF RecordFillWon
    <2>4. /\ stats' \in [attempted : Int, won : Int, lost : Int, gas : Int]
          /\ stats'.attempted = stats.attempted /\ stats'.won = stats.won + 1
          /\ stats'.lost = stats.lost
        <3>1. PICK won \in Int : won = stats.won + 1
            BY <1>1
        <3>2. stats' = [stats EXCEPT !.won = won, !.gas = spent]
            BY <2>3, <3>1
        <3>3. stats' \in [attempted : Int, won : Int, lost : Int, gas : Int]
            BY <1>1, <3>2
        <3>4. stats'.attempted = stats.attempted /\ stats'.won = won /\ stats'.lost = stats.lost
            BY <1>1, <3>2
        <3>. QED  BY <3>1, <3>3, <3>4
    <2>. QED  BY <1>1, <2>1, <2>4 DEF CountsKnown, FillsAreCounted, Modes
<1>9. CASE LockedByOther \/ FillFailed
    <2>1. mode = "filling" /\ mode' = "tick" /\ RecordFillLost
        BY <1>9 DEF LockedByOther, FillFailed, FillDone
    <2>. QED  BY <1>1, <2>1 DEF RecordFillLost, CountsKnown, FillsAreCounted, Modes
<1>10. CASE FillIsFatal
    <2>1. mode = "filling" /\ mode' = "halted" /\ UNCHANGED stats
        BY <1>10 DEF FillIsFatal, FillDone
    <2>. QED  BY <1>1, <2>1 DEF CountsKnown, FillsAreCounted, Modes
<1>. QED  BY <1>4, <1>5, <1>6, <1>7, <1>8, <1>9, <1>10 DEF MemoryNext, Judge

(* Whatever the caches drop, for any size, times to live and number of       *)
(* intents: an intent costs no more failed fills than the retries allow,     *)
(* only a signed one is filled, a refusal for good holds, and every fill is  *)
(* counted (solver.ts:172-179 and 780-801, seen-lru.ts, metrics.ts).         *)
THEOREM CachesForgetSafely == MemorySpec => []MemoryIsSound
<1>1. MemoryInit => MemoryInv
    <2> SUFFICES ASSUME MemoryInit
                 PROVE  MemoryInv
        OBVIOUS
    <2>1. CacheSize \in Nat /\ FillRetries \in Nat
        BY SolverMemoryAssumption
    <2>2. ToSet(<<>>) = {} /\ IsCache(<<>>)
        BY <2>1 DEF IsCache, ToSet
    <2>3. Known
        BY <2>1, <2>2 DEF MemoryInit, Known, MemoryTypes, EntriesInv, FailuresKnown, RefusalsKnown
    <2>4. FillKnown /\ VerdictsKnown /\ CountsKnown
        BY <2>2 DEF MemoryInit, FillKnown, VerdictsKnown, CountsKnown, FillsAreCounted, Modes,
                    Signatures
    <2>. QED  BY <2>3, <2>4 DEF MemoryInv
<1>2. MemoryInv /\ [MemoryNext]_memoryVars => MemoryInv'
    <2> SUFFICES ASSUME MemoryInv, [MemoryNext]_memoryVars
                 PROVE  MemoryInv'
        OBVIOUS
    <2>1. CASE MemoryNext
        BY <2>1, KnownStep, FillStep, VerdictsStep, CountsStep DEF MemoryInv
    <2>2. CASE UNCHANGED memoryVars
        <3>1. UNCHANGED <<now, offered, mode, filling, seenCache, retryCache, verdicts, stats,
                          failed, refused>>
            BY <2>2 DEF memoryVars, caches, history
        <3>. QED  BY <3>1 DEF MemoryInv, Known, MemoryTypes, EntriesInv, FailuresKnown,
                              RefusalsKnown, FillKnown, VerdictsKnown, CountsKnown, FillsAreCounted
    <2>. QED  BY <2>1, <2>2
<1>3. MemoryInv => MemoryIsSound
    <2> SUFFICES ASSUME MemoryInv
                 PROVE  MemoryIsSound
        OBVIOUS
    <2>1. CachesBounded
        BY DEF MemoryInv, Known, EntriesInv, VerdictsKnown, IsCache, CachesBounded
    <2>2. FailuresBounded /\ FillsOnlySigned /\ FillsAreCounted
        BY DEF MemoryInv, Known, MemoryTypes, FillKnown, CountsKnown, FailuresBounded,
               FillsOnlySigned
    <2>3. ASSUME NEW h \in Hashes, refused[h] >= 0, now <= refused[h] + MinSeenTtl
          PROVE  Has(seenCache, h)
        <3>1. PICK e \in ToSet(seenCache) : e.key = h /\ refused[h] + MinSeenTtl <= e.until
            BY <2>3 DEF MemoryInv, Known, RefusalsKnown
        <3>2. e.until \in Nat /\ now \in Nat /\ refused[h] \in Int /\ MinSeenTtl \in Nat
            BY SolverMemoryAssumption DEF MemoryInv, Known, EntriesInv, MemoryTypes
        <3>3. now <= e.until
            BY <2>3, <3>1, <3>2
        <3>. QED  BY <3>1, <3>3, EntryIsFound DEF MemoryInv, Known, EntriesInv
    <2>. QED  BY <2>1, <2>2, <2>3 DEF MemoryIsSound, RefusalSticks
<1>. QED  BY <1>1, <1>2, <1>3, PTL DEF MemorySpec
=============================================================================
