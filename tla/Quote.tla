------------------------------- MODULE Quote -------------------------------
(***************************************************************************)
(* The solver's decision whether to fill an intent                         *)
(* (src/solver/src/quote.ts)                                               *)
(* over a market that moves.  An intent is what the decision reads of it:  *)
(* its chain, asset, reservation, amounts, decimals and deadline.          *)
(***************************************************************************)
EXTENDS Integers, Aggregates

CONSTANTS
    Quoted,            \* intents
    RateScale,         \* RATE_SCALE: the rate 1
    BasisPoints,       \* the basis points of 1: 10_000
    SubBps,            \* the parts of a basis point that a margin is carried at: 100
    MinMarginBps, MaxPlausibleProfitBps,
    MinFillHeadroom,   \* MIN_FILL_HEADROOM_SECS
    SourceFloor, DestFloor,  \* sourceNativeFeeFloor, stellarNativeFeeFloor
    GasBuffer,         \* lockGasBufferWei
    Quotes,            \* the values each field of the market takes
    LastQuoteTime      \* bound: the clock

Absent == -1  \* a price, an estimate or a balance that cannot be read

ASSUME QuoteAssumption ==
    /\ {MinMarginBps, MaxPlausibleProfitBps, SourceFloor, DestFloor, GasBuffer,
        LastQuoteTime, MinFillHeadroom} \subseteq Nat
    /\ {RateScale, BasisPoints, SubBps} \subseteq Nat \ {0}
    /\ \A i \in Quoted :
          /\ {i.deadline, i.amount, i.min} \subseteq Nat
          /\ {i.srcDecimals, i.dstDecimals} \subseteq Nat \cup {Absent}
    /\ Quotes \in [rate : SUBSET Int, fee : SUBSET (Nat \cup {Absent}),
                  available : SUBSET Int, reserved : SUBSET Int,
                  source : SUBSET Int, estimate : SUBSET Int,
                  dest : SUBSET Int, destEstimate : SUBSET Int]
    /\ \A field \in DOMAIN Quotes : Quotes[field] # {}

VARIABLES
    quoteTime,
    market,    \* the oracle, the fee estimate, the balances and the reservations
    retired    \* the intents whose refusal was terminal: the solver's `seen`

quoteVars == <<quoteTime, market, retired>>

-----------------------------------------------------------------------------
(* Pricing *)

\* computeProceeds: exact products, one division that truncates.
Proceeds(i) ==
    LET product == i.amount * market.rate
        up == i.dstDecimals - i.srcDecimals
    IN IF up >= 0 THEN (product * Tens[up]) \div RateScale
                  ELSE product \div (RateScale * Tens[-up])

\* Unknown decimals, a rate that is not positive and a fee that cannot be estimated throw.
PricingThrows(i) ==
    \/ Absent \in {i.srcDecimals, i.dstDecimals}
    \/ market.rate <= 0
    \/ market.fee = Absent

\* The fee is forgotten (a mutant).
ProfitBeforeFee(i) == Proceeds(i) - i.min

Profit(i) == Proceeds(i) - i.min - market.fee
\* In parts of a basis point, so that a margin below one is not truncated to zero.
ProfitBpsScaled(i) == (Profit(i) * BasisPoints * SubBps) \div Proceeds(i)

\* isExpired(intent, now, clockSkew)
IsExpired(deadline, at, clockSkew) == deadline <= at - clockSkew

\* isSolverEligible: a malformed address is not eligible.
IsSolverEligible(preferred) == preferred \in {"anyone", "me"}

\* escrowSourceNativeCost, when an estimator is wired; the configured floor otherwise.
SourceNativeCost ==
    IF market.estimate = Absent THEN SourceFloor ELSE market.estimate + GasBuffer

\* destNativeCost, in the same way.
DestNativeCost ==
    IF market.destEstimate = Absent THEN DestFloor ELSE market.destEstimate

\* A balance that is short today counts as final (a mutant).
TerminalGatesWithBalance ==
    {"wrong_chain", "expired", "headroom", "unsupported_asset", "reserved", "source_balance"}

\* The gates of evaluate, in their order: an intent is refused at the first one it fails.
\* FillDecision.terminal: a refusal at one of the first is for good.
TerminalGates == {"wrong_chain", "expired", "headroom", "unsupported_asset", "reserved"}
Gates == TerminalGates \cup
    {"pricing_error", "min_out", "non_positive", "below_margin", "implausible_profit",
     "insufficient_inventory", "source_balance", "dest_balance"}

FailsGate(i, gate) ==
    CASE gate = "wrong_chain" -> i.chain # "ours"
      [] gate = "expired" -> IsExpired(i.deadline, quoteTime, 0)
      [] gate = "headroom" -> IsExpired(i.deadline, quoteTime, -MinFillHeadroom)
      [] gate = "unsupported_asset" -> i.asset # "listed"
      [] gate = "reserved" -> ~IsSolverEligible(i.preferred)
      [] gate = "pricing_error" -> PricingThrows(i)
      [] gate = "min_out" -> Proceeds(i) < i.min
      [] gate = "non_positive" -> Profit(i) <= 0
      [] gate = "below_margin" -> ProfitBpsScaled(i) < MinMarginBps * SubBps
      [] gate = "implausible_profit" ->
            ProfitBpsScaled(i) \div SubBps > MaxPlausibleProfitBps
      [] gate = "insufficient_inventory" -> market.available - market.reserved < i.min
      [] gate = "source_balance" ->
            market.source # Absent /\ market.source < SourceNativeCost
      [] gate = "dest_balance" ->
            market.dest # Absent /\ market.dest < DestNativeCost

Evaluate(i) == IF \A gate \in Gates : ~FailsGate(i, gate) THEN "fill" ELSE "skip"
RefusedForGood(i) == \E gate \in TerminalGates : FailsGate(i, gate)

-----------------------------------------------------------------------------
(* Steps *)

\* The solver considers an intent that is not in `seen`.
Consult(i) ==
    /\ i \notin retired
    /\ retired' = IF RefusedForGood(i) THEN retired \cup {i} ELSE retired
    /\ UNCHANGED <<quoteTime, market>>

MarketMoves ==
    /\ \E field \in DOMAIN market : \E v \in Quotes[field] :
          market' = [market EXCEPT ![field] = v]
    /\ UNCHANGED <<quoteTime, retired>>

QuoteTick ==
    /\ quoteTime < LastQuoteTime
    /\ quoteTime' = quoteTime + 1
    /\ UNCHANGED <<market, retired>>

QuoteInit ==
    /\ quoteTime = 0 /\ retired = {}
    /\ market = [field \in DOMAIN Quotes |-> CHOOSE v \in Quotes[field] : TRUE]

QuoteNext == MarketMoves \/ QuoteTick \/ \E i \in Quoted : Consult(i)

QuoteSpec == QuoteInit /\ [][QuoteNext]_quoteVars

-----------------------------------------------------------------------------
(* Properties *)

\* The value of the source amount is Numerator / Denominator of the destination's units.
Numerator(i) == i.amount * market.rate * Tens[i.dstDecimals]
Denominator(i) == RateScale * Tens[i.srcDecimals]

\* quote.ts:335-405: a fill pays.  Against the exact value of the source amount, with no
\* rounding, it leaves a profit of at least the configured margin and of no more than the
\* plausible one, whatever the decimals of the two assets are, and what the fill spends is
\* covered by what no other fill has reserved, and its fees by the native balances.
FillPays ==
    \A i \in Quoted : Evaluate(i) = "fill" =>
        LET n == Numerator(i)
            d == Denominator(i)
            gain == n - (i.min + market.fee) * d
        IN /\ gain > 0 /\ gain * BasisPoints >= MinMarginBps * n
           /\ (gain - d) * BasisPoints < (MaxPlausibleProfitBps + 1) * n
           /\ market.available >= i.min + market.reserved
           /\ market.source = Absent \/ market.source >= SourceNativeCost
           /\ market.dest = Absent \/ market.dest >= DestNativeCost

\* FillDecision.terminal, quote.ts:151-155: an intent that is refused for good would never
\* have become fillable, however the market moves.
TerminalIsDurable == \A i \in retired : Evaluate(i) # "fill"

=============================================================================
