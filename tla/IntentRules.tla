----------------------------- MODULE IntentRules -----------------------------
(***************************************************************************)
(* What each party accepts of one signed intent on its way: the SDK that    *)
(* builds it (src/sdk/src/intent.ts), the mempool and the solver that parse *)
(* and verify it (validate.ts, intent.ts), the escrow that locks it and the *)
(* settlement contract that registers it.  A string is the class of strings *)
(* that those checks tell apart; an amount keeps its order relative to the  *)
(* widths.                                                                  *)
(***************************************************************************)
EXTENDS Integers

CONSTANTS
    Candidates,   \* signed intents
    U128Max, I128Max, Uint256Max,  \* widths, in their order
    MaxDeadlineHorizon,
    LastIntentTime  \* bound: the clock

Malformed == -1  \* a string that is not a decimal integer

ASSUME IntentRulesAssumption ==
    /\ \A i \in Candidates :
          /\ {i.amount, i.min, i.nonce, i.chain, i.deadline} \subseteq Nat \cup {Malformed}
          /\ i.signature.wallet \in {"accepts", "costly", "refuses"}
    /\ {I128Max, U128Max, Uint256Max, MaxDeadlineHorizon, LastIntentTime} \subseteq Nat
    /\ I128Max < U128Max /\ U128Max < Uint256Max

VARIABLES
    intentTime,
    intent,    \* the signed intent that is followed
    stage,     \* how far it came
    built,     \* did buildIntent return it?
    deployed,  \* does the user's account have code?
    verified   \* what the check of its signature relied on, or Unverified

ruleVars == <<intentTime, intent, stage, built, deployed, verified>>

-----------------------------------------------------------------------------
(* The grammar of the fields *)

StrkeyForms == {"account", "contract"}
IsStrkeyForm(s) == s \in StrkeyForms
IsStellarAsset(s) == s \in {"native", "classic", "contract"}
IsAddress(s) == s # "malformed"

\* isPositiveIntString, isNonNegIntString
IsPositiveInt(n) == n \notin {Malformed, 0}
IsNonNegInt(n) == n # Malformed

\* The lengths in bytes that the two length limits tell apart.
FitsDestination(s) == s \notin {"empty", "long"}
FitsDestAsset(s) == s \notin {"empty", "long"}

\* validateAmount
ValidateAmount(n, max) == n # Malformed /\ 0 < n /\ n <= max

\* Any deadline in the future is valid (a mutant).
ValidateIntentWithoutHorizon(i, now) ==
    /\ IsAddress(i.user) /\ IsAddress(i.sourceAsset) /\ IsAddress(i.preferred)
    /\ IsStrkeyForm(i.destination) /\ FitsDestination(i.destination)
    /\ i.chain > 0
    /\ IsPositiveInt(i.amount) /\ i.amount <= U128Max
    /\ IsStellarAsset(i.destAsset) /\ FitsDestAsset(i.destAsset)
    /\ IsPositiveInt(i.min) /\ i.min <= I128Max
    /\ now < i.deadline
    /\ IsNonNegInt(i.nonce) /\ i.nonce <= Uint256Max

\* validateIntent, and the ranges that buildIntent checks again.
ValidateIntent(i, now) ==
    /\ IsAddress(i.user) /\ IsAddress(i.sourceAsset) /\ IsAddress(i.preferred)
    /\ IsStrkeyForm(i.destination) /\ FitsDestination(i.destination)
    /\ i.chain > 0
    /\ IsPositiveInt(i.amount) /\ i.amount <= U128Max
    /\ IsStellarAsset(i.destAsset) /\ FitsDestAsset(i.destAsset)
    /\ IsPositiveInt(i.min) /\ i.min <= I128Max
    /\ now < i.deadline /\ i.deadline <= now + MaxDeadlineHorizon
    /\ IsNonNegInt(i.nonce) /\ i.nonce <= Uint256Max

BuildIntent(i, now) ==
    ValidateIntent(i, now) /\ ValidateAmount(i.amount, U128Max) /\ ValidateAmount(i.min, I128Max)

\* parseIntent: the same grammar without the widths and the clock.
ParseIntent(i) ==
    /\ IsAddress(i.user) /\ IsAddress(i.sourceAsset) /\ IsAddress(i.preferred)
    /\ IsStrkeyForm(i.destination) /\ IsStellarAsset(i.destAsset)
    /\ i.chain > 0 /\ i.deadline > 0
    /\ IsPositiveInt(i.amount) /\ IsPositiveInt(i.min)
    /\ IsNonNegInt(i.nonce)

\* parseSignedIntent, as the client reads a record: 65 bytes of signature; every candidate
\* has a hash of 32 bytes.
ParseSignedIntent(i) == ParseIntent(i) /\ i.signature.length = 65

\* _validateIntent of the escrow, called by a solver that may be the preferred one.  An
\* ABI-encoded argument is an address, or a number of at most 256 bits.
Encodable(i) ==
    /\ IsAddress(i.user) /\ IsAddress(i.sourceAsset) /\ IsAddress(i.preferred)
    /\ {i.amount, i.min, i.nonce} \subseteq 0 .. Uint256Max
EscrowAccepts(i, now) ==
    /\ Encodable(i)
    /\ now < i.deadline
    /\ i.chain = 1
    /\ FitsDestination(i.destination) /\ FitsDestAsset(i.destAsset)
    /\ i.sourceAsset = "allowed"
    /\ i.min <= I128Max /\ i.amount <= U128Max

\* decode_fill_instruction and on_fill_instruction of the settlement contract.
SettlementAccepts(i, now) ==
    /\ IsStrkeyForm(i.destination) /\ IsStellarAsset(i.destAsset)
    /\ 0 < i.min /\ i.min <= I128Max
    /\ i.deadline <= now + MaxDeadlineHorizon

-----------------------------------------------------------------------------
(* Signatures *)

\* The ECDSA path of both verifiers: 65 bytes, low s, a known v, the user's key.
SignedByKey(s) == s.length = 65 /\ s.lowS /\ s.knownV /\ s.byUser

\* The user is always taken for an account with a key (a mutant).
VerifyIntentByKey(i, client) == SignedByKey(i.signature)

\* verifyIntent.  With a client that answers it knows whether the user is a contract and
\* can ask it; otherwise it takes the user for an account with a key.
VerifyIntent(i, client) ==
    IF client = "answers" /\ deployed
    THEN i.signature.wallet # "refuses"
    ELSE SignedByKey(i.signature)

\* _verify of the escrow: a wallet gets 100_000 gas.
EscrowVerifies(i) ==
    IF deployed THEN i.signature.wallet = "accepts" ELSE SignedByKey(i.signature)

-----------------------------------------------------------------------------
(* The way of an intent *)

Unverified == [client |-> "none", deployed |-> FALSE, done |-> FALSE]

Move(from, to) == stage \in from /\ stage' = to /\ UNCHANGED <<intentTime, intent>>

\* The SDK builds and signs it, or someone signs what the SDK would refuse.
Build ==
    /\ Move({"none"}, "signed")
    /\ BuildIntent(intent, intentTime)
    /\ built' = TRUE
    /\ UNCHANGED <<deployed, verified>>

SignAnything ==
    /\ Move({"none"}, "signed")
    /\ UNCHANGED <<built, deployed, verified>>

\* handleSubmitIntent; the solver repeats these checks on what it lists.
SubmitSigned ==
    \E client \in {"none", "answers", "fails"} :
        /\ Move({"signed"}, "listed")
        /\ ParseIntent(intent) /\ intentTime < intent.deadline
        /\ VerifyIntent(intent, client)
        /\ verified' = [client |-> client, deployed |-> deployed, done |-> TRUE]
        /\ UNCHANGED <<built, deployed>>

\* lock: a solver may lock what no mempool has listed.
LockIntent ==
    /\ Move({"signed", "listed"}, "locked")
    /\ EscrowAccepts(intent, intentTime) /\ EscrowVerifies(intent)
    /\ UNCHANGED <<built, deployed, verified>>

\* lz_receive: a message that is refused may be delivered again later.
RegisterIntent ==
    /\ Move({"locked"}, "registered")
    /\ SettlementAccepts(intent, intentTime)
    /\ UNCHANGED <<built, deployed, verified>>

\* The user's account is deployed, or delegates to a contract and back (EIP-7702).
CodeChanges ==
    /\ deployed' = ~deployed
    /\ UNCHANGED <<intentTime, intent, stage, built, verified>>

IntentTick ==
    /\ intentTime < LastIntentTime
    /\ intentTime' = intentTime + 1
    /\ UNCHANGED <<intent, stage, built, deployed, verified>>

IntentInit ==
    /\ intentTime = 0 /\ intent \in Candidates
    /\ stage = "none" /\ built = FALSE /\ deployed = FALSE
    /\ verified = Unverified

IntentNext ==
    \/ IntentTick \/ CodeChanges
    \/ Build \/ SignAnything \/ SubmitSigned \/ LockIntent \/ RegisterIntent

IntentSpec == IntentInit /\ [][IntentNext]_ruleVars

-----------------------------------------------------------------------------
(* Properties *)

\* MAX_DEADLINE_HORIZON, intent.ts:216-228: no check further along refuses an intent that the SDK
\* built, except for what the user cannot know (the chain, the allowlist, the time): the
\* mempool lists it, the escrow locks it, and once locked it can be registered at any time,
\* so the user's funds are never locked for an intent that Stellar will not take.
BuiltIsAccepted ==
    built =>
        /\ ParseIntent(intent)
        /\ intent.chain = 1 /\ intent.sourceAsset = "allowed" /\ intentTime < intent.deadline =>
               EscrowAccepts(intent, intentTime)
        /\ stage = "locked" => SettlementAccepts(intent, intentTime)

\* What validate.ts:218-221 says, "identical rules": what the mempool lists is held to the
\* rules of validateIntent, so a listed intent that is locked can be registered.
ListedIsRegistrable ==
    verified.done /\ stage = "locked" => SettlementAccepts(intent, intentTime)

\* Another side of the same claim: what the mempool lists, a client can read.
ListedIsReadable == verified.done => ParseSignedIntent(intent)

\* verifyIntent, intent.ts:494-519: it "mirrors PerihelionEscrow._verify".  A signature
\* that it accepted is accepted by the escrow, unless the account has got or lost its code
\* since, the check could not see the code, or the wallet needs more gas than the escrow
\* gives it.
VerifiedIsValid ==
    verified.done /\ verified.deployed = deployed =>
        \/ EscrowVerifies(intent)
        \/ deployed /\ verified.client # "answers"
        \/ deployed /\ intent.signature.wallet = "costly"

=============================================================================
