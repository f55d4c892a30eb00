---------------------------- MODULE SolverMemory ----------------------------
(***************************************************************************)
(* What the solver remembers from tick to tick (src/solver/src/solver.ts,   *)
(* seen-lru.ts, metrics.ts, backoff.ts): bounded caches of what it refused  *)
(* for good, what it will try again and which signatures it checked, its    *)
(* counters and its back-off.  Module Solver has the fills themselves.      *)
(***************************************************************************)
EXTENDS Integers, Sequences, SequencesExt, Aggregates

CONSTANTS
    Hashes,
    CacheSize,         \* seenCacheSize, retryCacheSize, verificationCacheSize
    FillRetries,       \* MAX_FILL_RETRIES
    MinSeenTtl,        \* MIN_SEEN_TTL_MS
    NegativeTtl,       \* NEGATIVE_VERIFICATION_TTL_MS
    FillDeadline,      \* of every intent
    MaxTriggers,       \* maxImplausibleProfitTriggers
    MaxUnrecoverable,  \* MAX_UNRECOVERABLE_FAILURES
    PollInterval, MaxBackoff, MaxJitter,
    EstimatedFee, SpentGas,  \* what a won fill was estimated to cost and what it cost
    LastMemoryTime,    \* bound: the clock
    MaxResubmissions   \* bound: records that are replaced

ASSUME SolverMemoryAssumption ==
    /\ {CacheSize, MaxTriggers, MaxUnrecoverable, PollInterval} \subseteq Nat \ {0}
    /\ {FillRetries, MinSeenTtl, NegativeTtl, FillDeadline, MaxBackoff, MaxJitter,
        EstimatedFee, SpentGas,
        LastMemoryTime, MaxResubmissions} \subseteq Nat

VARIABLES
    now,         \* Date.now()
    offered,     \* hash -> the signature of its record, or whether its hash mismatches
    resubmitted,
    mode,        \* "asleep", "tick", "filling" or "halted"
    wake,        \* when the sleep ends
    tickTime,    \* the reading of the clock that the tick judges retries by
    listed,      \* what is left of the list
    filling,     \* the record that is being filled, and how long it will be remembered
    seenCache, retryCache, verdicts,  \* the caches: sequences, least recently used first
    implausible, failures, unrecoverable, lastTickOk,
    stats,
    failed,      \* history: hash -> its failed fills since it was last forgotten
    refused      \* history: hash -> when it was last refused for good, or -1

caches   == <<seenCache, retryCache, verdicts>>
counters == <<implausible, failures, unrecoverable, lastTickOk>>
history  == <<failed, refused>>
memoryVars == <<now, offered, resubmitted, mode, wake, tickTime, listed, filling,
                caches, counters, stats, history>>

Idle == [hash |-> "nobody", signature |-> "none", until |-> 0]

-----------------------------------------------------------------------------
(* SeenLRU, RetryStateLRU and VerificationCache: Map keeps insertion order *)

Without(cache, key) == Selected(cache, {e \in ToSet(cache) : e.key # key})

Put(cache, entry) ==
    LET rest == Without(cache, entry.key)
    IN Append(IF Len(rest) >= CacheSize THEN Tail(rest) ELSE rest, entry)
Has(cache, key) == \E k \in DOMAIN cache : cache[k].key = key /\ now <= cache[k].until
Entry(cache, key) == CHOOSE e \in ToSet(cache) : e.key = key
\* A hit becomes the most recently used; an expired entry goes.
Touch(cache, key) ==
    IF Has(cache, key) THEN Append(Without(cache, key), Entry(cache, key))
                       ELSE Without(cache, key)
EvictExpired(cache) == Selected(cache, {e \in ToSet(cache) : now <= e.until})

\* The deadline alone, without the floor (a mutant).
SeenTtlDeadline == FillDeadline

\* seenTtlMs
SeenTtl == IF FillDeadline > now + MinSeenTtl THEN FillDeadline ELSE now + MinSeenTtl

RetryBackoff(attempt) == 2 ^ attempt

\* The key has the hash and the signature; the domain never changes.
VerificationKey(h) == <<h, offered[h]>>

\* BackoffState.nextDelay after n failures.
NextDelays(n) ==
    LET delay == PollInterval * 2 ^ n
        backed == IF delay > MaxBackoff THEN MaxBackoff ELSE delay
    IN backed .. backed + MaxJitter

\* The hash that makes room when key is put into a full cache.
EvictedBy(cache, key) ==
    LET rest == Without(cache, key)
    IN IF Len(rest) >= CacheSize THEN {rest[1].key} ELSE {}

\* Histories: these hashes are forgotten; this one is refused for good, this one failed.
Remember(forgotten, refusedNow, failedNow) ==
    /\ failed' = [h \in Hashes |-> IF h \in failedNow THEN failed[h] + 1
                                   ELSE IF h \in forgotten THEN 0 ELSE failed[h]]
    /\ refused' = [h \in Hashes |-> IF h \in refusedNow THEN now
                                    ELSE IF h \in forgotten THEN -1 ELSE refused[h]]

\* SolverMetrics
RecordFillAttempt == stats' = [stats EXCEPT !.attempted = @ + 1]
RecordFillWon == stats' = [stats EXCEPT !.won = @ + 1, !.gas = @ + EstimatedFee + SpentGas]
RecordFillLost == stats' = [stats EXCEPT !.lost = @ + 1]

-----------------------------------------------------------------------------
(* The loop *)

Sleep(n) ==
    /\ mode' = "asleep"
    /\ \E delay \in NextDelays(n) : wake' = now + delay

\* tick up to listPending.
StartTick ==
    /\ mode = "asleep" /\ now >= wake
    /\ mode' = "tick" /\ tickTime' = now
    /\ listed' = {h \in Hashes : offered[h] # "none"}
    /\ seenCache' = EvictExpired(seenCache) /\ retryCache' = EvictExpired(retryCache)
    /\ UNCHANGED <<now, offered, resubmitted, wake, filling, verdicts, counters, stats, history>>

TickSucceeds ==
    /\ mode = "tick" /\ listed = {}
    /\ failures' = 0 /\ unrecoverable' = 0
    /\ Sleep(0)
    /\ UNCHANGED <<now, offered, resubmitted, tickTime, listed, filling, caches,
                   implausible, lastTickOk, stats, history>>

\* A listing, a verification or a balance read throws; some errors are unrecoverable.
TickThrows ==
    /\ mode = "tick"
    /\ listed' = {} /\ lastTickOk' = FALSE
    /\ unrecoverable' \in {0, unrecoverable + 1}
    /\ IF unrecoverable' >= MaxUnrecoverable
       THEN mode' = "halted" /\ UNCHANGED <<failures, wake>>
       ELSE failures' = failures + 1 /\ Sleep(failures')
    /\ UNCHANGED <<now, offered, resubmitted, tickTime, filling, caches, implausible,
                   stats, history>>

\* The checks of the loop that pass over a record.
PassOver(h) ==
    /\ mode = "tick" /\ h \in listed
    /\ \/ Has(seenCache, h)
       \/ Has(retryCache, h) /\ tickTime < Entry(retryCache, h).next
    /\ seenCache' = Touch(seenCache, h)
    /\ retryCache' = IF Has(seenCache, h) THEN retryCache ELSE Touch(retryCache, h)
    /\ listed' = listed \ {h}
    /\ UNCHANGED <<now, offered, resubmitted, mode, wake, tickTime, filling, verdicts,
                   counters, stats, history>>

Considered(h) ==
    /\ mode = "tick" /\ h \in listed
    /\ ~Has(seenCache, h) /\ ~(Has(retryCache, h) /\ tickTime < Entry(retryCache, h).next)
    /\ listed' = listed \ {h}
    /\ UNCHANGED <<now, offered, resubmitted, wake, tickTime, failures, unrecoverable, lastTickOk>>

\* seen.add and retryState.delete.
Forget(h, until, refusedNow, failedNow) ==
    /\ seenCache' = Put(seenCache, [key |-> h, until |-> until])
    /\ retryCache' = Without(retryCache, h)
    /\ Remember(EvictedBy(seenCache, h), refusedNow, failedNow)

\* The mempool's hash is not the hash of the intent.
HashMismatch(h) ==
    /\ Considered(h)
    /\ offered[h] = "mismatch"
    /\ Forget(h, SeenTtl, {h}, {})
    /\ UNCHANGED <<mode, filling, verdicts, implausible, stats>>

\* The verdict on the signature, from the cache or from verifyIntent.
Verdict(h) ==
    IF Has(verdicts, VerificationKey(h)) THEN Entry(verdicts, VerificationKey(h)).valid
    ELSE offered[h] = "good"
RememberVerdict(h) ==
    LET key == VerificationKey(h)
    IN verdicts' = IF Has(verdicts, key) THEN Touch(verdicts, key)
                   ELSE Put(verdicts, [key |-> key, valid |-> Verdict(h),
                                       until |-> IF Verdict(h) THEN LastMemoryTime
                                                 ELSE now + NegativeTtl])

\* An invalid signature is not terminal for the hash.
SignatureRefused(h) ==
    /\ Considered(h)
    /\ offered[h] # "mismatch" /\ ~Verdict(h)
    /\ RememberVerdict(h)
    /\ seenCache' = Touch(seenCache, h) /\ retryCache' = Without(retryCache, h)
    /\ Remember({h}, {}, {})
    /\ UNCHANGED <<mode, filling, implausible, stats>>

\* evaluate says no: for now, for good, or because the profit is implausible.
Evaluated(h) == Considered(h) /\ offered[h] # "mismatch" /\ Verdict(h) /\ RememberVerdict(h)

SkipForNow(h) ==
    /\ Evaluated(h)
    /\ now < FillDeadline
    /\ seenCache' = Touch(seenCache, h) /\ retryCache' = Touch(retryCache, h)
    /\ UNCHANGED <<mode, filling, implausible, stats, history>>

SkipForGood(h) ==
    /\ Evaluated(h)
    /\ Forget(h, SeenTtl, {h}, {})
    /\ UNCHANGED <<mode, filling, implausible, stats>>

SkipImplausible(h) ==
    /\ Evaluated(h)
    /\ now < FillDeadline
    /\ implausible' = implausible + 1
    /\ mode' = IF implausible' >= MaxTriggers THEN "halted" ELSE mode
    /\ seenCache' = Touch(seenCache, h) /\ retryCache' = Touch(retryCache, h)
    /\ UNCHANGED <<filling, stats, history>>

StartFill(h) ==
    /\ Evaluated(h)
    /\ now < FillDeadline
    /\ implausible' = 0
    /\ mode' = "filling"
    /\ filling' = [hash |-> h, signature |-> offered[h], until |-> SeenTtl]
    /\ RecordFillAttempt
    /\ seenCache' = Touch(seenCache, h) /\ retryCache' = Touch(retryCache, h)
    /\ UNCHANGED history

FillDone ==
    /\ mode = "filling"
    /\ filling' = Idle
    /\ UNCHANGED <<now, offered, resubmitted, wake, tickTime, listed, verdicts, counters>>

FillWon ==
    /\ FillDone
    /\ mode' = "tick"
    /\ RecordFillWon
    /\ Forget(filling.hash, filling.until, {}, {})

LockedByOther ==
    /\ FillDone
    /\ mode' = "tick"
    /\ RecordFillLost
    /\ Forget(filling.hash, filling.until, {}, {})

\* scheduleRetry
FillFailed ==
    LET h == filling.hash
        attempts == IF Has(retryCache, h) THEN Entry(retryCache, h).attempts + 1 ELSE 1
    IN /\ FillDone
       /\ mode' = "tick"
       /\ RecordFillLost
       /\ IF attempts > FillRetries THEN Forget(h, filling.until, {}, {h})
          ELSE /\ retryCache' = Put(retryCache, [key |-> h, attempts |-> attempts,
                                           next |-> now + RetryBackoff(attempts - 1),
                                           until |-> filling.until])
               /\ UNCHANGED seenCache
               /\ Remember(EvictedBy(retryCache, h), {}, {h})

FillIsFatal ==
    /\ FillDone
    /\ mode' = "halted"
    /\ UNCHANGED <<seenCache, retryCache, stats, history>>

-----------------------------------------------------------------------------
(* Around it *)

Resubmit(h) ==
    /\ resubmitted < MaxResubmissions
    /\ resubmitted' = resubmitted + 1
    /\ \E record \in {"none", "good", "bad", "mismatch"} \ {offered[h]} :
          offered' = [offered EXCEPT ![h] = record]
    /\ UNCHANGED <<now, mode, wake, tickTime, listed, filling, caches, counters, stats, history>>

\* Time passes while the solver sleeps, and while it waits for a fill.
MemoryTick ==
    /\ now < LastMemoryTime
    /\ \/ mode = "filling"
       \/ mode = "asleep" /\ now < wake
    /\ now' = now + 1
    /\ UNCHANGED <<offered, resubmitted, mode, wake, tickTime, listed, filling, caches,
                   counters, stats, history>>

MemoryInit ==
    /\ now = 0 /\ resubmitted = 0
    /\ offered = [h \in Hashes |-> "good"]
    /\ mode = "asleep" /\ wake = 0 /\ tickTime = 0 /\ listed = {} /\ filling = Idle
    /\ seenCache = <<>> /\ retryCache = <<>> /\ verdicts = <<>>
    /\ implausible = 0 /\ failures = 0 /\ unrecoverable = 0 /\ lastTickOk = FALSE
    /\ stats = [attempted |-> 0, won |-> 0, lost |-> 0, gas |-> 0]
    /\ failed = [h \in Hashes |-> 0] /\ refused = [h \in Hashes |-> -1]

Judge(h) ==
    PassOver(h) \/ HashMismatch(h) \/ SignatureRefused(h) \/ SkipForNow(h) \/ SkipForGood(h)
    \/ SkipImplausible(h) \/ StartFill(h)

MemoryNext ==
    \/ StartTick \/ TickSucceeds \/ TickThrows
    \/ \E h \in Hashes : Judge(h) \/ Resubmit(h)
    \/ FillWon \/ LockedByOther \/ FillFailed \/ FillIsFatal
    \/ MemoryTick

MemorySpec == MemoryInit /\ [][MemoryNext]_memoryVars

-----------------------------------------------------------------------------
(* Properties *)

\* seen-lru.ts, RetryStateLRU, VerificationCache: the caches keep their bound, and have
\* one entry for a key.
CachesBounded ==
    \A cache \in {seenCache, retryCache, verdicts} :
        /\ Len(cache) <= CacheSize
        /\ \A j, k \in DOMAIN cache : cache[j].key = cache[k].key => j = k

\* scheduleRetry, solver.ts:780-801: no intent costs more than 1 + MAX_FILL_RETRIES
\* failed fills, however long the fills take and although every entry expires, unless it
\* was pushed out of a cache or someone resubmitted it with a bad signature.
FailuresBounded == \A h \in Hashes : failed[h] <= FillRetries + 1

\* verificationCacheKey, solver.ts:107-114: a cached verdict never stands for another
\* signature of the same intent.
FillsOnlySigned == mode = "filling" => filling.signature = "good"

\* MIN_SEEN_TTL_MS, solver.ts:172-179: a refusal for good holds for a while even when the
\* deadline of the intent is past.
RefusalSticks ==
    \A h \in Hashes : refused[h] >= 0 /\ now <= refused[h] + MinSeenTtl => Has(seenCache, h)

\* SolverMetrics: every fill that was attempted is won, lost or under way, unless it was
\* the one that halted the solver.
FillsAreCounted ==
    LET open == stats.attempted - stats.won - stats.lost
    IN IF mode = "halted" THEN open \in {0, 1}
       ELSE open = IF mode = "filling" THEN 1 ELSE 0

\* Bounded caches, expiries and evictions never make the solver fill what it refused, spend
\* more attempts than it is allowed to, or miscount them.
MemoryIsSound ==
    CachesBounded /\ FailuresBounded /\ FillsOnlySigned /\ RefusalSticks /\ FillsAreCounted

\* metrics.ts:50-53, "Total gas spent on source chain in wei".
GasIsSpent == stats.gas = stats.won * SpentGas

\* solver.ts:376-383 and the readiness endpoint, cli.ts:113-125: after a tick that
\* succeeded the solver is ready.
TickedIsReady == mode = "asleep" /\ now > 0 /\ failures = 0 => lastTickOk

=============================================================================
