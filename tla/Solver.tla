------------------------------- MODULE Solver -------------------------------
(***************************************************************************)
(* The reference solver (src/solver/src): the loop that polls the mempool, *)
(* judges each pending intent, and hands those worth filling one by one to *)
(* the executor, which locks on the EVM escrow, waits until the intent is  *)
(* registered on Stellar and delivers there.                               *)
(*                                                                         *)
(* Every await is a boundary between two actions: clocks run, other        *)
(* solvers lock and deliver, transactions are mined and the process may    *)
(* die between any two.  All intents ask for one destination asset.  The   *)
(* escrow and the settlement contract appear as this program sees them:    *)
(* their own modules are Escrow and Settlement.                            *)
(***************************************************************************)
EXTENDS Integers, FiniteSets, FiniteSetsExt

CONSTANTS
    Intents,
    Amount,         \* minDestAmount of every intent
    Capital,        \* what the solver owns of the destination asset
    Contested,      \* intents that other solvers go for
    MaxRetries,     \* MAX_FILL_RETRIES
    Deadline,       \* of every intent
    FillHeadroom,   \* MIN_FILL_HEADROOM_SECS of the sdk, used by evaluate
    DispatchWindow, \* MIN_DISPATCH_WINDOW of the settlement contract
    WaitHeadroom,   \* MIN_FILL_HEADROOM_SECS of the executor
    StatusDecoded,  \* readStatus returns the variant, as its signature says
    MaxTime,        \* bound: the clock
    MaxCrashes      \* bound: ends of the process

None == "none"

ASSUME SolverAssumption ==
    /\ {Amount, Capital, MaxRetries, Deadline, MaxTime, MaxCrashes} \subseteq Nat
    /\ {WaitHeadroom, DispatchWindow, FillHeadroom} \subseteq Nat
    /\ WaitHeadroom < DispatchWindow /\ DispatchWindow < FillHeadroom
    /\ Contested \subseteq Intents /\ None \notin Intents /\ StatusDecoded \in BOOLEAN

VARIABLES
    time,
    lock,        \* the escrow's record of each intent
    dest,        \* the settlement contract's record
    lockTx,      \* intents for which a lock of ours is broadcast, not mined
    fillTx,      \* intents for which a fill of ours is submitted, not included
    balance,     \* what the solver holds on Stellar
    record,      \* the pending records of the mempool
    reported,    \* intents this solver reported as filled
    late,        \* history: fills of earlier ticks in flight when this one began
    phase, cur, page,                       \* the loop, and what is left of its list
    seen, tries, waiting, held, reserved,   \* the solver's memory
    reading,     \* the balance the inventory provider last read
    crashes

outside == <<time, lock, dest, lockTx, fillTx, balance, record, reported, late>>
loop    == <<phase, cur, page>>
retry   == <<seen, tries, waiting>>
capital == <<held, reserved, reading>>
vars    == <<outside, loop, retry, capital, crashes>>

Empty == [i \in {} |-> None]

-----------------------------------------------------------------------------
(* What happens outside the process *)

Tick ==
    /\ time < MaxTime
    /\ time' = time + 1
    /\ UNCHANGED <<lock, dest, lockTx, fillTx, balance, record, reported, late,
                   loop, retry, capital, crashes>>

\* A user submits the intent again with a corrected signature.
Correct(i) ==
    /\ record[i] = "badSignature" /\ time < Deadline
    /\ record' = [record EXCEPT ![i] = "valid"]
    /\ UNCHANGED <<time, lock, dest, lockTx, fillTx, balance, reported, late,
                   loop, retry, capital, crashes>>

\* Somebody else reports the status, or the mempool drops the record.
Unlist(i) ==
    /\ record[i] # None
    /\ record' = [record EXCEPT ![i] = None]
    /\ UNCHANGED <<time, lock, dest, lockTx, fillTx, balance, reported, late,
                   loop, retry, capital, crashes>>

OtherLocks(i) ==
    /\ i \in Contested
    /\ lock[i] = None /\ time < Deadline
    /\ lock' = [lock EXCEPT ![i] = "other"]
    /\ UNCHANGED <<time, dest, lockTx, fillTx, balance, record, reported, late,
                   loop, retry, capital, crashes>>

\* Our lock transaction is mined: it takes the lock, or reverts.
LockMined(i) ==
    /\ i \in lockTx
    /\ lockTx' = lockTx \ {i}
    /\ lock' = IF lock[i] = None /\ time < Deadline
               THEN [lock EXCEPT ![i] = "own"] ELSE lock
    /\ UNCHANGED <<time, dest, fillTx, balance, record, reported, late,
                   loop, retry, capital, crashes>>

\* The FillInstruction arrives on Stellar.
Registers(i) ==
    /\ lock[i] \in {"own", "other"} /\ dest[i] = None /\ time < Deadline
    /\ dest' = [dest EXCEPT ![i] = "locked"]
    /\ UNCHANGED <<time, lock, lockTx, fillTx, balance, record, reported, late,
                   loop, retry, capital, crashes>>

\* validate_and_stage_fill: the EVM lock reserves the fill up to the deadline.
FillAccepted(i, who) ==
    dest[i] = "locked" /\ lock[i] = who /\ time + DispatchWindow <= Deadline

OtherFills(i) ==
    /\ FillAccepted(i, "other")
    /\ dest' = [dest EXCEPT ![i] = "filled"]
    /\ UNCHANGED <<time, lock, lockTx, fillTx, balance, record, reported, late,
                   loop, retry, capital, crashes>>

\* Our fill transaction is included: it delivers, or fails and moves nothing.
FillIncluded(i) ==
    /\ i \in fillTx
    /\ fillTx' = fillTx \ {i}
    /\ IF FillAccepted(i, "own") /\ balance >= Amount
       THEN dest' = [dest EXCEPT ![i] = "filled"] /\ balance' = balance - Amount
       ELSE UNCHANGED <<dest, balance>>
    /\ UNCHANGED <<time, lock, lockTx, record, reported, late,
                   loop, retry, capital, crashes>>

\* cancel_expired_intent on Stellar; release or refund on the escrow.
Cancels(i) ==
    /\ dest[i] = "locked" /\ time >= Deadline
    /\ dest' = [dest EXCEPT ![i] = "cancelled"]
    /\ UNCHANGED <<time, lock, lockTx, fillTx, balance, record, reported, late,
                   loop, retry, capital, crashes>>

LockEnds(i) ==
    /\ lock[i] = "own"
    /\ dest[i] = "filled" \/ time >= Deadline
    /\ lock' = [lock EXCEPT ![i] = "ended"]
    /\ UNCHANGED <<time, dest, lockTx, fillTx, balance, record, reported, late,
                   loop, retry, capital, crashes>>

-----------------------------------------------------------------------------
(* The loop: Solver.tick and Solver.consider *)

\* tick up to listPending: expired entries may leave `seen`, the holds of the last
\* tick end.  The provider has refreshed during the sleep: the code relies on it
\* (solver.ts:484-489) and does not ask.
BeginTick ==
    /\ phase = "idle"
    /\ phase' = "list"
    /\ seen' \in {seen, IF time >= Deadline THEN {} ELSE seen}
    /\ held' = 0
    /\ reading' = balance
    /\ late' = fillTx
    /\ UNCHANGED <<time, lock, dest, lockTx, fillTx, balance, record, reported,
                   cur, page, tries, waiting, reserved, crashes>>

\* The records that are not skipped; retries are judged against one clock reading.  A
\* listing that breaks off with PerihelionPaginationError yields a part of them.
List ==
    /\ phase = "list"
    /\ \E fetched \in SUBSET {i \in Intents : record[i] # None} :
          page' = [i \in fetched \ (seen \cup waiting) |-> record[i]]
    /\ phase' = "turn"
    /\ UNCHANGED <<outside, cur, retry, capital, crashes>>

ListFails ==
    /\ phase = "list"
    /\ phase' = "idle"
    /\ UNCHANGED <<outside, cur, page, retry, capital, crashes>>

EndTick ==
    /\ phase = "turn" /\ DOMAIN page = {}
    /\ phase' = "idle"
    /\ UNCHANGED <<outside, cur, page, retry, capital, crashes>>

NextRecord(i, r) ==
    /\ phase = "turn"
    /\ i \in DOMAIN page /\ page[i] = r
    /\ page' = [j \in DOMAIN page \ {i} |-> page[j]]

\* Terminal for the hash: seen, and no retry state.
Retire(i) ==
    /\ seen' = seen \cup {i}
    /\ tries' = [tries EXCEPT ![i] = 0]
    /\ waiting' = waiting \ {i}

\* consider: hash check.
Mismatch(i) ==
    /\ NextRecord(i, "badHash")
    /\ Retire(i)
    /\ UNCHANGED <<outside, phase, cur, capital, crashes>>

\* consider: signature check, not terminal for the hash.
BadSignature(i) ==
    /\ NextRecord(i, "badSignature")
    /\ tries' = [tries EXCEPT ![i] = 0]
    /\ waiting' = waiting \ {i}
    /\ UNCHANGED <<outside, phase, cur, seen, capital, crashes>>

\* evaluate: expired, or too close to the deadline to be worth starting.
NoHeadroom(i) ==
    /\ NextRecord(i, "valid")
    /\ Deadline <= time + FillHeadroom
    /\ Retire(i)
    /\ UNCHANGED <<outside, phase, cur, capital, crashes>>

\* evaluate: a price, a margin or a native balance that may be better next time.
Skip(i) ==
    /\ NextRecord(i, "valid")
    /\ Deadline > time + FillHeadroom
    /\ UNCHANGED <<outside, phase, cur, retry, capital, crashes>>

Covered(available) == available - (reserved + held) >= Amount

\* evaluate says fill: the capital is reserved and the executor takes over.  The
\* provider answers with its cached balance or reads it again.
Commit(i) ==
    /\ NextRecord(i, "valid")
    /\ Deadline > time + FillHeadroom
    /\ reading' \in {reading, balance}
    /\ Covered(reading')
    /\ reserved' = reserved + Amount
    /\ phase' = "check" /\ cur' = i
    /\ UNCHANGED <<outside, retry, held, crashes>>

\* The way out of fill(): a DefiniteFailureError frees the capital, anything else
\* holds it to the next tick.
Release == reserved' = reserved - Amount /\ UNCHANGED held

\* Nothing is held for the refresh (a mutant).
ReleaseAtOnce == reserved' = reserved - Amount /\ UNCHANGED held

HoldForRefresh == reserved' = reserved - Amount /\ held' = held + Amount

\* One retry too few (a mutant).
ScheduleRetryOnceLess(i) ==
    IF tries[i] + 1 >= MaxRetries
    THEN Retire(i)
    ELSE /\ tries' = [tries EXCEPT ![i] = @ + 1]
         /\ waiting' = waiting \cup {i}
         /\ UNCHANGED seen

\* scheduleRetry.
ScheduleRetry(i) ==
    IF tries[i] + 1 > MaxRetries
    THEN Retire(i)
    ELSE /\ tries' = [tries EXCEPT ![i] = @ + 1]
         /\ waiting' = waiting \cup {i}
         /\ UNCHANGED seen

Failed(i, definite) ==
    /\ ScheduleRetry(i)
    /\ IF definite THEN Release ELSE HoldForRefresh
    /\ phase' = "turn" /\ cur' = None
    /\ UNCHANGED <<time, lock, dest, lockTx, fillTx, balance, record, reported, late,
                   page, reading, crashes>>

Running(i, p) == phase = p /\ cur = i

Goto(p) ==
    /\ phase' = p
    /\ UNCHANGED <<outside, cur, page, retry, capital, crashes>>

\* fill() returned.
Filled(i) ==
    /\ Retire(i)
    /\ phase' = "report"
    /\ UNCHANGED <<outside, cur, page, capital, crashes>>

\* reportFilled, whose failure is swallowed; then the finally block.
Report(i) ==
    /\ Running(i, "report")
    /\ \/ reported' = reported \cup {i} /\ record' = [record EXCEPT ![i] = None]
       \/ UNCHANGED <<reported, record>>
    /\ HoldForRefresh
    /\ phase' = "turn" /\ cur' = None
    /\ UNCHANGED <<time, lock, dest, lockTx, fillTx, balance, late,
                   page, retry, reading, crashes>>

Elapse(i) ==
    /\ i \in waiting
    /\ waiting' = waiting \ {i}
    /\ UNCHANGED <<outside, loop, seen, tries, capital, crashes>>

-----------------------------------------------------------------------------
(* The executor: Executor.fill *)

\* readStatus.  As written its last line compares the variant and returns a Boolean,
\* which is none of the names its callers compare it with.
ReadStatus(i) ==
    IF ~StatusDecoded THEN "boolean"
    ELSE CASE dest[i] = "locked"    -> "Locked"
           [] dest[i] = "filled"    -> "Settled"
           [] dest[i] = "cancelled" -> "Cancelled"
           [] OTHER                 -> None

\* checkFillStatus: a failing query counts as not filled.
CheckFillStatus(i) ==
    /\ Running(i, "check")
    /\ \/ ReadStatus(i) = "Settled" /\ Filled(i)
       \/ Goto("getLock")

\* No stage is ever loaded, so every call looks for the lock first.
GetLock(i) ==
    /\ Running(i, "getLock")
    /\ \/ lock[i] = "own" /\ Goto("wait")
       \/ lock[i] \in {"other", "ended"} /\ Failed(i, TRUE)
       \/ lock[i] = None /\ Goto("lock")

\* lockOnEvm: writeContract simulates, then broadcasts.
SubmitLock(i) ==
    /\ Running(i, "lock")
    /\ lock[i] = None
    /\ lockTx' = lockTx \cup {i}
    /\ phase' = "receipt"
    /\ UNCHANGED <<time, lock, dest, fillTx, balance, record, reported, late,
                   cur, page, retry, capital, crashes>>

LockReverts(i) == Running(i, "lock") /\ Failed(i, TRUE)

\* waitForTransactionReceipt: the status of the receipt is not looked at.
Receipt(i) == Running(i, "receipt") /\ i \notin lockTx /\ Goto("wait")

\* waitForRegistration.
WaitEnds(i) ==
    /\ Running(i, "wait")
    /\ \/ ReadStatus(i) \in {"Locked", "Settled"} /\ Goto("fill")
       \/ ReadStatus(i) = "Cancelled" /\ Failed(i, TRUE)

GiveUpWaiting(i) ==
    /\ Running(i, "wait")
    /\ ReadStatus(i) \notin {"Locked", "Settled", "Cancelled"}
    /\ time >= Deadline - WaitHeadroom
    /\ Failed(i, FALSE)

\* fillOnSoroban: simulate, submit, poll.
FillRefused(i) ==
    /\ Running(i, "fill")
    /\ ~(FillAccepted(i, "own") /\ balance >= Amount)
    /\ Failed(i, TRUE)

SubmitFill(i) ==
    /\ Running(i, "fill")
    /\ FillAccepted(i, "own") /\ balance >= Amount
    /\ fillTx' = fillTx \cup {i}
    /\ phase' = "confirm"
    /\ UNCHANGED <<time, lock, dest, lockTx, balance, record, reported, late,
                   cur, page, retry, capital, crashes>>

\* A failed transaction is taken for a delivery (a mutant).
FillConfirmedUnread(i) ==
    Running(i, "confirm") /\ i \notin fillTx /\ Filled(i)

FillConfirmed(i) ==
    /\ Running(i, "confirm") /\ i \notin fillTx
    /\ IF dest[i] = "filled" THEN Filled(i) ELSE Failed(i, FALSE)

\* An RPC call that fails, a receipt or a confirmation that does not come in time:
\* the outcome of what was sent is not known.
CallFails(i) ==
    /\ phase \in {"getLock", "lock", "receipt", "wait", "fill", "confirm"} /\ cur = i
    /\ Failed(i, FALSE)

-----------------------------------------------------------------------------
\* The process ends (a crash, a FatalError, stop) and is started again: all of the
\* solver's memory is lost, what it sent is not.
Restart ==
    /\ crashes < MaxCrashes
    /\ crashes' = crashes + 1
    /\ phase' = "idle" /\ cur' = None /\ page' = Empty
    /\ seen' = {} /\ tries' = [i \in Intents |-> 0] /\ waiting' = {}
    /\ held' = 0 /\ reserved' = 0
    /\ UNCHANGED <<outside, reading>>

Init ==
    /\ time = 0
    /\ lock = [i \in Intents |-> None] /\ dest = [i \in Intents |-> None]
    /\ lockTx = {} /\ fillTx = {}
    /\ balance = Capital /\ reading = Capital
    /\ record \in [Intents -> {"valid", "badSignature", "badHash"}] /\ reported = {} /\ late = {}
    /\ phase = "idle" /\ cur = None /\ page = Empty
    /\ seen = {} /\ tries = [i \in Intents |-> 0] /\ waiting = {}
    /\ held = 0 /\ reserved = 0 /\ crashes = 0

World(i) ==
    \/ Correct(i) \/ Unlist(i) \/ OtherLocks(i) \/ LockMined(i) \/ Registers(i)
    \/ OtherFills(i) \/ FillIncluded(i) \/ Cancels(i) \/ LockEnds(i) \/ Elapse(i)

Consider(i) ==
    Mismatch(i) \/ BadSignature(i) \/ NoHeadroom(i) \/ Skip(i) \/ Commit(i)

Fill(i) ==
    \/ CheckFillStatus(i) \/ GetLock(i) \/ SubmitLock(i) \/ LockReverts(i) \/ Receipt(i)
    \/ WaitEnds(i) \/ GiveUpWaiting(i) \/ FillRefused(i) \/ SubmitFill(i)
    \/ FillConfirmed(i) \/ CallFails(i) \/ Report(i)

Next ==
    \/ Tick \/ BeginTick \/ List \/ ListFails \/ EndTick \/ Restart
    \/ \E i \in Intents : World(i) \/ Consider(i) \/ Fill(i)

\* Time passes, and every call of the loop returns or times out: except the read of
\* the status, which the loop of waitForRegistration repeats.
Fairness ==
    /\ WF_vars(Tick) /\ WF_vars(BeginTick) /\ WF_vars(List) /\ WF_vars(EndTick)
    /\ \A i \in Intents :
          /\ WF_vars(Consider(i)) /\ WF_vars(Elapse(i))
          /\ WF_vars(phase # "wait" /\ Fill(i))
          /\ WF_vars(WaitEnds(i)) /\ WF_vars(GiveUpWaiting(i))

Spec == Init /\ [][Next]_vars
FairSpec == Spec /\ Fairness

-----------------------------------------------------------------------------
(* Properties *)

Phases == {"idle", "list", "turn", "check", "getLock", "lock", "receipt", "wait",
           "fill", "confirm", "report"}

\* Every variable stays in its range.
TypeOK ==
    /\ time \in 0 .. MaxTime
    /\ lock \in [Intents -> {None, "own", "other", "ended"}]
    /\ dest \in [Intents -> {None, "locked", "filled", "cancelled"}]
    /\ record \in [Intents -> {None, "valid", "badSignature", "badHash"}]
    /\ lockTx \cup fillTx \cup reported \cup late \subseteq Intents
    /\ balance \in 0 .. Capital /\ reading \in 0 .. Capital
    /\ phase \in Phases /\ DOMAIN page \subseteq Intents
    /\ seen \cup waiting \subseteq Intents
    /\ tries \in [Intents -> 0 .. MaxRetries]
    /\ held \in 0 .. Amount * Cardinality(Intents)
    /\ cur \in Intents \cup {None} /\ reserved \in {0, Amount}

\* What fills take from the account.
Cost(fills) == Amount * Cardinality(fills)

\* What this tick has promised and Stellar has not delivered: the fill at hand, and those
\* that were sent and given up on since the tick began.
Committed == {i \in (fillTx \ late) \cup ({cur} \ {None}) : dest[i] # "filled"}

\* The fills of earlier ticks that have landed.
Landed == {i \in late : dest[i] = "filled"}

\* The reservation and the holds keep two fills from being promised the same capital
\* (solver.ts:348-349, evaluate, quote.ts:361): an intent is at hand exactly while the
\* executor runs, exactly its amount is reserved (consider, solver.ts:628-736), and the
\* account covers all that the tick has promised, with the fills it gave up on that may
\* still land; except for the amount of each fill that was under way already when the
\* tick began and landed after its balance was read.
CapitalCovers ==
    /\ IF phase \in {"idle", "list", "turn"} THEN cur = None /\ reserved = 0
       ELSE cur \in Intents /\ reserved = Amount
    /\ Cost(Committed) <= balance + Cost(Landed)

\* What solver.ts:348-349 says without that exception: a stale balance read cannot
\* let a second intent over-commit the inventory.
NeverOvercommitted ==
    Cost({i \in (fillTx \cup {cur}) \ {None} : dest[i] # "filled"}) <= balance

\* The mempool is told "filled" only once Stellar has delivered (reportFilled,
\* solver.ts:693 and 757-769): never after a timeout, a lost race or a restart.
ReportedIsDelivered == \A i \in reported : dest[i] = "filled"

\* This solver holds the live lock of an intent that can still be delivered, and will
\* not look at it again.
Abandoned(i) ==
    /\ i \in seen
    /\ lock[i] = "own" /\ dest[i] # "filled" /\ time + DispatchWindow <= Deadline

\* A lock of ours is given up only when the retries are used up or when evaluate finds
\* too little time before a new attempt (scheduleRetry, solver.ts:780-803, and the
\* terminal verdicts), or if it is mined after the intent was retired; never through a
\* failed call or a lost race, however late.
AbandonedOnlyBy ==
    [][\A i \in Intents : ~Abandoned(i) /\ Abandoned(i)' =>
          \/ tries[i] = MaxRetries
          \/ NoHeadroom(i)
          \/ LockMined(i)]_vars

\* waitForRegistration gives up only on an intent that is not registered: what its
\* error says (executor.ts:394).
GivesUpOnlyUnregistered ==
    [][\A i \in Intents : GiveUpWaiting(i) => dest[i] = None]_vars

\* Whatever fails, no record holds the loop for ever (waitForRegistration is the one
\* unbounded loop of fill, and it blocks every other intent): every tick ends.
TickEnds == phase # "idle" ~> phase = "idle"

=============================================================================
