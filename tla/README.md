# Perihelion in TLA+

Perihelion is an intent-based bridge between an EVM chain and Stellar. A user
signs an intent; a solver locks it in the escrow contract of the EVM chain, which
pulls the user's tokens and announces the intent to Stellar over LayerZero; the
solver delivers the destination asset through the settlement contract, which
sends a confirmation back; the escrow pays the solver. When nobody delivers, the
lock is refunded: by a cancel from Stellar, or locally by anyone once the
deadline and a confirmation grace have passed.

This directory holds a TLA+ model of the contracts, of their composition and of
the off-chain services, the TLC configurations that check it and TLAPS proofs
about it. `PROJECT.json` is the index: components, runs, mutants, the lines each
definition models, findings, hazards and theorems. Paths below are relative to
the repository; `lib.rs` is `contracts/soroban/settlement/src/lib.rs`.

Run things from this directory:

    tlc -workers 2 -config MCEscrow.cfg MCEscrow
    tlapm EscrowProofs.tla

## 1. Inventory

### The contracts

**Escrow** (`contracts/evm/src/PerihelionEscrow.sol`). State: `locks` by intent
hash, `totalLocked` per asset, the inbound nonce bitmap, the outbound nonce, the
configuration (peer, endpoint, grace, asset allowlist, maxima, rolling windows),
roles and pause. Operations: `lock` (solver), `lzReceive` (endpoint),
`cancelExpired` (anyone), `pause` and `decayGuardianPause`, `skim` and
`skimNative`, setters. Hard: a confirmation, a remote cancel and a local refund
race for one lock; fee-on-transfer tokens; messages in any order and more than
once; a pause must not hold up the exits; a breached window returns early.
Correct when each lock is paid once, in full, to the right party; the balance
covers the live locks; every lock can be ended without the owner.

**Settlement** (`contracts/soroban/settlement/src/lib.rs`). State: an
`IntentRecord` per hash, the Settled, Cancelled and ConfirmationSent markers, a
pruned nonce bitmap per source endpoint, outbound nonces, pauses (global and per
endpoint), allowlists, rolling window, keeper rewards, reputation. Operations:
`lz_receive` (FillInstruction, CancelIntent), `deliver_intent`,
`dispatch_confirmation`, `fill_intent` (both at once), `cancel_expired_intent`,
setters. Hard: markers and record are separate entries that have to agree;
re-deliveries and early cancels; two calls by two parties between delivery and
confirmation; rewards paid inside the exits; windows that change length. Correct
when the recipient is paid at most once, exactly one verdict leaves for an ended
intent, and it matches what happened.

**Settlement governance** (the same file). State: admin and nominee, endpoint and
pending endpoint, peer and pending peer per chain. Operations: `set_admin` and
`accept_admin`, `set_endpoint`, propose, confirm and cancel of endpoint and peer.
Hard: an intent registers under one peer and is answered under another; a
proposal expires, and its removal is rolled back. Correct when a change is
announced long enough ahead that an intent can end before it.

**Messages.** `FillInstruction` (escrow to settlement) and `FillConfirmed` and
`CancelIntent` (settlement to escrow) pass through a LayerZero endpoint per chain
that reorders, delays, and may offer a message again. The contracts share
nothing else: the clocks are separate, and what one has decided is known to the
other only from messages.

**Timelock** (`contracts/evm/src/PerihelionTimelock.sol`). An M-of-N multisig
that owns the escrow. State: operations with cached confirmation counters,
per-owner flags, owners, threshold, delay. Hard: flags of removed owners, votes
that outlive a cancel, a delay that starts once. Correct when nothing executes without
the delay and a quorum of owners, and the owners cannot lock themselves out.

### Off-chain

| Component | State | Operations | Hard | Correct when |
|---|---|---|---|---|
| Relayer (`relayer/src`) | cursor, header history, attempts, dead letters, checkpoint and dead-letter files | `tick`, `relayOne`, reorg rollback, drain | crash between the two files, retries, reorgs between reads | only final events are relayed, and none is passed over |
| Mempool (`mempool/src`) | records by hash and by status, capacity, rate limits | submit, status reports, eviction, expiry, listing by pages | handlers run while a submission awaits its signature check | the indexes agree, and a status tells what happened |
| Solver loop and executor (`solver/src`) | caches, reserved inventory, stage per intent | discover, lock, wait, fill, report | rivals, timeouts of transactions that land later, restart between stages | capital covers what is committed; what is reported was delivered |
| Quoting (`solver/src/quote.ts`) | none | thirteen gates over a moving market | truncation, scales, which refusals are final | a fill pays; a final refusal stays right |
| Released watcher (`solver/src/released-watcher.ts`) | next block, hashes reported | poll, start, stop | a stop inside a range, a report that fails | the cursor passes no unreported release |
| SDK (`sdk/src`) | none, but polling | build, verify, submit, list, `waitForSettlement`, refund verdict | four parties check the same fields; pages shift; late answers | what one accepts the next accepts |
| Start-up (`*/src/config.ts`, `cli.ts`) | none | read the environment | aliases, blanks, defaults | the services serve one deployment |

They hold no funds; what they do wrong delays a fill, loses the solver money or
loses a report. The contracts must be right whatever they do.

## 2. Modules

| Module | Models | Extends |
|---|---|---|
| `EvmClock`, `StellarClock` | the two block clocks | |
| `EscrowAdmin` | two-step ownership, guardian, pause, dismissal, cooldown | `EvmClock` |
| `EscrowCaps` | allowlist, per-asset maxima, rolling window, breaker and its timelocked reset | `EscrowAdmin` |
| `Escrow` | lock, `lzReceive`, `cancelExpired`, skims, configuration | `EscrowCaps` |
| `EscrowClient` | the refund verdict that a client reads | `Escrow` |
| `EscrowNonces` | the inbound nonce bitmap of the escrow | refines `NonceSet` |
| `SettlementCaps` | maximum, rolling window with pruned bucket, latch | `StellarClock` |
| `Settlement` | inbound messages, delivery, dispatch, fill, cancel, pauses, rewards | `SettlementCaps` |
| `SettlementGovernance` | admin, endpoint, peers, and what an intent meets of them | |
| `NonceBitmap` | the pruned inbound nonce bitmap of the settlement contract | refines `NonceSet` |
| `NonceSet` | abstract: each nonce is accepted once | |
| `Bridge` | both contracts (`E == INSTANCE Escrow`, `S == INSTANCE Settlement`) and the messages between them | refines `IntentLifecycle` |
| `IntentLifecycle` | abstract: what the bridge promises for an intent, with its liveness | |
| `Timelock` | the multisig: operations, votes, owners, threshold, delay | |
| `Relayer` | the loop from the escrow to Stellar, its files, the chain and the operator | |
| `Solver`, `SolverMemory`, `Quote` | the fills; the caches, counters and back-off; the decision to fill | |
| `Mempool` | the store, the server's handlers, the client's listing and waiting | |
| `ReleasedWatcher` | the watcher step by step, with the other reporters | `Mempool` |
| `IntentRules`, `Encodings`, `Startup`, `RateLimit` | what each party accepts of an intent; strkeys and amounts; the environment; the rate limits | |
| `EscrowWindow`, `SettlementWindow` | the contracts with a history of when each intent was locked or registered, and what the window caps promise | `Escrow`, `Settlement` |
| `Aggregates` | sums over the keys of a mapping, selections from a sequence, powers of ten | |
| `AggregateProofs` | their theory: what a change does to a sum, what a selection keeps, how powers multiply; and induction over numbers | `Aggregates` |
| `EscrowProofs`, `SettlementProofs`, `BridgeProofs`, `RelayerProofs`, `SolverProofs`, `ReleasedWatcherProofs`, `DataProofs` | theorems | the modules they are about |
| `MC*` | constants for TLC; `Relayer` is checked as it is | |

`MCSolver` and `MCData` hold parts that share no state: the initial state chooses
the part that moves, and the others stay where they start, so the state space is
the sum of theirs. `MCEscrow` and `MCBridge` choose a scenario and a timing,
`MCMempool` what is followed, in the same way.

### How the model corresponds to the code

*Calls.* A contract call is atomic on both chains, so each external function is
one action. A call that reverts, traps or returns an error changes nothing, and is
a step that is not taken: its conditions are the guards. Where the code returns
early and succeeds (a known intent that is announced again, a late cancel, a
message for an ended lock), the model has a disjunct that consumes the nonce and
leaves the rest alone.

*Awaits.* The services are single-threaded programs: every `await` is the boundary
between two actions, and anything else may run in between. A `phase` or `at`
variable is the place where the program waits, `tick`, `scan`, `listing` its
local variables. A crash drops the memory and keeps the files.

*Time.* The unit of the contracts is 30 minutes, the granularity of every window
of the protocol (`MIN_CONFIRMATION_GRACE` and `MIN_DISPATCH_WINDOW` are both one
unit). Soroban ledger sequence numbers are counted in the same unit. The other
modules have clocks of their own, in steps of what they compare.

*Intents.* A hash commits to the signed fields, so asset, amount, deadline and
preferred solver are constant functions of the hash.

*Escrow.* `Locked(h)` is a lock record with a user, and so with a solver; `PayOut`
is the shared tail of release and refunds. `nonReentrant` is the reason a call is one
step. The repository's file does not compile as it stands: `_pullFunds`
(lines 725-748) has neither its closing brace nor its `return received`, its
early exit is a bare `return;`, and the body at lines 780-800 lacks its header. The
model reads them as what they can only mean: the bare `return` yields
the default `received = 0`, and the body is `_dispatchFillInstruction`, which
`lock` calls. A breached window therefore records a lock of amount zero when the
contract holds enough native surplus to pay for the message after the caller was
refunded, and otherwise reverts and takes the latch with it.

*Settlement.* The three markers are sets of hashes, and `Status(h)` is
the view `status`. `fill_intent` composes delivery and dispatch as the code
does. `Unregistered` stands for an absent record.

*Rate limits.* A request is stamped with its time and a number of its own, and the store
keeps the set of those that passed; `rateLimitHits` filters and counts them.

*Timelock and governance.* An operation id is the hash of a call and a salt, so a
proposal that was cancelled comes back under its id; `Call` says what an id
commits to. The confirmation and cancel counters are kept next to the flags, as
the code caches them. In `SettlementGovernance` an error rolls back what the call
removed: an expired proposal stays, and for a peer must be cancelled before the
next one.

*Relayer.* A block's hash is its height with the fork it was mined on. The model has
the reads of a tick one by one (head, logs and headers, each delivery, both files).
`relayer.ts:219` and `config.ts:80` hold leftover conflict markers, and
`scanRefunds` uses a callback that the configuration does not declare; they are read
as if resolved to both sides, and the refund reports are in `ReleasedWatcher`.

*Solver.* `solver/src/cli.ts:74` holds a conflict marker too, and the executor lacks
imports. What the code does is kept: `waitForRegistration` blocks the loop, a lock
of another solver counts as a definite failure and is retried, a delivery of
another solver counts as won, `receipt.status` is not read, and the hooks that
would load and store the stage are never set. `readStatus` (`executor.ts:442-470`)
promises the variant of the status and returns a Boolean; the constant
`StatusDecoded` chooses between the two, and the run takes the signature. The
constructor (`executor.ts:207-220`) assigns neither `lzFeeBufferStroops` nor
`sourceConfirmations`, so the fee at line 596 is a number plus `undefined`; the model
reads both as set to what the configuration holds. The CLI passes no pricing, no inventory
and no estimators; without the decimals of EVM tokens `evaluate` refuses every intent as
a pricing error, so the model has the solver of `solver.ts` with them. `BeginTick` reads the balance that the account has then: that the
provider has refreshed it by the next tick is what the comment at `solver.ts:484-489`
counts on, and nothing enforces it.

*Mempool and released watcher.* A report in flight when `stop()` is called is answered
all the same, and ends the poll if it fails. The source chain of the watcher has no
reorganisations, although it reads the head unconfirmed: a release that is undone
would stay reported as settled. The mempool takes signatures of any length, since a
wallet checks its own, and the SDK reads back those of 65 bytes only
(`validate.ts:240`): `ListedIsReadable` below.

*Histories.* `payments`, `deliveries`, `sentAt`, `lockedAt` of `EscrowWindow` and
`registeredAt` of `SettlementWindow`, `late` of `Solver`, `backing`, `opposing`, `proposedAt`,
`dismissed` and `returned` of `Timelock`,
`announced` and `verdict` of `SettlementGovernance` are history variables: no
action reads them, but for `Overdue` in `Bridge`, where `sentAt` states the
assumption on latency, and for whether an intent of `SettlementGovernance` is
registered or answered. `stops` and `drained` of `Relayer` count faults for its
bound.

*External code.* The token (transfer, fee, donations), the endpoint (fees,
delivery), the chains that the services read and the clocks are modelled from how
the code uses them; the map marks them external.

## 3. What the runs check

| Run | Shows | Distinct states |
|---|---|---|
| `MCEscrow` | two locks of a fee-on-transfer token that together breach the rolling window; one lock while the owner does what it can; the roles and pauses alone: each lock is paid once, finally; liability equals live locks; solvent; the refund stays open and the client of a user knows when; every lock and every leftover pause ends | 214k |
| `MCEscrowCaps` | four locks of two assets: no window admits more than the cap | 791k |
| `MCSettlement` | one intent from two corridors, with pauses, a token that is delisted and rewards the reserve may not cover: markers, record, deliveries and verdicts agree; exits stay open; every registration ends | 269k |
| `MCSettlementCaps` | four registrations: the window cap holds while the window changes length | 283k |
| `MCBridge` | timely messages: a confirmed fill is paid, never refunded, and `Bridge` implements `IntentLifecycle`; any latency, two intents: the chains tell one story (`ChainsAgree`) | 137k |
| `MCRelayer` | one message, any two faults between any two awaits: only what is final is relayed, nothing is let go of but in the named ways, everything final is resolved in the end | 83k |
| `MCSolver` | fills against rivals, timeouts, a crash and a stale balance; the caches; the quotes | 1.48M |
| `MCMempool` | four intents in a store for three, three reporters, a paging and a waiting client | 1.17M |
| `MCData` | the parts that keep to themselves: both nonce bitmaps refine the set that accepts each nonce once; the rules for intents; the text forms; start-up; rate limits; the timelock; settlement governance | 167k |

Every property has a mutant in `PROJECT.json`: a plausible bug in one mapped
definition under which TLC finds the property violated. The mutated operators
stand before the definitions they would replace, marked "(a mutant)", and are used
nowhere else.

Some properties join parts that belong together: `LocksAndPausesEnd`,
`ChainsAgree`, `ListingIsSound`, `VerdictsAddUp`, `RefundIsInReach`,
`NoncesAreKept`, `FormsAreFaithful`, `OneDeployment`, `MemoryIsSound`. Their parts
are defined and explained above each of them.

Two more configurations are kept for the liveness of a part whose run has none; they
pass and are not listed in `PROJECT.json`: `MCSolver_TickEnds` (every tick of the
solver ends, 618k) and `MCMempool_EveryBlockIsPassed` (the released watcher passes
every block).

### Bounds, and why they suffice

- *Two intents at most outside the cap runs.* Intents interact mostly through
  `totalLocked`, the balance, the window and the nonces: two show the pairwise effects. The
  proofs about `Escrow` and `Settlement` hold for any number. `MCSettlement` uses
  one intent announced from two endpoints, because the markers are per intent.
- *Four intents of two assets in the cap runs*: enough to fill a window, breach it
  and start the next, twice.
- *Nonces 1..3* for more messages than nonces, so that replays and collisions
  happen; the bitmaps take nine nonces over three or four words of three bits,
  with complete words, holes and pruning over several words.
- *Clocks of five to eight units* cover lock, deadline, dispatch window, grace and
  the time after. Caps: window lengths 2 and 3, aligned and not aligned.
- *Fill amounts* below, at and above the minimum.
- *Bridge.* Deadlines at 3 and 4, dispatch window 1; in the timely half
  latency 1, skew 1, grace 4.
- *Relayer.* Depth 1, three blocks, two attempts, two faults of any kind
  (reorganisation, end of the process, drain). The proofs lift all four bounds.
- *Solver.* Capital for one of two intents, one retry, one crash, one fill in flight
  when a tick begins; two units in which a fill is still in time, and three past them. Fills are followed to a second attempt or past a restart, not both.
  The memory has two hashes and caches of one entry; the hashes are symmetric, which
  is sound as the run checks no liveness.
- *Mempool.* A store of three for four intents, pages of one record, two blocks,
  one stop. One intent is followed to its settlement; the other three are symmetric.
- *Data.* An intent that is valid and every one with one field on, before or past a
  boundary; keys of two bytes with every slip of one character, swap or version;
  amounts from -25 to 120 with up to two decimals; a working environment with at most
  two settings changed.
- *Timelock.* Three owners, threshold two, four units, delay and grace of one. There is
  a play per setter: the operations that change the configuration are proposed by
  `a` and confirmed by `b`, who stay with their votes, while everybody votes on the
  operation that does not. `limits` raises the threshold to all owners and removes
  one. An owner leaves and comes back in `owners`.
- *Governance.* One chain, two peers, one nominee for both roles, an intent, five
  units: enough for two rotations of the peer in a row.

Deadlock checking is off in every run: the bounded clocks, faults and nonces stop
the model, where the code would go on. That parts of the system do not wait on each
other for ever is what the liveness properties say.

`MCEscrowCaps` and `MCSettlementCaps` state the cap for one configuration: a change
of the window starts the history afresh, and so does, on Stellar, the admin's reset
of a breaker that is not latched, which erases the bucket of the current window.

### Fairness

- `MCEscrow`: time passes; somebody calls `cancelExpired` for each lock and
  `decayGuardianPause`, which are open to anyone. The owner and the endpoint owe
  nothing.
- `Settlement`: time passes; some account calls `cancel_expired_intent`. The call
  traps while the reserve does not cover the keeper reward, so `RegisteredEnds`
  assumes that from some time on it does.
- `Bridge`: both chains go on, the endpoint executes what it carries, and
  somebody makes the refund call. No solver or keeper is obliged to act on
  Stellar, so nothing rests on their honesty or their presence.
- `Relayer`: the loop runs on, timers fire and calls return (weak); a poll or a
  file write that is tried again and again succeeds again and again (strong: the
  failure is another outcome of the same await). `FinalIsResolvedWithKeys` also
  assumes that from some time on every poll can read the nonces of the packets
  (`KeysStay`).
- `ReleasedWatcher`: the same, for `getLogs` and the report to the mempool.
- `Solver` (`MCSolver_TickEnds`): time passes and every call returns or times out,
  except the status read, which the wait for the registration repeats itself.

For the contracts weak fairness is enough: each of these steps stays enabled until
it is taken. `ConfirmedIsPaid` and the liveness of `IntentLifecycle`, which
`KeepsPromise` refines, also need the safety side: the clocks stay within the skew,
and a message to a live lock takes at most the latency. That is an assumption on
LayerZero, not something the code enforces, and half of the initial states of
`MCBridge` make do without it.

### Findings

Three runs show where the code departs from what its comments promise; the quoted
lines are in `PROJECT.json`.

- `MCBridge_MinimumGrace`: the dispatch window and the minimum grace are both 30
  minutes, so at the minimum no time is left for a confirmation to travel, and the
  refund overtakes a confirmation that was sent in time. With latency 1 and skew 1
  the smallest grace under which `ConfirmedNeverRefunded` holds is 4 units: grace 3,
  the sum of window, latency and skew, fails at the boundary.
- `MCRelayer_RollbackNeverAdvances`: after a shallow reorg the cursor of a relayer
  that lags moves forward, past blocks it has not relayed. The new cursor is not
  saved either, so that a restart after a rollback may load a checkpoint from ahead
  of it.
- `MCMempool_FilledKeepsPolling`: the SDK's parser does not know the status
  `filled`, so a client that waits for the settlement fails when it sees it.

More claims of the documentation are written down as properties that the code
refutes. They have no configuration of their own: put the property in
place of those of the run's configuration, with the constant given here changed.

| Run | Property | The claim, and what the code does |
|---|---|---|
| `MCBridge` | `NeverBoth` | "Either settled on Stellar or refunded on EVM, never both" (`docs/formal-specification.md:35`): a delivered fill that nobody dispatches in time is refunded too; the solver loses, not the user |
| `MCEscrow` | `GuardianPauseIsNotExtended` | a guardian pause auto-expires (`PerihelionEscrow.sol:488`): the guardian may call `pause` again and move the expiry |
| `MCEscrow` | `OwnerPauseHasNoExpiry` | an owner pause has no expiry (`PerihelionEscrow.sol:489`): the guardian's `pause` gives it one |
| `MCEscrow` | `GlobalMaximumEnforced`, `ConfiguredGlobalMax = 1` | `maxIntentAmount` is enforced at lock time (`PerihelionEscrow.sol:220`): it is read nowhere |
| `MCEscrow` | `RefundVerdictLasts` | a refundable verdict stays true (`refundStatus` in `sdk/src/escrow-client.ts`): the owner may raise the grace |
| `MCEscrowCaps` | `EveryLockFunded` | a transfer that delivers nothing is rejected (`PerihelionEscrow.sol:741`): a breached window returns before that check |
| `MCSettlement` | `PausedMovesNoFunds` | "a paused contract cannot move funds" (`lib.rs:669`): keeper rewards leave |
| `MCSettlement` | `RewardNeverBlocksDispatch` | a failed reward does not roll back the confirmation (`dispatch_confirmation`): a reserve that does not cover it traps |
| `MCSettlementCaps` | `AtMostOneBucket` | "at most one bucket exists" (`lib.rs:2073`): a longer window starts earlier and leaves a second one |
| `MCSettlementCaps` | `LatchStopsRegistration` | "While latched, every call fails" (`lib.rs:2038`): a window of length zero bypasses the latch |
| `MCRelayer` | `DrainedIsRetried` | after `drain()` delivery is attempted again (`dead-letter.ts:33`): the cursor is past the event |
| `MCRelayer` | `FinalIsResolved`, `HasEndpoint = FALSE` | the retry budget (`relayer.ts:115`): a message whose nonce is sometimes unread has two keys, and counts from zero |
| `MCSolver` | `GivesUpOnlyUnregistered`, `StatusDecoded = FALSE` | "not registered" (`executor.ts:394`): `readStatus` returns a Boolean where its signature promises the variant, which the wait never matches |
| `MCSolver` | `NeverOvercommitted` | a stale balance cannot over-commit (`solver.ts:348`): a fill that was given up on lands after the next tick has read the balance |
| `MCSolver` | `GasIsSpent`, `SpentGas = 2` | "Total gas spent" (`metrics.ts:50`): it sums estimates |
| `MCSolver` | `TickedIsReady` | ready after a tick that succeeded (`cli.ts:113`): the flag is never set |
| `MCMempool` | `NeverPartialSilently` | a listing is never silently partial (`client.ts`): the record at its cursor may leave its place |
| `MCMempool` | `TerminalIsFinal` | a terminal status does not change (`store.ts:17`): a resubmission starts the record anew |
| `MCMempool` | `SweptAfterGrace` | swept once the deadline has passed by the grace (`store.ts:142`): it is swept the grace before the deadline |
| `MCMempool` | `PassesOnlyReportedEver` | only reported ranges are passed (`released-watcher.ts:101`): `stop()` inside a range passes the rest |
| `MCData` | `ListedIsRegistrable` | "identical rules" (`validate.ts:218`): the mempool lists a signed intent without the deadline horizon that the settlement contract checks |
| `MCData` | `ListedIsReadable` | the same claim: the mempool lists the signature of a wallet, which may have any length, and the SDK refuses the page that has it |
| `MCData` | `PubnetNeedsOverride` | no endpoint impersonation on Pubnet without an override (`relayer/src/cli.ts:19`): other modes do the same delivery |
| `MCData` | `StartsOnlyInDevMode` | the mode "must be dev" (`relayer/README.md:73`): others start |
| `MCData` | `EmptyIsDefault` | an empty setting has its default (`docs/relayer-runbook.md:195`): a blank number is zero |
| `MCData` | `VotesAreForTheProposal` | a cancel leaves no stale flag (`PerihelionTimelock.sol:321`): those of a former owner stay, and count when he comes back and the operation is proposed again |
| `MCData` | `KilledByQuorum` | the quorum that runs a proposal is required to kill it (`PerihelionTimelock.sol:290`): votes of owners removed since count |
| `MCData` | `ExpiredIsProposable` | an expired operation must be re-proposed (`PerihelionTimelock.sol:33`): only after a quorum cancelled it |
| `MCData` | `CounterpartyIsSymmetric` | the counterparty of an endpoint id is symmetric (`lib.rs:456`): the verdict goes to the peer of the moment |
| `MCData` | `RolesAreSeparate` | admin and endpoint differ (`lib.rs:266`): `set_endpoint` and `accept_admin` do not look |
| `MCData` | `ChangesAreDelayed` | endpoint changes are time-locked (`docs/TECHNICAL-ARCHITECTURE.md:1593`): `set_endpoint` is not |

## 4. What is proved

All theorems hold for every value of the constants that satisfies the named
assumptions of the modules (`ClockAssumption`, `AdminAssumption`,
`EscrowAssumption`, `SettlementAssumption`, `BridgeAssumption`,
`RelayerAssumption`, `SolverAssumption`, `QuoteAssumption`, ...), which state
types, distinctness and the order of limits, and which TLC evaluates on every run
of a module that extends them. Sets of intents and accounts are finite where a sum or
a quorum ranges over them, and of any size.

- **`EscrowProofs`.** *Pauses.* `AdminTypesHold`; `GuardianPauseIsBounded`: a running
  guardian pause is in force, can be dismissed within one TTL, and began after
  the cooldown. The invariant is inductive with the types.
  *Locks.* `LocksArePaidOnce`: a lock is paid once, in full, exactly
  when it is finalized, to the solver or to the user. `LocksAreFinal`: no step
  relocks or alters a lock, and finalized locks stay. The argument goes
  through one lemma, `StepsTellStories`: every step either leaves `locks` and
  `payments` alone, creates one lock, or ends one live lock with one payment; the
  invariants follow for that intent, and are untouched for the others.
  *Money.* `AlwaysSolvent`: the balance covers `totalLocked`, with fees, donations and
  skims of any size. `LiabilityIsTrue`: `totalLocked` is the sum of the live locks of
  each asset: a step of a story reweighs one summand (`TotalOfChange`) and
  moves the counter by the same amount. `LiveLocksAreCovered` joins the two: the tokens
  of each live lock are there, so that the transfer of a release or refund cannot fail
  for want of them. `RefundsGoThrough` draws from it what `RefundIsInReach` says, with the
  conditions of `cancelExpired` in the place of its ENABLED: they hold for every live
  lock after the longest grace, and `refundStatus` of the SDK says "refundable" exactly
  when they hold. `CancelExpiredIsItsParts` splits the action into these conditions and
  one next value for each variable, which is what makes it enabled where they hold.
  *Window.* `WindowCapIsKept`: what was locked of an asset within the current window
  does not exceed its cap. The cap alone is not inductive, since the code reads a bucket
  that it memoizes and deletes. `WindowInv` adds that the bucket in
  use covers the locks of the window, that no lock is newer than the memoized
  window, and that a latched breaker cannot be reset before every lock has
  left the window: this last part is why erasing the bucket at the reset forgets nothing.
- **`SettlementProofs`.** `TypesHold`; `MarkersTellOneStory`: markers, record and
  status view agree. It is strengthened with `RegisteredHasSolver` in the types
  and stated per intent (`MarkersAgree`), because a handler touches one intent.
  `DeliversOnce`: the recipient is paid at most once, at least the
  minimum, in time, and never for a cancelled intent. `VerdictsAreFinal`:
  markers are never removed. `VerdictsAgree`: at most one verdict is posted per
  intent, to the corridor it came from, the one that its markers tell, and the reputation
  of an account counts the confirmed fills of its own. `VerdictsInv` says where the
  message of an intent stands; `CountsInv` is a cardinality.
  `ExitsGoThrough`: what `ExitsStayOpen` says, in the same way: the conditions of
  `cancel_expired_intent` and `dispatch_confirmation` hold whenever the status view and
  the clock promise it, whatever is paused, and the corridor and the solver that
  they address exist. The view reads markers and the entry points read the record, so
  it rests on `MarkersInv`.
  `WindowCapIsKept`: the cap of the settlement contract, along the lines of the escrow's, for a
  window that starts and ends, and whose latch may be left by a window of length zero.
- **`BridgeProofs`.** `ChainsAlwaysAgree` (`ChainsAgree`): whatever the network delays,
  reorders, repeats or loses, a lock is released only after the recipient got at least
  the minimum, to the solver of the record. `BridgeInv` relates the record on Stellar, the
  messages under way and the lock on the EVM side, intent by intent.
  `LifecycleIsImplemented`: every behaviour starts and moves as `IntentLifecycle` allows,
  so it is the safety part of `KeepsPromise`; each action is shown to map to one
  step of the abstract specification or to a stutter. It needs `TimingInv`: the clocks
  are within the skew, a message to a live lock is at most as old as the latency, each
  confirmation left by the end of the dispatch window, and a refund without a
  cancellation came after the grace. `ConfirmedIsNotRefunded`: when the timing satisfies
  `Timely` (the grace exceeds window, latency and skew together), a confirmed
  intent is never refunded. `MCBridge_MinimumGrace` is the other side of it: at
  the smallest grace that the escrow accepts the premise is false, and so is the conclusion.
- **`RelayerProofs`.** `RelayedStaysFinal`: while reorganisations stay within the
  depth, what was relayed stays on the chain. `RelayerInv` adds that whatever a
  tick still holds is final, and that a reorganisation leaves what is final alone.
  `NothingElseSkips`: the cursor rule. `CursorRuleInv` adds that an event is in one
  block, that cursor and checkpoint pass no block that is not there, and that every
  event of a confirmed block that the tick has read is still to do, open or
  resolved, which is what makes moving the cursor to the next open block right.
- **`SolverProofs`.** `CapitalIsCovered`: the account covers the fill at hand together with
  every fill that the tick gave up on and that may still land. A fill of an earlier
  tick may land after the balance was read, and then at most its own amount is missing;
  without that exception the claim is `NeverOvercommitted`, which TLC refutes.
  `CapitalInv` is the argument: the reading covers what is held and reserved, what is held
  covers what may still land, and what is left of the reading is left in the account
  but for the old fills that landed. `FillsInv` says which fills are old, and that none of
  this tick comes up again in it. `ReportsAreTrue`: what is reported as filled was delivered.
  `LocksAreNotAbandoned`: which steps may retire an intent that the solver holds a lock
  for; `HashInv` adds that an intent with a wrong hash was never locked.
  `RefusalsAreDurable`: an intent refused for good would not be
  filled at any later time, whatever the market does: the final gates do not depend
  on it, or only on the time, which moves one way. `FillsPay`: an accepted quote earns
  the margin in exact arithmetic, although every step of the computation truncates, for
  any prices, scales, fees and decimals. The lemmas on powers of ten
  (`TensRecur`, `TensMultiply`) let it scale the truncated bounds back.
  `CachesForgetSafely` (`MemoryIsSound`): what the bounded caches of the solver drop never
  costs it a wrong fill. `MemoryInv` says how long each entry must last: to the deadline
  of its intent, so that the failures of an intent are counted in its retry entry until no
  fill of it can start; as long as a refusal must hold; and a cached verdict is the one for
  its signature. An intent that a full cache pushes out starts anew, in the histories as well.
- **`ReleasedWatcherProofs`.** `StatusesAreTrue`: a settled or refunded or filled
  status, in the store or as an answer, is one that happened. `CursorRule`: the watcher's
  cursor passes no unreported release but through a stop, for the rest of one range, or the
  first scan. The
  invariant: every event of the range that is being handled is still to do or reported.
  `ListingsAreSound` (`ListingIsSound`): a listing that reports no error misses no record
  that was pending all along, unless the record at its cursor left its place. `StoreInv` says that the insertion orders of the store and
  of its index hold each record once; `ListingInv` that the record at the cursor
  stands in the index, and that every record the listing must find was read or stands
  behind it. Deleting, evicting and sweeping select from the index, a selection keeps the order
  (`SelectionKeepsOrder`), and what is stored comes last. `UnfinishedAreKept`
  (`UnfinishedIsKept`): an unfinished record makes room only in a full store without
  another finished one, and else goes only with the sweep, or with all the others at a
  restart.
- **`DataProofs`.** *Nonces.* `BitmapImplementsSet` and `PrunedBitmapImplementsSet`: for
  every word size and range, the bitmaps of the escrow and of the settlement contract, the
  latter with its pruning, implement `NonceSet`, under the refinement mapping that
  reads word and bit of each nonce. Pruning is right because the floor lies on a word
  boundary and every word below it was complete. `MarksAreTrue`: the high-water
  marks are the greatest nonces accepted.
  *Rules.* `BuiltIntentsPass` and `VerifiedIntentsPass`: what the
  builder accepts, escrow, settlement contract and mempool accept while its deadline
  is open; a signature that the SDK verifies, the escrow accepts, unless the account's code
  changed, the check could not see it, or the wallet needs more gas than it gets.
  *Services.* `ServicesAgree`: services that run with one environment serve one
  deployment. `RatesAreLimited`: no client passes more than the limit in any window, and
  none is refused below it; the sums are cardinalities of sets of stamped requests.
  *Governance.* `VerdictsGoHome`: after a rotation of the peer a verdict under way goes where its
  intent was announced, as long as the delays are observed.
  *Timelock.* `TimelockIsUsable`: the counters count the votes, threshold and delay stay
  within their bounds, and no stale flag is left but those of owners who came back.
  `ExecutionTakesQuorum`: what runs had the votes and served its delay.
  *Text forms.* `TextKeepsItsMeaning` (`FormsAreFaithful`), for keys of any length and
  amounts of any size. A strkey is a body and its CRC-16. `Apart` says that two
  registers differ after a number of bits, apart from bits that entered early with their
  byte; `StepBack` follows the difference one bit back. If the checksums agreed after two
  messages that differ in one burst of at most sixteen bits, there would be no difference
  anywhere back to the first bit of the burst, where there is one (`BurstChangesCrc`). A
  wrong character or two neighbours swapped are a burst of at most ten bits, but the low byte of
  the checksum is stored first, so one at the end of the body is not a burst for the
  checksum: `NineBitsShow` and `FourBitsShow` are the two ways in which
  two neighbours lie across the border. A character left out changes the length. That the two decoders agree
  needs that a version byte determines the first letter (`VersionHasLetter`). Amounts
  (`DigitsAreExact`): the digits that are kept are the fewest that divide the rest, so
  the last of them is not zero and nothing is lost. The invariant, `TextsAreKept`, says that what
  is typed is a written strkey with one mistake at most.

Three proofs corrected the model. `TimelockStaysUsable` had held only within the bounds of
its run: the flags of a removed owner count again once he is back and votes anew, which
`returned` now records. `RateHolds` was stated about sequences of times, in which equal
times cannot be told apart; the store's entries are now distinct requests. `CompleteListing`
had held only within the store size and the pages of its run: the note that the cursor's record left
its place was dropped with the next page, although what the listing passed over
then stays unread. The note is now kept until the listing ends.

Induction over data is done by hand: a claim about all numbers is proved from
its least counterexample (`LeastMissing`, from `WFMin` of the library), or along an initial
segment (`InductionTo`). `AggregateProofs` does so for sums (`TotalIsInt`,
`TotalsCompare`, `TotalOfChange`, `TotalCoversEach`), for selections
(`SelectionIsThinned`), which stand for the filters of the code, and for powers of ten
(`TensRecur`, `TensMultiply`); `DataProofs` for the checksum, whose registers are a
recursive function on the bits (`RegistersExist`); `RelayerProofs` for extrema. `10 ^ n`
has no theory in the prover, so `Tens` is a recursive function as well.

### Model-checked only

- Liveness (`LocksAndPausesEnd`, `RegisteredEnds`, `FinalIsResolvedWithKeys`, the fairness
  part of `KeepsPromise`, `TickEnds`, `EveryBlockIsPassed`): out of the prover's reach.
- The ENABLED of `RefundIsInReach` and `ExitsStayOpen`, for the same reason. That the
  conditions of the calls hold, and that nothing else stands in the way of a step, is
  proved (`RefundsGoThrough`, `ExitsGoThrough` and the lemmas on the parts of the
  actions); what TLC adds is that such a step exists. Every other invariant and every other
  property of a step that a passing run checks has a theorem.

## 5. Not modelled, and why

- *Contracts.* `preferred_solver` on Stellar, which the wire format never carries;
  the latency average in the reputation; endpoint fees on Stellar;
  `rollingWindowCap` of the escrow, deprecated and never read; `set_native_token` and
  `set_max_ttl`; entry lifetimes and archival on Stellar (the hazard at
  `lib.rs:2027`): the host archives entries by rules that are not in this repository.
- *Nonces* of the escrow are those of one corridor; the contract keeps a bitmap for each.
- *The bounded window of block hashes* of the relayer (`relayer.ts:723-733`), and the awaits
  between the log query and the headers of a poll (`evm-watcher.ts:288-345`): both are one step.
- *Time within a tick* of `SolverMemory` stands still, although the verifier and `evaluate`
  are awaited.
- *Timelock.* The ETH that a call forwards, and contracts that a call may re-enter:
  the only targets of the deployment are the escrow and the timelock.
- *Bridge* fixes the configuration of both contracts and has no caps, pauses or
  rewards; the rotation of peers is in `SettlementGovernance` and, for the escrow, in
  `Escrow`.
- *The return direction of the relayer* (`soroban-watcher.ts`, `evm-delivery.ts`):
  its watcher returns no head, so the cursor becomes NaN in the first tick and the
  loop does not run; there is no behaviour to be faithful to. `Bridge` lets its
  messages be late, reordered or lost.
- *The relayer's and solver's health servers, logging, metrics text, SDK errors,
  deployments and generated ABI, deployment scripts and CI*: they carry no protocol
  state. `getEvents` of the return watcher is unpaginated and belongs to that direction.
- *Wire codecs and intent hashing*: byte layouts. The model has the decoded
  messages, takes the hash as injective, and `IntentRules` has what the decoders accept.
- *HTTP parsing of the mempool*: it only restricts which calls arrive.

## 6. Plan

The two contracts, their composition, governance on both chains and every service
that runs are modelled. What is left, in order:

1. `SettlementGovernance` composed with `Settlement` and `Bridge`: a rotation on
   both chains under open intents, with the messages that the new peer refuses.
2. `Timelock` as the owner in `Escrow`, for how long a pause or a change can take.
3. The return direction of the relayer, once its watcher reports a head.
