------------------------------ MODULE Mempool ------------------------------
(***************************************************************************)
(* The mempool server (src/mempool/src) and the client that reads it       *)
(* (src/sdk/src/client.ts).  A record is its hash and its status: the      *)
(* other fields never change once it is stored.  The server runs one       *)
(* handler at a time; a submission awaits the check of its signature, and  *)
(* a listing is one request per page, so other handlers run in between.    *)
(***************************************************************************)
EXTENDS Integers, Sequences, SequencesExt, FiniteSetsExt, Aggregates

CONSTANTS
    Hashes,
    Deadline,     \* of each intent
    MaxSize,      \* maxStoreSize
    ExpiryGrace,  \* expiryGraceMs
    PageSize,     \* limit of a listing
    MaxPages,     \* maxPages of a listing
    MaxTime       \* bound: the clock

None == "none"

ASSUME MempoolAssumption ==
    /\ None \notin Hashes
    /\ Deadline \in [Hashes -> Nat]
    /\ {MaxSize, PageSize, MaxPages} \subseteq Nat \ {0}
    /\ {ExpiryGrace, MaxTime} \subseteq Nat

VARIABLES
    time,
    order,      \* the keys of `records` in insertion order
    status,     \* the status of each stored record
    pending,    \* byStatus.get("pending"), in insertion order
    verifying,  \* submissions that await the check of their signature
    listing,    \* one call of listPending
    polling     \* a call of waitForSettlement per intent, and its outcome

store   == <<order, status, pending>>
mempool == <<time, store, verifying, listing, polling>>

Statuses == {"pending", "filled", "settled", "refunded", "expired"}
\* The statuses that parseIntentRecord accepts.
MempoolStatuses == {"pending", "settled", "refunded", "expired"}
Terminal == {"settled", "refunded", "expired"}
Stored(h) == status[h] # None

-----------------------------------------------------------------------------
(* The store: IntentStore *)

Drop(seq, h) == Selected(seq, Hashes \ {h})

\* A store as a record, so that delete, evictOne and set compose.
Contents == [order |-> order, status |-> status, pending |-> pending]

Delete(s, h) ==
    [order |-> Drop(s.order, h),
     status |-> [s.status EXCEPT ![h] = None],
     pending |-> Drop(s.pending, h)]

\* The oldest, whatever its status (a mutant).
EvictOldest(s) == Delete(s, Head(s.order))

\* evictOne: the oldest record in a terminal status, or else the oldest.
EvictOne(s) ==
    LET terminal == Selected(s.order, {h \in Hashes : s.status[h] \in Terminal})
    IN Delete(s, Head(IF terminal = <<>> THEN s.order ELSE terminal))

\* set: a record that is stored again moves to the end.
Set(s, h) ==
    LET without == Delete(s, h)
        room == IF Len(without.order) >= MaxSize THEN EvictOne(without) ELSE without
    IN [order |-> Append(room.order, h),
        status |-> [room.status EXCEPT ![h] = "pending"],
        pending |-> Append(room.pending, h)]

\* updateStatus: refused for an unknown record and out of a terminal status.
Updatable(h) == Stored(h) /\ status[h] \notin Terminal

Updated(s, h, to) ==
    [order |-> s.order,
     status |-> [s.status EXCEPT ![h] = to],
     pending |-> IF to = "pending" THEN Append(Drop(s.pending, h), h)
                                   ELSE Drop(s.pending, h)]

\* isExpired as evictExpired calls it: with a clock that is `expiryGraceMs` ahead.
Sweepable(h) == Stored(h) /\ Deadline[h] <= time + ExpiryGrace

Swept(s) ==
    LET kept == {h \in Hashes : ~Sweepable(h)}
    IN [order |-> Selected(s.order, kept),
        status |-> [h \in Hashes |-> IF h \in kept THEN s.status[h] ELSE None],
        pending |-> Selected(s.pending, kept)]

\* What the running listing may rely on: the records that have been pending since it
\* began, and whether a record at its cursor has left its place.
Watch(s, replaced) ==
    [listing EXCEPT
        !.steady = @ \cap ToSet(s.pending),
        !.moved = @ \/ (listing.cursor # None /\
                           (listing.cursor = replaced \/ ~Contains(s.pending, listing.cursor)))]

Become(s, replaced) ==
    /\ order' = s.order /\ status' = s.status /\ pending' = s.pending
    /\ listing' = Watch(s, replaced)

-----------------------------------------------------------------------------
(* The handlers: MempoolServer *)

\* handleSubmitIntent up to its await: the intent parses and has not expired.
Submit(h) ==
    /\ time < Deadline[h]
    /\ verifying' = verifying \cup {h}
    /\ UNCHANGED <<time, store, listing, polling>>

\* The rest of it: an invalid signature is refused, any other record is stored as
\* pending, whatever is stored under its hash.
Verified(h) ==
    /\ h \in verifying
    /\ verifying' = verifying \ {h}
    /\ Become(Set(Contents, h), h)
    /\ UNCHANGED <<time, polling>>

Refused(h) ==
    /\ h \in verifying
    /\ verifying' = verifying \ {h}
    /\ UNCHANGED <<time, store, listing, polling>>

\* handleUpdateStatus: "404" also answers a report on a terminal record.
Report(h, to) ==
    /\ IF Updatable(h) THEN Become(Updated(Contents, h, to), None)
                       ELSE UNCHANGED <<store, listing>>
    /\ UNCHANGED <<time, verifying, polling>>

\* The sweep timer.
Sweep ==
    /\ \E h \in Hashes : Sweepable(h)
    /\ Become(Swept(Contents), None)
    /\ UNCHANGED <<time, verifying, polling>>

\* The server is restarted: everything was in memory.
ServerRestarts ==
    /\ order # <<>>
    /\ Become([order |-> <<>>, status |-> [h \in Hashes |-> None], pending |-> <<>>], None)
    /\ verifying' = {}
    /\ UNCHANGED <<time, polling>>

Tick ==
    /\ time < MaxTime
    /\ time' = time + 1
    /\ UNCHANGED <<store, verifying, listing, polling>>

-----------------------------------------------------------------------------
(* The client: PerihelionClient *)

Position(h) == CHOOSE n \in DOMAIN pending : pending[n] = h

\* The record after the cursor is passed over (a mutant).
AfterNext(cursor) ==
    IF cursor = None THEN pending
    ELSE IF Contains(pending, cursor)
    THEN SubSeq(pending, Position(cursor) + 2, Len(pending))
    ELSE <<>>

\* list: what follows the cursor in the index, and the cursor of the next page.
After(cursor) ==
    IF cursor = None THEN pending
    ELSE IF Contains(pending, cursor)
    THEN SubSeq(pending, Position(cursor) + 1, Len(pending))
    ELSE <<>>
Page(cursor) == SubSeq(After(cursor), 1, Min({PageSize, Len(After(cursor))}))
NextCursor(cursor) ==
    IF Len(After(cursor)) > PageSize THEN After(cursor)[PageSize] ELSE None

NoListing == [on |-> FALSE, result |-> None, cursor |-> None, cursors |-> {},
              pages |-> 0, got |-> {}, steady |-> {}, moved |-> FALSE]

StartListing ==
    /\ ~listing.on
    /\ listing' = [NoListing EXCEPT !.on = TRUE, !.steady = ToSet(pending)]
    /\ UNCHANGED <<time, store, verifying, polling>>

\* One page of listPending: the server refuses a cursor it does not know; a cursor that
\* repeats and a page too many are errors that carry what was fetched.
ListPage ==
    LET cursor == listing.cursor
        next == NextCursor(cursor)
        End(r) == [listing EXCEPT !.on = FALSE, !.result = r,
                                  !.got = @ \cup ToSet(Page(cursor))]
    IN /\ listing.on
       /\ IF cursor # None /\ ~Stored(cursor) THEN listing' = End("error")
          ELSE IF next = None THEN listing' = End("complete")
          ELSE IF next \in listing.cursors \/ listing.pages + 1 >= MaxPages
          THEN listing' = End("error")
          ELSE listing' = [listing EXCEPT
                  !.got = @ \cup ToSet(Page(cursor)), !.cursor = next,
                  !.cursors = @ \cup {next}, !.pages = @ + 1]
       /\ UNCHANGED <<time, store, verifying, polling>>

\* A page that cannot be fetched ends the listing with an error.
ListingFails ==
    /\ listing.on
    /\ listing' = [listing EXCEPT !.on = FALSE, !.result = "error"]
    /\ UNCHANGED <<time, store, verifying, polling>>

\* fetchWithRetry: the answer to one of its attempts, the failure of the last one, or a
\* timeout, which is not retried.
FetchWithRetry(answer) == {answer, "failed", "timeout"}

\* getIntent: an unknown record, one that parseIntentRecord refuses, for its list of
\* statuses has no "filled", or the status.
GetIntent(h) ==
    LET Parsed(answer) == IF answer \in Statuses \ MempoolStatuses THEN "error" ELSE answer
    IN {Parsed(a) : a \in FetchWithRetry(IF Stored(h) THEN status[h] ELSE "404")}

\* waitForSettlement: polls until a terminal status, or until a call of getIntent throws.
WaitForSettlement(h) ==
    /\ polling[h] = None
    /\ polling' = [polling EXCEPT ![h] = "polling"]
    /\ UNCHANGED <<time, store, verifying, listing>>

PollEnds(h) ==
    /\ polling[h] = "polling"
    /\ \E outcome \in GetIntent(h) \ {"pending"} :
          polling' = [polling EXCEPT ![h] = outcome]
    /\ UNCHANGED <<time, store, verifying, listing>>

-----------------------------------------------------------------------------
MempoolInit ==
    /\ time = 0
    /\ order = <<>> /\ status = [h \in Hashes |-> None] /\ pending = <<>>
    /\ verifying = {} /\ listing = NoListing
    /\ polling = [h \in Hashes |-> None]

MempoolNext ==
    \/ Tick \/ Sweep \/ ServerRestarts \/ StartListing \/ ListPage \/ ListingFails
    \/ \E h \in Hashes :
          Submit(h) \/ Verified(h) \/ Refused(h) \/ WaitForSettlement(h) \/ PollEnds(h)

-----------------------------------------------------------------------------
(* Properties *)

\* The store is bounded, and its index lists exactly the pending records, each once
\* (IntentStore.set, updateStatus and delete keep the two maps together).
MempoolTypeOK ==
    /\ time \in 0 .. MaxTime
    /\ status \in [Hashes -> Statuses \cup {None}]
    /\ Len(order) <= MaxSize
    /\ IsInjective(order) /\ ToSet(order) = {h \in Hashes : Stored(h)}
    /\ IsInjective(pending) /\ ToSet(pending) = {h \in Hashes : status[h] = "pending"}
    /\ verifying \subseteq Hashes

\* listPending, client.ts:414-440: a listing that reports no error holds every record that
\* was pending all along, unless a record at its cursor left its place meanwhile.
CompleteListing ==
    listing.result = "complete" /\ ~listing.moved => listing.steady \subseteq listing.got

\* What client.ts says without that exception: it "never returns a partial result
\* silently".
NeverPartialSilently == listing.result = "complete" => listing.steady \subseteq listing.got

\* An unfinished record makes room only for a submission that finds the store full and no
\* other record finished (evictOne, store.ts:86-102); it is dropped otherwise only by the
\* sweep or by a restart of the server, which leaves the store empty.
UnfinishedIsKept ==
    [][\A h \in Hashes :
          Updatable(h) /\ ~Stored(h)' =>
             \/ Sweepable(h) \/ order' = <<>>
             \/ \E g \in verifying : /\ Len(order) = MaxSize /\ g \notin verifying'
                                     /\ \A k \in Hashes \ {g} : status[k] \notin Terminal]_mempool

\* What store.ts:17 says: a terminal status does not change.
TerminalIsFinal ==
    [][\A h \in Hashes : status[h] \in Terminal => status'[h] \in {status[h], None}]_mempool

\* What client.ts:446-450 says of waitForSettlement: "Polling continues through `filled`".
FilledKeepsPolling == \A h \in Hashes : polling[h] # "error"

\* What store.ts:142 says: a record is swept once its deadline has passed by more than
\* the grace period.
SweptAfterGrace ==
    [][Sweep => \A h \in Hashes :
          Stored(h) /\ ~Stored(h)' => time > Deadline[h] + ExpiryGrace]_mempool

=============================================================================
