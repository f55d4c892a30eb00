----------------------------- MODULE RateLimit -----------------------------
(***************************************************************************)
(* The mempool's rate limits (src/mempool/src/server.ts): reads and writes  *)
(* of each client draw on budgets of their own in a sliding window.         *)
(***************************************************************************)
EXTENDS Integers, FiniteSets

CONSTANTS
    Clients,
    ReadLimit, WriteLimit, Window,
    LastRequestTime, MaxRequests  \* bounds: the clock, the requests

ASSUME RateLimitAssumption ==
    /\ {ReadLimit, WriteLimit, LastRequestTime, MaxRequests} \subseteq Nat
    /\ Window \in Nat \ {0}

VARIABLES
    clock,
    hits,      \* rateLimitHits: of each key, the requests that passed and still count
    passed,    \* history: of each key, all that passed
    rejected   \* history: of each key, when a request was last refused, or -1

rateVars == <<clock, hits, passed, rejected>>

Buckets == {"read", "write"} \X Clients
Limit(key) == IF key[1] = "read" THEN ReadLimit ELSE WriteLimit

\* A request: when it passed, and which of its key's it was.
Requests == [at : Nat, nth : Nat]

\* A request counts for one instant too long (a mutant).
RecentInclusive(key) == {r \in hits[key] : clock - r.at <= Window}

Recent(key) == {r \in hits[key] : clock - r.at < Window}

Request(key) ==
    LET request == [at |-> clock, nth |-> Cardinality(passed[key])] IN
    /\ request.nth < MaxRequests
    /\ IF Cardinality(Recent(key)) >= Limit(key)
       THEN /\ rejected' = [rejected EXCEPT ![key] = clock]
            /\ UNCHANGED <<hits, passed>>
       ELSE /\ hits' = [hits EXCEPT ![key] = Recent(key) \cup {request}]
            /\ passed' = [passed EXCEPT ![key] = @ \cup {request}]
            /\ UNCHANGED rejected
    /\ UNCHANGED clock

RateTick ==
    /\ clock < LastRequestTime
    /\ clock' = clock + 1
    /\ UNCHANGED <<hits, passed, rejected>>

RateInit ==
    /\ clock = 0
    /\ hits = [key \in Buckets |-> {}] /\ passed = [key \in Buckets |-> {}]
    /\ rejected = [key \in Buckets |-> -1]

RateNext == RateTick \/ \E key \in Buckets : Request(key)

RateSpec == RateInit /\ [][RateNext]_rateVars

-----------------------------------------------------------------------------
(* Properties *)

PassedIn(key, from, to) == {r \in passed[key] : r.at \in from .. to}

\* rateLimit: no window, wherever it starts, has more requests than the limit; a refused
\* request does not extend the ban, and is refused only when its own client used up this
\* very budget in the window before it.
RateHolds ==
    \A key \in Buckets :
        /\ \A t \in 0 .. clock : Cardinality(PassedIn(key, t, t + Window - 1)) <= Limit(key)
        /\ rejected[key] >= 0 =>
               Cardinality(PassedIn(key, rejected[key] - Window + 1, rejected[key])) >= Limit(key)

=============================================================================
