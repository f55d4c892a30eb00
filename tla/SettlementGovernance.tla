------------------------ MODULE SettlementGovernance ------------------------
(***************************************************************************)
(* Who the settlement contract (src/contracts/soroban/settlement/src/      *)
(* lib.rs) listens to and answers: the admin, the endpoint and the peers,  *)
(* how they are changed, and which of them an intent meets between its     *)
(* registration and its verdict.  A call that returns an error is rolled   *)
(* back, what it removed included, and is no step.                         *)
(***************************************************************************)
EXTENDS Integers

CONSTANTS
    Principals,            \* addresses: admins and endpoints
    FirstAdmin, FirstEndpoint,
    Chains,                \* endpoint ids
    Peers, NoPeer,         \* escrow addresses
    OpenIntents,           \* intent hashes
    MinPeerChangeDelay, MaxPeerChangeDelay, PeerChangeGrace,
    Delays,                \* what an admin may ask for
    LastGovernanceTime     \* bound: the clock

ASSUME GovernanceAssumption ==
    /\ {FirstAdmin, FirstEndpoint} \subseteq Principals /\ FirstAdmin # FirstEndpoint
    /\ NoPeer \notin Peers
    /\ {MinPeerChangeDelay, MaxPeerChangeDelay, PeerChangeGrace, LastGovernanceTime}
           \subseteq Nat
    /\ Delays \subseteq Nat

VARIABLES
    governanceTime,
    admin, pendingAdmin,         \* pendingAdmin: at most one nominee
    endpoint, pendingEndpoint,   \* pendingEndpoint: at most one [to, since]
    peer, pendingPeer,           \* pendingPeer[e]: at most one [to, since, delay]
    announced,                   \* per intent, whom its registration met
    verdict                      \* per intent, whom its verdict went to

roles == <<admin, pendingAdmin>>
endpoints == <<endpoint, pendingEndpoint>>
peers == <<peer, pendingPeer>>
intents == <<announced, verdict>>
governanceVars == <<governanceTime, roles, endpoints, peers, intents>>

Absent == [at |-> 0]
Registered(h) == announced[h] # Absent
Answered(h) == verdict[h] # Absent

-----------------------------------------------------------------------------
(* Admin: each call is authorised by the admin of the moment.                *)

SetAdmin(a) ==
    /\ pendingAdmin' = {a}
    /\ UNCHANGED <<governanceTime, admin, endpoints, peers, intents>>

AcceptAdmin(a) ==
    /\ a \in pendingAdmin
    /\ admin' = a /\ pendingAdmin' = {}
    /\ UNCHANGED <<governanceTime, endpoints, peers, intents>>

\* set_endpoint: at once, and a pending change stays pending.  The history notes the
\* intents that were under way.
SetEndpoint(p) ==
    /\ endpoint' = p
    /\ announced' = [h \in OpenIntents |->
                        IF Registered(h) THEN [announced[h] EXCEPT !.rotated = TRUE]
                                         ELSE announced[h]]
    /\ UNCHANGED <<governanceTime, roles, pendingEndpoint, peers, verdict>>

\* A second proposal replaces the first and starts the delay again.
ProposeEndpoint(p) ==
    /\ pendingEndpoint' = {[to |-> p, since |-> governanceTime]}
    /\ UNCHANGED <<governanceTime, roles, endpoint, peers, intents>>

ConfirmEndpoint ==
    \E change \in pendingEndpoint :
        LET ready == change.since + MinPeerChangeDelay
        IN /\ governanceTime \in ready .. ready + PeerChangeGrace
           /\ change.to # admin
           /\ endpoint' = change.to /\ pendingEndpoint' = {}
           /\ UNCHANGED <<governanceTime, roles, peers, intents>>

CancelPendingEndpoint ==
    /\ pendingEndpoint' = {}
    /\ UNCHANGED <<governanceTime, roles, endpoint, peers, intents>>

\* The delay is bounded above only (a mutant).
AnyDelay == {d \in Delays : d <= MaxPeerChangeDelay}

ValidDelays == {d \in Delays : d \in MinPeerChangeDelay .. MaxPeerChangeDelay}

\* A pending change has to be cancelled first, an expired one too.
ProposePeer(e, p, d) ==
    /\ d \in ValidDelays
    /\ pendingPeer[e] = {}
    /\ pendingPeer' = [pendingPeer EXCEPT
                          ![e] = {[to |-> p, since |-> governanceTime, delay |-> d]}]
    /\ UNCHANGED <<governanceTime, roles, endpoints, peer, intents>>

ConfirmPeer(e) ==
    \E change \in pendingPeer[e] :
        LET ready == change.since + change.delay
        IN /\ governanceTime \in ready .. ready + PeerChangeGrace
           /\ peer' = [peer EXCEPT ![e] = change.to]
           /\ pendingPeer' = [pendingPeer EXCEPT ![e] = {}]
           /\ UNCHANGED <<governanceTime, roles, endpoints, intents>>

CancelPendingPeer(e) ==
    /\ pendingPeer' = [pendingPeer EXCEPT ![e] = {}]
    /\ UNCHANGED <<governanceTime, roles, endpoints, peer, intents>>

-----------------------------------------------------------------------------
(* An intent, as far as it meets the configuration.                          *)

\* authorize_inbound: a FillInstruction of the peer, through the endpoint.
RegisterFrom(h, e) ==
    /\ ~Registered(h)
    /\ peer[e] # NoPeer
    /\ announced' = [announced EXCEPT ![h] =
           [at |-> governanceTime, chain |-> e, peer |-> peer[e], endpoint |-> endpoint,
            quiet |-> pendingPeer[e] = {} /\ pendingEndpoint = {}, rotated |-> FALSE]]
    /\ UNCHANGED <<governanceTime, roles, endpoints, peers, verdict>>

\* dispatch: the verdict, a FillConfirmed or a CancelIntent, goes to whoever is the peer
\* by then.
Dispatch(h) ==
    /\ Registered(h) /\ ~Answered(h)
    /\ peer[announced[h].chain] # NoPeer
    /\ verdict' = [verdict EXCEPT ![h] =
           [at |-> governanceTime, peer |-> peer[announced[h].chain], endpoint |-> endpoint]]
    /\ UNCHANGED <<governanceTime, roles, endpoints, peers, announced>>

GovernanceTick ==
    /\ governanceTime < LastGovernanceTime
    /\ governanceTime' = governanceTime + 1
    /\ UNCHANGED <<roles, endpoints, peers, intents>>

-----------------------------------------------------------------------------
GovernanceInit ==
    /\ governanceTime = 1
    /\ admin = FirstAdmin /\ pendingAdmin = {}
    /\ endpoint = FirstEndpoint /\ pendingEndpoint = {}
    /\ peer = [e \in Chains |-> NoPeer] /\ pendingPeer = [e \in Chains |-> {}]
    /\ announced = [h \in OpenIntents |-> Absent] /\ verdict = [h \in OpenIntents |-> Absent]

GovernanceNext ==
    \/ GovernanceTick
    \/ \E a \in Principals :
          SetAdmin(a) \/ AcceptAdmin(a) \/ SetEndpoint(a) \/ ProposeEndpoint(a)
    \/ ConfirmEndpoint \/ CancelPendingEndpoint
    \/ \E e \in Chains :
          \/ \E p \in Peers, d \in Delays : ProposePeer(e, p, d)
          \/ ConfirmPeer(e) \/ CancelPendingPeer(e)
    \/ \E h \in OpenIntents : Dispatch(h) \/ \E e \in Chains : RegisterFrom(h, e)

GovernanceSpec == GovernanceInit /\ [][GovernanceNext]_governanceVars

-----------------------------------------------------------------------------
(* Properties *)

\* propose_peer and propose_endpoint, lib.rs:311-475: a rotation is announced
\* MIN_PEER_CHANGE_DELAY ahead, so the verdict of an intent that was registered while no
\* change was pending, and answered within that delay, goes to the peer that announced it,
\* through the endpoint that brought it, unless set_endpoint was called in between.
VerdictGoesHome ==
    \A h \in OpenIntents :
        /\ Answered(h) /\ announced[h].quiet
        /\ verdict[h].at - announced[h].at < MinPeerChangeDelay
        => /\ verdict[h].peer = announced[h].peer
           /\ announced[h].rotated \/ verdict[h].endpoint = announced[h].endpoint

\* What lib.rs:453-457 says of the peer, that the trusted counterparty of an endpoint id is
\* symmetric: the verdict goes to the peer that announced the intent.
CounterpartyIsSymmetric ==
    \A h \in OpenIntents : Answered(h) => verdict[h].peer = announced[h].peer

\* What lib.rs:266 calls the role separation invariant.
RolesAreSeparate == admin # endpoint

\* What docs/TECHNICAL-ARCHITECTURE.md:1593 says, "endpoint/peer changes time-locked".
ChangesAreDelayed ==
    [][endpoint' # endpoint =>
          \E change \in pendingEndpoint :
              governanceTime >= change.since + MinPeerChangeDelay]_governanceVars
=============================================================================
