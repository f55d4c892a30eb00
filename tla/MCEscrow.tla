------------------------------ MODULE MCEscrow ------------------------------
(* Values for the constants of Escrow that are functions of the intents: a   *)
(* fee-on-transfer token with two intents of different deadlines.  The       *)
(* initial state chooses a scenario, which bounds who moves:                 *)
(*   messages  both intents, with the owner and the guardian idle;           *)
(*   owner     one intent, while alice governs everything;                   *)
(*   roles     no intent: alice and bob hand the roles over and pause.       *)
EXTENDS EscrowClient

CONSTANTS h1, h2, usdc, s1, s2, stellar, alice, Scenarios

VARIABLE scenario

mcVars == <<scenario, vars>>

MCAsset == [h \in Intents |-> usdc]
MCAmount == [h \in Intents |-> IF h = h1 THEN 2 ELSE 3]
MCMinDest == [h \in Intents |-> 1]
MCDeadline == [h \in Intents |-> IF h = h1 THEN 3 ELSE 2]
MCPreferred == [h \in Intents |-> IF h = h1 THEN s1 ELSE NoSolver]
MCFee == [a \in {usdc} |-> 1]
MCMax == [a \in {usdc} |-> 3]
MCNoCap == [a \in {usdc} |-> 0]
MCCap == [a \in {usdc} |-> 3]

\* What the trusted peer may send: confirmations by either solver, one of them
\* under the minimum, and cancels, under few nonces so that they collide.
MCMessages ==
    [type : {"FillConfirmed"}, hash : Intents, solverEvm : {s1, s2}, fillAmount : {0, 1}]
        \cup [type : {"CancelIntent"}, hash : Intents]

MCInit == Init /\ scenario \in Scenarios

MessagesStep ==
    /\ scenario = "messages"
    /\ \/ \E h \in Intents, s \in Solvers, v \in CallValues : Lock(h, s, v)
       \/ Receive
       \/ \E h \in Intents : CancelExpired(h)
       \/ \E a \in Assets : Donate(a)
       \/ Tick

GovernedStep ==
    /\ scenario = "owner"
    /\ Next
    /\ consumed' \subseteq {1}
    /\ \A h \in Intents \ {h1} : locks'[h] = locks[h]
    /\ {owner', pendingOwner', guardian'} \subseteq {alice, NoAccount}

RolesStep ==
    /\ scenario = "roles"
    /\ \/ AdminStep /\ UNCHANGED <<capVars, NonEscrowVars>>
       \/ Tick

MCNext == UNCHANGED scenario /\ (MessagesStep \/ GovernedStep \/ RolesStep)

MCSpec ==
    /\ MCInit /\ [][MCNext]_mcVars
    /\ WF_mcVars(Tick /\ UNCHANGED scenario)
    /\ \A h \in Intents : WF_mcVars(CancelExpired(h) /\ UNCHANGED scenario)
    /\ WF_mcVars(DecayGuardianPause /\ UNCHANGED <<capVars, NonEscrowVars, scenario>>)
=============================================================================
