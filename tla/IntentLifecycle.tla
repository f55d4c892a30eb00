-------------------------- MODULE IntentLifecycle ---------------------------
(* What the bridge promises for an intent while messages are timely: the     *)
(* source chain pays the solver after the delivery on Stellar was confirmed, *)
(* or gives the user the money back, and never both; a locked intent ends.   *)
CONSTANT Intents

VARIABLES
    source,       \* "Open", "Locked", "Released" or "Refunded"
    destination   \* "Unknown", "Registered", "Delivered", "Confirmed" or "Abandoned"

vars == <<source, destination>>

Init ==
    /\ source = [h \in Intents |-> "Open"]
    /\ destination = [h \in Intents |-> "Unknown"]

Lock(h) ==
    /\ source[h] = "Open"
    /\ source' = [source EXCEPT ![h] = "Locked"]
    /\ UNCHANGED destination

(* Stellar may learn of an intent after it ended on the source chain.        *)
Register(h) ==
    /\ source[h] # "Open"
    /\ destination[h] = "Unknown"
    /\ destination' = [destination EXCEPT ![h] = "Registered"]
    /\ UNCHANGED source

Deliver(h) ==
    /\ destination[h] = "Registered"
    /\ \E outcome \in {"Delivered", "Confirmed"} :
          /\ outcome = "Confirmed" => source[h] = "Locked"
          /\ destination' = [destination EXCEPT ![h] = outcome]
    /\ UNCHANGED source

Confirm(h) ==
    /\ source[h] = "Locked"
    /\ destination[h] = "Delivered"
    /\ destination' = [destination EXCEPT ![h] = "Confirmed"]
    /\ UNCHANGED source

Abandon(h) ==
    /\ destination[h] = "Registered"
    /\ destination' = [destination EXCEPT ![h] = "Abandoned"]
    /\ UNCHANGED source

Release(h) ==
    /\ source[h] = "Locked"
    /\ destination[h] = "Confirmed"
    /\ source' = [source EXCEPT ![h] = "Released"]
    /\ UNCHANGED destination

Refund(h) ==
    /\ source[h] = "Locked"
    /\ destination[h] # "Confirmed"
    /\ source' = [source EXCEPT ![h] = "Refunded"]
    /\ UNCHANGED destination

Next ==
    \E h \in Intents :
        \/ Lock(h) \/ Release(h) \/ Refund(h)
        \/ Register(h) \/ Deliver(h) \/ Confirm(h) \/ Abandon(h)

(* Every locked intent is eventually ended, one way or the other.            *)
Spec ==
    /\ Init
    /\ [][Next]_vars
    /\ \A h \in Intents : WF_vars(Release(h) \/ Refund(h))
=============================================================================
