------------------------------- MODULE MCData -------------------------------
(* The parts of the system that keep to themselves, side by side: the        *)
(* initial state chooses the part that moves, and the others stay where they *)
(* start.                                                                    *)
EXTENDS EscrowNonces, IntentRules, Encodings, Startup, RateLimit, Timelock,
        SettlementGovernance

CONSTANTS Parts

VARIABLE part

-----------------------------------------------------------------------------
(* IntentRules: a valid intent, and each way in which one field of it is not. *)

ValidIntent ==
    [user |-> "user", destination |-> "account", chain |-> 1, sourceAsset |-> "allowed",
     amount |-> 2, destAsset |-> "native", min |-> 1, deadline |-> 2, nonce |-> 0,
     preferred |-> "zero",
     signature |-> [length |-> 65, lowS |-> TRUE, knownV |-> TRUE, byUser |-> TRUE,
                    wallet |-> "refuses"]]

MCCandidates ==
    {ValidIntent}
        \cup {[ValidIntent EXCEPT !.min = n] : n \in {-1, 0, 3, 4, 7, 10}}
        \cup {[ValidIntent EXCEPT !.amount = n] : n \in {-1, 0, 6, 7, 10}}
        \cup {[ValidIntent EXCEPT !.nonce = n] : n \in {-1, 9, 10}}
        \cup {[ValidIntent EXCEPT !.deadline = n] : n \in {0, 3, 4}}
        \cup {[ValidIntent EXCEPT !.chain = n] : n \in {0, 2}}
        \cup {[ValidIntent EXCEPT !.destination = s] : s \in {"contract", "empty", "long", "garbled"}}
        \cup {[ValidIntent EXCEPT !.destAsset = s] :
                  s \in {"contract", "classic", "empty", "long", "garbled"}}
        \cup {[ValidIntent EXCEPT !.sourceAsset = s] : s \in {"malformed", "unlisted"}}
        \cup {[ValidIntent EXCEPT !.user = "malformed"],
              [ValidIntent EXCEPT !.preferred = "malformed"],
              [ValidIntent EXCEPT !.signature.length = 64],
              [ValidIntent EXCEPT !.signature.length = 64, !.signature.wallet = "accepts"],
              [ValidIntent EXCEPT !.signature.lowS = FALSE],
              [ValidIntent EXCEPT !.signature.knownV = FALSE],
              [ValidIntent EXCEPT !.signature.byUser = FALSE],
              [ValidIntent EXCEPT !.signature.wallet = "accepts"],
              [ValidIntent EXCEPT !.signature.byUser = FALSE, !.signature.wallet = "accepts"],
              [ValidIntent EXCEPT !.signature.wallet = "costly"]}

-----------------------------------------------------------------------------
(* Encodings: keys of two bytes.                                             *)

MCKeys == {[k \in 1 .. 16 |-> IF k \in ones THEN 1 ELSE 0] : ones \in {{}, {1, 4, 9, 11, 12}}}
MCAmounts == -25 .. 120

-----------------------------------------------------------------------------
(* Startup: a deployment that works, with at most two settings changed.      *)

Deployment ==
    [s \in Settings |->
        CASE s \in {"PERIHELION_SETTLEMENT_CONTRACT", "PERIHELION_STELLAR_RPC_URL",
                    "PERIHELION_SOLVER_MODE", "PERIHELION_ALLOW_ENDPOINT_IMPERSONATION",
                    "PERIHELION_ALLOW_PUBNET_DEV_RELAYER"} -> "unset"
          [] s = "PERIHELION_SOURCE_CHAIN_ID" -> 1
          [] s \in {"PERIHELION_CONFIRMATIONS", "PERIHELION_MIN_MARGIN_BPS"} -> UnsetNumber
          [] s = "PERIHELION_RELAYER_MODE" -> "dev"
          [] s = "STELLAR_NETWORK" -> "testnet"
          [] OTHER -> "a"]

SettingValues(s) ==
    CASE s = "PERIHELION_SOURCE_CHAIN_ID" -> {UnsetNumber, BlankNumber, NotANumber, 0, 2}
      [] s = "PERIHELION_CONFIRMATIONS" -> {BlankNumber, NotANumber, 0, 9}
      [] s = "PERIHELION_MIN_MARGIN_BPS" -> {BlankNumber, NotANumber, 0, 10000, 10001}
      [] s = "PERIHELION_SOLVER_MODE" -> {"watch", "junk", "blank"}
      [] s = "PERIHELION_RELAYER_MODE" -> {"unset", "blank", "executor", "junk"}
      [] s = "STELLAR_NETWORK" -> {"unset", "pubnet", "public"}
      [] s \in {"PERIHELION_ALLOW_ENDPOINT_IMPERSONATION",
                "PERIHELION_ALLOW_PUBNET_DEV_RELAYER"} -> {"true"}
      [] s = "PERIHELION_ESCROW_ADDRESS" -> {"unset", "junk", "zero", "b"}
      [] OTHER -> {"unset", "blank", "spaces", "junk", "a", "b"}

EditsOf(e) == UNION {{[e EXCEPT ![s] = v] : v \in SettingValues(s)} : s \in Settings}
MCEnvironments == UNION {EditsOf(e) : e \in {Deployment} \cup EditsOf(Deployment)}

-----------------------------------------------------------------------------
(* Timelock: the operations of each play.  Those on the configuration are    *)
(* proposed by "a" and confirmed by "b", who withdraw no vote once it is     *)
(* ready; on "use", a call to the escrow, everybody votes.                   *)

Plays ==
    [p \in {"timelock: owners", "timelock: threshold", "timelock: delay", "timelock: limits"} |->
        CASE p = "timelock: owners"    -> {"use", "drop", "back"}
          [] p = "timelock: threshold" -> {"use", "lower"}
          [] p = "timelock: delay"     -> {"use", "lengthen"}
          [] p = "timelock: limits"    -> {"raise", "drop"}]

MCOperations == UNION {Plays[p] : p \in DOMAIN Plays}
MCCall ==
    [id \in MCOperations |->
        CASE id = "use"      -> [fn |-> "escrow"]
          [] id = "drop"     -> [fn |-> "removeOwner", owner |-> "c"]
          [] id = "back"     -> [fn |-> "addOwner", owner |-> "c"]
          [] id = "lower"    -> [fn |-> "setThreshold", value |-> 1]
          [] id = "raise"    -> [fn |-> "setThreshold", value |-> 3]
          [] id = "lengthen" -> [fn |-> "setDelay", value |-> 2]]

WithinPlay ==
    /\ part = "timelock: owners" => timelockTime <= 3 /\ proposedAt["back"] \in {0, 1}
    /\ \A id \in MCOperations : operations[id].exists => id \in Plays[part]
    /\ \A id \in MCOperations \ {"use"} :
          /\ cancelConfirmedBy[id] = {}
          /\ threshold = 3 \/ "c" \notin confirmedBy[id]
          /\ operations[id].readyAt # 0 => {"a", "b"} \subseteq confirmedBy[id]
          /\ operations[id].exists => "a" \in confirmedBy[id]

-----------------------------------------------------------------------------
(* SettlementGovernance: "next" is the address that is nominated for both    *)
(* roles.                                                                    *)

OneNominee ==
    /\ pendingAdmin \subseteq {"next"} /\ endpoint # "admin"
    /\ \A change \in pendingEndpoint : change.to = "next"

-----------------------------------------------------------------------------
mcVars == <<part, vars, words, floor, paused, ruleVars, encVars, startupVars, rateVars,
            timelockVars, governanceVars>>

MCInit ==
    /\ part \in Parts
    /\ part # "rules" => intent = ValidIntent
    /\ part # "startup" => env = Deployment
    /\ Init /\ Bitmap!Init /\ IntentInit /\ EncInit /\ StartupInit /\ RateInit
    /\ TimelockInit /\ GovernanceInit

MCNext ==
    /\ UNCHANGED part
    /\ IF part = "escrow nonces" THEN Next ELSE UNCHANGED vars
    /\ IF part = "settlement nonces" THEN Bitmap!Next ELSE UNCHANGED <<words, floor, paused>>
    /\ IF part = "rules" THEN IntentNext ELSE UNCHANGED ruleVars
    /\ IF part = "encodings" THEN EncNext ELSE UNCHANGED encVars
    /\ IF part = "startup" THEN StartupNext ELSE UNCHANGED startupVars
    /\ IF part = "rate limit" THEN RateNext ELSE UNCHANGED rateVars
    /\ IF part \in DOMAIN Plays THEN TimelockNext /\ WithinPlay' ELSE UNCHANGED timelockVars
    /\ IF part = "governance" THEN GovernanceNext /\ OneNominee'
                              ELSE UNCHANGED governanceVars

MCSpec == MCInit /\ [][MCNext]_mcVars

=============================================================================
