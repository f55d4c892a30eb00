---------------------------- MODULE MCSettlement ----------------------------
(* Values for the constants of Settlement that depend on the intents, and    *)
(* the messages that arrive: FillInstructions that name the same or another  *)
(* solver, re-deliveries under new nonces, and cancels that may come first.  *)
EXTENDS Settlement

CONSTANTS h1, usdc, evm, other, e1, e2

MCMinDest == [h \in Intents |-> 2]
MCDeadline == [h \in Intents |-> 3]
MCDestAsset == [h \in Intents |-> usdc]

Instruction(h, s, w) ==
    [type |-> "FillInstruction", hash |-> h, solver |-> s, window |-> w]

MCInbound ==
    [eid : Eids, nonce : {1, 2},
     message : {Instruction(h, e1, w) : h \in Intents, w \in {0, 2}}
                   \cup {CancelIntent(h) : h \in Intents}]
=============================================================================
