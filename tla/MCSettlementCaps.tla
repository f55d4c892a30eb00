-------------------------- MODULE MCSettlementCaps --------------------------
(* The settlement contract's caps with a history of when each intent was     *)
(* registered: four intents that together exceed what one window admits.    *)
EXTENDS SettlementWindow

CONSTANTS h1, h2, h3, h4, xlm, evm, e1

MCMinDest == [h \in Intents |-> IF h = h3 THEN 1 ELSE 2]
MCDeadline == [h \in Intents |-> 8]
MCDestAsset == [h \in Intents |-> xlm]
MCNonce(h) == CASE h = h1 -> 1 [] h = h2 -> 2 [] h = h3 -> 3 [] OTHER -> 4

MCInbound ==
    {[eid |-> evm, nonce |-> MCNonce(h),
      message |-> [type |-> "FillInstruction", hash |-> h, solver |-> e1, window |-> 0]]
        : h \in Intents}
=============================================================================
