---------------------------- MODULE MCEscrowCaps ----------------------------
(* The rolling-window cap while the owner changes it: two assets, and four   *)
(* intents that together exceed what one window admits.                      *)
EXTENDS EscrowWindow

CONSTANTS h1, h2, h3, h4, usdc, eurc, s1, stellar

MCIntents == {h1, h2, h3, h4}
MCAssets == {usdc, eurc}
MCAsset == [h \in MCIntents |-> IF h = h4 THEN eurc ELSE usdc]
MCAmount == [h \in MCIntents |-> 2]
MCMinDest == [h \in MCIntents |-> 1]
MCDeadline == [h \in MCIntents |-> 7]
MCPreferred == [h \in MCIntents |-> NoSolver]
MCFee == [a \in MCAssets |-> 0]
MCMax == [a \in MCAssets |-> 2]
MCCap == [a \in MCAssets |-> 3]
MCMessages == [type : {"CancelIntent"}, hash : {h1}]
=============================================================================
