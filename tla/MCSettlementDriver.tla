--------------------------- MODULE MCSettlementDriver ---------------------------
(* SettlementDriver for TLC.                                               *)
EXTENDS SettlementDriver

CONSTANTS j1, r1, r2, c1, c2

OneJudge == {j1}
Requests == {r1, r2}
Chains   == {c1, c2}
Skews    == {-1, 1}
===============================================================================
