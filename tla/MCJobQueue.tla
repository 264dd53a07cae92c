------------------------------ MODULE MCJobQueue ------------------------------
(* JobQueue for TLC.                                                       *)
EXTENDS JobQueue

CONSTANTS j1, w1, w2, c1, c2

OneJob   == {j1}
Workers  == {w1, w2}
TwoCalls == {c1, c2}

(* A first attempt makes every write, a later one only some of them.       *)
FewerLater(a) == IF a = 1 THEN 2 ELSE IF a = 2 THEN 1 ELSE 0
===============================================================================
