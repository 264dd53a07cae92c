---------------------------- MODULE MCBoundaryClock ----------------------------
(* BoundaryClock for TLC.                                                  *)
EXTENDS BoundaryClock

CONSTANTS s1, s2, s3, r1, r2, k1, k2

Sessions == {s1, s2, s3}
Requests == {r1, r2}
Tasks    == {k1, k2}
TwoSessions == {s1, s2}
NoAnchor == {}
===============================================================================
