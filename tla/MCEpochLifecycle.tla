--------------------------- MODULE MCEpochLifecycle ---------------------------
(* EpochLifecycle for TLC.                                                 *)
EXTENDS EpochLifecycle, TLC

CONSTANTS s1, s2, s3, c1, c2

Sessions == {s1, s2, s3}
Openers  == {c1, c2}
SomeAnchors == {1, -2}

Symmetry == Permutations(Sessions) \cup Permutations(Openers)
===============================================================================
