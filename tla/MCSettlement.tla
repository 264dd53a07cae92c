----------------------------- MODULE MCSettlement -----------------------------
(***************************************************************************)
(* Settlement for TLC: model values for judges and requests; and the draw  *)
(* by which it picks a winner, against what is asked of it, on short words.*)
(***************************************************************************)
EXTENDS Settlement, JudgeDraw, FiniteSets, TLC

CONSTANTS j1, j2, r1

Judges == {j1, j2}
OneRequest  == {r1}

Picking(k, n) == {v \in Word : RecomputeDrawnIndex(v, n) = k}

(* Every position of every list is picked by as many values as any other,  *)
(* nothing but a position is picked, and no list that fits in a word has   *)
(* half of the values rejected.                                            *)
ASSUME DrawIsEven ==
  \A n \in 1 .. Words :
    /\ \A k \in 0 .. n - 1 : Cardinality(Picking(k, n)) = Words \div n
    /\ \A v \in Word : RecomputeDrawnIndex(v, n) \in 0 .. n - 1 \cup {NoPick}
    /\ 2 * Cardinality(Picking(NoPick, n)) < Words

(* A rejected value is redrawn, never folded in, and the value stored      *)
(* recomputes to the position stored.                                      *)
ASSUME DrawIsReplayable ==
  \A n \in 1 .. Words : \A source \in [1 .. MaxRejections -> Word] :
    LET draw == DrawIndex(source, n)
    IN /\ draw.drawnIndex = RecomputeDrawnIndex(draw.randomValue, n)
       /\ draw.drawnIndex = NoPick <=> \A i \in DOMAIN source : source[i] \in Picking(NoPick, n)
===============================================================================
