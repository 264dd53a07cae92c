------------------------------- MODULE JudgeDraw -------------------------------
(***************************************************************************)
(* The rule 'rejection-u32-v1' by which finalize picks one position of the *)
(* candidate list from random words.  A word is below 2^32; the quotient   *)
(* is a double, whose rounding never reaches the next integer here, so the *)
(* floor is that of the exact quotient.                                    *)
(***************************************************************************)
EXTENDS Integers, Sequences

CONSTANTS
  Words,         \* TWO_POW_32: the number of values a random word can have
  MaxRejections  \* MAX_REJECTIONS

ASSUME WordsAssumption == Words \in Nat \ {0} /\ MaxRejections \in Nat \ {0}

Word   == 0 .. Words - 1
NoPick == -1   \* null: the rule rejects the value

(* The values at or above this are rejected for a list of n.               *)
RejectionLimit(n) == (Words \div n) * n

(* The position, from 0, that a value picks from a list of n.              *)
RecomputeDrawnIndex(v, n) ==
  IF n < 1 \/ v \notin Word \/ v >= RejectionLimit(n) THEN NoPick ELSE v % n

(* The first value that is not rejected, and its position; the source is   *)
(* called broken when none of the first MaxRejections is.                  *)
DrawIndex(source, n) ==
  LET picks == {i \in 1 .. MaxRejections : RecomputeDrawnIndex(source[i], n) # NoPick}
  IN IF picks = {} THEN [randomValue |-> NoPick, drawnIndex |-> NoPick]
     ELSE LET i == CHOOSE k \in picks : \A l \in picks : k <= l
          IN [randomValue |-> source[i], drawnIndex |-> RecomputeDrawnIndex(source[i], n)]
===============================================================================
