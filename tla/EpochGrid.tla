------------------------------- MODULE EpochGrid -------------------------------
(***************************************************************************)
(* The arithmetic of a subject's grid: the instants a + k*d.  gridClose    *)
(* computes both closes in SQL with floor and ceil of exact numerics; here *)
(* an instant is an integer number of the clock's smallest units.          *)
(***************************************************************************)
EXTENDS Integers

OnGrid(t, a, d) == (t - a) % d = 0

(* ceil(x / y) for y > 0 is -floor(-x / y): k is the least with            *)
(* a + k*d >= p + d/2.                                                     *)
FirstClose(p, a, d) == a - ((2 * (a - p) - d) \div (2 * d)) * d

(* The first grid instant strictly after t.                                *)
SlotAfter(t, a, d) == a + ((t - a) \div d + 1) * d

(* Mutant: N's own close is not looked at.                                 *)
TurnoverClose_fromNow(p, n, a, d) == SlotAfter(p, a, d)

(* The close of N+1: the slot after N's close n, or, when the present p    *)
(* has reached that slot, the slot after p.                                *)
TurnoverClose(p, n, a, d) ==
  IF SlotAfter(n, a, d) <= p THEN SlotAfter(p, a, d) ELSE SlotAfter(n, a, d)
===============================================================================
