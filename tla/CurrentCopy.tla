------------------------------ MODULE CurrentCopy ------------------------------
(***************************************************************************)
(* What the stream contract promises a clock that asks "am I current?"     *)
(* before it acts: its copy is a prefix of the API's changes that only     *)
(* grows, by the next event while it is current or by a full read while it *)
(* is not; and after any doubt only a full read makes it current again.    *)
(***************************************************************************)
EXTENDS Naturals

VARIABLES
  head,     \* changes the API committed
  copy,     \* how many of them the clock's copy reflects
  fresh,    \* a full read replaced the copy since the last doubt
  current   \* the clock may act

vars == <<head, copy, fresh, current>>

Init ==
  /\ head \in Nat /\ copy = 0
  /\ fresh = FALSE /\ current = FALSE

Change  == head' = head + 1 /\ UNCHANGED <<copy, fresh, current>>

Apply   == /\ current /\ copy < head
           /\ copy' = copy + 1
           /\ UNCHANGED <<head, fresh, current>>

Doubt   == fresh' = FALSE /\ current' = FALSE /\ UNCHANGED <<head, copy>>

Replace == /\ ~current
           /\ copy' \in copy .. head
           /\ fresh' = TRUE
           /\ UNCHANGED <<head, current>>

Declare == fresh /\ current' = TRUE /\ UNCHANGED <<head, copy, fresh>>

Next == Change \/ Apply \/ Doubt \/ Replace \/ Declare

Spec == Init /\ [][Next]_vars
===============================================================================
