----------------------------- MODULE MCTakeIntake -----------------------------
(***************************************************************************)
(* TakeIntake for TLC.  Nothing distinguishes members, nonces, contents or *)
(* requests but which take a request carries, so the instance starts from  *)
(* one assignment of takes of each class that renaming gives; permutations *)
(* of the requests are a symmetry of its steps as well.                    *)
(***************************************************************************)
EXTENDS TakeIntake, TLC

CONSTANTS m1, m2, n1, n2, n3, b1, b2, r1, r2, r3

TwoMembers    == {m1, m2}
ThreeNonces   == {n1, n2, n3}
TwoTexts      == {b1, b2}
ThreeRequests == {r1, r2, r3}

Renamings(f) ==
  {[r \in Request |-> [member |-> m[f[q[r]].member],
                       nonce  |-> n[f[q[r]].nonce],
                       bytes  |-> b[f[q[r]].bytes]]] :
     m \in Permutations(Member), n \in Permutations(Nonce),
     b \in Permutations(Bytes), q \in Permutations(Request)}

OneOfEach == {CHOOSE g \in Renamings(f) : TRUE : f \in [Request -> Take]}

UpToNames == Init /\ sent \in OneOfEach

SpecUpToNames == UpToNames /\ [][Next]_vars

Requests == Permutations(ThreeRequests)
===============================================================================
