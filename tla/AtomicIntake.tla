----------------------------- MODULE AtomicIntake -----------------------------
(***************************************************************************)
(* What the take API promises its callers, without statements and locks:   *)
(* a submission is admitted while its member is expected, and then it is   *)
(* answered at one instant, with the answer that is right at that instant; *)
(* an accepted take is on file from that instant on.                       *)
(***************************************************************************)
EXTENDS Naturals, Sequences

CONSTANTS Member, Nonce, Bytes, Request, Cap, Close

VARIABLES
  window,   \* "collecting" until the boundary
  seat,     \* per member: "expected" until it is excused
  file,     \* per member, its takes in the order of acceptance
  absent,   \* members recorded absent
  sent,     \* per request, the take it carries
  verdict,  \* per request: "pending", "admitted", its answer, or "dead"
  now       \* the database clock

vars == <<window, seat, file, absent, sent, verdict, now>>

Unanswered == {"pending", "admitted"}

OnFile(m, n) == \E i \in DOMAIN file[m] : file[m][i].nonce = n
SignedAs(t)  == \E i \in DOMAIN file[t.member] :
                  file[t.member][i].nonce = t.nonce /\ file[t.member][i].bytes = t.bytes

Init ==
  /\ window = "collecting"
  /\ seat \in [Member -> {"none", "expected"}]
  /\ file = [m \in Member |-> <<>>] /\ absent = {}
  /\ sent \in [Request -> [member : Member, nonce : Nonce, bytes : Bytes]]
  /\ verdict = [r \in Request |-> "pending"]
  /\ now = 0

Says(r, v) == verdict' = [verdict EXCEPT ![r] = v]

Admit(r) ==
  /\ verdict[r] = "pending" /\ seat[sent[r].member] = "expected"
  /\ Says(r, "admitted")
  /\ UNCHANGED <<window, seat, file, absent, sent, now>>

(* A new take, in an open window with room under the cap; its instant is   *)
(* before the close and in the order of the member's takes.                *)
Accept(r) ==
  LET m == sent[r].member
  IN /\ verdict[r] = "admitted"
     /\ window = "collecting" /\ Len(file[m]) < Cap /\ ~OnFile(m, sent[r].nonce)
     /\ \E t \in 0 .. now :
          /\ t < Close /\ \A i \in DOMAIN file[m] : file[m][i].at <= t
          /\ file' = [file EXCEPT ![m] =
               Append(@, [nonce |-> sent[r].nonce, bytes |-> sent[r].bytes, at |-> t])]
     /\ Says(r, "accepted")
     /\ UNCHANGED <<window, seat, absent, sent, now>>

(* A nonce on file is answered by the bytes on file.                       *)
Refer(r) ==
  /\ verdict[r] \in Unanswered /\ OnFile(sent[r].member, sent[r].nonce)
  /\ Says(r, IF SignedAs(sent[r]) THEN "recorded" ELSE "replayed")
  /\ UNCHANGED <<window, seat, file, absent, sent, now>>

(* Every refusal is true when it is given.                                 *)
Refuse(r, why) ==
  LET m == sent[r].member
  IN /\ verdict[r] \in Unanswered
     /\ why = "late"     => window # "collecting" \/ now >= Close
     /\ why = "unseated" => verdict[r] = "pending" /\ seat[m] # "expected"
     /\ why = "capped"   => verdict[r] = "admitted" /\ Len(file[m]) >= Cap
     /\ Says(r, why)
     /\ UNCHANGED <<window, seat, file, absent, sent, now>>

(* The request dies, and leaves nothing.                                   *)
Drop(r) ==
  /\ verdict[r] \in Unanswered /\ Says(r, "dead")
  /\ UNCHANGED <<window, seat, file, absent, sent, now>>

(* The boundary: who is expected and filed nothing is absent, unless the   *)
(* absences as a whole are lost.                                           *)
Shut ==
  /\ window = "collecting" /\ window' = "window_closed"
  /\ absent' \in {{}, {m \in Member : seat[m] = "expected" /\ file[m] = <<>>}}
  /\ UNCHANGED <<seat, file, sent, verdict, now>>

Excuse(m) ==
  /\ seat[m] = "expected" /\ seat' = [seat EXCEPT ![m] = "excused"]
  /\ UNCHANGED <<window, file, absent, sent, verdict, now>>

Tick ==
  /\ now' = now + 1
  /\ UNCHANGED <<window, seat, file, absent, sent, verdict>>

Answer(r) ==
  \/ Admit(r) \/ Accept(r) \/ Refer(r) \/ Drop(r)
  \/ \E why \in {"late", "unseated", "capped"} : Refuse(r, why)

Next ==
  \/ \E r \in Request : Answer(r)
  \/ \E m \in Member : Excuse(m)
  \/ Shut \/ Tick

Spec == Init /\ [][Next]_vars
===============================================================================
