------------------------------- MODULE FencedJob -------------------------------
(***************************************************************************)
(* What the queue promises of one job, whoever works on it: it is taken    *)
(* under ever new tokens, only the last token records anything, and once   *)
(* it is finished nothing is recorded any more.                            *)
(***************************************************************************)
EXTENDS Naturals, Sequences

CONSTANTS
  Notes,    \* what an attempt may record on its way
  Run       \* the entry that ends an attempt

VARIABLES
  token,    \* the number of times the job was taken
  phase,    \* "waiting", "held", "finished" or "dropped"
  record    \* what was recorded, with the token it was recorded under

fvars == <<token, phase, record>>

Begin == token = 0 /\ phase = "waiting" /\ record = <<>>

Take ==
  /\ phase = "waiting" /\ phase' = "held"
  /\ token' = token + 1
  /\ UNCHANGED record

(* Something is recorded at most once under one token.                     *)
Fresh(what) == \A i \in DOMAIN record : record[i] # [attempt |-> token, what |-> what]

Put(what) == Fresh(what) /\ record' = Append(record, [attempt |-> token, what |-> what])

Note ==
  /\ phase = "held"
  /\ \E n \in Notes : Put(n)
  /\ UNCHANGED <<token, phase>>

(* The holder ends its attempt, for good or to be taken again.             *)
End ==
  /\ phase = "held" /\ phase' \in {"waiting", "finished"}
  /\ Put(Run)
  /\ UNCHANGED token

(* The job is taken away from its holder, or called off: nothing is said.  *)
TakeAway ==
  /\ \/ phase = "held" /\ phase' \in {"waiting", "dropped"}
     \/ phase = "waiting" /\ phase' = "dropped"
  /\ UNCHANGED <<token, record>>

Step == Take \/ Note \/ End \/ TakeAway

FencedSpec == Begin /\ [][Step]_fvars
===============================================================================
