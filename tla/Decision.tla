------------------------------- MODULE Decision -------------------------------
(***************************************************************************)
(* What the settlement of a closed epoch promises, without its mechanism:  *)
(* judges answer until the deadline passes, no outcome is judged before    *)
(* the deadline is due, the winner is one of the on-time answers, and once *)
(* there is an outcome nothing changes it.  A session an older version     *)
(* left judged starts over: its answer was taken as the consensus when it  *)
(* arrived, and no deadline opens its judging again.                       *)
(***************************************************************************)
CONSTANTS Judge, None

VARIABLES
  phase,    \* of the judging deadline: "unasked", "open", "due" or "over"
  onTime,   \* judges whose answer was accepted in time
  outcome,  \* None until decided
  winner    \* the judge whose answer was drawn; None with any other outcome

vars == <<phase, onTime, outcome, winner>>

(* A session an older version left judged may hold its one answer already. *)
Init ==
  /\ phase \in {"unasked", "over"}
  /\ onTime \in SUBSET Judge
  /\ phase = "unasked" => onTime = {}
  /\ outcome = None /\ winner = None

Ask   == phase = "unasked" /\ outcome = None /\ phase' = "open"
Reach == phase = "open" /\ phase' = "due"
Pass  == phase = "due" /\ phase' = "over"

Answer(j) ==
  /\ phase \in {"open", "due"} /\ outcome = None
  /\ j \notin onTime
  /\ onTime' = onTime \cup {j}
  /\ UNCHANGED <<phase, outcome, winner>>

Decide(o, w) ==
  /\ outcome = None
  /\ outcome' = o /\ winner' = w
  /\ UNCHANGED <<phase, onTime>>

NotJudged   == phase = "unasked" /\ Decide("not_judged", None)
NoConsensus == phase \in {"due", "over"} /\ Decide("no_consensus", None)
Judged(j)   == phase \in {"due", "over"} /\ j \in onTime /\ Decide("judged", j)

Next ==
  \/ (Ask \/ Reach \/ Pass) /\ UNCHANGED <<onTime, outcome, winner>>
  \/ NotJudged \/ NoConsensus
  \/ \E j \in Judge : Answer(j) \/ Judged(j)

Spec == Init /\ [][Next]_vars
===============================================================================
