------------------------------ MODULE Settlement ------------------------------
(***************************************************************************)
(* The settlement of ONE closed epoch by the API: aggregate, request       *)
(* judging, judges' answers, the draw, publication.  The state is one row  *)
(* of swarm_sessions and its rows of swarm_session_judgements.             *)
(*                                                                         *)
(* request-judging, finalize and a judge's submission each hold the        *)
(* session row FOR UPDATE for their whole transaction, so each is one      *)
(* action.  Aggregation is not: it reads the state outside any             *)
(* transaction and later writes the row by its id alone, so it is two      *)
(* actions, and Request is the set of aggregate requests that may be       *)
(* running in the API at the same time.                                    *)
(***************************************************************************)
EXTENDS Integers

CONSTANTS
  Request,          \* aggregate requests that may overlap in the API
  Judge,            \* members holding the judge role
  None,             \* SQL NULL
  JudgingDuration,  \* judging_duration_seconds captured at turnover
  MaxTime           \* bound: the last instant the clock reaches

ASSUME JudgingAssumption == JudgingDuration \in Nat \ {0} /\ MaxTime \in Nat

Outcome == {"judged", "no_consensus", "not_judged"}

ASSUME NoneAssumption ==
  None \notin Int /\ None \notin Judge /\ None \notin Outcome

VARIABLES
  state,        \* swarm_sessions.state
  mode,         \* judge_mode captured at turnover; None before capture existed
  deadline,     \* judging_deadline_at
  consensusAt,  \* consensus_recorded_at
  outcome,      \* judging_outcome
  publishedAt,  \* published_at
  carried,      \* the judge swarm_recommendation->'judge' names
  reason,       \* per judge, applied_skipped_reason of its row ("none": no row)
  acceptedAt,   \* per judge, created_at of its row
  eligible,     \* active judges that pass the third-party gate and hold no take
  aggregating,  \* aggregate requests that have read 'window_closed'
  kept,         \* history: judges that have been eligible all along
  reported,     \* history: the outcomes finalize has answered
  now           \* the database clock

row    == <<state, mode, deadline, consensusAt, outcome, publishedAt, carried>>
judged == <<reason, acceptedAt>>
vars   == <<row, judged, eligible, kept, aggregating, reported, now>>

Reason  == {"none", "applied", "awaiting_draw", "after_deadline",
            "late_evidence", "consensus_already_recorded"}

TypeOK ==
  /\ state \in {"window_closed", "aggregated", "judging", "judged", "published"}
  /\ mode \in {"off", "enforce", None}
  /\ deadline \in Int \cup {None}
  /\ consensusAt \in Int \cup {None}
  /\ outcome \in Outcome \cup {None}
  /\ publishedAt \in Int \cup {None}
  /\ carried \in Judge \cup {None}
  /\ reason \in [Judge -> Reason]
  /\ acceptedAt \in [Judge -> Int \cup {None}]
  /\ eligible \in SUBSET Judge
  /\ aggregating \in SUBSET Request
  /\ kept \in SUBSET Judge
  /\ reported \in SUBSET Outcome
  /\ now \in Int

-------------------------------------------------------------------------------
(* A turnover closed the epoch and captured the judge mode.                *)
InitCaptured ==
  /\ state = "window_closed" /\ mode \in {"off", "enforce"}
  /\ deadline = None /\ consensusAt = None /\ carried = None
  /\ reason = [j \in Judge |-> "none"]
  /\ acceptedAt = [j \in Judge |-> None]

(* A row closed before capture existed holds neither mode nor duration.    *)
InitUncaptured ==
  /\ state = "window_closed" /\ mode = None
  /\ deadline = None /\ consensusAt = None /\ carried = None
  /\ reason = [j \in Judge |-> "none"]
  /\ acceptedAt = [j \in Judge |-> None]

(* A session an older version left `judged`: it recorded a consensus when  *)
(* the answer arrived, on time or not.                                     *)
InitLegacyJudged ==
  /\ state = "judged" /\ mode = "enforce"
  /\ deadline \in -1 .. JudgingDuration
  /\ consensusAt = 0
  /\ \E w \in Judge :
       /\ carried = w
       /\ reason = [j \in Judge |-> IF j = w THEN "applied" ELSE "none"]
       /\ acceptedAt = [j \in Judge |-> IF j = w THEN 0 ELSE None]

Init ==
  /\ InitCaptured \/ InitUncaptured \/ InitLegacyJudged
  /\ outcome = None /\ publishedAt = None
  /\ eligible = Judge /\ kept = Judge
  /\ aggregating = {} /\ reported = {} /\ now = 0

-------------------------------------------------------------------------------
(* aggregateEpoch's guard: the state, read outside a transaction.  In any  *)
(* later state the request is answered without a write.                    *)
AggregateRead(r) ==
  /\ r \notin aggregating
  /\ state = "window_closed"
  /\ aggregating' = aggregating \cup {r}
  /\ UNCHANGED <<row, judged, eligible, kept, reported, now>>

(* aggregateSession's UPDATE ... WHERE id: it replaces the recommendation  *)
(* whole, the judge named in it included, whatever the state is by now.    *)
AggregateWrite(r) ==
  /\ r \in aggregating
  /\ state' = "aggregated"
  /\ carried' = None
  /\ aggregating' = aggregating \ {r}
  /\ UNCHANGED <<mode, deadline, consensusAt, outcome, publishedAt,
                 judged, eligible, kept, reported, now>>

(* The request dies between its read and its write.                        *)
AggregateFail(r) ==
  /\ r \in aggregating
  /\ aggregating' = aggregating \ {r}
  /\ UNCHANGED <<row, judged, eligible, kept, reported, now>>

judgingCaptured == mode \in {"off", "enforce"}

(* Mutant: a repeated request computes a fresh deadline.                   *)
RequestJudging_restarts ==
  /\ judgingCaptured /\ mode # "off"
  /\ state \in {"aggregated", "judging"}
  /\ state' = "judging"
  /\ deadline' = now + JudgingDuration
  /\ UNCHANGED <<mode, consensusAt, outcome, publishedAt, carried,
                 judged, eligible, kept, aggregating, reported, now>>

(* requestJudging's transition.  With a deadline on the row the request is *)
(* answered with that stored instant and writes nothing.                   *)
RequestJudging ==
  /\ judgingCaptured /\ mode # "off"
  /\ deadline = None
  /\ state = "aggregated"
  /\ state' = "judging"
  /\ deadline' = now + JudgingDuration
  /\ UNCHANGED <<mode, consensusAt, outcome, publishedAt, carried,
                 judged, eligible, kept, aggregating, reported, now>>

(* Mutant: the answer's own time is not compared with the deadline.        *)
SkipReason_noClock ==
  IF state = "published" THEN "late_evidence"
  ELSE IF state # "judging" \/ consensusAt # None
       THEN "consensus_already_recorded"
       ELSE "awaiting_draw"

(* submitJudgement's classification of an accepted answer.                 *)
SkipReason ==
  IF state = "published" THEN "late_evidence"
  ELSE IF state # "judging" \/ consensusAt # None
       THEN "consensus_already_recorded"
       ELSE IF now > deadline THEN "after_deadline" ELSE "awaiting_draw"

(* The states in which a judge's answer is taken at all.                   *)
Answerable ==
  /\ mode # "off" /\ deadline # None
  /\ state \in {"judging", "judged", "published"}

(* A second answer of the same judge is answered from the row on file.     *)
SubmitJudgement(j) ==
  /\ Answerable
  /\ reason[j] = "none"
  /\ j \in eligible
  /\ reason' = [reason EXCEPT ![j] = SkipReason]
  /\ acceptedAt' = [acceptedAt EXCEPT ![j] = now]
  /\ UNCHANGED <<row, eligible, kept, aggregating, reported, now>>

-------------------------------------------------------------------------------
(* Mutant: an answer accepted at the deadline itself is left out.          *)
Candidates_strict ==
  {j \in eligible : reason[j] = "awaiting_draw" /\ acceptedAt[j] < deadline}

(* drawCandidatesTx: answers marked on time when accepted, whose judge is  *)
(* still eligible now.                                                     *)
Candidates == {j \in eligible : reason[j] = "awaiting_draw"}

Publish(o, judge, consensus) ==
  /\ state' = "published"
  /\ outcome' = o
  /\ publishedAt' = IF publishedAt = None THEN now ELSE publishedAt
  /\ carried' = judge
  /\ consensusAt' = IF consensus = None THEN consensusAt ELSE consensus
  /\ reported' = reported \cup {o}
  /\ UNCHANGED <<mode, deadline, judged, eligible, kept, aggregating, now>>

(* Mutant: what replays is a consensus on file, not a publication.         *)
FinalizeReplay_undecided ==
  /\ consensusAt # None
  /\ reported' = reported \cup {outcome}
  /\ UNCHANGED <<row, judged, eligible, kept, aggregating, now>>

(* Decided once: a repeated finalize answers what the row holds.           *)
FinalizeReplay ==
  /\ state = "published"
  /\ reported' = reported \cup {outcome}
  /\ UNCHANGED <<row, judged, eligible, kept, aggregating, now>>

FinalizeOff ==
  /\ mode = "off" /\ state = "aggregated"
  /\ Publish("not_judged", carried, None)

ConsensusEligible == consensusAt # None /\ consensusAt <= deadline

FinalizeLegacy ==
  /\ mode = "enforce" /\ deadline # None
  /\ state = "judged" /\ ConsensusEligible
  /\ Publish("judged", carried, None)

(* Mutant: finalize without its published check.                           *)
DeadlineReached_redecides ==
  /\ mode = "enforce" /\ deadline # None
  /\ ~(state = "judged" /\ ConsensusEligible)
  /\ now >= deadline

DeadlineReached ==
  /\ mode = "enforce" /\ deadline # None /\ state # "published"
  /\ ~(state = "judged" /\ ConsensusEligible)
  /\ now >= deadline

(* Mutant: the draw is held as soon as every eligible judge has answered.  *)
FinalizeDraw_allAnswered(j) ==
  /\ mode = "enforce" /\ deadline # None /\ state = "judging"
  /\ now >= deadline \/ \A k \in eligible : reason[k] # "none"
  /\ j \in Candidates
  /\ Publish("judged", j, acceptedAt[j])

(* The draw: drawIndex picks one position of the candidate list.           *)
FinalizeDraw(j) ==
  /\ DeadlineReached
  /\ state # "judged" /\ j \in Candidates
  /\ Publish("judged", j, acceptedAt[j])

(* Mutant: a session an older version left judged is not let go.           *)
FinalizeNoConsensus_stuck ==
  /\ DeadlineReached
  /\ state # "judged" /\ Candidates = {}
  /\ Publish("no_consensus", carried, None)

FinalizeNoConsensus ==
  /\ DeadlineReached
  /\ state = "judged" \/ Candidates = {}
  /\ Publish("no_consensus", carried, None)

Finalize ==
  \/ FinalizeReplay \/ FinalizeOff \/ FinalizeLegacy \/ FinalizeNoConsensus
  \/ \E j \in Judge : FinalizeDraw(j)

-------------------------------------------------------------------------------
(* An operator deactivates or restores a judge, or moves the third-party   *)
(* gate; submission and draw read it inside their own transaction.         *)
SetEligible(j) ==
  /\ eligible' = IF j \in eligible THEN eligible \ {j} ELSE eligible \cup {j}
  /\ kept' = kept \ {j}
  /\ UNCHANGED <<row, judged, aggregating, reported, now>>

(* MaxTime bounds the clock, but never before a pending deadline is past.  *)
Tick ==
  /\ now < MaxTime \/ (deadline # None /\ now <= deadline)
  /\ now' = now + 1
  /\ UNCHANGED <<row, judged, eligible, kept, aggregating, reported>>

Next ==
  \/ \E r \in Request :
       AggregateRead(r) \/ AggregateWrite(r) \/ AggregateFail(r)
  \/ RequestJudging
  \/ Finalize
  \/ \E j \in Judge : SubmitJudgement(j) \/ SetEligible(j)
  \/ Tick

Spec == Init /\ [][Next]_vars

-------------------------------------------------------------------------------
(* The scheduler's duty: it holds a session until the API reports it       *)
(* published, retries what failed, and resumes it from a full read after a *)
(* restart, so no step of a settlement stays possible and untaken, and an  *)
(* aggregate retried often enough is not lost every time.                  *)
Decide ==
  \/ FinalizeOff \/ FinalizeLegacy \/ FinalizeNoConsensus
  \/ \E j \in Judge : FinalizeDraw(j)

Fairness ==
  /\ WF_vars(Tick)
  /\ WF_vars(RequestJudging)
  /\ WF_vars(Decide)
  /\ WF_vars(\E r \in Request : AggregateRead(r))
  /\ SF_vars(\E r \in Request : AggregateWrite(r))

FairSpec == Spec /\ Fairness

-------------------------------------------------------------------------------
(* Once finalize has decided, no later step of any actor moves the state,  *)
(* the outcome, the judge the recommendation names or the instants.        *)
DecidedOnce ==
  [][outcome # None =>
       UNCHANGED <<state, outcome, carried, consensusAt, publishedAt>>]_vars

(* However often finalize is called, every answer it gives is the same.    *)
OneAnswer == \A a, b \in reported : a = b

(* From the request for judging to the decision the session stays in a     *)
(* state that takes the judges' answers, so an answer sent by the deadline *)
(* is never refused as session_not_judging.                                *)
JudgesHeard == deadline # None => state \in {"judging", "judged", "published"}

(* A judged session is named for a judge whose own answer was accepted by  *)
(* the deadline, its consensus time is that answer's, and an answer that   *)
(* had to wait for the draw won it no earlier than the deadline.           *)
WinnerEarned ==
  outcome = "judged" =>
    /\ carried \in Judge
    /\ acceptedAt[carried] # None /\ acceptedAt[carried] <= deadline
    /\ consensusAt = acceptedAt[carried]
    /\ reason[carried] \in {"applied", "awaiting_draw"}
    /\ reason[carried] = "awaiting_draw" => publishedAt >= deadline

(* "Nobody answered" is never concluded while a judge could still answer.  *)
VerdictNotEarly ==
  outcome = "no_consensus" => deadline # None /\ publishedAt >= deadline

(* The deadline, once promised to the judges, never moves: not by a retry, *)
(* a second scheduler or a restart that asks for judging again.            *)
DeadlineFixed == [][deadline # None => deadline' = deadline]_vars

(* A session ends without a judgement only if every judge that stayed      *)
(* eligible all along failed to answer by the deadline.                    *)
NoAnswerIgnored ==
  outcome = "no_consensus" =>
    \A j \in kept :
      acceptedAt[j] = None \/ acceptedAt[j] > deadline
        \/ reason[j] = "late_evidence"

(* A published session has an outcome, whatever overlaps.                  *)
PublishedDecided == state = "published" => outcome # None

(* The inductive invariant behind DecidedOnce and WinnerEarned when one    *)
(* aggregate request runs at a time: an aggregate in flight means nothing  *)
(* was asked of the judges yet, the deadline, the outcome and the state    *)
(* agree, and every answer on file is classified by its own accepted time. *)
AggregatesFirst == aggregating # {} => state = "window_closed"

StagesAgree ==
  /\ state \in {"window_closed", "aggregated"} =>
       deadline = None /\ consensusAt = None
  /\ outcome # None <=> state = "published"
  /\ outcome = None => publishedAt = None
  /\ deadline # None => mode = "enforce"
  /\ state \in {"judging", "judged"} => deadline # None
  /\ state = "judging" => consensusAt = None

AnswersTimed ==
  \A j \in Judge :
    /\ reason[j] # "none" => deadline # None /\ acceptedAt[j] # None
    /\ reason[j] = "awaiting_draw" => acceptedAt[j] <= deadline
    /\ reason[j] = "applied" => consensusAt # None

LegacyNamed ==
  state = "judged" =>
    /\ carried \in Judge /\ reason[carried] = "applied"
    /\ consensusAt # None /\ acceptedAt[carried] = consensusAt

SettlementInv ==
  /\ TypeOK
  /\ AggregatesFirst
  /\ StagesAgree
  /\ AnswersTimed
  /\ LegacyNamed
  /\ JudgesHeard
  /\ WinnerEarned
  /\ VerdictNotEarly

(* What NoAnswerIgnored needs besides: every reason a row can hold tells   *)
(* whether its answer was in time.  While a session is judging none is     *)
(* "already recorded"; in one an older version judged too late, such an    *)
(* answer came later still.                                                *)
AnswersWeighed ==
  /\ kept \subseteq eligible
  /\ consensusAt # None => consensusAt <= now
  /\ \A j \in Judge :
       /\ reason[j] = "none" => acceptedAt[j] = None
       /\ reason[j] = "after_deadline" => acceptedAt[j] > deadline
       /\ reason[j] = "applied" /\ outcome = None => acceptedAt[j] = consensusAt
       /\ reason[j] = "awaiting_draw" => state # "judged"
       /\ reason[j] = "late_evidence" => outcome # None
       /\ reason[j] = "consensus_already_recorded" =>
            /\ state # "judging"
            /\ state = "judged" /\ ~ConsensusEligible => acceptedAt[j] > deadline

WeighedInv == SettlementInv /\ AnswersWeighed /\ NoAnswerIgnored

(* Every session whose judge mode was captured is decided.                 *)
Settles == judgingCaptured ~> outcome # None

-------------------------------------------------------------------------------
(* The settlement implements Decision.  Only an older version applied an   *)
(* answer when it arrived: such a session's judging is over.               *)
phaseBar ==
  IF deadline = None THEN "unasked"
  ELSE IF \E j \in Judge : reason[j] = "applied" THEN "over"
  ELSE IF now < deadline THEN "open"
  ELSE IF now = deadline THEN "due" ELSE "over"

onTimeBar ==
  {j \in Judge : \/ reason[j] = "awaiting_draw"
                 \/ reason[j] = "applied" /\ acceptedAt[j] <= deadline}

winnerBar == IF outcome = "judged" THEN carried ELSE None

D == INSTANCE Decision WITH
       phase <- phaseBar, onTime <- onTimeBar, winner <- winnerBar

(* Every step of the settlement is a step Decision allows, or none of it.  *)
ImplementsDecision == D!Spec
===============================================================================
