--------------------------- MODULE SettlementProofs ---------------------------
(***************************************************************************)
(* What holds of Settlement for every set of judges, every duration and    *)
(* every clock: the types and the deadline however many aggregate requests *)
(* overlap, and the decision itself when at most one runs at a time.       *)
(***************************************************************************)
EXTENDS Settlement, JudgeDraw, FiniteSetTheorems, FunctionTheorems, TLAPS

(* A step from a typed state, in which published means decided, ends in    *)
(* such a state: without the second conjunct a replay could report NULL.   *)
LEMMA TypedStep ==
  ASSUME TypeOK, PublishedDecided, [Next]_vars
  PROVE  TypeOK' /\ PublishedDecided'
<1> USE DEF TypeOK, PublishedDecided, Outcome, Reason
<1>1. ASSUME NEW r \in Request, AggregateRead(r)
      PROVE  TypeOK' /\ PublishedDecided'
  BY <1>1 DEF AggregateRead, row, judged
<1>2. ASSUME NEW r \in Request, AggregateWrite(r)
      PROVE  TypeOK' /\ PublishedDecided'
  BY <1>2 DEF AggregateWrite, judged
<1>3. ASSUME NEW r \in Request, AggregateFail(r)
      PROVE  TypeOK' /\ PublishedDecided'
  BY <1>3 DEF AggregateFail, row, judged
<1>4. CASE RequestJudging
  BY <1>4, JudgingAssumption DEF RequestJudging, judged
<1>5. CASE FinalizeReplay
  BY <1>5 DEF FinalizeReplay, row, judged
<1>6. ASSUME NEW o \in Outcome, NEW w \in Judge \cup {None},
             NEW c \in Int \cup {None}, Publish(o, w, c)
      PROVE  TypeOK' /\ PublishedDecided'
  BY <1>6, NoneAssumption DEF Publish, judged
<1>7. CASE FinalizeOff \/ FinalizeLegacy \/ FinalizeNoConsensus
  <2>1. \E o \in Outcome : Publish(o, carried, None)
    BY <1>7 DEF FinalizeOff, FinalizeLegacy, FinalizeNoConsensus
  <2> QED
    BY <1>6, <2>1
<1>8. ASSUME NEW j \in Judge, FinalizeDraw(j)
      PROVE  TypeOK' /\ PublishedDecided'
  <2>1. Publish("judged", j, acceptedAt[j])
    BY <1>8 DEF FinalizeDraw
  <2> QED
    BY <1>6, <2>1
<1>9. ASSUME NEW j \in Judge, SubmitJudgement(j)
      PROVE  TypeOK' /\ PublishedDecided'
  BY <1>9 DEF SubmitJudgement, SkipReason, row
<1>10. ASSUME NEW j \in Judge, SetEligible(j)
       PROVE  TypeOK' /\ PublishedDecided'
  BY <1>10 DEF SetEligible, row, judged
<1>11. CASE Tick
  BY <1>11 DEF Tick, row, judged
<1>12. CASE UNCHANGED vars
  BY <1>12 DEF vars, row, judged
<1> QED
  BY <1>1, <1>2, <1>3, <1>4, <1>5, <1>7, <1>8, <1>9, <1>10, <1>11, <1>12
  DEF Next, Finalize

(* The types hold in every reachable state of the row, its judgements and  *)
(* the requests in flight.                                                 *)
THEOREM TypeCorrect == Spec => [](TypeOK /\ PublishedDecided)
<1>1. Init => TypeOK /\ PublishedDecided
  BY JudgingAssumption
  DEF Init, InitCaptured, InitUncaptured, InitLegacyJudged, TypeOK,
      PublishedDecided, Outcome, Reason
<1>2. TypeOK /\ PublishedDecided /\ [Next]_vars
        => (TypeOK /\ PublishedDecided)'
  BY TypedStep
<1> QED
  BY <1>1, <1>2, PTL DEF Spec

LEMMA DeadlineKept ==
  ASSUME [Next]_vars, deadline # None PROVE deadline' = deadline
BY DEF Next, Finalize, AggregateRead, AggregateWrite, AggregateFail,
       RequestJudging, FinalizeReplay, FinalizeOff, FinalizeLegacy,
       FinalizeNoConsensus, FinalizeDraw, Publish, SubmitJudgement,
       SetEligible, Tick, vars, row

(* No step of any actor moves a deadline once the judges were promised it, *)
(* whatever overlaps: only RequestJudging writes it, and only onto None.   *)
THEOREM DeadlineIsFixed == Spec => DeadlineFixed
<1>1. [Next]_vars => [deadline # None => deadline' = deadline]_vars
  BY DeadlineKept
<1> QED
  BY <1>1, PTL DEF Spec, DeadlineFixed

-------------------------------------------------------------------------------
(* From here on at most one aggregate request runs at a time.  The lemmas  *)
(* ask it of the requests in flight, so that they serve whoever sees to it.*)
OneAtATime == \A a, b \in Request : a = b

AtMostOne == \A a, b \in aggregating : a = b

LEMMA InitInv == Init => SettlementInv
BY JudgingAssumption, NoneAssumption
DEF Init, InitCaptured, InitUncaptured, InitLegacyJudged, SettlementInv,
    TypeOK, AggregatesFirst, StagesAgree, AnswersTimed, LegacyNamed,
    JudgesHeard, WinnerEarned, VerdictNotEarly, Outcome, Reason

(* The new state of a finalize that decides, whichever branch it takes.    *)
LEMMA DecideInv ==
  ASSUME SettlementInv, Decide PROVE SettlementInv'
<1> USE DEF SettlementInv
<1>1. TypeOK' /\ PublishedDecided'
  BY TypedStep DEF Decide, Next, Finalize, StagesAgree, PublishedDecided
<1>2. /\ state # "published" /\ outcome = None /\ publishedAt = None
      /\ state # "window_closed"
  BY DEF Decide, FinalizeOff, FinalizeLegacy, FinalizeNoConsensus,
         FinalizeDraw, DeadlineReached, StagesAgree, TypeOK, Candidates
<1>3. /\ state' = "published" /\ publishedAt' = now
      /\ UNCHANGED <<mode, deadline, judged, aggregating, now>>
  BY <1>2 DEF Decide, FinalizeOff, FinalizeLegacy, FinalizeNoConsensus,
              FinalizeDraw, Publish
<1>4. AggregatesFirst' /\ JudgesHeard' /\ LegacyNamed'
  BY <1>2, <1>3 DEF AggregatesFirst, JudgesHeard, LegacyNamed
<1>5. CASE FinalizeOff
  <2>1. outcome' = "not_judged" /\ consensusAt' = consensusAt
    BY <1>5 DEF FinalizeOff, Publish
  <2> QED
    BY <1>1, <1>2, <1>3, <1>4, <2>1, NoneAssumption
    DEF StagesAgree, AnswersTimed, WinnerEarned, VerdictNotEarly, judged,
        Outcome
<1>6. CASE FinalizeLegacy
  <2>1. /\ outcome' = "judged" /\ UNCHANGED <<consensusAt, carried>>
        /\ state = "judged" /\ consensusAt # None /\ consensusAt <= deadline
    BY <1>6 DEF FinalizeLegacy, Publish, ConsensusEligible
  <2> QED
    BY <1>1, <1>2, <1>3, <1>4, <2>1, NoneAssumption
    DEF StagesAgree, AnswersTimed, WinnerEarned, VerdictNotEarly, judged,
        LegacyNamed, Outcome, TypeOK
<1>7. CASE FinalizeNoConsensus
  <2>1. /\ outcome' = "no_consensus" /\ consensusAt' = consensusAt
        /\ deadline # None /\ now >= deadline
    BY <1>7 DEF FinalizeNoConsensus, DeadlineReached, Publish
  <2> QED
    BY <1>1, <1>2, <1>3, <1>4, <2>1, NoneAssumption
    DEF StagesAgree, AnswersTimed, WinnerEarned, VerdictNotEarly, judged,
        Outcome
<1>8. ASSUME NEW j \in Judge, FinalizeDraw(j) PROVE SettlementInv'
  <2>1. /\ outcome' = "judged" /\ carried' = j
        /\ consensusAt' = acceptedAt[j]
        /\ deadline # None /\ now >= deadline
        /\ reason[j] = "awaiting_draw"
        /\ acceptedAt[j] # None /\ acceptedAt[j] <= deadline
    BY <1>8 DEF FinalizeDraw, DeadlineReached, Publish, Candidates,
                AnswersTimed
  <2> QED
    BY <1>1, <1>2, <1>3, <1>4, <2>1, NoneAssumption
    DEF StagesAgree, AnswersTimed, WinnerEarned, VerdictNotEarly, judged,
        Outcome, TypeOK
<1> QED
  BY <1>5, <1>6, <1>7, <1>8 DEF Decide

(* Every step keeps the invariant: the one that could break it, a late     *)
(* aggregate, finds the session where it read it.                          *)
LEMMA StepInv ==
  ASSUME AtMostOne, SettlementInv, [Next]_vars PROVE SettlementInv'
<1> USE DEF SettlementInv
<1>1. TypeOK' /\ PublishedDecided'
  BY TypedStep DEF StagesAgree, PublishedDecided
<1> USE DEF AggregatesFirst, StagesAgree, AnswersTimed, LegacyNamed,
            JudgesHeard, WinnerEarned, VerdictNotEarly
<1>2. ASSUME NEW r \in Request, AggregateRead(r) PROVE SettlementInv'
  BY <1>1, <1>2 DEF AggregateRead, row, judged
<1>3. ASSUME NEW r \in Request, AggregateWrite(r) PROVE SettlementInv'
  <2>1. state = "window_closed" /\ aggregating' = {}
    BY <1>3 DEF AggregateWrite, AtMostOne
  <2> QED
    BY <1>1, <1>3, <2>1 DEF AggregateWrite, judged
<1>4. ASSUME NEW r \in Request, AggregateFail(r) PROVE SettlementInv'
  BY <1>1, <1>4 DEF AggregateFail, row, judged
<1>5. CASE RequestJudging
  BY <1>1, <1>5, JudgingAssumption, NoneAssumption
  DEF RequestJudging, judgingCaptured, judged, TypeOK
<1>6. CASE FinalizeReplay
  BY <1>1, <1>6 DEF FinalizeReplay, row, judged
<1>7. ASSUME NEW j \in Judge, SubmitJudgement(j) PROVE SettlementInv'
  BY <1>1, <1>7, NoneAssumption
  DEF SubmitJudgement, Answerable, SkipReason, row, TypeOK
<1>8. ASSUME NEW j \in Judge, SetEligible(j) PROVE SettlementInv'
  BY <1>1, <1>8 DEF SetEligible, row, judged
<1>9. CASE Tick
  BY <1>1, <1>9 DEF Tick, row, judged
<1>10. CASE UNCHANGED vars
  BY <1>1, <1>10 DEF vars, row, judged
<1>11. CASE Decide
  BY <1>11, DecideInv
<1> QED
  BY <1>2, <1>3, <1>4, <1>5, <1>6, <1>7, <1>8, <1>9, <1>10, <1>11
  DEF Next, Finalize, Decide

(* One aggregate at a time: the stages, the answers and the winner agree   *)
(* in every reachable state, for any judges and any judging duration.      *)
THEOREM SettlementSafe ==
  ASSUME OneAtATime PROVE Spec => []SettlementInv
<1>1. Init => SettlementInv
  BY InitInv
<1>2. SettlementInv /\ [Next]_vars => SettlementInv'
  BY StepInv DEF OneAtATime, AtMostOne, SettlementInv, TypeOK
<1> QED
  BY <1>1, <1>2, PTL DEF Spec

(* One aggregate at a time: a judged session names a judge whose own       *)
(* answer was accepted by the deadline.                                    *)
THEOREM WinnerIsEarned ==
  ASSUME OneAtATime PROVE Spec => []WinnerEarned
<1>1. SettlementInv => WinnerEarned
  BY DEF SettlementInv
<1> QED
  BY <1>1, SettlementSafe, PTL

(* One aggregate at a time: whatever finalize has answered is the outcome  *)
(* on the row, so however often it is called its answers are one.          *)
THEOREM AnswersAreOne ==
  ASSUME OneAtATime PROVE Spec => []OneAnswer
<1> DEFINE FromRow == reported \subseteq {outcome} \ {None}
<1>1. Init => FromRow
  BY DEF Init
<1>2. SettlementInv /\ FromRow /\ [Next]_vars => FromRow'
  <2> SUFFICES ASSUME SettlementInv, FromRow, [Next]_vars PROVE FromRow'
    OBVIOUS
  <2>1. (outcome # None <=> state = "published") /\ outcome \in Outcome \cup {None}
    BY DEF SettlementInv, StagesAgree, TypeOK
  <2>2. CASE FinalizeReplay
    BY <2>1, <2>2 DEF FinalizeReplay, row
  <2>3. CASE Decide
    <3>1. state # "published" /\ outcome' \in Outcome
          /\ reported' = reported \cup {outcome'}
      BY <2>3 DEF Decide, FinalizeOff, FinalizeLegacy, FinalizeNoConsensus,
           FinalizeDraw, DeadlineReached, Publish, Outcome
    <3> QED
      BY <2>1, <3>1, NoneAssumption
  <2>4. CASE UNCHANGED <<outcome, reported>>
    BY <2>4
  <2> QED
    BY <2>2, <2>3, <2>4
    DEF Next, Finalize, Decide, AggregateRead, AggregateWrite, AggregateFail,
        RequestJudging, SubmitJudgement, SetEligible, Tick, vars, row
<1>3. FromRow => OneAnswer
  BY DEF OneAnswer
<1> HIDE DEF FromRow
<1> QED
  BY <1>1, <1>2, <1>3, SettlementSafe, PTL DEF Spec

(* A step after finalize decided.                                          *)
LEMMA DecisionKept ==
  ASSUME SettlementInv, [Next]_vars, outcome # None
  PROVE  UNCHANGED <<state, outcome, carried, consensusAt, publishedAt>>
<1>1. state = "published" /\ aggregating = {}
  BY DEF SettlementInv, StagesAgree, AggregatesFirst
<1> QED
  BY <1>1
  DEF Next, Finalize, AggregateRead, AggregateWrite, AggregateFail,
      RequestJudging, FinalizeReplay, FinalizeOff, FinalizeLegacy,
      FinalizeNoConsensus, FinalizeDraw, DeadlineReached,
      SubmitJudgement, SetEligible, Tick, vars, row

(* One aggregate at a time: no step after finalize decided moves what it   *)
(* decided, so a repeated finalize answers the same for ever.              *)
THEOREM DecisionIsFinal ==
  ASSUME OneAtATime PROVE Spec => DecidedOnce
<1> DEFINE Kept == outcome # None =>
                     UNCHANGED <<state, outcome, carried, consensusAt,
                                 publishedAt>>
<1>1. SettlementInv /\ [Next]_vars => [Kept]_vars
  BY DecisionKept
<1>2. Spec => []SettlementInv
  BY SettlementSafe
<1> QED
  BY <1>1, <1>2, PTL DEF Spec, DecidedOnce

(* What finalize concludes from: at the moment it finds nobody, every      *)
(* judge that was eligible all along is on file as late or not at all.     *)
LEMMA NobodyInTime ==
  ASSUME WeighedInv, FinalizeNoConsensus, NEW j \in kept
  PROVE  acceptedAt[j] = None \/ acceptedAt[j] > deadline
<1> USE DEF WeighedInv, SettlementInv, AnswersWeighed
<1>1. /\ deadline # None /\ state \in {"judging", "judged"} /\ outcome = None
      /\ deadline \in Int /\ j \in Judge /\ j \in eligible
  BY DEF FinalizeNoConsensus, DeadlineReached, JudgesHeard, StagesAgree, TypeOK
<1>2. /\ acceptedAt[j] \in Int \cup {None} /\ consensusAt \in Int \cup {None}
      /\ reason[j] \in Reason
  BY <1>1 DEF TypeOK
<1>3. CASE state = "judging"
  <2>1. consensusAt = None /\ reason[j] # "awaiting_draw"
    BY <1>1, <1>3 DEF StagesAgree, FinalizeNoConsensus, Candidates
  <2>2. reason[j] \in {"none", "after_deadline"}
    BY <1>1, <1>2, <1>3, <2>1 DEF AnswersTimed, Reason
  <2> QED
    BY <1>1, <2>2
<1>4. CASE state = "judged"
  <2>1. ~ConsensusEligible /\ consensusAt # None /\ consensusAt > deadline
    BY <1>1, <1>2, <1>4 DEF FinalizeNoConsensus, DeadlineReached, LegacyNamed, ConsensusEligible
  <2>2. reason[j] \in {"none", "after_deadline", "applied", "consensus_already_recorded"}
    BY <1>1, <1>2, <1>4 DEF Reason
  <2> QED
    BY <1>1, <1>4, <2>1, <2>2
<1> QED
  BY <1>1, <1>3, <1>4

LEMMA WeighedStep ==
  ASSUME AtMostOne, WeighedInv, [Next]_vars PROVE WeighedInv'
<1> USE DEF WeighedInv
<1>1. SettlementInv' /\ TypeOK /\ TypeOK'
  BY StepInv DEF SettlementInv
<1>2. outcome # None <=> state = "published"
  BY DEF SettlementInv, StagesAgree
<1> USE DEF AnswersWeighed, NoAnswerIgnored
<1>3. ASSUME NEW r \in Request, AggregateRead(r) \/ AggregateFail(r) PROVE WeighedInv'
  BY <1>1, <1>3 DEF AggregateRead, AggregateFail, row, judged, ConsensusEligible
<1>4. ASSUME NEW r \in Request, AggregateWrite(r) PROVE WeighedInv'
  BY <1>1, <1>4 DEF AggregateWrite, judged, SettlementInv, AggregatesFirst, ConsensusEligible
<1>5. CASE RequestJudging
  <2>1. deadline = None /\ outcome = None /\ \A j \in Judge : reason[j] = "none"
    BY <1>5 DEF RequestJudging, SettlementInv, StagesAgree, AnswersTimed
  <2>2. consensusAt = None
    BY <1>5 DEF RequestJudging, SettlementInv, StagesAgree
  <2>3. /\ UNCHANGED <<reason, acceptedAt, consensusAt, outcome, eligible, kept, now>>
        /\ state' = "judging"
    BY <1>5 DEF RequestJudging, judged
  <2>4. NoAnswerIgnored'
    BY <2>1, <2>3, NoneAssumption DEF Outcome
  <2>5. AnswersWeighed'
    BY <2>1, <2>2, <2>3 DEF ConsensusEligible
  <2> QED
    BY <1>1, <2>4, <2>5
<1>6. CASE FinalizeReplay
  BY <1>1, <1>6 DEF FinalizeReplay, row, judged, ConsensusEligible
<1>7. CASE Decide
  <2>1. /\ state' = "published" /\ outcome = None /\ outcome' \in Outcome
        /\ UNCHANGED <<deadline, reason, acceptedAt, eligible, kept, now>>
    BY <1>2, <1>7 DEF Decide, FinalizeOff, FinalizeLegacy, FinalizeNoConsensus, FinalizeDraw,
                      DeadlineReached, Publish, judged, Outcome
  <2>2. consensusAt' # None => consensusAt' <= now
    BY <1>7 DEF Decide, FinalizeOff, FinalizeLegacy, FinalizeNoConsensus, FinalizeDraw,
                DeadlineReached, Candidates, Publish, SettlementInv, AnswersTimed, TypeOK
  <2>3. outcome' # None
    BY <2>1, NoneAssumption
  <2>4. outcome' = "no_consensus" => FinalizeNoConsensus
    BY <1>7 DEF Decide, FinalizeOff, FinalizeLegacy, FinalizeDraw, Publish
  <2>5. NoAnswerIgnored'
    BY <2>1, <2>4, NobodyInTime
  <2> QED
    BY <1>1, <2>1, <2>2, <2>3, <2>5
<1>8. ASSUME NEW j \in Judge, SubmitJudgement(j) PROVE WeighedInv'
  <2>1. /\ reason' = [reason EXCEPT ![j] = SkipReason]
        /\ acceptedAt' = [acceptedAt EXCEPT ![j] = now]
        /\ reason[j] = "none" /\ deadline \in Int /\ now \in Int
        /\ state \in {"judging", "judged", "published"}
        /\ UNCHANGED <<state, deadline, consensusAt, outcome, eligible, kept, now>>
    BY <1>1, <1>8 DEF SubmitJudgement, Answerable, TypeOK, row
  <2>2. /\ reason'[j] = SkipReason /\ acceptedAt'[j] = now
        /\ \A k \in Judge : k # j => reason'[k] = reason[k] /\ acceptedAt'[k] = acceptedAt[k]
    BY <1>1, <2>1 DEF TypeOK
  <2>3. /\ SkipReason = "after_deadline" => now > deadline
        /\ SkipReason = "late_evidence" <=> state = "published"
        /\ SkipReason # "none" /\ SkipReason # "applied"
        /\ SkipReason = "awaiting_draw" => state = "judging"
        /\ SkipReason = "consensus_already_recorded" => state # "judging"
    BY <2>1 DEF SkipReason, SettlementInv, StagesAgree
  <2>4. state = "judged" /\ ~ConsensusEligible => now > deadline
    BY <1>1, <2>1 DEF SettlementInv, LegacyNamed, ConsensusEligible, TypeOK
  <2>5. AnswersWeighed'
    BY <1>2, <2>1, <2>2, <2>3, <2>4 DEF ConsensusEligible
  <2>6. NoAnswerIgnored'
    <3> SUFFICES ASSUME outcome = "no_consensus", NEW k \in kept,
                        reason'[k] # "late_evidence"
                 PROVE  acceptedAt'[k] = None \/ acceptedAt'[k] > deadline
      BY <2>1
    <3>1. state = "published" /\ k \in Judge
      BY <1>1, <1>2, NoneAssumption DEF TypeOK, Outcome
    <3>2. k # j
      BY <2>2, <2>3, <3>1
    <3> QED
      BY <2>2, <3>1, <3>2
  <2> QED
    BY <1>1, <2>5, <2>6
<1>9. ASSUME NEW j \in Judge, SetEligible(j) PROVE WeighedInv'
  BY <1>1, <1>9 DEF SetEligible, row, judged, ConsensusEligible
<1>10. CASE Tick
  BY <1>1, <1>10 DEF Tick, row, judged, ConsensusEligible, TypeOK
<1>11. CASE UNCHANGED vars
  BY <1>1, <1>11 DEF vars, row, judged, ConsensusEligible
<1> QED
  BY <1>3, <1>4, <1>5, <1>6, <1>7, <1>8, <1>9, <1>10, <1>11 DEF Next, Finalize, Decide

LEMMA InitWeighed == Init => WeighedInv
<1>1. Init => AnswersWeighed /\ NoAnswerIgnored
  BY JudgingAssumption, NoneAssumption
  DEF Init, InitCaptured, InitUncaptured, InitLegacyJudged, AnswersWeighed, NoAnswerIgnored,
      ConsensusEligible, Outcome
<1> QED
  BY <1>1, InitInv DEF WeighedInv

(* One aggregate at a time: "nobody answered" is concluded only when no    *)
(* judge that stayed eligible has an answer accepted by the deadline.      *)
THEOREM NobodyIsIgnored ==
  ASSUME OneAtATime PROVE Spec => []NoAnswerIgnored
<1>1. Init => WeighedInv
  BY InitWeighed
<1>2. WeighedInv /\ [Next]_vars => WeighedInv'
  BY WeighedStep DEF OneAtATime, AtMostOne, WeighedInv, SettlementInv, TypeOK
<1>3. WeighedInv => NoAnswerIgnored
  BY DEF WeighedInv
<1> QED
  BY <1>1, <1>2, <1>3, PTL DEF Spec

-------------------------------------------------------------------------------
(* A step that touches neither the row, the answers nor the clock is a     *)
(* stutter of Decision.                                                    *)
LEMMA QuietStep ==
  ASSUME UNCHANGED <<deadline, outcome, reason, now>>,
         outcome # "judged" \/ carried' = carried,
         \A j \in Judge : reason[j] = "applied" => acceptedAt'[j] = acceptedAt[j]
  PROVE  UNCHANGED D!vars
BY DEF D!vars, phaseBar, onTimeBar, winnerBar

(* A decision of finalize is the matching decision of Decision.            *)
LEMMA DecideRefines ==
  ASSUME SettlementInv, Decide PROVE D!Next
<1> USE DEF SettlementInv
<1>1. /\ outcome = None /\ state # "published"
      /\ UNCHANGED <<deadline, reason, acceptedAt, now>>
  BY DEF Decide, FinalizeOff, FinalizeLegacy, FinalizeNoConsensus,
         FinalizeDraw, DeadlineReached, Publish, StagesAgree, judged
<1>2. UNCHANGED <<phaseBar, onTimeBar>> /\ winnerBar = None
  BY <1>1, NoneAssumption DEF phaseBar, onTimeBar, winnerBar, Outcome
<1>3. CASE FinalizeOff
  <2>1. outcome' = "not_judged" /\ deadline = None
    BY <1>3 DEF FinalizeOff, Publish, StagesAgree
  <2>2. winnerBar' = None /\ phaseBar = "unasked"
    BY <2>1 DEF winnerBar, phaseBar
  <2> QED
    BY <1>1, <1>2, <2>1, <2>2 DEF D!Next, D!NotJudged, D!Decide
<1>4. CASE FinalizeLegacy
  <2>1. /\ outcome' = "judged" /\ carried' = carried
        /\ carried \in Judge /\ reason[carried] = "applied"
        /\ acceptedAt[carried] <= deadline /\ deadline # None
    BY <1>4 DEF FinalizeLegacy, Publish, ConsensusEligible, LegacyNamed
  <2>2. winnerBar' = carried /\ carried \in onTimeBar
    BY <2>1 DEF winnerBar, onTimeBar
  <2>3. phaseBar = "over"
    BY <2>1 DEF phaseBar
  <2> QED
    BY <1>1, <1>2, <2>1, <2>2, <2>3 DEF D!Next, D!Judged, D!Decide
<1>5. CASE FinalizeNoConsensus
  <2>1. outcome' = "no_consensus" /\ deadline # None /\ now >= deadline
    BY <1>5 DEF FinalizeNoConsensus, DeadlineReached, Publish
  <2>2. winnerBar' = None /\ phaseBar \in {"due", "over"}
    BY <2>1 DEF winnerBar, phaseBar, TypeOK
  <2> QED
    BY <1>1, <1>2, <2>1, <2>2 DEF D!Next, D!NoConsensus, D!Decide
<1>6. ASSUME NEW j \in Judge, FinalizeDraw(j) PROVE D!Next
  <2>1. /\ outcome' = "judged" /\ carried' = j
        /\ reason[j] = "awaiting_draw" /\ deadline # None /\ now >= deadline
    BY <1>6 DEF FinalizeDraw, DeadlineReached, Publish, Candidates
  <2>2. winnerBar' = j /\ j \in onTimeBar /\ phaseBar \in {"due", "over"}
    BY <2>1 DEF winnerBar, onTimeBar, phaseBar, TypeOK
  <2> QED
    BY <1>1, <1>2, <2>1, <2>2 DEF D!Next, D!Judged, D!Decide
<1> QED
  BY <1>3, <1>4, <1>5, <1>6 DEF Decide

(* Asking for judging, an accepted answer and the clock move Decision too. *)
LEMMA AskRefines ==
  ASSUME SettlementInv, RequestJudging PROVE D!Next
<1>1. /\ deadline = None /\ outcome = None /\ deadline' > now
      /\ deadline' # None /\ UNCHANGED <<outcome, carried, reason, acceptedAt, now>>
  BY JudgingAssumption, NoneAssumption
  DEF RequestJudging, SettlementInv, TypeOK, StagesAgree, judged
<1>2. \A j \in Judge : reason[j] = "none"
  BY <1>1 DEF SettlementInv, AnswersTimed
<1>3. phaseBar = "unasked" /\ phaseBar' = "open"
  BY <1>1, <1>2, JudgingAssumption
  DEF phaseBar, RequestJudging, SettlementInv, TypeOK
<1>4. UNCHANGED <<onTimeBar, outcome, winnerBar>>
  BY <1>1, <1>2 DEF onTimeBar, winnerBar
<1> QED
  BY <1>1, <1>3, <1>4 DEF D!Next, D!Ask

LEMMA AnswerRefines ==
  ASSUME SettlementInv, NEW j \in Judge, SubmitJudgement(j)
  PROVE  D!Next \/ UNCHANGED D!vars
<1> USE DEF SettlementInv
<1>1. /\ UNCHANGED <<state, deadline, consensusAt, outcome, carried, now>>
      /\ reason[j] = "none" /\ deadline # None
      /\ reason' = [reason EXCEPT ![j] = SkipReason]
      /\ acceptedAt' = [acceptedAt EXCEPT ![j] = now]
  BY DEF SubmitJudgement, Answerable, row
<1>2. UNCHANGED <<phaseBar, winnerBar>>
  <2>1. \A k \in Judge : reason'[k] = "applied" <=> reason[k] = "applied"
    BY <1>1 DEF SkipReason, TypeOK
  <2> QED
    BY <1>1, <2>1 DEF phaseBar, winnerBar
<1>3. CASE SkipReason = "awaiting_draw"
  <2>1. outcome = None /\ now <= deadline /\ \A k \in Judge : reason[k] # "applied"
    BY <1>1, <1>3 DEF SkipReason, StagesAgree, AnswersTimed, TypeOK
  <2>2. phaseBar \in {"open", "due"}
    BY <1>1, <2>1 DEF phaseBar, TypeOK
  <2>3. j \notin onTimeBar /\ onTimeBar' = onTimeBar \cup {j}
    BY <1>1, <1>3 DEF onTimeBar, TypeOK
  <2> QED
    BY <1>1, <1>2, <2>1, <2>2, <2>3 DEF D!Next, D!Answer
<1>4. CASE SkipReason # "awaiting_draw"
  <2>1. SkipReason # "applied"
    BY DEF SkipReason
  <2>2. onTimeBar' = onTimeBar
    BY <1>1, <1>4, <2>1 DEF onTimeBar, TypeOK
  <2> QED
    BY <1>1, <1>2, <2>2 DEF D!vars
<1> QED
  BY <1>3, <1>4

LEMMA TickRefines ==
  ASSUME SettlementInv, now' = now + 1, UNCHANGED <<row, judged>>
  PROVE  D!Next \/ UNCHANGED D!vars
<1>1. /\ now' = now + 1 /\ now \in Int /\ deadline \in Int \cup {None}
      /\ UNCHANGED <<deadline, outcome, carried, reason, acceptedAt>>
  BY DEF row, judged, SettlementInv, TypeOK
<1>2. UNCHANGED <<onTimeBar, outcome, winnerBar>>
  BY <1>1 DEF onTimeBar, winnerBar
<1>3. \/ phaseBar' = phaseBar
      \/ phaseBar = "open" /\ phaseBar' = "due"
      \/ phaseBar = "due" /\ phaseBar' = "over"
  BY <1>1 DEF phaseBar
<1> QED
  BY <1>2, <1>3 DEF D!Next, D!Reach, D!Pass, D!vars

(* The settlement starts where Decision does ...                           *)
LEMMA InitRefines == Init => D!Init
<1> SUFFICES ASSUME Init PROVE D!Init
  OBVIOUS
<1>1. deadline = None => \A j \in Judge : reason[j] = "none"
  BY NoneAssumption
  DEF Init, InitCaptured, InitUncaptured, InitLegacyJudged
<1>2. deadline # None => \E j \in Judge : reason[j] = "applied"
  BY DEF Init, InitCaptured, InitUncaptured, InitLegacyJudged
<1>3. /\ phaseBar \in {"unasked", "over"} /\ onTimeBar \in SUBSET Judge
      /\ phaseBar = "unasked" => onTimeBar = {}
  BY <1>1, <1>2 DEF phaseBar, onTimeBar
<1>4. outcome = None /\ winnerBar = None
  BY NoneAssumption DEF Init, winnerBar, Outcome
<1> QED
  BY <1>3, <1>4 DEF D!Init

(* ... and every one of its steps is one that Decision allows, or none.    *)
LEMMA StepRefines ==
  ASSUME SettlementInv, [Next]_vars PROVE D!Next \/ UNCHANGED D!vars
<1>1. ASSUME NEW r \in Request,
             AggregateRead(r) \/ AggregateWrite(r) \/ AggregateFail(r)
      PROVE  UNCHANGED D!vars
  <2>1. outcome = None
    BY <1>1 DEF AggregateRead, AggregateWrite, AggregateFail,
                SettlementInv, AggregatesFirst, StagesAgree
  <2> QED
    BY <1>1, <2>1, QuietStep, NoneAssumption
    DEF AggregateRead, AggregateWrite, AggregateFail, row, judged, Outcome
<1>2. CASE FinalizeReplay \/ UNCHANGED vars
  BY <1>2, QuietStep DEF FinalizeReplay, vars, row, judged
<1>3. ASSUME NEW j \in Judge, SetEligible(j) PROVE UNCHANGED D!vars
  BY <1>3, QuietStep DEF SetEligible, row, judged
<1>4. CASE RequestJudging
  BY <1>4, AskRefines
<1>5. CASE Decide
  BY <1>5, DecideRefines
<1>6. ASSUME NEW j \in Judge, SubmitJudgement(j)
      PROVE  D!Next \/ UNCHANGED D!vars
  BY <1>6, AnswerRefines
<1>7. CASE Tick
  BY <1>7, TickRefines DEF Tick
<1> QED
  BY <1>1, <1>2, <1>3, <1>4, <1>5, <1>6, <1>7 DEF Next, Finalize, Decide

(* One aggregate at a time: the settlement of an epoch implements          *)
(* Decision, so what Decision promises holds of the rows the API writes.   *)
THEOREM SettlementRefines ==
  ASSUME OneAtATime PROVE Spec => ImplementsDecision
<1>1. SettlementInv /\ [Next]_vars => [D!Next]_(D!vars)
  BY StepRefines
<1> QED
  BY <1>1, InitRefines, SettlementSafe, PTL DEF Spec, ImplementsDecision, D!Spec

-------------------------------------------------------------------------------
(* The draw: what the words of the random source give, for every length of *)
(* the list and every width of a word.                                     *)

(* Words is a number of full rounds over the list, and a rest shorter than *)
(* one.                                                                    *)
LEMMA Rounds ==
  ASSUME NEW n \in 1 .. Words
  PROVE  /\ Words \div n \in Nat \ {0} /\ Words % n \in 0 .. n - 1
         /\ RejectionLimit(n) \in Nat
         /\ RejectionLimit(n) + (Words % n) = Words
         /\ n <= RejectionLimit(n)
<1>1. Words \in Nat \ {0} /\ n \in Nat \ {0} /\ n <= Words
  BY WordsAssumption
<1> DEFINE q == Words \div n
           z == Words % n
<1>2. q \in Int /\ z \in 0 .. n - 1 /\ Words = n * q + z
  BY <1>1
<1>3. RejectionLimit(n) = q * n
  BY DEF RejectionLimit
<1> HIDE DEF q, z
<1>4. q * n = n * q /\ q * n \in Int
  BY <1>1, <1>2
<1>5. q >= 1
  <2> SUFFICES ASSUME q <= 0 PROVE FALSE
    BY <1>2
  <2>1. n * q <= 0
    BY <1>1, <1>2
  <2> QED
    BY <1>1, <1>2, <1>4, <2>1
<1>6. n * q >= n
  BY <1>1, <1>2, <1>5
<1>7. q \in Nat \ {0}
  BY <1>2, <1>5
<1>8. q * n \in Nat /\ q * n + z = Words /\ n <= q * n
  BY <1>1, <1>2, <1>4, <1>6
<1> QED
  BY <1>2, <1>3, <1>7, <1>8 DEF q, z

(* The draw is fair: each position of the list is picked by exactly as     *)
(* many words as any other.                                                *)
THEOREM DrawIsFair ==
  ASSUME NEW n \in 1 .. Words, NEW k \in 0 .. n - 1
  PROVE  Cardinality({v \in Word : RecomputeDrawnIndex(v, n) = k}) = Words \div n
<1> DEFINE q == Words \div n
           T == {v \in Word : RecomputeDrawnIndex(v, n) = k}
           f == [i \in 1 .. q |-> (i - 1) * n + k]
<1>1. /\ Words \in Nat \ {0} /\ n \in Nat \ {0} /\ n <= Words /\ k \in Nat /\ k < n
      /\ q \in Nat \ {0} /\ RejectionLimit(n) = q * n /\ RejectionLimit(n) <= Words
      /\ RejectionLimit(n) \in Nat
  BY WordsAssumption, Rounds DEF RejectionLimit
<1> HIDE DEF q
<1>2. ASSUME NEW i \in 1 .. q
      PROVE  /\ (i - 1) * n + k \in Nat /\ (i - 1) * n + k < q * n
             /\ ((i - 1) * n + k) % n = k
  <2>1. (i - 1) * n \in Nat /\ (i - 1) * n + n = i * n
    BY <1>1
  <2>2. i * n <= q * n
    BY <1>1
  <2>3. ((i - 1) * n + k) % n = k
    BY <1>1, <2>1
  <2> QED
    BY <1>1, <2>1, <2>2, <2>3
<1>3. f \in [1 .. q -> T]
  <2> SUFFICES ASSUME NEW i \in 1 .. q PROVE (i - 1) * n + k \in T
    OBVIOUS
  <2> DEFINE v == (i - 1) * n + k
  <2>1. v \in Nat /\ v < q * n /\ v % n = k
    BY <1>2
  <2> HIDE DEF v
  <2>2. v \in Word /\ ~(v >= RejectionLimit(n)) /\ ~(n < 1)
    BY <1>1, <2>1 DEF Word
  <2>3. v \in T
    BY <2>1, <2>2 DEF RecomputeDrawnIndex
  <2> QED
    BY <2>3 DEF v
<1>4. ASSUME NEW i \in 1 .. q, NEW j \in 1 .. q, f[i] = f[j] PROVE i = j
  <2>1. (i - 1) * n + k = (j - 1) * n + k
    BY <1>4
  <2>2. (i - 1) * n = (j - 1) * n
    <3>1. (i - 1) * n \in Int /\ (j - 1) * n \in Int
      BY <1>1
    <3> QED
      BY <1>1, <2>1, <3>1
  <2> QED
    BY <1>1, <2>2
<1>5. ASSUME NEW v \in T PROVE \E i \in 1 .. q : f[i] = v
  <2>1. v \in Nat /\ v < q * n /\ v % n = k
    BY <1>1, <1>5 DEF RecomputeDrawnIndex, Word, NoPick
  <2> DEFINE d == v \div n
  <2>2. d \in Int /\ v = n * d + k /\ n * d = d * n /\ d * n \in Int
    BY <1>1, <2>1
  <2> HIDE DEF d
  <2>3. d >= 0
    <3> SUFFICES ASSUME d <= -1 PROVE FALSE
      BY <2>2
    <3>1. n * d <= -n
      BY <1>1, <2>2
    <3> QED
      BY <1>1, <2>1, <2>2, <3>1
  <2>4. d < q
    <3> SUFFICES ASSUME d >= q PROVE FALSE
      BY <1>1, <2>2
    <3>1. d * n >= q * n
      BY <1>1, <2>2
    <3>2. q * n \in Int
      BY <1>1
    <3> QED
      BY <1>1, <2>1, <2>2, <3>1, <3>2
  <2>5. d + 1 \in 1 .. q /\ (d + 1) - 1 = d
    BY <1>1, <2>2, <2>3, <2>4
  <2>6. f[d + 1] = v
    BY <2>2, <2>5
  <2> QED
    BY <2>5, <2>6
<1> HIDE DEF f, T
<1>6. f \in Bijection(1 .. q, T)
  BY <1>3, <1>4, <1>5, Fun_IsBij
<1>7. ExistsBijection(1 .. q, T)
  BY <1>6 DEF ExistsBijection
<1>8. q \in Nat
  BY <1>1
<1>9. Cardinality(T) = q
  BY <1>7, <1>8, FS_CountingElements
<1> QED
  BY <1>9 DEF T, q

(* Fewer words are rejected than the list is long, and fewer than half of  *)
(* all: many rejections in a row mean a broken source.                     *)
THEOREM DrawRejectsFew ==
  ASSUME NEW n \in 1 .. Words
  PROVE  /\ Cardinality({v \in Word : RecomputeDrawnIndex(v, n) = NoPick}) = Words % n
         /\ Words % n < n /\ 2 * (Words % n) < Words
<1> DEFINE l == RejectionLimit(n)
           T == {v \in Word : RecomputeDrawnIndex(v, n) = NoPick}
<1>1. /\ Words \in Nat \ {0} /\ n \in Nat \ {0}
      /\ l \in Nat /\ l + (Words % n) = Words /\ n <= l /\ Words % n \in 0 .. n - 1
  BY WordsAssumption, Rounds
<1>2. \A v \in Word : v % n \in Nat
  BY <1>1 DEF Word
<1>3. \A v \in Word : v \in T <=> v >= l
  BY <1>1, <1>2 DEF RecomputeDrawnIndex, NoPick
<1> HIDE DEF T, l
<1>4. T \subseteq Word
  BY DEF T
<1>5. T = l .. Words - 1
  <2>1. ASSUME NEW v \in T PROVE v \in l .. Words - 1
    <3>1. v \in Word /\ v >= l
      BY <1>3, <1>4, <2>1
    <3> QED
      BY <1>1, <3>1 DEF Word
  <2>2. ASSUME NEW v \in l .. Words - 1 PROVE v \in T
    <3>1. v \in Word /\ v >= l
      BY <1>1, <2>2 DEF Word
    <3> QED
      BY <1>3, <3>1
  <2> QED
    BY <2>1, <2>2
<1>6. Cardinality(l .. Words - 1) = IF l > Words - 1 THEN 0 ELSE Words - 1 - l + 1
  BY <1>1, FS_Interval
<1>7. Cardinality(T) = Words % n
  BY <1>1, <1>5, <1>6
<1> QED
  BY <1>1, <1>7 DEF T

(* A set of naturals has a least element: of the intervals 1 .. k, finite  *)
(* sets all, one has none of the others within it.                         *)
LEMMA LeastNatural ==
  ASSUME NEW S \in SUBSET Nat, S # {}
  PROVE  \E m \in S : \A k \in S : m <= k
<1> DEFINE T == {1 .. k : k \in S}
<1>1. \A k \in S : 1 .. k \in FiniteSubsetsOf(Nat)
  BY FS_Interval DEF FiniteSubsetsOf
<1>2. IsWellFoundedOn(StrictSubsetOrdering(Nat), FiniteSubsetsOf(Nat))
  BY FS_StrictSubsetOrderingWellFounded
<1>3. T \subseteq FiniteSubsetsOf(Nat) /\ T # {}
  BY <1>1
<1>4. PICK x \in T : \A y \in T : <<y, x>> \notin StrictSubsetOrdering(Nat)
  <2> HIDE DEF T
  <2> QED
    BY <1>2, <1>3, WFMin
<1>5. PICK m \in S : x = 1 .. m
  OBVIOUS
<1>6. ASSUME NEW k \in S, k < m PROVE FALSE
  <2>1. 1 .. k \in T /\ <<1 .. k, 1 .. m>> \notin StrictSubsetOrdering(Nat)
    BY <1>4, <1>5
  <2>2. 1 .. k \subseteq 1 .. m /\ m \in 1 .. m /\ m \notin 1 .. k
    BY <1>6
  <2>3. 1 .. k \in SUBSET Nat /\ 1 .. m \in SUBSET Nat
    OBVIOUS
  <2> QED
    BY <2>1, <2>2, <2>3 DEF StrictSubsetOrdering
<1> QED
  BY <1>5, <1>6

(* The draw that finalize stores recomputes: the position it names is the  *)
(* one the rule gives for the value it stores, the first one not rejected; *)
(* and it gives up only when every value it may take is rejected.          *)
THEOREM DrawRecomputes ==
  ASSUME NEW n \in 1 .. Words, NEW source \in [1 .. MaxRejections -> Word]
  PROVE  LET draw == DrawIndex(source, n)
         IN /\ draw.drawnIndex = RecomputeDrawnIndex(draw.randomValue, n)
            /\ draw.drawnIndex # NoPick => draw.drawnIndex \in 0 .. n - 1
            /\ draw.drawnIndex = NoPick <=>
                 \A i \in 1 .. MaxRejections : RecomputeDrawnIndex(source[i], n) = NoPick
<1> DEFINE picks == {i \in 1 .. MaxRejections : RecomputeDrawnIndex(source[i], n) # NoPick}
           i == CHOOSE k \in picks : \A l \in picks : k <= l
<1>1. Words \in Nat \ {0} /\ n \in Nat \ {0} /\ NoPick = -1 /\ NoPick \notin Word
  BY WordsAssumption DEF NoPick, Word
<1>2. RecomputeDrawnIndex(NoPick, n) = NoPick
  BY <1>1 DEF RecomputeDrawnIndex
<1>3. CASE picks = {}
  <2>1. DrawIndex(source, n) = [randomValue |-> NoPick, drawnIndex |-> NoPick]
    BY <1>3 DEF DrawIndex
  <2> QED
    BY <1>2, <1>3, <2>1
<1>4. CASE picks # {}
  <2>1. picks \in SUBSET Nat
    OBVIOUS
  <2>2. \E k \in picks : \A l \in picks : k <= l
    BY <1>4, <2>1, LeastNatural
  <2>3. i \in picks
    BY <2>2
  <2>4. DrawIndex(source, n) =
          [randomValue |-> source[i], drawnIndex |-> RecomputeDrawnIndex(source[i], n)]
    BY <1>4 DEF DrawIndex
  <2>5. i \in 1 .. MaxRejections /\ RecomputeDrawnIndex(source[i], n) # NoPick
    BY <2>3
  <2> HIDE DEF i
  <2>6. source[i] \in Word
    BY <2>5
  <2>7. RecomputeDrawnIndex(source[i], n) \in 0 .. n - 1
    BY <1>1, <2>5, <2>6 DEF RecomputeDrawnIndex, Word
  <2> QED
    BY <2>4, <2>5, <2>7
<1> QED
  BY <1>3, <1>4
===============================================================================
