------------------------------ MODULE DriverProofs ------------------------------
(***************************************************************************)
(* What holds of the clock that drives a settlement, for any number of     *)
(* chains and requests, any skew, any retry budget and any faults; and, if *)
(* no aggregate is sent while another runs, of the settlement it drives.   *)
(***************************************************************************)
EXTENDS SettlementDriver, SettlementProofs

-------------------------------------------------------------------------------
(* The rows of the API, which move by steps of Settlement, and time, which *)
(* here may also pass beyond Settlement's bound.                           *)

QuietTime == /\ now' = now + 1
             /\ UNCHANGED <<row, judged, eligible, kept, aggregating, reported>>

RowsMove == [Next]_vars \/ QuietTime

LEMMA StepMovesRows ==
  ASSUME [DriverNext]_dvars PROVE RowsMove
<1>1. ASSUME NEW r \in Request,
             ServeAggregate(r) \/ ServeRequest(r) \/ ServeFinalize(r) \/ FailAtApi(r)
      PROVE  RowsMove
  BY <1>1 DEF ServeAggregate, ServeRequest, ServeFinalize, FailAtApi, RowsMove, Next
<1>2. CASE Time
  BY <1>2 DEF Time, RowsMove, QuietTime, Next
<1>3. CASE Judging
  BY <1>3 DEF Judging, RowsMove, Next
<1>4. ASSUME UNCHANGED vars PROVE RowsMove
  BY <1>4 DEF RowsMove
<1>5. ASSUME NEW r \in Request, Lose(r) \/ Receive(r) PROVE UNCHANGED vars
  BY <1>5 DEF Lose, Receive, ReceiveFailed, ReceiveAggregated, ReceiveDeadline,
              ReceivePublished, ReceiveEarly, ReceiveOff, ReceiveRefused, Succeeds
<1>6. ASSUME \/ \E h \in {"answer", "event"} : Hear(h)
             \/ \E c \in Chain : Send(c)
             \/ TimerFires \/ Doubt \/ FullRead \/ Rebuild \/ Crash
      PROVE  UNCHANGED vars
  BY <1>6 DEF Hear, Send, TimerFires, Doubt, FullRead, Rebuild, Crash
<1>7. CASE UNCHANGED dvars
  BY <1>4, <1>7 DEF dvars
<1> QED
  BY <1>1, <1>2, <1>3, <1>4, <1>5, <1>6, <1>7 DEF DriverNext

(* What the clock may rely on, however many aggregates overlap: a deadline *)
(* once set stays, and a session once decided stays decided.               *)
LEMMA RowsTyped ==
  ASSUME TypeOK, PublishedDecided, JudgingDated, RowsMove
  PROVE  /\ TypeOK' /\ PublishedDecided' /\ JudgingDated'
         /\ deadline # None => deadline' = deadline
         /\ outcome # None => outcome' # None
<1>1. CASE [Next]_vars
  <2>1. TypeOK' /\ PublishedDecided'
    BY <1>1, TypedStep
  <2>2. deadline # None => deadline' = deadline
    BY <1>1, DeadlineKept
  <2>3. JudgingDated'
    <3>1. CASE RequestJudging
      BY <3>1, NoneAssumption, JudgingAssumption DEF RequestJudging, JudgingDated, TypeOK
    <3>2. CASE ~RequestJudging
      BY <1>1, <2>2, <3>2
      DEF Next, Finalize, AggregateRead, AggregateWrite, AggregateFail,
          FinalizeReplay, FinalizeOff, FinalizeLegacy, FinalizeNoConsensus,
          FinalizeDraw, Publish, SubmitJudgement, SetEligible, Tick, vars, row,
          JudgingDated
    <3> QED
      BY <3>1, <3>2
  <2>4. outcome # None => outcome' # None
    BY <1>1, NoneAssumption
    DEF Next, Finalize, AggregateRead, AggregateWrite, AggregateFail,
        RequestJudging, FinalizeReplay, FinalizeOff, FinalizeLegacy,
        FinalizeNoConsensus, FinalizeDraw, Publish, SubmitJudgement,
        SetEligible, Tick, vars, row, Outcome
  <2> QED
    BY <2>1, <2>2, <2>3, <2>4
<1>2. CASE QuietTime
  BY <1>2 DEF QuietTime, TypeOK, PublishedDecided, JudgingDated, row, judged
<1> QED
  BY <1>1, <1>2 DEF RowsMove

-------------------------------------------------------------------------------
(* Requests and the chains that wait for them.                             *)

Answers == {"ok", "early", "off", "refused", "failed"}

(* A request that somebody waits for.                                      *)
LEMMA WaitedFor ==
  ASSUME DriverInv, NEW r \in Request, call[r].by # None
  PROVE  /\ call[r].by \in Chain /\ call[r].op \in Op
         /\ chain[call[r].by] \in ChainState /\ chain[call[r].by].at = call[r].op
         /\ chain[call[r].by].tries \in 0 .. MaxAttempts - 1
         /\ chain[call[r].by].rearms \in 0 .. MaxAttempts - 1
         /\ chain[call[r].by].drives \in BOOLEAN
         /\ chain[call[r].by].at # "idle"
<1>1. call[r].by \in Chain /\ call[r].op \in Op /\ chain[call[r].by].at = call[r].op
  BY DEF DriverInv, CallsMatch, DriverTypeOK, CallState
<1>2. chain[call[r].by] \in ChainState
  BY <1>1 DEF DriverInv, DriverTypeOK
<1> QED
  BY <1>1, <1>2 DEF ChainState, Op

(* The API answers, or finds nobody waiting.                               *)
LEMMA ReplyMatches ==
  ASSUME DriverInv, RowsMove, chain' = chain,
         NEW r \in Request, call[r].op # "none", call[r].answer = "none",
         NEW a \in Answers, Reply(r, a), aggregating' \subseteq aggregating \ {r},
         a = "ok" => /\ call[r].op = "request" => deadline' # None
                     /\ call[r].op = "finalize" => outcome' # None
  PROVE  call' \in [Request -> CallState] /\ CallsMatch' /\ AnswersTrue'
<1>1. /\ call \in [Request -> CallState] /\ deadline' \in Int \cup {None}
      /\ deadline # None => deadline' = deadline
      /\ outcome # None => outcome' # None
  BY RowsTyped DEF DriverInv, DriverTypeOK, TypeOK
<1> PICK y : y = IF call[r].by = None THEN Free
                 ELSE [call[r] EXCEPT !.answer = a, !.due = deadline']
  OBVIOUS
<1>2. call' = [call EXCEPT ![r] = y]
  BY DEF Reply
<1>3. /\ y \in CallState
      /\ \/ y.by = None /\ y.answer = "none"
         \/ y.by = call[r].by /\ y.by # None /\ y.op = call[r].op /\ y.answer = a
            /\ y.due = deadline'
  <2>1. CASE call[r].by = None
    BY <2>1 DEF Free, CallState
  <2>2. CASE call[r].by # None
    <3>1. call[r] \in CallState
      BY <1>1
    <3>2. y = [op |-> call[r].op, by |-> call[r].by, answer |-> a, due |-> deadline']
      BY <2>2, <3>1 DEF CallState
    <3> QED
      BY <1>1, <2>2, <3>1, <3>2 DEF CallState, Answers
  <2> QED
    BY <2>1, <2>2
<1>4. call' \in [Request -> CallState]
  BY <1>1, <1>2, <1>3
<1>5. /\ call'[r] = y
      /\ \A q \in Request : q # r => call'[q] = call[q]
  BY <1>1, <1>2
<1>6. CallsMatch'
  <2> SUFFICES ASSUME NEW q \in Request
               PROVE  /\ call'[q].by # None => call'[q].op = chain[call'[q].by].at /\ call'[q].op \in Op
                      /\ call'[q].answer # "none" => call'[q].by # None
                      /\ \A p \in Request : call'[p].by = call'[q].by /\ call'[q].by # None => p = q
                      /\ q \in aggregating' => Asked(q, "aggregate")'
    BY DEF CallsMatch
  <2>a. \A p \in Request :
          /\ call[p].by # None => call[p].op = chain[call[p].by].at /\ call[p].op \in Op
          /\ call[p].answer # "none" => call[p].by # None
          /\ \A o \in Request : call[o].by = call[p].by /\ call[p].by # None => o = p
          /\ p \in aggregating => Asked(p, "aggregate")
    BY DEF DriverInv, CallsMatch
  <2>b. \A p \in Request : call'[p].by = None \/ (call'[p].by = call[p].by /\ call'[p].op = call[p].op)
    BY <1>3, <1>5
  <2>1. /\ call'[q].by # None => call'[q].op = chain[call'[q].by].at /\ call'[q].op \in Op
        /\ call'[q].answer # "none" => call'[q].by # None
    <3>1. call'[q].answer # "none" => call'[q].by # None
      BY <1>3, <1>5, <2>a
    <3> QED
      BY <2>a, <2>b, <3>1
  <2>2. \A p \in Request : call'[p].by = call'[q].by /\ call'[q].by # None => p = q
    BY <2>a, <2>b
  <2>3. q \in aggregating' => Asked(q, "aggregate")'
    BY <1>5, <2>a DEF Asked
  <2> QED
    BY <2>1, <2>2, <2>3
<1>7. AnswersTrue'
  <2> SUFFICES ASSUME NEW q \in Request, call'[q].answer = "ok"
               PROVE  /\ call'[q].op = "request" => deadline' # None /\ call'[q].due = deadline'
                      /\ call'[q].op = "finalize" => outcome' # None
    BY DEF AnswersTrue
  <2>1. CASE q = r
    BY <1>3, <1>5, <2>1
  <2>2. CASE q # r
    BY <1>1, <1>5, <2>2 DEF DriverInv, AnswersTrue
  <2> QED
    BY <2>1, <2>2
<1> QED
  BY <1>4, <1>6, <1>7

(* Nobody was answered.                                                    *)
LEMMA CallsStay ==
  ASSUME DriverInv, RowsMove, UNCHANGED <<chain, call>>,
         \A r \in aggregating' : r \in aggregating \/ Asked(r, "aggregate")
  PROVE  call' \in [Request -> CallState] /\ CallsMatch' /\ AnswersTrue'
<1>1. /\ deadline # None => deadline' = deadline
      /\ outcome # None => outcome' # None
  BY RowsTyped DEF DriverInv, DriverTypeOK
<1> QED
  BY <1>1 DEF DriverInv, DriverTypeOK, CallsMatch, AnswersTrue, Asked

(* A step of the API: the clock knows nothing of it yet, and what it has   *)
(* been told stays true.                                                   *)
LEMMA ApiKeeps ==
  ASSUME DriverInv, RowsMove, UNCHANGED <<chain, memory, view, skew>>,
         faults' \in 0 .. MaxFaults,
         call' \in [Request -> CallState], CallsMatch', AnswersTrue'
  PROVE  DriverInv'
<1> USE DEF DriverInv, memory, view
<1>1. /\ TypeOK' /\ PublishedDecided' /\ JudgingDated'
      /\ deadline # None => deadline' = deadline
      /\ outcome # None => outcome' # None
  BY RowsTyped DEF DriverTypeOK
<1>2. DriverTypeOK'
  BY <1>1 DEF DriverTypeOK
<1>3. SnapshotTrue'
  BY <1>1 DEF SnapshotTrue
<1>4. DriversRun' /\ RemembersTruly'
  BY <1>1 DEF DriversRun, RemembersTruly
<1>5. TimerFromRow'
  <2>1. timer # None => timer.at \in Int
    BY DEF DriverTypeOK, TimerState
  <2> QED
    BY <1>1, <2>1, NoneAssumption DEF TimerFromRow
<1>6. StopsRecorded'
  BY <1>1 DEF StopsRecorded, Resting
<1> QED
  BY <1>1, <1>2, <1>3, <1>4, <1>5, <1>6

LEMMA ServeKeeps ==
  ASSUME DriverInv, NEW r \in Request,
         ServeAggregate(r) \/ ServeRequest(r) \/ ServeFinalize(r)
  PROVE  DriverInv'
<1>1. RowsMove
  BY StepMovesRows DEF DriverNext
<1>2. /\ UNCHANGED <<chain, memory, view, skew, faults>> /\ faults \in 0 .. MaxFaults
      /\ call[r].answer = "none" /\ call[r].op # "none"
  BY DEF ServeAggregate, ServeRequest, ServeFinalize, Served, Asked, DriverInv, DriverTypeOK
<1>3. r \in aggregating => call[r].op = "aggregate"
  BY DEF DriverInv, CallsMatch, Asked
<1>4. CASE ServeAggregate(r)
  <2>1. CASE AggregateRead(r) /\ UNCHANGED call
    <3>1. \A q \in aggregating' : q \in aggregating \/ Asked(q, "aggregate")
      BY <1>4, <2>1 DEF AggregateRead, ServeAggregate
    <3> QED
      BY <1>1, <1>2, <2>1, <3>1, CallsStay, ApiKeeps
  <2>2. CASE Reply(r, "ok") /\ aggregating' \subseteq aggregating \ {r}
    <3>1. call[r].op = "aggregate"
      BY <1>4 DEF ServeAggregate, Asked
    <3> QED
      BY <1>1, <1>2, <2>2, <3>1, ReplyMatches, ApiKeeps DEF Answers
  <2>3. (AggregateWrite(r) \/ (r \notin aggregating /\ UNCHANGED vars))
           => aggregating' \subseteq aggregating \ {r}
    BY DEF AggregateWrite, vars
  <2>4. \/ AggregateRead(r) /\ UNCHANGED call
        \/ /\ AggregateWrite(r) \/ (r \notin aggregating /\ UNCHANGED vars)
           /\ Reply(r, "ok")
    BY <1>4 DEF ServeAggregate
  <2> QED
    BY <2>1, <2>2, <2>3, <2>4
<1>5. CASE ServeRequest(r)
  <2>1. call[r].op = "request" /\ r \notin aggregating
    BY <1>3, <1>5 DEF ServeRequest, Asked
  <2>2. aggregating' \subseteq aggregating \ {r}
    BY <1>5, <2>1 DEF ServeRequest, RequestJudging, vars
  <2>3. PICK a \in {"ok", "off", "refused"} :
          Reply(r, a) /\ (a = "ok" => RequestJudging \/ (deadline # None /\ UNCHANGED vars))
    BY <1>5 DEF ServeRequest
  <2>4. RequestJudging => deadline' # None
    BY NoneAssumption, JudgingAssumption
    DEF RequestJudging, DriverInv, DriverTypeOK, TypeOK
  <2>5. a = "ok" => deadline' # None
    BY <2>3, <2>4 DEF vars, row
  <2> QED
    BY <1>1, <1>2, <2>1, <2>2, <2>3, <2>5, ReplyMatches, ApiKeeps DEF Answers
<1>6. CASE ServeFinalize(r)
  <2>1. call[r].op = "finalize" /\ r \notin aggregating
    BY <1>3, <1>6 DEF ServeFinalize, Asked
  <2>2. aggregating' \subseteq aggregating \ {r}
    BY <1>6, <2>1 DEF ServeFinalize, Finalize, FinalizeReplay, FinalizeOff, FinalizeLegacy,
                      FinalizeNoConsensus, FinalizeDraw, Publish, vars
  <2>3. PICK a \in {"ok", "early", "refused"} : Reply(r, a) /\ (a = "ok" => Finalize)
    BY <1>6 DEF ServeFinalize
  <2>4. Finalize => outcome' # None
    <3>1. CASE FinalizeReplay
      BY <3>1 DEF FinalizeReplay, row, DriverInv, PublishedDecided
    <3>2. CASE Finalize /\ ~FinalizeReplay
      BY <3>2, NoneAssumption
      DEF Finalize, FinalizeOff, FinalizeLegacy, FinalizeNoConsensus, FinalizeDraw,
          Publish, Outcome
    <3> QED
      BY <3>1, <3>2
  <2> QED
    BY <1>1, <1>2, <2>1, <2>2, <2>3, <2>4, ReplyMatches, ApiKeeps DEF Answers
<1> QED
  BY <1>4, <1>5, <1>6

LEMMA FaultBounded ==
  ASSUME DriverInv, Fault PROVE faults' \in 0 .. MaxFaults
BY DriverAssumption DEF DriverInv, DriverTypeOK, Fault

LEMMA FailKeeps ==
  ASSUME DriverInv, NEW r \in Request, FailAtApi(r)
  PROVE  DriverInv'
<1>1. RowsMove
  BY StepMovesRows DEF DriverNext
<1>2. /\ UNCHANGED <<chain, memory, view, skew>> /\ Fault /\ Reply(r, "failed")
      /\ call[r].op # "none" /\ call[r].answer = "none"
      /\ aggregating' \subseteq aggregating \ {r}
  BY DEF FailAtApi, AggregateFail, vars
<1> QED
  BY <1>1, <1>2, FaultBounded, ReplyMatches, ApiKeeps DEF Answers

LEMMA WorldKeeps ==
  ASSUME DriverInv, Time \/ Judging
  PROVE  DriverInv'
<1>1. RowsMove
  BY StepMovesRows DEF DriverNext
<1>2. UNCHANGED <<chain, call, memory, view, skew, faults>> /\ aggregating' = aggregating
  BY DEF Time, Judging, Tick, SubmitJudgement
<1>3. faults \in 0 .. MaxFaults
  BY DEF DriverInv, DriverTypeOK
<1> QED
  BY <1>1, <1>2, <1>3, CallsStay, ApiKeeps

-------------------------------------------------------------------------------
(* The clock's side: the rows of the API stand still.                      *)

(* How a chain goes on: it keeps its mark; and how it ends.                *)
GoesOn(c, x) == x.at # "idle" /\ x.drives = chain[c].drives /\ driving' = driving
Ends(c, x)   == x = Idle /\ driving' = (driving /\ ~chain[c].drives)

LEMMA FreeState == Free \in CallState /\ Free.by = None /\ Free.answer = "none"
BY DEF Free, CallState

LEMMA RestingState == Idle \in ChainState /\ Idle.at = "idle" /\ Idle.drives = FALSE
BY DriverAssumption DEF Idle, ChainState

LEMMA TimerState1 ==
  ASSUME NEW at \in Int, NEW n \in 0 .. MaxAttempts - 1
  PROVE  /\ [at |-> at, rearms |-> n] \in TimerState
         /\ [at |-> at, rearms |-> n] # None
BY DriverAssumption DEF TimerState

LEMMA ChainAt ==
  ASSUME DriverInv, NEW c \in Chain, NEW op \in Op, NEW n \in 0 .. MaxAttempts - 1,
         At(c, op, n)
  PROVE  \E x \in ChainState : /\ chain' = [chain EXCEPT ![c] = x]
                               /\ x.at = op /\ x.rearms = n /\ x.drives = chain[c].drives
<1>1. chain[c] \in ChainState /\ chain \in [Chain -> ChainState]
  BY DEF DriverInv, DriverTypeOK
<1> DEFINE x == [at |-> op, tries |-> 0, rearms |-> n, drives |-> chain[c].drives]
<1>2. x \in ChainState
  BY <1>1, DriverAssumption DEF ChainState
<1>3. x.at = op /\ x.rearms = n /\ x.drives = chain[c].drives
  OBVIOUS
<1>4. [[[chain[c] EXCEPT !.at = op] EXCEPT !.tries = 0] EXCEPT !.rearms = n] = x
  <2>1. PICK y \in ChainState : y = chain[c]
    BY <1>1
  <2>2. y = [at |-> y.at, tries |-> y.tries, rearms |-> y.rearms, drives |-> y.drives]
    BY DEF ChainState
  <2>3. PICK y1 : y1 = [y EXCEPT !.at = op]
    OBVIOUS
  <2>4. y1 = [at |-> op, tries |-> y.tries, rearms |-> y.rearms, drives |-> y.drives]
    BY <2>2, <2>3
  <2>5. PICK y2 : y2 = [y1 EXCEPT !.tries = 0]
    OBVIOUS
  <2>6. y2 = [at |-> op, tries |-> 0, rearms |-> y.rearms, drives |-> y.drives]
    BY <2>4, <2>5
  <2>7. [y2 EXCEPT !.rearms = n] = [at |-> op, tries |-> 0, rearms |-> n, drives |-> y.drives]
    BY <2>6
  <2> QED
    BY <2>1, <2>3, <2>5, <2>7
<1>5. chain' = [chain EXCEPT ![c] = [[[chain[c] EXCEPT !.at = op] EXCEPT !.tries = 0] EXCEPT !.rearms = n]]
  <2> HIDE DEF x
  <2> QED
    BY <1>1 DEF At
<1>6. chain' = [chain EXCEPT ![c] = x]
  <2> HIDE DEF x
  <2> QED
    BY <1>4, <1>5
<1> HIDE DEF x
<1> QED
  BY <1>2, <1>3, <1>6

(* A call that nobody waits for any more: its chain c went on to x, and    *)
(* the request is free, or still running.                                  *)
GivenUp(r, c, x) ==
  /\ chain' = [chain EXCEPT ![c] = x]
  /\ \/ call[r].answer # "none" /\ call' = [call EXCEPT ![r] = Free]
     \/ call[r].answer = "none" /\ call' = [call EXCEPT ![r].by = None]

LEMMA GivenUpKeeps ==
  ASSUME DriverInv, UNCHANGED vars, NEW r \in Request, NEW c \in Chain, call[r].by = c,
         NEW x \in ChainState, GivenUp(r, c, x)
  PROVE  /\ chain' \in [Chain -> ChainState] /\ call' \in [Request -> CallState]
         /\ CallsMatch' /\ AnswersTrue' /\ chain'[c] = x
<1>1. /\ chain \in [Chain -> ChainState] /\ call \in [Request -> CallState]
      /\ UNCHANGED <<deadline, outcome, aggregating>>
  BY DEF DriverInv, DriverTypeOK, vars, row
<1>2. call[r] \in CallState
  BY <1>1
<1> PICK y : y = IF call[r].answer = "none" THEN [call[r] EXCEPT !.by = None] ELSE Free
  OBVIOUS
<1>3. call' = [call EXCEPT ![r] = y]
  BY DEF GivenUp
<1>4. y \in CallState /\ y.by = None /\ y.answer = "none"
      /\ (call[r].answer = "none" => y.op = call[r].op)
  BY <1>2 DEF CallState, Free
<1>5. /\ chain' \in [Chain -> ChainState] /\ chain'[c] = x
      /\ \A d \in Chain : d # c => chain'[d] = chain[d]
  BY <1>1 DEF GivenUp
<1>6. /\ call' \in [Request -> CallState] /\ call'[r] = y
      /\ \A q \in Request : q # r => call'[q] = call[q]
  BY <1>1, <1>3, <1>4
<1>7. \A p \in Request :
        /\ call[p].by # None => call[p].by \in Chain
        /\ call[p].by # None => call[p].op = chain[call[p].by].at /\ call[p].op \in Op
        /\ call[p].answer # "none" => call[p].by # None
        /\ \A o \in Request : call[o].by = call[p].by /\ call[p].by # None => o = p
        /\ p \in aggregating => call[p].op = "aggregate" /\ call[p].answer = "none"
  BY WaitedFor DEF DriverInv, CallsMatch, Asked
<1>8. c # None
  BY DriverAssumption
<1>9. \A q \in Request : q # r => call[q].by # c
  BY <1>7, <1>8
<1>10. CallsMatch'
  <2> SUFFICES ASSUME NEW q \in Request
               PROVE  /\ call'[q].by # None => call'[q].op = chain'[call'[q].by].at /\ call'[q].op \in Op
                      /\ call'[q].answer # "none" => call'[q].by # None
                      /\ \A p \in Request : call'[p].by = call'[q].by /\ call'[q].by # None => p = q
                      /\ q \in aggregating' => call'[q].op = "aggregate" /\ call'[q].answer = "none"
    BY DEF CallsMatch, Asked
  <2>1. CASE q = r
    BY <1>1, <1>4, <1>6, <1>7, <2>1
  <2>2. CASE q # r
    <3>1. call'[q] = call[q] /\ call[q].by # c
      BY <1>6, <1>9, <2>2
    <3>2. call[q].by # None => chain'[call[q].by] = chain[call[q].by]
      BY <1>5, <1>7, <3>1
    <3>3. \A p \in Request : call'[p].by = call'[q].by /\ call'[q].by # None => p = q
      <4> SUFFICES ASSUME NEW p \in Request, call'[p].by = call'[q].by, call'[q].by # None
                   PROVE  p = q
        OBVIOUS
      <4>1. p # r
        BY <1>4, <1>6
      <4>2. call[p].by = call[q].by /\ call[q].by # None
        BY <1>6, <3>1, <4>1
      <4> QED
        BY <1>7, <4>2
    <3> QED
      BY <1>1, <1>7, <3>1, <3>2, <3>3
  <2> QED
    BY <2>1, <2>2
<1>11. AnswersTrue'
  <2> SUFFICES ASSUME NEW q \in Request, call'[q].answer = "ok"
               PROVE  /\ call'[q].op = "request" => deadline' # None /\ call'[q].due = deadline'
                      /\ call'[q].op = "finalize" => outcome' # None
    BY DEF AnswersTrue
  <2>1. q # r
    BY <1>4, <1>6
  <2>2. call'[q] = call[q]
    BY <1>6, <2>1
  <2> QED
    BY <1>1, <2>2 DEF DriverInv, AnswersTrue
<1> QED
  BY <1>5, <1>6, <1>10, <1>11

(* The mark after a chain went on or ended.                                *)
LEMMA MarkKept ==
  ASSUME DriverInv, NEW c \in Chain, NEW x \in ChainState, chain[c].at # "idle",
         chain' = [chain EXCEPT ![c] = x], GoesOn(c, x) \/ Ends(c, x)
  PROVE  DriversRun' /\ driving' \in BOOLEAN
<1>1. /\ chain \in [Chain -> ChainState] /\ driving \in BOOLEAN
      /\ chain[c].drives \in BOOLEAN
      /\ driving => \E d \in Chain : chain[d].drives
      /\ \A d \in Chain : chain[d].drives => chain[d].at # "idle"
  <2>1. chain[c] \in ChainState
    BY DEF DriverInv, DriverTypeOK
  <2> QED
    BY <2>1 DEF DriverInv, DriverTypeOK, DriversRun, ChainState
<1>2. chain'[c] = x /\ \A d \in Chain : d # c => chain'[d] = chain[d]
  BY <1>1
<1>3. CASE GoesOn(c, x)
  BY <1>1, <1>2, <1>3 DEF GoesOn, DriversRun
<1>4. CASE Ends(c, x)
  BY <1>1, <1>2, <1>4, RestingState DEF Ends, DriversRun
<1> QED
  BY <1>3, <1>4

(* What a step of the clock that follows an answer, or its loss, still has *)
(* to show.                                                                *)
LEMMA AnswerKeeps ==
  ASSUME DriverInv, UNCHANGED <<vars, view, skew>>, faults' \in 0 .. MaxFaults,
         NEW r \in Request, NEW c \in Chain, call[r].by = c,
         NEW x \in ChainState, GivenUp(r, c, x), GoesOn(c, x) \/ Ends(c, x),
         timer' = None \/ timer' \in TimerState,
         published' \in BOOLEAN, exhausted' \subseteq Op, refused' \subseteq Op,
         RemembersTruly', TimerFromRow',
         outcome = None => \/ x.at # "idle" \/ timer' # None
                           \/ exhausted' # {} \/ refused' # {}
  PROVE  DriverInv'
<1>1. UNCHANGED <<vars, current, snapshot, hints, skew>>
  BY DEF view
<1>2. UNCHANGED <<deadline, outcome, state>>
  BY <1>1 DEF vars, row
<1>3. TypeOK' /\ PublishedDecided' /\ JudgingDated'
  BY <1>1, RowsTyped DEF RowsMove, DriverInv, DriverTypeOK
<1>4. /\ chain' \in [Chain -> ChainState] /\ call' \in [Request -> CallState]
      /\ CallsMatch' /\ AnswersTrue' /\ chain'[c] = x
  BY <1>1, GivenUpKeeps
<1>5. DriversRun' /\ driving' \in BOOLEAN
  <2>1. chain[c].at # "idle"
    BY WaitedFor, DriverAssumption
  <2> QED
    BY <2>1, MarkKept DEF GivenUp
<1>6. DriverTypeOK'
  BY <1>1, <1>3, <1>4, <1>5 DEF DriverInv, DriverTypeOK
<1>7. SnapshotTrue'
  BY <1>1, <1>2 DEF DriverInv, SnapshotTrue
<1>8. StopsRecorded'
  <2>1. x.at # "idle" => Resting' # Chain
    BY <1>4 DEF Resting
  <2> QED
    BY <1>2, <2>1 DEF StopsRecorded
<1> QED
  BY <1>3, <1>4, <1>5, <1>6, <1>7, <1>8 DEF DriverInv

(* Another attempt, or the end of the budget.                              *)
LEMMA RetryMoves ==
  ASSUME DriverInv, NEW r \in Request, NEW c \in Chain, call[r].by = c, Retry(c)
  PROVE  \E x \in ChainState :
           /\ chain' = [chain EXCEPT ![c] = x]
           /\ GoesOn(c, x) \/ Ends(c, x)
           /\ exhausted' \subseteq Op
           /\ x.at # "idle" \/ exhausted' # {}
           /\ exhausted \subseteq exhausted'
<1>1. /\ chain[c] \in ChainState /\ chain \in [Chain -> ChainState]
      /\ chain[c].at \in Op /\ chain[c].at # "idle" /\ chain[c].tries \in 0 .. MaxAttempts - 1
      /\ exhausted \subseteq Op
  <2>1. c # None
    BY DriverAssumption
  <2> QED
    BY <2>1, WaitedFor DEF DriverInv, DriverTypeOK
<1>2. CASE chain[c].tries + 1 < MaxAttempts
  <2> PICK x : x = [chain[c] EXCEPT !.tries = @ + 1]
    OBVIOUS
  <2>1. chain' = [chain EXCEPT ![c] = x] /\ UNCHANGED <<driving, exhausted>>
    BY <1>2 DEF Retry
  <2>2. x \in ChainState /\ x.at = chain[c].at /\ x.drives = chain[c].drives
    BY <1>1, <1>2, DriverAssumption DEF ChainState
  <2> QED
    BY <1>1, <2>1, <2>2 DEF GoesOn
<1>3. CASE ~(chain[c].tries + 1 < MaxAttempts)
  <2>1. /\ chain' = [chain EXCEPT ![c] = Idle]
        /\ driving' = (driving /\ ~chain[c].drives)
        /\ exhausted' = exhausted \cup {chain[c].at}
    BY <1>3 DEF Retry, End
  <2> QED
    BY <1>1, <2>1, RestingState DEF Ends
<1> QED
  BY <1>2, <1>3

LEMMA LoseKeeps ==
  ASSUME DriverInv, NEW r \in Request, Lose(r) \/ ReceiveFailed(r)
  PROVE  DriverInv'
<1>1. call[r].by # None
  BY DEF Lose, ReceiveFailed, DriverInv, CallsMatch
<1> PICK c : c = call[r].by
  OBVIOUS
<1>2. c \in Chain
  BY <1>1, WaitedFor
<1>3. /\ Retry(c) /\ UNCHANGED <<vars, timer, published, refused, view, skew>>
      /\ \/ call[r].answer # "none" /\ call' = [call EXCEPT ![r] = Free]
         \/ call[r].answer = "none" /\ call' = [call EXCEPT ![r].by = None]
  BY DEF Lose, ReceiveFailed, Release
<1>4. faults' \in 0 .. MaxFaults
  BY FaultBounded DEF Lose, ReceiveFailed, DriverInv, DriverTypeOK
<1>5. PICK x \in ChainState :
        /\ chain' = [chain EXCEPT ![c] = x]
        /\ GoesOn(c, x) \/ Ends(c, x)
        /\ exhausted' \subseteq Op
        /\ x.at # "idle" \/ exhausted' # {}
        /\ exhausted \subseteq exhausted'
  BY <1>2, <1>3, RetryMoves
<1>6. GivenUp(r, c, x)
  BY <1>3, <1>5 DEF GivenUp
<1>7. RemembersTruly' /\ TimerFromRow'
  BY <1>3 DEF DriverInv, RemembersTruly, TimerFromRow, vars, row
<1>8. /\ timer' = None \/ timer' \in TimerState
      /\ published' \in BOOLEAN /\ refused' \subseteq Op
  BY <1>3 DEF DriverInv, DriverTypeOK
<1> QED
  BY <1>2, <1>3, <1>4, <1>5, <1>6, <1>7, <1>8, AnswerKeeps

(* What every received answer comes with.                                  *)
LEMMA Received ==
  ASSUME DriverInv, NEW r \in Request, call[r].answer # "none"
  PROVE  /\ call[r].by \in Chain /\ call[r].op \in Op
         /\ chain[call[r].by].rearms \in 0 .. MaxAttempts - 1
         /\ faults \in 0 .. MaxFaults /\ published \in BOOLEAN
         /\ exhausted \subseteq Op /\ refused \subseteq Op
         /\ timer = None \/ timer \in TimerState
         /\ now + skew \in Int
         /\ 0 \in 0 .. MaxAttempts - 1 /\ Idle \in ChainState
<1>1. call[r].by # None
  BY DEF DriverInv, CallsMatch
<1>2. now + skew \in Int
  BY DriverAssumption DEF DriverInv, DriverTypeOK, TypeOK
<1> QED
  BY <1>1, <1>2, WaitedFor, RestingState, DriverAssumption DEF DriverInv, DriverTypeOK

LEMMA AggregatedKeeps ==
  ASSUME DriverInv, NEW r \in Request, ReceiveAggregated(r)
  PROVE  DriverInv'
<1>1. /\ call[r].answer = "ok" /\ Release(r) /\ At(call[r].by, "request", 0)
      /\ exhausted' = exhausted \ {"aggregate"}
      /\ UNCHANGED <<vars, refused, view, skew, faults, timer, driving, published>>
  BY DEF ReceiveAggregated, Succeeds
<1>2. PICK c \in Chain : c = call[r].by
  BY <1>1, Received
<1>3. PICK x \in ChainState : /\ chain' = [chain EXCEPT ![c] = x]
                              /\ x.at = "request" /\ x.drives = chain[c].drives
  BY <1>1, <1>2, Received, ChainAt DEF Op
<1>4. GivenUp(r, c, x) /\ GoesOn(c, x) /\ x.at # "idle"
  BY <1>1, <1>3 DEF GivenUp, GoesOn, Release
<1>5. RemembersTruly' /\ TimerFromRow'
  BY <1>1 DEF DriverInv, RemembersTruly, TimerFromRow, vars, row
<1>6. /\ timer' = None \/ timer' \in TimerState
      /\ published' \in BOOLEAN /\ exhausted' \subseteq Op /\ refused' \subseteq Op
      /\ faults' \in 0 .. MaxFaults
  BY <1>1, Received
<1> QED
  BY <1>1, <1>2, <1>4, <1>5, <1>6, AnswerKeeps

LEMMA DeadlineKeeps ==
  ASSUME DriverInv, NEW r \in Request, ReceiveDeadline(r)
  PROVE  DriverInv'
<1>1. /\ call[r].answer = "ok" /\ call[r].op = "request" /\ Release(r)
      /\ ParkOrFinalize(call[r].by, call[r].due)
      /\ exhausted' = exhausted \ {"request"}
      /\ UNCHANGED <<vars, refused, view, skew, faults, published>>
  BY DEF ReceiveDeadline, Succeeds
<1>2. PICK c \in Chain : c = call[r].by
  BY <1>1, Received
<1>3. call[r].due = deadline /\ deadline # None /\ deadline \in Int
  BY <1>1 DEF DriverInv, AnswersTrue, DriverTypeOK, TypeOK
<1>4. /\ published' \in BOOLEAN /\ exhausted' \subseteq Op /\ refused' \subseteq Op
      /\ faults' \in 0 .. MaxFaults
  BY <1>1, Received
<1>5. RemembersTruly' /\ UNCHANGED <<deadline, outcome>>
  BY <1>1 DEF DriverInv, RemembersTruly, vars, row
<1>6. CASE End(c) /\ Arm(deadline, 0)
  <2>1. GivenUp(r, c, Idle) /\ Ends(c, Idle)
    BY <1>1, <1>6 DEF GivenUp, Ends, End, Release
  <2>2. timer' \in TimerState /\ timer' # None /\ timer'.at = deadline
    BY <1>3, <1>6, Received, <1>1, TimerState1 DEF Arm
  <2>3. TimerFromRow'
    BY <1>5, <2>2 DEF TimerFromRow
  <2> QED
    BY <1>1, <1>2, <1>4, <1>5, <2>1, <2>2, <2>3, Received, AnswerKeeps
<1>7. CASE published /\ End(c) /\ UNCHANGED timer
  <2>1. GivenUp(r, c, Idle) /\ Ends(c, Idle)
    BY <1>1, <1>7 DEF GivenUp, Ends, End, Release
  <2>2. outcome # None
    BY <1>7 DEF DriverInv, RemembersTruly
  <2>3. TimerFromRow'
    BY <1>5, <1>7 DEF DriverInv, TimerFromRow
  <2> QED
    BY <1>1, <1>2, <1>4, <1>5, <1>7, <2>1, <2>2, <2>3, Received, AnswerKeeps
<1>8. CASE At(c, "finalize", 0) /\ UNCHANGED <<timer, driving>>
  <2>1. PICK x \in ChainState : /\ chain' = [chain EXCEPT ![c] = x]
                                /\ x.at = "finalize" /\ x.drives = chain[c].drives
    BY <1>1, <1>2, <1>8, Received, ChainAt DEF Op
  <2>2. GivenUp(r, c, x) /\ GoesOn(c, x) /\ x.at # "idle"
    BY <1>1, <1>8, <2>1 DEF GivenUp, GoesOn, Release
  <2>3. TimerFromRow'
    BY <1>5, <1>8 DEF DriverInv, TimerFromRow
  <2> QED
    BY <1>1, <1>2, <1>4, <1>5, <1>8, <2>2, <2>3, Received, AnswerKeeps
<1> QED
  BY <1>1, <1>2, <1>3, <1>6, <1>7, <1>8 DEF ParkOrFinalize

LEMMA PublishedKeeps ==
  ASSUME DriverInv, NEW r \in Request, ReceivePublished(r)
  PROVE  DriverInv'
<1>1. /\ call[r].answer = "ok" /\ call[r].op = "finalize" /\ Release(r)
      /\ End(call[r].by) /\ published' = TRUE /\ timer' = None
      /\ exhausted' = exhausted \ {"finalize"}
      /\ UNCHANGED <<vars, refused, view, skew, faults>>
  BY DEF ReceivePublished, Succeeds
<1>2. PICK c \in Chain : c = call[r].by
  BY <1>1, Received
<1>3. outcome # None /\ outcome' = outcome
  BY <1>1 DEF DriverInv, AnswersTrue, vars, row
<1>4. GivenUp(r, c, Idle) /\ Ends(c, Idle)
  BY <1>1, <1>2 DEF GivenUp, Ends, End, Release
<1>5. RemembersTruly' /\ TimerFromRow'
  BY <1>1, <1>3 DEF RemembersTruly, TimerFromRow
<1>6. published' \in BOOLEAN /\ exhausted' \subseteq Op /\ refused' \subseteq Op
      /\ faults' \in 0 .. MaxFaults
  BY <1>1, Received
<1> QED
  BY <1>1, <1>2, <1>3, <1>4, <1>5, <1>6, Received, AnswerKeeps

LEMMA EarlyKeeps ==
  ASSUME DriverInv, NEW r \in Request, ReceiveEarly(r)
  PROVE  DriverInv'
<1>1. /\ call[r].answer = "early" /\ Release(r) /\ End(call[r].by)
      /\ UNCHANGED <<vars, published, refused, view, skew, faults>>
  BY DEF ReceiveEarly
<1>2. PICK c \in Chain : c = call[r].by
  BY <1>1, Received
<1>3. GivenUp(r, c, Idle) /\ Ends(c, Idle)
  BY <1>1, <1>2 DEF GivenUp, Ends, End, Release
<1>4. RemembersTruly' /\ UNCHANGED <<deadline, outcome>>
  BY <1>1 DEF DriverInv, RemembersTruly, vars, row
<1>5. published' \in BOOLEAN /\ refused' \subseteq Op /\ faults' \in 0 .. MaxFaults
  BY <1>1, Received
<1>6. PICK spent : spent = chain[c].rearms + 1
  OBVIOUS
<1>7. spent \in Nat /\ spent > 0
  BY <1>1, <1>2, <1>6, Received
<1>8. CASE spent >= MaxAttempts
  <2>1. exhausted' = exhausted \cup {"finalize"} /\ UNCHANGED timer
    BY <1>2, <1>6, <1>8 DEF ReceiveEarly
  <2>2. exhausted' \subseteq Op /\ exhausted' # {}
    BY <1>1, <2>1, Received DEF Op
  <2>3. TimerFromRow'
    BY <1>4, <2>1 DEF DriverInv, TimerFromRow
  <2> QED
    BY <1>1, <1>2, <1>3, <1>4, <1>5, <2>1, <2>2, <2>3, Received, AnswerKeeps
<1>9. CASE ~(spent >= MaxAttempts)
  <2>1. Arm(Local + 1, spent) /\ UNCHANGED exhausted
    BY <1>2, <1>6, <1>9 DEF ReceiveEarly
  <2>2. Local + 1 \in Int /\ spent \in 0 .. MaxAttempts - 1
    BY <1>1, <1>7, <1>9, Received, DriverAssumption DEF Local
  <2>3. timer' \in TimerState /\ timer' # None /\ timer'.rearms = spent
    BY <2>1, <2>2, TimerState1 DEF Arm
  <2>4. TimerFromRow'
    BY <1>7, <2>3 DEF TimerFromRow
  <2> QED
    BY <1>1, <1>2, <1>3, <1>4, <1>5, <2>1, <2>3, <2>4, Received, AnswerKeeps
<1> QED
  BY <1>8, <1>9

LEMMA OffKeeps ==
  ASSUME DriverInv, NEW r \in Request, ReceiveOff(r)
  PROVE  DriverInv'
<1>1. /\ call[r].answer = "off" /\ Release(r)
      /\ UNCHANGED <<vars, timer, published, exhausted, refused, view, skew, faults>>
  BY DEF ReceiveOff
<1>2. PICK c \in Chain : c = call[r].by
  BY <1>1, Received
<1>3. RemembersTruly' /\ TimerFromRow' /\ UNCHANGED outcome
  BY <1>1 DEF DriverInv, RemembersTruly, TimerFromRow, vars, row
<1>4. /\ timer' = None \/ timer' \in TimerState
      /\ published' \in BOOLEAN /\ exhausted' \subseteq Op /\ refused' \subseteq Op
      /\ faults' \in 0 .. MaxFaults
  BY <1>1, Received
<1>5. CASE published
  <2>1. GivenUp(r, c, Idle) /\ Ends(c, Idle)
    BY <1>1, <1>2, <1>5 DEF GivenUp, Ends, End, Release, ReceiveOff
  <2>2. outcome # None
    BY <1>5 DEF DriverInv, RemembersTruly
  <2> QED
    BY <1>1, <1>2, <1>3, <1>4, <2>1, <2>2, Received, AnswerKeeps
<1>6. CASE ~published
  <2>1. At(c, "finalize", 0) /\ UNCHANGED driving
    BY <1>2, <1>6 DEF ReceiveOff
  <2>2. PICK x \in ChainState : /\ chain' = [chain EXCEPT ![c] = x]
                                /\ x.at = "finalize" /\ x.drives = chain[c].drives
    BY <1>1, <1>2, <2>1, Received, ChainAt DEF Op
  <2>3. GivenUp(r, c, x) /\ GoesOn(c, x) /\ x.at # "idle"
    BY <1>1, <2>1, <2>2 DEF GivenUp, GoesOn, Release
  <2> QED
    BY <1>1, <1>2, <1>3, <1>4, <2>3, AnswerKeeps
<1> QED
  BY <1>5, <1>6

LEMMA RefusedKeeps ==
  ASSUME DriverInv, NEW r \in Request, ReceiveRefused(r)
  PROVE  DriverInv'
<1>1. /\ call[r].answer = "refused" /\ Release(r) /\ End(call[r].by)
      /\ refused' = refused \cup {call[r].op}
      /\ UNCHANGED <<vars, timer, published, exhausted, view, skew, faults>>
  BY DEF ReceiveRefused
<1>2. PICK c \in Chain : c = call[r].by
  BY <1>1, Received
<1>3. RemembersTruly' /\ TimerFromRow'
  BY <1>1 DEF DriverInv, RemembersTruly, TimerFromRow, vars, row
<1>4. /\ timer' = None \/ timer' \in TimerState
      /\ published' \in BOOLEAN /\ exhausted' \subseteq Op
      /\ refused' \subseteq Op /\ refused' # {} /\ faults' \in 0 .. MaxFaults
  BY <1>1, Received
<1>5. GivenUp(r, c, Idle) /\ Ends(c, Idle)
  BY <1>1, <1>2 DEF GivenUp, Ends, End, Release
<1> QED
  BY <1>1, <1>2, <1>3, <1>4, <1>5, Received, AnswerKeeps

LEMMA ReceiveKeeps ==
  ASSUME DriverInv, NEW r \in Request, Receive(r)
  PROVE  DriverInv'
BY LoseKeeps, AggregatedKeeps, DeadlineKeeps, PublishedKeeps, EarlyKeeps, OffKeeps,
   RefusedKeeps DEF Receive

-------------------------------------------------------------------------------
(* Chains begin.                                                           *)

LEMMA StartKeeps ==
  ASSUME DriverInv, UNCHANGED <<vars, call>>, NEW c \in Resting,
         NEW x \in ChainState, x.at \in Op, chain' = [chain EXCEPT ![c] = x]
  PROVE  /\ chain' \in [Chain -> ChainState] /\ CallsMatch' /\ AnswersTrue'
         /\ c \in Chain /\ chain[c].at = "idle" /\ chain'[c] = x /\ x.at # "idle"
         /\ \A d \in Chain : d # c => chain'[d] = chain[d]
         /\ Resting' # Chain
<1>1. /\ chain \in [Chain -> ChainState] /\ c \in Chain /\ chain[c].at = "idle"
      /\ UNCHANGED <<deadline, outcome, aggregating>> /\ x.at # "idle"
  BY DEF DriverInv, DriverTypeOK, Resting, vars, row, Op
<1>2. /\ chain' \in [Chain -> ChainState] /\ chain'[c] = x
      /\ \A d \in Chain : d # c => chain'[d] = chain[d]
  BY <1>1
<1>3. \A q \in Request : call[q].by # None => /\ call[q].by \in Chain /\ call[q].by # c
  <2> SUFFICES ASSUME NEW q \in Request, call[q].by # None
               PROVE  call[q].by \in Chain /\ call[q].by # c
    OBVIOUS
  <2>1. call[q].by \in Chain /\ chain[call[q].by].at # "idle"
    BY WaitedFor
  <2> QED
    BY <1>1, <2>1
<1>4. CallsMatch'
  BY <1>1, <1>2, <1>3 DEF DriverInv, CallsMatch, Asked
<1>5. AnswersTrue'
  BY <1>1 DEF DriverInv, AnswersTrue
<1>6. Resting' # Chain
  BY <1>1, <1>2 DEF Resting
<1> QED
  BY <1>1, <1>2, <1>4, <1>5, <1>6

(* The rest of the invariant, for a step that answers no call.             *)
LEMMA ViewKeeps ==
  ASSUME DriverInv, UNCHANGED <<vars, skew>>,
         chain' \in [Chain -> ChainState], call' \in [Request -> CallState],
         CallsMatch', AnswersTrue', DriversRun', driving' \in BOOLEAN,
         timer' = None \/ timer' \in TimerState, TimerFromRow',
         published' \in BOOLEAN, RemembersTruly',
         exhausted' \subseteq Op, refused' \subseteq Op,
         current' \in BOOLEAN, hints' \subseteq {"answer", "event"},
         faults' \in 0 .. MaxFaults,
         \/ snapshot' \in {None, snapshot}
         \/ snapshot' = [state |-> state, due |-> deadline],
         StopsRecorded'
  PROVE  DriverInv'
<1>1. TypeOK' /\ PublishedDecided' /\ JudgingDated' /\ UNCHANGED <<state, deadline, outcome>>
  BY RowsTyped DEF RowsMove, DriverInv, DriverTypeOK, vars, row
<1>2. SnapshotTrue' /\ (snapshot' = None \/ snapshot'.state \in
         {"window_closed", "aggregated", "judging", "judged", "published"})
  <2>1. CASE snapshot' \in {None, snapshot}
    BY <1>1, <2>1 DEF DriverInv, DriverTypeOK, SnapshotTrue
  <2>2. CASE snapshot' = [state |-> state, due |-> deadline]
    BY <1>1, <2>2
    DEF DriverInv, DriverTypeOK, TypeOK, SnapshotTrue, JudgingDated, PublishedDecided
  <2> QED
    BY <2>1, <2>2
<1>3. DriverTypeOK'
  BY <1>1, <1>2 DEF DriverInv, DriverTypeOK
<1> QED
  BY <1>1, <1>2, <1>3 DEF DriverInv

(* What a recorded state makes of a chain, a timer and the mark.           *)
LEMMA ResumeKeeps ==
  ASSUME DriverInv, NEW s, NEW held, NEW driven \in BOOLEAN, Resume(s, held, driven),
         UNCHANGED <<vars, call, published, exhausted, refused, skew, faults>>,
         s.state = "judging" => s.due = deadline /\ deadline # None,
         held \in {None, timer}, driven => driving,
         current' \in BOOLEAN, hints' \subseteq {"answer", "event"},
         snapshot' \in {None, snapshot}
  PROVE  DriverInv'
<1>1. UNCHANGED <<state, deadline, outcome, aggregating>>
  BY DEF vars, row
<1>2. /\ chain \in [Chain -> ChainState] /\ call' \in [Request -> CallState]
      /\ timer = None \/ timer \in TimerState
      /\ published' \in BOOLEAN /\ exhausted' \subseteq Op /\ refused' \subseteq Op
      /\ faults' \in 0 .. MaxFaults /\ deadline \in Int \cup {None}
  BY DEF DriverInv, DriverTypeOK, TypeOK
<1>3. RemembersTruly'
  BY <1>1 DEF DriverInv, RemembersTruly
<1>4. timer = None \/ timer.at = deadline \/ timer.rearms > 0
  BY DEF DriverInv, TimerFromRow
<1>5. ASSUME UNCHANGED chain PROVE CallsMatch' /\ AnswersTrue'
  BY <1>1, <1>5 DEF DriverInv, CallsMatch, AnswersTrue, Asked
<1>6. CASE /\ published \/ driven \/ held # None
           /\ timer' = held /\ driving' = driven /\ UNCHANGED chain
  <2>1. /\ timer' = None \/ timer' \in TimerState
        /\ TimerFromRow' /\ driving' \in BOOLEAN
    BY <1>1, <1>2, <1>4, <1>6 DEF TimerFromRow
  <2>2. DriversRun'
    BY <1>6 DEF DriverInv, DriversRun
  <2>3. published => outcome # None
    BY DEF DriverInv, RemembersTruly
  <2>4. driven => Resting' # Chain
    BY <1>6 DEF DriverInv, DriversRun, Resting
  <2>5. StopsRecorded'
    BY <1>1, <1>6, <2>3, <2>4 DEF StopsRecorded
  <2>6. chain' \in [Chain -> ChainState]
    BY <1>2, <1>6
  <2> QED
    BY <1>2, <1>3, <1>5, <1>6, <2>1, <2>2, <2>5, <2>6, ViewKeeps
<1>7. CASE /\ s.state = "judging" /\ Arm(s.due, 0) /\ driving' = FALSE /\ UNCHANGED chain
  <2>1. deadline \in Int /\ s.due = deadline /\ 0 \in 0 .. MaxAttempts - 1
    BY <1>2, <1>7, DriverAssumption
  <2>2. timer' \in TimerState /\ timer' # None /\ timer'.at = deadline
    BY <1>7, <2>1, TimerState1 DEF Arm
  <2>3. TimerFromRow' /\ StopsRecorded'
    BY <1>1, <2>2 DEF TimerFromRow, StopsRecorded
  <2>4. DriversRun'
    BY <1>7 DEF DriverInv, DriversRun
  <2>5. chain' \in [Chain -> ChainState]
    BY <1>2, <1>7
  <2> QED
    BY <1>2, <1>3, <1>5, <1>7, <2>2, <2>3, <2>4, <2>5, ViewKeeps
<1>8. CASE /\ held = None /\ timer' = held /\ driving' = TRUE
           /\ \E c \in Resting : chain' = [chain EXCEPT ![c] =
                [Idle EXCEPT !.drives = TRUE, !.at =
                   IF s.state = "window_closed" THEN "aggregate"
                   ELSE IF s.state = "aggregated" THEN "request" ELSE "finalize"]]
  <2>o. PICK op : op = IF s.state = "window_closed" THEN "aggregate"
                       ELSE IF s.state = "aggregated" THEN "request" ELSE "finalize"
    OBVIOUS
  <2>1. op \in Op
    BY <2>o DEF Op
  <2>2. PICK c \in Resting : chain' = [chain EXCEPT ![c] =
                                          [Idle EXCEPT !.drives = TRUE, !.at = op]]
    BY <1>8, <2>o
  <2>x. PICK x : x = [Idle EXCEPT !.drives = TRUE, !.at = op]
    OBVIOUS
  <2>3. x = [at |-> op, tries |-> 0, rearms |-> 0, drives |-> TRUE]
    BY <2>x DEF Idle
  <2>4. x \in ChainState /\ x.at \in Op /\ x.drives = TRUE
    <3>1. 0 \in 0 .. MaxAttempts - 1
      BY DriverAssumption
    <3>2. x.at = op /\ x.drives = TRUE
      BY <2>3
    <3> QED
      BY <2>1, <2>3, <3>1, <3>2 DEF ChainState
  <2>5. chain' = [chain EXCEPT ![c] = x]
    BY <2>2, <2>x
  <2>6. /\ chain' \in [Chain -> ChainState] /\ CallsMatch' /\ AnswersTrue'
        /\ c \in Chain /\ chain'[c] = x /\ x.at # "idle"
        /\ \A d \in Chain : d # c => chain'[d] = chain[d]
        /\ Resting' # Chain
    BY <2>4, <2>5, StartKeeps
  <2>7. DriversRun'
    BY <1>8, <2>4, <2>6 DEF DriverInv, DriversRun
  <2>8. StopsRecorded' /\ TimerFromRow' /\ timer' = None /\ driving' \in BOOLEAN
    BY <1>8, <2>6 DEF StopsRecorded, TimerFromRow
  <2> QED
    BY <1>2, <1>3, <2>6, <2>7, <2>8, ViewKeeps
<1> QED
  BY <1>6, <1>7, <1>8 DEF Resume

LEMMA HearKeeps ==
  ASSUME DriverInv, NEW h \in {"answer", "event"}, Hear(h)
  PROVE  DriverInv'
<1> PICK s : s = [state |-> "window_closed", due |-> None]
  OBVIOUS
<1>1. /\ Resume(s, timer, driving) /\ s.state # "judging"
      /\ UNCHANGED <<vars, call, published, exhausted, refused, current, snapshot, skew, faults>>
      /\ hints' = hints \ {h}
  BY DEF Hear
<1>2. current' \in BOOLEAN /\ hints' \subseteq {"answer", "event"} /\ driving \in BOOLEAN
  BY <1>1 DEF DriverInv, DriverTypeOK
<1> QED
  BY <1>1, <1>2, ResumeKeeps

LEMMA RebuildKeeps ==
  ASSUME DriverInv, Rebuild
  PROVE  DriverInv'
<1>1. /\ snapshot # None /\ current' = TRUE /\ snapshot' = None /\ hints' = hints \ {"event"}
      /\ UNCHANGED <<vars, call, published, exhausted, refused, skew, faults>>
  BY DEF Rebuild
<1>2. hints' \subseteq {"answer", "event"}
  BY <1>1 DEF DriverInv, DriverTypeOK
<1>3. CASE snapshot.state = "published"
  <2>1. timer' = None /\ driving' = FALSE /\ UNCHANGED chain
    BY <1>3 DEF Rebuild
  <2>2. outcome # None /\ UNCHANGED <<state, deadline, outcome, aggregating>>
    BY <1>1, <1>3 DEF DriverInv, SnapshotTrue, vars, row
  <2>3. CallsMatch' /\ AnswersTrue' /\ DriversRun' /\ RemembersTruly'
    BY <1>1, <2>1, <2>2
    DEF DriverInv, CallsMatch, AnswersTrue, Asked, DriversRun, RemembersTruly
  <2>4. StopsRecorded' /\ TimerFromRow'
    BY <2>1, <2>2 DEF StopsRecorded, TimerFromRow
  <2>5. /\ chain' \in [Chain -> ChainState] /\ call' \in [Request -> CallState]
        /\ published' \in BOOLEAN /\ exhausted' \subseteq Op /\ refused' \subseteq Op
        /\ faults' \in 0 .. MaxFaults
    BY <1>1, <2>1 DEF DriverInv, DriverTypeOK
  <2> QED
    BY <1>1, <1>2, <2>1, <2>3, <2>4, <2>5, ViewKeeps
<1>4. CASE snapshot.state # "published"
  <2>1. Resume(snapshot, None, FALSE)
    BY <1>4 DEF Rebuild
  <2>2. snapshot.state = "judging" => snapshot.due = deadline /\ deadline # None
    BY <1>1 DEF DriverInv, SnapshotTrue
  <2> QED
    BY <1>1, <1>2, <2>1, <2>2, ResumeKeeps
<1> QED
  BY <1>3, <1>4

LEMMA TimerKeeps ==
  ASSUME DriverInv, TimerFires
  PROVE  DriverInv'
<1>1. /\ timer # None /\ timer' = None
      /\ UNCHANGED <<vars, call, driving, published, exhausted, refused, view, skew, faults>>
      /\ \/ current /\ ~published /\ \E c \in Resting : At(c, "finalize", timer.rearms)
         \/ (~current \/ published) /\ UNCHANGED chain
  BY DEF TimerFires
<1>2. UNCHANGED <<state, deadline, outcome, aggregating, current, snapshot, hints>>
  BY <1>1 DEF vars, row, view
<1>3. /\ chain \in [Chain -> ChainState] /\ call' \in [Request -> CallState]
      /\ timer \in TimerState /\ current' \in BOOLEAN /\ hints' \subseteq {"answer", "event"}
      /\ published' \in BOOLEAN /\ exhausted' \subseteq Op /\ refused' \subseteq Op
      /\ faults' \in 0 .. MaxFaults /\ driving' \in BOOLEAN
  BY <1>1, <1>2 DEF DriverInv, DriverTypeOK
<1>4. RemembersTruly' /\ TimerFromRow'
  BY <1>1, <1>2 DEF DriverInv, RemembersTruly, TimerFromRow
<1>5. CASE current /\ ~published /\ \E c \in Resting : At(c, "finalize", timer.rearms)
  <2>1. PICK c \in Resting : At(c, "finalize", timer.rearms)
    BY <1>5
  <2>2. timer.rearms \in 0 .. MaxAttempts - 1 /\ c \in Chain /\ "finalize" \in Op
    BY <1>3 DEF TimerState, Resting, Op
  <2>3. PICK x \in ChainState : /\ chain' = [chain EXCEPT ![c] = x]
                                /\ x.at = "finalize" /\ x.drives = chain[c].drives
    BY <2>1, <2>2, ChainAt
  <2>4. /\ chain' \in [Chain -> ChainState] /\ CallsMatch' /\ AnswersTrue'
        /\ chain'[c] = x /\ x.at # "idle"
        /\ \A d \in Chain : d # c => chain'[d] = chain[d]
        /\ Resting' # Chain
    BY <1>1, <2>1, <2>2, <2>3, StartKeeps
  <2>5. DriversRun'
    BY <1>1, <2>2, <2>3, <2>4 DEF DriverInv, DriversRun
  <2>6. StopsRecorded'
    BY <2>4 DEF StopsRecorded
  <2> QED
    BY <1>1, <1>2, <1>3, <1>4, <2>4, <2>5, <2>6, ViewKeeps
<1>6. CASE (~current \/ published) /\ UNCHANGED chain
  <2>1. CallsMatch' /\ AnswersTrue' /\ DriversRun'
    BY <1>1, <1>2, <1>6 DEF DriverInv, CallsMatch, AnswersTrue, Asked, DriversRun
  <2>2. StopsRecorded'
    BY <1>2, <1>6 DEF DriverInv, RemembersTruly, StopsRecorded
  <2>3. chain' \in [Chain -> ChainState]
    BY <1>3, <1>6
  <2> QED
    BY <1>1, <1>2, <1>3, <1>4, <2>1, <2>2, <2>3, ViewKeeps
<1> QED
  BY <1>1, <1>5, <1>6

(* The stream is in doubt, or read anew.                                   *)
LEMMA ReadKeeps ==
  ASSUME DriverInv, Doubt \/ FullRead
  PROVE  DriverInv'
<1>1. /\ UNCHANGED <<vars, chain, call, memory, hints, skew>>
      /\ current' = FALSE \/ UNCHANGED current
      /\ snapshot' \in {None} \/ snapshot' = [state |-> state, due |-> deadline]
  BY DEF Doubt, FullRead
<1>2. /\ faults' \in 0 .. MaxFaults
      /\ UNCHANGED <<timer, driving, published, exhausted, refused>>
      /\ UNCHANGED <<state, deadline, outcome, aggregating>>
  <2>1. faults' \in 0 .. MaxFaults
    BY FaultBounded DEF Doubt, FullRead, DriverInv, DriverTypeOK
  <2> QED
    BY <1>1, <2>1 DEF memory, vars, row
<1>3. CallsMatch' /\ AnswersTrue' /\ DriversRun'
  BY <1>1, <1>2 DEF DriverInv, CallsMatch, AnswersTrue, Asked, DriversRun
<1>4. RemembersTruly' /\ TimerFromRow'
  BY <1>2 DEF DriverInv, RemembersTruly, TimerFromRow
<1>5. StopsRecorded'
  BY <1>1, <1>2 DEF DriverInv, StopsRecorded, Resting
<1>6. /\ chain' \in [Chain -> ChainState] /\ call' \in [Request -> CallState]
      /\ timer' = None \/ timer' \in TimerState
      /\ published' \in BOOLEAN /\ exhausted' \subseteq Op /\ refused' \subseteq Op
      /\ driving' \in BOOLEAN /\ current' \in BOOLEAN /\ hints' \subseteq {"answer", "event"}
  BY <1>1, <1>2 DEF DriverInv, DriverTypeOK
<1> QED
  BY <1>1, <1>2, <1>3, <1>4, <1>5, <1>6, ViewKeeps

(* A chain that waits for nothing makes its call.                          *)
LEMMA SendKeeps ==
  ASSUME DriverInv, NEW c \in Chain, Send(c)
  PROVE  DriverInv'
<1>1. /\ chain[c].at # "idle" /\ Waiting(c) = {}
      /\ UNCHANGED <<vars, chain, memory, view, skew, faults>>
  BY DEF Send
<1>2. PICK r \in Request : /\ call[r] = Free
                           /\ call' = [call EXCEPT ![r].op = chain[c].at, ![r].by = c]
  BY DEF Send
<1>3. /\ chain \in [Chain -> ChainState] /\ call \in [Request -> CallState]
      /\ chain[c].at \in Op /\ c # None
  <2>1. chain[c] \in ChainState
    BY DEF DriverInv, DriverTypeOK
  <2> QED
    BY <1>1, <2>1, DriverAssumption DEF DriverInv, DriverTypeOK, ChainState
<1>y. PICK y : y = [[Free EXCEPT !.op = chain[c].at] EXCEPT !.by = c]
  OBVIOUS
<1>4. call' = [call EXCEPT ![r] = y]
  BY <1>2, <1>3, <1>y
<1>5. y = [op |-> chain[c].at, by |-> c, answer |-> "none", due |-> None]
  BY <1>y DEF Free
<1>6. y \in CallState /\ y.op = chain[c].at /\ y.by = c /\ y.answer = "none"
  BY <1>3, <1>5 DEF CallState
<1>7. /\ call' \in [Request -> CallState] /\ call'[r] = y
      /\ \A q \in Request : q # r => call'[q] = call[q]
  BY <1>3, <1>4, <1>6
<1>8. /\ \A p \in Request :
           /\ call[p].by # None => call[p].op = chain[call[p].by].at /\ call[p].op \in Op
           /\ call[p].answer # "none" => call[p].by # None
           /\ \A o \in Request : call[o].by = call[p].by /\ call[p].by # None => o = p
           /\ p \in aggregating => call[p].op = "aggregate" /\ call[p].answer = "none"
           /\ call[p].by # c
      /\ call[r].op = "none"
      /\ UNCHANGED <<chain, deadline, outcome, aggregating>>
  BY <1>1, <1>2 DEF DriverInv, CallsMatch, Asked, Waiting, Free, vars, row
<1>9. CallsMatch'
  <2> SUFFICES ASSUME NEW q \in Request
               PROVE  /\ call'[q].by # None => call'[q].op = chain[call'[q].by].at /\ call'[q].op \in Op
                      /\ call'[q].answer # "none" => call'[q].by # None
                      /\ \A p \in Request : call'[p].by = call'[q].by /\ call'[q].by # None => p = q
                      /\ q \in aggregating => call'[q].op = "aggregate" /\ call'[q].answer = "none"
    BY <1>8 DEF CallsMatch, Asked
  <2>1. \A p \in Request : call'[p].by = call'[q].by /\ call'[q].by # None => p = q
    <3> SUFFICES ASSUME NEW p \in Request, call'[p].by = call'[q].by, call'[q].by # None
                 PROVE  p = q
      OBVIOUS
    <3>1. CASE p = r \/ q = r
      BY <1>6, <1>7, <1>8, <3>1
    <3>2. CASE p # r /\ q # r
      <4>1. call'[p] = call[p] /\ call'[q] = call[q]
        BY <1>7, <3>2
      <4> QED
        BY <1>8, <4>1
    <3> QED
      BY <3>1, <3>2
  <2>2. CASE q = r
    BY <1>3, <1>6, <1>7, <1>8, <2>1, <2>2
  <2>3. CASE q # r
    BY <1>7, <1>8, <2>1, <2>3
  <2> QED
    BY <2>2, <2>3
<1>10. AnswersTrue'
  <2> SUFFICES ASSUME NEW q \in Request, call'[q].answer = "ok"
               PROVE  /\ call'[q].op = "request" => deadline' # None /\ call'[q].due = deadline'
                      /\ call'[q].op = "finalize" => outcome' # None
    BY DEF AnswersTrue
  <2>1. call'[q] = call[q]
    BY <1>6, <1>7
  <2> QED
    BY <1>8, <2>1 DEF DriverInv, AnswersTrue
<1>11. DriversRun' /\ RemembersTruly' /\ TimerFromRow' /\ StopsRecorded'
  BY <1>1, <1>8
  DEF DriverInv, DriversRun, RemembersTruly, TimerFromRow, StopsRecorded, Resting,
      memory, view
<1>12. /\ chain' \in [Chain -> ChainState]
       /\ timer' = None \/ timer' \in TimerState
       /\ published' \in BOOLEAN /\ exhausted' \subseteq Op /\ refused' \subseteq Op
       /\ driving' \in BOOLEAN /\ current' \in BOOLEAN /\ hints' \subseteq {"answer", "event"}
       /\ faults' \in 0 .. MaxFaults /\ snapshot' = snapshot
  BY <1>1 DEF DriverInv, DriverTypeOK, memory, view
<1> QED
  BY <1>1, <1>7, <1>9, <1>10, <1>11, <1>12, ViewKeeps

(* The process dies: what the API still runs, runs for nobody.             *)
LEMMA CrashKeeps ==
  ASSUME DriverInv, Crash
  PROVE  DriverInv'
<1>1. /\ chain' = [c \in Chain |-> Idle]
      /\ timer' = None /\ driving' = FALSE /\ published' = FALSE
      /\ exhausted' = {} /\ refused' = {}
      /\ current' = FALSE /\ snapshot' = None /\ hints' = {}
      /\ UNCHANGED <<vars, skew>> /\ faults' \in 0 .. MaxFaults
  BY FaultBounded DEF Crash
<1>2. \A r \in Request : call'[r] = IF call[r].answer # "none" THEN Free
                                    ELSE [call[r] EXCEPT !.by = None]
  BY DEF Crash
<1>3. \A r \in Request :
        /\ call'[r] \in CallState /\ call'[r].by = None /\ call'[r].answer = "none"
        /\ call[r].answer = "none" => call'[r].op = call[r].op
  <2> TAKE r \in Request
  <2>1. call[r] \in CallState
    BY DEF DriverInv, DriverTypeOK
  <2>2. CASE call[r].answer # "none"
    <3>1. call'[r] = Free
      BY <1>2, <2>2
    <3> QED
      BY <2>2, <3>1, FreeState
  <2>3. CASE call[r].answer = "none"
    <3>1. call'[r] = [call[r] EXCEPT !.by = None]
      BY <1>2, <2>3
    <3> QED
      BY <2>1, <2>3, <3>1 DEF CallState
  <2> QED
    BY <2>2, <2>3
<1>4. call' \in [Request -> CallState]
  BY <1>3 DEF Crash
<1>5. CallsMatch' /\ AnswersTrue'
  BY <1>1, <1>3 DEF DriverInv, CallsMatch, AnswersTrue, Asked, vars
<1>6. chain' \in [Chain -> ChainState] /\ DriversRun'
  BY <1>1, RestingState DEF DriversRun
<1>7. RemembersTruly' /\ TimerFromRow' /\ StopsRecorded'
  BY <1>1 DEF RemembersTruly, TimerFromRow, StopsRecorded
<1> QED
  BY <1>1, <1>4, <1>5, <1>6, <1>7, ViewKeeps

LEMMA IdleKeeps ==
  ASSUME DriverInv, UNCHANGED dvars
  PROVE  DriverInv'
<1>1. RowsMove
  BY DEF RowsMove, dvars
<1>2. UNCHANGED <<chain, call, memory, view, skew, faults>> /\ aggregating' = aggregating
  BY DEF dvars, vars
<1>3. faults \in 0 .. MaxFaults
  BY DEF DriverInv, DriverTypeOK
<1> QED
  BY <1>1, <1>2, <1>3, CallsStay, ApiKeeps

LEMMA DriverInvStep ==
  ASSUME DriverInv, [DriverNext]_dvars PROVE DriverInv'
<1>1. ASSUME NEW r \in Request,
             \/ ServeAggregate(r) \/ ServeRequest(r) \/ ServeFinalize(r)
             \/ FailAtApi(r) \/ Lose(r) \/ Receive(r)
      PROVE  DriverInv'
  BY <1>1, ServeKeeps, FailKeeps, LoseKeeps, ReceiveKeeps
<1> QED
  BY <1>1, HearKeeps, SendKeeps, TimerKeeps, ReadKeeps, RebuildKeeps, CrashKeeps,
     WorldKeeps, IdleKeeps DEF DriverNext

LEMMA DriverInvInit == DriverInit => DriverInv
<1> SUFFICES ASSUME DriverInit PROVE DriverInv
  OBVIOUS
<1>1. TypeOK /\ SettlementInv
  BY InitInv DEF DriverInit, SettlementInv
<1>2. PublishedDecided /\ JudgingDated /\ outcome = None /\ aggregating = {}
  BY <1>1 DEF DriverInit, Init, SettlementInv, StagesAgree, PublishedDecided, JudgingDated
<1>3. Free \in CallState /\ Free.by = None /\ Free.answer = "none"
  BY FreeState
<1>4. /\ chain \in [Chain -> ChainState] /\ call \in [Request -> CallState]
      /\ \A c \in Chain : chain[c] = Idle
      /\ \A r \in Request : call[r] = Free
  BY <1>3, RestingState DEF DriverInit
<1>5. DriverTypeOK
  <2>1. /\ {driving, published, current} \subseteq BOOLEAN
        /\ exhausted \subseteq Op /\ refused \subseteq Op /\ snapshot = None /\ timer = None
        /\ hints \subseteq {"answer", "event"} /\ skew \in Skew
    BY DEF DriverInit
  <2>2. faults \in 0 .. MaxFaults
    BY DriverAssumption DEF DriverInit
  <2> QED
    BY <1>1, <1>4, <2>1, <2>2 DEF DriverTypeOK
<1>6. CallsMatch /\ AnswersTrue /\ DriversRun
  BY <1>2, <1>3, <1>4, RestingState DEF DriverInit, CallsMatch, AnswersTrue, DriversRun
<1>7. SnapshotTrue /\ RemembersTruly /\ TimerFromRow /\ StopsRecorded
  BY DEF DriverInit, SnapshotTrue, RemembersTruly, TimerFromRow, StopsRecorded
<1> QED
  BY <1>2, <1>5, <1>6, <1>7 DEF DriverInv

LEMMA Driven == DriverSpec => []DriverInv
<1>1. DriverInv /\ [DriverNext]_dvars => DriverInv'
  BY DriverInvStep
<1> QED
  BY <1>1, DriverInvInit, PTL DEF DriverSpec

(* The clock's state keeps its types: no chain outruns its retry budget.   *)
THEOREM DriverTypes == DriverSpec => []DriverTypeOK
<1>1. DriverInv => DriverTypeOK
  BY DEF DriverInv
<1> QED
  BY <1>1, Driven, PTL

(* #published holds a session only after the API decided it, however many  *)
(* calls were lost, repeated or answered late.                             *)
THEOREM TrulyRemembered == DriverSpec => []RemembersTruly
<1>1. DriverInv => RemembersTruly
  BY DEF DriverInv
<1> QED
  BY <1>1, Driven, PTL

(* The deadline timer waits for the instant on the row, through restarts,  *)
(* late answers and rebuilds, unless an early answer moved it.             *)
THEOREM TimerIsFromRow == DriverSpec => []TimerFromRow
<1>1. DriverInv => TimerFromRow
  BY DEF DriverInv
<1> QED
  BY <1>1, Driven, PTL

-------------------------------------------------------------------------------
(* Where an aggregate is never sent while another still runs, the clock    *)
(* drives the settlement to one decision.                                  *)

LEMMA OneAggregateStep ==
  ASSUME Overlap = FALSE, DriverInv, OneAggregate, [DriverNext]_dvars
  PROVE  OneAggregate'
<1>1. /\ call \in [Request -> CallState]
      /\ \A r \in Request : call[r].answer # "none" => call[r].by # None
  BY DEF DriverInv, DriverTypeOK, CallsMatch
<1>2. ASSUME \A q \in Request : q \in Running("aggregate")' => q \in Running("aggregate")
      PROVE  OneAggregate'
  BY <1>2 DEF OneAggregate, Running
<1>3. ASSUME NEW r \in Request, NEW y, call' = [call EXCEPT ![r] = y],
             y.op = "aggregate" /\ y.answer = "none" => r \in Running("aggregate")
      PROVE  OneAggregate'
  <2>1. call'[r] = y /\ \A q \in Request : q # r => call'[q] = call[q]
    BY <1>1, <1>3
  <2> QED
    BY <1>2, <1>3, <2>1 DEF Running
<1>4. ASSUME UNCHANGED call PROVE OneAggregate'
  BY <1>2, <1>4 DEF Running
<1>5. ASSUME NEW r \in Request, Release(r) PROVE OneAggregate'
  <2>1. Free.op # "aggregate"
    BY DEF Free
  <2> QED
    BY <1>3, <1>5, <2>1 DEF Release
<1>6. ASSUME NEW r \in Request, NEW a \in Answers, Reply(r, a) PROVE OneAggregate'
  <2>1. PICK y : y = IF call[r].by = None THEN Free
                     ELSE [call[r] EXCEPT !.answer = a, !.due = deadline']
    OBVIOUS
  <2>2. call' = [call EXCEPT ![r] = y]
    BY <1>6, <2>1 DEF Reply
  <2>3. y.op # "aggregate" \/ y.answer # "none"
    <3>1. CASE call[r].by = None
      BY <2>1, <3>1 DEF Free
    <3>2. CASE call[r].by # None
      <4>1. call[r] \in CallState
        BY <1>1
      <4> QED
        BY <2>1, <3>2, <4>1 DEF CallState, Answers
    <3> QED
      BY <3>1, <3>2
  <2> QED
    BY <1>3, <2>2, <2>3
<1>7. ASSUME NEW c \in Chain, Send(c) PROVE OneAggregate'
  <2>1. PICK r \in Request : /\ call[r] = Free
                             /\ call' = [call EXCEPT ![r].op = chain[c].at, ![r].by = c]
    BY <1>7 DEF Send
  <2>2. chain[c].at = "aggregate" => Running("aggregate") = {}
    BY <1>7 DEF Send
  <2>3. \A q \in Request : q # r => call'[q] = call[q]
    BY <1>1, <2>1
  <2>4. call'[r].op = chain[c].at
    <3>1. Free = [op |-> "none", by |-> None, answer |-> "none", due |-> None]
      BY DEF Free
    <3> QED
      BY <1>1, <2>1, <3>1
  <2>5. CASE chain[c].at = "aggregate"
    <3>1. \A q \in Request : q \in Running("aggregate")' => q = r
      BY <2>2, <2>3, <2>5 DEF Running
    <3> QED
      BY <3>1 DEF OneAggregate, Running
  <2>6. CASE chain[c].at # "aggregate"
    BY <1>2, <2>3, <2>4, <2>6 DEF Running
  <2> QED
    BY <2>5, <2>6
<1>8. ASSUME NEW r \in Request, Lose(r) PROVE OneAggregate'
  <2>1. CASE call[r].answer # "none"
    BY <1>5, <1>8, <2>1 DEF Lose
  <2>2. CASE call[r].answer = "none"
    <3>1. PICK y : y = [call[r] EXCEPT !.by = None]
      OBVIOUS
    <3>2. call' = [call EXCEPT ![r] = y]
      BY <1>8, <2>2, <3>1 DEF Lose
    <3>3. y.op = call[r].op
      BY <1>1, <3>1 DEF CallState
    <3> QED
      BY <1>3, <2>2, <3>2, <3>3 DEF Running
  <2> QED
    BY <2>1, <2>2
<1>9. CASE Crash
  <2>1. \A r \in Request : call'[r] = IF call[r].answer # "none" THEN Free
                                      ELSE [call[r] EXCEPT !.by = None]
    BY <1>9 DEF Crash
  <2>2. \A r \in Request : call'[r].op # "aggregate"
                            \/ (call[r].answer = "none" /\ call'[r].op = call[r].op)
    <3> TAKE r \in Request
    <3>1. CASE call[r].answer # "none"
      <4>1. call'[r] = Free
        BY <2>1, <3>1
      <4> QED
        BY <4>1 DEF Free
    <3>2. CASE call[r].answer = "none"
      <4>1. call'[r] = [call[r] EXCEPT !.by = None] /\ call[r] \in CallState
        BY <1>1, <2>1, <3>2
      <4> QED
        BY <3>2, <4>1 DEF CallState
    <3> QED
      BY <3>1, <3>2
  <2> QED
    BY <1>2, <2>2 DEF Running
<1>10. ASSUME NEW r \in Request,
              ServeAggregate(r) \/ ServeRequest(r) \/ ServeFinalize(r) \/ FailAtApi(r)
       PROVE  UNCHANGED call \/ \E a \in Answers : Reply(r, a)
  BY <1>10 DEF ServeAggregate, ServeRequest, ServeFinalize, FailAtApi, Answers
<1>11. ASSUME NEW r \in Request, Receive(r) PROVE Release(r)
  BY <1>11 DEF Receive, ReceiveFailed, ReceiveAggregated, ReceiveDeadline, ReceivePublished,
               ReceiveEarly, ReceiveOff, ReceiveRefused, Succeeds
<1>12. ASSUME \/ \E h \in {"answer", "event"} : Hear(h)
              \/ TimerFires \/ Doubt \/ FullRead \/ Rebuild \/ Time \/ Judging
              \/ UNCHANGED dvars
       PROVE  UNCHANGED call
  BY <1>12 DEF Hear, TimerFires, Doubt, FullRead, Rebuild, Time, Judging, dvars
<1> QED
  BY <1>4, <1>5, <1>6, <1>7, <1>8, <1>9, <1>10, <1>11, <1>12 DEF DriverNext

LEMMA RunningOne ==
  ASSUME DriverInv, OneAggregate PROVE AtMostOne
BY DEF DriverInv, DriverTypeOK, TypeOK, CallsMatch, OneAggregate, Running, Asked, AtMostOne

LEMMA RowsWeighed ==
  ASSUME AtMostOne, WeighedInv, RowsMove PROVE WeighedInv'
<1>1. CASE [Next]_vars
  BY <1>1, WeighedStep
<1>2. CASE QuietTime
  <2>1. now \in Int /\ now' = now + 1 /\ consensusAt \in Int \cup {None}
        /\ UNCHANGED <<state, mode, deadline, consensusAt, outcome, publishedAt, carried,
                       reason, acceptedAt, eligible, kept, aggregating, reported>>
    BY <1>2 DEF QuietTime, WeighedInv, SettlementInv, TypeOK, row, judged
  <2>2. SettlementInv'
    BY <2>1
    DEF WeighedInv, SettlementInv, TypeOK, AggregatesFirst, StagesAgree, AnswersTimed,
        LegacyNamed, JudgesHeard, WinnerEarned, VerdictNotEarly
  <2>3. AnswersWeighed' /\ NoAnswerIgnored'
    BY <2>1 DEF WeighedInv, AnswersWeighed, NoAnswerIgnored, ConsensusEligible
  <2> QED
    BY <2>2, <2>3 DEF WeighedInv
<1> QED
  BY <1>1, <1>2 DEF RowsMove

LEMMA DrivenOne ==
  ASSUME Overlap = FALSE
  PROVE  DriverSpec => [](DriverInv /\ OneAggregate /\ WeighedInv)
<1> DEFINE Inv == DriverInv /\ OneAggregate /\ WeighedInv
<1>1. DriverInit => Inv
  <2>1. DriverInit => OneAggregate
    <3>1. ASSUME DriverInit, NEW r \in Request PROVE call[r] = Free
      BY <3>1 DEF DriverInit
    <3>2. Free.op # "aggregate"
      BY DEF Free
    <3> QED
      BY <3>1, <3>2 DEF OneAggregate, Running
  <2>2. DriverInit => WeighedInv
    BY InitWeighed DEF DriverInit
  <2> QED
    BY <2>1, <2>2, DriverInvInit
<1>2. Inv /\ [DriverNext]_dvars => Inv'
  BY DriverInvStep, OneAggregateStep, StepMovesRows, RunningOne, RowsWeighed
<1> HIDE DEF Inv
<1>3. Inv => DriverInv /\ OneAggregate /\ WeighedInv
  BY DEF Inv
<1> QED
  BY <1>1, <1>2, <1>3, PTL DEF DriverSpec

-------------------------------------------------------------------------------
(* No call of the clock is refused for a captured session: the order of    *)
(* the calls is the order of the rows.                                     *)

LEMMA RowsOrdered ==
  ASSUME SettlementInv, RowsMove
  PROVE  /\ mode' = mode /\ (Rolled => Rolled') /\ (Dated => Dated')
         /\ PublishedDated => PublishedDated'
<1>1. CASE [Next]_vars
  <2>1. mode' = mode /\ (Rolled => Rolled')
    BY <1>1
    DEF Next, Finalize, AggregateRead, AggregateWrite, AggregateFail,
        RequestJudging, FinalizeReplay, FinalizeOff, FinalizeLegacy,
        FinalizeNoConsensus, FinalizeDraw, Publish, SubmitJudgement,
        SetEligible, Tick, vars, row, Rolled
  <2>2. Dated => Dated'
    BY <1>1, <2>1, DeadlineKept DEF Dated
  <2>3. PublishedDated => PublishedDated'
    <3>1. ASSUME FinalizeOff \/ FinalizeLegacy \/ FinalizeNoConsensus
                   \/ \E j \in Judge : FinalizeDraw(j)
          PROVE  Dated'
      BY <3>1
      DEF FinalizeOff, FinalizeLegacy, FinalizeNoConsensus, FinalizeDraw,
          DeadlineReached, Publish, Dated, Rolled
    <3>2. ASSUME ~(FinalizeOff \/ FinalizeLegacy \/ FinalizeNoConsensus
                     \/ \E j \in Judge : FinalizeDraw(j))
          PROVE  state' = "published" => state = "published"
      BY <1>1, <3>2
      DEF Next, Finalize, AggregateRead, AggregateWrite, AggregateFail,
          RequestJudging, FinalizeReplay, SubmitJudgement, SetEligible, Tick, vars, row
    <3> QED
      BY <2>2, <3>1, <3>2 DEF PublishedDated
  <2> QED
    BY <2>1, <2>2, <2>3
<1>2. CASE QuietTime
  BY <1>2 DEF QuietTime, row, Rolled, Dated, PublishedDated
<1> QED
  BY <1>1, <1>2 DEF RowsMove

(* What a step has to show of the calls, the timer and the full read.      *)
LEMMA OrderKept ==
  ASSUME Ordered, Rolled => Rolled', Dated => Dated', refused' = refused,
         \A c \in Chain : chain'[c].at \in {chain[c].at, "idle", "aggregate"}
                            \/ ChainOrdered(c)',
         \A r \in Request : \/ call'[r].answer \in {"none", "failed"}
                            \/ call'[r].answer = call[r].answer /\ call'[r].op = call[r].op
                            \/ AnswerOrdered(r)',
         timer' # None => timer # None \/ Dated',
         snapshot' \in {None, snapshot} \/ ReadOrdered'
  PROVE  Ordered'
<1>1. \A c \in Chain : ChainOrdered(c)'
  BY DEF Ordered, ChainOrdered
<1>2. \A r \in Request : AnswerOrdered(r)'
  BY DEF Ordered, AnswerOrdered
<1>3. (timer' # None => Dated') /\ ReadOrdered'
  BY DEF Ordered, ReadOrdered
<1> QED
  BY <1>1, <1>2, <1>3 DEF Ordered

(* One request alone gets an answer.                                       *)
LEMMA AnswerAlone ==
  ASSUME DriverInv, NEW r \in Request, NEW a \in Answers, call[r].answer = "none", Reply(r, a)
  PROVE  /\ \A q \in Request : q # r => call'[q] = call[q]
         /\ call'[r].answer = "none" \/ (call'[r].answer = a /\ call'[r].op = call[r].op)
<1>1. call \in [Request -> CallState]
  BY DEF DriverInv, DriverTypeOK
<1>2. call' = [call EXCEPT ![r] = IF call[r].by = None THEN Free
                 ELSE [call[r] EXCEPT !.answer = a, !.due = deadline']]
  BY DEF Reply
<1>3. \A q \in Request : q # r => call'[q] = call[q]
  BY <1>1, <1>2
<1>4. CASE call[r].by = None
  BY <1>1, <1>2, <1>3, <1>4, FreeState
<1>5. CASE call[r].by # None
  <2>1. call[r] \in CallState /\ call'[r] = [call[r] EXCEPT !.answer = a, !.due = deadline']
    BY <1>1, <1>2, <1>5
  <2> QED
    BY <1>3, <2>1 DEF CallState
<1> QED
  BY <1>4, <1>5

(* A waited-for request is the call its chain is at, so an orphan's answer *)
(* is nobody's, and the others come in order.                              *)
LEMMA ServeOrdered ==
  ASSUME DriverInv, WeighedInv, judgingCaptured, Ordered, PublishedDated,
         NEW r \in Request, ServeAggregate(r) \/ ServeRequest(r) \/ ServeFinalize(r)
  PROVE  Ordered'
<1>0. SettlementInv /\ RowsMove
  BY StepMovesRows DEF WeighedInv, DriverNext
<1>1. /\ mode' = mode /\ (Rolled => Rolled') /\ (Dated => Dated')
  BY <1>0, RowsOrdered
<1>2. UNCHANGED <<chain, timer, snapshot, refused>> /\ call[r].answer = "none"
  BY DEF ServeAggregate, ServeRequest, ServeFinalize, Served, memory, view, Asked
<1>3. ASSUME UNCHANGED call PROVE Ordered'
  BY <1>1, <1>2, <1>3, OrderKept
<1>4. ASSUME NEW a \in Answers, Reply(r, a),
             call[r].by # None => /\ a # "refused"
                                  /\ a = "ok" /\ call[r].op = "aggregate" => Rolled'
                                  /\ a = "ok" /\ call[r].op = "request" => Dated'
                                  /\ a \in {"early", "off"} => Dated'
      PROVE  Ordered'
  <2>1. /\ \A q \in Request : q # r => call'[q] = call[q]
        /\ call'[r].answer = "none" \/ (call'[r].answer = a /\ call'[r].op = call[r].op)
    BY <1>2, <1>4, AnswerAlone
  <2>2. call[r].by = None => call'[r].answer = "none"
    <3>1. call \in [Request -> CallState]
      BY DEF DriverInv, DriverTypeOK
    <3>2. call[r].by = None => call' = [call EXCEPT ![r] = Free]
      BY <1>4 DEF Reply
    <3> QED
      BY <3>1, <3>2, FreeState
  <2>3. call'[r].answer = "none" \/ AnswerOrdered(r)'
    BY <1>4, <2>1, <2>2 DEF AnswerOrdered
  <2> QED
    BY <1>1, <1>2, <2>1, <2>3, OrderKept
<1>5. call[r].by # None => /\ call[r].by \in Chain
                           /\ call[r].op \in {"request", "finalize"} => Rolled
                           /\ call[r].op = "finalize" => Dated
  BY WaitedFor DEF Ordered, ChainOrdered
<1>6. CASE ServeAggregate(r)
  <2>1. AggregateWrite(r) => Rolled'
    BY DEF AggregateWrite, Rolled
  <2>2. call[r].op = "aggregate"
    BY <1>6 DEF ServeAggregate, Asked
  <2>3. UNCHANGED call \/ (Reply(r, "ok") /\ Rolled')
    BY <1>1, <1>6, <2>1 DEF ServeAggregate, Rolled
  <2> QED
    BY <1>3, <1>4, <2>2, <2>3 DEF Answers
<1>7. CASE ServeRequest(r)
  <2>1. call[r].op = "request" /\ mode \in {"off", "enforce"}
    BY <1>7 DEF ServeRequest, Asked, judgingCaptured
  <2>2. RequestJudging => Dated'
    BY NoneAssumption, JudgingAssumption
    DEF RequestJudging, DriverInv, DriverTypeOK, TypeOK, Dated, Rolled
  <2>3. CASE RequestJudging /\ Reply(r, "ok")
    BY <1>4, <2>1, <2>2, <2>3 DEF Answers
  <2>4. CASE mode = "off" /\ Reply(r, "off")
    <3>1. Rolled => Dated'
      BY <1>1, <2>4 DEF Dated
    <3> QED
      BY <1>4, <1>5, <2>1, <2>4, <3>1 DEF Answers
  <2>5. CASE deadline # None /\ Reply(r, "ok")
    <3>1. Rolled => Dated'
      BY <1>1, <2>5 DEF Dated
    <3> QED
      BY <1>4, <1>5, <2>1, <2>5, <3>1 DEF Answers
  <2>6. CASE mode = "enforce" /\ deadline = None /\ state # "aggregated" /\ Reply(r, "refused")
    <3>1. ~Rolled
      BY <1>0, <2>6 DEF SettlementInv, TypeOK, StagesAgree, Rolled, Dated, PublishedDated
    <3> QED
      BY <1>4, <1>5, <2>1, <2>6, <3>1 DEF Answers
  <2> QED
    BY <1>7, <2>1, <2>3, <2>4, <2>5, <2>6 DEF ServeRequest, judgingCaptured
<1>8. CASE ServeFinalize(r)
  <2>1. call[r].op = "finalize" /\ mode \in {"off", "enforce"}
    BY <1>8 DEF ServeFinalize, Asked, judgingCaptured
  <2>2. CASE Reply(r, "ok")
    BY <1>4, <2>1, <2>2 DEF Answers
  <2>3. CASE Reply(r, "early")
    BY <1>1, <1>4, <1>5, <2>1, <2>3 DEF Answers
  <2>4. CASE ~Early /\ ~Finalizable /\ Reply(r, "refused")
    <3>1. ~Dated
      BY <1>0, <2>1, <2>4
      DEF SettlementInv, TypeOK, StagesAgree, Rolled, Dated, Finalizable
    <3> QED
      BY <1>4, <1>5, <2>1, <2>4, <3>1 DEF Answers
  <2> QED
    BY <1>8, <2>2, <2>3, <2>4 DEF ServeFinalize
<1> QED
  BY <1>6, <1>7, <1>8

(* A chain that was answered goes on in order, or ends.                    *)
LEMMA ReceiveOrdered ==
  ASSUME DriverInv, Ordered, NEW r \in Request, Lose(r) \/ Receive(r)
  PROVE  Ordered'
<1>1. UNCHANGED <<vars, snapshot>>
  BY DEF Lose, Receive, ReceiveFailed, ReceiveAggregated, ReceiveDeadline,
         ReceivePublished, ReceiveEarly, ReceiveOff, ReceiveRefused, Succeeds, view
<1>2. UNCHANGED <<Rolled, Dated>>
  BY <1>1 DEF Rolled, Dated, vars, row
<1>3. /\ chain \in [Chain -> ChainState] /\ call \in [Request -> CallState]
      /\ call[r].answer # "none" => call[r].by # None
  BY DEF DriverInv, DriverTypeOK, CallsMatch
<1>4. call[r].by # None
  BY <1>3 DEF Lose, Receive, ReceiveFailed, ReceiveAggregated, ReceiveDeadline,
              ReceivePublished, ReceiveEarly, ReceiveOff, ReceiveRefused, Succeeds
<1>5. PICK c \in Chain : c = call[r].by
  BY <1>4, WaitedFor
<1>6. call[r].op \in Op /\ chain[c].at = call[r].op /\ chain[c] \in ChainState
  BY <1>4, <1>5, WaitedFor
<1>7. \A q \in Request : call'[q].answer \in {"none", "failed"}
                           \/ (call'[q].answer = call[q].answer /\ call'[q].op = call[q].op)
  <2>1. Release(r) \/ (call[r].answer = "none" /\ call' = [call EXCEPT ![r].by = None])
    BY DEF Lose, Receive, ReceiveFailed, ReceiveAggregated, ReceiveDeadline,
           ReceivePublished, ReceiveEarly, ReceiveOff, ReceiveRefused, Succeeds
  <2>2. CASE Release(r)
    BY <1>3, <2>2, FreeState DEF Release
  <2>3. CASE call' = [call EXCEPT ![r].by = None]
    BY <1>3, <2>3 DEF CallState
  <2> QED
    BY <2>1, <2>2, <2>3
<1>8. call[r].answer # "refused" /\ refused' = refused
  BY DEF Ordered, AnswerOrdered, Lose, Receive, ReceiveFailed, ReceiveAggregated,
         ReceiveDeadline, ReceivePublished, ReceiveEarly, ReceiveOff, ReceiveRefused, Succeeds
<1>9. ASSUME NEW x, chain' = [chain EXCEPT ![c] = x],
             \/ x.at \in {chain[c].at, "idle"}
             \/ x.at = "request" /\ Rolled
             \/ x.at = "finalize" /\ Dated,
             timer' # None => timer # None \/ Dated
      PROVE  Ordered'
  <2>1. chain'[c] = x /\ \A d \in Chain : d # c => chain'[d] = chain[d]
    BY <1>3, <1>9
  <2>2. \A d \in Chain : chain'[d].at \in {chain[d].at, "idle", "aggregate"} \/ ChainOrdered(d)'
    BY <1>2, <1>9, <2>1 DEF ChainOrdered, Dated
  <2> QED
    BY <1>1, <1>2, <1>7, <1>8, <1>9, <2>2, OrderKept
<1>10. ASSUME End(c), timer' # None => timer # None \/ Dated PROVE Ordered'
  BY <1>9, <1>10, RestingState DEF End
<1>11. ASSUME NEW op \in {"request", "finalize"}, NEW n, At(c, op, n), Rolled,
              op = "finalize" => Dated, timer' # None => timer # None \/ Dated
       PROVE  Ordered'
  <2>1. PICK x : x = [chain[c] EXCEPT !.at = op, !.tries = 0, !.rearms = n]
    OBVIOUS
  <2>2. chain' = [chain EXCEPT ![c] = x]
    BY <1>3, <1>11, <2>1 DEF At
  <2>3. x.at = op
    BY <1>6, <2>1 DEF ChainState
  <2> QED
    BY <1>9, <1>11, <2>2, <2>3
<1>12. ASSUME Retry(c), UNCHANGED timer PROVE Ordered'
  <2>1. CASE End(c)
    BY <1>10, <1>12, <2>1
  <2>2. CASE chain' = [chain EXCEPT ![c].tries = @ + 1]
    <3>1. PICK x : x = [chain[c] EXCEPT !.tries = @ + 1]
      OBVIOUS
    <3>2. chain' = [chain EXCEPT ![c] = x]
      BY <1>3, <2>2, <3>1
    <3>3. x.at = chain[c].at
      BY <1>6, <3>1 DEF ChainState
    <3> QED
      BY <1>9, <1>12, <3>2, <3>3
  <2> QED
    BY <1>12, <2>1, <2>2 DEF Retry
<1>13. CASE Lose(r) \/ ReceiveFailed(r)
  BY <1>5, <1>12, <1>13 DEF Lose, ReceiveFailed
<1>14. CASE ReceiveAggregated(r)
  <2>1. Rolled /\ At(c, "request", 0) /\ UNCHANGED timer
    BY <1>5, <1>14 DEF ReceiveAggregated, Succeeds, Ordered, AnswerOrdered
  <2> QED
    BY <1>11, <2>1
<1>15. CASE ReceiveDeadline(r)
  <2>1. Dated /\ Rolled /\ ParkOrFinalize(c, call[r].due)
    BY <1>5, <1>15 DEF ReceiveDeadline, Succeeds, Ordered, AnswerOrdered, Dated
  <2> QED
    BY <1>10, <1>11, <2>1 DEF ParkOrFinalize
<1>16. CASE ReceivePublished(r)
  BY <1>5, <1>10, <1>16 DEF ReceivePublished
<1>17. CASE ReceiveEarly(r)
  <2>1. Dated
    BY <1>17 DEF ReceiveEarly, Ordered, AnswerOrdered
  <2> QED
    BY <1>5, <1>10, <1>17, <2>1 DEF ReceiveEarly
<1>18. CASE ReceiveOff(r)
  <2>1. Dated /\ Rolled /\ UNCHANGED timer
    BY <1>18 DEF ReceiveOff, Ordered, AnswerOrdered, Dated
  <2> QED
    BY <1>5, <1>10, <1>11, <1>18, <2>1 DEF ReceiveOff
<1>19. ~ReceiveRefused(r)
  BY <1>8 DEF ReceiveRefused
<1> QED
  BY <1>13, <1>14, <1>15, <1>16, <1>17, <1>18, <1>19 DEF Receive

(* A chain that begins from a row, or a timer armed from one, is in order  *)
(* with that row.                                                          *)
LEMMA ResumeOrdered ==
  ASSUME DriverInv, Ordered, UNCHANGED <<vars, call, refused>>,
         NEW s, NEW held, NEW driven, Resume(s, held, driven),
         s.state # "window_closed" => Rolled,
         s.state \notin {"window_closed", "aggregated"} => Dated,
         held \in {None, timer}, snapshot' \in {None, snapshot}
  PROVE  Ordered'
<1>1. UNCHANGED <<Rolled, Dated>> /\ chain \in [Chain -> ChainState]
  BY DEF Rolled, Dated, vars, row, DriverInv, DriverTypeOK
<1>2. CASE UNCHANGED chain
  <2>1. timer' = held \/ (s.state = "judging" /\ Arm(s.due, 0))
    BY <1>2 DEF Resume
  <2>2. timer' # None => timer # None \/ Dated'
    BY <1>1, <2>1
  <2> QED
    BY <1>1, <1>2, <2>2, OrderKept
<1>3. CASE timer' = held /\ \E c \in Resting :
              chain' = [chain EXCEPT ![c] = [Idle EXCEPT !.drives = TRUE, !.at =
                         IF s.state = "window_closed" THEN "aggregate"
                         ELSE IF s.state = "aggregated" THEN "request" ELSE "finalize"]]
  <2>1. PICK op : op = IF s.state = "window_closed" THEN "aggregate"
                       ELSE IF s.state = "aggregated" THEN "request" ELSE "finalize"
    OBVIOUS
  <2>2. PICK c \in Resting :
          chain' = [chain EXCEPT ![c] = [Idle EXCEPT !.drives = TRUE, !.at = op]]
    BY <1>3, <2>1
  <2>3. [Idle EXCEPT !.drives = TRUE, !.at = op].at = op
    BY DEF Idle
  <2>4. c \in Chain /\ chain'[c].at = op /\ \A d \in Chain : d # c => chain'[d] = chain[d]
    BY <1>1, <2>2, <2>3 DEF Resting
  <2>5. chain'[c].at = "aggregate" \/ ChainOrdered(c)'
    BY <1>1, <2>1, <2>4 DEF ChainOrdered
  <2> QED
    BY <1>1, <1>3, <2>4, <2>5, OrderKept
<1> QED
  BY <1>2, <1>3 DEF Resume

LEMMA TimerOrdered ==
  ASSUME DriverInv, Ordered, TimerFires
  PROVE  Ordered'
<1>1. /\ timer # None /\ timer' = None /\ UNCHANGED <<vars, call, refused, snapshot>>
      /\ chain \in [Chain -> ChainState]
  BY DEF TimerFires, view, DriverInv, DriverTypeOK
<1>2. UNCHANGED <<Rolled, Dated>> /\ Dated
  BY <1>1 DEF Rolled, Dated, vars, row, Ordered
<1>3. CASE UNCHANGED chain
  BY <1>1, <1>2, <1>3, OrderKept
<1>4. CASE \E c \in Resting : At(c, "finalize", timer.rearms)
  <2>1. PICK c \in Resting : At(c, "finalize", timer.rearms)
    BY <1>4
  <2>2. c \in Chain /\ \A d \in Chain : d # c => chain'[d] = chain[d]
    BY <1>1, <2>1 DEF At, Resting
  <2>3. ChainOrdered(c)'
    BY <1>2 DEF ChainOrdered, Dated
  <2> QED
    BY <1>1, <1>2, <2>2, <2>3, OrderKept
<1> QED
  BY <1>3, <1>4 DEF TimerFires

LEMMA CapturedStep ==
  ASSUME DriverInv, WeighedInv, CapturedInv, [DriverNext]_dvars
  PROVE  CapturedInv'
<1>1. RowsMove /\ SettlementInv
  BY StepMovesRows DEF WeighedInv
<1>2. mode' = mode /\ (Rolled => Rolled') /\ (Dated => Dated')
  BY <1>1, RowsOrdered
<1> SUFFICES ASSUME judgingCaptured PROVE Ordered' /\ PublishedDated'
  BY <1>2 DEF CapturedInv, judgingCaptured
<1>3. Ordered /\ PublishedDated /\ PublishedDated'
  BY <1>1, RowsOrdered DEF CapturedInv
<1>4. ASSUME NEW r \in Request, ServeAggregate(r) \/ ServeRequest(r) \/ ServeFinalize(r)
      PROVE  Ordered'
  BY <1>3, <1>4, ServeOrdered
<1>5. ASSUME NEW r \in Request, FailAtApi(r) PROVE Ordered'
  <2>1. /\ \A q \in Request : q # r => call'[q] = call[q]
        /\ call'[r].answer \in {"none", "failed"}
    BY <1>5, AnswerAlone DEF FailAtApi, Answers
  <2>2. UNCHANGED <<chain, timer, refused, snapshot>>
    BY <1>5 DEF FailAtApi, memory, view
  <2> QED
    BY <1>2, <1>3, <2>1, <2>2, OrderKept
<1>6. ASSUME NEW r \in Request, Lose(r) \/ Receive(r) PROVE Ordered'
  BY <1>3, <1>6, ReceiveOrdered
<1>7. ASSUME NEW h \in {"answer", "event"}, Hear(h) PROVE Ordered'
  <2>1. PICK s : s = [state |-> "window_closed", due |-> None]
    OBVIOUS
  <2>2. Resume(s, timer, driving) /\ UNCHANGED <<vars, call, refused, snapshot>>
    BY <1>7, <2>1 DEF Hear
  <2> QED
    BY <1>3, <2>1, <2>2, ResumeOrdered
<1>8. ASSUME NEW c \in Chain, Send(c) PROVE Ordered'
  <2>1. PICK r \in Request : /\ call[r] = Free
                             /\ call' = [call EXCEPT ![r].op = chain[c].at, ![r].by = c]
    BY <1>8 DEF Send
  <2>2. call \in [Request -> CallState] /\ UNCHANGED <<chain, timer, refused, snapshot>>
    BY <1>8 DEF DriverInv, DriverTypeOK, Send, memory, view
  <2>3. /\ \A q \in Request : q # r => call'[q] = call[q]
        /\ call'[r].answer = "none"
    BY <2>1, <2>2 DEF Free
  <2> QED
    BY <1>2, <1>3, <2>2, <2>3, OrderKept
<1>9. CASE TimerFires
  BY <1>3, <1>9, TimerOrdered
<1>10. CASE Doubt
  BY <1>2, <1>3, <1>10, OrderKept DEF Doubt, memory
<1>11. CASE FullRead
  <2>1. /\ snapshot' = [state |-> state, due |-> deadline]
        /\ UNCHANGED <<vars, chain, call, timer, refused>>
    BY <1>11 DEF FullRead, memory
  <2>2. state \notin {"window_closed", "aggregated"} => Dated
    BY <1>1, <1>3 DEF SettlementInv, TypeOK, StagesAgree, PublishedDated, Dated, Rolled
  <2>3. ReadOrdered'
    BY <1>2, <2>1, <2>2 DEF ReadOrdered, Rolled
  <2> QED
    BY <1>2, <1>3, <2>1, <2>3, OrderKept
<1>12. CASE Rebuild
  <2>1. UNCHANGED <<vars, call, refused>> /\ snapshot # None /\ snapshot' = None
    BY <1>12 DEF Rebuild
  <2>2. CASE timer' = None /\ UNCHANGED chain
    BY <1>2, <1>3, <2>1, <2>2, OrderKept
  <2>3. CASE Resume(snapshot, None, FALSE)
    BY <1>3, <2>1, <2>3, ResumeOrdered DEF Ordered, ReadOrdered
  <2> QED
    BY <1>12, <2>2, <2>3 DEF Rebuild
<1>13. CASE Crash
  <2>1. call \in [Request -> CallState] /\ refused = {}
    BY <1>3 DEF DriverInv, DriverTypeOK, Ordered
  <2>2. \A r \in Request : call'[r].answer = "none"
    <3> TAKE r \in Request
    <3>1. CASE call[r].answer # "none"
      <4>1. call'[r] = Free
        BY <1>13, <3>1 DEF Crash
      <4> QED
        BY <4>1, FreeState
    <3>2. CASE call[r].answer = "none"
      <4>1. call'[r] = [call[r] EXCEPT !.by = None] /\ call[r] \in CallState
        BY <1>13, <2>1, <3>2 DEF Crash
      <4> QED
        BY <3>2, <4>1 DEF CallState
    <3> QED
      BY <3>1, <3>2
  <2>3. \A c \in Chain : chain'[c].at = "idle"
    BY <1>13, RestingState DEF Crash
  <2>4. timer' = None /\ snapshot' = None /\ refused' = refused
    BY <1>13, <2>1 DEF Crash
  <2> QED
    BY <1>2, <1>3, <2>2, <2>3, <2>4, OrderKept
<1>14. CASE Time \/ Judging \/ UNCHANGED dvars
  <2>1. UNCHANGED <<chain, call, timer, refused, snapshot>>
    BY <1>14 DEF Time, Judging, memory, view, dvars
  <2> QED
    BY <1>2, <1>3, <2>1, OrderKept
<1> QED
  BY <1>3, <1>4, <1>5, <1>6, <1>7, <1>8, <1>9, <1>10, <1>11, <1>12, <1>13, <1>14 DEF DriverNext

LEMMA CapturedInit == DriverInit => CapturedInv
<1> SUFFICES ASSUME DriverInit PROVE CapturedInv
  OBVIOUS
<1>1. /\ \A c \in Chain : chain[c].at = "idle"
      /\ \A r \in Request : call[r].answer = "none"
      /\ timer = None /\ snapshot = None /\ refused = {}
  BY RestingState, FreeState DEF DriverInit
<1>2. state # "published"
  BY DEF DriverInit, Init, InitCaptured, InitUncaptured, InitLegacyJudged
<1> QED
  BY <1>1, <1>2
  DEF CapturedInv, Ordered, ChainOrdered, AnswerOrdered, ReadOrdered, PublishedDated

(* While its copy is current the clock never drops an undecided session    *)
(* whose judge mode was captured: a chain carries it, a timer waits for    *)
(* it, its closing is still to be heard of, or the health surface names    *)
(* the call that stopped.  None of its calls is ever refused, but for the  *)
(* judge_mode_off that is the normal answer of that mode.                  *)
THEOREM NeverForgotten ==
  ASSUME Overlap = FALSE PROVE DriverSpec => [](NothingForgotten /\ CapturedInv)
<1>1. DriverInv /\ WeighedInv /\ CapturedInv /\ [DriverNext]_dvars => CapturedInv'
  BY CapturedStep
<1>2. DriverInv /\ CapturedInv => NothingForgotten /\ CapturedInv
  BY DEF DriverInv, StopsRecorded, CapturedInv, Ordered, NothingForgotten, Known
<1> QED
  BY <1>1, <1>2, CapturedInit, DrivenOne, PTL DEF DriverSpec

(* The clock that waits for an aggregate to end drives the session to one  *)
(* decision: no chain, retry, restart or rebuild moves it afterwards.      *)
THEOREM DriverDecidesOnce ==
  ASSUME Overlap = FALSE PROVE DriverSpec => DecidedOnce
<1> DEFINE Kept == outcome # None =>
                     UNCHANGED <<state, outcome, carried, consensusAt, publishedAt>>
<1>1. WeighedInv /\ [DriverNext]_dvars => [Kept]_vars
  <2> SUFFICES ASSUME WeighedInv, [DriverNext]_dvars, outcome # None
               PROVE  UNCHANGED <<state, outcome, carried, consensusAt, publishedAt>>
    OBVIOUS
  <2>1. RowsMove
    BY StepMovesRows
  <2>2. CASE [Next]_vars
    BY <2>2, DecisionKept DEF WeighedInv
  <2>3. CASE QuietTime
    BY <2>3 DEF QuietTime, row
  <2> QED
    BY <2>1, <2>2, <2>3 DEF RowsMove
<1> QED
  BY <1>1, DrivenOne, PTL DEF DriverSpec, DecidedOnce

(* And to an honest one: a winner answered in time, and nobody that        *)
(* answered in time is passed over by "nobody answered".                   *)
THEOREM DriverDecidesFairly ==
  ASSUME Overlap = FALSE PROVE DriverSpec => [](WinnerEarned /\ NoAnswerIgnored)
<1>1. WeighedInv => WinnerEarned /\ NoAnswerIgnored
  BY DEF WeighedInv, SettlementInv
<1> QED
  BY <1>1, DrivenOne, PTL

(* In full: with its chains, retries, restarts and rebuilds, and with time *)
(* that goes on after them, the clock and the API together implement       *)
(* Decision.                                                               *)
THEOREM DriverRefines ==
  ASSUME Overlap = FALSE PROVE DriverSpec => ImplementsDecision
<1>1. DriverInit => D!Init
  BY InitRefines DEF DriverInit
<1>2. WeighedInv /\ [DriverNext]_dvars => [D!Next]_(D!vars)
  <2> SUFFICES ASSUME WeighedInv, [DriverNext]_dvars
               PROVE  D!Next \/ UNCHANGED D!vars
    OBVIOUS
  <2>1. RowsMove /\ SettlementInv
    BY StepMovesRows DEF WeighedInv
  <2>2. CASE [Next]_vars
    BY <2>1, <2>2, StepRefines
  <2>3. CASE QuietTime
    BY <2>1, <2>3, TickRefines DEF QuietTime
  <2> QED
    BY <2>1, <2>2, <2>3 DEF RowsMove
<1> QED
  BY <1>1, <1>2, DrivenOne, PTL DEF DriverSpec, ImplementsDecision, D!Spec
===============================================================================
