---------------------------- MODULE SettlementDriver ----------------------------
(***************************************************************************)
(* The scheduler's clock driving one closed epoch through the API of       *)
(* Settlement: the chains of calls, their retries, the deadline timer, and *)
(* the rebuilds that replace the clock's view while chains still run.      *)
(*                                                                         *)
(* The clock is one thread of asynchronous tasks; a chain is a task that   *)
(* awaits one call at a time.  A call the client gave up on is not stopped *)
(* at the API: it stays among the requests, with nobody waiting for it.    *)
(***************************************************************************)
EXTENDS Settlement, FiniteSets

CONSTANTS
  Chain,        \* bound: chains that may run at once
  Skew,         \* how far the scheduler's clock may be from the database's
  MaxAttempts,  \* the retry budget of a call, and of early finalizes
  MaxFaults,    \* bound: losses, failures, dropped streams and crashes
  Overlap       \* may an aggregate be sent while an earlier one still runs?

ASSUME DriverAssumption ==
  /\ Skew \subseteq Int /\ MaxAttempts \in Nat \ {0} /\ MaxFaults \in Nat
  /\ Overlap \in BOOLEAN /\ None \notin Chain /\ None \notin [at : Int, rearms : Nat]

Op == {"aggregate", "request", "finalize"}

VARIABLES
  chain,      \* per chain, the call it makes and what it has spent on it
  call,       \* per request, the call, who waits for it and its answer
  timer,      \* the deadline timer, or None
  driving,    \* #driving holds the session
  published,  \* #published holds the session
  exhausted,  \* the calls on the health surface as degraded
  refused,    \* the refusals on record
  current,    \* the stream consumer says the copy is current
  snapshot,   \* the full read a rebuild will consume, or None
  hints,      \* what will still tell the clock that the epoch closed
  skew,       \* the scheduler's clock minus the database's
  faults

memory == <<timer, driving, published, exhausted, refused>>
view   == <<current, snapshot, hints>>
dvars  == <<vars, chain, call, memory, view, skew, faults>>

Idle == [at |-> "idle", tries |-> 0, rearms |-> 0, drives |-> FALSE]
Free == [op |-> "none", by |-> None, answer |-> "none", due |-> None]

ChainState ==
  [at : Op \cup {"idle"}, tries : 0 .. MaxAttempts - 1,
   rearms : 0 .. MaxAttempts - 1, drives : BOOLEAN]
CallState ==
  [op : Op \cup {"none"}, by : Chain \cup {None},
   answer : {"none", "ok", "early", "off", "refused", "failed"}, due : Int \cup {None}]
TimerState == [at : Int, rearms : 0 .. MaxAttempts - 1]

DriverTypeOK ==
  /\ TypeOK
  /\ chain \in [Chain -> ChainState] /\ call \in [Request -> CallState]
  /\ timer = None \/ timer \in TimerState
  /\ {driving, published, current} \subseteq BOOLEAN
  /\ exhausted \subseteq Op /\ refused \subseteq Op
  /\ snapshot = None \/ snapshot.state \in
       {"window_closed", "aggregated", "judging", "judged", "published"}
  /\ hints \subseteq {"answer", "event"}
  /\ skew \in Skew /\ faults \in 0 .. MaxFaults

Local   == now + skew
Resting == {c \in Chain : chain[c].at = "idle"}
Waiting(c) == {r \in Request : call[r].by = c}

(* The clock made this session's turnover itself, so the turnover's answer *)
(* and its event both arrive; or it has just started and holds nothing.    *)
DriverInit ==
  /\ Init
  /\ chain = [c \in Chain |-> Idle] /\ call = [r \in Request |-> Free]
  /\ timer = None /\ driving = FALSE /\ published = FALSE
  /\ exhausted = {} /\ refused = {} /\ snapshot = None
  /\ \/ current = TRUE  /\ hints = {"answer", "event"} /\ state = "window_closed"
     \/ current = FALSE /\ hints = {}
  /\ skew \in Skew /\ faults = 0

Fault == faults < MaxFaults /\ faults' = faults + 1

-------------------------------------------------------------------------------
(* Chains start, go on and end.                                            *)

At(c, op, rearms) ==
  chain' = [chain EXCEPT ![c].at = op, ![c].tries = 0, ![c].rearms = rearms]

(* The finally of #resumeSettlement: the mark goes, whoever set it.        *)
End(c) ==
  /\ chain' = [chain EXCEPT ![c] = Idle]
  /\ driving' = (driving /\ ~chain[c].drives)

Arm(at, rearms) == timer' = [at |-> at, rearms |-> rearms]

(* Mutant: a deadline that passed while nothing was armed gets a timer     *)
(* counted from now.                                                       *)
ParkOrFinalize_restarted(c, due) ==
  IF due > Local THEN End(c) /\ Arm(Local + JudgingDuration, 0)
  ELSE IF published THEN End(c) /\ UNCHANGED timer
       ELSE At(c, "finalize", 0) /\ UNCHANGED <<timer, driving>>

(* Park on the instant the API stored, or finalize what is due.            *)
ParkOrFinalize(c, due) ==
  IF due > Local THEN End(c) /\ Arm(due, 0)
  ELSE IF published THEN End(c) /\ UNCHANGED timer
       ELSE At(c, "finalize", 0) /\ UNCHANGED <<timer, driving>>

(* #resumeSettlement from a recorded state, with the timer and the mark    *)
(* that are left when it is called.                                        *)
Resume(s, held, driven) ==
  IF published \/ driven \/ held # None
  THEN timer' = held /\ driving' = driven /\ UNCHANGED chain
  ELSE IF s.state = "judging" /\ s.due > Local
       THEN Arm(s.due, 0) /\ driving' = FALSE /\ UNCHANGED chain
       ELSE \E c \in Resting :
              /\ chain' = [chain EXCEPT ![c] =
                   [Idle EXCEPT !.drives = TRUE, !.at =
                      IF s.state = "window_closed" THEN "aggregate"
                      ELSE IF s.state = "aggregated" THEN "request" ELSE "finalize"]]
              /\ driving' = TRUE /\ timer' = held

(* The turnover's answer, or its event once the copy is current, resumes   *)
(* the session as one that has just closed.                                *)
Hear(h) ==
  /\ h \in hints /\ (h = "event" => current)
  /\ hints' = hints \ {h}
  /\ Resume([state |-> "window_closed", due |-> None], timer, driving)
  /\ UNCHANGED <<vars, call, published, exhausted, refused, current, snapshot, skew, faults>>

-------------------------------------------------------------------------------
(* Calls.                                                                  *)

Running(op) == {r \in Request : call[r].op = op /\ call[r].answer = "none"}

Send(c) ==
  /\ chain[c].at # "idle" /\ Waiting(c) = {}
  /\ chain[c].at = "aggregate" /\ ~Overlap => Running("aggregate") = {}
  /\ \E r \in Request :
       /\ call[r] = Free
       /\ call' = [call EXCEPT ![r].op = chain[c].at, ![r].by = c]
  /\ UNCHANGED <<vars, chain, memory, view, skew, faults>>

Asked(r, op) == call[r].op = op /\ call[r].answer = "none"

Reply(r, a) ==
  call' = [call EXCEPT ![r] =
             IF @.by = None THEN Free ELSE [@ EXCEPT !.answer = a, !.due = deadline']]

Served == UNCHANGED <<chain, memory, view, skew, faults>>

ServeAggregate(r) ==
  /\ Asked(r, "aggregate")
  /\ \/ AggregateRead(r) /\ UNCHANGED call
     \/ AggregateWrite(r) /\ Reply(r, "ok")
     \/ /\ r \notin aggregating /\ state # "window_closed"
        /\ UNCHANGED vars /\ Reply(r, "ok")
  /\ Served

ServeRequest(r) ==
  /\ Asked(r, "request")
  /\ \/ RequestJudging /\ Reply(r, "ok")
     \/ /\ UNCHANGED vars
        /\ IF mode = "off" THEN Reply(r, "off")
           ELSE IF judgingCaptured /\ deadline # None THEN Reply(r, "ok")
           ELSE (judgingCaptured => state # "aggregated") /\ Reply(r, "refused")
  /\ Served

Early == mode = "enforce" /\ deadline # None /\ state # "published" /\ now < deadline
           /\ ~(state = "judged" /\ ConsensusEligible)

Finalizable ==
  \/ state = "published" \/ (mode = "off" /\ state = "aggregated")
  \/ (mode = "enforce" /\ deadline # None /\ ~Early)

ServeFinalize(r) ==
  /\ Asked(r, "finalize")
  /\ \/ Finalize /\ Reply(r, "ok")
     \/ UNCHANGED vars /\ Early /\ Reply(r, "early")
     \/ UNCHANGED vars /\ ~Early /\ ~Finalizable /\ Reply(r, "refused")
  /\ Served

(* A call fails at the API, its transaction rolled back.                   *)
FailAtApi(r) ==
  /\ call[r].op # "none" /\ call[r].answer = "none" /\ Fault
  /\ \/ AggregateFail(r)
     \/ r \notin aggregating /\ UNCHANGED vars
  /\ Reply(r, "failed")
  /\ UNCHANGED <<chain, memory, view, skew>>

(* Mutants: an attempt too many; a chain that ends without a word.         *)
Retry_oneMore(c) ==
  IF chain[c].tries < MaxAttempts
  THEN chain' = [chain EXCEPT ![c].tries = @ + 1] /\ UNCHANGED <<driving, exhausted>>
  ELSE End(c) /\ exhausted' = exhausted \cup {chain[c].at}

Retry_silent(c) ==
  IF chain[c].tries + 1 < MaxAttempts
  THEN chain' = [chain EXCEPT ![c].tries = @ + 1] /\ UNCHANGED <<driving, exhausted>>
  ELSE End(c) /\ UNCHANGED exhausted

(* Another attempt, or the budget is out and the item is degraded.         *)
Retry(c) ==
  IF chain[c].tries + 1 < MaxAttempts
  THEN chain' = [chain EXCEPT ![c].tries = @ + 1] /\ UNCHANGED <<driving, exhausted>>
  ELSE End(c) /\ exhausted' = exhausted \cup {chain[c].at}

Release(r) == call' = [call EXCEPT ![r] = Free]

(* The client gives a call up: its time is over, or its answer is lost.    *)
Lose(r) ==
  /\ call[r].by # None /\ Fault
  /\ IF call[r].answer = "none"
     THEN call' = [call EXCEPT ![r].by = None] ELSE Release(r)
  /\ Retry(call[r].by)
  /\ UNCHANGED <<vars, timer, published, refused, view, skew>>

ReceiveFailed(r) ==
  /\ call[r].answer = "failed" /\ Release(r) /\ Retry(call[r].by)
  /\ UNCHANGED <<vars, timer, published, refused, view, skew, faults>>

Succeeds(r, op) ==
  /\ call[r].op = op /\ call[r].answer = "ok" /\ Release(r)
  /\ exhausted' = exhausted \ {op}
  /\ UNCHANGED <<vars, refused, view, skew, faults>>

ReceiveAggregated(r) ==
  /\ Succeeds(r, "aggregate") /\ At(call[r].by, "request", 0)
  /\ UNCHANGED <<timer, driving, published>>

ReceiveDeadline(r) ==
  Succeeds(r, "request") /\ ParkOrFinalize(call[r].by, call[r].due)
    /\ UNCHANGED published

ReceivePublished(r) ==
  /\ Succeeds(r, "finalize") /\ End(call[r].by)
  /\ published' = TRUE /\ timer' = None

(* Mutants: the refusal that means "not yet" is final, or a success.       *)
ReceiveEarly_published(r) ==
  /\ call[r].answer = "early" /\ Release(r) /\ End(call[r].by)
  /\ published' = TRUE /\ timer' = None
  /\ UNCHANGED <<exhausted, vars, refused, view, skew, faults>>

ReceiveEarly_final(r) ==
  /\ call[r].answer = "early" /\ Release(r) /\ End(call[r].by)
  /\ UNCHANGED <<timer, exhausted, vars, published, refused, view, skew, faults>>

(* Finalized too early: back to waiting, within the budget.                *)
ReceiveEarly(r) ==
  /\ call[r].answer = "early" /\ Release(r) /\ End(call[r].by)
  /\ LET spent == chain[call[r].by].rearms + 1
     IN IF spent >= MaxAttempts
        THEN exhausted' = exhausted \cup {"finalize"} /\ UNCHANGED timer
        ELSE Arm(Local + 1, spent) /\ UNCHANGED exhausted
  /\ UNCHANGED <<vars, published, refused, view, skew, faults>>

(* Judging is off: the refusal is forgotten again and nothing waits.       *)
ReceiveOff(r) ==
  /\ call[r].answer = "off" /\ Release(r)
  /\ IF published THEN End(call[r].by)
     ELSE At(call[r].by, "finalize", 0) /\ UNCHANGED driving
  /\ UNCHANGED <<vars, timer, published, exhausted, refused, view, skew, faults>>

ReceiveRefused(r) ==
  /\ call[r].answer = "refused" /\ Release(r) /\ End(call[r].by)
  /\ refused' = refused \cup {call[r].op}
  /\ UNCHANGED <<vars, timer, published, exhausted, view, skew, faults>>

Receive(r) ==
  \/ ReceiveFailed(r) \/ ReceiveAggregated(r) \/ ReceiveDeadline(r)
  \/ ReceivePublished(r) \/ ReceiveEarly(r) \/ ReceiveOff(r) \/ ReceiveRefused(r)

-------------------------------------------------------------------------------
(* The deadline timer falls.  A copy that is not current does not act.     *)
TimerFires ==
  /\ timer # None /\ timer.at <= Local
  /\ timer' = None
  /\ IF current /\ ~published
     THEN \E c \in Resting : At(c, "finalize", timer.rearms)
     ELSE UNCHANGED chain
  /\ UNCHANGED <<vars, call, driving, published, exhausted, refused, view, skew, faults>>

(* The stream is in doubt: nothing is current until the next rebuild.      *)
Doubt ==
  /\ Fault /\ (current \/ snapshot # None)
  /\ current' = FALSE /\ snapshot' = None
  /\ UNCHANGED <<vars, chain, call, memory, hints, skew>>

(* fullRead, whose part 3 lists every closed and unpublished session.      *)
FullRead ==
  /\ ~current /\ snapshot = None
  /\ snapshot' = [state |-> state, due |-> deadline]
  /\ UNCHANGED <<vars, chain, call, memory, current, hints, skew, faults>>

(* The rebuild clears first and waits for nothing: chains of the old view  *)
(* run on, unmarked.  What happened before the read is never replayed.     *)
Rebuild ==
  /\ ~current /\ snapshot # None
  /\ current' = TRUE /\ snapshot' = None /\ hints' = hints \ {"event"}
  /\ IF snapshot.state = "published"
     THEN timer' = None /\ driving' = FALSE /\ UNCHANGED chain
     ELSE Resume(snapshot, None, FALSE)
  /\ UNCHANGED <<vars, call, published, exhausted, refused, skew, faults>>

(* The process dies and starts again with nothing but the API's rows.      *)
Crash ==
  /\ Fault
  /\ chain' = [c \in Chain |-> Idle]
  /\ call' = [r \in Request |-> IF call[r].answer # "none" THEN Free
                                ELSE [call[r] EXCEPT !.by = None]]
  /\ timer' = None /\ driving' = FALSE /\ published' = FALSE
  /\ exhausted' = {} /\ refused' = {}
  /\ current' = FALSE /\ snapshot' = None /\ hints' = {}
  /\ UNCHANGED <<vars, skew>>

(* The bound on the clock never stops it before an armed timer is due.     *)
Time ==
  /\ \/ Tick
     \/ /\ timer # None /\ Local < timer.at /\ now' = now + 1
        /\ UNCHANGED <<row, judged, eligible, kept, aggregating, reported>>
  /\ UNCHANGED <<chain, call, memory, view, skew, faults>>

(* Judges answer meanwhile.  Whom an admin makes eligible is left to       *)
(* Settlement: no answer the clock gets depends on it.                     *)
Judging ==
  /\ \E j \in Judge : SubmitJudgement(j)
  /\ UNCHANGED <<chain, call, memory, view, skew, faults>>

DriverNext ==
  \/ \E h \in {"answer", "event"} : Hear(h)
  \/ \E c \in Chain : Send(c)
  \/ \E r \in Request :
       \/ ServeAggregate(r) \/ ServeRequest(r) \/ ServeFinalize(r)
       \/ FailAtApi(r) \/ Lose(r) \/ Receive(r)
  \/ TimerFires \/ Doubt \/ FullRead \/ Rebuild \/ Crash
  \/ Time \/ Judging

DriverSpec == DriverInit /\ [][DriverNext]_dvars

(* The event loop runs every task, the API answers every request that does *)
(* not fail, timers fall, and a lost stream is read anew.                  *)
DriverFairness ==
  /\ \A h \in {"answer", "event"} : WF_dvars(Hear(h))
  /\ \A c \in Chain : WF_dvars(Send(c))
  /\ \A r \in Request :
       WF_dvars(ServeAggregate(r) \/ ServeRequest(r) \/ ServeFinalize(r))
         /\ WF_dvars(Receive(r))
  /\ WF_dvars(TimerFires) /\ WF_dvars(FullRead) /\ WF_dvars(Rebuild)
  /\ WF_dvars(Time)

FairDriverSpec == DriverSpec /\ DriverFairness

-------------------------------------------------------------------------------
(* The health surface lists the calls whose budget is spent.  A refusal is *)
(* only kept in memory: no report of the clock names the session it ended. *)
Known == exhausted # {}

(* A clock whose copy is current never just forgets an unfinished session  *)
(* whose judge mode was captured: a chain carries it, a timer waits for    *)
(* its deadline, its closing is still to be heard of, or the health        *)
(* surface names the call that stopped.                                    *)
NothingForgotten ==
  current /\ outcome = None /\ judgingCaptured =>
    Resting # Chain \/ timer # None \/ hints # {} \/ Known

(* Once streams, calls and processes stop failing, such a session is       *)
(* published or the health surface says what stopped, and so it stays.     *)
SettledOrSaid == <>[](judgingCaptured => outcome # None \/ Known)

(* A timer that no early answer moved waits for the stored deadline: not   *)
(* one counted from a restart, and not one of an answer that came late.    *)
TimerFromRow == timer # None => timer.at = deadline \/ timer.rearms > 0

(* The clock takes a session for published only when it is.                *)
RemembersTruly == published => outcome # None

(* The inductive invariant behind these, and behind the types.  A chain *)
(* waits for one call at most, the call it is at; a request that read the  *)
(* row to aggregate it is still running.                                   *)
CallsMatch ==
  \A r \in Request :
    /\ call[r].by # None => call[r].op = chain[call[r].by].at /\ call[r].op \in Op
    /\ call[r].answer # "none" => call[r].by # None
    /\ \A q \in Request : call[q].by = call[r].by /\ call[r].by # None => q = r
    /\ r \in aggregating => Asked(r, "aggregate")

(* What an answer or a full read told stays true until it is used.         *)
AnswersTrue ==
  \A r \in Request : call[r].answer = "ok" =>
    /\ call[r].op = "request" => deadline # None /\ call[r].due = deadline
    /\ call[r].op = "finalize" => outcome # None

JudgingDated == state = "judging" => deadline # None

SnapshotTrue ==
  snapshot # None =>
    /\ snapshot.due \in {None, deadline}
    /\ snapshot.state = "judging" => snapshot.due # None
    /\ snapshot.state = "published" => outcome # None

(* The mark of a driven session belongs to a chain that runs.              *)
DriversRun ==
  /\ driving => \E c \in Chain : chain[c].drives
  /\ \A c \in Chain : chain[c].drives => chain[c].at # "idle"

(* Every session the clock stopped at left a record, if only in memory.    *)
StopsRecorded ==
  current /\ outcome = None =>
    Resting # Chain \/ timer # None \/ hints # {} \/ exhausted # {} \/ refused # {}

DriverInv ==
  /\ DriverTypeOK /\ PublishedDecided /\ JudgingDated
  /\ CallsMatch /\ AnswersTrue /\ SnapshotTrue /\ DriversRun
  /\ RemembersTruly /\ TimerFromRow /\ StopsRecorded

(* Where no aggregate is sent while another runs, at most one runs.        *)
OneAggregate == \A q, r \in Running("aggregate") : q = r

(* And then the API refuses no call for a captured session: judging is     *)
(* asked of one that was aggregated, and finalized is one that has a       *)
(* deadline or needs none.                                                 *)
Rolled == state # "window_closed"
Dated  == Rolled /\ (mode = "off" \/ deadline # None)

ChainOrdered(c) ==
  /\ chain[c].at \in {"request", "finalize"} => Rolled
  /\ chain[c].at = "finalize" => Dated

AnswerOrdered(r) ==
  /\ call[r].answer # "refused"
  /\ call[r].answer = "ok" /\ call[r].op = "aggregate" => Rolled
  /\ call[r].answer = "ok" /\ call[r].op = "request" => Dated
  /\ call[r].answer \in {"early", "off"} => Dated

ReadOrdered ==
  snapshot # None =>
    /\ snapshot.state # "window_closed" => Rolled
    /\ snapshot.state \notin {"window_closed", "aggregated"} => Dated

Ordered ==
  /\ \A c \in Chain : ChainOrdered(c)
  /\ \A r \in Request : AnswerOrdered(r)
  /\ timer # None => Dated
  /\ ReadOrdered
  /\ refused = {}

PublishedDated == state = "published" => Dated

CapturedInv == judgingCaptured => Ordered /\ PublishedDated
===============================================================================
