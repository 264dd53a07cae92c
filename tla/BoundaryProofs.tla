------------------------------ MODULE BoundaryProofs ------------------------------
(***************************************************************************)
(* What holds of the scheduler's clock at a subject's boundaries, for any  *)
(* number of windows, tasks and requests, any spacings and any faults.     *)
(***************************************************************************)
EXTENDS BoundaryClock, EpochProofs

-------------------------------------------------------------------------------
(* The rows of the API move by steps of EpochLifecycle.                    *)

LEMMA ClockMovesRows ==
  ASSUME CallsDue, [ClockNext]_cvars PROVE [Next]_vars
<1>1. ASSUME NEW r \in Opener, Serve(r) PROVE [Next]_vars
  <2>1. call[r].item = "turnover" => call[r].session \in Session
    BY DEF CallsDue, Due
  <2> QED
    BY <1>1, <2>1 DEF Serve, ServeTurnOver, ServeOpen, Asked, Next
<1>2. ASSUME NEW r \in Opener, FailAtApi(r) PROVE [Next]_vars
  BY <1>2 DEF FailAtApi, Next
<1>3. ASSUME NEW s \in Session, Peer(s) PROVE [Next]_vars
  BY <1>3 DEF Peer, Next
<1>4. CASE Admin \/ Time
  BY <1>4 DEF Admin, Time, Next
<1>5. ASSUME NEW r \in Opener, Lose(r) \/ Receive(r) PROVE UNCHANGED vars
  BY <1>5 DEF Lose, Receive, ReceiveFailed, ReceiveRefused, ReceiveOk
<1>6. ASSUME \/ BoundaryFalls \/ ApplyEvent \/ Doubt \/ FullRead \/ Rebuild \/ Crash
             \/ \E k \in Task : Send(k)
             \/ UNCHANGED cvars
      PROVE  UNCHANGED vars
  BY <1>6 DEF BoundaryFalls, ApplyEvent, Doubt, FullRead, Rebuild, Crash, Send, cvars
<1> QED
  BY <1>1, <1>2, <1>3, <1>4, <1>5, <1>6 DEF ClockNext

LEMMA TimeGoesOn ==
  ASSUME TypeOK, [Next]_vars PROVE now' \in Int /\ now <= now'
BY DEF TypeOK, Next, OpenCheck, OpenPlace, OpenInsert, OpenAbandon, TurnOver, Closed,
       TurnOverReplay, Deactivate, Activate, Update, Tick, vars

LEMMA RowsMoved ==
  ASSUME DueInv, [Next]_vars, lead' = lead
  PROVE  /\ EpochInv' /\ WindowsKeep
         /\ \A s : Due(s) => Due(s)'
<1>1. EpochInv' /\ WindowsKeep
  BY StepEpoch, StepKeepsWindows DEF DueInv
<1>2. now \in Int /\ now' \in Int /\ now <= now' /\ lead \in Int
  BY TimeGoesOn, ClockAssumption DEF DueInv, EpochInv, TypeOK, ClockTypeOK
<1>3. ASSUME NEW s, Due(s) PROVE Due(s)'
  <2>1. s \in Session /\ closesAt'[s] = closesAt[s] /\ state'[s] # "none" /\ closesAt[s] \in Int
        /\ closesAt[s] <= now + lead
    BY <1>1, <1>3 DEF Due, WindowsKeep, Local, DueInv, EpochInv, TypeOK
  <2> QED
    BY <1>2, <2>1 DEF Due, Local
<1> QED
  BY <1>1, <1>3

-------------------------------------------------------------------------------
(* A step of the API: the clock's own state stands still.                  *)

LEMMA ApiKeepsDue ==
  ASSUME DueInv, [Next]_vars, UNCHANGED <<task, memory, view, lead>>,
         call' \in [Opener -> CallState], CallsDue', AnswersTrue'
  PROVE  DueInv'
<1>1. /\ EpochInv' /\ WindowsKeep /\ \A s : Due(s) => Due(s)'
  BY RowsMoved
<1>2. UNCHANGED <<boundary, handed, exhausted, gaveUp, current, cursor, snapshot>>
  BY DEF memory, view
<1>3. ClockTypeOK'
  BY <1>2 DEF DueInv, ClockTypeOK
<1>4. BoundaryTrue'
  <2>1. boundary # None => boundary.session \in Session
    BY DEF DueInv, ClockTypeOK, Timers
  <2> QED
    BY <1>1, <1>2, <2>1 DEF DueInv, BoundaryTrue, WindowsKeep
<1>5. TasksDue'
  BY <1>1, <1>2 DEF DueInv, TasksDue
<1>6. SnapshotTrue'
  <2>1. snapshot # None => snapshot.open \subseteq Session
    BY DEF DueInv, ClockTypeOK, Snapshots
  <2> QED
    BY <1>1, <1>2, <2>1 DEF DueInv, SnapshotTrue, WindowsKeep
<1> QED
  BY <1>1, <1>3, <1>4, <1>5, <1>6 DEF DueInv

(* An answer, and the session it names.                                    *)
LEMMA AnswerNamed ==
  ASSUME DueInv, NEW r \in Opener, call[r].answer # None
  PROVE  /\ call[r].answer \in Answers
         /\ call[r].answer.opened \in Session \cup {None}
BY DEF DueInv, ClockTypeOK, CallState, Answers

LEMMA CallsKept ==
  ASSUME DueInv, [Next]_vars, UNCHANGED <<call, lead>>
  PROVE  call' \in [Opener -> CallState] /\ CallsDue' /\ AnswersTrue'
<1>1. /\ EpochInv' /\ WindowsKeep /\ \A s : Due(s) => Due(s)'
  BY RowsMoved
<1>2. CallsDue'
  BY <1>1 DEF DueInv, CallsDue
<1>3. AnswersTrue'
  BY <1>1, AnswerNamed DEF DueInv, AnswersTrue, WindowsKeep
<1> QED
  BY <1>2, <1>3 DEF DueInv, ClockTypeOK

(* What a reply leaves of a request: nothing, or its answer.               *)
LEMMA ReplyIs ==
  ASSUME DueInv, closesAt' \in [Session -> Int], NEW r \in Opener,
         NEW kind \in {"ok", "refused", "failed"}, NEW s \in Session \cup {None},
         Reply(r, kind, s)
  PROVE  \E y \in CallState :
           /\ call' = [call EXCEPT ![r] = y]
           /\ call'[r] = y /\ \A q \in Opener : q # r => call'[q] = call[q]
           /\ \/ y = Free
              \/ /\ y.item = call[r].item /\ y.session = call[r].session
                 /\ y.by = call[r].by /\ y.by # None
                 /\ y.answer # None /\ y.answer.kind = kind /\ y.answer.opened = s
                 /\ s # None => y.answer.at = closesAt'[s]
<1>1. call \in [Opener -> CallState]
  BY DEF DueInv, ClockTypeOK
<1>2. PICK a : a = [kind |-> kind, opened |-> s, at |-> IF s = None THEN 0 ELSE closesAt'[s]]
  OBVIOUS
<1>3. (IF s = None THEN 0 ELSE closesAt'[s]) \in Int
  OBVIOUS
<1>4. a \in Answers /\ a # None /\ a.kind = kind /\ a.opened = s
      /\ (s # None => a.at = closesAt'[s])
  BY <1>2, <1>3, ClockAssumption DEF Answers
<1>5. PICK y : y = IF call[r].by = None THEN Free ELSE [call[r] EXCEPT !.answer = a]
  OBVIOUS
<1>6. call' = [call EXCEPT ![r] = y]
  BY <1>2, <1>5 DEF Reply
<1>7. CASE call[r].by = None
  <2>1. y = Free /\ y \in CallState
    BY <1>5, <1>7 DEF Free, CallState
  <2> QED
    BY <1>1, <1>6, <2>1
<1>8. CASE call[r].by # None
  <2>1. call[r] \in CallState /\ y = [call[r] EXCEPT !.answer = a]
    BY <1>1, <1>5, <1>8
  <2>2. /\ y \in CallState /\ y.item = call[r].item /\ y.session = call[r].session
        /\ y.by = call[r].by /\ y.answer = a
    BY <1>4, <2>1 DEF CallState
  <2> QED
    BY <1>1, <1>4, <1>6, <1>8, <2>2
<1> QED
  BY <1>7, <1>8

LEMMA ReplyKept ==
  ASSUME DueInv, [Next]_vars, lead' = lead, NEW r \in Opener,
         NEW kind \in {"ok", "refused", "failed"}, NEW s \in Session \cup {None},
         s # None => state'[s] # "none", Reply(r, kind, s)
  PROVE  call' \in [Opener -> CallState] /\ CallsDue' /\ AnswersTrue'
<1>1. /\ EpochInv' /\ WindowsKeep /\ \A q : Due(q) => Due(q)'
  BY RowsMoved
<1>2. closesAt' \in [Session -> Int] /\ call \in [Opener -> CallState]
  BY <1>1 DEF EpochInv, TypeOK, DueInv, ClockTypeOK
<1>3. PICK y \in CallState :
           /\ call' = [call EXCEPT ![r] = y]
           /\ call'[r] = y /\ \A q \in Opener : q # r => call'[q] = call[q]
           /\ \/ y = Free
              \/ /\ y.item = call[r].item /\ y.session = call[r].session
                 /\ y.answer # None /\ y.answer.opened = s
                 /\ s # None => y.answer.at = closesAt'[s]
  BY <1>2, ReplyIs
<1>4. Free.item = "none" /\ Free.answer = None
  BY DEF Free
<1>5. CallsDue'
  <2> SUFFICES ASSUME NEW q \in Opener, NEW p, call'[q].item = "turnover",
                      p = call'[q].session
               PROVE  Due(p)'
    BY DEF CallsDue, Due
  <2>1. call'[q].session = call[q].session /\ call[q].item = "turnover"
    BY <1>3, <1>4
  <2>2. Due(call[q].session)
    BY <2>1 DEF DueInv, CallsDue
  <2> QED
    BY <1>1, <2>1, <2>2
<1>6. AnswersTrue'
  <2> SUFFICES ASSUME NEW q \in Opener, call'[q].answer # None, call'[q].answer.opened # None
               PROVE  /\ state'[call'[q].answer.opened] # "none"
                      /\ call'[q].answer.at = closesAt'[call'[q].answer.opened]
    BY DEF AnswersTrue
  <2>1. CASE q = r
    BY <1>3, <1>4, <2>1
  <2>2. CASE q # r
    BY <1>1, <1>3, <2>2, AnswerNamed DEF DueInv, AnswersTrue, WindowsKeep
  <2> QED
    BY <2>1, <2>2
<1> QED
  BY <1>2, <1>3, <1>5, <1>6

(* What a served request answers: nothing yet, or a reply that names no    *)
(* session, or one that has a row.                                         *)
Replies(r) ==
  \/ \E s \in Session : state'[s] # "none" /\ Reply(r, "ok", s)
  \/ \E kind \in {"ok", "refused", "failed"} : Reply(r, kind, None)

LEMMA ServedReplies ==
  ASSUME DueInv, NEW r \in Opener, Serve(r) \/ FailAtApi(r)
  PROVE  /\ [Next]_vars /\ UNCHANGED <<task, memory, view, lead>>
         /\ UNCHANGED call \/ Replies(r)
<1>1. [Next]_vars /\ UNCHANGED <<task, memory, view, lead>>
  BY ClockMovesRows DEF ClockNext, DueInv, Serve, FailAtApi
<1>2. EpochInv'
  BY <1>1, RowsMoved
<1>3. ASSUME NEW s \in Session \cup {None}, s # None => state'[s] # "none", Reply(r, "ok", s)
      PROVE  Replies(r)
  <2>1. CASE s = None
    BY <1>3, <2>1 DEF Replies
  <2>2. CASE s # None
    BY <1>3, <2>2 DEF Replies
  <2> QED
    BY <2>1, <2>2
<1>4. CASE Serve(r) /\ ServeTurnOver(r)
  <2>1. PICK s : s = call[r].session
    OBVIOUS
  <2>2. s \in Session
    BY <1>4, <2>1 DEF DueInv, CallsDue, Due, ServeTurnOver, Asked
  <2>3. CASE TurnOver(s) /\ Reply(r, "ok", successor'[s])
    <3>1. PICK t : t = successor'[s]
      OBVIOUS
    <3>2. t \in Session \cup {None} /\ (t # None => state'[t] # "none")
      BY <1>2, <2>2, <3>1 DEF EpochInv, TypeOK, ChainForward
    <3> QED
      BY <1>1, <1>3, <2>3, <3>1, <3>2
  <2>4. CASE TurnOverReplay(s) /\ Reply(r, "ok", successor[s])
    <3>1. successor[s] \in Session \cup {None}
          /\ (successor[s] # None => state'[successor[s]] # "none")
      BY <2>2, <2>4 DEF TurnOverReplay, sessions, DueInv, EpochInv, TypeOK, ChainForward
    <3> QED
      BY <1>1, <1>3, <2>4, <3>1
  <2>5. CASE Reply(r, "refused", None) \/ Reply(r, "failed", None)
    BY <1>1, <2>5 DEF Replies
  <2> QED
    BY <1>4, <2>1, <2>3, <2>4, <2>5 DEF ServeTurnOver
<1>5. CASE Serve(r) /\ ServeOpen(r)
  <2>1. CASE \E s \in Session : state'[s] = "collecting" /\ Reply(r, "ok", s)
    BY <1>1, <2>1 DEF Replies
  <2>2. CASE \E s \in Collecting : OpenAbandon(r) /\ Reply(r, "ok", s)
    <3>1. PICK s \in Session : state[s] = "collecting" /\ OpenAbandon(r) /\ Reply(r, "ok", s)
      BY <2>2 DEF Collecting
    <3>2. state'[s] = "collecting"
      BY <3>1 DEF OpenAbandon, sessions
    <3> QED
      BY <1>1, <3>1, <3>2 DEF Replies
  <2>3. CASE Reply(r, "refused", None)
    BY <1>1, <2>3 DEF Replies
  <2> QED
    BY <1>1, <1>5, <2>1, <2>2, <2>3 DEF ServeOpen, Unused
<1>6. CASE FailAtApi(r)
  BY <1>1, <1>6 DEF FailAtApi, Replies
<1> QED
  BY <1>1, <1>4, <1>5, <1>6 DEF Serve

LEMMA ServedDue ==
  ASSUME DueInv, NEW r \in Opener, Serve(r) \/ FailAtApi(r)
  PROVE  DueInv'
<1>1. /\ [Next]_vars /\ UNCHANGED <<task, memory, view, lead>>
      /\ UNCHANGED call \/ Replies(r)
  BY ServedReplies
<1>2. CASE UNCHANGED call
  BY <1>1, <1>2, CallsKept, ApiKeepsDue
<1>3. CASE Replies(r)
  <2>1. ASSUME NEW s \in Session, state'[s] # "none", Reply(r, "ok", s)
        PROVE  call' \in [Opener -> CallState] /\ CallsDue' /\ AnswersTrue'
    BY <1>1, <2>1, ReplyKept
  <2>2. ASSUME NEW kind \in {"ok", "refused", "failed"}, Reply(r, kind, None)
        PROVE  call' \in [Opener -> CallState] /\ CallsDue' /\ AnswersTrue'
    BY <1>1, <2>2, ReplyKept
  <2> QED
    BY <1>1, <1>3, <2>1, <2>2, ApiKeepsDue DEF Replies
<1> QED
  BY <1>1, <1>2, <1>3

LEMMA WorldDue ==
  ASSUME DueInv, (\E s \in Session : Peer(s)) \/ Admin \/ Time
  PROVE  DueInv'
<1>1. [Next]_vars
  BY ClockMovesRows DEF ClockNext, DueInv
<1>2. UNCHANGED <<task, call, memory, view, lead>>
  BY DEF Peer, Admin, Time
<1> QED
  BY <1>1, <1>2, CallsKept, ApiKeepsDue

-------------------------------------------------------------------------------
(* A step of the clock: the rows of the API stand still.                   *)

LEMMA ClockKeepsDue ==
  ASSUME DueInv, UNCHANGED <<vars, lead>>, ClockTypeOK',
         BoundaryTrue', TasksDue', CallsDue', AnswersTrue', SnapshotTrue'
  PROVE  DueInv'
<1>1. EpochInv'
  BY RowsMoved DEF DueInv
<1> QED
  BY <1>1 DEF DueInv

LEMMA RowsStand ==
  ASSUME UNCHANGED <<vars, lead>>
  PROVE  /\ UNCHANGED <<status, state, closesAt, successor, captured, opening, log, now>>
         /\ UNCHANGED <<Collecting>> /\ \A s : Due(s)' <=> Due(s)
BY DEF vars, subject, sessions, Collecting, Due, Local

(* A call begins: a task that rested makes it.                             *)
LEMMA Started ==
  ASSUME DueInv, UNCHANGED <<vars, lead>>, NEW item \in Item,
         NEW s \in Session \cup {None}, item = "turnover" => Due(s), Start(item, s)
  PROVE  /\ task' \in [Task -> TaskState] /\ TasksDue'
         /\ Resters' # Task
         /\ \A k \in Task : task'[k] = task[k] \/ (task'[k].item = item /\ task'[k].session = s)
<1>1. task \in [Task -> TaskState]
  BY DEF DueInv, ClockTypeOK
<1>2. PICK k : k = CHOOSE x \in Resters : TRUE
  OBVIOUS
<1>3. k \in Resters /\ k \in Task
  BY <1>2 DEF Start, Resters
<1>4. PICK y : y = [item |-> item, session |-> s, tries |-> 0]
  OBVIOUS
<1>5. y \in TaskState /\ y.item = item /\ y.session = s /\ y.item # "none"
  BY <1>4, ClockAssumption DEF TaskState, Item
<1>6. task' = [task EXCEPT ![k] = y]
  BY <1>2, <1>4 DEF Start
<1>7. /\ task' \in [Task -> TaskState] /\ task'[k] = y
      /\ \A q \in Task : q # k => task'[q] = task[q]
  BY <1>1, <1>3, <1>5, <1>6
<1>8. TasksDue'
  <2> SUFFICES ASSUME NEW q \in Task, NEW p, task'[q].item = "turnover", p = task'[q].session
               PROVE  Due(p)'
    BY DEF TasksDue, Due
  <2>1. Due(p)
    BY <1>5, <1>7 DEF DueInv, TasksDue
  <2> QED
    BY <2>1, RowsStand
<1>9. Resters' # Task
  BY <1>3, <1>5, <1>7 DEF Resters
<1> QED
  BY <1>5, <1>7, <1>8, <1>9

(* A timer is set from the row.                                            *)
LEMMA Armed ==
  ASSUME DueInv, UNCHANGED <<vars, lead>>, NEW s \in Session, state[s] # "none",
         Arm(s, closesAt[s])
  PROVE  /\ boundary' \in Timers /\ boundary' # None /\ BoundaryTrue'
         /\ boundary'.session = s
<1>1. closesAt[s] \in Int
  BY DEF DueInv, EpochInv, TypeOK
<1>2. boundary' = [session |-> s, at |-> closesAt[s]]
  BY DEF Arm
<1>3. boundary' \in Timers /\ boundary'.session = s /\ boundary'.at = closesAt[s]
  BY <1>1, <1>2 DEF Timers
<1>4. boundary' # None
  BY <1>3, ClockAssumption
<1> QED
  BY <1>3, <1>4, RowsStand DEF BoundaryTrue

(* Every timer, task and snapshot refers to rows.                          *)
LEMMA ClockNames ==
  ASSUME DueInv
  PROVE  /\ boundary # None => /\ boundary \in Timers /\ boundary.session \in Session
                              /\ state[boundary.session] # "none"
                              /\ boundary.at = closesAt[boundary.session]
         /\ snapshot # None => /\ snapshot.open \subseteq Session /\ snapshot.cursor \in Nat
                              /\ snapshot.active \in BOOLEAN
                              /\ \A s \in snapshot.open : state[s] # "none"
         /\ \A s \in Session : closesAt[s] \in Int
         /\ Local \in Int
<1>1. now \in Int /\ lead \in Int
  BY ClockAssumption DEF DueInv, EpochInv, TypeOK, ClockTypeOK
<1> QED
  BY <1>1 DEF DueInv, ClockTypeOK, BoundaryTrue, SnapshotTrue, Timers, Snapshots, EpochInv,
       TypeOK, Local

(* A boundary found in the rows or in the log is fired or gets its timer.  *)
LEMMA ArmedOrFired ==
  ASSUME DueInv, UNCHANGED <<vars, lead>>, NEW s \in Session, state[s] # "none",
         NEW held \in {None, boundary}, ArmOrFire(s, closesAt[s], held)
  PROVE  /\ task' \in [Task -> TaskState] /\ TasksDue' /\ BoundaryTrue'
         /\ boundary' = None \/ boundary' \in Timers
         /\ boundary' # None \/ Resters' # Task
         /\ boundary' = held \/ (boundary' # None /\ boundary'.session = s)
         /\ \A k \in Task : task'[k] = task[k] \/ (task'[k].item = "turnover" /\ task'[k].session = s)
<1>1. CASE closesAt[s] <= Local
  <2>1. Start("turnover", s) /\ boundary' = held /\ Due(s) /\ "turnover" \in Item
    BY <1>1 DEF ArmOrFire, Due, Item
  <2>2. BoundaryTrue' /\ (boundary' = None \/ boundary' \in Timers)
    BY <2>1, ClockNames, RowsStand DEF BoundaryTrue
  <2> QED
    BY <2>1, <2>2, Started
<1>2. CASE ~(closesAt[s] <= Local)
  <2>1. Arm(s, closesAt[s]) /\ UNCHANGED task
    BY <1>2 DEF ArmOrFire
  <2>2. task' \in [Task -> TaskState] /\ TasksDue'
    BY <2>1, RowsStand DEF DueInv, ClockTypeOK, TasksDue
  <2> QED
    BY <2>1, <2>2, Armed
<1> QED
  BY <1>1, <1>2

(* The clock's state without its calls, and its calls.                     *)
LEMMA CallsStand ==
  ASSUME DueInv, UNCHANGED <<vars, call, lead>>
  PROVE  call' \in [Opener -> CallState] /\ CallsDue' /\ AnswersTrue'
BY CallsKept DEF DueInv

LEMMA FallsDue ==
  ASSUME DueInv, BoundaryFalls PROVE DueInv'
<1>1. /\ boundary # None /\ boundary.at <= Local /\ boundary' = None
      /\ UNCHANGED <<vars, call, handed, exhausted, gaveUp, view, lead, faults>>
      /\ Start("turnover", boundary.session) \/ UNCHANGED task
  BY DEF BoundaryFalls
<1>2. /\ boundary.session \in Session /\ Due(boundary.session)
  BY <1>1, ClockNames DEF Due
<1>3. task' \in [Task -> TaskState] /\ TasksDue'
  <2>1. CASE Start("turnover", boundary.session)
    BY <1>1, <1>2, <2>1, Started DEF Item
  <2>2. CASE UNCHANGED task
    BY <1>1, <2>2, RowsStand DEF DueInv, ClockTypeOK, TasksDue
  <2> QED
    BY <1>1, <2>1, <2>2
<1>4. CallsDue' /\ AnswersTrue' /\ call' \in [Opener -> CallState]
  BY <1>1, CallsStand
<1>5. ClockTypeOK' /\ BoundaryTrue' /\ SnapshotTrue'
  BY <1>1, <1>3, <1>4, RowsStand DEF DueInv, ClockTypeOK, BoundaryTrue, SnapshotTrue, view
<1> QED
  BY <1>1, <1>3, <1>4, <1>5, ClockKeepsDue

(* An event of the log, and the sessions it names.                         *)
LEMMA EventNames ==
  ASSUME DueInv, NEW i \in DOMAIN log
  PROVE  /\ log[i].kind \in {"turned_over", "activated", "deactivated", "updated"}
         /\ log[i].closed \in Session \cup {None} /\ log[i].opened \in Session \cup {None}
         /\ log[i].kind = "turned_over" =>
              /\ log[i].closed \in Session /\ log[i].closed \in captured
              /\ log[i].opened = successor[log[i].closed]
              /\ state[log[i].closed] = "closed"
              /\ log[i].opened # None => state[log[i].opened] # "none"
         /\ log[i].kind # "turned_over" => log[i].closed = None
<1>1. log[i] \in EventType
  BY DEF DueInv, EpochInv, TypeOK
<1>2. log[i].kind = "turned_over" =>
        log[i].closed \in captured /\ log[i].opened = successor[log[i].closed]
  BY DEF DueInv, EpochInv, LogMatchesRows
<1>3. captured \subseteq Session
  BY DEF DueInv, EpochInv, TypeOK
<1> QED
  BY <1>1, <1>2, <1>3 DEF EventType, DueInv, EpochInv, LogMatchesRows, RowsAgree, ChainForward, TypeOK

(* What an event makes of the clock's timer and tasks.                     *)
LEMMA EventDoes ==
  ASSUME DueInv, ApplyEvent
  PROVE  \E i \in DOMAIN log :
           /\ i = cursor + 1 /\ cursor' = i /\ i <= Len(log)
           /\ current /\ snapshot = None
           /\ UNCHANGED <<vars, call, exhausted, gaveUp, current, snapshot, lead, faults>>
           /\ \/ /\ log[i].kind = "turned_over" /\ log[i].opened # None
                 /\ ArmOrFire(log[i].opened, closesAt[log[i].opened], boundary)
              \/ /\ log[i].kind = "turned_over" /\ log[i].opened = None /\ UNCHANGED task
                 /\ boundary' = IF boundary # None /\ boundary.session = log[i].closed
                                THEN None ELSE boundary
              \/ /\ log[i].kind = "activated" /\ boundary = None
                 /\ Start("open", None) /\ UNCHANGED boundary
              \/ /\ \/ log[i].kind = "activated" /\ boundary # None
                    \/ log[i].kind \in {"deactivated", "updated"}
                 /\ UNCHANGED <<task, boundary>>
<1>1. current /\ cursor < Len(log) /\ cursor' = cursor + 1
      /\ UNCHANGED <<vars, call, exhausted, gaveUp, current, snapshot, lead, faults>>
  BY DEF ApplyEvent
<1>2. cursor \in Nat /\ snapshot = None /\ log \in Seq(EventType)
  BY <1>1 DEF DueInv, ClockTypeOK, EpochInv, TypeOK
<1>3. cursor + 1 \in DOMAIN log /\ cursor + 1 <= Len(log)
  BY <1>1, <1>2
<1> QED
  BY <1>1, <1>2, <1>3 DEF ApplyEvent, OnTurnedOver, OnActivated, OnOther

LEMMA EventDue ==
  ASSUME DueInv, ApplyEvent PROVE DueInv'
<1>1. PICK i \in DOMAIN log :
           /\ cursor' = i /\ i = cursor + 1 /\ snapshot = None
           /\ UNCHANGED <<vars, call, exhausted, gaveUp, current, snapshot, lead, faults>>
           /\ \/ /\ log[i].kind = "turned_over" /\ log[i].opened # None
                 /\ ArmOrFire(log[i].opened, closesAt[log[i].opened], boundary)
              \/ /\ UNCHANGED task
                 /\ boundary' = IF boundary # None /\ boundary.session = log[i].closed
                                THEN None ELSE boundary
              \/ Start("open", None) /\ UNCHANGED boundary
              \/ UNCHANGED <<task, boundary>>
  BY EventDoes
<1>2. ASSUME UNCHANGED task PROVE task' \in [Task -> TaskState] /\ TasksDue'
  BY <1>1, <1>2, RowsStand DEF DueInv, ClockTypeOK, TasksDue
<1>3. ASSUME boundary' \in {None, boundary}
      PROVE  BoundaryTrue' /\ (boundary' = None \/ boundary' \in Timers)
  BY <1>1, <1>3, RowsStand, ClockNames DEF BoundaryTrue
<1>4. /\ task' \in [Task -> TaskState] /\ TasksDue'
      /\ BoundaryTrue' /\ (boundary' = None \/ boundary' \in Timers)
  <2>1. CASE /\ log[i].kind = "turned_over" /\ log[i].opened # None
             /\ ArmOrFire(log[i].opened, closesAt[log[i].opened], boundary)
    BY <1>1, <2>1, EventNames, ArmedOrFired
  <2>2. CASE /\ UNCHANGED task
             /\ boundary' = IF boundary # None /\ boundary.session = log[i].closed
                            THEN None ELSE boundary
    BY <1>2, <1>3, <2>2
  <2>3. CASE Start("open", None) /\ UNCHANGED boundary
    BY <1>1, <1>3, <2>3, Started DEF Item
  <2>4. CASE UNCHANGED <<task, boundary>>
    BY <1>2, <1>3, <2>4
  <2> QED
    BY <1>1, <2>1, <2>2, <2>3, <2>4
<1>5. CallsDue' /\ AnswersTrue' /\ call' \in [Opener -> CallState]
  BY <1>1, CallsStand
<1>6. ClockTypeOK' /\ SnapshotTrue'
  BY <1>1, <1>4, <1>5, RowsStand DEF DueInv, ClockTypeOK, SnapshotTrue
<1> QED
  BY <1>1, <1>4, <1>5, <1>6, ClockKeepsDue

LEMMA ReadIs ==
  ASSUME DueInv, FullRead
  PROVE  /\ snapshot' \in Snapshots /\ snapshot' # None /\ ~current
         /\ snapshot'.open = Collecting /\ snapshot'.cursor = Len(log)
         /\ snapshot'.active = (status = "active")
         /\ UNCHANGED <<vars, task, call, memory, current, cursor, lead, faults>>
<1>1. Len(log) \in Nat
  BY DEF DueInv, EpochInv, TypeOK
<1>2. PICK x : x = [active |-> status = "active", open |-> Collecting,
                    closed |-> {s \in Session : state[s] = "closed"}, cursor |-> Len(log)]
  OBVIOUS
<1>3. x \in Snapshots
  BY <1>1, <1>2 DEF Snapshots, Collecting
<1>4. x # None
  BY <1>3, ClockAssumption
<1>5. x.open = Collecting /\ x.cursor = Len(log) /\ x.active = (status = "active")
  BY <1>2
<1>6. snapshot' = x /\ ~current
      /\ UNCHANGED <<vars, task, call, memory, current, cursor, lead, faults>>
  BY <1>2 DEF FullRead
<1> QED
  BY <1>3, <1>4, <1>5, <1>6

LEMMA ReadDue ==
  ASSUME DueInv, FullRead \/ Doubt PROVE DueInv'
<1>1. UNCHANGED <<vars, task, call, memory, cursor, lead>>
  BY DEF FullRead, Doubt
<1>2. /\ current' \in BOOLEAN
      /\ snapshot' = None \/ (snapshot' \in Snapshots /\ ~current' /\ snapshot'.open = Collecting)
  BY ReadIs DEF Doubt, DueInv, ClockTypeOK
<1>3. /\ UNCHANGED <<boundary, handed, exhausted, gaveUp>>
  BY <1>1 DEF memory
<1>4. CallsDue' /\ AnswersTrue' /\ call' \in [Opener -> CallState]
  BY <1>1, CallsStand
<1>5. TasksDue' /\ BoundaryTrue' /\ SnapshotTrue'
  BY <1>1, <1>2, <1>3, RowsStand DEF DueInv, TasksDue, BoundaryTrue, SnapshotTrue, Collecting
<1>6. ClockTypeOK'
  BY <1>1, <1>2, <1>3, <1>4 DEF DueInv, ClockTypeOK
<1> QED
  BY <1>1, <1>4, <1>5, <1>6, ClockKeepsDue

LEMMA RebuildDue ==
  ASSUME DueInv, Rebuild PROVE DueInv'
<1>1. /\ snapshot # None /\ current' = TRUE /\ cursor' = snapshot.cursor /\ snapshot' = None
      /\ UNCHANGED <<vars, call, exhausted, gaveUp, lead, faults>>
      /\ \/ \E s \in snapshot.open : ArmOrFire(s, closesAt[s], None)
         \/ boundary' = None /\ (Start("open", None) \/ UNCHANGED task)
  BY DEF Rebuild
<1>2. /\ task' \in [Task -> TaskState] /\ TasksDue' /\ BoundaryTrue'
      /\ boundary' = None \/ boundary' \in Timers
  <2>1. CASE \E s \in snapshot.open : ArmOrFire(s, closesAt[s], None)
    <3>1. PICK s \in snapshot.open : ArmOrFire(s, closesAt[s], None)
      BY <2>1
    <3>2. s \in Session /\ state[s] # "none"
      BY <1>1, ClockNames
    <3> QED
      BY <1>1, <3>1, <3>2, ArmedOrFired
  <2>2. CASE boundary' = None /\ Start("open", None)
    BY <1>1, <2>2, Started DEF Item, BoundaryTrue
  <2>3. CASE boundary' = None /\ UNCHANGED task
    BY <1>1, <2>3, RowsStand DEF DueInv, ClockTypeOK, TasksDue, BoundaryTrue
  <2> QED
    BY <1>1, <2>1, <2>2, <2>3
<1>3. CallsDue' /\ AnswersTrue' /\ call' \in [Opener -> CallState]
  BY <1>1, CallsStand
<1>4. cursor' \in Nat
  BY <1>1, ClockNames
<1>5. ClockTypeOK' /\ SnapshotTrue'
  BY <1>1, <1>2, <1>3, <1>4 DEF DueInv, ClockTypeOK, SnapshotTrue
<1> QED
  BY <1>1, <1>2, <1>3, <1>5, ClockKeepsDue

LEMMA FreeIs == Free \in CallState /\ Free.item = "none" /\ Free.by = None /\ Free.answer = None
BY DEF Free, CallState

LEMMA RestingIs == Resting \in TaskState /\ Resting.item = "none"
BY ClockAssumption DEF Resting, TaskState

(* A task that waits for nothing makes its call.                           *)
LEMMA Sent ==
  ASSUME DueInv, NEW k \in Task, Send(k)
  PROVE  \E r \in Opener, y \in CallState :
           /\ call[r] = Free /\ call'[r] = y /\ call' \in [Opener -> CallState]
           /\ \A q \in Opener : q # r => call'[q] = call[q]
           /\ task[k].item # "none" /\ y.item = task[k].item /\ y.session = task[k].session
           /\ y.answer = None
<1>1. call \in [Opener -> CallState] /\ task[k] \in TaskState /\ task[k].item # "none"
  BY DEF DueInv, ClockTypeOK, Send
<1>2. PICK r : r = CHOOSE x \in Slots : TRUE
  OBVIOUS
<1>3. r \in Opener /\ call[r] = Free
  BY <1>2 DEF Send, Slots
<1>4. PICK y : y = [item |-> task[k].item, session |-> task[k].session,
                    by |-> k, answer |-> None]
  OBVIOUS
<1>5. task[k].item \in Item \cup {"none"} /\ task[k].session \in Session \cup {None}
  BY <1>1 DEF TaskState
<1>6. y \in CallState
  BY <1>4, <1>5 DEF CallState
<1>7. call' = [call EXCEPT ![r] = y]
  BY <1>2, <1>4 DEF Send
<1>8. y.item = task[k].item /\ y.session = task[k].session /\ y.answer = None
  BY <1>4
<1> QED
  BY <1>1, <1>3, <1>6, <1>7, <1>8

LEMMA SendDue ==
  ASSUME DueInv, NEW k \in Task, Send(k) PROVE DueInv'
<1>1. UNCHANGED <<vars, task, memory, view, lead, faults>>
  BY DEF Send
<1>2. PICK r \in Opener, y \in CallState :
           /\ call'[r] = y /\ call' \in [Opener -> CallState]
           /\ \A q \in Opener : q # r => call'[q] = call[q]
           /\ y.item = task[k].item /\ y.session = task[k].session
           /\ y.answer = None
  BY Sent
<1>3. CallsDue'
  <2> SUFFICES ASSUME NEW q \in Opener, NEW p, call'[q].item = "turnover", p = call'[q].session
               PROVE  Due(p)'
    BY DEF CallsDue, Due
  <2>1. Due(p)
    BY <1>2 DEF DueInv, CallsDue, TasksDue
  <2> QED
    BY <1>1, <2>1, RowsStand
<1>4. AnswersTrue'
  BY <1>1, <1>2, RowsStand DEF DueInv, AnswersTrue
<1>5. TasksDue' /\ BoundaryTrue' /\ SnapshotTrue' /\ ClockTypeOK'
  BY <1>1, <1>2, RowsStand
  DEF DueInv, TasksDue, BoundaryTrue, SnapshotTrue, ClockTypeOK, memory, view
<1> QED
  BY <1>1, <1>3, <1>4, <1>5, ClockKeepsDue

(* The process dies: what the API still runs, runs for nobody.             *)
LEMMA Crashed ==
  ASSUME DueInv, Crash
  PROVE  /\ UNCHANGED <<vars, lead>> /\ boundary' = None /\ current' = FALSE
         /\ snapshot' = None /\ cursor' = 0 /\ gaveUp' = FALSE
         /\ task' \in [Task -> TaskState] /\ \A k \in Task : task'[k].item = "none"
         /\ call' \in [Opener -> CallState]
         /\ \A r \in Opener :
              /\ call'[r].by = None /\ call'[r].answer = None
              /\ \/ call'[r].item = "none" /\ call[r].answer # None
                 \/ /\ call'[r].item = call[r].item /\ call'[r].session = call[r].session
                    /\ call[r].answer = None
<1>1. /\ UNCHANGED <<vars, lead>> /\ boundary' = None /\ current' = FALSE
      /\ snapshot' = None /\ cursor' = 0 /\ gaveUp' = FALSE
      /\ task' = [k \in Task |-> Resting]
  BY DEF Crash
<1>2. task' \in [Task -> TaskState] /\ \A k \in Task : task'[k].item = "none"
  BY <1>1, RestingIs
<1>3. \A r \in Opener : call'[r] = IF call[r].answer # None THEN Free
                                    ELSE [call[r] EXCEPT !.by = None]
  BY DEF Crash
<1>4. ASSUME NEW r \in Opener
      PROVE  /\ call'[r] \in CallState
             /\ call'[r].by = None /\ call'[r].answer = None
             /\ \/ call'[r].item = "none" /\ call[r].answer # None
                \/ /\ call'[r].item = call[r].item /\ call'[r].session = call[r].session
                   /\ call[r].answer = None
  <2>1. call[r] \in CallState
    BY DEF DueInv, ClockTypeOK
  <2>2. CASE call[r].answer # None
    <3>1. call'[r] = Free
      BY <1>3, <2>2
    <3> QED
      BY <2>2, <3>1, FreeIs
  <2>3. CASE call[r].answer = None
    <3>1. call'[r] = [call[r] EXCEPT !.by = None]
      BY <1>3, <2>3
    <3> QED
      BY <2>1, <2>3, <3>1 DEF CallState
  <2> QED
    BY <2>2, <2>3
<1>5. call' \in [Opener -> CallState]
  BY <1>4 DEF Crash
<1> QED
  BY <1>1, <1>2, <1>4, <1>5

LEMMA CrashDue ==
  ASSUME DueInv, Crash PROVE DueInv'
<1>1. CallsDue'
  <2> SUFFICES ASSUME NEW q \in Opener, NEW p, call'[q].item = "turnover", p = call'[q].session
               PROVE  Due(p)'
    BY DEF CallsDue, Due
  <2>1. Due(p)
    BY Crashed DEF DueInv, CallsDue
  <2> QED
    BY <2>1, Crashed, RowsStand
<1>2. AnswersTrue' /\ BoundaryTrue' /\ SnapshotTrue'
  BY Crashed DEF AnswersTrue, BoundaryTrue, SnapshotTrue
<1>3. TasksDue'
  BY Crashed DEF TasksDue
<1>4. ClockTypeOK'
  <2>1. /\ boundary' = None /\ snapshot' = None /\ current' = FALSE /\ gaveUp' = FALSE
        /\ cursor' = 0 /\ lead' = lead
        /\ task' \in [Task -> TaskState] /\ call' \in [Opener -> CallState]
    BY Crashed
  <2>2. lead \in Lead
    BY DEF DueInv, ClockTypeOK
  <2> QED
    BY <2>1, <2>2 DEF ClockTypeOK
<1> QED
  BY <1>1, <1>2, <1>3, <1>4, Crashed, ClockKeepsDue

(* A request that is released, or left to run for nobody.                  *)
LetGo(r) ==
  \/ call[r].answer # None /\ Release(r)
  \/ call[r].answer = None /\ call' = [call EXCEPT ![r].by = None]

LEMMA Gone ==
  ASSUME DueInv, NEW r \in Opener, LetGo(r)
  PROVE  /\ call' \in [Opener -> CallState]
         /\ \A q \in Opener : q # r => call'[q] = call[q]
         /\ call'[r].answer = None
         /\ \/ call'[r].item = "none" /\ call[r].answer # None
            \/ /\ call'[r].item = call[r].item /\ call'[r].session = call[r].session
               /\ call[r].answer = None
<1>1. call \in [Opener -> CallState] /\ call[r] \in CallState
  BY DEF DueInv, ClockTypeOK
<1>2. PICK y : y = IF call[r].answer # None THEN Free ELSE [call[r] EXCEPT !.by = None]
  OBVIOUS
<1>3. call' = [call EXCEPT ![r] = y]
  BY <1>1, <1>2 DEF LetGo, Release
<1>4. /\ y \in CallState /\ y.answer = None
      /\ \/ y.item = "none" /\ call[r].answer # None
         \/ y.item = call[r].item /\ y.session = call[r].session /\ call[r].answer = None
  <2>1. CASE call[r].answer # None
    BY <1>2, <2>1, FreeIs
  <2>2. CASE call[r].answer = None
    <3>1. y = [call[r] EXCEPT !.by = None]
      BY <1>2, <2>2
    <3> QED
      BY <1>1, <2>2, <3>1 DEF CallState
  <2> QED
    BY <2>1, <2>2
<1> QED
  BY <1>1, <1>3, <1>4

LEMMA GoneDue ==
  ASSUME DueInv, UNCHANGED <<vars, lead>>, NEW r \in Opener, LetGo(r)
  PROVE  CallsDue' /\ AnswersTrue'
<1>1. CallsDue'
  <2> SUFFICES ASSUME NEW q \in Opener, NEW p, call'[q].item = "turnover", p = call'[q].session
               PROVE  Due(p)'
    BY DEF CallsDue, Due
  <2>1. Due(p)
    BY Gone DEF DueInv, CallsDue
  <2> QED
    BY <2>1, RowsStand
<1>2. AnswersTrue'
  BY Gone, RowsStand DEF DueInv, AnswersTrue
<1> QED
  BY <1>1, <1>2

(* A task makes another attempt, or its budget is out.                     *)
LEMMA Retried ==
  ASSUME DueInv, NEW k, Retry(k)
  PROVE  /\ task' \in [Task -> TaskState]
         /\ \A q \in Task : \/ task'[q].item = task[q].item /\ task'[q].session = task[q].session
                            \/ task'[q].item = "none" /\ gaveUp' = TRUE
         /\ gaveUp' \in BOOLEAN /\ (gaveUp => gaveUp')
<1>1. task \in [Task -> TaskState] /\ gaveUp \in BOOLEAN
  BY DEF DueInv, ClockTypeOK
<1>2. CASE k \notin Task
  BY <1>1, <1>2 DEF Retry
<1>3. CASE k \in Task /\ task[k].tries + 1 < MaxAttempts
  <2>1. PICK y : y = [task[k] EXCEPT !.tries = @ + 1]
    OBVIOUS
  <2>2. task' = [task EXCEPT ![k] = y] /\ gaveUp' = gaveUp
    BY <1>3, <2>1 DEF Retry
  <2>3. task[k] \in TaskState
    BY <1>1, <1>3
  <2>4. y \in TaskState /\ y.item = task[k].item /\ y.session = task[k].session
    BY <1>3, <2>1, <2>3, ClockAssumption DEF TaskState
  <2> QED
    BY <1>1, <1>3, <2>2, <2>4
<1>4. CASE k \in Task /\ ~(task[k].tries + 1 < MaxAttempts)
  <2>1. task' = [task EXCEPT ![k] = Resting] /\ gaveUp' = TRUE
    BY <1>4 DEF Retry
  <2> QED
    BY <1>1, <1>4, <2>1, RestingIs
<1> QED
  BY <1>2, <1>3, <1>4

(* What an answer, or its loss, makes of the clock.                        *)
LEMMA Answered ==
  ASSUME DueInv, NEW r \in Opener, Lose(r) \/ Receive(r)
  PROVE  /\ LetGo(r) /\ UNCHANGED <<vars, view, lead>>
         /\ task' \in [Task -> TaskState]
         /\ \A q \in Task : \/ task'[q].item = task[q].item /\ task'[q].session = task[q].session
                            \/ task'[q].item = "none"
         /\ gaveUp' \in BOOLEAN /\ (gaveUp => gaveUp')
         /\ \/ /\ UNCHANGED boundary
               /\ \/ gaveUp'
                  \/ \A q \in Task : task'[q].item = task[q].item
                  \/ call[r].answer # None /\ call[r].answer.opened = None
                     /\ call[r].answer.kind = "ok"
            \/ /\ call[r].answer # None /\ call[r].answer.opened # None
               /\ Arm(call[r].answer.opened, call[r].answer.at)
<1> USE DEF LetGo
<1>1. task \in [Task -> TaskState] /\ gaveUp \in BOOLEAN
  BY DEF DueInv, ClockTypeOK
<1>2. ASSUME NEW k, Retry(k)
      PROVE  /\ task' \in [Task -> TaskState]
             /\ \A q \in Task : \/ task'[q].item = task[q].item /\ task'[q].session = task[q].session
                                \/ task'[q].item = "none"
             /\ gaveUp' \in BOOLEAN /\ (gaveUp => gaveUp')
             /\ gaveUp' \/ \A q \in Task : task'[q].item = task[q].item
  BY <1>2, Retried
<1>3. ASSUME NEW k, task' = [task EXCEPT ![k] = Resting]
      PROVE  /\ task' \in [Task -> TaskState]
             /\ \A q \in Task : \/ task'[q].item = task[q].item /\ task'[q].session = task[q].session
                                \/ task'[q].item = "none"
  BY <1>1, <1>3, RestingIs
<1>4. CASE Lose(r)
  <2>1. /\ Retry(call[r].by) /\ UNCHANGED <<vars, boundary, view, lead>>
        /\ \/ call[r].answer # None /\ Release(r)
           \/ call[r].answer = None /\ call' = [call EXCEPT ![r].by = None]
    BY <1>4 DEF Lose
  <2> QED
    BY <1>2, <2>1
<1>5. CASE ReceiveFailed(r)
  <2>1. /\ Retry(call[r].by) /\ UNCHANGED <<vars, boundary, view, lead>>
        /\ call[r].answer # None /\ Release(r)
    BY <1>5 DEF ReceiveFailed
  <2> QED
    BY <1>2, <2>1
<1>6. CASE ReceiveRefused(r)
  <2>1. /\ task' = [task EXCEPT ![call[r].by] = Resting] /\ gaveUp' = TRUE
        /\ UNCHANGED <<vars, boundary, view, lead>>
        /\ call[r].answer # None /\ Release(r)
    BY <1>6 DEF ReceiveRefused
  <2> QED
    BY <1>3, <2>1
<1>7. CASE ReceiveOk(r)
  <2>1. /\ task' = [task EXCEPT ![call[r].by] = Resting] /\ gaveUp' = gaveUp
        /\ UNCHANGED <<vars, view, lead>>
        /\ call[r].answer # None /\ Release(r) /\ call[r].answer.kind = "ok"
        /\ \/ call[r].answer.opened = None /\ UNCHANGED boundary
           \/ call[r].answer.opened # None /\ Arm(call[r].answer.opened, call[r].answer.at)
    BY <1>7 DEF ReceiveOk
  <2> QED
    BY <1>1, <1>3, <2>1
<1> QED
  BY <1>4, <1>5, <1>6, <1>7 DEF Receive

LEMMA AnsweredTimer ==
  ASSUME DueInv, NEW r \in Opener, UNCHANGED <<vars, lead>>,
         call[r].answer # None, call[r].answer.opened # None,
         Arm(call[r].answer.opened, call[r].answer.at)
  PROVE  /\ boundary' \in Timers /\ boundary' # None /\ BoundaryTrue'
         /\ boundary'.session = call[r].answer.opened
<1>1. PICK s \in Session : s = call[r].answer.opened
  BY AnswerNamed
<1>2. state[s] # "none" /\ call[r].answer.at = closesAt[s]
  BY <1>1 DEF DueInv, AnswersTrue
<1> QED
  BY <1>1, <1>2, Armed

LEMMA AnsweredDue ==
  ASSUME DueInv, NEW r \in Opener, Lose(r) \/ Receive(r) PROVE DueInv'
<1>a. /\ LetGo(r) /\ UNCHANGED <<vars, view, lead>>
      /\ task' \in [Task -> TaskState] /\ gaveUp' \in BOOLEAN
      /\ \/ UNCHANGED boundary
         \/ /\ call[r].answer # None /\ call[r].answer.opened # None
            /\ Arm(call[r].answer.opened, call[r].answer.at)
  BY Answered
<1>b. \A q \in Task : \/ task'[q].item = task[q].item /\ task'[q].session = task[q].session
                      \/ task'[q].item = "none"
  BY Answered
<1>1. UNCHANGED <<vars, view, lead>> /\ task' \in [Task -> TaskState] /\ gaveUp' \in BOOLEAN
  BY <1>a
<1>2. CallsDue' /\ AnswersTrue' /\ call' \in [Opener -> CallState]
  BY <1>a, GoneDue, Gone
<1>3. TasksDue'
  <2> SUFFICES ASSUME NEW q \in Task, NEW p, task'[q].item = "turnover", p = task'[q].session
               PROVE  Due(p)'
    BY DEF TasksDue, Due
  <2>1. Due(p)
    BY <1>b DEF DueInv, TasksDue
  <2> QED
    BY <1>1, <2>1, RowsStand
<1>4. BoundaryTrue' /\ (boundary' = None \/ boundary' \in Timers)
  <2>1. CASE UNCHANGED boundary
    BY <1>1, <2>1, RowsStand DEF DueInv, BoundaryTrue, ClockTypeOK
  <2> QED
    BY <1>a, <2>1, AnsweredTimer
<1>5. SnapshotTrue' /\ ClockTypeOK'
  BY <1>1, <1>2, <1>4, RowsStand DEF DueInv, SnapshotTrue, ClockTypeOK, view
<1> QED
  BY <1>1, <1>2, <1>3, <1>4, <1>5, ClockKeepsDue

-------------------------------------------------------------------------------
(* No window is closed before its close.                                   *)

LEMMA DueStep ==
  ASSUME DueInv, [ClockNext]_cvars PROVE DueInv'
<1>1. ASSUME UNCHANGED cvars PROVE DueInv'
  <2>1. [Next]_vars /\ UNCHANGED <<task, call, memory, view, lead>>
    BY <1>1 DEF cvars
  <2> QED
    BY <2>1, CallsKept, ApiKeepsDue
<1>2. ASSUME NEW r \in Opener, Serve(r) \/ FailAtApi(r) \/ Lose(r) \/ Receive(r)
      PROVE  DueInv'
  BY <1>2, ServedDue, AnsweredDue
<1> QED
  BY <1>1, <1>2, FallsDue, EventDue, ReadDue, RebuildDue, CrashDue, SendDue, WorldDue
  DEF ClockNext

LEMMA DueInit == ClockInit => DueInv
<1> SUFFICES ASSUME ClockInit PROVE DueInv
  OBVIOUS
<1>1. EpochInv
  BY InitEpoch DEF ClockInit
<1>2. /\ boundary = None /\ snapshot = None /\ gaveUp = FALSE /\ current = FALSE /\ cursor = 0
      /\ lead \in Lead
      /\ \A k \in Task : task[k] = Resting
      /\ \A r \in Opener : call[r] = Free
      /\ task = [k \in Task |-> Resting] /\ call = [r \in Opener |-> Free]
  BY DEF ClockInit
<1>3. task \in [Task -> TaskState] /\ call \in [Opener -> CallState]
  BY <1>2, FreeIs, RestingIs
<1>4. ClockTypeOK
  BY <1>2, <1>3 DEF ClockTypeOK
<1>5. TasksDue /\ CallsDue /\ AnswersTrue
  BY <1>2, FreeIs, RestingIs DEF TasksDue, CallsDue, AnswersTrue
<1>6. BoundaryTrue /\ SnapshotTrue
  BY <1>2 DEF BoundaryTrue, SnapshotTrue
<1> QED
  BY <1>1, <1>4, <1>5, <1>6 DEF DueInv

LEMMA ClockDue == ClockSpec => []DueInv
BY DueInit, DueStep, PTL DEF ClockSpec

(* Whatever is armed, retried, replayed or rebuilt, by however many        *)
(* schedulers: no window closes before its close on the scheduler's clock. *)
THEOREM ClosedOnTime == ClockSpec => NotBeforeItsClose
<1> DEFINE OnTime == \A s \in Session :
             state[s] = "collecting" /\ state'[s] = "closed" => closesAt[s] <= Local
<1>1. DueInv /\ [ClockNext]_cvars => [OnTime]_cvars
  <2> SUFFICES ASSUME DueInv, ClockNext, NEW s \in Session,
                      state[s] = "collecting", state'[s] = "closed"
               PROVE  closesAt[s] <= Local
    OBVIOUS
  <2>1. ASSUME NEW t \in Session, TurnOver(t) PROVE s = t
    BY <2>1 DEF TurnOver, TurnOverInto, TurnOverLast, DueInv, EpochInv, TypeOK, Unused
  <2>2. ASSUME NEW r \in Opener, Serve(r) PROVE Due(s)
    <3>1. CASE ServeTurnOver(r)
      <4>1. PICK t : t = call[r].session
        OBVIOUS
      <4>2. Due(t)
        BY <3>1, <4>1 DEF ServeTurnOver, Asked, DueInv, CallsDue
      <4>3. UNCHANGED state \/ TurnOver(t)
        BY <3>1, <4>1 DEF ServeTurnOver, TurnOverReplay, sessions, vars
      <4> QED
        BY <2>1, <4>2, <4>3 DEF Due
    <3>2. CASE ServeOpen(r)
      <4>1. UNCHANGED state \/ OpenInsert(r)
        BY <3>2 DEF ServeOpen, OpenCheck, OpenPlace, OpenAbandon, vars, sessions
      <4> QED
        BY <4>1 DEF OpenInsert, DueInv, EpochInv, TypeOK, Unused
    <3> QED
      BY <2>2, <3>1, <3>2 DEF Serve
  <2>3. ASSUME NEW t \in Session, Peer(t) PROVE closesAt[s] <= Local
    <3>1. s = t /\ closesAt[s] <= now
      BY <2>1, <2>3 DEF Peer
    <3>2. lead \in Nat /\ now \in Int /\ closesAt[s] \in Int
      BY ClockAssumption DEF DueInv, ClockTypeOK, EpochInv, TypeOK
    <3> QED
      BY <3>1, <3>2 DEF Local
  <2>4. ASSUME NEW r \in Opener, FailAtApi(r) \/ Lose(r) \/ Receive(r) PROVE UNCHANGED state
    BY <2>4 DEF FailAtApi, OpenAbandon, Lose, Receive, ReceiveFailed, ReceiveRefused, ReceiveOk,
                vars, sessions
  <2>5. CASE Admin \/ Time
    BY <2>5 DEF Admin, Time, Activate, Deactivate, Tick, sessions
  <2>6. ASSUME \/ BoundaryFalls \/ ApplyEvent \/ Doubt \/ FullRead \/ Rebuild \/ Crash
               \/ \E k \in Task : Send(k)
        PROVE  UNCHANGED state
    BY <2>6 DEF BoundaryFalls, ApplyEvent, Doubt, FullRead, Rebuild, Crash, Send, vars, sessions
  <2> QED
    BY <2>2, <2>3, <2>4, <2>5, <2>6 DEF ClockNext, Due
<1>2. NotBeforeItsClose <=> [][OnTime]_cvars
  BY DEF NotBeforeItsClose
<1> HIDE DEF OnTime
<1> QED
  BY <1>1, <1>2, ClockDue, PTL DEF ClockSpec
-------------------------------------------------------------------------------
(* The era: what one step keeps of it.                                     *)

LEMMA EraKept ==
  ASSUME DueInv, NEW era \in SUBSET Session, EraOf(era),
         UNCHANGED <<state, closesAt, successor>>, status' \in {status, "inactive"},
         \A s \in Session : Held(s)' => s \in era
  PROVE  OneEra'
<1>1. Collecting' = Collecting
  BY DEF Collecting
<1>2. EraOf(era)'
  BY <1>1 DEF EraOf
<1> QED
  BY <1>2 DEF OneEra

(* A window that was closed and opened nothing is the era's last.          *)
LEMMA EraEnds ==
  ASSUME OneEra, NEW s \in Session, Held(s), state[s] = "closed", successor[s] = None
  PROVE  Collecting = {} /\ status = "inactive"
BY DEF OneEra, EraOf

(* A step of the clock: the rows stand, and it learns of no session but    *)
(* the open one.                                                           *)
LEMMA StandsStill ==
  ASSUME DueInv, OneEra, OpeningsAsked, EndsTold, UNCHANGED <<vars, lead>>,
         \A s \in Session : Held(s)' => Held(s) \/ s \in Collecting,
         \A r \in Opener :
           \/ call'[r] = call[r]
           \/ /\ call'[r].answer = None
              /\ call[r] = Free \/ call[r].answer # None \/ call'[r].item = call[r].item
  PROVE  OneEra' /\ OpeningsAsked' /\ EndsTold'
<1>1. UNCHANGED <<status, state, closesAt, successor, opening>>
  BY DEF vars, subject, sessions
<1>2. OneEra'
  <2>1. PICK era \in SUBSET Session : EraOf(era) /\ \A s \in Session : Held(s) => s \in era
    BY DEF OneEra
  <2>2. \A s \in Session : Held(s)' => s \in era
    BY <2>1 DEF EraOf
  <2> QED
    BY <1>1, <2>1, <2>2, EraKept
<1>3. OpeningsAsked'
  <2> SUFFICES ASSUME NEW r \in Opener
               PROVE  /\ opening'[r].step # "idle" => Asked(r, "open")'
                      /\ status' = "inactive" => opening'[r].step = "idle"
                      /\ call'[r].item = "none" => call'[r].answer = None
                      /\ (status' = "inactive" /\ call'[r].item = "open" /\ call'[r].answer # None)
                           => call'[r].answer.opened = None
    BY DEF OpeningsAsked
  <2>1. /\ opening[r].step # "idle" => Asked(r, "open")
        /\ status = "inactive" => opening[r].step = "idle"
        /\ call[r].item = "none" => call[r].answer = None
        /\ (status = "inactive" /\ call[r].item = "open" /\ call[r].answer # None)
             => call[r].answer.opened = None
    BY DEF OpeningsAsked
  <2>2. CASE call'[r] = call[r]
    BY <1>1, <2>1, <2>2 DEF Asked
  <2>3. CASE /\ call'[r].answer = None
             /\ call[r] = Free \/ call[r].answer # None \/ call'[r].item = call[r].item
    BY <1>1, <2>1, <2>3, FreeIs DEF Asked
  <2> QED
    BY <2>2, <2>3
<1>4. EndsTold'
  BY <1>1 DEF EndsTold
<1> QED
  BY <1>2, <1>3, <1>4

(* The two halves of what is attended to.                                  *)
LEMMA AttendedIs ==
  ASSUME DueInv, UNCHANGED <<vars, lead>>,
         \/ Collecting = {} /\ status # "active"
         \/ /\ (current' /\ ~gaveUp') =>
                 \/ boundary' # None \/ Resters' # Task
                 \/ \E i \in Unread' : Opens(log[i])
            /\ snapshot' # None =>
                 \/ snapshot'.open # {} \/ snapshot'.active
                 \/ \E i \in Unread' : Opens(log[i])
  PROVE  Attended'
BY RowsStand DEF Attended, Opens

LEMMA FallsAttended ==
  ASSUME AttendedInv, BoundaryFalls
  PROVE  OneEra' /\ OpeningsAsked' /\ EndsTold' /\ ReadsFit' /\ Attended'
<1>1. /\ DueInv /\ OneEra /\ OpeningsAsked /\ EndsTold /\ ReadsFit /\ Attended
  BY DEF AttendedInv
<1>2. /\ boundary # None /\ boundary' = None
      /\ UNCHANGED <<vars, call, gaveUp, view, lead>> /\ UNCHANGED <<current, cursor, snapshot, log>>
      /\ boundary.session \in Session /\ Due(boundary.session) /\ "turnover" \in Item
      /\ \/ current /\ Start("turnover", boundary.session)
         \/ ~current /\ UNCHANGED task
  BY <1>1, ClockNames DEF BoundaryFalls, Due, Item, view, vars
<1>3. Unread' = Unread
  BY <1>2 DEF Unread
<1>4. \A k \in Task : task'[k] = task[k]
        \/ (task'[k].item = "turnover" /\ task'[k].session = boundary.session)
  BY <1>1, <1>2, Started
<1>5. current => Resters' # Task
  BY <1>1, <1>2, Started
<1>6. \A s \in Session : Held(s)' => Held(s)
  BY <1>2, <1>3, <1>4 DEF Held
<1>7. OneEra' /\ OpeningsAsked' /\ EndsTold'
  BY <1>1, <1>2, <1>6, StandsStill
<1>8. ReadsFit'
  BY <1>1, <1>2, RowsStand DEF ReadsFit
<1>9. Attended'
  BY <1>1, <1>2, <1>3, <1>5, AttendedIs DEF Attended
<1> QED
  BY <1>7, <1>8, <1>9

LEMMA EventAttended ==
  ASSUME AttendedInv, ApplyEvent
  PROVE  OneEra' /\ OpeningsAsked' /\ EndsTold' /\ ReadsFit' /\ Attended'
<1>1. /\ DueInv /\ OneEra /\ OpeningsAsked /\ EndsTold /\ ReadsFit /\ Attended
  BY DEF AttendedInv
<1>2. PICK i \in DOMAIN log :
           /\ i = cursor + 1 /\ cursor' = i /\ i <= Len(log)
           /\ current /\ snapshot = None
           /\ UNCHANGED <<vars, call, exhausted, gaveUp, current, snapshot, lead, faults>>
           /\ \/ /\ log[i].kind = "turned_over" /\ log[i].opened # None
                 /\ ArmOrFire(log[i].opened, closesAt[log[i].opened], boundary)
              \/ /\ log[i].kind = "turned_over" /\ log[i].opened = None /\ UNCHANGED task
                 /\ boundary' = IF boundary # None /\ boundary.session = log[i].closed
                                THEN None ELSE boundary
              \/ /\ log[i].kind = "activated" /\ boundary = None
                 /\ Start("open", None) /\ UNCHANGED boundary
              \/ /\ \/ log[i].kind = "activated" /\ boundary # None
                    \/ log[i].kind \in {"deactivated", "updated"}
                 /\ UNCHANGED <<task, boundary>>
  BY <1>1, EventDoes
<1>3. log' = log /\ cursor \in Nat /\ DOMAIN log \subseteq Nat
  BY <1>1, <1>2 DEF vars, DueInv, ClockTypeOK, EpochInv, TypeOK
<1>4. i \in Unread /\ Unread' = Unread \ {i}
  BY <1>2, <1>3 DEF Unread
<1>5. \A s \in Session : (log[i].closed = s \/ log[i].opened = s) => Held(s)
  BY <1>4 DEF Held
<1>6. ASSUME \A k \in Task : \/ task'[k] = task[k]
                             \/ task'[k].item = "turnover" /\ Held(task'[k].session)
                             \/ task'[k].item = "open",
             \/ boundary' \in {None, boundary}
             \/ Held(boundary'.session)
      PROVE  OneEra' /\ OpeningsAsked' /\ EndsTold'
  <2>1. \A s \in Session : Held(s)' => Held(s)
    BY <1>2, <1>3, <1>4, <1>6 DEF Held
  <2> QED
    BY <1>1, <1>2, <2>1, StandsStill
<1>7. ReadsFit'
  BY <1>1, <1>2, <1>3, RowsStand DEF ReadsFit
<1>8. ASSUME ~Opens(log[i]), UNCHANGED <<task, boundary>> PROVE Attended'
  <2>1. Resters' = Resters
    BY <1>8 DEF Resters
  <2>2. (\E j \in Unread : Opens(log[j])) => \E j \in Unread' : Opens(log[j])
    BY <1>4, <1>8
  <2> QED
    BY <1>1, <1>2, <1>8, <2>1, <2>2, AttendedIs DEF Attended
<1>9. ASSUME boundary' # None \/ Resters' # Task PROVE Attended'
  BY <1>1, <1>2, <1>9, AttendedIs
<1>10. OneEra' /\ OpeningsAsked' /\ EndsTold' /\ Attended'
  <2>1. CASE /\ log[i].kind = "turned_over" /\ log[i].opened # None
             /\ ArmOrFire(log[i].opened, closesAt[log[i].opened], boundary)
    <3>1. PICK s \in Session : s = log[i].opened
      BY <1>1, <2>1, EventNames
    <3>2. state[s] # "none" /\ ArmOrFire(s, closesAt[s], boundary) /\ Held(s)
      BY <1>1, <1>5, <2>1, <3>1, EventNames
    <3>3. /\ boundary' # None \/ Resters' # Task
          /\ boundary' = boundary \/ (boundary' # None /\ boundary'.session = s)
          /\ \A k \in Task : task'[k] = task[k] \/ (task'[k].item = "turnover" /\ task'[k].session = s)
      BY <1>1, <1>2, <3>2, ArmedOrFired
    <3> QED
      BY <1>6, <1>9, <3>2, <3>3
  <2>2. CASE /\ log[i].kind = "turned_over" /\ log[i].opened = None /\ UNCHANGED task
             /\ boundary' = IF boundary # None /\ boundary.session = log[i].closed
                            THEN None ELSE boundary
    <3>1. PICK s \in Session : s = log[i].closed
      BY <1>1, <2>2, EventNames
    <3>2. Held(s) /\ state[s] = "closed" /\ successor[s] = None
      BY <1>1, <1>5, <2>2, <3>1, EventNames
    <3>3. Collecting = {} /\ status = "inactive"
      BY <1>1, <3>2, EraEnds
    <3>4. Attended'
      BY <1>1, <1>2, <3>3, AttendedIs
    <3> QED
      BY <1>6, <2>2, <3>4
  <2>3. CASE Start("open", None) /\ UNCHANGED boundary
    <3>1. /\ Resters' # Task
          /\ \A k \in Task : task'[k] = task[k] \/ task'[k].item = "open"
      BY <1>1, <1>2, <2>3, Started DEF Item
    <3> QED
      BY <1>6, <1>9, <2>3, <3>1
  <2>4. CASE log[i].kind = "activated" /\ boundary # None /\ UNCHANGED <<task, boundary>>
    BY <1>6, <1>9, <2>4
  <2>5. CASE log[i].kind \in {"deactivated", "updated"} /\ UNCHANGED <<task, boundary>>
    <3>1. ~Opens(log[i])
      BY <2>5 DEF Opens
    <3> QED
      BY <1>6, <1>8, <2>5, <3>1
  <2> QED
    BY <1>2, <2>1, <2>2, <2>3, <2>4, <2>5
<1> QED
  BY <1>7, <1>10

LEMMA ReadAttended ==
  ASSUME AttendedInv, FullRead \/ Doubt
  PROVE  OneEra' /\ OpeningsAsked' /\ EndsTold' /\ ReadsFit' /\ Attended'
<1>1. /\ DueInv /\ OneEra /\ OpeningsAsked /\ EndsTold /\ ReadsFit /\ Attended
  BY DEF AttendedInv
<1>2. /\ UNCHANGED <<vars, task, call, boundary, gaveUp, lead>> /\ log' = log /\ ~current'
      /\ \/ snapshot' = None
         \/ /\ snapshot' # None /\ snapshot'.open = Collecting /\ snapshot'.cursor = Len(log)
            /\ snapshot'.active = (status = "active")
  BY <1>1, ReadIs DEF Doubt, memory, vars
<1>3. Len(log) \in Nat /\ DOMAIN log = 1 .. Len(log)
  BY <1>1 DEF DueInv, EpochInv, TypeOK
<1>4. Unread' = {}
  BY <1>2, <1>3 DEF Unread
<1>5. \A s \in Session : Held(s)' => Held(s) \/ s \in Collecting
  BY <1>2, <1>4 DEF Held
<1>6. OneEra' /\ OpeningsAsked' /\ EndsTold'
  BY <1>1, <1>2, <1>5, StandsStill
<1>7. ReadsFit'
  BY <1>2, <1>3, RowsStand DEF ReadsFit, Collecting
<1>8. Attended'
  BY <1>1, <1>2, AttendedIs
<1> QED
  BY <1>6, <1>7, <1>8

LEMMA RebuildAttended ==
  ASSUME AttendedInv, Rebuild
  PROVE  OneEra' /\ OpeningsAsked' /\ EndsTold' /\ ReadsFit' /\ Attended'
<1>1. /\ DueInv /\ OneEra /\ OpeningsAsked /\ EndsTold /\ ReadsFit /\ Attended
  BY DEF AttendedInv
<1>2. /\ ~current /\ snapshot # None /\ current' = TRUE /\ cursor' = snapshot.cursor
      /\ snapshot' = None /\ log' = log
      /\ UNCHANGED <<vars, call, gaveUp, lead>>
  BY DEF Rebuild, vars
<1>3. \/ \E s \in snapshot.open : ArmOrFire(s, closesAt[s], None)
      \/ snapshot.open = {} /\ snapshot.active /\ boundary' = None /\ Start("open", None)
      \/ snapshot.open = {} /\ ~snapshot.active /\ boundary' = None /\ UNCHANGED task
  BY DEF Rebuild
<1>4. Unread' = Unread
  BY <1>2 DEF Unread
<1>5. ReadsFit'
  BY <1>1, <1>2 DEF ReadsFit
<1>6. CASE \E s \in snapshot.open : ArmOrFire(s, closesAt[s], None)
  <2>1. PICK s \in snapshot.open : ArmOrFire(s, closesAt[s], None)
    BY <1>6
  <2>2. s \in Session /\ state[s] # "none"
    BY <1>1, <1>2, ClockNames
  <2>3. /\ boundary' # None \/ Resters' # Task
        /\ boundary' = None \/ boundary'.session = s
        /\ \A k \in Task : task'[k] = task[k] \/ (task'[k].item = "turnover" /\ task'[k].session = s)
    BY <1>1, <1>2, <2>1, <2>2, ArmedOrFired
  <2>4. Held(s)
    BY <1>2, <2>1 DEF Held
  <2>5. \A t \in Session : Held(t)' => Held(t)
    BY <1>2, <1>4, <2>3, <2>4 DEF Held
  <2>6. Attended'
    BY <1>1, <1>2, <2>3, AttendedIs
  <2> QED
    BY <1>1, <1>2, <1>5, <2>5, <2>6, StandsStill
<1>7. CASE boundary' = None /\ Start("open", None)
  <2>1. /\ Resters' # Task
        /\ \A k \in Task : task'[k] = task[k] \/ task'[k].item = "open"
    BY <1>1, <1>2, <1>7, Started DEF Item
  <2>2. \A t \in Session : Held(t)' => Held(t)
    BY <1>2, <1>4, <1>7, <2>1 DEF Held
  <2>3. Attended'
    BY <1>1, <1>2, <2>1, AttendedIs
  <2> QED
    BY <1>1, <1>2, <1>5, <2>2, <2>3, StandsStill
<1>8. CASE snapshot.open = {} /\ ~snapshot.active /\ boundary' = None /\ UNCHANGED task
  <2>1. \A t \in Session : Held(t)' => Held(t)
    BY <1>2, <1>4, <1>8 DEF Held
  <2>2. Attended'
    BY <1>1, <1>2, <1>4, <1>8, AttendedIs DEF Attended
  <2> QED
    BY <1>1, <1>2, <1>5, <2>1, <2>2, StandsStill
<1> QED
  BY <1>3, <1>6, <1>7, <1>8

LEMMA CrashAttended ==
  ASSUME AttendedInv, Crash
  PROVE  OneEra' /\ OpeningsAsked' /\ EndsTold' /\ ReadsFit' /\ Attended'
<1>1. /\ DueInv /\ OneEra /\ OpeningsAsked /\ EndsTold /\ ReadsFit /\ Attended
  BY DEF AttendedInv
<1>2. /\ UNCHANGED <<vars, lead>> /\ boundary' = None /\ current' = FALSE
      /\ snapshot' = None /\ \A k \in Task : task'[k].item = "none"
      /\ \A r \in Opener :
           /\ call'[r].answer = None
           /\ \/ call'[r].item = "none" /\ call[r].answer # None
              \/ call'[r].item = call[r].item /\ call'[r].session = call[r].session
  BY <1>1, Crashed
<1>3. Unread' = {}
  BY <1>2 DEF Unread
<1>4. \A s \in Session : Held(s)' => Held(s)
  BY <1>2, <1>3 DEF Held
<1>5. OneEra' /\ OpeningsAsked' /\ EndsTold'
  BY <1>1, <1>2, <1>4, StandsStill
<1> QED
  BY <1>2, <1>5 DEF ReadsFit, Attended

LEMMA SendAttended ==
  ASSUME AttendedInv, NEW k \in Task, Send(k)
  PROVE  OneEra' /\ OpeningsAsked' /\ EndsTold' /\ ReadsFit' /\ Attended'
<1>1. /\ DueInv /\ OneEra /\ OpeningsAsked /\ EndsTold /\ ReadsFit /\ Attended
  BY DEF AttendedInv
<1>2. /\ UNCHANGED <<vars, task, boundary, gaveUp, lead>>
      /\ UNCHANGED <<log, current, cursor, snapshot>>
  BY DEF Send, memory, view, vars
<1>3. PICK r \in Opener, y \in CallState :
           /\ call[r] = Free /\ call'[r] = y
           /\ \A q \in Opener : q # r => call'[q] = call[q]
           /\ y.item = task[k].item /\ y.session = task[k].session
           /\ y.answer = None
  BY <1>1, Sent
<1>4. Unread' = Unread /\ Resters' = Resters
  BY <1>2 DEF Unread, Resters
<1>5. \A s \in Session : Held(s)' => Held(s)
  BY <1>2, <1>3, <1>4 DEF Held
<1>6. OneEra' /\ OpeningsAsked' /\ EndsTold'
  BY <1>1, <1>2, <1>3, <1>5, StandsStill
<1>7. ReadsFit'
  BY <1>1, <1>2, RowsStand DEF ReadsFit
<1>8. Attended'
  BY <1>1, <1>2, <1>4, AttendedIs DEF Attended
<1> QED
  BY <1>6, <1>7, <1>8

LEMMA AnsweredAttended ==
  ASSUME AttendedInv, NEW r \in Opener, Lose(r) \/ Receive(r)
  PROVE  OneEra' /\ OpeningsAsked' /\ EndsTold' /\ ReadsFit' /\ Attended'
<1>1. /\ DueInv /\ OneEra /\ OpeningsAsked /\ EndsTold /\ ReadsFit /\ Attended
  BY DEF AttendedInv
<1>2. /\ LetGo(r) /\ UNCHANGED <<vars, lead>> /\ UNCHANGED <<log, current, cursor, snapshot>>
      /\ gaveUp' \in BOOLEAN /\ (gaveUp => gaveUp')
      /\ \/ /\ UNCHANGED boundary
            /\ \/ gaveUp'
               \/ \A q \in Task : task'[q].item = task[q].item
               \/ call[r].answer # None /\ call[r].answer.opened = None
                  /\ call[r].answer.kind = "ok"
         \/ /\ call[r].answer # None /\ call[r].answer.opened # None
            /\ Arm(call[r].answer.opened, call[r].answer.at)
  BY <1>1, Answered DEF view, vars
<1>3. \A q \in Task : \/ task'[q].item = task[q].item /\ task'[q].session = task[q].session
                      \/ task'[q].item = "none"
  BY <1>1, Answered
<1>4. /\ \A q \in Opener : q # r => call'[q] = call[q]
      /\ call'[r].answer = None
      /\ \/ call'[r].item = "none" /\ call[r].answer # None
         \/ call'[r].item = call[r].item /\ call'[r].session = call[r].session
  BY <1>1, <1>2, Gone
<1>5. Unread' = Unread
  BY <1>2 DEF Unread
<1>6. \/ /\ UNCHANGED boundary
         /\ \/ gaveUp'
            \/ \A q \in Task : task'[q].item = task[q].item
            \/ call[r].answer # None /\ call[r].answer.opened = None
               /\ call[r].answer.kind = "ok"
      \/ /\ call[r].answer # None /\ boundary' # None
         /\ boundary'.session = call[r].answer.opened
  BY <1>1, <1>2, AnsweredTimer
<1>7. \A s \in Session : Held(s)' => Held(s)
  BY <1>2, <1>3, <1>4, <1>5, <1>6 DEF Held
<1>8. OneEra' /\ OpeningsAsked' /\ EndsTold'
  BY <1>1, <1>2, <1>4, <1>7, StandsStill
<1>9. ReadsFit'
  BY <1>1, <1>2, RowsStand DEF ReadsFit
<1>10. Attended'
  <2> SUFFICES ASSUME Collecting # {} \/ status = "active"
               PROVE  /\ (current' /\ ~gaveUp') =>
                           \/ boundary' # None \/ Resters' # Task
                           \/ \E i \in Unread' : Opens(log[i])
                      /\ snapshot' # None =>
                           \/ snapshot'.open # {} \/ snapshot'.active
                           \/ \E i \in Unread' : Opens(log[i])
    BY <1>1, <1>2, AttendedIs
  <2>1. snapshot' # None =>
          \/ snapshot'.open # {} \/ snapshot'.active
          \/ \E i \in Unread' : Opens(log[i])
    BY <1>1, <1>2, <1>5 DEF Attended
  <2>2. (current /\ ~gaveUp) =>
          \/ boundary # None \/ Resters # Task
          \/ \E i \in Unread : Opens(log[i])
    BY <1>1 DEF Attended
  <2>3. CASE boundary' # None \/ gaveUp'
    BY <2>1, <2>3
  <2>4. CASE UNCHANGED boundary /\ \A q \in Task : task'[q].item = task[q].item
    <3>1. Resters' = Resters
      BY <2>4 DEF Resters
    <3> QED
      BY <1>2, <1>5, <2>1, <2>2, <2>4, <3>1
  <2>5. ~(call[r].answer # None /\ call[r].answer.opened = None /\ call[r].answer.kind = "ok")
    <3> SUFFICES ASSUME call[r].answer # None, call[r].answer.opened = None,
                        call[r].answer.kind = "ok"
                 PROVE  FALSE
      OBVIOUS
    <3>1. PICK s : s = call[r].session
      OBVIOUS
    <3>2. call[r].item = "turnover" /\ state[s] = "closed" /\ successor[s] = None
      BY <1>1, <3>1 DEF EndsTold
    <3>3. s \in Session
      BY <1>1, <3>1, <3>2 DEF DueInv, CallsDue, Due
    <3>4. Held(s)
      BY <3>1, <3>2 DEF Held
    <3> QED
      BY <1>1, <3>2, <3>3, <3>4, EraEnds
  <2> QED
    BY <1>6, <2>3, <2>4, <2>5
<1> QED
  BY <1>8, <1>9, <1>10

-------------------------------------------------------------------------------
(* A step of the API under the clock: what it does to the log and the rows.*)

LEMMA LogMoves ==
  ASSUME DueInv, [Next]_vars
  PROVE  /\ Len(log) \in Nat /\ Len(log') \in Nat /\ Len(log) <= Len(log')
         /\ DOMAIN log = 1 .. Len(log) /\ DOMAIN log' = 1 .. Len(log')
         /\ \A i \in DOMAIN log : log'[i] = log[i]
         /\ \/ UNCHANGED log
            \/ \E e \in EventType : log' = Append(log, e)
<1>1. log \in Seq(EventType)
  BY DEF DueInv, EpochInv, TypeOK
<1>2. \/ UNCHANGED log
      \/ \E e \in EventType : log' = Append(log, e)
  <2>1. ASSUME NEW kind \in {"turned_over", "activated", "deactivated", "updated"},
               NEW c \in Session \cup {None}, NEW o \in Session \cup {None}, Announce(kind, c, o)
        PROVE  \E e \in EventType : log' = Append(log, e)
    BY <2>1 DEF Announce, Event, EventType
  <2>2. ASSUME NEW s \in Session, TurnOver(s) PROVE \E e \in EventType : log' = Append(log, e)
    BY <2>1, <2>2 DEF TurnOver, Closed, Unused
  <2>3. CASE Deactivate \/ Activate \/ Update
    BY <2>1, <2>3 DEF Deactivate, Activate, Update
  <2>4. CASE UNCHANGED log
    BY <2>4
  <2> QED
    BY <2>2, <2>3, <2>4 DEF Next, OpenCheck, OpenPlace, OpenInsert, OpenAbandon,
         TurnOverReplay, Tick, vars
<1>3. ASSUME NEW e \in EventType, log' = Append(log, e)
      PROVE  /\ Len(log') = Len(log) + 1 /\ DOMAIN log' = 1 .. Len(log')
             /\ \A i \in DOMAIN log : log'[i] = log[i]
  BY <1>1, <1>3
<1> QED
  BY <1>1, <1>2, <1>3

(* What is unread stays unread, and what is written is unread to those who *)
(* read no further than the log went.                                      *)
LEMMA UnreadGrows ==
  ASSUME DueInv, ReadsFit, [Next]_vars, UNCHANGED view
  PROVE  /\ Unread \subseteq Unread' /\ Unread' \subseteq Unread \cup (DOMAIN log' \ DOMAIN log)
         /\ current \/ snapshot # None => DOMAIN log' \ DOMAIN log \subseteq Unread'
<1>1. UNCHANGED <<current, cursor, snapshot>>
  BY DEF view
<1>2. /\ Len(log) \in Nat /\ Len(log') \in Nat /\ Len(log) <= Len(log')
      /\ DOMAIN log = 1 .. Len(log) /\ DOMAIN log' = 1 .. Len(log')
  BY LogMoves
<1>3. cursor \in Nat /\ (snapshot # None => snapshot.cursor \in Nat)
  BY ClockNames DEF DueInv, ClockTypeOK
<1> QED
  BY <1>1, <1>2, <1>3 DEF Unread, ReadsFit

(* Whom a step of the API lets the clock hold: those its answer names, and *)
(* those its event names.                                                  *)
LEMMA HeldByApi ==
  ASSUME DueInv, ReadsFit, [Next]_vars, UNCHANGED <<task, memory, view>>, NEW Named,
         \A r \in Opener : call'[r].item = "turnover" =>
           call[r].item = "turnover" /\ call'[r].session = call[r].session,
         \A r \in Opener : call'[r].answer # None =>
           call'[r].answer = call[r].answer \/ call'[r].answer.opened \in Named \cup {None},
         \A i \in DOMAIN log' \ DOMAIN log : {log'[i].closed, log'[i].opened} \subseteq Named \cup {None}
  PROVE  \A s \in Session : Held(s)' => Held(s) \/ s \in Named
<1>1. UNCHANGED <<boundary, snapshot, task>>
  BY DEF memory, view
<1>2. \A i \in DOMAIN log : log'[i] = log[i]
  BY LogMoves
<1>3. Unread \subseteq DOMAIN log /\ Unread' \subseteq Unread \cup (DOMAIN log' \ DOMAIN log)
  BY UnreadGrows DEF Unread
<1> SUFFICES ASSUME NEW s \in Session, Held(s)', s \notin Named PROVE Held(s)
  OBVIOUS
<1>4. s # None
  BY SessionAssumption
<1>5. CASE \E i \in Unread' : log'[i].closed = s \/ log'[i].opened = s
  <2>1. PICK i \in Unread' : log'[i].closed = s \/ log'[i].opened = s
    BY <1>5
  <2>2. i \in Unread /\ log'[i] = log[i]
    BY <1>2, <1>3, <1>4, <2>1
  <2> QED
    BY <2>1, <2>2 DEF Held
<1>6. CASE \E r \in Opener : call'[r].answer # None /\ call'[r].answer.opened = s
  BY <1>4, <1>6 DEF Held
<1>7. CASE \E r \in Opener : call'[r].item = "turnover" /\ call'[r].session = s
  BY <1>7 DEF Held
<1> QED
  BY <1>1, <1>5, <1>6, <1>7 DEF Held

(* What a reply says to the request it answers.                            *)
LEMMA ReplySays ==
  ASSUME DueInv, [Next]_vars, lead' = lead, NEW r \in Opener,
         NEW kind \in {"ok", "refused", "failed"}, NEW s \in Session \cup {None},
         Reply(r, kind, s)
  PROVE  /\ \A q \in Opener : q # r => call'[q] = call[q]
         /\ \/ call'[r].item = "none" /\ call'[r].answer = None
            \/ /\ call'[r].item = call[r].item /\ call'[r].session = call[r].session
               /\ call'[r].answer # None
               /\ call'[r].answer.kind = kind /\ call'[r].answer.opened = s
<1>1. closesAt' \in [Session -> Int]
  BY RowsMoved DEF EpochInv, TypeOK
<1> QED
  BY <1>1, ReplyIs, FreeIs

(* A request is answered: what was asked of it, and what the rows say now. *)
LEMMA ServedAsked ==
  ASSUME DueInv, OpeningsAsked, EndsTold, [Next]_vars, lead' = lead, NEW r \in Opener,
         NEW kind \in {"ok", "refused", "failed"}, NEW s \in Session \cup {None},
         Reply(r, kind, s), status' = status, call[r].item # "none",
         opening'[r].step = "idle", \A q \in Opener : q # r => opening'[q] = opening[q],
         s # None => call[r].item = "turnover" \/ status # "inactive",
         kind = "ok" /\ s = None =>
           /\ call[r].item = "turnover"
           /\ state'[call[r].session] = "closed" /\ successor'[call[r].session] = None
  PROVE  OpeningsAsked' /\ EndsTold'
<1>1. /\ \A q \in Opener : q # r => call'[q] = call[q]
      /\ \/ call'[r].item = "none" /\ call'[r].answer = None
         \/ /\ call'[r].item = call[r].item /\ call'[r].session = call[r].session
            /\ call'[r].answer # None
            /\ call'[r].answer.kind = kind /\ call'[r].answer.opened = s
  BY ReplySays
<1>2. WindowsKeep
  BY RowsMoved
<1>3. OpeningsAsked'
  BY <1>1 DEF OpeningsAsked, Asked
<1>4. EndsTold'
  <2> SUFFICES ASSUME NEW q \in Opener, call'[q].answer # None, call'[q].answer.kind = "ok",
                      call'[q].answer.opened = None
               PROVE  /\ call'[q].item = "turnover"
                      /\ state'[call'[q].session] = "closed" /\ successor'[call'[q].session] = None
    BY DEF EndsTold
  <2>1. CASE q = r
    BY <1>1, <2>1
  <2>2. CASE q # r
    <3>1. PICK p : p = call[q].session
      OBVIOUS
    <3>2. call'[q] = call[q] /\ call[q].item = "turnover" /\ state[p] = "closed"
          /\ successor[p] = None
      BY <1>1, <2>2, <3>1 DEF EndsTold
    <3>3. p \in Session
      BY <3>1, <3>2 DEF DueInv, CallsDue, Due
    <3>4. state'[p] = "closed" /\ successor'[p] = None
      BY <1>2, <3>2, <3>3 DEF WindowsKeep
    <3> QED
      BY <3>1, <3>2, <3>4
  <2> QED
    BY <2>1, <2>2
<1> QED
  BY <1>3, <1>4

(* A step of the API that leaves the requests alone.                       *)
LEMMA AskedStand ==
  ASSUME DueInv, OpeningsAsked, EndsTold, [Next]_vars, lead' = lead, UNCHANGED call,
         \A r \in Opener : opening'[r].step # "idle" =>
           opening[r].step # "idle" \/ (Asked(r, "open") /\ status # "inactive"),
         \/ status' = status \/ status' = "active"
         \/ \A r \in Opener : call[r].item # "open"
  PROVE  OpeningsAsked' /\ EndsTold'
<1>1. WindowsKeep
  BY RowsMoved
<1>2. OpeningsAsked'
  BY DEF OpeningsAsked, Asked
<1>3. EndsTold'
  <2> SUFFICES ASSUME NEW q \in Opener, call[q].answer # None, call[q].answer.kind = "ok",
                      call[q].answer.opened = None, NEW p, p = call[q].session
               PROVE  /\ call[q].item = "turnover"
                      /\ state'[p] = "closed" /\ successor'[p] = None
    BY DEF EndsTold
  <2>1. call[q].item = "turnover" /\ state[p] = "closed" /\ successor[p] = None
    BY DEF EndsTold
  <2>2. p \in Session
    BY <2>1 DEF DueInv, CallsDue, Due
  <2> QED
    BY <1>1, <2>1, <2>2 DEF WindowsKeep
<1> QED
  BY <1>2, <1>3

(* The event of a boundary, the only step that closes a window.            *)
LEMMA TurnedOver ==
  ASSUME DueInv, NEW s \in Session, TurnOver(s)
  PROVE  /\ successor'[s] \in Session \cup {None}
         /\ Len(log') = Len(log) + 1
         /\ \A i \in DOMAIN log' \ DOMAIN log :
              log'[i].closed = s /\ log'[i].opened = successor'[s]
<1>1. PICK o \in Session \cup {None} : successor'[s] = o /\ Announce("turned_over", s, o)
  <2>1. CASE status = "active"
    BY <2>1 DEF TurnOver, TurnOverInto, Closed, Unused, DueInv, EpochInv, TypeOK
  <2>2. CASE status # "active"
    <3>1. UNCHANGED successor /\ Announce("turned_over", s, None)
      BY <2>2 DEF TurnOver, TurnOverLast, Closed
    <3>2. successor[s] = None
      BY DEF TurnOver, DueInv, EpochInv, RowsAgree
    <3> QED
      BY <3>1, <3>2
  <2> QED
    BY <2>1, <2>2
<1>2. PICK e : e = Event("turned_over", s, o)
  OBVIOUS
<1>3. e.closed = s /\ e.opened = o /\ e \in EventType
  BY <1>2 DEF Event, EventType
<1>4. log \in Seq(EventType) /\ log' = Append(log, e)
  BY <1>1, <1>2 DEF Announce, DueInv, EpochInv, TypeOK
<1>5. /\ Len(log') = Len(log) + 1
      /\ \A i \in DOMAIN log' \ DOMAIN log : log'[i] = e
  BY <1>3, <1>4
<1> QED
  BY <1>1, <1>3, <1>5

LEMMA ReadsStayFit ==
  ASSUME DueInv, ReadsFit, [Next]_vars, UNCHANGED view
  PROVE  ReadsFit'
<1>1. UNCHANGED <<current, cursor, snapshot>>
  BY DEF view
<1>2. Len(log) \in Nat /\ Len(log') \in Nat /\ Len(log) <= Len(log')
  BY LogMoves
<1>3. \/ Len(log) < Len(log')
      \/ \A s \in Session : state[s] = "collecting" => state'[s] = "collecting"
  <2>1. ASSUME NEW s \in Session, TurnOver(s) PROVE Len(log) < Len(log')
    BY <1>2, <2>1, TurnedOver
  <2>2. ASSUME NEW c \in Opener, OpenInsert(c)
        PROVE  \A s \in Session : state[s] = "collecting" => state'[s] = "collecting"
    BY <2>2 DEF OpenInsert, Unused, DueInv, EpochInv, TypeOK
  <2>3. ASSUME UNCHANGED state
        PROVE  \A s \in Session : state[s] = "collecting" => state'[s] = "collecting"
    BY <2>3
  <2> QED
    BY <2>1, <2>2, <2>3 DEF Next, OpenCheck, OpenPlace, OpenAbandon,
         TurnOverReplay, Deactivate, Activate, Update, Tick, vars, sessions
<1>4. cursor \in Nat /\ (snapshot # None => snapshot.cursor \in Nat /\ snapshot.open \subseteq Session)
  BY ClockNames DEF DueInv, ClockTypeOK
<1> QED
  BY <1>1, <1>2, <1>3, <1>4 DEF ReadsFit

LEMMA AttendedStays ==
  ASSUME DueInv, ReadsFit, Attended, [Next]_vars, UNCHANGED <<task, memory, view>>,
         Collecting' # {} \/ status' = "active" => Collecting # {} \/ status = "active"
  PROVE  Attended'
<1>1. UNCHANGED <<task, boundary, gaveUp, current, snapshot>>
  BY DEF memory, view
<1>2. Unread \subseteq Unread'
  BY UnreadGrows
<1>3. \A i \in Unread : log'[i] = log[i]
  BY LogMoves DEF Unread
<1>4. (\E i \in Unread : Opens(log[i])) => \E i \in Unread' : Opens(log'[i])
  BY <1>2, <1>3
<1>5. Resters' = Resters
  BY <1>1 DEF Resters
<1> QED
  BY <1>1, <1>4, <1>5 DEF Attended, Opens

(* An answer is given: the clock may now hold the session it names, and    *)
(* the ones its event names.                                               *)
LEMMA RepliedHeld ==
  ASSUME DueInv, ReadsFit, [Next]_vars, UNCHANGED <<task, memory, view, lead>>, NEW r \in Opener,
         NEW kind \in {"ok", "refused", "failed"}, NEW s \in Session \cup {None},
         Reply(r, kind, s), NEW Told,
         \A i \in DOMAIN log' \ DOMAIN log : {log'[i].closed, log'[i].opened} \subseteq Told \cup {None}
  PROVE  \A x \in Session : Held(x)' => Held(x) \/ x = s \/ x \in Told
<1>1. /\ \A q \in Opener : q # r => call'[q] = call[q]
      /\ \/ call'[r].item = "none" /\ call'[r].answer = None
         \/ /\ call'[r].item = call[r].item /\ call'[r].session = call[r].session
            /\ call'[r].answer.opened = s
  BY ReplySays
<1>2. \A q \in Opener : call'[q].item = "turnover" =>
        call[q].item = "turnover" /\ call'[q].session = call[q].session
  BY <1>1
<1>3. \A q \in Opener : call'[q].answer # None =>
        call'[q].answer = call[q].answer \/ call'[q].answer.opened \in (Told \cup {s}) \cup {None}
  BY <1>1
<1>4. \A x \in Session : Held(x)' => Held(x) \/ x \in Told \cup {s}
  BY <1>2, <1>3, HeldByApi
<1> QED
  BY <1>4

(* A boundary moves the era on by one window, or ends it.                  *)
LEMMA EraTurns ==
  ASSUME DueInv, EpochInv', NEW era \in SUBSET Session, EraOf(era), NEW s \in Session, TurnOver(s),
         \A x \in Session : Held(x)' => x \in era \/ x = s \/ x = successor'[s]
  PROVE  OneEra'
<1>1. EpochInv /\ None \notin Session
  BY SessionAssumption DEF DueInv
<1>2. s \in Collecting /\ s \in era /\ Collecting = {s} /\ state[s] = "collecting"
  BY <1>1 DEF TurnOver, EraOf, Collecting, EpochInv, OneCollecting
<1>3. CASE status = "active"
  <2>1. PICK t \in Unused : TurnOverInto(s, t) /\ Closed(s, t)
    BY <1>3 DEF TurnOver
  <2>2. /\ t \in Session /\ t # s /\ state[t] = "none" /\ t \notin era
        /\ successor[t] = None
    BY <1>1, <1>2, <2>1 DEF Unused, EraOf, EpochInv, RowsAgree
  <2>3. /\ state'[s] = "closed" /\ state'[t] = "collecting" /\ successor'[s] = t
        /\ \A x \in Session : x # s /\ x # t => state'[x] = state[x]
        /\ \A x \in Session : x # s => successor'[x] = successor[x]
        /\ \A x \in Session : x # t => closesAt'[x] = closesAt[x]
    BY <1>1, <2>1, <2>2 DEF TurnOverInto, EpochInv, TypeOK
  <2>4. Collecting' = {t}
    BY <1>2, <2>2, <2>3 DEF Collecting
  <2>5. closesAt'[s] < closesAt'[t]
        /\ \A x \in Session : closesAt'[x] \in Int /\ closesAt[x] \in Int
    BY <1>1, <2>2, <2>3 DEF EpochInv, ChainForward, TypeOK
  <2>6. ASSUME NEW x \in era \cup {t}
        PROVE  /\ state'[x] # "none" /\ successor'[x] \in era \cup {t} \cup {None}
               /\ ~(state'[x] = "closed" /\ successor'[x] = None)
               /\ closesAt'[x] <= closesAt'[t]
    <3>1. CASE x = t
      BY <2>2, <2>3, <2>5, <3>1
    <3>2. CASE x = s
      BY <1>1, <1>2, <2>2, <2>3, <2>5, <3>2
    <3>3. CASE x \in era /\ x # s /\ x # t
      <4>1. /\ state[x] # "none" /\ successor[x] \in era \cup {None}
            /\ ~(state[x] = "closed" /\ successor[x] = None)
            /\ closesAt[x] <= closesAt[s]
        BY <1>2, <3>3 DEF EraOf
      <4> QED
        BY <2>2, <2>3, <2>5, <3>3, <4>1
    <3> QED
      BY <3>1, <3>2, <3>3
  <2>7. PICK next \in SUBSET Session : next = era \cup {t}
    BY <2>2
  <2>8. EraOf(next)'
    BY <2>4, <2>6, <2>7 DEF EraOf
  <2>9. \A x \in Session : Held(x)' => x \in next
    BY <1>2, <2>3, <2>7
  <2> QED
    BY <2>8, <2>9 DEF OneEra
<1>4. CASE status # "active"
  <2>1. TurnOverLast(s) /\ Closed(s, None) /\ UNCHANGED <<closesAt, successor, status>>
    BY <1>4 DEF TurnOver, TurnOverLast, Closed, subject
  <2>2. /\ state'[s] = "closed"
        /\ \A x \in Session : x # s => state'[x] = state[x]
        /\ status = "inactive" /\ successor[s] = None
    BY <1>1, <1>2, <1>4, <2>1 DEF TurnOverLast, EpochInv, TypeOK, RowsAgree
  <2>3. Collecting' = {}
    BY <1>2, <2>2 DEF Collecting
  <2>4. EraOf(era)'
    BY <1>2, <2>1, <2>2, <2>3 DEF EraOf
  <2>5. \A x \in Session : Held(x)' => x \in era
    BY <1>1, <1>2, <2>1, <2>2
  <2> QED
    BY <2>4, <2>5 DEF OneEra
<1> QED
  BY <1>3, <1>4

(* The first window of an era: nothing of the one before is still held.    *)
LEMMA EraBegins ==
  ASSUME DueInv, OneEra, status = "active", NEW r \in Opener, NEW s \in Unused,
         OpenInsert(r), state'[s] = "collecting",
         \A x \in Session : Held(x)' => Held(x) \/ x = s
  PROVE  OneEra' /\ opening' = [opening EXCEPT ![r] = Idle] /\ UNCHANGED <<log, status>>
<1>1. EpochInv
  BY DEF DueInv
<1>2. /\ Collecting = {} /\ state' = [state EXCEPT ![s] = "collecting"]
      /\ UNCHANGED <<status, successor, log>> /\ closesAt' \in [Session -> Int]
  BY <1>1 DEF OpenInsert, Collecting, Unused, subject, EpochInv, TypeOK
<1>3. s \in Session /\ state[s] = "none" /\ successor[s] = None /\ state'[s] = "collecting"
  BY <1>1 DEF Unused, EpochInv, RowsAgree
<1>4. Collecting' = {s}
  BY <1>1, <1>2, <1>3 DEF Collecting, EpochInv, TypeOK
<1>5. \A x \in Session : ~Held(x)
  BY <1>2 DEF OneEra, EraOf
<1>6. PICK next \in SUBSET Session : next = {s}
  BY <1>3
<1>7. EraOf(next)'
  BY <1>2, <1>3, <1>4, <1>6 DEF EraOf
<1>8. \A x \in Session : Held(x)' => x \in next
  BY <1>5, <1>6
<1> QED
  BY <1>2, <1>7, <1>8 DEF OneEra, OpenInsert

LEMMA ServedTurnOver ==
  ASSUME AttendedInv, EpochInv', NEW r \in Opener, Asked(r, "turnover"),
         [Next]_vars, UNCHANGED <<task, memory, view, lead>>,
         NEW s \in Session, s = call[r].session,
         \/ TurnOver(s) /\ Reply(r, "ok", successor'[s])
         \/ TurnOverReplay(s) /\ Reply(r, "ok", successor[s])
  PROVE  OneEra' /\ OpeningsAsked' /\ EndsTold' /\ Attended'
<1>1. /\ DueInv /\ OneEra /\ OpeningsAsked /\ EndsTold /\ ReadsFit /\ Attended
  BY DEF AttendedInv
<1>2. call[r].item = "turnover" /\ opening[r].step = "idle"
  BY <1>1 DEF Asked, OpeningsAsked
<1>3. Held(s)
  BY <1>2 DEF Held
<1>4. PICK era \in SUBSET Session : EraOf(era) /\ \A x \in Session : Held(x) => x \in era
  BY <1>1 DEF OneEra
<1>5. lead' = lead /\ UNCHANGED <<task, memory, view>>
  OBVIOUS
<1>6. CASE TurnOver(s) /\ Reply(r, "ok", successor'[s])
  <2>1. PICK o : o = successor'[s]
    OBVIOUS
  <2>2. /\ o \in Session \cup {None}
        /\ \A i \in DOMAIN log' \ DOMAIN log : log'[i].closed = s /\ log'[i].opened = o
    BY <1>1, <1>6, <2>1, TurnedOver
  <2>3. Reply(r, "ok", o) /\ state'[s] = "closed" /\ status' = status /\ opening' = opening
        /\ s \in Collecting
    BY <1>1, <1>6, <2>1 DEF TurnOver, TurnOverInto, TurnOverLast, Closed, subject, Unused,
         Collecting, DueInv, EpochInv, TypeOK
  <2>4. OpeningsAsked' /\ EndsTold'
    BY <1>1, <1>2, <1>5, <2>1, <2>2, <2>3, ServedAsked
  <2>5. \A i \in DOMAIN log' \ DOMAIN log :
          {log'[i].closed, log'[i].opened} \subseteq {s, o} \cup {None}
    BY <2>2
  <2>6. \A x \in Session : Held(x)' => Held(x) \/ x = o \/ x \in {s, o}
    BY <1>1, <1>5, <2>2, <2>3, <2>5, RepliedHeld
  <2>7. OneEra'
    BY <1>1, <1>4, <1>6, <2>1, <2>6, EraTurns
  <2>8. Attended'
    BY <1>1, <1>5, <2>3, AttendedStays
  <2> QED
    BY <2>4, <2>7, <2>8
<1>7. CASE TurnOverReplay(s) /\ Reply(r, "ok", successor[s])
  <2>1. PICK o : o = successor[s]
    OBVIOUS
  <2>2. /\ UNCHANGED <<status, state, closesAt, successor, opening, log>>
        /\ state[s] = "closed" /\ Reply(r, "ok", o)
    BY <1>7, <2>1 DEF TurnOverReplay, subject, sessions
  <2>3. o \in Session \cup {None} /\ o \in era \cup {None}
    BY <1>1, <1>3, <1>4, <2>1 DEF EraOf, DueInv, EpochInv, TypeOK
  <2>4. OpeningsAsked' /\ EndsTold'
    BY <1>1, <1>2, <1>5, <2>1, <2>2, <2>3, ServedAsked
  <2>5. PICK told : told = {}
    OBVIOUS
  <2>6. \A x \in Session : Held(x)' => Held(x) \/ x = o
    <3>1. \A i \in DOMAIN log' \ DOMAIN log :
            {log'[i].closed, log'[i].opened} \subseteq told \cup {None}
      BY <2>2
    <3>2. \A x \in Session : Held(x)' => Held(x) \/ x = o \/ x \in told
      BY <1>1, <1>5, <2>2, <2>3, <3>1, RepliedHeld
    <3> QED
      BY <2>5, <3>2
  <2>7. \A x \in Session : Held(x)' => x \in era
    BY <1>4, <2>3, <2>6, SessionAssumption
  <2>8. OneEra'
    BY <1>1, <1>4, <2>2, <2>7, EraKept
  <2>9. Collecting' = Collecting
    BY <2>2 DEF Collecting
  <2> QED
    BY <1>1, <1>5, <2>2, <2>4, <2>8, <2>9, AttendedStays
<1> QED
  BY <1>6, <1>7

(* A reply that names no session, or the one that is open.                 *)
LEMMA ServedInPlace ==
  ASSUME AttendedInv, NEW r \in Opener, call[r].item # "none",
         [Next]_vars, UNCHANGED <<task, memory, view, lead>>,
         UNCHANGED <<status, state, closesAt, successor, log>>,
         opening'[r].step = "idle", \A q \in Opener : q # r => opening'[q] = opening[q],
         \/ Reply(r, "refused", None) \/ Reply(r, "failed", None)
         \/ status = "active" /\ \E s \in Collecting : Reply(r, "ok", s)
  PROVE  OneEra' /\ OpeningsAsked' /\ EndsTold' /\ Attended'
<1>1. /\ DueInv /\ OneEra /\ OpeningsAsked /\ EndsTold /\ ReadsFit /\ Attended
  BY DEF AttendedInv
<1>2. PICK kind \in {"ok", "refused", "failed"}, o \in Session \cup {None} :
           /\ Reply(r, kind, o)
           /\ \/ o = None /\ kind # "ok"
              \/ o \in Collecting /\ status = "active"
  BY DEF Collecting
<1>3. OpeningsAsked' /\ EndsTold'
  BY <1>1, <1>2, SessionAssumption, ServedAsked DEF Collecting
<1>4. PICK told : told = {}
  OBVIOUS
<1>5. \A x \in Session : Held(x)' => Held(x) \/ x = o
  <2>1. \A i \in DOMAIN log' \ DOMAIN log :
          {log'[i].closed, log'[i].opened} \subseteq told \cup {None}
    OBVIOUS
  <2>2. \A x \in Session : Held(x)' => Held(x) \/ x = o \/ x \in told
    BY <1>1, <1>2, <2>1, RepliedHeld
  <2> QED
    BY <1>4, <2>2
<1>6. PICK era \in SUBSET Session : EraOf(era) /\ \A x \in Session : Held(x) => x \in era
  BY <1>1 DEF OneEra
<1>7. \A x \in Session : Held(x)' => x \in era
  BY <1>2, <1>5, <1>6, SessionAssumption DEF EraOf
<1>8. OneEra'
  BY <1>1, <1>6, <1>7, EraKept
<1>9. Collecting' = Collecting
  BY DEF Collecting
<1>10. Attended'
  BY <1>1, <1>9, AttendedStays
<1> QED
  BY <1>3, <1>8, <1>10

LEMMA ServedOpens ==
  ASSUME AttendedInv, NEW r \in Opener, Asked(r, "open"),
         [Next]_vars, UNCHANGED <<task, memory, view, lead>>,
         NEW s \in Unused, OpenInsert(r), state'[s] = "collecting", Reply(r, "ok", s)
  PROVE  OneEra' /\ OpeningsAsked' /\ EndsTold' /\ Attended'
<1>1. /\ DueInv /\ OneEra /\ OpeningsAsked /\ EndsTold /\ ReadsFit /\ Attended
  BY DEF AttendedInv
<1>2. status = "active" /\ status' = status /\ log' = log
  BY <1>1 DEF OpenInsert, OpeningsAsked, DueInv, EpochInv, TypeOK, subject
<1>3. s \in Session /\ s # None
  BY SessionAssumption DEF Unused
<1>4. PICK told : told = {}
  OBVIOUS
<1>5. \A x \in Session : Held(x)' => Held(x) \/ x = s
  <2>1. \A i \in DOMAIN log' \ DOMAIN log :
          {log'[i].closed, log'[i].opened} \subseteq told \cup {None}
    BY <1>2
  <2>2. \A x \in Session : Held(x)' => Held(x) \/ x = s \/ x \in told
    BY <1>1, <1>3, <2>1, RepliedHeld
  <2> QED
    BY <1>4, <2>2
<1>6. OneEra' /\ opening' = [opening EXCEPT ![r] = Idle]
  BY <1>1, <1>2, <1>5, EraBegins
<1>7. opening'[r].step = "idle" /\ \A q \in Opener : q # r => opening'[q] = opening[q]
  BY <1>1, <1>6 DEF DueInv, EpochInv, TypeOK, Idle
<1>8. OpeningsAsked' /\ EndsTold'
  BY <1>1, <1>2, <1>3, <1>7, ServedAsked DEF Asked
<1>9. Attended'
  BY <1>1, <1>2, AttendedStays
<1> QED
  BY <1>6, <1>8, <1>9

(* A step of the API that neither closes nor opens, and answers nobody.    *)
LEMMA RowsOnly ==
  ASSUME AttendedInv, [Next]_vars, UNCHANGED <<task, memory, view, lead>>, UNCHANGED call,
         UNCHANGED <<status, state, closesAt, successor, log>>,
         \A r \in Opener : opening'[r].step # "idle" =>
           opening[r].step # "idle" \/ (Asked(r, "open") /\ status # "inactive")
  PROVE  OneEra' /\ OpeningsAsked' /\ EndsTold' /\ Attended'
<1>1. /\ DueInv /\ OneEra /\ OpeningsAsked /\ EndsTold /\ ReadsFit /\ Attended
  BY DEF AttendedInv
<1>2. UNCHANGED <<boundary, gaveUp, current, cursor, snapshot>>
  BY DEF memory, view
<1>3. PICK era \in SUBSET Session : EraOf(era) /\ \A x \in Session : Held(x) => x \in era
  BY <1>1 DEF OneEra
<1>4. \A x \in Session : Held(x)' => x \in era
  BY <1>2, <1>3 DEF Held, Unread
<1>5. OneEra'
  BY <1>1, <1>3, <1>4, EraKept
<1>6. OpeningsAsked' /\ EndsTold'
  BY <1>1, AskedStand
<1>7. Collecting' = Collecting
  BY DEF Collecting
<1>8. Attended'
  BY <1>1, <1>7, AttendedStays
<1> QED
  BY <1>5, <1>6, <1>8

LEMMA ServedAttended ==
  ASSUME AttendedInv, EpochInv', NEW r \in Opener, Serve(r) \/ FailAtApi(r)
  PROVE  OneEra' /\ OpeningsAsked' /\ EndsTold' /\ ReadsFit' /\ Attended'
<1>1. /\ DueInv /\ OneEra /\ OpeningsAsked /\ EndsTold /\ ReadsFit /\ Attended
  BY DEF AttendedInv
<1>2. [Next]_vars /\ UNCHANGED <<task, memory, view, lead>> /\ UNCHANGED view
  BY <1>1, ServedReplies
<1>3. ReadsFit'
  BY <1>1, <1>2, ReadsStayFit
<1>4. opening \in [Opener -> [step : {"idle", "checked", "placed"}, closes : Int]]
  BY <1>1 DEF DueInv, EpochInv, TypeOK
<1>5. OneEra' /\ OpeningsAsked' /\ EndsTold' /\ Attended'
  <2>1. ASSUME UNCHANGED vars \/ OpenAbandon(r)
        PROVE  /\ UNCHANGED <<status, state, closesAt, successor, log>>
               /\ \A q \in Opener : q # r => opening'[q] = opening[q]
               /\ OpenAbandon(r) => opening'[r].step = "idle"
               /\ UNCHANGED vars => opening'[r] = opening[r]
    BY <1>4, <2>1 DEF OpenAbandon, vars, subject, sessions, Idle
  <2>2. ASSUME Asked(r, "turnover"),
               \/ TurnOver(call[r].session) /\ Reply(r, "ok", successor'[call[r].session])
               \/ TurnOverReplay(call[r].session) /\ Reply(r, "ok", successor[call[r].session])
        PROVE  OneEra' /\ OpeningsAsked' /\ EndsTold' /\ Attended'
    <3>1. PICK s : s = call[r].session
      OBVIOUS
    <3>2. s \in Session
      BY <1>1, <2>2, <3>1 DEF Asked, DueInv, CallsDue, Due
    <3> QED
      BY <1>2, <2>2, <3>1, <3>2, ServedTurnOver
  <2>3. ASSUME Asked(r, "turnover"), UNCHANGED vars,
               Reply(r, "refused", None) \/ Reply(r, "failed", None)
        PROVE  OneEra' /\ OpeningsAsked' /\ EndsTold' /\ Attended'
    <3>1. call[r].item # "none" /\ opening'[r].step = "idle"
      BY <1>1, <2>1, <2>3 DEF Asked, OpeningsAsked
    <3> QED
      BY <1>2, <2>1, <2>3, <3>1, ServedInPlace
  <2>4. ASSUME Asked(r, "open"), OpenCheck(r) \/ OpenPlace(r), UNCHANGED call
        PROVE  OneEra' /\ OpeningsAsked' /\ EndsTold' /\ Attended'
    <3>1. UNCHANGED <<status, state, closesAt, successor, log>>
      BY <2>4 DEF OpenCheck, OpenPlace, subject, sessions
    <3>2. \A q \in Opener : opening'[q].step # "idle" =>
            opening[q].step # "idle" \/ (Asked(q, "open") /\ status # "inactive")
      <4>1. \A q \in Opener : q # r => opening'[q] = opening[q]
        BY <1>4, <2>4 DEF OpenCheck, OpenPlace
      <4>2. opening[r].step # "idle" \/ status # "inactive"
        BY <2>4 DEF OpenCheck, OpenPlace
      <4> QED
        BY <2>4, <4>1, <4>2
    <3> QED
      BY <1>2, <2>4, <3>1, <3>2, RowsOnly
  <2>5. ASSUME Asked(r, "open"), opening[r].step = "idle", UNCHANGED vars,
               Reply(r, "refused", None)
        PROVE  OneEra' /\ OpeningsAsked' /\ EndsTold' /\ Attended'
    <3>1. call[r].item # "none" /\ opening'[r].step = "idle"
      BY <2>1, <2>5 DEF Asked
    <3> QED
      BY <1>2, <2>1, <2>5, <3>1, ServedInPlace
  <2>6. ASSUME Asked(r, "open"), NEW s \in Unused, OpenInsert(r), state'[s] = "collecting",
               Reply(r, "ok", s)
        PROVE  OneEra' /\ OpeningsAsked' /\ EndsTold' /\ Attended'
    BY <1>2, <2>6, ServedOpens
  <2>7. ASSUME Asked(r, "open"), NEW s \in Collecting, opening[r].step = "placed",
               OpenAbandon(r), Reply(r, "ok", s)
        PROVE  OneEra' /\ OpeningsAsked' /\ EndsTold' /\ Attended'
    <3>1. status = "active" /\ call[r].item # "none"
      BY <1>1, <2>7 DEF Asked, OpeningsAsked, DueInv, EpochInv, TypeOK
    <3> QED
      BY <1>2, <2>1, <2>7, <3>1, ServedInPlace
  <2>8. CASE FailAtApi(r)
    <3>1. /\ call[r].item # "none" /\ Reply(r, "failed", None)
          /\ OpenAbandon(r) \/ (opening[r].step = "idle" /\ UNCHANGED vars)
      BY <2>8 DEF FailAtApi
    <3>2. opening'[r].step = "idle"
      BY <2>1, <3>1
    <3> QED
      BY <1>2, <2>1, <3>1, <3>2, ServedInPlace
  <2>9. CASE Serve(r) /\ ServeTurnOver(r)
    BY <2>2, <2>3, <2>9 DEF ServeTurnOver
  <2>10. CASE Serve(r) /\ ServeOpen(r)
    BY <2>4, <2>5, <2>6, <2>7, <2>10 DEF ServeOpen
  <2> QED
    BY <2>8, <2>9, <2>10 DEF Serve
<1> QED
  BY <1>3, <1>5

LEMMA PeerAttended ==
  ASSUME AttendedInv, EpochInv', NEW s \in Session, Peer(s)
  PROVE  OneEra' /\ OpeningsAsked' /\ EndsTold' /\ ReadsFit' /\ Attended'
<1>1. /\ DueInv /\ OneEra /\ OpeningsAsked /\ EndsTold /\ ReadsFit /\ Attended
  BY DEF AttendedInv
<1>2. /\ [Next]_vars /\ UNCHANGED <<task, memory, view>> /\ UNCHANGED <<call, lead, view>>
      /\ TurnOver(s)
  BY DEF Peer, Next
<1>3. UNCHANGED <<status, opening>> /\ s \in Collecting
  BY <1>2 DEF TurnOver, Closed, subject, Collecting
<1>4. OpeningsAsked' /\ EndsTold'
  BY <1>1, <1>2, <1>3, AskedStand
<1>5. PICK o \in Session \cup {None} :
           /\ o = successor'[s]
           /\ \A i \in DOMAIN log' \ DOMAIN log : log'[i].closed = s /\ log'[i].opened = o
  BY <1>1, <1>2, TurnedOver
<1>6. PICK named : named = {s, o}
  OBVIOUS
<1>7. \A x \in Session : Held(x)' => Held(x) \/ x \in named
  <2>1. \A i \in DOMAIN log' \ DOMAIN log :
          {log'[i].closed, log'[i].opened} \subseteq named \cup {None}
    BY <1>5, <1>6
  <2>2. \A r \in Opener : call'[r].item = "turnover" =>
          call[r].item = "turnover" /\ call'[r].session = call[r].session
    BY <1>2
  <2>3. \A r \in Opener : call'[r].answer # None =>
          call'[r].answer = call[r].answer \/ call'[r].answer.opened \in named \cup {None}
    BY <1>2
  <2> QED
    BY <1>1, <1>2, <2>1, <2>2, <2>3, HeldByApi
<1>8. PICK era \in SUBSET Session : EraOf(era) /\ \A x \in Session : Held(x) => x \in era
  BY <1>1 DEF OneEra
<1>9. \A x \in Session : Held(x)' => x \in era \/ x = s \/ x = successor'[s]
  BY <1>5, <1>6, <1>7, <1>8
<1>10. OneEra'
  BY <1>1, <1>2, <1>8, <1>9, EraTurns
<1>11. Attended'
  BY <1>1, <1>2, <1>3, AttendedStays
<1>12. ReadsFit'
  BY <1>1, <1>2, ReadsStayFit
<1> QED
  BY <1>4, <1>10, <1>11, <1>12

(* An edit's event names no session.                                       *)
LEMMA EditSays ==
  ASSUME DueInv, NEW kind \in {"activated", "deactivated"}, Announce(kind, None, None)
  PROVE  \E i \in DOMAIN log' \ DOMAIN log :
           /\ DOMAIN log' \ DOMAIN log = {i} /\ log'[i].kind = kind
           /\ log'[i].closed = None /\ log'[i].opened = None
<1>1. PICK e : e = Event(kind, None, None)
  OBVIOUS
<1>2. e.kind = kind /\ e.closed = None /\ e.opened = None /\ e \in EventType
  BY <1>1 DEF Event, EventType
<1>3. log \in Seq(EventType) /\ log' = Append(log, e)
  BY <1>1 DEF DueInv, EpochInv, TypeOK, Announce
<1>4. /\ DOMAIN log = 1 .. Len(log) /\ DOMAIN log' = 1 .. Len(log) + 1
      /\ Len(log) \in Nat /\ log'[Len(log) + 1] = e
  BY <1>2, <1>3, LogGrows
<1>5. PICK i : i = Len(log) + 1
  OBVIOUS
<1>6. i \in DOMAIN log' \ DOMAIN log /\ DOMAIN log' \ DOMAIN log = {i} /\ log'[i] = e
  BY <1>4, <1>5
<1> QED
  BY <1>2, <1>6

(* The admin switches the subject while nothing about it is under way.     *)
LEMMA AdminAttended ==
  ASSUME Races = FALSE, AttendedInv, Admin
  PROVE  OneEra' /\ OpeningsAsked' /\ EndsTold' /\ ReadsFit' /\ Attended'
<1>1. /\ DueInv /\ OneEra /\ OpeningsAsked /\ EndsTold /\ ReadsFit /\ Attended
  BY DEF AttendedInv
<1>2. /\ [Next]_vars /\ UNCHANGED <<task, memory, view>> /\ UNCHANGED <<call, lead, view>>
      /\ UNCHANGED <<boundary, task, current, cursor, snapshot, gaveUp>>
  BY DEF Admin, Next, memory, view
<1>3. UNCHANGED <<state, closesAt, successor, opening>> /\ Collecting' = Collecting
  BY DEF Admin, Activate, Deactivate, sessions, Collecting
<1>4. PICK kind \in {"activated", "deactivated"} :
           /\ Announce(kind, None, None)
           /\ \/ kind = "activated" /\ Activate /\ BoundaryPast
              \/ kind = "deactivated" /\ Deactivate /\ ~Pending("open")
  BY DEF Admin, Activate, Deactivate
<1>5. PICK i \in DOMAIN log' \ DOMAIN log :
           /\ DOMAIN log' \ DOMAIN log = {i} /\ log'[i].kind = kind
           /\ log'[i].closed = None /\ log'[i].opened = None
  BY <1>1, <1>4, EditSays
<1>6. \A x \in Session : Held(x)' => Held(x)
  <2>1. PICK named : named = {}
    OBVIOUS
  <2>2. \A j \in DOMAIN log' \ DOMAIN log :
          {log'[j].closed, log'[j].opened} \subseteq named \cup {None}
    BY <1>5
  <2>3. \A r \in Opener : call'[r].item = "turnover" =>
          call[r].item = "turnover" /\ call'[r].session = call[r].session
    BY <1>2
  <2>4. \A r \in Opener : call'[r].answer # None =>
          call'[r].answer = call[r].answer \/ call'[r].answer.opened \in named \cup {None}
    BY <1>2
  <2>5. \A x \in Session : Held(x)' => Held(x) \/ x \in named
    BY <1>1, <1>2, <2>2, <2>3, <2>4, HeldByApi
  <2> QED
    BY <2>1, <2>5
<1>7. PICK era \in SUBSET Session : EraOf(era) /\ \A x \in Session : Held(x) => x \in era
  BY <1>1 DEF OneEra
<1>8. OpeningsAsked' /\ EndsTold'
  <2>1. status' = "active" \/ \A r \in Opener : call[r].item # "open"
    BY <1>4 DEF Activate, Pending
  <2> QED
    BY <1>1, <1>2, <1>3, <2>1, AskedStand
<1>9. ReadsFit'
  BY <1>1, <1>2, ReadsStayFit
<1>10. CASE kind = "deactivated"
  <2>1. status' = "inactive"
    BY <1>4, <1>10 DEF Deactivate
  <2>2. OneEra'
    BY <1>1, <1>3, <1>6, <1>7, <2>1, EraKept
  <2>3. Attended'
    BY <1>1, <1>2, <1>3, <2>1, AttendedStays
  <2> QED
    BY <1>8, <1>9, <2>2, <2>3
<1>11. CASE kind = "activated"
  <2>1. status = "inactive" /\ status' = "active" /\ BoundaryPast
    BY <1>4, <1>11 DEF Activate
  <2>2. Unread = {}
    <3>1. DOMAIN log = 1 .. Len(log) /\ Len(log) \in Nat
      BY <1>1, <1>2, LogMoves
    <3> QED
      BY <2>1, <3>1 DEF Unread, BoundaryPast
  <2>3. ASSUME NEW x \in Session, Held(x) PROVE x \in Collecting
    <3>1. boundary # None /\ boundary.session = x => x \in Collecting
      BY <2>1 DEF BoundaryPast, Collecting
    <3>2. \A k \in Task : task[k].item # "turnover"
      BY <2>1 DEF BoundaryPast, Pending
    <3>3. \A r \in Opener : call[r].item # "turnover"
      BY <2>1 DEF BoundaryPast, Pending
    <3>4. \A r \in Opener : call[r].answer # None => call[r].answer.opened = None
      <4>1. \A r \in Opener : call[r].item \in {"turnover", "open", "none"}
        BY <1>1 DEF DueInv, ClockTypeOK, CallState, Item
      <4> QED
        BY <1>1, <2>1, <3>3, <4>1 DEF OpeningsAsked
    <3>5. snapshot # None /\ x \in snapshot.open => x \in Collecting
      <4>1. snapshot # None => snapshot.cursor \in Nat
        BY <1>1, ClockNames
      <4> QED
        BY <1>1, <2>1, <4>1 DEF BoundaryPast, ReadsFit, Collecting
    <3> QED
      BY <2>2, <2>3, <3>1, <3>2, <3>3, <3>4, <3>5, SessionAssumption DEF Held
  <2>4. PICK next \in SUBSET Session : next = Collecting
    BY DEF Collecting
  <2>5. EraOf(next)'
    <3>1. \A s \in next : state[s] = "collecting" /\ successor[s] = None /\ closesAt[s] \in Int
      BY <1>1, <2>4 DEF Collecting, DueInv, EpochInv, RowsAgree, TypeOK
    <3>2. \A s \in next : \A t \in Collecting : s = t
      BY <1>1, <2>4 DEF DueInv, EpochInv, OneCollecting
    <3> QED
      BY <1>3, <2>4, <3>1, <3>2 DEF EraOf
  <2>6. OneEra'
    BY <1>6, <2>3, <2>4, <2>5 DEF OneEra
  <2>7. Attended'
    <3>1. current \/ snapshot # None => i \in Unread'
      BY <1>1, <1>2, <1>5, UnreadGrows
    <3>2. Opens(log'[i])
      BY <1>5, <1>11 DEF Opens
    <3> QED
      BY <1>2, <3>1, <3>2 DEF Attended, Opens
  <2> QED
    BY <1>8, <1>9, <2>6, <2>7
<1> QED
  BY <1>10, <1>11

LEMMA AttendedStep ==
  ASSUME Races = FALSE, AttendedInv, [ClockNext]_cvars PROVE AttendedInv'
<1>1. DueInv /\ DueInv' /\ EpochInv' /\ CallsDue
  BY DueStep DEF AttendedInv, DueInv
<1>2. OneEra' /\ OpeningsAsked' /\ EndsTold' /\ ReadsFit' /\ Attended'
  <2>1. ASSUME NEW r \in Opener, Serve(r) \/ FailAtApi(r) \/ Lose(r) \/ Receive(r)
        PROVE  OneEra' /\ OpeningsAsked' /\ EndsTold' /\ ReadsFit' /\ Attended'
    BY <1>1, <2>1, ServedAttended, AnsweredAttended
  <2>2. ASSUME NEW s \in Session, Peer(s)
        PROVE  OneEra' /\ OpeningsAsked' /\ EndsTold' /\ ReadsFit' /\ Attended'
    BY <1>1, <2>2, PeerAttended
  <2>3. ASSUME NEW k \in Task, Send(k)
        PROVE  OneEra' /\ OpeningsAsked' /\ EndsTold' /\ ReadsFit' /\ Attended'
    BY <2>3, SendAttended
  <2>4. ASSUME Time \/ UNCHANGED cvars
        PROVE  OneEra' /\ OpeningsAsked' /\ EndsTold' /\ ReadsFit' /\ Attended'
    <3>1. /\ UNCHANGED <<task, memory, view, lead>> /\ UNCHANGED <<call, view>>
          /\ UNCHANGED <<status, state, closesAt, successor, log, opening>>
      BY <2>4 DEF Time, Tick, cvars, vars, subject, sessions
    <3>2. [Next]_vars
      BY <1>1, <2>4, ClockMovesRows DEF ClockNext
    <3>3. ReadsFit'
      BY <1>1, <3>1, <3>2, ReadsStayFit DEF AttendedInv
    <3> QED
      BY <3>1, <3>2, <3>3, RowsOnly
  <2> QED
    BY <2>1, <2>2, <2>3, <2>4, FallsAttended, EventAttended, ReadAttended, RebuildAttended,
       CrashAttended, AdminAttended DEF ClockNext
<1> QED
  BY <1>1, <1>2 DEF AttendedInv

LEMMA AttendedInit == ClockInit => AttendedInv
<1> SUFFICES ASSUME ClockInit PROVE AttendedInv
  OBVIOUS
<1>1. DueInv
  BY DueInit
<1>2. /\ boundary = None /\ snapshot = None /\ current = FALSE
      /\ \A k \in Task : task[k] = Resting
      /\ \A r \in Opener : call[r] = Free /\ opening[r] = Idle
      /\ Collecting = {}
  BY DEF ClockInit, Init, Collecting
<1>3. \A s \in Session : ~Held(s)
  BY <1>2, FreeIs, RestingIs DEF Held, Unread
<1>4. PICK era \in SUBSET Session : era = {}
  OBVIOUS
<1>5. OneEra
  BY <1>2, <1>3, <1>4 DEF OneEra, EraOf
<1>6. OpeningsAsked /\ EndsTold
  BY <1>2, FreeIs DEF OpeningsAsked, EndsTold, Idle
<1>7. ReadsFit /\ Attended
  BY <1>2 DEF ReadsFit, Attended
<1> QED
  BY <1>1, <1>5, <1>6, <1>7 DEF AttendedInv

(* A clock at rest that lost no call holds a timer for every open window,  *)
(* set no later than its close, whatever failed, was replayed or read      *)
(* before, provided that nobody deactivates the subject while an opening   *)
(* is in flight, nor activates it while a turnover is, while a timer of a  *)
(* closed window is left, or before the clock has heard of every event     *)
(* (BoundaryPast).  The admin's code checks none of this.                  *)
THEOREM WindowsAttended ==
  ASSUME Races = FALSE PROVE ClockSpec => []TimerPerWindow
<1>1. AttendedInv /\ [ClockNext]_cvars => AttendedInv'
  BY AttendedStep
<1>2. AttendedInv => TimerPerWindow
  <2> SUFFICES ASSUME AttendedInv, Quiet, ~gaveUp, NEW s \in Collecting
               PROVE  boundary # None /\ boundary.at <= closesAt[s]
    BY DEF TimerPerWindow
  <2>1. /\ DueInv /\ OneEra /\ Attended /\ current /\ cursor = Len(log) /\ Resters = Task
    BY DEF AttendedInv, Quiet
  <2>2. snapshot = None /\ DOMAIN log = 1 .. Len(log) /\ Len(log) \in Nat
    BY <2>1 DEF DueInv, ClockTypeOK, EpochInv, TypeOK
  <2>3. Unread = {}
    BY <2>1, <2>2 DEF Unread
  <2>4. boundary # None
    BY <2>1, <2>3 DEF Attended
  <2>5. boundary.session \in Session /\ boundary.at = closesAt[boundary.session]
    BY <2>1, <2>4, ClockNames
  <2>6. Held(boundary.session)
    BY <2>4 DEF Held
  <2> QED
    BY <2>1, <2>4, <2>5, <2>6 DEF OneEra, EraOf
<1> QED
  BY <1>1, <1>2, AttendedInit, PTL DEF ClockSpec

-------------------------------------------------------------------------------
(* The clock's calls are steps of the API: whatever it loses, retries or   *)
(* repeats, it moves the rows only as EpochLifecycle does.                 *)
THEOREM ClockUsesTheApi == ClockSpec => Spec
<1>1. ClockInit => Init
  BY DEF ClockInit
<1>2. DueInv /\ [ClockNext]_cvars => [Next]_vars
  BY ClockMovesRows DEF DueInv
<1> QED
  BY <1>1, <1>2, ClockDue, PTL DEF ClockSpec, Spec

(* So under the clock's calls, overlapping and replayed, the epochs are    *)
(* one chain, its answers agree, the log is true, no close moves, and      *)
(* clock and API together implement EpochChain.                            *)
THEOREM EpochsUnderTheClock ==
  ClockSpec => /\ [](OneChain /\ AnswersAgree /\ LogMatchesRows /\ LogTellsNow)
               /\ WindowsFixed /\ ImplementsEpochChain
BY ClockUsesTheApi, ChainIsOne, AnswersNameTheRow, LogIsTrue, LogTells, WindowsAreFixed,
   EpochsAreOneChain, PTL
===============================================================================
