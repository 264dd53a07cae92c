----------------------------- MODULE BoundaryClock -----------------------------
(***************************************************************************)
(* The scheduler's clock at one subject's boundaries, against the API of   *)
(* EpochLifecycle: the boundary timer, the turnover and open calls with    *)
(* their retries, the events of the stream applied in the order of the     *)
(* log, and the rebuilds.  What follows a close is SettlementDriver's.     *)
(*                                                                         *)
(* An open request of EpochLifecycle (Opener) is a request here, of either *)
(* kind.  A request whose client gave up is still served.                  *)
(***************************************************************************)
EXTENDS EpochLifecycle

CONSTANTS
  Task,         \* bound: calls the clock awaits at once
  Lead,         \* how far the scheduler's clock may be ahead of the database's
  MaxAttempts,  \* the retry budget of a call
  MaxFaults,    \* bound: losses, failures, dropped streams, crashes, peers
  Races         \* may the admin switch the subject at any time?  If not, it deactivates
                \* while no opening is in flight, and activates where BoundaryPast holds

Item      == {"turnover", "open"}
Timers    == [session : Session, at : Int]
Answers   == [kind : {"ok", "refused", "failed"}, opened : Session \cup {None}, at : Int]
Snapshots == [active : BOOLEAN, open : SUBSET Session, closed : SUBSET Session, cursor : Nat]

ASSUME ClockAssumption ==
  /\ Lead \subseteq Nat /\ MaxAttempts \in Nat \ {0} /\ MaxFaults \in Nat
  /\ Races \in BOOLEAN /\ None \notin Task
  /\ None \notin Timers /\ None \notin Answers /\ None \notin Snapshots

VARIABLES
  boundary,    \* the subject's boundary timer, or None
  task,        \* per task, the call it makes and the attempts it has spent
  call,        \* per request, the call, who waits for it and its answer
  handed,      \* closed sessions whose settlement was resumed
  exhausted,   \* the items on the health surface as degraded
  gaveUp,      \* history: a budget ran out or a refusal was final
  current,     \* the stream consumer says the copy is current
  cursor,      \* events applied, or covered by the full read
  snapshot,    \* the full read a rebuild will consume, or None
  lead,        \* the scheduler's clock minus the database's
  faults

memory == <<boundary, handed, exhausted, gaveUp>>
view   == <<current, cursor, snapshot>>
cvars  == <<vars, task, call, memory, view, lead, faults>>

Resting == [item |-> "none", session |-> None, tries |-> 0]
Free    == [item |-> "none", session |-> None, by |-> None, answer |-> None]

Local == now + lead
Resters == {k \in Task : task[k].item = "none"}

ClockInit ==
  /\ Init
  /\ boundary = None /\ handed = {} /\ exhausted = {} /\ gaveUp = FALSE
  /\ task = [k \in Task |-> Resting] /\ call = [r \in Opener |-> Free]
  /\ current = FALSE /\ cursor = 0 /\ snapshot = None
  /\ lead \in Lead /\ faults = 0

Fault == faults < MaxFaults /\ faults' = faults + 1

-------------------------------------------------------------------------------
(* Timers and tasks.                                                       *)

(* #armBoundary replaces whatever timer the subject has.                   *)
Arm(s, at) == boundary' = [session |-> s, at |-> at]

(* Tasks are interchangeable, and so are requests: any free one is taken.  *)
Start(item, s) ==
  /\ Resters # {}
  /\ task' = [task EXCEPT ![CHOOSE k \in Resters : TRUE] =
                [item |-> item, session |-> s, tries |-> 0]]

(* Mutant: a boundary is fired although it has not passed.                 *)
ArmOrFire_early(s, at, held) == Start("turnover", s) /\ boundary' = held

(* A boundary that has passed is fired at once; any other gets its timer.  *)
ArmOrFire(s, at, held) ==
  IF at <= Local THEN Start("turnover", s) /\ boundary' = held
                 ELSE Arm(s, at) /\ UNCHANGED task

(* The boundary timer falls.  A copy that is not current does not act.     *)
BoundaryFalls ==
  /\ boundary # None /\ boundary.at <= Local
  /\ boundary' = None
  /\ IF current THEN Start("turnover", boundary.session) ELSE UNCHANGED task
  /\ UNCHANGED <<vars, call, handed, exhausted, gaveUp, view, lead, faults>>

-------------------------------------------------------------------------------
(* The stream and the rebuild.                                             *)

OnTurnedOver(e) ==
  /\ IF e.opened = None
     THEN /\ boundary' = IF boundary # None /\ boundary.session = e.closed
                         THEN None ELSE boundary
          /\ UNCHANGED task
     ELSE ArmOrFire(e.opened, closesAt[e.opened], boundary)
  /\ handed' = handed \cup {e.closed}

OnActivated ==
  /\ IF boundary = None THEN Start("open", None) ELSE UNCHANGED task
  /\ UNCHANGED <<boundary, handed>>

(* Mutant: a deactivation drops the timer of the window that stays open.   *)
OnOther_drops ==
  /\ boundary' = IF log[cursor'].kind = "deactivated" THEN None ELSE boundary
  /\ UNCHANGED <<task, handed>>

(* A deactivation keeps the timer, and an update keeps the window.         *)
OnOther == UNCHANGED <<task, boundary, handed>>

ApplyEvent ==
  /\ current /\ cursor < Len(log)
  /\ cursor' = cursor + 1
  /\ \/ log[cursor'].kind = "turned_over" /\ OnTurnedOver(log[cursor'])
     \/ log[cursor'].kind = "activated" /\ OnActivated
     \/ log[cursor'].kind \in {"deactivated", "updated"} /\ OnOther
  /\ UNCHANGED <<vars, call, exhausted, gaveUp, current, snapshot, lead, faults>>

Doubt ==
  /\ Fault /\ (current \/ snapshot # None)
  /\ current' = FALSE /\ snapshot' = None
  /\ UNCHANGED <<vars, task, call, memory, cursor, lead>>

(* fullRead: one snapshot of the subject, its open window, the sessions    *)
(* that are closed, and the head of the log.                               *)
FullRead ==
  /\ ~current /\ snapshot = None
  /\ snapshot' = [active |-> status = "active", open |-> Collecting,
                  closed |-> {s \in Session : state[s] = "closed"}, cursor |-> Len(log)]
  /\ UNCHANGED <<vars, task, call, memory, current, cursor, lead, faults>>

(* Mutant: a rebuild does not hand on the sessions that are closed.        *)
Rebuild_openOnly ==
  /\ ~current /\ snapshot # None
  /\ current' = TRUE /\ cursor' = snapshot.cursor /\ snapshot' = None
  /\ IF snapshot.open # {}
     THEN \E s \in snapshot.open : ArmOrFire(s, closesAt[s], None)
     ELSE /\ boundary' = None
          /\ IF snapshot.active THEN Start("open", None) ELSE UNCHANGED task
  /\ UNCHANGED <<vars, call, handed, exhausted, gaveUp, lead, faults>>

Rebuild ==
  /\ ~current /\ snapshot # None
  /\ current' = TRUE /\ cursor' = snapshot.cursor /\ snapshot' = None
  /\ handed' = handed \cup snapshot.closed
  /\ IF snapshot.open # {}
     THEN \E s \in snapshot.open : ArmOrFire(s, closesAt[s], None)
     ELSE /\ boundary' = None
          /\ IF snapshot.active THEN Start("open", None) ELSE UNCHANGED task
  /\ UNCHANGED <<vars, call, exhausted, gaveUp, lead, faults>>

(* The process dies and starts again with nothing.                         *)
Crash ==
  /\ Fault
  /\ task' = [k \in Task |-> Resting]
  /\ call' = [r \in Opener |-> IF call[r].answer # None THEN Free
                               ELSE [call[r] EXCEPT !.by = None]]
  /\ boundary' = None /\ handed' = {} /\ exhausted' = {} /\ gaveUp' = FALSE
  /\ current' = FALSE /\ cursor' = 0 /\ snapshot' = None
  /\ UNCHANGED <<vars, lead>>

-------------------------------------------------------------------------------
(* Calls.                                                                  *)

Slots == {r \in Opener : call[r] = Free}

Send(k) ==
  /\ task[k].item # "none" /\ \A r \in Opener : call[r].by # k
  /\ Slots # {}
  /\ call' = [call EXCEPT ![CHOOSE r \in Slots : TRUE] =
                [item |-> task[k].item, session |-> task[k].session,
                 by |-> k, answer |-> None]]
  /\ UNCHANGED <<vars, task, memory, view, lead, faults>>

Asked(r, item) == call[r].item = item /\ call[r].answer = None

Reply(r, kind, s) ==
  call' = [call EXCEPT ![r] =
    IF @.by = None THEN Free
    ELSE [@ EXCEPT !.answer = [kind |-> kind, opened |-> s,
                               at |-> IF s = None THEN 0 ELSE closesAt'[s]]]]

(* Bound: there is no row left to open, and a call that needs one fails.   *)
Spent == status = "active" /\ Unused = {}

ServeTurnOver(r) ==
  /\ Asked(r, "turnover")
  /\ \/ TurnOver(call[r].session) /\ Reply(r, "ok", successor'[call[r].session])
     \/ TurnOverReplay(call[r].session) /\ Reply(r, "ok", successor[call[r].session])
     \/ /\ state[call[r].session] = "closed" /\ successor[call[r].session] = None
        /\ call[r].session \notin captured
        /\ UNCHANGED vars /\ Reply(r, "refused", None)
     \/ /\ state[call[r].session] = "collecting" /\ Spent
        /\ UNCHANGED vars /\ Reply(r, "failed", None)

(* An open that is refused, that opens, or that loses to the index and     *)
(* answers with the window it finds.                                       *)
ServeOpen(r) ==
  /\ Asked(r, "open")
  /\ \/ OpenCheck(r) /\ UNCHANGED call
     \/ opening[r].step = "idle" /\ status # "active"
          /\ UNCHANGED vars /\ Reply(r, "refused", None)
     \/ OpenPlace(r) /\ UNCHANGED call
     \/ \E s \in Unused : OpenInsert(r) /\ state'[s] = "collecting" /\ Reply(r, "ok", s)
     \/ \E s \in Collecting :
          opening[r].step = "placed" /\ OpenAbandon(r) /\ Reply(r, "ok", s)

Serve(r) ==
  /\ ServeTurnOver(r) \/ ServeOpen(r)
  /\ UNCHANGED <<task, memory, view, lead, faults>>

FailAtApi(r) ==
  /\ call[r].item # "none" /\ call[r].answer = None /\ Fault
  /\ OpenAbandon(r) \/ (opening[r].step = "idle" /\ UNCHANGED vars)
  /\ Reply(r, "failed", None)
  /\ UNCHANGED <<task, memory, view, lead>>

Retry(k) ==
  IF task[k].tries + 1 < MaxAttempts
  THEN task' = [task EXCEPT ![k].tries = @ + 1] /\ UNCHANGED <<exhausted, gaveUp>>
  ELSE /\ task' = [task EXCEPT ![k] = Resting] /\ gaveUp' = TRUE
       /\ exhausted' = exhausted \cup {task[k].item}

Release(r) == call' = [call EXCEPT ![r] = Free]

(* The client gives a call up: its time is over, or its answer is lost.    *)
Lose(r) ==
  /\ call[r].by # None /\ Fault
  /\ IF call[r].answer = None
     THEN call' = [call EXCEPT ![r].by = None] ELSE Release(r)
  /\ Retry(call[r].by)
  /\ UNCHANGED <<vars, boundary, handed, view, lead>>

ReceiveFailed(r) ==
  /\ call[r].answer # None /\ call[r].answer.kind = "failed"
  /\ Release(r) /\ Retry(call[r].by)
  /\ UNCHANGED <<vars, boundary, handed, view, lead, faults>>

ReceiveRefused(r) ==
  /\ call[r].answer # None /\ call[r].answer.kind = "refused"
  /\ Release(r) /\ task' = [task EXCEPT ![call[r].by] = Resting]
  /\ gaveUp' = TRUE
  /\ UNCHANGED <<vars, boundary, handed, exhausted, view, lead, faults>>

(* A boundary or a first opening is answered: its window gets the timer,   *)
(* whatever timer stood there, and a closed session is handed on.          *)
ReceiveOk(r) ==
  /\ call[r].answer # None /\ call[r].answer.kind = "ok"
  /\ Release(r) /\ task' = [task EXCEPT ![call[r].by] = Resting]
  /\ exhausted' = exhausted \ {call[r].item}
  /\ IF call[r].answer.opened = None THEN UNCHANGED boundary
     ELSE Arm(call[r].answer.opened, call[r].answer.at)
  /\ handed' = IF call[r].item = "turnover" THEN handed \cup {call[r].session} ELSE handed
  /\ UNCHANGED <<vars, gaveUp, view, lead, faults>>

Receive(r) == ReceiveFailed(r) \/ ReceiveRefused(r) \/ ReceiveOk(r)

-------------------------------------------------------------------------------
(* A second scheduler turns a window over at its close.                    *)
Peer(s) ==
  /\ Fault /\ state[s] = "collecting" /\ closesAt[s] <= now
  /\ TurnOver(s)
  /\ UNCHANGED <<task, call, memory, view, lead>>

Pending(item) ==
  \/ \E k \in Task : task[k].item = item
  \/ \E r \in Opener : call[r].item = item

(* The last boundary is behind the clock: no turnover is in flight, no     *)
(* timer of a closed window is left, and a current copy, or the full read  *)
(* a rebuild will consume, has every event.  The admin's code checks none  *)
(* of this; with Races = FALSE it is assumed of whoever activates.         *)
BoundaryPast ==
  /\ ~Pending("turnover")
  /\ boundary # None => state[boundary.session] = "collecting"
  /\ current => cursor = Len(log)
  /\ snapshot # None => snapshot.cursor = Len(log)

Admin ==
  /\ \/ Activate /\ (Races \/ BoundaryPast)
     \/ status = "active" /\ Deactivate /\ (Races \/ ~Pending("open"))
  /\ UNCHANGED <<task, call, memory, view, lead, faults>>

Time ==
  /\ Tick
  /\ UNCHANGED <<task, call, memory, view, lead, faults>>

ClockNext ==
  \/ BoundaryFalls \/ ApplyEvent \/ Doubt \/ FullRead \/ Rebuild \/ Crash
  \/ \E k \in Task : Send(k)
  \/ \E r \in Opener : Serve(r) \/ FailAtApi(r) \/ Lose(r) \/ Receive(r)
  \/ \E s \in Session : Peer(s)
  \/ Admin \/ Time

ClockSpec == ClockInit /\ [][ClockNext]_cvars

ClockFairness ==
  /\ WF_cvars(BoundaryFalls) /\ WF_cvars(ApplyEvent)
  /\ WF_cvars(FullRead) /\ WF_cvars(Rebuild)
  /\ \A k \in Task : WF_cvars(Send(k))
  /\ \A r \in Opener : WF_cvars(Serve(r)) /\ WF_cvars(Receive(r))
  /\ WF_cvars(Time)

FairClockSpec == ClockSpec /\ ClockFairness

-------------------------------------------------------------------------------
(* The clock has nothing left to do until a timer falls.                   *)
Quiet ==
  /\ current /\ cursor = Len(log)
  /\ Resters = Task

(* No window is stranded: a quiet clock that has nothing to report holds a *)
(* timer that falls no later than any open window's close.                 *)
TimerPerWindow ==
  Quiet /\ ~gaveUp =>
    \A s \in Collecting : boundary # None /\ boundary.at <= closesAt[s]

(* No window is closed before its close has come on the scheduler's own    *)
(* clock, whatever timers, retries, replays and rebuilds overlap.          *)
NotBeforeItsClose ==
  [][\A s \in Session :
       state[s] = "collecting" /\ state'[s] = "closed" => closesAt[s] <= Local]_cvars

(* The clock always catches up: every window whose time has come is closed *)
(* unless a call was given up, and every close that was captured is handed *)
(* to its settlement, also when the answer was lost, another scheduler     *)
(* closed the window, or the scheduler died in between.                    *)
CaughtUp ==
  /\ captured \subseteq handed
  /\ \A s \in Collecting : closesAt[s] <= now => gaveUp

AlwaysCatchesUp == []<>CaughtUp

-------------------------------------------------------------------------------
(* The inductive invariants behind TimerPerWindow and NotBeforeItsClose.   *)
TaskState == [item : Item \cup {"none"}, session : Session \cup {None},
              tries : 0 .. MaxAttempts - 1]
CallState == [item : Item \cup {"none"}, session : Session \cup {None},
              by : Task \cup {None}, answer : Answers \cup {None}]

ClockTypeOK ==
  /\ boundary = None \/ boundary \in Timers
  /\ task \in [Task -> TaskState] /\ call \in [Opener -> CallState]
  /\ {gaveUp, current} \subseteq BOOLEAN /\ cursor \in Nat
  /\ snapshot = None \/ (snapshot \in Snapshots /\ ~current)
  /\ lead \in Lead

(* Every instant and every session the clock holds is one of the rows', and *)
(* a boundary is only ever called when it has passed.                      *)
Due(s) == s \in Session /\ state[s] # "none" /\ closesAt[s] <= Local

BoundaryTrue ==
  boundary # None => state[boundary.session] # "none" /\ boundary.at = closesAt[boundary.session]

TasksDue == \A k \in Task : task[k].item = "turnover" => Due(task[k].session)

CallsDue == \A r \in Opener : call[r].item = "turnover" => Due(call[r].session)

AnswersTrue ==
  \A r \in Opener : call[r].answer # None /\ call[r].answer.opened # None =>
    /\ state[call[r].answer.opened] # "none"
    /\ call[r].answer.at = closesAt[call[r].answer.opened]

SnapshotTrue == snapshot # None => \A s \in snapshot.open : state[s] # "none"

DueInv ==
  /\ EpochInv /\ ClockTypeOK /\ BoundaryTrue /\ TasksDue /\ CallsDue
  /\ AnswersTrue /\ SnapshotTrue

(* What the clock will still read of the log, now or after its rebuild.    *)
Unread ==
  {i \in DOMAIN log : (current /\ i > cursor) \/ (snapshot # None /\ i > snapshot.cursor)}

Opens(e) == e.kind = "activated" \/ (e.kind = "turned_over" /\ e.opened # None)

(* A session the clock, a call or something still to be read refers to.    *)
Held(s) ==
  \/ boundary # None /\ boundary.session = s
  \/ \E k \in Task : task[k].item = "turnover" /\ task[k].session = s
  \/ \E r \in Opener : call[r].item = "turnover" /\ call[r].session = s
  \/ \E r \in Opener : call[r].answer # None /\ call[r].answer.opened = s
  \/ snapshot # None /\ s \in snapshot.open
  \/ \E i \in Unread : log[i].closed = s \/ log[i].opened = s

(* They all belong to the chain of epochs since the last activation that   *)
(* found no window: its open end closes last, and it ends while inactive.  *)
EraOf(era) ==
  /\ Collecting \subseteq era
  /\ \A s \in era :
       /\ state[s] # "none" /\ successor[s] \in era \cup {None}
       /\ state[s] = "closed" /\ successor[s] = None => Collecting = {}
       /\ \A t \in Collecting : closesAt[s] <= closesAt[t]
  /\ era # {} /\ Collecting = {} => status = "inactive"

OneEra ==
  \E era \in SUBSET Session : EraOf(era) /\ \A s \in Session : Held(s) => s \in era

(* An opening runs for a call that waits, and none outlives the activity.  *)
OpeningsAsked ==
  \A r \in Opener :
    /\ opening[r].step # "idle" => Asked(r, "open")
    /\ status = "inactive" => opening[r].step = "idle"
    /\ call[r].item = "none" => call[r].answer = None
    /\ status = "inactive" /\ call[r].item = "open" /\ call[r].answer # None =>
         call[r].answer.opened = None

(* Only a boundary that found the subject inactive opens nothing.          *)
EndsTold ==
  \A r \in Opener :
    call[r].answer # None /\ call[r].answer.kind = "ok" /\ call[r].answer.opened = None =>
      /\ call[r].item = "turnover"
      /\ state[call[r].session] = "closed" /\ successor[call[r].session] = None

ReadsFit ==
  /\ current => cursor <= Len(log)
  /\ snapshot # None =>
       /\ snapshot.cursor <= Len(log)
       /\ \A s \in snapshot.open : state[s] = "collecting" \/ snapshot.cursor < Len(log)

(* While there is a window, or should be one, something will set its timer. *)
Attended ==
  Collecting # {} \/ status = "active" =>
    /\ current /\ ~gaveUp =>
         \/ boundary # None \/ Resters # Task
         \/ \E i \in Unread : Opens(log[i])
    /\ snapshot # None =>
         \/ snapshot.open # {} \/ snapshot.active
         \/ \E i \in Unread : Opens(log[i])

AttendedInv ==
  DueInv /\ OneEra /\ OpeningsAsked /\ EndsTold /\ ReadsFit /\ Attended
===============================================================================
