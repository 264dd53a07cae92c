---------------------------- MODULE EpochLifecycle ----------------------------
(***************************************************************************)
(* One subject's epochs as the API keeps them: first openings, boundaries, *)
(* the admin's edits of the subject, and the event log each of them writes *)
(* in its own transaction.                                                 *)
(*                                                                         *)
(* A boundary and an edit hold the subject's row FOR NO KEY UPDATE, so     *)
(* each is one action.  A first opening locks nothing: it reads the        *)
(* status, then the grid, then inserts, and other transactions commit in   *)
(* between; only the unique index (one collecting session per subject)     *)
(* stops it.  Opener is the set of open requests that may overlap.         *)
(***************************************************************************)
EXTENDS EpochGrid, Sequences, FiniteSets

CONSTANTS
  Session,      \* identities a session row may be given
  Opener,       \* open requests that may overlap in the API
  None,         \* SQL NULL
  Duration,     \* spacings an admin may set
  Anchor,       \* anchors an admin may name
  MaxTime,      \* bound: the last instant the clock reaches
  MaxEdits      \* bound: the number of edits the admin makes

ASSUME GridAssumption ==
  /\ Duration \subseteq Nat \ {0} /\ Duration # {}
  /\ Anchor \subseteq Int /\ MaxTime \in Nat /\ MaxEdits \in Nat

ASSUME SessionAssumption == None \notin Session

VARIABLES
  status,      \* swarm_subjects.status
  duration,    \* swarm_subjects.epoch_duration_seconds
  anchor,      \* swarm_subjects.epoch_anchor
  state,       \* per session, swarm_sessions.state ("none": no such row)
  closesAt,    \* per session, window_closes_at
  successor,   \* per session, successor_session_id
  captured,    \* sessions whose close recorded a judge mode and duration
  opening,     \* per open request, how far it has come
  log,         \* swarm_stream_events in sequence order
  answered,    \* history: the <<closed, opened>> pairs turnover has answered
  now          \* the database clock

subject  == <<status, duration, anchor>>
sessions == <<state, closesAt, successor, captured>>
vars     == <<subject, sessions, opening, log, answered, now>>

EventType ==
  [kind : {"turned_over", "activated", "deactivated", "updated"},
   closed : Session \cup {None}, opened : Session \cup {None}]

Idle == [step |-> "idle", closes |-> 0]

TypeOK ==
  /\ status \in {"active", "inactive"}
  /\ duration \in Duration /\ anchor \in Int
  /\ state \in [Session -> {"none", "collecting", "closed"}]
  /\ closesAt \in [Session -> Int]
  /\ successor \in [Session -> Session \cup {None}]
  /\ captured \subseteq Session
  /\ opening \in [Opener -> [step : {"idle", "checked", "placed"}, closes : Int]]
  /\ log \in Seq(EventType)
  /\ answered \subseteq Session \X (Session \cup {None})
  /\ now \in Int

Collecting == {s \in Session : state[s] = "collecting"}
Unused     == {s \in Session : state[s] = "none"}
Edits      == Cardinality({i \in DOMAIN log : log[i].kind # "turned_over"})

-------------------------------------------------------------------------------
(* A seeded subject, with or without a session from before capture.        *)
Init ==
  /\ status \in {"active", "inactive"}
  /\ duration \in Duration /\ anchor = 0
  /\ \E old \in {{}} \cup {{s} : s \in Session} :
       state = [s \in Session |-> IF s \in old THEN "closed" ELSE "none"]
  /\ closesAt = [s \in Session |-> 0]
  /\ successor = [s \in Session |-> None]
  /\ captured = {}
  /\ opening = [c \in Opener |-> Idle]
  /\ log = <<>> /\ answered = {} /\ now = 0

Event(kind, closed, opened) == [kind |-> kind, closed |-> closed, opened |-> opened]

(* Mutant: a boundary that opens nothing is not announced.                *)
Announce_quietEnd(kind, closed, opened) ==
  log' = IF kind = "turned_over" /\ opened = None
         THEN log ELSE Append(log, Event(kind, closed, opened))

(* appendStreamEvent, in the transaction of the change it announces.       *)
Announce(kind, closed, opened) == log' = Append(log, Event(kind, closed, opened))

-------------------------------------------------------------------------------
(* openEpoch, statement by statement: the status ...                       *)
OpenCheck(c) ==
  /\ opening[c].step = "idle" /\ status = "active"
  /\ opening' = [opening EXCEPT ![c] = [step |-> "checked", closes |-> 0]]
  /\ UNCHANGED <<subject, sessions, log, answered, now>>

(* ... the close, from one reading of the clock and of the grid ...        *)
OpenPlace(c) ==
  /\ opening[c].step = "checked"
  /\ opening' = [opening EXCEPT ![c] =
                   [step |-> "placed", closes |-> FirstClose(now, anchor, duration)]]
  /\ UNCHANGED <<subject, sessions, log, answered, now>>

(* Mutant: the index that allows one collecting session is gone.           *)
OpenInsert_unindexed(c) ==
  /\ opening[c].step = "placed"
  /\ \E s \in Unused :
       /\ state' = [state EXCEPT ![s] = "collecting"]
       /\ closesAt' = [closesAt EXCEPT ![s] = opening[c].closes]
  /\ opening' = [opening EXCEPT ![c] = Idle]
  /\ UNCHANGED <<subject, successor, captured, log, answered, now>>

(* ... and the insert, which writes no event.                              *)
OpenInsert(c) ==
  /\ opening[c].step = "placed" /\ Collecting = {}
  /\ \E s \in Unused :
       /\ state' = [state EXCEPT ![s] = "collecting"]
       /\ closesAt' = [closesAt EXCEPT ![s] = opening[c].closes]
  /\ opening' = [opening EXCEPT ![c] = Idle]
  /\ UNCHANGED <<subject, successor, captured, log, answered, now>>

(* The unique index refuses the insert and the request answers with the    *)
(* session that is open, or it dies; either way it has written nothing.    *)
OpenAbandon(c) ==
  /\ opening[c].step # "idle"
  /\ opening' = [opening EXCEPT ![c] = Idle]
  /\ UNCHANGED <<subject, sessions, log, answered, now>>

-------------------------------------------------------------------------------
(* turnOverEpoch for a session that is collecting, early or late.          *)
TurnOverInto(s, t) ==
  /\ state' = [state EXCEPT ![s] = "closed", ![t] = "collecting"]
  /\ closesAt' = [closesAt EXCEPT ![t] =
                    TurnoverClose(now, closesAt[s], anchor, duration)]
  /\ successor' = [successor EXCEPT ![s] = t]

TurnOverLast(s) ==
  /\ state' = [state EXCEPT ![s] = "closed"]
  /\ UNCHANGED <<closesAt, successor>>

Closed(s, opened) ==
  /\ captured' = captured \cup {s}
  /\ answered' = answered \cup {<<s, opened>>}
  /\ Announce("turned_over", s, opened)
  /\ UNCHANGED <<subject, opening, now>>

(* Mutant: the session named by the caller is not looked at, and whatever  *)
(* is open is closed in its name.                                          *)
TurnOver_unbound(s) ==
  /\ state[s] # "none"
  /\ \E n \in Collecting :
       IF status = "active"
       THEN \E t \in Unused : TurnOverInto(n, t) /\ Closed(s, t)
       ELSE TurnOverLast(n) /\ Closed(s, None)

(* Mutant: the successor is opened but not linked to its predecessor.      *)
TurnOver_unlinked(s) ==
  /\ state[s] = "collecting"
  /\ IF status = "active"
     THEN \E t \in Unused :
            /\ state' = [state EXCEPT ![s] = "closed", ![t] = "collecting"]
            /\ closesAt' = [closesAt EXCEPT ![t] =
                              TurnoverClose(now, closesAt[s], anchor, duration)]
            /\ UNCHANGED successor
            /\ Closed(s, t)
     ELSE TurnOverLast(s) /\ Closed(s, None)

(* Mutant: the state of the named session is not looked at.                *)
TurnOver_again(s) ==
  /\ state[s] # "none"
  /\ IF status = "active"
     THEN \E t \in Unused : TurnOverInto(s, t) /\ Closed(s, t)
     ELSE TurnOverLast(s) /\ Closed(s, None)

TurnOver(s) ==
  /\ state[s] = "collecting"
  /\ IF status = "active"
     THEN \E t \in Unused : TurnOverInto(s, t) /\ Closed(s, t)
     ELSE TurnOverLast(s) /\ Closed(s, None)

(* The transition has happened: the original result, and no second event.  *)
(* A session closed with nothing captured and no successor is refused.     *)
TurnOverReplay(s) ==
  /\ state[s] = "closed"
  /\ successor[s] # None \/ s \in captured
  /\ answered' = answered \cup {<<s, successor[s]>>}
  /\ UNCHANGED <<subject, sessions, opening, log, now>>

-------------------------------------------------------------------------------
(* The admin's edits.  Each presents the version it read; a stale one is   *)
(* refused and changes nothing.                                            *)
MayEdit == Edits < MaxEdits

Deactivate ==
  /\ MayEdit
  /\ status' = "inactive"
  /\ Announce("deactivated", None, None)
  /\ UNCHANGED <<duration, anchor, sessions, opening, answered, now>>

Activate ==
  /\ MayEdit /\ status = "inactive"
  /\ status' = "active"
  /\ Announce("activated", None, None)
  /\ UNCHANGED <<duration, anchor, sessions, opening, answered, now>>

(* A new duration re-anchors the grid at the open window's close.          *)
ChangeDuration(d) ==
  /\ d # duration /\ duration' = d
  /\ anchor' = IF Collecting = {} THEN anchor
               ELSE closesAt[CHOOSE s \in Session : s \in Collecting]

(* An anchor the operator names wins, with a new duration or without.      *)
ChangeAnchor(a) == anchor' = a /\ duration' \in Duration

ChangeOther == UNCHANGED <<duration, anchor>>

Update ==
  /\ MayEdit
  /\ \/ \E d \in Duration : ChangeDuration(d)
     \/ \E a \in Anchor : ChangeAnchor(a)
     \/ ChangeOther
  /\ Announce("updated", None, None)
  /\ UNCHANGED <<status, sessions, opening, answered, now>>

Tick ==
  /\ now < MaxTime /\ now' = now + 1
  /\ UNCHANGED <<subject, sessions, opening, log, answered>>

Next ==
  \/ \E c \in Opener :
       OpenCheck(c) \/ OpenPlace(c) \/ OpenInsert(c) \/ OpenAbandon(c)
  \/ \E s \in Session : TurnOver(s) \/ TurnOverReplay(s)
  \/ Deactivate \/ Activate \/ Update
  \/ Tick

Spec == Init /\ [][Next]_vars

-------------------------------------------------------------------------------
(* A subject never has two open windows, so a boundary never trips over    *)
(* the index either: the opening that races it can only lose.              *)
OneCollecting == \A s, t \in Collecting : s = t

(* A closed session has one successor for ever, its own and nobody else's, *)
(* and the successor's window ends later than its predecessor's.           *)
ChainForward ==
  \A s, t \in Session :
    successor[s] = t =>
      /\ state[s] = "closed" /\ state[t] # "none"
      /\ closesAt[t] > closesAt[s]
      /\ \A r \in Session : successor[r] = t => r = s

(* The subject's windows are one chain with one open end at most: racing   *)
(* openings, retried boundaries and edits never fork it, never leave two   *)
(* windows open and never make it run backwards.                           *)
OneChain == OneCollecting /\ ChainForward

(* Every answer a boundary gave for a session, first or replayed, names    *)
(* the same successor, and it is the one on the row: a retry never closes  *)
(* N+1 and never reports another one.                                      *)
AnswersAgree ==
  \A p \in answered : state[p[1]] = "closed" /\ p[2] = successor[p[1]]

(* The log tells each boundary once, with the successor the rows hold: no  *)
(* turnover that did not happen, none left out, none twice.                *)
LogMatchesRows ==
  /\ \A i \in DOMAIN log :
       IF log[i].kind = "turned_over"
       THEN log[i].closed \in captured /\ log[i].opened = successor[log[i].closed]
       ELSE log[i].closed = None
  /\ \A s \in captured : \E i \in DOMAIN log : log[i].closed = s
  /\ \A i, k \in DOMAIN log :
       log[i].closed = log[k].closed /\ log[i].closed # None => i = k

(* The inductive invariant behind the four above: a row not yet used has   *)
(* left no trace, and only a captured close has a successor.               *)
RowsAgree ==
  \A s \in Session :
    /\ state[s] = "none" => s \notin captured /\ \A r \in Session : successor[r] # s
    /\ s \in captured => state[s] = "closed"
    /\ successor[s] # None => s \in captured

EpochInv ==
  /\ TypeOK
  /\ OneCollecting
  /\ RowsAgree
  /\ ChainForward
  /\ AnswersAgree
  /\ LogMatchesRows

(* What a subscriber that applied the whole log believes is so: the epoch  *)
(* the last boundary opened is still open, and the subject's status is the *)
(* one the last activation or deactivation gave it.                        *)
Boundaries == {i \in DOMAIN log : log[i].kind = "turned_over"}
Switches   == {i \in DOMAIN log : log[i].kind \in {"activated", "deactivated"}}

LogTellsNow ==
  /\ \A i \in Boundaries : (\A k \in Boundaries : k <= i) =>
       (log[i].opened # None => state[log[i].opened] = "collecting")
  /\ \A i \in Switches : (\A k \in Switches : k <= i) =>
       (log[i].kind = "activated" <=> status = "active")

(* An instant advertised to participants stays what it was, and a closed   *)
(* window is never reopened, whatever the admin does to the grid.          *)
WindowsFixed ==
  [][\A s \in Session :
       /\ state[s] # "none" => closesAt'[s] = closesAt[s] /\ state'[s] # "none"
       /\ state[s] = "closed" => state'[s] = "closed" /\ successor'[s] = successor[s]]_vars

(* Rows, log and answers amount to one chain of epochs: a participant that *)
(* knows the windows, a subscriber of the log and a caller that retries    *)
(* all see the steps of EpochChain, whatever overlaps and however often an *)
(* admin edits the subject.                                                *)
closesBar  == [s \in Session \ Unused |-> closesAt[s]]
currentBar == IF Collecting = {} THEN None ELSE CHOOSE s \in Session : s \in Collecting
toldBar    == {<<log[i].closed, log[i].opened>> : i \in Boundaries}

Chain == INSTANCE EpochChain WITH
           closes <- closesBar, current <- currentBar, told <- toldBar

ImplementsEpochChain == Chain!Spec

(* While only durations change, the window a boundary opened closes on the *)
(* subject's grid, before the change and after it.                         *)
SuccessorOnGrid ==
  \A s, t \in Session :
    successor[s] = t /\ state[t] = "collecting" =>
      OnGrid(closesAt[t], anchor, duration)
===============================================================================
