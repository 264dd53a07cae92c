------------------------------ MODULE TakeIntake ------------------------------
(***************************************************************************)
(* One epoch's takes: what submitRecommendation accepts while the window   *)
(* is open, and the boundary that closes it and records who is absent.     *)
(*                                                                         *)
(* A submission is a chain of statements.  The retry lookup and the cheap  *)
(* checks read without a lock; the insert runs in a transaction that holds *)
(* the session's row FOR SHARE and a lock on (session, member).  Between   *)
(* any two statements other requests, the boundary and an admin may        *)
(* commit, or the process may die.                                         *)
(***************************************************************************)
EXTENDS Naturals, Sequences, FiniteSets

CONSTANTS
  Member,     \* members of the swarm
  Nonce,      \* nonces a member may sign
  Bytes,      \* signed contents: equal bytes are an equal signature
  Request,    \* submissions that reach the API, each one HTTP request
  Cap,        \* SWARM_TAKE_REVISION_CAP
  Close,      \* the session's window_closes_at
  MaxTime     \* bound: the last instant the clock reaches

ASSUME CapAssumption == Cap \in Nat \ {0}
ASSUME TimeAssumption == Close \in Nat /\ MaxTime \in Nat /\ Close <= MaxTime

VARIABLES
  state,        \* swarm_sessions.state
  seat,         \* swarm_session_members.status, "none" without a seat
  takes,        \* per member, its swarm_recommendations by revision
  final,        \* per member, the revisions flagged final
  absent,       \* members with an absence event
  lost,         \* the absence events were lost with their savepoint
  step,         \* per request, how far it has come, or its answer
  sent,         \* per request, the take it carries
  drawn,        \* per request, the revision and instant its INSERT read
  now           \* the database clock

session  == <<state, seat, absent, lost>>
rows     == <<takes, final>>
requests == <<step, sent, drawn>>
vars     == <<session, rows, requests, now>>

Take    == [member : Member, nonce : Nonce, bytes : Bytes]
Answers == {"accepted", "recorded", "replayed", "late", "capped", "unseated", "again"}
Running == {"new", "open", "seated", "checked", "shared", "locked", "numbered"}

Recorded(m, n) == {i \in DOMAIN takes[m] : takes[m][i].nonce = n}
SameBytes(t) == \E i \in Recorded(t.member, t.nonce) : takes[t.member][i].bytes = t.bytes

-------------------------------------------------------------------------------
(* An epoch just opened: its roster is seated and nothing is on file.      *)
Init ==
  /\ state = "collecting"
  /\ seat \in [Member -> {"none", "expected"}]
  /\ takes = [m \in Member |-> <<>>] /\ final = [m \in Member |-> {}]
  /\ absent = {} /\ lost = FALSE
  /\ step = [r \in Request |-> "idle"]
  /\ sent \in [Request -> Take]
  /\ drawn = [r \in Request |-> [revision |-> 0, at |-> 0]]
  /\ now = 0

Goes(r, s) == step' = [step EXCEPT ![r] = s]

(* Mutant: a spent nonce is a retry whatever was signed under it.          *)
AnswerFromRecord_anyBytes(r) ==
  Goes(r, "recorded")

(* A take on file under this nonce: the same bytes are a retry, answered   *)
(* with the record; other bytes are a replay of a spent nonce.             *)
AnswerFromRecord(r) ==
  Goes(r, IF SameBytes(sent[r]) THEN "recorded" ELSE "replayed")

(* The retry lookup, ahead of every other check.                           *)
LookUp(r) ==
  /\ step[r] = "idle"
  /\ IF Recorded(sent[r].member, sent[r].nonce) # {}
     THEN AnswerFromRecord(r)
     ELSE Goes(r, "new")
  /\ UNCHANGED <<session, rows, sent, drawn, now>>

(* Before the verify, three reads in this order: the window ...            *)
CheckWindow(r) ==
  /\ step[r] = "new"
  /\ Goes(r, IF state # "collecting" \/ now >= Close THEN "late" ELSE "open")
  /\ UNCHANGED <<session, rows, sent, drawn, now>>

(* Mutant: anybody may file, with a seat or without.                       *)
CheckSeat_anybody(r) ==
  /\ step[r] = "open" /\ Goes(r, "seated")
  /\ UNCHANGED <<session, rows, sent, drawn, now>>

(* ... the roster, which nothing reads again ...                           *)
CheckSeat(r) ==
  /\ step[r] = "open"
  /\ Goes(r, IF seat[sent[r].member] # "expected" THEN "unseated" ELSE "seated")
  /\ UNCHANGED <<session, rows, sent, drawn, now>>

(* ... and the count.                                                      *)
CheckCap(r) ==
  /\ step[r] = "seated"
  /\ Goes(r, IF Len(takes[sent[r].member]) >= Cap THEN "capped" ELSE "checked")
  /\ UNCHANGED <<session, rows, sent, drawn, now>>

-------------------------------------------------------------------------------
(* The inserting transaction.  The session's row is held FOR SHARE ...     *)
LockSession(r) ==
  /\ step[r] = "checked" /\ Goes(r, "shared")
  /\ UNCHANGED <<session, rows, sent, drawn, now>>

(* Mutant: the lock outlives the transaction that took it.                 *)
HoldsTakes_kept(m) ==
  {r \in Request : step[r] \in {"locked", "numbered", "accepted"} /\ sent[r].member = m}

HoldsTakes(m) == {r \in Request : step[r] \in {"locked", "numbered"} /\ sent[r].member = m}

(* Mutant: a member's takes are not serialised.                            *)
LockTakes_free(r) ==
  /\ step[r] = "shared" /\ Goes(r, "locked")
  /\ UNCHANGED <<session, rows, sent, drawn, now>>

(* ... then the lock on this member's takes ...                            *)
LockTakes(r) ==
  /\ step[r] = "shared" /\ HoldsTakes(sent[r].member) = {}
  /\ Goes(r, "locked")
  /\ UNCHANGED <<session, rows, sent, drawn, now>>

(* Mutant: the conjunct on the state is dropped.                           *)
Acceptable_byInstant(m) == now < Close /\ Len(takes[m]) < Cap

Acceptable(m) == state = "collecting" /\ now < Close /\ Len(takes[m]) < Cap

(* ... then the INSERT reads the window, the count and the newest revision *)
(* and one instant; when it selects no row, a count says which refusal.    *)
NumberTake(r) ==
  LET m == sent[r].member
  IN /\ step[r] = "locked"
     /\ IF Acceptable(m)
        THEN /\ drawn' = [drawn EXCEPT ![r] = [revision |-> Len(takes[m]) + 1, at |-> now]]
             /\ Goes(r, "numbered")
        ELSE /\ Goes(r, IF Len(takes[m]) >= Cap THEN "capped" ELSE "late")
             /\ UNCHANGED drawn
     /\ UNCHANGED <<session, rows, sent, now>>

(* Mutant: the trigger that moves the final flag is missing.               *)
MoveFinal_untouched(m, i) == UNCHANGED final

(* The BEFORE INSERT trigger: the newest revision becomes the final one.   *)
MoveFinal(m, i) == final' = [final EXCEPT ![m] = {i}]

(* ... and writes the row, unless a unique constraint refuses it.          *)
WriteTake(r) ==
  LET m == sent[r].member
      row == [nonce |-> sent[r].nonce, bytes |-> sent[r].bytes, at |-> drawn[r].at]
  IN /\ step[r] = "numbered"
     /\ IF Recorded(m, sent[r].nonce) # {}
        THEN AnswerFromRecord(r) /\ UNCHANGED rows
        ELSE IF drawn[r].revision \in DOMAIN takes[m]
        THEN Goes(r, "again") /\ UNCHANGED rows
        ELSE /\ takes' = [takes EXCEPT ![m] = Append(@, row)]
             /\ MoveFinal(m, drawn[r].revision)
             /\ Goes(r, "accepted")
     /\ UNCHANGED <<session, sent, drawn, now>>

(* The process dies, and its transaction with it.                          *)
Die(r) ==
  /\ step[r] \in Running /\ Goes(r, "dead")
  /\ UNCHANGED <<session, rows, sent, drawn, now>>

-------------------------------------------------------------------------------
SharesSession == {r \in Request : step[r] \in {"shared", "locked", "numbered"}}

OnTime(m) == \E i \in DOMAIN takes[m] : takes[m][i].at <= Close

(* recordAbsencesTx, in a savepoint: a failure loses the events, not the   *)
(* close.                                                                  *)
RecordAbsences ==
  \/ /\ absent' = {m \in Member : seat[m] = "expected" /\ ~OnTime(m)}
     /\ UNCHANGED lost
  \/ absent' = {} /\ lost' = TRUE

(* Mutant: the boundary does not wait for a take in flight.                *)
TurnOver_unlocked ==
  /\ state = "collecting" /\ state' = "window_closed"
  /\ RecordAbsences
  /\ UNCHANGED <<seat, rows, requests, now>>

(* The boundary, early or late by the database clock: the UPDATE of the    *)
(* row waits for every take that holds it.                                 *)
TurnOver ==
  /\ state = "collecting" /\ SharesSession = {}
  /\ state' = "window_closed"
  /\ RecordAbsences
  /\ UNCHANGED <<seat, rows, requests, now>>

(* rosterExcuseAdmin with force, which also waits for the row.             *)
Excuse(m) ==
  /\ SharesSession = {} /\ seat[m] = "expected"
  /\ seat' = [seat EXCEPT ![m] = "excused"]
  /\ UNCHANGED <<state, absent, lost, rows, requests, now>>

Tick ==
  /\ now < MaxTime /\ now' = now + 1
  /\ UNCHANGED <<session, rows, requests>>

Submit(r) ==
  \/ LookUp(r) \/ CheckWindow(r) \/ CheckSeat(r) \/ CheckCap(r)
  \/ LockSession(r) \/ LockTakes(r) \/ NumberTake(r) \/ WriteTake(r)

Next ==
  \/ \E r \in Request : Submit(r) \/ Die(r)
  \/ TurnOver
  \/ \E m \in Member : Excuse(m)
  \/ Tick

Spec == Init /\ [][Next]_vars

-------------------------------------------------------------------------------
(* At every instant a member that filed has one final take, the newest     *)
(* one, and revisions are in the order the clock accepted them: amendments *)
(* from overlapping containers never leave two final takes, or none.       *)
NewestIsFinal ==
  \A m \in Member :
    /\ final[m] = IF takes[m] = <<>> THEN {} ELSE {Len(takes[m])}
    /\ \A i, k \in DOMAIN takes[m] : i < k => takes[m][i].at <= takes[m][k].at

(* Racing amendments are all accepted, in some order: the (session,        *)
(* member, revision) constraint never refuses one.                         *)
NoAmendmentLost == \A r \in Request : step[r] # "again"

(* Two submissions that each saw room under the cap cannot exceed it.      *)
CapHolds == \A m \in Member : Len(takes[m]) <= Cap

(* Accepted takes and recorded absences agree about who was on time, for   *)
(* every interleaving of the last takes with the boundary.                 *)
TakeOrAbsent ==
  /\ \A m \in absent : takes[m] = <<>>
  /\ state = "window_closed" /\ ~lost =>
       \A m \in Member : seat[m] = "expected" => m \in absent \/ takes[m] # <<>>

(* A submission answered with success has exactly its signed bytes on      *)
(* file, once, and for good.                                               *)
SuccessIsOnFile ==
  /\ \A r \in Request : step[r] \in {"accepted", "recorded"} => SameBytes(sent[r])
  /\ \A m \in Member, n \in Nonce : Cardinality(Recorded(m, n)) <= 1

(* The set aggregation reads is settled by the close: no take is filed,    *)
(* and no flag moved, once the epoch has left collecting.                  *)
ClosedSetFixed == [][state = "window_closed" => UNCHANGED rows]_vars

(* Nobody waits for ever.  Requests and the boundary only move forward, so *)
(* it is enough that one of them can, in every state where a request is    *)
(* unanswered or the window is open: no circle of the two locks, no lock   *)
(* left behind, and no failing absence insert, holds them up.              *)
NobodyStuck ==
  state = "collecting" \/ (\E r \in Request : step[r] \in Running)
    => ENABLED (TurnOver \/ \E r \in Request : Submit(r))

(* The statements and locks amount to one answer at one instant: whatever  *)
(* overlaps, each request is admitted on its roster seat and answered as   *)
(* AtomicIntake allows, at the statement that decides it.                  *)
Verdict(s) ==
  IF s \in {"idle", "new", "open"} THEN "pending"
  ELSE IF s \in {"seated", "checked", "shared", "locked", "numbered"} THEN "admitted"
  ELSE s

verdictBar == [r \in Request |-> Verdict(step[r])]

Atomic == INSTANCE AtomicIntake WITH
            window <- state, file <- takes, verdict <- verdictBar

ImplementsAtomicIntake == Atomic!Spec

(* The inductive invariant behind the safety properties: what the locks    *)
(* protect.  One request at a time is at a member's takes; what a numbered *)
(* request has read is still so when it writes, and it holds the window    *)
(* open; no take is later than the close or the clock.                     *)
IntakeTypeOK ==
  /\ state \in {"collecting", "window_closed"}
  /\ seat \in [Member -> {"none", "expected", "excused"}]
  /\ takes \in [Member -> Seq([nonce : Nonce, bytes : Bytes, at : Nat])]
  /\ final \in [Member -> SUBSET Nat]
  /\ absent \subseteq Member /\ lost \in BOOLEAN
  /\ step \in [Request -> Running \cup Answers \cup {"idle", "dead"}]
  /\ sent \in [Request -> Take]
  /\ drawn \in [Request -> [revision : Nat, at : Nat]]
  /\ now \in Nat

OneAtTheTakes ==
  \A r, q \in Request :
    /\ {step[r], step[q]} \subseteq {"locked", "numbered"}
    /\ sent[r].member = sent[q].member
    => r = q

NumbersHold ==
  \A r \in Request : step[r] = "numbered" =>
    LET m == sent[r].member
    IN /\ state = "collecting" /\ Len(takes[m]) < Cap
       /\ drawn[r].revision = Len(takes[m]) + 1
       /\ drawn[r].at <= now /\ drawn[r].at < Close
       /\ \A i \in DOMAIN takes[m] : takes[m][i].at <= drawn[r].at

TakesTimed ==
  \A m \in Member : \A i \in DOMAIN takes[m] :
    takes[m][i].at <= now /\ takes[m][i].at < Close

NoncesOnce ==
  \A m \in Member : \A i, k \in DOMAIN takes[m] :
    takes[m][i].nonce = takes[m][k].nonce => i = k

AnsweredOnFile ==
  \A r \in Request : step[r] \in {"accepted", "recorded"} => SameBytes(sent[r])

AbsencesAfter == state = "collecting" => absent = {}

IntakeInv ==
  /\ IntakeTypeOK /\ OneAtTheTakes /\ NumbersHold /\ TakesTimed /\ NoncesOnce
  /\ AnsweredOnFile /\ AbsencesAfter
  /\ NewestIsFinal /\ NoAmendmentLost /\ CapHolds /\ TakeOrAbsent
===============================================================================
