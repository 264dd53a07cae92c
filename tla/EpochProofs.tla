------------------------------ MODULE EpochProofs ------------------------------
(***************************************************************************)
(* What holds of a subject's epochs for any number of rows, any number of  *)
(* overlapping opens, every duration and every anchor; first what the grid *)
(* arithmetic gives, for every present, past or future.                    *)
(***************************************************************************)
EXTENDS EpochLifecycle, TLAPS

(* Integer division by a positive number, in the one form used below.      *)
LEMMA DivBounds ==
  ASSUME NEW x \in Int, NEW d \in Nat \ {0}
  PROVE  /\ x \div d \in Int
         /\ (x \div d) * d <= x
         /\ x < (x \div d) * d + d
  OBVIOUS

LEMMA TimesMonotone ==
  ASSUME NEW j \in Int, NEW k \in Int, NEW d \in Nat \ {0}, j <= k
  PROVE  j * d <= k * d
  OBVIOUS

(* A grid instant is the anchor plus a whole number of durations.          *)
LEMMA OnGridMultiple ==
  ASSUME NEW a \in Int, NEW d \in Nat \ {0}
  PROVE  /\ \A k \in Int : OnGrid(a + k * d, a, d)
         /\ \A t \in Int : OnGrid(t, a, d) => \E k \in Int : t = a + k * d
<1>1. \A k \in Int : OnGrid(a + k * d, a, d)
  BY DEF OnGrid
<1>2. ASSUME NEW t \in Int, OnGrid(t, a, d)
      PROVE  \E k \in Int : t = a + k * d
  <2>1. t - a = ((t - a) \div d) * d + ((t - a) % d)
    OBVIOUS
  <2>2. (t - a) % d = 0
    BY <1>2 DEF OnGrid
  <2>3. (t - a) \div d \in Int
    BY DivBounds
  <2> DEFINE k == (t - a) \div d
  <2>4. k \in Int /\ t - a = k * d
    BY <2>1, <2>2, <2>3
  <2> HIDE DEF k
  <2>5. k * d \in Int
    BY <2>4
  <2>6. t = a + k * d
    BY <2>4, <2>5
  <2> QED
    BY <2>4, <2>6
<1> QED
  BY <1>1, <1>2

(* SlotAfter is the least grid instant strictly after t, and no more than  *)
(* one duration after it.                                                  *)
THEOREM SlotAfterLeast ==
  ASSUME NEW t \in Int, NEW a \in Int, NEW d \in Nat \ {0}
  PROVE  /\ SlotAfter(t, a, d) \in Int
         /\ OnGrid(SlotAfter(t, a, d), a, d)
         /\ t < SlotAfter(t, a, d) /\ SlotAfter(t, a, d) <= t + d
         /\ \A y \in Int : OnGrid(y, a, d) /\ y > t => SlotAfter(t, a, d) <= y
<1> DEFINE q == (t - a) \div d
<1>1. q \in Int /\ q * d <= t - a /\ t - a < q * d + d
  BY DivBounds
<1>2. SlotAfter(t, a, d) = a + (q + 1) * d
  BY DEF SlotAfter
<1> HIDE DEF q
<1>3. q * d \in Int /\ (q + 1) * d = q * d + d
  BY <1>1
<1>4. OnGrid(a + (q + 1) * d, a, d)
  <2>1. \A k \in Int : OnGrid(a + k * d, a, d)
    BY OnGridMultiple
  <2>2. q + 1 \in Int
    BY <1>1
  <2> QED
    BY <2>1, <2>2
<1>5. ASSUME NEW y \in Int, OnGrid(y, a, d), y > t
      PROVE  a + (q + 1) * d <= y
  <2>1. PICK k \in Int : y = a + k * d
    BY <1>5, OnGridMultiple
  <2>2. k * d \in Int /\ k * d > q * d
    BY <1>1, <1>3, <1>5, <2>1
  <2>3. ~(k <= q)
    BY <1>1, <1>3, <2>2, TimesMonotone
  <2>4. q + 1 <= k
    BY <1>1, <2>3
  <2>5. (q + 1) * d <= k * d
    BY <1>1, <2>4, TimesMonotone
  <2> QED
    BY <1>3, <2>1, <2>2, <2>5
<1> QED
  BY <1>1, <1>2, <1>3, <1>4, <1>5

(* The close of N+1 is the least grid instant after both N's close and the *)
(* present: never in the past, never a slot too late.                      *)
THEOREM TurnoverCloseLeast ==
  ASSUME NEW p \in Int, NEW n \in Int, NEW a \in Int, NEW d \in Nat \ {0}
  PROVE  /\ TurnoverClose(p, n, a, d) \in Int
         /\ OnGrid(TurnoverClose(p, n, a, d), a, d)
         /\ TurnoverClose(p, n, a, d) > n
         /\ TurnoverClose(p, n, a, d) > p
         /\ \A y \in Int : OnGrid(y, a, d) /\ y > n /\ y > p
                             => TurnoverClose(p, n, a, d) <= y
<1>1. CASE SlotAfter(n, a, d) <= p
  <2>1. TurnoverClose(p, n, a, d) = SlotAfter(p, a, d)
    BY <1>1 DEF TurnoverClose
  <2>2. n < SlotAfter(n, a, d) /\ SlotAfter(n, a, d) \in Int
    BY SlotAfterLeast
  <2>3. /\ SlotAfter(p, a, d) \in Int /\ p < SlotAfter(p, a, d)
        /\ OnGrid(SlotAfter(p, a, d), a, d)
        /\ \A y \in Int : OnGrid(y, a, d) /\ y > p => SlotAfter(p, a, d) <= y
    BY SlotAfterLeast
  <2> QED
    BY <1>1, <2>1, <2>2, <2>3
<1>2. CASE ~(SlotAfter(n, a, d) <= p)
  <2>1. TurnoverClose(p, n, a, d) = SlotAfter(n, a, d)
    BY <1>2 DEF TurnoverClose
  <2>2. /\ SlotAfter(n, a, d) \in Int /\ n < SlotAfter(n, a, d)
        /\ OnGrid(SlotAfter(n, a, d), a, d)
        /\ \A y \in Int : OnGrid(y, a, d) /\ y > n => SlotAfter(n, a, d) <= y
    BY SlotAfterLeast
  <2> QED
    BY <1>2, <2>1, <2>2
<1> QED
  BY <1>1, <1>2

(* On an unchanged grid, turned over before its next slot has passed, N+1  *)
(* lasts exactly one duration from N's close.                              *)
THEOREM TurnoverCloseOnTime ==
  ASSUME NEW p \in Int, NEW n \in Int, NEW a \in Int, NEW d \in Nat \ {0},
         OnGrid(n, a, d), p < n + d
  PROVE  TurnoverClose(p, n, a, d) = n + d
<1>1. PICK k \in Int : n = a + k * d
  BY OnGridMultiple
<1>2. k * d \in Int /\ n + d = a + (k + 1) * d
  BY <1>1
<1>3. OnGrid(n + d, a, d)
  <2>1. \A i \in Int : OnGrid(a + i * d, a, d)
    BY OnGridMultiple
  <2>2. k + 1 \in Int
    OBVIOUS
  <2> QED
    BY <1>2, <2>1, <2>2
<1>4. SlotAfter(n, a, d) <= n + d /\ SlotAfter(n, a, d) > n
      /\ SlotAfter(n, a, d) \in Int /\ OnGrid(SlotAfter(n, a, d), a, d)
  BY SlotAfterLeast
<1>5. PICK j \in Int : SlotAfter(n, a, d) = a + j * d
  BY <1>4, OnGridMultiple
<1>6. j * d \in Int /\ j * d > k * d
  BY <1>1, <1>2, <1>4, <1>5
<1>7. k + 1 <= j
  BY <1>2, <1>6, TimesMonotone
<1>8. (k + 1) * d <= j * d
  BY <1>7, TimesMonotone
<1>9. SlotAfter(n, a, d) = n + d
  BY <1>2, <1>4, <1>5, <1>6, <1>8
<1> QED
  BY <1>9 DEF TurnoverClose

(* A first window lasts between half a duration and one and a half.        *)
THEOREM FirstCloseBounds ==
  ASSUME NEW p \in Int, NEW a \in Int, NEW d \in Nat \ {0}
  PROVE  /\ FirstClose(p, a, d) \in Int
         /\ OnGrid(FirstClose(p, a, d), a, d)
         /\ 2 * (FirstClose(p, a, d) - p) >= d
         /\ 2 * (FirstClose(p, a, d) - p) < 3 * d
<1> DEFINE x == 2 * (a - p) - d
           q == x \div (2 * d)
<1>1. q \in Int /\ q * (2 * d) <= x /\ x < q * (2 * d) + 2 * d
  <2>1. x \in Int /\ 2 * d \in Nat \ {0}
    OBVIOUS
  <2> HIDE DEF x
  <2> QED
    BY <2>1, DivBounds
<1>2. FirstClose(p, a, d) = a - q * d
  BY DEF FirstClose
<1> HIDE DEF q
<1>3. q * d \in Int /\ q * (2 * d) = 2 * (q * d) /\ (-q) * d = -(q * d)
  BY <1>1
<1>4. OnGrid(a + (-q) * d, a, d)
  <2>1. \A k \in Int : OnGrid(a + k * d, a, d)
    BY OnGridMultiple
  <2>2. -q \in Int
    BY <1>1
  <2> QED
    BY <2>1, <2>2
<1>5. a + (-q) * d = a - q * d
  BY <1>3
<1> QED
  BY <1>1, <1>2, <1>3, <1>4, <1>5

-------------------------------------------------------------------------------

LEMMA InitEpoch == Init => EpochInv
BY GridAssumption, SessionAssumption
DEF Init, EpochInv, TypeOK, OneCollecting, RowsAgree, ChainForward,
    AnswersAgree, LogMatchesRows, Collecting, Idle

(* What appending to the log does to its entries.                          *)
LEMMA LogGrows ==
  ASSUME log \in Seq(EventType), NEW e \in EventType, log' = Append(log, e)
  PROVE  /\ log' \in Seq(EventType)
         /\ DOMAIN log = 1 .. Len(log) /\ DOMAIN log' = 1 .. Len(log) + 1
         /\ Len(log) \in Nat
         /\ log'[Len(log) + 1] = e
         /\ \A i \in 1 .. Len(log) : log'[i] = log[i]
  OBVIOUS

(* An edit's event is about no session, so the boundaries' events stay in  *)
(* step with the rows.                                                     *)
LEMMA QuietEvent ==
  ASSUME TypeOK, LogMatchesRows,
         NEW kind \in {"activated", "deactivated", "updated"},
         Announce(kind, None, None), UNCHANGED <<captured, successor>>
  PROVE  LogMatchesRows' /\ log' \in Seq(EventType)
<1> DEFINE e == Event(kind, None, None)
<1>1. e \in EventType /\ e.kind = kind /\ e.closed = None
  BY DEF Event, EventType
<1>2. log \in Seq(EventType) /\ log' = Append(log, e)
  BY DEF TypeOK, Announce
<1>3. captured \subseteq Session
  BY DEF TypeOK
<1> HIDE DEF e
<1>4. /\ log' \in Seq(EventType)
      /\ DOMAIN log = 1 .. Len(log) /\ DOMAIN log' = 1 .. Len(log) + 1
      /\ Len(log) \in Nat
      /\ log'[Len(log) + 1] = e
      /\ \A i \in 1 .. Len(log) : log'[i] = log[i]
  BY <1>1, <1>2, LogGrows
<1> QED
  BY <1>1, <1>3, <1>4, SessionAssumption DEF LogMatchesRows

(* A boundary's event names the session it closes, for the first and only  *)
(* time, together with the successor written on its row.                   *)
LEMMA BoundaryEvent ==
  ASSUME TypeOK, LogMatchesRows,
         NEW s \in Session, s \notin captured, NEW o \in Session \cup {None},
         Announce("turned_over", s, o), captured' = captured \cup {s},
         successor' = [successor EXCEPT ![s] = o]
  PROVE  LogMatchesRows' /\ log' \in Seq(EventType)
<1> DEFINE e == Event("turned_over", s, o)
<1>1. e \in EventType /\ e.kind = "turned_over" /\ e.closed = s /\ e.opened = o
  BY DEF Event, EventType
<1>2. log \in Seq(EventType) /\ log' = Append(log, e)
  BY DEF TypeOK, Announce
<1> HIDE DEF e
<1>3. /\ log' \in Seq(EventType)
      /\ DOMAIN log = 1 .. Len(log) /\ DOMAIN log' = 1 .. Len(log) + 1
      /\ Len(log) \in Nat
      /\ log'[Len(log) + 1] = e
      /\ \A i \in 1 .. Len(log) : log'[i] = log[i]
  BY <1>1, <1>2, LogGrows
<1>4. successor'[s] = o /\ \A r \in captured : r # s /\ successor'[r] = successor[r]
  BY DEF TypeOK
<1>5. \A i \in DOMAIN log : log[i].closed # s
  <2>1. \A i \in DOMAIN log : log[i] \in EventType
    BY <1>2, <1>3
  <2> QED
    BY <2>1, SessionAssumption DEF LogMatchesRows, EventType
<1> DEFINE Told(i) ==
      IF log'[i].kind = "turned_over"
      THEN log'[i].closed \in captured' /\ log'[i].opened = successor'[log'[i].closed]
      ELSE log'[i].closed = None
<1>6. \A i \in DOMAIN log' : Told(i)
  <2>1. Told(Len(log) + 1)
    BY <1>1, <1>3, <1>4
  <2>2. ASSUME NEW i \in 1 .. Len(log) PROVE Told(i)
    <3>1. /\ log'[i] = log[i]
          /\ IF log[i].kind = "turned_over"
             THEN log[i].closed \in captured /\ log[i].opened = successor[log[i].closed]
             ELSE log[i].closed = None
      BY <1>3, <2>2 DEF LogMatchesRows
    <3> QED
      BY <1>4, <3>1
  <2> HIDE DEF Told
  <2>3. \A i \in 1 .. Len(log) + 1 : i = Len(log) + 1 \/ i \in 1 .. Len(log)
    BY <1>3
  <2> QED
    BY <1>3, <2>1, <2>2, <2>3
<1>7. \A r \in captured' : \E i \in DOMAIN log' : log'[i].closed = r
  <2>1. \E i \in DOMAIN log' : log'[i].closed = s
    BY <1>1, <1>3
  <2>2. ASSUME NEW r \in captured PROVE \E i \in DOMAIN log' : log'[i].closed = r
    BY <1>3, <2>2 DEF LogMatchesRows
  <2> QED
    BY <2>1, <2>2
<1>8. \A i, k \in DOMAIN log' :
        log'[i].closed = log'[k].closed /\ log'[i].closed # None => i = k
  <2>1. \A i, k \in 1 .. Len(log) :
          log[i].closed = log[k].closed /\ log[i].closed # None => i = k
    BY <1>3 DEF LogMatchesRows
  <2>2. \A i \in 1 .. Len(log) + 1 : i = Len(log) + 1 \/ i \in 1 .. Len(log)
    BY <1>3
  <2> QED
    BY <1>1, <1>3, <1>5, <2>1, <2>2
<1> QED
  BY <1>3, <1>6, <1>7, <1>8 DEF LogMatchesRows

(* A boundary that opens t: the chain grows by one link, forward in time.  *)
LEMMA BoundaryInto ==
  ASSUME EpochInv, NEW s \in Session, state[s] = "collecting",
         NEW t \in Unused, TurnOverInto(s, t), Closed(s, t)
  PROVE  EpochInv'
<1> USE DEF EpochInv, TurnOverInto, Closed
<1>1. s # t /\ s \notin captured /\ t \notin captured /\ t # None
      /\ successor[s] = None /\ successor[t] = None
      /\ \A r \in Session : successor[r] # t
  BY SessionAssumption DEF TypeOK, RowsAgree, Unused
<1>2. LogMatchesRows' /\ log' \in Seq(EventType)
  <2>1. t \in Session \cup {None}
    BY DEF Unused
  <2> QED
    BY <1>1, <2>1, BoundaryEvent
<1>3. closesAt[s] \in Int /\ duration \in Nat \ {0} /\ now \in Int /\ anchor \in Int
  BY GridAssumption DEF TypeOK
<1> DEFINE close == TurnoverClose(now, closesAt[s], anchor, duration)
<1>4. close \in Int /\ close > closesAt[s]
  BY <1>3, TurnoverCloseLeast
<1>5. closesAt' = [closesAt EXCEPT ![t] = close]
  OBVIOUS
<1> HIDE DEF close
<1>6. TypeOK'
  BY <1>2, <1>4, <1>5 DEF TypeOK, Unused, subject
<1>7. OneCollecting'
  <2>1. \A r \in Session : state[r] = "collecting" => r = s
    BY DEF OneCollecting, Collecting
  <2>2. \A r \in Session : state'[r] = "collecting" => r = t
    BY <1>1, <2>1 DEF TypeOK, Unused
  <2> QED
    BY <2>2 DEF OneCollecting, Collecting
<1>8. RowsAgree'
  BY <1>1 DEF TypeOK, RowsAgree, Unused
<1>9. ChainForward'
  BY <1>1, <1>4, <1>5 DEF TypeOK, ChainForward, Unused
<1>10. AnswersAgree'
  BY <1>1 DEF TypeOK, AnswersAgree, Unused
<1> QED
  BY <1>2, <1>6, <1>7, <1>8, <1>9, <1>10

(* A boundary of an inactive subject: the chain ends.                      *)
LEMMA BoundaryLast ==
  ASSUME EpochInv, NEW s \in Session, state[s] = "collecting",
         TurnOverLast(s), Closed(s, None)
  PROVE  EpochInv'
<1> USE DEF EpochInv, TurnOverLast, Closed
<1>1. s \notin captured /\ successor[s] = None
  BY SessionAssumption DEF TypeOK, RowsAgree
<1>2. LogMatchesRows' /\ log' \in Seq(EventType)
  <2>1. successor' = [successor EXCEPT ![s] = None]
    BY <1>1 DEF TypeOK
  <2> QED
    BY <1>1, <2>1, BoundaryEvent
<1>3. TypeOK'
  BY <1>2 DEF TypeOK, subject
<1>4. OneCollecting'
  BY DEF TypeOK, OneCollecting, Collecting
<1>5. RowsAgree'
  BY <1>1 DEF TypeOK, RowsAgree
<1>6. ChainForward'
  BY <1>1 DEF TypeOK, ChainForward
<1>7. AnswersAgree'
  BY <1>1 DEF TypeOK, AnswersAgree
<1> QED
  BY <1>2, <1>3, <1>4, <1>5, <1>6, <1>7

(* A first opening links to nothing: its row is new.                       *)
LEMMA OpeningInserts ==
  ASSUME EpochInv, NEW c \in Opener, OpenInsert(c)
  PROVE  EpochInv'
<1> USE DEF EpochInv, OpenInsert
<1>1. PICK s \in Unused :
        /\ state' = [state EXCEPT ![s] = "collecting"]
        /\ closesAt' = [closesAt EXCEPT ![s] = opening[c].closes]
  OBVIOUS
<1>2. s \in Session /\ s \notin captured /\ \A r \in Session : successor[r] # s
  BY DEF RowsAgree, Unused
<1>3. successor[s] = None
  BY <1>2 DEF TypeOK, RowsAgree
<1>4. TypeOK'
  <2>1. opening[c].closes \in Int
    BY DEF TypeOK
  <2>2. state' \in [Session -> {"none", "collecting", "closed"}]
    BY <1>1, <1>2 DEF TypeOK
  <2>3. closesAt' \in [Session -> Int]
    BY <1>1, <1>2, <2>1 DEF TypeOK
  <2>4. opening' \in [Opener -> [step : {"idle", "checked", "placed"}, closes : Int]]
    BY DEF TypeOK, Idle
  <2> QED
    BY <2>2, <2>3, <2>4 DEF TypeOK, subject
<1>5. OneCollecting'
  BY <1>1, <1>2 DEF TypeOK, OneCollecting, Collecting
<1>6. RowsAgree'
  BY <1>1, <1>2 DEF TypeOK, RowsAgree, Unused
<1>7. ChainForward'
  BY <1>1, <1>2, <1>3, SessionAssumption DEF TypeOK, ChainForward
<1>8. AnswersAgree'
  BY <1>1, <1>2 DEF TypeOK, AnswersAgree, Unused
<1>9. LogMatchesRows'
  BY DEF LogMatchesRows
<1> QED
  BY <1>4, <1>5, <1>6, <1>7, <1>8, <1>9

(* The steps that write neither a session row nor an answer.               *)
LEMMA RowsUntouched ==
  ASSUME EpochInv, TypeOK', LogMatchesRows', UNCHANGED <<sessions, answered>>
  PROVE  EpochInv'
BY DEF EpochInv, sessions, OneCollecting, Collecting, RowsAgree, ChainForward,
       AnswersAgree

LEMMA EditStep ==
  ASSUME EpochInv, Deactivate \/ Activate \/ Update
  PROVE  EpochInv'
<1> USE DEF EpochInv
<1>1. CASE Deactivate
  <2>1. LogMatchesRows' /\ log' \in Seq(EventType)
    BY <1>1, QuietEvent DEF Deactivate, sessions
  <2>2. TypeOK'
    BY <1>1, <2>1 DEF TypeOK, Deactivate, sessions
  <2> QED
    BY <1>1, <2>1, <2>2, RowsUntouched DEF Deactivate
<1>2. CASE Activate
  <2>1. LogMatchesRows' /\ log' \in Seq(EventType)
    BY <1>2, QuietEvent DEF Activate, sessions
  <2>2. TypeOK'
    BY <1>2, <2>1 DEF TypeOK, Activate, sessions
  <2> QED
    BY <1>2, <2>1, <2>2, RowsUntouched DEF Activate
<1>3. CASE Update
  <2>1. LogMatchesRows' /\ log' \in Seq(EventType)
    BY <1>3, QuietEvent DEF Update, sessions
  <2>2. duration' \in Duration /\ anchor' \in Int
    <3>1. CASE \E d \in Duration : ChangeDuration(d)
      BY <3>1 DEF ChangeDuration, TypeOK, Collecting
    <3>2. CASE \E a \in Anchor : ChangeAnchor(a)
      BY <3>2, GridAssumption DEF ChangeAnchor, TypeOK
    <3>3. CASE ChangeOther
      BY <3>3 DEF ChangeOther, TypeOK
    <3> QED
      BY <1>3, <3>1, <3>2, <3>3 DEF Update
  <2>3. TypeOK'
    BY <1>3, <2>1, <2>2 DEF TypeOK, Update, sessions
  <2> QED
    BY <1>3, <2>1, <2>3, RowsUntouched DEF Update
<1> QED
  BY <1>1, <1>2, <1>3

LEMMA StepEpoch == EpochInv /\ [Next]_vars => EpochInv'
<1> SUFFICES ASSUME EpochInv, [Next]_vars PROVE EpochInv'
  OBVIOUS
<1>1. ASSUME NEW c \in Opener, OpenCheck(c) PROVE EpochInv'
  <2>1. TypeOK' /\ LogMatchesRows'
    BY <1>1 DEF EpochInv, TypeOK, OpenCheck, subject, sessions, LogMatchesRows
  <2> QED
    BY <1>1, <2>1, RowsUntouched DEF OpenCheck
<1>2. ASSUME NEW c \in Opener, OpenPlace(c) PROVE EpochInv'
  <2>1. FirstClose(now, anchor, duration) \in Int
    BY GridAssumption, FirstCloseBounds DEF EpochInv, TypeOK
  <2>2. TypeOK' /\ LogMatchesRows'
    BY <1>2, <2>1 DEF EpochInv, TypeOK, OpenPlace, subject, sessions, LogMatchesRows
  <2> QED
    BY <1>2, <2>2, RowsUntouched DEF OpenPlace
<1>3. ASSUME NEW c \in Opener, OpenAbandon(c) PROVE EpochInv'
  <2>1. TypeOK' /\ LogMatchesRows'
    BY <1>3 DEF EpochInv, TypeOK, OpenAbandon, Idle, subject, sessions, LogMatchesRows
  <2> QED
    BY <1>3, <2>1, RowsUntouched DEF OpenAbandon
<1>4. ASSUME NEW s \in Session, TurnOver(s) PROVE EpochInv'
  BY <1>4, BoundaryInto, BoundaryLast DEF TurnOver
<1>5. ASSUME NEW s \in Session, TurnOverReplay(s) PROVE EpochInv'
  BY <1>5 DEF TurnOverReplay, EpochInv, TypeOK, subject, sessions, OneCollecting,
              Collecting, RowsAgree, ChainForward, AnswersAgree, LogMatchesRows
<1>6. CASE Tick
  <2>1. TypeOK' /\ LogMatchesRows'
    BY <1>6 DEF EpochInv, TypeOK, Tick, subject, sessions, LogMatchesRows
  <2> QED
    BY <1>6, <2>1, RowsUntouched DEF Tick
<1>7. CASE UNCHANGED vars
  BY <1>7 DEF vars, EpochInv, TypeOK, subject, sessions, OneCollecting,
              Collecting, RowsAgree, ChainForward, AnswersAgree, LogMatchesRows
<1> QED
  BY <1>1, <1>2, <1>3, <1>4, <1>5, <1>6, <1>7, OpeningInserts, EditStep DEF Next

(* Whatever overlaps, is retried or edited, a subject has one open window, *)
(* its chain runs forward without forks, a boundary always gives one       *)
(* answer, and the event log is the record of the rows.                    *)
THEOREM EpochSafe == Spec => []EpochInv
BY InitEpoch, StepEpoch, PTL DEF Spec

(* Whatever opens, boundaries and edits overlap: one open window, and a    *)
(* chain of epochs that goes forward without forks.                        *)
THEOREM ChainIsOne == Spec => []OneChain
<1>1. EpochInv => OneChain
  BY DEF EpochInv, OneChain
<1> QED
  BY <1>1, EpochSafe, PTL

(* Every answer a boundary gives, first or replayed, names the successor   *)
(* on the row.                                                             *)
THEOREM AnswersNameTheRow == Spec => []AnswersAgree
<1>1. EpochInv => AnswersAgree
  BY DEF EpochInv
<1> QED
  BY <1>1, EpochSafe, PTL

(* The log tells every boundary once, as the rows have it.                 *)
THEOREM LogIsTrue == Spec => []LogMatchesRows
<1>1. EpochInv => LogMatchesRows
  BY DEF EpochInv
<1> QED
  BY <1>1, EpochSafe, PTL

(* What a boundary leaves as the log's last word: its event is the last    *)
(* boundary, and the session it names as opened is collecting.             *)
LEMMA BoundaryTold ==
  ASSUME EpochInv, LogTellsNow, NEW s \in Session, NEW o \in Session \cup {None},
         Announce("turned_over", s, o), o # None => state'[o] = "collecting",
         status' = status
  PROVE  LogTellsNow'
<1> DEFINE e == Event("turned_over", s, o)
           n == Len(log) + 1
<1>1. e \in EventType /\ e.kind = "turned_over" /\ e.opened = o
  BY DEF Event, EventType
<1>2. log \in Seq(EventType) /\ log' = Append(log, e)
  BY DEF EpochInv, TypeOK, Announce
<1> HIDE DEF e
<1>3. /\ DOMAIN log = 1 .. Len(log) /\ DOMAIN log' = 1 .. n
      /\ Len(log) \in Nat
      /\ log'[n] = e
      /\ \A i \in 1 .. Len(log) : log'[i] = log[i]
  BY <1>1, <1>2, LogGrows
<1>4. n \in Boundaries' /\ Switches' = Switches
  BY <1>1, <1>3 DEF Boundaries, Switches
<1>5. ASSUME NEW i \in Boundaries', \A k \in Boundaries' : k <= i
      PROVE  log'[i].opened # None => state'[log'[i].opened] = "collecting"
  <2>1. i = n
    BY <1>3, <1>4, <1>5 DEF Boundaries
  <2> QED
    BY <1>1, <1>3, <2>1
<1>6. ASSUME NEW i \in Switches', \A k \in Switches' : k <= i
      PROVE  log'[i].kind = "activated" <=> status' = "active"
  BY <1>3, <1>4, <1>6 DEF LogTellsNow, Switches
<1> QED
  BY <1>5, <1>6 DEF LogTellsNow

(* An edit's event, in the same way: it is the last switch exactly when it *)
(* is one, and then it tells the status the edit leaves.                   *)
LEMMA EditTold ==
  ASSUME EpochInv, LogTellsNow,
         NEW kind \in {"activated", "deactivated", "updated"},
         Announce(kind, None, None), UNCHANGED state,
         IF kind = "updated" THEN status' = status
         ELSE kind = "activated" <=> status' = "active"
  PROVE  LogTellsNow'
<1> DEFINE e == Event(kind, None, None)
           n == Len(log) + 1
<1>1. e \in EventType /\ e.kind = kind
  BY DEF Event, EventType
<1>2. log \in Seq(EventType) /\ log' = Append(log, e)
  BY DEF EpochInv, TypeOK, Announce
<1> HIDE DEF e
<1>3. /\ DOMAIN log = 1 .. Len(log) /\ DOMAIN log' = 1 .. n
      /\ Len(log) \in Nat
      /\ log'[n] = e
      /\ \A i \in 1 .. Len(log) : log'[i] = log[i]
  BY <1>1, <1>2, LogGrows
<1>4. Boundaries' = Boundaries
  BY <1>1, <1>3 DEF Boundaries
<1>5. ASSUME NEW i \in Boundaries', \A k \in Boundaries' : k <= i
      PROVE  log'[i].opened # None => state'[log'[i].opened] = "collecting"
  BY <1>3, <1>4, <1>5 DEF LogTellsNow, Boundaries
<1>6. ASSUME NEW i \in Switches', \A k \in Switches' : k <= i
      PROVE  log'[i].kind = "activated" <=> status' = "active"
  <2>1. CASE kind = "updated"
    <3>1. Switches' = Switches
      BY <1>1, <1>3, <2>1 DEF Switches
    <3> QED
      BY <1>3, <1>6, <2>1, <3>1 DEF LogTellsNow, Switches
  <2>2. CASE kind # "updated"
    <3>1. n \in Switches'
      BY <1>1, <1>3, <2>2 DEF Switches
    <3>2. i = n
      BY <1>3, <1>6, <3>1 DEF Switches
    <3> QED
      BY <1>1, <1>3, <2>2, <3>2
  <2> QED
    BY <2>1, <2>2
<1> QED
  BY <1>5, <1>6 DEF LogTellsNow

(* A subscriber that applied the whole log believes what is so: the epoch  *)
(* the last boundary opened is open, and the last switch is the status.    *)
THEOREM LogTells == Spec => []LogTellsNow
<1>1. Init => LogTellsNow
  BY DEF Init, LogTellsNow, Boundaries, Switches
<1>2. EpochInv /\ LogTellsNow /\ [Next]_vars => LogTellsNow'
  <2> SUFFICES ASSUME EpochInv, LogTellsNow, [Next]_vars PROVE LogTellsNow'
    OBVIOUS
  <2>1. ASSUME NEW c \in Opener, OpenInsert(c) PROVE LogTellsNow'
    <3>1. UNCHANGED <<log, status>>
      BY <2>1 DEF OpenInsert, subject
    <3>2. \A r \in Session : state'[r] = "collecting" \/ state'[r] = state[r]
      BY <2>1 DEF OpenInsert, Unused, EpochInv, TypeOK
    <3>3. \A i \in DOMAIN log : log[i].opened \in Session \cup {None}
      <4>1. log \in Seq(EventType)
        BY DEF EpochInv, TypeOK
      <4>2. \A i \in DOMAIN log : log[i] \in EventType
        BY <4>1
      <4> QED
        BY <4>2 DEF EventType
    <3>4. Boundaries' = Boundaries /\ Switches' = Switches
      BY <3>1 DEF Boundaries, Switches
    <3>5. \A i \in Boundaries : log[i].opened \in Session \cup {None}
      BY <3>3 DEF Boundaries
    <3> QED
      BY <3>1, <3>2, <3>4, <3>5 DEF LogTellsNow
  <2>2. ASSUME NEW s \in Session, TurnOver(s) PROVE LogTellsNow'
    <3>1. CASE \E t \in Unused : TurnOverInto(s, t) /\ Closed(s, t)
      <4>1. PICK t \in Unused : TurnOverInto(s, t) /\ Closed(s, t)
        BY <3>1
      <4>2. state'[t] = "collecting" /\ t \in Session
        BY <4>1 DEF TurnOverInto, Unused, EpochInv, TypeOK
      <4> QED
        BY <4>1, <4>2, BoundaryTold DEF Closed, subject
    <3>2. CASE Closed(s, None)
      BY <3>2, BoundaryTold DEF Closed, subject
    <3> QED
      BY <2>2, <3>1, <3>2 DEF TurnOver
  <2>3. CASE Deactivate
    BY <2>3, EditTold DEF Deactivate, sessions
  <2>4. CASE Activate
    BY <2>4, EditTold DEF Activate, sessions
  <2>5. CASE Update
    BY <2>5, EditTold DEF Update, sessions
  <2>6. CASE UNCHANGED <<log, state, status>>
    BY <2>6 DEF LogTellsNow, Boundaries, Switches
  <2> QED
    BY <2>1, <2>2, <2>3, <2>4, <2>5, <2>6
    DEF Next, vars, OpenCheck, OpenPlace, OpenAbandon, TurnOverReplay, Tick,
        subject, sessions
<1> QED
  BY <1>1, <1>2, EpochSafe, PTL DEF Spec

WindowsKeep ==
  \A s \in Session :
    /\ state[s] # "none" => closesAt'[s] = closesAt[s] /\ state'[s] # "none"
    /\ state[s] = "closed" => state'[s] = "closed" /\ successor'[s] = successor[s]

LEMMA StepKeepsWindows ==
  ASSUME EpochInv, [Next]_vars PROVE WindowsKeep
<1>1. ASSUME NEW c \in Opener, OpenInsert(c) PROVE WindowsKeep
  BY <1>1 DEF WindowsKeep, OpenInsert, Unused, EpochInv, TypeOK
<1>2. ASSUME NEW s \in Session, TurnOver(s) PROVE WindowsKeep
  BY <1>2 DEF WindowsKeep, TurnOver, TurnOverInto, TurnOverLast, Closed, Unused, EpochInv, TypeOK
<1>3. ASSUME UNCHANGED sessions PROVE WindowsKeep
  BY <1>3 DEF WindowsKeep, sessions
<1> QED
  BY <1>1, <1>2, <1>3 DEF Next, OpenCheck, OpenPlace, OpenAbandon, TurnOverReplay,
       Deactivate, Activate, Update, Tick, vars

(* No step moves an advertised close or reopens a closed window.           *)
THEOREM WindowsAreFixed == Spec => WindowsFixed
<1>1. EpochInv /\ [Next]_vars => [WindowsKeep]_vars
  BY StepKeepsWindows
<1>2. WindowsFixed <=> [][WindowsKeep]_vars
  BY DEF WindowsFixed, WindowsKeep
<1> QED
  BY <1>1, <1>2, EpochSafe, PTL DEF Spec

(* With no anchor named by an admin, boundaries keep to the grid through   *)
(* every change of its spacing: the new grid passes through the close that *)
(* the open window already has.                                            *)
THEOREM GridIsKept ==
  ASSUME Anchor = {}
  PROVE  Spec => []SuccessorOnGrid
<1>1. Init => SuccessorOnGrid
  BY SessionAssumption DEF Init, SuccessorOnGrid
<1>2. EpochInv /\ SuccessorOnGrid /\ [Next]_vars => SuccessorOnGrid'
  <2> SUFFICES ASSUME EpochInv, SuccessorOnGrid, [Next]_vars,
                      NEW s \in Session, NEW t \in Session,
                      successor'[s] = t, state'[t] = "collecting"
               PROVE  OnGrid(closesAt'[t], anchor', duration')
    BY DEF SuccessorOnGrid
  <2>1. ASSUME NEW c \in Opener, OpenInsert(c)
        PROVE  OnGrid(closesAt'[t], anchor', duration')
    <3>1. PICK u \in Unused :
            /\ state' = [state EXCEPT ![u] = "collecting"]
            /\ closesAt' = [closesAt EXCEPT ![u] = opening[c].closes]
      BY <2>1 DEF OpenInsert
    <3>2. t # u /\ state[t] = "collecting" /\ successor[s] = t
      BY <2>1, <3>1 DEF OpenInsert, EpochInv, RowsAgree, TypeOK, Unused
    <3> QED
      BY <2>1, <3>1, <3>2 DEF OpenInsert, SuccessorOnGrid, EpochInv, TypeOK, subject
  <2>2. ASSUME NEW n \in Session, NEW u \in Unused, state[n] = "collecting",
               TurnOverInto(n, u), Closed(n, u)
        PROVE  OnGrid(closesAt'[t], anchor', duration')
    <3> DEFINE close == TurnoverClose(now, closesAt[n], anchor, duration)
    <3>1. OnGrid(close, anchor, duration)
      <4>1. now \in Int /\ closesAt[n] \in Int /\ anchor \in Int /\ duration \in Nat \ {0}
        BY GridAssumption DEF EpochInv, TypeOK
      <4> QED
        BY <4>1, TurnoverCloseLeast
    <3>2. closesAt' = [closesAt EXCEPT ![u] = close]
      BY <2>2 DEF TurnOverInto
    <3> HIDE DEF close
    <3>3. \A r \in Session : state[r] = "collecting" => r = n
      BY <2>2 DEF EpochInv, OneCollecting, Collecting
    <3>4. t = u
      BY <2>2, <3>3 DEF TurnOverInto, EpochInv, TypeOK
    <3> QED
      BY <2>2, <3>1, <3>2, <3>4 DEF Closed, subject, EpochInv, TypeOK
  <2>3. ASSUME NEW n \in Session, TurnOverLast(n), Closed(n, None)
        PROVE  OnGrid(closesAt'[t], anchor', duration')
    BY <2>3 DEF TurnOverLast, Closed, subject, SuccessorOnGrid, EpochInv, TypeOK
  <2>4. CASE Update
    <3>1. /\ closesAt' = closesAt /\ state[t] = "collecting"
          /\ successor[s] = t /\ closesAt[t] \in Int
      BY <2>4 DEF Update, sessions, EpochInv, TypeOK
    <3>2. \A r \in Collecting : r = t
      BY <3>1 DEF EpochInv, OneCollecting, Collecting
    <3>3. CASE \E d \in Duration : ChangeDuration(d)
      <4>1. anchor' = closesAt[t] /\ duration' \in Nat \ {0}
        BY <3>1, <3>2, <3>3, GridAssumption DEF ChangeDuration, Collecting
      <4>2. 0 % duration' = 0 /\ closesAt[t] - closesAt[t] = 0
        BY <3>1, <4>1
      <4> QED
        BY <3>1, <4>1, <4>2 DEF OnGrid
    <3>4. CASE ChangeOther
      BY <3>1, <3>4 DEF ChangeOther, SuccessorOnGrid
    <3> QED
      BY <2>4, <3>3, <3>4 DEF Update
  <2>5. ASSUME UNCHANGED <<sessions, duration, anchor>>
        PROVE  OnGrid(closesAt'[t], anchor', duration')
    BY <2>5 DEF sessions, SuccessorOnGrid
  <2> QED
    BY <2>1, <2>2, <2>3, <2>4, <2>5
    DEF Next, vars, OpenCheck, OpenPlace, OpenAbandon, TurnOver, TurnOverReplay,
        Deactivate, Activate, Tick, subject
<1> QED
  BY <1>1, <1>2, EpochSafe, PTL DEF Spec
-------------------------------------------------------------------------------
(* Rows, log and answers as one chain of epochs.                           *)
LEMMA RunningIsCurrent ==
  ASSUME OneCollecting, NEW s \in Session, state[s] = "collecting"
  PROVE  currentBar = s
BY DEF currentBar, OneCollecting, Collecting

(* A boundary's event adds that boundary to what the log tells, an edit's  *)
(* nothing.                                                                *)
LEMMA TellsMore ==
  ASSUME log \in Seq(EventType), NEW e \in EventType, log' = Append(log, e)
  PROVE  toldBar' = toldBar \cup
           (IF e.kind = "turned_over" THEN {<<e.closed, e.opened>>} ELSE {})
<1>1. /\ DOMAIN log = 1 .. Len(log) /\ DOMAIN log' = 1 .. Len(log) + 1
      /\ Len(log) \in Nat
      /\ log'[Len(log) + 1] = e
      /\ \A i \in 1 .. Len(log) : log'[i] = log[i]
  BY LogGrows
<1>2. \A i \in 1 .. Len(log) + 1 : i = Len(log) + 1 \/ i \in 1 .. Len(log)
  BY <1>1
<1>3. \A i \in 1 .. Len(log) : i \in 1 .. Len(log) + 1
  BY <1>1
<1>4. Len(log) + 1 \in 1 .. Len(log) + 1
  BY <1>1
<1>5. Boundaries' = Boundaries \cup
        (IF e.kind = "turned_over" THEN {Len(log) + 1} ELSE {})
  BY <1>1, <1>2, <1>3, <1>4 DEF Boundaries
<1>6. \A i \in Boundaries : log'[i] = log[i]
  BY <1>1 DEF Boundaries
<1> QED
  BY <1>1, <1>5, <1>6 DEF toldBar

LEMMA InitChain == Init => Chain!Init
<1> SUFFICES ASSUME Init PROVE Chain!Init
  OBVIOUS
<1>1. closesBar \in [Session \ Unused -> Int]
  BY DEF Init, closesBar
<1>2. currentBar = None
  BY DEF Init, currentBar, Collecting
<1>3. toldBar = {}
  BY DEF Init, toldBar, Boundaries
<1> QED
  BY <1>1, <1>2, <1>3 DEF Init, Chain!Init

(* A new row is a new epoch, and the others advertise what they did.       *)
LEMMA RowBegins ==
  ASSUME TypeOK, OneCollecting', NEW t \in Unused, NEW c, state'[t] = "collecting",
         \A s \in Session \ {t} : state'[s] = "none" <=> state[s] = "none",
         closesAt' = [closesAt EXCEPT ![t] = c]
  PROVE  Chain!Begin(t) /\ closesBar'[t] = c
<1>1. t \in Session /\ t \notin Session \ Unused
  BY DEF Unused
<1>2. Unused' = Unused \ {t}
  BY <1>1 DEF Unused
<1>3. closesAt'[t] = c /\ \A s \in Session \ {t} : closesAt'[s] = closesAt[s]
  BY <1>1 DEF TypeOK
<1>4. currentBar' = t
  BY <1>1 DEF currentBar, OneCollecting, Collecting
<1>5. /\ DOMAIN closesBar = Session \ Unused
      /\ DOMAIN closesBar' = (Session \ Unused) \cup {t}
      /\ closesBar'[t] = c
      /\ \A s \in Session \ Unused : closesBar'[s] = closesBar[s]
  BY <1>1, <1>2, <1>3 DEF closesBar
<1> QED
  BY <1>1, <1>4, <1>5 DEF Chain!Begin, Chain!Opened

(* An opening that wins begins an epoch where none runs.                   *)
LEMMA OpeningBegins ==
  ASSUME EpochInv, EpochInv', NEW c \in Opener, OpenInsert(c)
  PROVE  \E t \in Session : Chain!Open(t)
<1>1. PICK t \in Unused :
        /\ state' = [state EXCEPT ![t] = "collecting"]
        /\ closesAt' = [closesAt EXCEPT ![t] = opening[c].closes]
  BY DEF OpenInsert
<1>2. t \in Session /\ state'[t] = "collecting"
      /\ \A s \in Session \ {t} : state'[s] = "none" <=> state[s] = "none"
  BY <1>1 DEF EpochInv, TypeOK, Unused
<1>3. Chain!Begin(t)
  BY <1>1, <1>2, RowBegins DEF EpochInv
<1>4. currentBar = None /\ UNCHANGED <<toldBar, answered>>
  BY DEF OpenInsert, currentBar, toldBar, Boundaries
<1> QED
  BY <1>2, <1>3, <1>4 DEF Chain!Open

(* A boundary ends the epoch that runs, in the log and in its answer.      *)
LEMMA BoundaryEnds ==
  ASSUME EpochInv, NEW s \in Session, state[s] = "collecting",
         NEW o \in Session \cup {None}, Closed(s, o)
  PROVE  Chain!End(o) /\ currentBar = s
<1>1. currentBar = s /\ s # None
  BY RunningIsCurrent, SessionAssumption DEF EpochInv
<1> DEFINE e == Event("turned_over", s, o)
<1>2. e \in EventType /\ e.kind = "turned_over" /\ e.closed = s /\ e.opened = o
  BY DEF Event, EventType
<1>3. log \in Seq(EventType) /\ log' = Append(log, e)
  BY DEF EpochInv, TypeOK, Closed, Announce
<1> HIDE DEF e
<1>4. toldBar' = toldBar \cup {<<s, o>>}
  BY <1>2, <1>3, TellsMore
<1> QED
  BY <1>1, <1>4 DEF Closed, Chain!End

LEMMA BoundaryRolls ==
  ASSUME EpochInv, EpochInv', NEW s \in Session, TurnOver(s)
  PROVE  Chain!Stop \/ \E t \in Session : Chain!Roll(t)
<1>1. state[s] = "collecting"
  BY DEF TurnOver
<1>2. CASE status = "active"
  <2>1. PICK t \in Unused : TurnOverInto(s, t) /\ Closed(s, t)
    BY <1>2 DEF TurnOver
  <2>2. s # t /\ t \in Session
    BY <1>1 DEF Unused
  <2> DEFINE close == TurnoverClose(now, closesAt[s], anchor, duration)
  <2>3. close > closesAt[s] /\ closesAt' = [closesAt EXCEPT ![t] = close]
    BY <2>1, GridAssumption, TurnoverCloseLeast DEF EpochInv, TypeOK, TurnOverInto
  <2> HIDE DEF close
  <2>4. state'[t] = "collecting"
        /\ \A r \in Session \ {t} : state'[r] = "none" <=> state[r] = "none"
    BY <1>1, <2>1, <2>2 DEF EpochInv, TypeOK, TurnOverInto
  <2>5. Chain!Begin(t) /\ closesBar'[t] = close
    BY <2>3, <2>4, RowBegins DEF EpochInv
  <2>6. Chain!End(t) /\ currentBar = s
    BY <1>1, <2>1, <2>2, BoundaryEnds
  <2>7. closesBar[s] = closesAt[s]
    BY <1>1 DEF closesBar, Unused
  <2> QED
    BY <2>2, <2>3, <2>5, <2>6, <2>7 DEF Chain!Roll
<1>3. CASE status # "active"
  <2>1. TurnOverLast(s) /\ Closed(s, None)
    BY <1>3 DEF TurnOver
  <2>2. Chain!End(None)
    BY <1>1, <2>1, BoundaryEnds
  <2>3. \A r \in Session : state[r] = "collecting" => r = s
    BY <1>1 DEF EpochInv, OneCollecting, Collecting
  <2>4. \A r \in Session : state'[r] # "collecting" /\ (state'[r] = "none" <=> state[r] = "none")
    BY <1>1, <2>1, <2>3 DEF EpochInv, TypeOK, TurnOverLast
  <2>5. currentBar' = None
    BY <2>4 DEF currentBar, Collecting
  <2>6. Unused' = Unused
    BY <2>4 DEF Unused
  <2>7. UNCHANGED closesBar
    BY <2>1, <2>6 DEF closesBar, TurnOverLast
  <2> QED
    BY <2>2, <2>5, <2>7 DEF Chain!Stop
<1> QED
  BY <1>2, <1>3

(* A retry is answered with a boundary that the log has told.              *)
LEMMA ReplayRepeats ==
  ASSUME EpochInv, NEW s \in Session, TurnOverReplay(s)
  PROVE  \E b \in toldBar : Chain!Repeat(b)
<1>1. s \in captured
  BY DEF EpochInv, RowsAgree, TurnOverReplay
<1>2. PICK i \in DOMAIN log : log[i].closed = s
  BY <1>1 DEF EpochInv, LogMatchesRows
<1>3. log[i].kind = "turned_over" /\ log[i].opened = successor[s]
  BY <1>2, SessionAssumption DEF EpochInv, LogMatchesRows
<1>4. <<s, successor[s]>> \in toldBar
  BY <1>2, <1>3 DEF toldBar, Boundaries
<1>5. UNCHANGED <<closesBar, currentBar, toldBar>>
  BY DEF TurnOverReplay, sessions, closesBar, Unused, currentBar, Collecting,
         toldBar, Boundaries
<1> QED
  BY <1>4, <1>5 DEF TurnOverReplay, Chain!Repeat

(* Edits and the statements of an opening before its insert change nothing *)
(* of the chain.                                                           *)
LEMMA RestStutters ==
  ASSUME EpochInv, UNCHANGED <<sessions, answered>>,
         \/ UNCHANGED log
         \/ \E kind \in {"activated", "deactivated", "updated"} : Announce(kind, None, None)
  PROVE  UNCHANGED Chain!vars
<1>1. UNCHANGED toldBar
  <2>1. CASE UNCHANGED log
    BY <2>1 DEF toldBar, Boundaries
  <2>2. ASSUME NEW kind \in {"activated", "deactivated", "updated"}, Announce(kind, None, None)
        PROVE  UNCHANGED toldBar
    <3> DEFINE e == Event(kind, None, None)
    <3>1. e \in EventType /\ e.kind # "turned_over"
      BY DEF Event, EventType
    <3>2. log \in Seq(EventType) /\ log' = Append(log, e)
      BY <2>2 DEF EpochInv, TypeOK, Announce
    <3> HIDE DEF e
    <3> QED
      BY <3>1, <3>2, TellsMore
  <2> QED
    BY <2>1, <2>2
<1> QED
  BY <1>1 DEF sessions, closesBar, Unused, currentBar, Collecting, Chain!vars

LEMMA ChainStep ==
  ASSUME EpochInv, EpochInv', [Next]_vars
  PROVE  [Chain!Next]_(Chain!vars)
<1>1. ASSUME NEW c \in Opener, OpenCheck(c) \/ OpenPlace(c) \/ OpenAbandon(c)
      PROVE  UNCHANGED Chain!vars
  BY <1>1, RestStutters DEF OpenCheck, OpenPlace, OpenAbandon
<1>2. ASSUME NEW c \in Opener, OpenInsert(c) PROVE Chain!Next
  BY <1>2, OpeningBegins DEF Chain!Next
<1>3. ASSUME NEW s \in Session, TurnOver(s) PROVE Chain!Next
  BY <1>3, BoundaryRolls DEF Chain!Next
<1>4. ASSUME NEW s \in Session, TurnOverReplay(s) PROVE Chain!Next
  BY <1>4, ReplayRepeats DEF Chain!Next
<1>5. CASE Deactivate \/ Activate \/ Update
  BY <1>5, RestStutters DEF Deactivate, Activate, Update
<1>6. CASE Tick \/ UNCHANGED vars
  BY <1>6, RestStutters DEF Tick, vars
<1> QED
  BY <1>1, <1>2, <1>3, <1>4, <1>5, <1>6 DEF Next

(* The API's rows, its log and its answers tell one story, the abstract    *)
(* chain, for any number of overlapping openings, retried boundaries and   *)
(* edits: each epoch begins where none runs or where one ends, advertises  *)
(* one close, later than its predecessor's, and ends once; and a retry is  *)
(* told of a boundary that happened.                                       *)
THEOREM EpochsAreOneChain == Spec => ImplementsEpochChain
<1>1. EpochInv /\ EpochInv' /\ [Next]_vars => [Chain!Next]_(Chain!vars)
  BY ChainStep
<1> QED
  BY <1>1, InitChain, EpochSafe, PTL DEF Spec, ImplementsEpochChain, Chain!Spec
===============================================================================
