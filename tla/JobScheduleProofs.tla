--------------------------- MODULE JobScheduleProofs ---------------------------
(***************************************************************************)
(* Theorems about JobSchedule, for every number of workers, length of a    *)
(* day and of a batch, and however far the schedule is behind.             *)
(***************************************************************************)
EXTENDS JobSchedule, WellFoundedInduction, TLAPS

Statuses == {"none", "pending", "running", "expired"} \cup Ended

LEMMA SlotsAreNumbers == MaxTime \in Nat /\ \A s \in Slot : s \in Int /\ 1 <= s /\ s <= MaxTime
BY ScheduleAssumption DEF Slot

(* A set of slots that is not empty has a newest one.                      *)
LEMMA Newest ==
  ASSUME NEW S, S \subseteq Slot, S # {}
  PROVE  \E t \in S : \A u \in S : u <= t
<1> DEFINE T == {MaxTime - s : s \in S}
           R == OpToRel(<, Nat)
<1>1. \A s \in S : s \in Int /\ MaxTime - s \in Nat
  BY SlotsAreNumbers
<1>2. T \subseteq Nat
  BY <1>1
<1>3. T # {}
  <2>1. PICK s \in S : TRUE
    OBVIOUS
  <2> QED
    BY <2>1
<1>4. IsWellFoundedOn(R, Nat)
  BY NatLessThanWellFounded
<1>5. PICK x \in T : \A y \in T : <<y, x>> \notin R
  <2> HIDE DEF R, T
  <2> QED
    BY <1>2, <1>3, <1>4, WFMin
<1>6. \A y \in T : ~(y < x)
  BY <1>2, <1>5 DEF OpToRel
<1>7. PICK t \in S : x = MaxTime - t
  OBVIOUS
<1>8. \A u \in S : ~(MaxTime - u < MaxTime - t)
  BY <1>6, <1>7
<1> QED
  BY <1>1, <1>8, SlotsAreNumbers

(* A slot's cover's cover is its cover.                                    *)
LEMMA CoversAgain ==
  ASSUME NEW s \in Slot, NEW t \in Slot, NEW u \in Slot, Covers(t, s), Covers(u, t)
  PROVE  Covers(u, s)
BY SlotsAreNumbers DEF Covers, Supersedes

(* Of the covers of a slot in a set, the newest has none above it.         *)
LEMMA LastCover ==
  ASSUME NEW S, S \subseteq Slot, NEW s \in Slot, \E t \in S : Covers(t, s)
  PROVE  \E t \in S : Covers(t, s) /\ \A u \in S : ~Supersedes(u, t)
<1>1. {t \in S : Covers(t, s)} \subseteq Slot /\ {t \in S : Covers(t, s)} # {}
  OBVIOUS
<1>2. PICK t \in {v \in S : Covers(v, s)} : \A u \in {v \in S : Covers(v, s)} : u <= t
  BY <1>1, Newest
<1>3. ASSUME NEW u \in S, Supersedes(u, t) PROVE FALSE
  <2>1. Covers(u, s)
    BY <1>2, <1>3, CoversAgain DEF Covers
  <2>2. u <= t /\ u > t
    BY <1>2, <1>3, <2>1 DEF Supersedes
  <2> QED
    BY <2>2, SlotsAreNumbers
<1> QED
  BY <1>2, <1>3

-------------------------------------------------------------------------------
(* The cursor is a number from the seed on, and a tick has read a number.  *)
CursorOK ==
  /\ jobs \in [Slot -> Statuses]
  /\ nextRun \in Int \cup {None} /\ tick.at \in Int /\ now \in Int
  /\ since # None => since \in Int /\ nextRun \in Int

Kept == {"pending", "running", "expired", "done"}

OnFile(s) == \E t \in Slot : Covers(t, s) /\ jobs[t] \in Kept

(* A slot that is passed, or whose row was cancelled, is covered.  The     *)
(* second half is what lets the batch find the row of its last slot there. *)
ScheduleInv ==
  /\ CursorOK
  /\ \A s \in Slot : Passed(s) \/ jobs[s] = "cancelled" => OnFile(s)

(* No row is taken back: a cover in a kept state is in one after the step. *)
LEMMA FileStays ==
  ASSUME policy' = policy, \A t \in Slot : jobs[t] \in Kept => jobs'[t] \in Kept
  PROVE  \A s \in Slot : OnFile(s) => OnFile(s)'
<1>1. \A s, t : Covers(t, s)' <=> Covers(t, s)
  BY DEF Covers, Supersedes, Bucket
<1> QED
  BY <1>1 DEF OnFile

(* A step that leaves the cursor and the covers.                           *)
LEMMA CursorStays ==
  ASSUME ScheduleInv, CursorOK', UNCHANGED <<nextRun, since>>,
         \A s \in Slot : OnFile(s) => OnFile(s)',
         \A s \in Slot : jobs'[s] = "cancelled" => jobs[s] = "cancelled" \/ OnFile(s)
  PROVE  ScheduleInv'
BY DEF ScheduleInv, Passed

(* A step that touches neither rows nor cursor.                            *)
LEMMA NothingFiled ==
  ASSUME ScheduleInv, UNCHANGED <<policy, nextRun, since, jobs>>, tick'.at \in Int, now' \in Int
  PROVE  ScheduleInv'
<1>1. CursorOK'
  BY DEF ScheduleInv, CursorOK
<1>2. \A s \in Slot : OnFile(s) => OnFile(s)'
  BY FileStays
<1> QED
  BY <1>1, <1>2, CursorStays

(* The last of each bucket of the batch is filed, unless a row of its own  *)
(* is there, and the cursor goes no further than the batch.                *)
LEMMA TickFileKept ==
  ASSUME ScheduleInv, TickFile PROVE ScheduleInv'
<1> DEFINE B == Batch(nextRun, tick.at)
<1>1. /\ nextRun \in Int /\ tick.at \in Int /\ MaxSlots \in Int /\ now \in Int
      /\ jobs \in [Slot -> Statuses]
  BY ScheduleAssumption DEF ScheduleInv, CursorOK, TickFile
<1>2. /\ jobs' = [s \in Slot |-> IF s \in Filed(B) /\ jobs[s] = "none" THEN "pending" ELSE jobs[s]]
      /\ nextRun' = CursorAfter(nextRun, tick.at)
      /\ tick' = NoTick /\ UNCHANGED <<policy, since, now>>
  BY DEF TickFile, File
<1> HIDE DEF B
<1>3. /\ jobs' \in [Slot -> Statuses]
      /\ \A s \in Slot : jobs'[s] = IF s \in Filed(B) /\ jobs[s] = "none" THEN "pending" ELSE jobs[s]
  BY <1>1, <1>2 DEF Statuses
<1>4. CursorOK'
  <2>1. nextRun' \in Int
    BY <1>1, <1>2 DEF CursorAfter
  <2>2. tick'.at \in Int
    BY <1>2 DEF NoTick
  <2> QED
    BY <1>1, <1>2, <1>3, <2>1, <2>2 DEF ScheduleInv, CursorOK
<1>5. \A s \in Slot : OnFile(s) => OnFile(s)'
  <2>1. \A t \in Slot : jobs[t] \in Kept => jobs'[t] \in Kept
    BY <1>3 DEF Kept
  <2> QED
    BY <1>2, <2>1, FileStays
<1>6. ASSUME NEW s \in Slot, s \in B PROVE \E t \in Filed(B) : t \in Slot /\ Covers(t, s)
  <2>1. B \subseteq Slot /\ Covers(s, s)
    BY DEF Batch, Covers, B
  <2>2. PICK t \in B : Covers(t, s) /\ \A u \in B : ~Supersedes(u, t)
    BY <1>6, <2>1, LastCover
  <2> QED
    BY <2>1, <2>2 DEF Filed
<1>7. ASSUME NEW s \in Slot, s \in B PROVE OnFile(s)'
  <2>1. PICK t \in Filed(B) : t \in Slot /\ Covers(t, s)
    BY <1>6, <1>7
  <2>2. Covers(t, s)'
    BY <1>2, <2>1 DEF Covers, Supersedes, Bucket
  <2>3. CASE jobs[t] # "cancelled"
    <3>1. jobs'[t] \in Kept
      BY <1>1, <1>3, <2>1, <2>3 DEF Kept, Statuses, Ended
    <3> QED
      BY <2>1, <2>2, <3>1 DEF OnFile
  <2>4. CASE jobs[t] = "cancelled"
    <3>1. PICK u \in Slot : Covers(u, t) /\ jobs[u] \in Kept
      BY <2>1, <2>4 DEF ScheduleInv, OnFile
    <3>2. OnFile(s)
      BY <2>1, <3>1, CoversAgain DEF OnFile
    <3> QED
      BY <1>5, <3>2
  <2> QED
    BY <2>3, <2>4
<1>8. ASSUME NEW s \in Slot, Passed(s)' PROVE OnFile(s)'
  <2>1. since # None /\ since <= s /\ s < nextRun'
    BY <1>2, <1>8 DEF Passed
  <2>2. CASE s < nextRun
    BY <1>5, <2>1, <2>2 DEF ScheduleInv, Passed
  <2>3. CASE ~(s < nextRun)
    <3>1. s \in Int
      BY SlotsAreNumbers
    <3>2. s <= tick.at /\ s < nextRun + MaxSlots /\ nextRun <= s
      BY <1>1, <1>2, <2>1, <2>3, <3>1 DEF CursorAfter
    <3>3. s \in B
      BY <3>2 DEF Batch, B
    <3> QED
      BY <1>7, <3>3
  <2> QED
    BY <2>2, <2>3
<1>9. ASSUME NEW s \in Slot, jobs'[s] = "cancelled" PROVE OnFile(s)'
  <2>1. jobs[s] = "cancelled"
    BY <1>3, <1>9
  <2> QED
    BY <1>5, <2>1 DEF ScheduleInv
<1> QED
  BY <1>4, <1>8, <1>9 DEF ScheduleInv

(* A seed passes no slot: the cursor starts where the schedule does.       *)
LEMMA TickSeedKept ==
  ASSUME ScheduleInv, TickSeed PROVE ScheduleInv'
<1>1. /\ nextRun' = tick.at + 1 /\ since' = tick.at + 1 /\ tick' = NoTick
      /\ UNCHANGED <<policy, jobs, now>> /\ tick.at \in Int
  BY DEF TickSeed, ScheduleInv, CursorOK
<1>2. nextRun' \in Int /\ since' \in Int /\ tick'.at \in Int
  BY <1>1 DEF NoTick
<1>3. CursorOK'
  BY <1>1, <1>2 DEF ScheduleInv, CursorOK
<1>4. \A s \in Slot : ~Passed(s)'
  BY <1>1, <1>2, SlotsAreNumbers DEF Passed
<1>5. \A s \in Slot : OnFile(s) => OnFile(s)'
  BY <1>1, FileStays
<1> QED
  BY <1>1, <1>3, <1>4, <1>5 DEF ScheduleInv

(* A sweep cuts nothing but what a newer waiting row of its bucket covers, *)
(* and the newest waiting row of a bucket is not cut.                      *)
LEMMA SweepKept ==
  ASSUME ScheduleInv, NEW w \in Worker, Sweep(w) PROVE ScheduleInv'
<1>1. /\ jobs \in [Slot -> Statuses] /\ UNCHANGED <<policy, nextRun, since, tick, now>>
      /\ jobs' = [s \in Slot |-> IF s \in Superseded THEN "cancelled" ELSE jobs[s]]
  BY DEF ScheduleInv, CursorOK, Sweep
<1>2. /\ jobs' \in [Slot -> Statuses]
      /\ \A s \in Slot : jobs'[s] = IF s \in Superseded THEN "cancelled" ELSE jobs[s]
  BY <1>1 DEF Statuses, Ended
<1>3. CursorOK'
  BY <1>1, <1>2 DEF ScheduleInv, CursorOK
<1>4. ASSUME NEW s \in Slot, OnFile(s) PROVE OnFile(s)'
  <2> DEFINE L == {t \in Slot : jobs[t] \in Live}
  <2>1. PICK t \in Slot : Covers(t, s) /\ jobs[t] \in Kept
    BY <1>4 DEF OnFile
  <2>2. CASE jobs[t] \in Live
    <3>1. \E u \in L : Covers(u, s)
      BY <2>1, <2>2
    <3>2. L \subseteq Slot
      OBVIOUS
    <3> HIDE DEF L
    <3>3. PICK u \in L : Covers(u, s) /\ \A v \in L : ~Supersedes(v, u)
      BY <3>1, <3>2, LastCover
    <3>4. u \in Slot /\ jobs[u] \in Live /\ u \notin Superseded
      BY <3>3 DEF Superseded, L
    <3>5. jobs'[u] \in Kept
      BY <1>2, <3>4 DEF Live, Kept
    <3>6. Covers(u, s)'
      BY <1>1, <3>3 DEF Covers, Supersedes, Bucket
    <3> QED
      BY <3>4, <3>5, <3>6 DEF OnFile
  <2>3. CASE jobs[t] \notin Live
    <3>1. jobs'[t] \in Kept
      BY <1>2, <2>1, <2>3 DEF Superseded
    <3>2. Covers(t, s)'
      BY <1>1, <2>1 DEF Covers, Supersedes, Bucket
    <3> QED
      BY <3>1, <3>2 DEF OnFile
  <2> QED
    BY <2>2, <2>3
<1>5. ASSUME NEW s \in Slot, s \in Superseded PROVE OnFile(s)
  BY <1>5 DEF Superseded, OnFile, Covers, Live, Kept
<1> QED
  BY <1>1, <1>2, <1>3, <1>4, <1>5, CursorStays

(* The queue moves one row from one kept state to another.                 *)
LEMMA RowMoves ==
  ASSUME ScheduleInv, NEW s \in Slot, NEW to \in Kept, jobs[s] \in Kept,
         jobs' = [jobs EXCEPT ![s] = to], UNCHANGED <<policy, nextRun, since, tick, now>>
  PROVE  ScheduleInv'
<1>1. /\ jobs' \in [Slot -> Statuses]
      /\ \A t \in Slot : jobs'[t] = IF t = s THEN to ELSE jobs[t]
  BY DEF ScheduleInv, CursorOK, Statuses, Kept, Ended
<1>2. CursorOK'
  BY <1>1 DEF ScheduleInv, CursorOK
<1>3. \A t \in Slot : OnFile(t) => OnFile(t)'
  BY <1>1, FileStays
<1>4. \A t \in Slot : jobs'[t] = "cancelled" => jobs[t] = "cancelled"
  BY <1>1 DEF Kept
<1> QED
  BY <1>2, <1>3, <1>4, CursorStays

-------------------------------------------------------------------------------
LEMMA InitKept ==
  ASSUME Init PROVE ScheduleInv
BY DEF Init, ScheduleInv, CursorOK, Statuses, NoTick, Passed

LEMMA StepKept ==
  ASSUME ScheduleInv, [Next]_vars PROVE ScheduleInv'
<1>1. tick.at \in Int /\ now \in Int
  BY DEF ScheduleInv, CursorOK
<1>2. ASSUME NEW w \in Worker, TickNothing(w) \/ TickLock(w) \/ Start(w) \/ Stop(w)
      PROVE  ScheduleInv'
  BY <1>1, <1>2, NothingFiled DEF TickNothing, TickLock, Start, Stop
<1>3. CASE \E w \in Worker : Sweep(w)
  BY <1>3, SweepKept
<1>4. CASE Commit
  BY <1>4, TickSeedKept, TickFileKept DEF Commit
<1>5. CASE TickFails
  BY <1>1, <1>5, NothingFiled DEF TickFails, NoTick
<1>6. CASE \E w \in Worker, s \in Slot : Claim(w, s)
  BY <1>6, RowMoves DEF Claim, Kept
<1>7. CASE \E s \in Slot : Settle(s) \/ Expire(s) \/ Reap(s)
  BY <1>7, RowMoves DEF Settle, Expire, Reap, Moves, Kept
<1>8. CASE Tick
  <2>1. now' \in Int
    BY <1>1, <1>8 DEF Tick
  <2> QED
    BY <1>1, <1>8, <2>1, NothingFiled DEF Tick
<1>9. CASE UNCHANGED vars
  BY <1>1, <1>9, NothingFiled DEF vars
<1> QED
  BY <1>2, <1>3, <1>4, <1>5, <1>6, <1>7, <1>8, <1>9 DEF Next

(* Catching up never loses an occurrence, however long the backlog and     *)
(* wherever batches and sweeps cut it.                                     *)
THEOREM SlotsAreKept == Spec => []NoSlotLost
<1>1. Init => ScheduleInv
  BY InitKept
<1>2. ScheduleInv /\ [Next]_vars => ScheduleInv'
  BY StepKept
<1>3. ScheduleInv => NoSlotLost
  BY DEF ScheduleInv, NoSlotLost, OnFile, Kept
<1> QED
  BY <1>1, <1>2, <1>3, PTL DEF Spec

(* A slot that ended is never filed again.                                 *)
THEOREM EndsAreFinal == Spec => EndedStays
<1>1. Init => ScheduleInv
  BY InitKept
<1>2. ScheduleInv /\ [Next]_vars => ScheduleInv'
  BY StepKept
<1>3. ScheduleInv /\ [Next]_vars => [\A s \in Slot : jobs[s] \in Ended => jobs'[s] = jobs[s]]_vars
  <2> SUFFICES ASSUME ScheduleInv, Next, NEW s \in Slot, jobs[s] \in Ended
               PROVE  jobs'[s] = jobs[s]
    OBVIOUS
  <2>1. jobs \in [Slot -> Statuses] /\ jobs[s] \notin {"none", "pending", "running", "expired"}
    BY DEF ScheduleInv, CursorOK, Ended
  <2>2. CASE UNCHANGED jobs
    BY <2>2
  <2>3. CASE \E w \in Worker : Sweep(w)
    BY <2>1, <2>3 DEF Sweep, Superseded, Live
  <2>4. CASE TickFile
    BY <2>1, <2>4 DEF TickFile, File
  <2>5. CASE \E w \in Worker, t \in Slot : Claim(w, t)
    BY <2>1, <2>5 DEF Claim
  <2>6. CASE \E t \in Slot : Settle(t) \/ Expire(t) \/ Reap(t)
    BY <2>1, <2>6 DEF Settle, Expire, Reap, Moves
  <2> QED
    BY <2>2, <2>3, <2>4, <2>5, <2>6
       DEF Next, TickNothing, TickLock, Start, Stop, Commit, TickSeed, TickFails, Tick
<1> QED
  BY <1>1, <1>2, <1>3, PTL DEF Spec, EndedStays
===============================================================================
