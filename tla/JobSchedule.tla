------------------------------ MODULE JobSchedule ------------------------------
(***************************************************************************)
(* One row of job_schedules and the slots it files in the queue: the tick  *)
(* every worker drives, with its catch-up policies and its clamp, and what *)
(* a starting worker does with the backlog it finds.  Time counts cron     *)
(* occurrences: slot s is due from instant s on.                           *)
(***************************************************************************)
EXTENDS Integers, FiniteSets

CONSTANTS
  Worker,       \* worker processes; each ticks the schedules
  None,
  MaxSlots,     \* MAX_SLOTS_PER_TICK
  PerDay,       \* occurrences in one UTC day
  MaxTime,      \* bound on the clock
  MaxFaults     \* bound on stops, rollbacks and expired leases

ASSUME ScheduleAssumption ==
  /\ None \notin Worker
  /\ MaxSlots \in Nat /\ MaxSlots >= 2
  /\ PerDay \in Nat \ {0} /\ MaxTime \in Nat /\ MaxFaults \in Nat

Slot   == 1 .. MaxTime
Policy == {"all", "collapse-per-bucket", "latest-only"}
Live   == {"pending", "expired"}
Ended  == {"done", "cancelled"}

VARIABLES
  policy,    \* job_schedules.catchup_policy
  nextRun,   \* job_schedules.next_run_at; None is NULL
  since,     \* the first slot the seeded schedule was to run; None before
  jobs,      \* the row filed for each slot; "running" holds a live lease
  tick,      \* the tick that holds the row: its worker and its reading of the clock
  phase,     \* how far each worker process got
  stale,     \* for each worker, the superseded rows that waited when it started
  now,
  faults

vars == <<policy, nextRun, since, jobs, tick, phase, stale, now, faults>>

NoTick == [by |-> None, at |-> -1]

Init ==
  /\ policy \in Policy
  /\ nextRun = None /\ since = None
  /\ jobs = [s \in Slot |-> "none"]
  /\ tick = NoTick
  /\ phase = [w \in Worker |-> "off"]
  /\ stale = [w \in Worker |-> {}]
  /\ now = 0 /\ faults = 0

-------------------------------------------------------------------------------
(* What a slot stands for: itself, its UTC day, or the whole backlog.      *)
Bucket(s) ==
  CASE policy = "all"                 -> s
    [] policy = "collapse-per-bucket" -> (s - 1) \div PerDay
    [] policy = "latest-only"         -> 0

Supersedes(t, s) == t > s /\ Bucket(t) = Bucket(s)

(* The due slots one tick walks through: the clamp ends a long backlog.    *)
Batch(from, at) == {s \in Slot : from <= s /\ s <= at /\ s < from + MaxSlots}

(* Mutant: the last bucket of a batch is not flushed.                      *)
Filed_unflushed(S) == {s \in S : policy = "all" \/ \E t \in S : t > s /\ Bucket(t) # Bucket(s)}

(* The last slot of each bucket in the batch.                              *)
Filed(S) == {s \in S : \A t \in S : ~Supersedes(t, s)}

(* Mutant: a full batch leaves the cursor where the batch began.           *)
CursorAfter_pinned(from, at) == IF at - from >= MaxSlots - 1 THEN from ELSE at + 1

(* The first slot not due; after a full batch, the last slot of the batch, *)
(* which the next tick reads again.                                        *)
CursorAfter(from, at) ==
  IF at - from >= MaxSlots - 1 THEN from + MaxSlots - 1 ELSE at + 1

(* Mutant: a row on file does not stop the insert.                         *)
File_again(S) == jobs' = [s \in Slot |-> IF s \in S THEN "pending" ELSE jobs[s]]

(* The dedupe key covers every row, the ended ones included.               *)
File(S) ==
  jobs' = [s \in Slot |-> IF s \in S /\ jobs[s] = "none" THEN "pending" ELSE jobs[s]]

-------------------------------------------------------------------------------
Due == nextRun # None => nextRun <= now

Ticking(w) == tick.by = w
MayTick(w) == phase[w] \in {"booting", "up"} /\ ~Ticking(w)

(* The row is not due, or another tick holds it and SKIP LOCKED passes it. *)
TickNothing(w) ==
  /\ MayTick(w) /\ phase[w] = "booting"
  /\ ~Due \/ tick # NoTick
  /\ phase' = [phase EXCEPT ![w] = "ticked"]
  /\ UNCHANGED <<policy, nextRun, since, jobs, tick, stale, now, faults>>

(* FOR UPDATE SKIP LOCKED, then the one reading of the clock.              *)
TickLock(w) ==
  /\ MayTick(w) /\ Due /\ tick = NoTick
  /\ tick' = [by |-> w, at |-> now]
  /\ UNCHANGED <<policy, nextRun, since, jobs, phase, stale, now, faults>>

Answered == phase' = [w \in Worker |->
                        IF w = tick.by /\ phase[w] = "booting" THEN "ticked" ELSE phase[w]]

(* A schedule that never ran is only given its next occurrence.            *)
TickSeed ==
  /\ tick # NoTick /\ nextRun = None
  /\ nextRun' = tick.at + 1 /\ since' = tick.at + 1
  /\ tick' = NoTick /\ Answered
  /\ UNCHANGED <<policy, jobs, stale, now, faults>>

TickFile ==
  /\ tick # NoTick /\ nextRun # None
  /\ File(Filed(Batch(nextRun, tick.at)))
  /\ nextRun' = CursorAfter(nextRun, tick.at)
  /\ tick' = NoTick /\ Answered
  /\ UNCHANGED <<policy, since, stale, now, faults>>

(* The transaction rolls back.  A worker that was starting goes on without *)
(* its sweep, which only trims a backlog.                                  *)
TickFails ==
  /\ tick # NoTick /\ faults < MaxFaults /\ faults' = faults + 1
  /\ tick' = NoTick
  /\ phase' = [w \in Worker |->
                 IF w = tick.by /\ phase[w] = "booting" THEN "up" ELSE phase[w]]
  /\ UNCHANGED <<policy, nextRun, since, jobs, stale, now>>

-------------------------------------------------------------------------------
(* A worker starts; its first claim waits for one tick and the sweep.      *)
Start(w) ==
  /\ phase[w] = "off"
  /\ phase' = [phase EXCEPT ![w] = "booting"]
  /\ stale' = [stale EXCEPT ![w] =
                 {s \in Slot : jobs[s] \in Live /\ \E t \in 1 .. now : Supersedes(t, s)}]
  /\ UNCHANGED <<policy, nextRun, since, jobs, tick, now, faults>>

(* sweepStaleBacklog: a row no worker holds is cancelled when a newer one  *)
(* of its bucket waits too.  Buckets of "all" hold one slot each.          *)
Superseded ==
  {s \in Slot : jobs[s] \in Live /\ \E t \in Slot : jobs[t] \in Live /\ Supersedes(t, s)}

Sweep(w) ==
  /\ phase[w] = "ticked"
  /\ jobs' = [s \in Slot |-> IF s \in Superseded THEN "cancelled" ELSE jobs[s]]
  /\ phase' = [phase EXCEPT ![w] = "up"]
  /\ UNCHANGED <<policy, nextRun, since, tick, stale, now, faults>>

(* The process ends.  A tick it asked for goes on in the api.              *)
Stop(w) ==
  /\ phase[w] # "off" /\ faults < MaxFaults /\ faults' = faults + 1
  /\ phase' = [phase EXCEPT ![w] = "off"]
  /\ stale' = [stale EXCEPT ![w] = {}]
  /\ UNCHANGED <<policy, nextRun, since, jobs, tick, now>>

(* The queue, as far as a slot goes: JobQueue has the leases.              *)
Claim(w, s) ==
  /\ phase[w] = "up" /\ jobs[s] = "pending"
  /\ jobs' = [jobs EXCEPT ![s] = "running"]
  /\ UNCHANGED <<policy, nextRun, since, tick, phase, stale, now, faults>>

Moves(s, from, to) ==
  /\ jobs[s] = from /\ jobs' = [jobs EXCEPT ![s] = to]
  /\ UNCHANGED <<policy, nextRun, since, tick, phase, stale, now>>

Settle(s) == Moves(s, "running", "done") /\ UNCHANGED faults
Expire(s) == Moves(s, "running", "expired") /\ faults < MaxFaults /\ faults' = faults + 1
Reap(s)   == Moves(s, "expired", "pending") /\ UNCHANGED faults

Tick ==
  /\ now < MaxTime /\ now' = now + 1
  /\ UNCHANGED <<policy, nextRun, since, jobs, tick, phase, stale, faults>>

Commit == TickSeed \/ TickFile

Next ==
  \/ \E w \in Worker : TickNothing(w) \/ TickLock(w) \/ Start(w) \/ Sweep(w) \/ Stop(w)
  \/ Commit \/ TickFails
  \/ \E w \in Worker, s \in Slot : Claim(w, s)
  \/ \E s \in Slot : Settle(s) \/ Expire(s) \/ Reap(s)
  \/ Tick

Spec == Init /\ [][Next]_vars

(* Containers are restarted, every worker ticks and reaps on a timer, and  *)
(* the queue hands out and settles what is pending.                        *)
Fairness ==
  /\ WF_vars(Tick) /\ WF_vars(Commit)
  /\ \A w \in Worker : WF_vars(Start(w)) /\ WF_vars(TickNothing(w)) /\ WF_vars(Sweep(w))
  /\ WF_vars(\E w \in Worker : TickLock(w))
  /\ \A s \in Slot : /\ WF_vars(\E w \in Worker : Claim(w, s))
                     /\ WF_vars(Settle(s)) /\ WF_vars(Reap(s))

FairSpec == Spec /\ Fairness

-------------------------------------------------------------------------------
Passed(s) == since # None /\ since <= s /\ s < nextRun

Covers(t, s) == t = s \/ Supersedes(t, s)

(* Catching up never loses work: for every occurrence the cursor has gone  *)
(* past, its own row or a newer one of its bucket is on file and was not   *)
(* cancelled, whatever the clamp split and the sweeps cut away.            *)
NoSlotLost ==
  \A s \in Slot :
    Passed(s) => \E t \in Slot : Covers(t, s) /\ jobs[t] \notin {"none", "cancelled"}

(* A slot that ended is never filed again, though a full batch makes the   *)
(* next tick read its last slot twice and several workers tick at once.    *)
EndedStays == [][\A s \in Slot : jobs[s] \in Ended => jobs'[s] = jobs[s]]_vars

(* However far behind the schedule is and whatever stops on the way, for   *)
(* every occurrence a row of its bucket at least as new is worked to its   *)
(* end: "done" stands for succeeded, failed and dead alike.                *)
EverySlotServed ==
  <>[](\A s \in Slot : since # None /\ since <= s => \E t \in Slot : Covers(t, s) /\ jobs[t] = "done")

(* docs/architecture/task-queue-and-workers.md on the sweep of a starting  *)
(* worker: "A restored dump's stale backlog therefore never runs."         *)
StaleNeverRuns ==
  [][\A w \in Worker, s \in Slot :
       Claim(w, s) => s \notin stale[w]]_vars
===============================================================================
