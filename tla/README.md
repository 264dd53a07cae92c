# Verification of the swarm epoch system, its scheduler and the job queue

This directory holds TLA+ models of the parts of `robotmoney-frontend` that
coordinate: the epochs of the investment swarm, the settlement of a closed
epoch, the takes members file, the system scheduler with the stream that keeps
its copy current, and the job queue of the analytics pipeline with its workers
and schedules. Each module is translated from the source
(`backend/src/swarm`, `backend/src/pipeline`, `backend/src/worker`,
`backend/src/api/routes/pipeline.ts`, `scripts/lib/system-scheduler` and the
migrations they rest on), TLC checks it on small instances, and TLAPS proves
the main results for every value of the constants. `PROJECT.json` lists the
components, the runs, the lines each definition models, the hazards and the
theorems.

## The system

The repository is a TypeScript site with an analytics backend. These parts
coordinate concurrent actors; the rest transforms or presents data.

| Component | State | Operations | What is hard | What makes it correct |
|---|---|---|---|---|
| Epoch API (`epoch.ts`, `admin.ts`) | `swarm_subjects`, `swarm_sessions`, the event log | open, turn over, activate, deactivate, update | opens take no lock; boundaries are retried; admins move the grid | one open window, a chain without forks, one answer per boundary, a log that matches the rows |
| Take intake (`domain.ts`) | takes with a final flag, seats, absences | submit (retry lookup, checks, locked insert), record absences, forced excuse | two containers of one member, copies of a submission, the close | every seated member took part or is absent, one final take, the cap |
| Settlement (`epoch.ts`, `domain.ts`) | session state, judging deadline, consensus, judgements | aggregate, request judging, submit judgement, finalize, publish | overlapping requests, answers at the deadline, judges that change | decided once, by the deadline, for a judge that earned it |
| System scheduler (`scripts/lib/system-scheduler`) | timers, driven chains, stream cursor | apply event, fire boundary, drive settlement, rebuild, reconnect | everything is re-entrant; rebuilds overtake chains; calls are retried | every closed epoch is published; no event is skipped |
| Event stream (`domain.ts`, `api-client.ts`) | the log's head and floor, the send buffer | serve, keepalive, resync | dropped connections, truncated logs, slow readers | a subscriber is told when it missed something |
| Job queue (`pipeline/queue-store.ts`, `routes/pipeline.ts`) | jobs, leases, attempts, receipts, schedules | claim, renew, fenced write, settle, reap, release, tick, sweep | calls outlive their clients, writes are replayed from receipts, ticks overlap | an ordered journal per job, a bounded number of attempts, no lost slot |
| Pipeline worker (`backend/src/worker`) | the drain loop, the key of each write, its shutdown | start, boot tick and sweep, drain, retry, stop | crashes and stops between any two steps; a zombie that still works | what it was told is on file, every job ends |
| Everything else | - | - | - | presentation, arithmetic on data, external reads, operator scripts |

The scheduler owns time and calls the API; the API owns the rows, answers every
call idempotently and appends an event to the log in the transaction of each
change; members and judges call the API on their own clocks. The database clock
decides every comparison with a stored instant. Workers reach the queue through
the API as well: they claim, renew and settle by calls that may be lost or
executed after the client gave up, and every worker ticks the schedules that
file the jobs.

## Modules

| Module | Models | Notes |
|---|---|---|
| `Settlement` | one closed session from `window_closed` to `published` | aggregate is split into its read and its write; every other operation is one transaction that locks the session |
| `Decision` | the abstract promise of a settlement: undecided, then one outcome for ever | `Settlement` implements it with `ImplementsDecision` |
| `JudgeDraw` | the rule and the loop of `judge-draw.ts` | the number of words is a constant, `TWO_POW_32` in the code |
| `EpochGrid` | the arithmetic of `gridClose` | floor and ceil over integers |
| `EpochLifecycle` | one subject: opens, boundaries, edits, the log | an open is three steps, since it locks nothing; boundaries and edits lock the subject's row |
| `EpochChain` | what participants are promised of one subject's epochs | `EpochLifecycle` implements it with `ImplementsEpochChain` |
| `TakeIntake` | one session's takes up to its close | a submission is eight statements; the locks are the requests that hold them |
| `AtomicIntake` | a take API without statements and locks: one answer at one instant | `TakeIntake` implements it with `ImplementsAtomicIntake` |
| `EventStream` | the event log, the loop that serves the scheduler's socket, the network below it | one socket, the one still listened to |
| `StreamConsumer` | the consumer, its transport and the reconnect loop, composed with `EventStream` | a task is a call that awaits; it may outlive its socket and its rebuild |
| `CurrentCopy` | what a clock that asks "am I current?" is promised | `StreamConsumer` implements it with `ImplementsCurrentCopy` |
| `SettlementDriver` | the scheduler's clock settling one closed epoch | extends `Settlement`: its calls run the API's actions |
| `BoundaryClock` | the scheduler's clock at one subject's boundaries | extends `EpochLifecycle` in the same way |
| `JobQueue` | jobs, leases, receipts, API calls and workers | a fenced write is a lookup and a transaction; every other call is one statement |
| `FencedJob` | what the queue promises of one job, whoever works on it | `JobQueue` implements it for each job with `ImplementsFencedJob` |
| `JobSchedule` | one schedule row, its slots, the ticks and the sweep of a starting worker | time counts cron occurrences |
| `SettlementProofs`, `EpochProofs`, `TakeProofs`, `StreamProofs`, `DriverProofs`, `BoundaryProofs`, `JobQueueProofs`, `JobScheduleProofs` | theorems | see below |
| `MC...` | instances for TLC; `StreamConsumer` needs none | |

The names of variables are the columns' names in camel case, the names of
actions those of the functions. History variables are marked as such where they
are declared (`kept`, `reported`, `answered`, `gaveUp`, `releases`,
`confirmed`); no guard reads one. `since` and `stale` of `JobSchedule` are history too.

### Settlement

The state is the session's row and its judgements. `AggregateRead` is the
state read of `aggregateEpoch`, `AggregateWrite` the later UPDATE by id, which
checks nothing; `Request` is the set of aggregate calls that may overlap.
`RequestJudging` sets an absolute deadline once. `SubmitJudgement` records an
answer with the reason it may not win. `FinalizeOff`, `FinalizeDraw`,
`FinalizeNoConsensus`, `FinalizeLegacy` and `FinalizeReplay` are the branches of
`finalizeEpoch`, with the publication each of them ends in. The rollup, the
opinions and the drawn index are data; the draw is any member of the candidate
set. Why any, and each as likely as another, is `JudgeDraw`: `RejectionLimit`,
`RecomputeDrawnIndex` and `DrawIndex` are the functions of those names. The code
takes the floor of a quotient of doubles; a word is below 2^32, so rounding
never reaches the next integer and the floor is exact. Initial states include a
session whose judge mode was never captured, and one that an older version left
`judged`.

`Decision` keeps four phases of the judging deadline, so that it can say that no
outcome of a judging is decided before the deadline is due, and that answers
count only until it has passed. The exception is the session that an older
version left `judged`: it took its one answer as the consensus on arrival,
nothing opens its judging again, and the mapping (`phaseBar`) has it start over.

### EpochGrid and EpochLifecycle

An instant is an integer. `OpenCheck`, `OpenPlace`, `OpenInsert` are the
statements of `openEpoch`; `OpenAbandon` is the request that loses on the
unique index, or dies. `TurnOver(s)` names the session it closes;
`TurnOverReplay(s)` is the guarded answer to a retry. `Update` is one of three
changes to the grid: a new duration, which re-anchors at the open window's
close, an anchor that the operator names, or neither. The log is the sequence
of stream events.

`EpochChain` is what is left when rows, log and requests are taken away: the
closes advertised so far, the epoch that runs, the boundaries told. Its mapping
takes each from another place, the closes and the running epoch from the rows,
the boundaries from the log, and what callers heard from the answers, so a step
that changed one of them without the others would be no step of `EpochChain`.

### TakeIntake

`LookUp` is the retry lookup; `CheckWindow`, `CheckSeat` and `CheckCap` are the
unlocked reads of the session, the roster and the count, in the code's order,
`LockSession` and `LockTakes` the row lock and the advisory lock, `NumberTake`
what the INSERT reads and `WriteTake` the row it writes with the trigger of
migration 0092 and the unique constraints. An INSERT that selects nothing is
followed by a count, which the member's lock keeps as the INSERT saw it, so both
are one step. `TurnOver` waits for the row lock, closes the window and records
absences in a savepoint, which may fail and lose them (`lost`).

`AtomicIntake` has no statements: a request is admitted while its member is
expected, and then accepted, referred to the record or refused at one instant,
for a reason that holds at that instant. Admission is a step of its own because
the code reads the roster once and never again: a take may be accepted after its
member was excused, if it was admitted before.
Tokens, keys, dates and report snapshots are checks on data that no property
here tells apart, and a session without a roster (the legacy fixture path) is
left out.

### EventStream and StreamConsumer

`EventStream` is `serveSchedulerStream`, one action per poll, keepalive or end
of a socket, above a log with a head and the retained numbers. A number is taken
in the transaction that it numbers, so `Commit` is one step. `Prune` goes by
`committed_at`, which is a transaction's start, and so may leave a hole. `Break`,
`Stall` and `LoseFrame` are the network; a revoked token ends a socket as a
break does.

In `StreamConsumer`, `tasks` holds the calls that wait for an answer: who made
the call (the process start, a frame, the watchdog, the reconnect loop), the
generation it rebuilds, and where it waits: `read` and `answered` around the
full read, `opening` for the socket, `timers` for the hooks that set timers,
`replay` between held frames, `applying` for an event. Everything between two
awaits of `#rebuild`, `#receiveEvent`, `receive`, `checkKeepalive`, `subscribe`
and `#reconnect` is one step. The hooks may await, as the consumer's own
interface allows. `copy` is the set of events that the timers reflect. Backoff
and timers are untimed, `markStale` has no caller outside tests, and health
flags are left out.

### SettlementDriver

A chain is one run of `#driveSettlement`: it makes a call, awaits it and goes on
by the answer. A request in `call` is the API's side: when the client gives up
(`Lose`), the request stays with nobody waiting and is still served, because
nothing cancels it at the API. `Resume` is `#resumeSettlement` with its early
returns (published, driven, a timer already held), `ParkOrFinalize` the branch on
the stored deadline, `ReceiveEarly` the re-armed timer with its own budget,
`Retry` the budget that ends on the health surface
(`exhausted`, the part of `clock.health` that names calls). `refused` is the
clock's own record of refusals: it stays in memory, and no property counts it
as reported. `Rebuild` clears timers and
marks and waits for nothing, so chains of the old view run on. `hints` are the
two ways the clock hears of a close it made: the turnover's answer and the
event. The scheduler's clock differs from the database's by `skew`. The constant
`Overlap` says whether an aggregate may be sent while an earlier one still
runs; the passing run assumes not, and `driver_race` drops the assumption.
Left out: several sessions at once (chains of different sessions share
nothing but the stream), the wording of refusals, backoff, and what the health
report says besides spent budgets (a rejected token, the last error).

### BoundaryClock

One subject. A task is a call the clock awaits (a turnover or a first opening)
with the attempts it spent; requests are the API's side as above. `ApplyEvent`
handles the log's events in order while the copy is current, `Rebuild` arms or
fires every open window of the full read, `BoundaryFalls` ignores a timer when
the copy is not current. `Peer` is a second scheduler, `Admin` the operator.
The lead of the scheduler's clock over the database's is never negative: a
scheduler behind the database is only late. With `Races = FALSE` the admin
deactivates only while no opening is in flight, and activates only when no
turnover is in flight, no timer of a closed window is left, and the clock, or the
full read that a rebuild will consume, has every event (`BoundaryPast`). Nothing
in `admin.ts` enforces this: activation and deactivation look at version and
status only. It is an assumption about operators, who switch a subject seldom,
and it is about more than calls in flight. Every part is needed: an activation
over a turnover in flight, over a stale timer or ahead of the log can leave a
window without its timer. `boundary_race` drops all of it. `gaveUp` marks a spent budget or a final refusal: the code then
waits for an operator, and the properties say nothing further of that window.

### JobQueue and FencedJob

`status`, `attempts`, `holder`, `due` are the columns of `jobs`; `aged` says that
`locked_at` is past the visibility timeout. `journal` is what a job has on
record: the writes of its handlers and its `job_runs`, in commit order.
`receipts` are the idempotency keys on file. A call has a client (`by`), which may
be gone, and goes on without it. `LookUp` is `fencedWrite`'s early receipt lookup,
`CommitWrite` its transaction with the fence and the second lookup,
`CommitSettle` the settle's transaction, whose fence is in `settleJob` and which
has no second lookup. A handler makes its writes one after another, and one that
failed does not stop it: the error is thrown in the handler, which may let it
pass, write on and end as it likes, as `wallet.sample_balances` and
`analytics.parity_sweep` do (`AfterError`). So the copy of a write that the client
gave up on (`Lose`, `AfterLoss`) may commit after a later write. `confirmed` is
what a worker was ever told is done. `Reap` and `ReleaseOwned` are one statement each;
`AgeTended` is a lease that expires under a live handler whose renewals failed.
`Stop`, `SendRelease`, `Exit` are `doStop`, which waits a bounded time and then
releases whatever is in flight; `Crash` may happen anywhere. A lane, a priority
and a concurrency limit only choose among due jobs and are left out, as are the
payload of a write, heartbeats, and hand-enqueued rows; a row that a sweep
cancels is in `JobSchedule` only.

`FencedJob` is the fencing-token contract: a job is taken under increasing
tokens, only the current token records, at most once per entry, and nothing is
recorded once the job is finished or dropped.

### JobSchedule

One row of `job_schedules` under one of the three catch-up policies. `TickLock`
and `TickFile` are the transaction that `FOR UPDATE SKIP LOCKED` makes exclusive;
`Batch` is the clamp of `MAX_SLOTS_PER_TICK`, `Filed` the last slot of each
bucket, `CursorAfter` the cursor the transaction stores, `File` the insert under
the dedupe key. A starting worker awaits one tick (`TickNothing`, `TickSeed`,
`TickFile`) and then sweeps. Leases and attempts are in `JobQueue`; here a row is
pending, running, expired, cancelled or done; done is every end a worker or the
reaper gives it, failures included. The API's clock is the database's. Toggles
of `enabled`, edits of the cron expression and hand-enqueued rows are left out.

## Runs

| Run | Question | Bounds |
|---|---|---|
| `settlement` | Is the draw even and replayable (the ASSUMEs of `MCSettlement`, for every list and every source over 11 words and two tries)? Is the decision taken once, for a judge that earned it, never against an answer that was on time, does it implement `Decision`, does the deadline stay, and is every captured session decided? | two judges, one aggregate request at a time, deadline 2, clock to 3: an answer can be early, at the deadline and late |
| `driver` | Does the clock ever forget a session whose judge mode was captured, wait for anything but the stored deadline, believe a session published that is not, or fail to settle a captured one without an entry on the health surface? | two chains, two requests, one judge, a clock one tick fast or slow, two attempts, two faults |
| `driver_race` | Is the decision taken once when a retry does not wait for the call it replaces? It is not | one fault |
| `epoch` | One window, forward chain, one answer per boundary, log equal to rows, and is `EpochChain` kept? | two overlapping opens, three rows, three edits, four instants |
| `boundary` | Does a quiet clock hold a timer for each open window, close none early, and always catch up? | three windows, two tasks and requests, two admin edits under `Races = FALSE`, one fault, a clock that runs ahead |
| `boundary_race` | Does it with an admin that switches the subject at any time? It does not | two windows, one edit, one fault |
| `takes` | Final flag, absences, exact retries, fixed closed set, nobody stuck, and is every answer, the cap's included, one that `AtomicIntake` allows? | three requests, three nonces, two texts, two members, cap 2, so the third meets the cap; one instant before the close and one at it |
| `stream` | Does a current copy have every event up to the last applied, and a live socket, and is `CurrentCopy` kept? | two events and any one fault; one frame before a keepalive: a gap, a hole, an overflow and a replay each happen |
| `stream_overlap` | Does an overtaken rebuild bring back nothing, and does the clock become current for good? | one event, two faults: drop, watchdog and reconnect rebuilds overlap |
| `queue` | Is each job's journal in order but for late copies of unconfirmed writes, is a worker told the truth, is the retry budget kept, does every job implement `FencedJob`, and does it end? | one job (no statement relates two jobs but the release), two workers, two calls, two attempts and a third after a release, two writes in the first, one in the second (`WritesOf`), one fault of any kind |
| `schedule` | Is any occurrence lost to the clamp or a sweep, does one run twice, and is each worked to an end? | two workers, four occurrences in two days, batches of two, one fault, all three policies |
| `schedule_stale` | Does a superseded row that waited when a worker started ever run? It does | no fault, no clamp |

In the stream the bounds are `MaxHead` (events), `MaxWire` (frames before a
keepalive, in flight or held; events are bounded by `MaxHead`) and `MaxFaults`.
In the driver and the boundary clock `Chain`, `Task` and the requests bound what
runs at once, and `MaxAttempts` is the retry budget, which is larger in the
code; two is the least that has both a retry and a last attempt. In the queue
two writes of one attempt are the fewest of which one can overtake the other; the
run has the outcomes `succeeded` and `failed`, since `degraded` and `refused` only
choose another final status, and the theorems hold for all four. The theorems
about the stream and the queue need none of these bounds.

Symmetry is used in safety runs only. In `takes` nothing tells members, nonces,
texts or requests apart but the takes that requests carry, which never change;
the run starts from one assignment of each class that renaming gives
(`SpecUpToNames`), and the theorems are about `Spec`.
`CHECK_DEADLOCK FALSE` is given where the
system may rest: an inactive subject without a window, an epoch whose requests
have all ended, a decided session, a clock at its bound, a quiet stream, jobs
that have all ended.

### What the violations show

* `driver_race`: `aggregateSession` writes by id alone after a state read
  outside its transaction. An aggregate whose answer was lost still runs when
  its retry has led the session through judging to publication; its late write
  sets the state back, and the session is decided again.
* `boundary_race`: `openEpoch` appends no event, so only the caller that asked
  for an opening learns of it. One left in flight by a process that died can
  commit after an admin deactivated the subject and after the next process took
  its full read; no timer then waits for the window's close until another
  rebuild, where `clock.ts:6` says the clock holds one boundary timer per
  `collecting` session.
* `schedule_stale`: a worker that starts while another worker's tick holds the
  schedule row gets an empty tick, sweeps before the newer row is on file, and
  claims the superseded row, where `task-queue-and-workers.md:108` says that a
  restored dump's stale backlog never runs.

Disagreements met while modelling that no run singles out:

* an open computes its close from the grid it read; a duration change that sees
  no open window keeps the anchor, and the window is then inserted off the new
  grid (`epoch.ts:363` against `system-scheduler-spec.md:249`). `EpochChain`
  and `GridIsKept` say what holds instead;
* a copy of a submission that passed the retry lookup too early is refused as
  late or capped although its take is on file (`domain.ts:2330`);
* an application that outlives the rebuild that replaced its copy still writes
  `#lastApplied`, below the new cursor (`stream-consumer.ts:314`); the next frame
  reads as a gap and costs one more full read;
* of two overlapping copies of a settle, the slower is answered `lease_lost`
  although its receipt is on file by then, since a settle has no lookup inside
  its transaction; the worker treats both answers alike;
* a stop releases before an in-flight claim commits, and the row it claims waits
  for the reaper;
* a backlog of more than a thousand slots under `collapse-per-bucket` or
  `latest-only` files one row per batch where a bucket spans several, since the
  clamp flushes each batch by itself;
* both settlement calls refuse a session with no captured judge mode, where the
  comment at `domain.ts:6450` says they accept it. The clock keeps the refusal in
  memory, and its health report (`clock.ts:198`) does not list it, where the
  comment at `clock.ts:668` speaks of an operator's health view that would.
  `NothingForgotten` and `SettledOrSaid` are therefore stated of captured
  sessions;
* a keepalive reads the head in a statement of its own after the poll, so it may
  announce an event that the next poll would serve, which costs a rebuild.

## Fairness

`Settlement!FairSpec` assumes that the scheduler keeps calling each settlement
operation while it is enabled (`clock.ts` retries, and every rebuild resumes
what is not published) and that the clock advances. Judges are under no
fairness: they may never answer.

`SettlementDriver!FairDriverSpec` replaces that assumption by the clock itself:
the event loop runs every task that can go on, the API answers what it does not
fail, an armed timer falls, and a lost copy is read anew. Faults, judges and
dropped streams are under no fairness, and the property allows the other end the
code has, a spent budget on the health surface; a refusal does not count.
`BoundaryClock!FairClockSpec` is the same for boundaries; the admin and the second
scheduler are under no fairness.

`StreamConsumer!FairSpec` assumes that the API polls and beats, that frames are
handed on, that every call is answered or fails (each request has a ceiling),
and that the watchdog on a stalled socket and the reconnect loop run, since both
are on timers. Commits and faults are under no fairness.

`JobQueue!FairQueueSpec` assumes that drain loops and handlers go on, that a
stopped process exits (the orchestrator kills it after its grace period) and is
restarted, that calls are served and answers received, that backoff ends, that
the lease of a dead holder ages, and that the reaper runs, which every worker
does on a timer. No renewal is assumed, and faults are under none.
`JobSchedule!FairSpec` assumes restarts, ticks, sweeps and that some worker, not
each, obtains the schedule's row, which is all that `SKIP LOCKED` gives.

Faults are finite because a bound says so, and each liveness property is about
what follows the last. `takes` states no fairness: `NobodyStuck` says that some
step is always possible.

## Proofs

Everything below is checked by TLAPS for every set of judges, members, requests,
rows, opens, durations, anchors, jobs, workers, calls and backlogs. Every safety
invariant, action property and refinement that a passing run checks has its
theorem, but for `NobodyStuck`; each inductive invariant was checked by TLC on
the run's instance first.

* `SettlementProofs`. `TypeCorrect` and `DeadlineIsFixed` hold with any
  overlap. `SettlementSafe`, `WinnerIsEarned`, `AnswersAreOne`,
  `DecisionIsFinal` and `SettlementRefines` assume `OneAtATime` (at most one
  aggregate request), which is what `driver_race` shows to be necessary.
  `SettlementInv` is inductive: it relates the state, the deadline, the recorded
  instants and the answers, since "an answer that counts was accepted by the
  deadline" cannot be carried without saying when the consensus was recorded.
  `NobodyIsIgnored` reads the other way, from the instant to the reason on the
  answer, and needs more (`WeighedInv`): an answer refused as too late is later
  than the deadline, one still awaiting the draw has not outlived the judging,
  none finds a consensus recorded while judging, and in a session that an older
  version judged too late such an answer came later still.
  `DrawIsFair` and `DrawRejectsFew` count words: the values that pick a position
  are matched one to one with the rounds of the list that fit below the limit
  (`Rounds`), and the rejected ones are the rest, fewer than the list is long
  and fewer than half of all. `DrawRecomputes` takes the loop's first accepted
  value from `LeastNatural`, which rests on the library's well-founded order of
  finite sets, as its least-number theorem takes an operator.
* `EpochProofs` first reduces `gridClose` to two facts of integer division and
  proves that each close is the least grid instant its rule allows
  (`SlotAfterLeast`, `TurnoverCloseLeast`). `EpochInv` conjoins the properties of the `epoch` run with
  `RowsAgree` (an unused row has left no trace, only a captured close has a
  successor), without which neither the chain nor the log is inductive;
  `ChainIsOne`, `AnswersNameTheRow` and `LogIsTrue` are its corollaries.
  `TurnOver` uses `TurnoverCloseLeast` for the forward chain. `LogTells` takes
  its own step by step: what the last boundary and the last switch in the log
  say is compared with the rows, and an event of one kind leaves the other's
  last entry where it is. `GridIsKept` adds
  `SuccessorOnGrid` under the assumption that no admin names an anchor.
  `EpochsAreOneChain` maps every action to a step of `EpochChain` or to a
  stutter: an insert is one new row and nothing else (`RowBegins`), a boundary
  is one entry in the log and one answer, both about the epoch that runs
  (`BoundaryEnds`, which needs `OneCollecting`), and a replay finds in the log
  what it answers (`ReplayRepeats`, which needs `LogMatchesRows` and that only a
  captured close has a successor).
* `TakeProofs`. `IntakeInv` adds to the properties of the `takes` run what the
  two locks protect: one request at a time is between its advisory lock and its
  write for a member, and what a numbered request has read (the window open,
  room under the cap, the newest revision and an instant no earlier than any
  take) is still so when it writes. `TakeOrAbsent` also needs that every take is
  earlier than the close, since the boundary counts by instant; `SuccessIsOnFile`
  that a nonce is on file once. `ClosedSetStays` follows because no request is
  numbered once the window has closed. `NobodyStuck` speaks of ENABLED and stays
  with TLC. `IntakeIsAtomic` shows that the intake is linearizable: of the eight
  statements the seat check is the admission, the statement that ends a request
  is its answer, and the others stutter. The write is where the abstract intake
  accepts, although it read window, count and clock a statement earlier; that
  the answer is still right then is what `NumbersHold` says of a numbered
  request, and `OnTimeIfFiled` lets the abstract boundary count takes where the
  code compares instants. `CapIsKept` is stated apart; the run checks the cap as
  part of `AtomicIntake`, which accepts nothing beyond it.
* `StreamProofs`. `StreamInv` is inductive with any number of events, faults and
  overlapping calls. `CopyIsComplete` does not carry itself: it needs that at
  most one rebuild has the current generation, that nothing is current while
  that one is in flight (`OwnerInv`), that its snapshot covers the copy it
  replaces, and that what is being applied is already in the copy (`CallFits`).
  Each step is one of three kinds: it casts doubt (`DoubtSafe`), it ends calls
  (`FewerSafe`), or it carries one call on. `NoOlder` follows from the same
  lemmas. `MaxHead`, `MaxWire` and `MaxFaults` are arbitrary.
  `CurrentlyConnected` adds `LinkInv`: what is current, or about to be, was read
  over the newest socket, and the copy has no holes. `StreamImplementsCopy` maps every action to a step of
  `CurrentCopy` or to a stutter, by the same three kinds of step.
* `DriverProofs`. `DriverInv` relates the chains to their calls: a chain waits
  for one call at most, the one it is at; a request that read the row to
  aggregate it still runs; and what an answer or a full read told stays true
  until it is used. The steps of the API come first (each is a step of
  `Settlement`, `DriverNext` refines `Next`), then those of the clock, with the
  rows standing still. `TrulyRemembered` and `TimerIsFromRow` hold whatever
  overlaps. `NeverForgotten` assumes `Overlap = FALSE` and needs a second
  invariant, `CapturedInv`: the calls for a captured session are made in the order
  in which its row can take them, so that none is refused, and a stop leaves
  either a chain, a timer, a closing still to be heard of or a spent budget. An
  aggregate that came late could set the row back under a request or a finalize,
  whose refusal no health report shows. `DriverDecidesOnce` and `DriverDecidesFairly` assume
  `Overlap = FALSE`: they derive from it that one aggregate runs at a time
  (`OneAggregate`), and reuse the settlement's own step lemmas, although
  `OneAtATime` (a bound on the set of requests) does not hold here.
  `DriverRefines` is the composition: clock and API together implement
  `Decision`, also where time goes on past the bound `Settlement` puts on it.
* `BoundaryProofs`. `DueInv` says that every session and instant the clock
  holds, in a timer, a task, a call, an answer or a full read, is one of the
  rows', and that a boundary is called only when it has passed; rows never
  change an advertised close (`StepKeepsWindows`), so it stays so while a call
  is retried or replayed. `ClosedOnTime` follows with the admin unrestrained, and
  so does `ClockUsesTheApi`: every step of the composition is a step of
  `EpochLifecycle`, whose theorems therefore hold under the clock
  (`EpochsUnderTheClock`), and clock and API together implement `EpochChain`.
  `WindowsAttended` assumes `Races = FALSE`, all of it (see BoundaryClock above):
  not only that nobody switches the subject over a call in flight, but that
  nobody activates it while a timer of a closed window is left or before the
  clock has heard of every event. `admin.ts` enforces none of this, and
  `boundary_race` shows what happens without it. Its invariant, `AttendedInv`, says that everything the clock refers
  to, and everything it will still read of the log, belongs to one era
  (`OneEra`): the chain since the last activation that found no window, in which
  the open window closes last and which ends only while the subject is inactive.
  So whatever replaces a timer, a late answer or an old event included, is no
  later than the open window's; and what takes a timer away without setting
  another is news of an era that ended. `Attended` says that something left to
  read or to do will set the timer, and `OpeningsAsked` that an opening runs for
  a call that is still counted, which is what keeps an activation from starting
  an era over one.
* `JobQueueProofs`. `QueueInv` has three parts. `RowInv` is about the tables:
  the lease columns agree with the status, what is left of the budget, and that
  journal and receipts tell the same story, in which the running attempt has
  not ended. `CallInv` is about workers and calls: a copy carries what its worker
  is at. Receipts are never taken back, so each action is proved for the rows
  (`ClaimKept`, `ReapKept`, `EntryKept`, ...) and for the calls (`CallsMove`,
  `ProcMoves`) apart. `AttemptsAgree` is what ties the two: each attempt is
  handed out once, to one worker, and nothing is written or asked under it beyond
  what its handler has got to. `JournalInOrder` needs it: a write that is
  confirmed has nothing later before it in the journal, since its handler had
  made nothing later when it was told. A handler may do anything after a write
  that failed. `JournalIsInOrder`,
  `WorkersAreToldTruly` and `TriesAreBounded` follow; `QueueImplementsFencedJob`
  maps each statement to a step of `FencedJob` for every job at once. The number
  of jobs, workers, calls, writes, attempts and faults is arbitrary.
* `JobScheduleProofs`. `NoSlotLost` is not inductive: when the batch reads its
  last slot twice, the row it finds may have been cancelled by a sweep.
  `ScheduleInv` adds that a cancelled row is covered by a newer one of its
  bucket; a sweep keeps that because the newest waiting row of a bucket
  supersedes the others and nothing supersedes it (`LastCover`). `SlotsAreKept`
  and `EndsAreFinal` hold for any policy, batch length, day and backlog.

Only model-checked: liveness (`Settles`, `SettledOrSaid`, `AlwaysCatchesUp`,
`CatchesUp`, `EveryJobEnds`, `EverySlotServed`) and `NobodyStuck`, which speaks of
ENABLED; both are out of the prover's reach.

## Plan

1. Done: the models of the epoch API, settlement, takes, stream and consumer,
   and their proofs.
2. Done: the scheduler's clock in two modules, each composed with the API it
   drives; the job queue with its refinement and proofs; the schedules, their
   proofs and those about takes.
3. Done: the proofs about the scheduler's clock in both its parts, and the
   stream's refinement of `CurrentCopy`.
4. Done: the atomic intake, the chain of epochs and the judge draw, each with
   its proofs.
5. Left to model: the pool gate, the rate limits and the caches; the smoke journal and the wallet backfill.

## Not modelled

The public read models, analytics, chain readers, consensus arithmetic,
receipts' encodings, migrations as programs, operator scripts, the frontend and
the generated packages: they transform or present data, or run once under an
operator. They are most of the repository's lines. Of the modelled components,
`PROJECT.json` names what each leaves out; the clock is partly modelled because
its health flags (a stale "degraded" that a later success of another item does
not clear, a turnover answer that replaces a newer window's timer before the
stream corrects it) are reduced to what the properties use.
