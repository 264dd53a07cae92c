------------------------------- MODULE JobQueue -------------------------------
(***************************************************************************)
(* The pipeline's job queue: the rows of `jobs` and `job_runs`, the API's  *)
(* queue and ingestion calls with their receipts, and the worker processes *)
(* that claim, work and settle over a connection that loses answers.       *)
(*                                                                         *)
(* A call may outlive the client that sent it: the client gives a copy up  *)
(* (a timeout, a reset, a 502 or 504 on the way) and sends another, while  *)
(* the first is still executed.  A write looks its receipt up, and in a    *)
(* transaction of its own it locks the job's row, writes and records its   *)
(* receipt; every other call is one statement.                             *)
(***************************************************************************)
EXTENDS Naturals, Sequences, FiniteSets

CONSTANTS
  Job, Worker,
  Call,         \* bound: calls in flight at once
  None,         \* SQL NULL
  Run,          \* a settle's entry in a journal; a write's is its number
  Outcome,      \* how a handler may end ("refused": terminally degraded)
  MaxTries,     \* jobs.max_attempts
  MaxWrites,    \* bound: the writes a handler makes
  WritesOf(_),  \* bound: the writes it makes in an attempt
  MaxFaults     \* bound: lost calls, errors, crashes, stops, missed renewals

ASSUME QueueAssumption ==
  /\ Outcome \subseteq {"succeeded", "degraded", "refused", "failed"}
  /\ MaxTries \in Nat \ {0} /\ MaxWrites \in Nat /\ MaxFaults \in Nat
  /\ None \notin Worker \cup Job /\ Run \notin Nat

VARIABLES
  status,     \* jobs.status
  attempts,   \* jobs.attempts
  holder,     \* jobs.locked_by
  aged,       \* jobs.locked_at is older than the visibility timeout
  due,        \* jobs.run_after has come
  journal,    \* per job, its writes and its job_runs in the order of commit
  receipts,   \* pipeline_ingest_receipts: the keys on file
  proc,       \* per worker, what its drain loop is doing
  stopping,   \* per worker, how far its stop has come
  call,       \* per call, what is asked, who waits, and the answer
  releases,   \* history: per job, how often a stop handed it back
  confirmed,  \* history: the keys of the writes and settles a worker was told are done
  faults

rows  == <<status, attempts, holder, aged, due, journal, receipts, releases>>
qvars == <<rows, proc, stopping, call, confirmed, faults>>

Final == {"succeeded", "failed", "dead"}
Entry == (1 .. MaxWrites) \cup {Run}

(* Mutant: the key of a write does not name the attempt.                   *)
Key_perJob(j, a, what) == <<j, 0, what>>

Key(j, a, what) == <<j, a, what>>

Rest == [step |-> "idle", job |-> None, attempt |-> 0, n |-> 0, outcome |-> "none"]
Free == [op |-> "none", by |-> None, worker |-> None, job |-> None, attempt |-> 0,
         what |-> None, outcome |-> "none", checked |-> FALSE, answer |-> "none"]

RowTypeOK ==
  /\ status \in [Job -> {"pending", "running"} \cup Final]
  /\ attempts \in [Job -> Nat] /\ releases \in [Job -> Nat]
  /\ holder \in [Job -> Worker \cup {None}]
  /\ aged \in [Job -> BOOLEAN] /\ due \in [Job -> BOOLEAN]
  /\ journal \in [Job -> Seq([attempt : Nat, what : Entry])]
  /\ receipts \in SUBSET (Job \X Nat \X Entry) /\ confirmed \subseteq receipts

CallTypeOK ==
  /\ proc \in [Worker ->
       [step : {"idle", "claiming", "handling", "writing", "settling"},
        job : Job \cup {None}, attempt : Nat, n : 0 .. MaxWrites,
        outcome : Outcome \cup {"none"}]]
  /\ call \in [Call ->
       [op : {"none", "claim", "write", "settle", "release"},
        by : Worker \cup {None}, worker : Worker \cup {None},
        job : Job \cup {None}, attempt : Nat, what : Entry \cup {None},
        outcome : Outcome \cup {"none"}, checked : BOOLEAN,
        answer : {"none", "ok", "empty", "lost", "error"}]]

QueueTypeOK == RowTypeOK /\ CallTypeOK

QueueInit ==
  /\ status = [j \in Job |-> "pending"] /\ attempts = [j \in Job |-> 0]
  /\ holder = [j \in Job |-> None] /\ aged = [j \in Job |-> FALSE]
  /\ due = [j \in Job |-> TRUE] /\ journal = [j \in Job |-> <<>>]
  /\ receipts = {} /\ releases = [j \in Job |-> 0]
  /\ proc = [w \in Worker |-> Rest] /\ stopping = [w \in Worker |-> "no"]
  /\ call = [c \in Call |-> Free] /\ confirmed = {} /\ faults = 0

Fault == faults < MaxFaults /\ faults' = faults + 1

-------------------------------------------------------------------------------
(* The statements of queue-store.                                          *)

(* Mutant: the fence does not look at the attempt.                         *)
Fenced_anyAttempt(j, w, a) == status[j] = "running" /\ holder[j] = w

(* The row a lease fences: its holder, its attempt, still running.         *)
Fenced(j, w, a) == status[j] = "running" /\ holder[j] = w /\ attempts[j] = a

(* locked_by and locked_at are cleared with every move off `running`.      *)
Leave(j, s) ==
  /\ status' = [status EXCEPT ![j] = s]
  /\ holder' = [holder EXCEPT ![j] = None]
  /\ aged' = [aged EXCEPT ![j] = FALSE]

Claimable(j) == status[j] = "pending" /\ due[j]

ClaimJob(j, w) ==
  /\ Claimable(j)
  /\ status' = [status EXCEPT ![j] = "running"]
  /\ attempts' = [attempts EXCEPT ![j] = @ + 1]
  /\ holder' = [holder EXCEPT ![j] = w]
  /\ aged' = [aged EXCEPT ![j] = FALSE]
  /\ UNCHANGED <<due, journal, receipts, releases>>

(* Mutant: the last attempt is not known to be the last.                   *)
Settled_oneMore(j, outcome) ==
  CASE outcome = "succeeded" -> "succeeded"
    [] outcome = "refused"   -> "failed"
    [] OTHER -> IF attempts[j] <= MaxTries THEN "pending"
                ELSE IF outcome = "degraded" THEN "failed" ELSE "dead"

(* What a settle makes of the job: a retry with backoff while attempts     *)
(* remain, except of what no retry can change.                             *)
Settled(j, outcome) ==
  CASE outcome = "succeeded" -> "succeeded"
    [] outcome = "refused"   -> "failed"
    [] OTHER -> IF attempts[j] < MaxTries THEN "pending"
                ELSE IF outcome = "degraded" THEN "failed" ELSE "dead"

Journalled(j, a, what) ==
  journal' = [journal EXCEPT ![j] = Append(@, [attempt |-> a, what |-> what])]

SettleJob(j, a, outcome) ==
  /\ Leave(j, Settled(j, outcome))
  /\ due' = [due EXCEPT ![j] = @ /\ Settled(j, outcome) # "pending"]
  /\ Journalled(j, a, Run)
  /\ UNCHANGED <<attempts, releases>>

(* One statement for every job the worker holds; attempts stay as counted. *)
ReleaseOwned(w) ==
  LET mine == {j \in Job : holder[j] = w}
  IN /\ status' = [j \in Job |-> IF j \in mine THEN "pending" ELSE status[j]]
     /\ holder' = [j \in Job |-> IF j \in mine THEN None ELSE holder[j]]
     /\ aged' = [j \in Job |-> aged[j] /\ j \notin mine]
     /\ releases' = [j \in Job |-> releases[j] + (IF j \in mine THEN 1 ELSE 0)]
     /\ UNCHANGED <<attempts, due, journal, receipts>>

(* Mutant: the reaper passes over a job that has no attempt left.          *)
Reap_unlessExhausted(j) ==
  /\ status[j] = "running" /\ aged[j] /\ attempts[j] < MaxTries
  /\ Leave(j, "pending")
  /\ due' = [due EXCEPT ![j] = FALSE]
  /\ UNCHANGED <<attempts, journal, receipts, releases, proc, stopping, call,
                 confirmed, faults>>

(* reapStuckJobs, for one of the jobs it finds.                            *)
Reap(j) ==
  /\ status[j] = "running" /\ aged[j]
  /\ Leave(j, IF attempts[j] >= MaxTries THEN "dead" ELSE "pending")
  /\ due' = [due EXCEPT ![j] = FALSE]
  /\ UNCHANGED <<attempts, journal, receipts, releases, proc, stopping, call,
                 confirmed, faults>>

BackoffEnds(j) ==
  /\ status[j] = "pending" /\ ~due[j]
  /\ due' = [due EXCEPT ![j] = TRUE]
  /\ UNCHANGED <<status, attempts, holder, aged, journal, receipts, releases,
                 proc, stopping, call, confirmed, faults>>

(* A process renews the lease it works under; if none does, the lease ages *)
(* past the visibility timeout.  It may under a live one: every renewal of *)
(* that time failed.                                                       *)
Tended(j) ==
  \E w \in Worker : proc[w].job = j /\ Fenced(j, w, proc[w].attempt)

Age(j) ==
  /\ status[j] = "running" /\ ~aged[j]
  /\ aged' = [aged EXCEPT ![j] = TRUE]
  /\ UNCHANGED <<status, attempts, holder, due, journal, receipts, releases,
                 proc, stopping, call, confirmed>>

AgeUntended(j) == ~Tended(j) /\ Age(j) /\ UNCHANGED faults
AgeTended(j)   == Tended(j) /\ Fault /\ Age(j)

RenewLease(w) ==
  LET j == proc[w].job
  IN /\ proc[w].step \in {"handling", "writing"}
     /\ Fenced(j, w, proc[w].attempt) /\ aged[j]
     /\ aged' = [aged EXCEPT ![j] = FALSE]
     /\ UNCHANGED <<status, attempts, holder, due, journal, receipts, releases,
                    proc, stopping, call, confirmed, faults>>

-------------------------------------------------------------------------------
(* The API's side of a call.                                               *)

Reply(c, answer, j, a) ==
  call' = [call EXCEPT ![c] =
             IF @.by = None THEN Free
             ELSE [@ EXCEPT !.answer = answer, !.job = j, !.attempt = a]]

Answer(c, answer) == Reply(c, answer, call[c].job, call[c].attempt)

Asked(c, op) == call[c].op = op /\ call[c].answer = "none"
IsWrite(c)   == Asked(c, "write") \/ Asked(c, "settle")
KeyOf(c)     == Key(call[c].job, call[c].attempt, call[c].what)
Holds(c)     == Fenced(call[c].job, call[c].worker, call[c].attempt)

Served == UNCHANGED <<proc, stopping, confirmed, faults>>

ServeClaim(c) ==
  /\ Asked(c, "claim")
  /\ \/ \E j \in Job : ClaimJob(j, call[c].worker) /\ Reply(c, "ok", j, attempts'[j])
     \/ /\ \A j \in Job : ~Claimable(j)
        /\ UNCHANGED rows /\ Answer(c, "empty")
  /\ Served

ServeRelease(c) ==
  /\ Asked(c, "release")
  /\ ReleaseOwned(call[c].worker) /\ Answer(c, "ok")
  /\ Served

(* The early lookup: a call whose key is on file is answered from there.   *)
LookUp(c) ==
  /\ IsWrite(c) /\ ~call[c].checked
  /\ IF KeyOf(c) \in receipts
     THEN Answer(c, "ok")
     ELSE call' = [call EXCEPT ![c].checked = TRUE]
  /\ UNCHANGED rows /\ Served

(* The transaction of a fenced write: the fence, the receipt again, the    *)
(* write and its receipt.                                                  *)
CommitWrite(c) ==
  /\ Asked(c, "write") /\ call[c].checked
  /\ IF ~Holds(c)
     THEN UNCHANGED rows /\ Answer(c, "lost")
     ELSE /\ Answer(c, "ok")
          /\ IF KeyOf(c) \in receipts THEN UNCHANGED rows
             ELSE /\ Journalled(call[c].job, call[c].attempt, call[c].what)
                  /\ receipts' = receipts \cup {KeyOf(c)}
                  /\ UNCHANGED <<status, attempts, holder, aged, due, releases>>
  /\ Served

(* Mutant: a settle is not fenced.                                         *)
CommitSettle_unfenced(c) ==
  /\ Asked(c, "settle") /\ call[c].checked
  /\ SettleJob(call[c].job, call[c].attempt, call[c].outcome)
  /\ receipts' = receipts \cup {KeyOf(c)}
  /\ Answer(c, "ok")
  /\ Served

(* A settle's transaction: settleJob's own fence, and no second lookup.    *)
CommitSettle(c) ==
  /\ Asked(c, "settle") /\ call[c].checked
  /\ IF ~Holds(c)
     THEN UNCHANGED rows /\ Answer(c, "lost")
     ELSE /\ SettleJob(call[c].job, call[c].attempt, call[c].outcome)
          /\ receipts' = receipts \cup {KeyOf(c)}
          /\ Answer(c, "ok")
  /\ Served

(* The API refuses with an error that is not retried (500).                *)
FailAtApi(c) ==
  /\ call[c].op # "none" /\ call[c].answer = "none" /\ Fault
  /\ Answer(c, "error")
  /\ UNCHANGED <<rows, proc, stopping, confirmed>>

-------------------------------------------------------------------------------
(* The worker's side.                                                      *)

Slots == {c \in Call : call[c] = Free}
Waits(w) == \E c \in Call : call[c].by = w

(* Calls are interchangeable: any free one is taken.                       *)
Post(w, msg) ==
  /\ Slots # {}
  /\ call' = [call EXCEPT ![CHOOSE c \in Slots : TRUE] = [msg EXCEPT !.worker = w]]

Message(w) ==
  CASE proc[w].step = "claiming" -> [Free EXCEPT !.op = "claim", !.by = w]
    [] proc[w].step = "writing" ->
         [Free EXCEPT !.op = "write", !.by = w, !.job = proc[w].job,
                      !.attempt = proc[w].attempt, !.what = proc[w].n]
    [] proc[w].step = "settling" ->
         [Free EXCEPT !.op = "settle", !.by = w, !.job = proc[w].job,
                      !.attempt = proc[w].attempt, !.what = Run,
                      !.outcome = proc[w].outcome]

(* send: the first copy of a call, and another whenever one was lost.      *)
Send(w) ==
  /\ proc[w].step \in {"claiming", "writing", "settling"} /\ ~Waits(w)
  /\ Post(w, Message(w))
  /\ UNCHANGED <<rows, proc, stopping, confirmed, faults>>

Become(w, p) == proc' = [proc EXCEPT ![w] = p]

Local == UNCHANGED <<rows, call, stopping, confirmed, faults>>

(* The drain loop takes no new job once stop() was called.  Polls that     *)
(* nothing could answer with a job are left out.                           *)
Claim(w) ==
  /\ proc[w].step = "idle" /\ stopping[w] = "no" /\ \E j \in Job : Claimable(j)
  /\ Become(w, [Rest EXCEPT !.step = "claiming"]) /\ Local

(* The handler makes its next write, or returns, or throws.  A write that  *)
(* failed stops no handler: it may let the error pass, write on and end as *)
(* it likes.                                                               *)
HandlerWrites(w) ==
  /\ proc[w].step = "handling"
  /\ proc[w].n < MaxWrites /\ proc[w].n < WritesOf(proc[w].attempt)
  /\ Become(w, [proc[w] EXCEPT !.step = "writing", !.n = @ + 1]) /\ Local

HandlerEnds(w) ==
  /\ proc[w].step = "handling"
  /\ \E o \in Outcome :
       Become(w, [proc[w] EXCEPT !.step = "settling", !.n = 0, !.outcome = o])
  /\ Local

(* An error in a claim or a settle ends the cycle; in a write, it is       *)
(* thrown in the handler.                                                  *)
AfterError(w) ==
  IF proc[w].step = "writing" THEN [proc[w] EXCEPT !.step = "handling"] ELSE Rest

AfterAnswer(c, w) ==
  CASE call[c].answer = "error" \/ (call[c].answer = "lost" /\ call[c].op = "write")
         -> AfterError(w)
    [] call[c].op = "claim" /\ call[c].answer = "ok"
         -> [Rest EXCEPT !.step = "handling", !.job = call[c].job, !.attempt = call[c].attempt]
    [] call[c].op = "write" /\ call[c].answer = "ok"
         -> [proc[w] EXCEPT !.step = "handling"]
    [] OTHER -> Rest

Confirms(c) == call[c].op \in {"write", "settle"} /\ call[c].answer = "ok"

Receive(c) ==
  /\ call[c].by # None /\ call[c].answer # "none"
  /\ Become(call[c].by, AfterAnswer(c, call[c].by))
  /\ call' = [call EXCEPT ![c] = Free]
  /\ confirmed' = confirmed \cup (IF Confirms(c) THEN {KeyOf(c)} ELSE {})
  /\ UNCHANGED <<rows, stopping, faults>>

(* What its client makes of a copy that failed: another will be sent, or   *)
(* the retry deadline is over and the error is thrown.                     *)
AfterLoss(c) ==
  \/ UNCHANGED proc
  \/ call[c].by # None /\ Become(call[c].by, AfterError(call[c].by))

(* A copy is given up.  If it was not answered it is still executed.       *)
Lose(c) ==
  /\ call[c].by # None /\ Fault
  /\ call' = [call EXCEPT ![c] = IF @.answer = "none" THEN [@ EXCEPT !.by = None] ELSE Free]
  /\ AfterLoss(c)
  /\ UNCHANGED <<rows, stopping, confirmed>>

(* A call that dies on the way, or is refused with nothing done (503).     *)
Die(c) ==
  /\ call[c].op # "none" /\ call[c].answer = "none" /\ Fault
  /\ call' = [call EXCEPT ![c] = Free]
  /\ AfterLoss(c)
  /\ UNCHANGED <<rows, stopping, confirmed>>

(* stop(): wait for the loops, at most the shutdown timeout, and release.  *)
Stop(w) ==
  /\ stopping[w] = "no" /\ Fault
  /\ stopping' = [stopping EXCEPT ![w] = "asked"]
  /\ UNCHANGED <<rows, proc, call, confirmed>>

SendRelease(w) ==
  /\ stopping[w] = "asked"
  /\ Post(w, [Free EXCEPT !.op = "release"])
  /\ stopping' = [stopping EXCEPT ![w] = "sent"]
  /\ UNCHANGED <<rows, proc, confirmed, faults>>

(* The process ends: by itself, killed after its grace period, or crashed. *)
(* The next one may have the same id; an idle one may not have started.    *)
Gone(w) ==
  /\ Become(w, Rest)
  /\ stopping' = [stopping EXCEPT ![w] = "no"]
  /\ call' = [c \in Call |-> IF call[c].by # w THEN call[c]
                             ELSE IF call[c].answer # "none" THEN Free
                             ELSE [call[c] EXCEPT !.by = None]]
  /\ UNCHANGED <<rows, confirmed>>

Exit(w)  == stopping[w] = "sent" /\ Gone(w) /\ UNCHANGED faults
Crash(w) == Fault /\ Gone(w)

Serve(c) ==
  ServeClaim(c) \/ ServeRelease(c) \/ LookUp(c) \/ CommitWrite(c) \/ CommitSettle(c)

Work(w) == Claim(w) \/ HandlerWrites(w) \/ HandlerEnds(w) \/ Send(w)

QueueNext ==
  \/ \E j \in Job : Reap(j) \/ BackoffEnds(j) \/ AgeUntended(j) \/ AgeTended(j)
  \/ \E c \in Call : Serve(c) \/ FailAtApi(c) \/ Receive(c) \/ Lose(c) \/ Die(c)
  \/ \E w \in Worker :
       Work(w) \/ RenewLease(w) \/ Stop(w) \/ SendRelease(w) \/ Exit(w) \/ Crash(w)

QueueSpec == QueueInit /\ [][QueueNext]_qvars

(* The loops go on, processes are restarted, the API answers.              *)
QueueFairness ==
  /\ \A j \in Job : WF_qvars(Reap(j)) /\ WF_qvars(BackoffEnds(j)) /\ WF_qvars(AgeUntended(j))
  /\ \A c \in Call : WF_qvars(Serve(c)) /\ WF_qvars(Receive(c))
  /\ \A w \in Worker : WF_qvars(Work(w)) /\ WF_qvars(SendRelease(w)) /\ WF_qvars(Exit(w))

FairQueueSpec == QueueSpec /\ QueueFairness

-------------------------------------------------------------------------------
Recorded(j, a, what) ==
  \E i \in DOMAIN journal[j] : journal[j][i] = [attempt |-> a, what |-> what]

(* A job's journal is its attempts in order, each with its writes and its  *)
(* run last, none of them twice: no zombie, retry or replay puts anything  *)
(* behind a run or a later attempt.  Within an attempt a write overtakes   *)
(* an earlier one only if the handler was never told the earlier is done:  *)
(* a copy the client gave up on may come late.                             *)
JournalInOrder ==
  \A j \in Job : \A i, k \in DOMAIN journal[j] :
    i < k =>
      LET p == journal[j][i]  q == journal[j][k]
      IN \/ p.attempt < q.attempt
         \/ /\ p.attempt = q.attempt /\ p.what # Run /\ p.what # q.what
            /\ \/ q.what = Run \/ p.what < q.what
               \/ <<j, q.attempt, q.what>> \notin confirmed

(* What a worker is told is so, and stays so: a call answered "ok" is on   *)
(* file under the attempt that made it, also when the answer came from a   *)
(* receipt, and whatever a worker was once told is done is in the journal. *)
ToldTruly ==
  /\ \A c \in Call :
       call[c].answer = "ok" /\ call[c].op \in {"write", "settle"} =>
         Recorded(call[c].job, call[c].attempt, call[c].what)
  /\ \A r \in confirmed : Recorded(r[1], r[2], r[3])

(* The retry budget: claims do not look at it, and yet a job is attempted  *)
(* no more often than max_attempts, but for the times a stop handed it     *)
(* back.                                                                   *)
TriesBounded == \A j \in Job : attempts[j] <= MaxTries + releases[j]

(* The inductive invariant behind the three.  Of a row: its lease, what is *)
(* left of its budget, and the journal and the receipts that tell the same *)
(* story, in which the running attempt has not ended.                      *)
LeasesAgree == \A j \in Job : holder[j] # None <=> status[j] = "running"

TriesLeft ==
  \A j \in Job :
    /\ attempts[j] <= MaxTries + releases[j]
    /\ status[j] = "pending" => attempts[j] < MaxTries + releases[j]

ReceiptsAgree ==
  /\ \A j \in Job : \A i \in DOMAIN journal[j] :
       <<j, journal[j][i].attempt, journal[j][i].what>> \in receipts
  /\ \A r \in receipts : Recorded(r[1], r[2], r[3])

ReceiptsInOrder ==
  \A r \in receipts :
    /\ r[2] <= attempts[r[1]]
    /\ r[3] = Run => status[r[1]] # "running" \/ r[2] < attempts[r[1]]

(* Of the workers and the calls: what a call asks and was answered, and    *)
(* who waits for one.                                                      *)
WorkerAgrees(w) ==
  /\ proc[w].step \in {"handling", "writing", "settling"} => proc[w].job \in Job
  /\ proc[w].step = "writing" => proc[w].n # 0

CallAgrees(c) ==
  /\ call[c].op = "none" => call[c].by = None
  /\ call[c].op # "none" => call[c].worker \in Worker
  /\ call[c].op \in {"write", "settle"} => call[c].job \in Job
  /\ call[c].op = "write" => call[c].what \in 1 .. MaxWrites
  /\ call[c].op = "settle" => call[c].what = Run
  /\ call[c].op \in {"write", "settle"} /\ call[c].answer = "ok" =>
       <<call[c].job, call[c].attempt, call[c].what>> \in receipts
  /\ call[c].op = "claim" /\ call[c].answer = "ok" => call[c].job \in Job
  /\ call[c].answer = "empty" => call[c].op = "claim"

CopyAgrees(c) ==
  LET p == proc[call[c].by]
  IN \/ call[c].op = "claim" /\ p.step = "claiming"
     \/ call[c].op = "settle" /\ p.step = "settling"
     \/ call[c].op = "write" /\ p.step = "writing" /\ call[c].job = p.job
          /\ call[c].attempt = p.attempt /\ call[c].what = p.n

CallsAgree ==
  /\ \A w \in Worker : WorkerAgrees(w)
  /\ \A c \in Call : CallAgrees(c) /\ (call[c].by # None => CopyAgrees(c))
  /\ \A c, d \in Call : call[c].by # None /\ call[c].by = call[d].by => c = d

(* Of the attempts: each is handed out once, to one worker, and nothing is *)
(* written under it but what its handler has got to.                       *)
At(w)   == IF proc[w].step \in {"handling", "writing"}
           THEN {<<proc[w].job, proc[w].attempt>>} ELSE {}
For(c)  == IF call[c].op = "claim" /\ call[c].answer = "ok"
           THEN {<<call[c].job, call[c].attempt>>} ELSE {}

Under(c) == <<call[c].job, call[c].attempt>>

Reached(x, n) ==
  /\ \A r \in receipts : <<r[1], r[2]>> = x /\ r[3] # Run => r[3] <= n
  /\ \A c \in Call : call[c].op = "write" /\ Under(c) = x => call[c].what <= n

AttemptsAgree ==
  /\ \A w \in Worker : \A x \in At(w) : x[2] <= attempts[x[1]] /\ Reached(x, proc[w].n)
  /\ \A c \in Call : \A x \in For(c) : x[2] <= attempts[x[1]] /\ Reached(x, 0)
  /\ \A c \in Call : call[c].op = "write" => call[c].attempt <= attempts[call[c].job]
  /\ \A v, w \in Worker : At(v) \cap At(w) # {} => v = w
  /\ \A c, d \in Call : For(c) \cap For(d) # {} => c = d
  /\ \A c \in Call, w \in Worker : For(c) \cap At(w) = {}

RowInv  == RowTypeOK /\ LeasesAgree /\ TriesLeft /\ ReceiptsAgree
             /\ ReceiptsInOrder /\ JournalInOrder
CallInv == CallTypeOK /\ CallsAgree

QueueInv == RowInv /\ CallInv /\ AttemptsAgree

(* Whatever crashes, stops and is lost: every job comes to an end.         *)
EveryJobEnds == \A j \in Job : <>(status[j] \in Final)

(* What each job is promised.                                              *)
Phase(j) ==
  CASE status[j] = "pending" -> "waiting"
    [] status[j] = "running" -> "held"
    [] status[j] = "dead" /\ ~Recorded(j, attempts[j], Run) -> "dropped"
    [] OTHER -> "finished"

F(j) == INSTANCE FencedJob
          WITH token <- attempts[j], phase <- Phase(j), record <- journal[j],
               Notes <- 1 .. MaxWrites

ImplementsFencedJob ==
  /\ \A j \in Job : F(j)!Begin
  /\ [][\A j \in Job : [F(j)!Step]_(F(j)!fvars)]_qvars
===============================================================================
