----------------------------- MODULE JobQueueProofs -----------------------------
(***************************************************************************)
(* Theorems about JobQueue, for every set of jobs, workers and calls and   *)
(* every number of writes, tries and faults.  Every step works on one of   *)
(* two halves: the rows, which only the statements of queue-store move,    *)
(* and the processes and their calls, which only need that nothing on file *)
(* is ever taken back.                                                     *)
(***************************************************************************)
EXTENDS JobQueue, SequenceTheorems, TLAPS

Entries == [attempt : Nat, what : Entry]

(* An entry is put at the end of one job's journal.                        *)
LEMMA JournalGrows ==
  ASSUME RowTypeOK, NEW j \in Job, NEW a \in Nat, NEW x \in Entry, Journalled(j, a, x)
  PROVE  /\ journal' \in [Job -> Seq(Entries)]
         /\ \A k \in Job : k # j => journal'[k] = journal[k]
         /\ journal'[j] = Append(journal[j], [attempt |-> a, what |-> x])
         /\ Len(journal'[j]) = Len(journal[j]) + 1
         /\ \A i \in 1 .. Len(journal[j]) : journal'[j][i] = journal[j][i]
         /\ journal'[j][Len(journal[j]) + 1] = [attempt |-> a, what |-> x]
         /\ DOMAIN journal[j] = 1 .. Len(journal[j])
         /\ DOMAIN journal'[j] = 1 .. Len(journal[j]) + 1
<1> DEFINE e == [attempt |-> a, what |-> x]
<1>1. journal[j] \in Seq(Entries) /\ e \in Entries
  BY DEF RowTypeOK, Entries
<1>2. journal' = [journal EXCEPT ![j] = Append(@, e)]
  BY DEF Journalled
<1>3. journal'[j] = Append(journal[j], e)
  BY <1>2 DEF RowTypeOK
<1> HIDE DEF e
<1>4. Append(journal[j], e) \in Seq(Entries) /\ Len(journal[j]) \in Nat
  BY <1>1
<1>5. journal' \in [Job -> Seq(Entries)]
  BY <1>2, <1>4 DEF RowTypeOK, Entries
<1>6. /\ Len(Append(journal[j], e)) = Len(journal[j]) + 1
      /\ \A i \in 1 .. Len(journal[j]) : Append(journal[j], e)[i] = journal[j][i]
      /\ Append(journal[j], e)[Len(journal[j]) + 1] = e
      /\ DOMAIN journal[j] = 1 .. Len(journal[j])
      /\ DOMAIN Append(journal[j], e) = 1 .. Len(Append(journal[j], e))
  BY <1>1, <1>4
<1>7. \A k \in Job : k # j => journal'[k] = journal[k]
  BY <1>2 DEF RowTypeOK
<1> QED
  BY <1>3, <1>5, <1>6, <1>7 DEF e

(* What the two writes of a worker have in common: an entry of the running *)
(* attempt that is not on file, and so was confirmed to nobody, goes to    *)
(* the journal and to the receipts, and both stay in order.                *)
LEMMA EntryKept ==
  ASSUME RowInv, NEW j \in Job, NEW x \in Entry, status[j] = "running",
         <<j, attempts[j], x>> \notin receipts,
         Journalled(j, attempts[j], x),
         receipts' = receipts \cup {<<j, attempts[j], x>>},
         UNCHANGED <<attempts, confirmed>>,
         \A k \in Job : k # j => status'[k] = status[k],
         x = Run => status'[j] # "running"
  PROVE  /\ receipts' \in SUBSET (Job \X Nat \X Entry) /\ confirmed' \subseteq receipts'
         /\ ReceiptsAgree' /\ ReceiptsInOrder' /\ JournalInOrder'
<1> DEFINE a == attempts[j]
<1>1. a \in Nat /\ \A k \in Job : attempts[k] \in Nat
  BY DEF RowInv, RowTypeOK
<1>2. receipts' \in SUBSET (Job \X Nat \X Entry) /\ confirmed' \subseteq receipts'
  BY <1>1 DEF RowInv, RowTypeOK
<1>3. /\ \A k \in Job : k # j => journal'[k] = journal[k]
      /\ \A i \in 1 .. Len(journal[j]) : journal'[j][i] = journal[j][i]
      /\ journal'[j][Len(journal[j]) + 1] = [attempt |-> a, what |-> x]
      /\ DOMAIN journal[j] = 1 .. Len(journal[j])
      /\ DOMAIN journal'[j] = 1 .. Len(journal[j]) + 1
      /\ Len(journal[j]) \in Nat
  <2>1. RowTypeOK /\ journal[j] \in Seq(Entries)
    BY DEF RowInv, RowTypeOK, Entries
  <2>2. Len(journal[j]) \in Nat
    BY <2>1
  <2> QED
    BY <1>1, <2>1, <2>2, JournalGrows
<1>4. ReceiptsAgree'
  <2>1. ASSUME NEW k \in Job, NEW i \in DOMAIN journal'[k]
        PROVE  <<k, journal'[k][i].attempt, journal'[k][i].what>> \in receipts'
    <3>1. CASE k # j \/ i # Len(journal[j]) + 1
      <4>1. i \in DOMAIN journal[k] /\ journal'[k][i] = journal[k][i]
        BY <1>3, <2>1, <3>1
      <4> QED
        BY <4>1 DEF RowInv, ReceiptsAgree
    <3>2. CASE k = j /\ i = Len(journal[j]) + 1
      BY <1>3, <3>2
    <3> QED
      BY <3>1, <3>2
  <2>2. ASSUME NEW r \in receipts' PROVE Recorded(r[1], r[2], r[3])'
    <3>1. CASE r \in receipts
      <4>1. r[1] \in Job /\ Recorded(r[1], r[2], r[3])
        BY <3>1 DEF RowInv, RowTypeOK, ReceiptsAgree
      <4>2. PICK i \in DOMAIN journal[r[1]] :
              journal[r[1]][i] = [attempt |-> r[2], what |-> r[3]]
        BY <4>1 DEF Recorded
      <4>3. i \in DOMAIN journal'[r[1]] /\ journal'[r[1]][i] = journal[r[1]][i]
        <5>1. CASE r[1] = j
          BY <1>3, <5>1
        <5>2. CASE r[1] # j
          BY <1>3, <4>1, <5>2
        <5> QED
          BY <5>1, <5>2
      <4> QED
        BY <4>2, <4>3 DEF Recorded
    <3>2. CASE r = <<j, a, x>>
      <4>1. Len(journal[j]) + 1 \in DOMAIN journal'[j]
        BY <1>3
      <4> QED
        BY <1>3, <3>2, <4>1 DEF Recorded
    <3> QED
      BY <2>2, <3>1, <3>2
  <2> QED
    BY <2>1, <2>2 DEF ReceiptsAgree
<1>5. ReceiptsInOrder'
  <2> SUFFICES ASSUME NEW r \in receipts'
               PROVE  /\ r[2] <= attempts'[r[1]]
                      /\ r[3] = Run => status'[r[1]] # "running" \/ r[2] < attempts'[r[1]]
    BY DEF ReceiptsInOrder
  <2>1. CASE r \in receipts
    <3>1. /\ r[1] \in Job /\ r[2] <= attempts[r[1]]
          /\ r[3] = Run => status[r[1]] # "running" \/ r[2] < attempts[r[1]]
      BY <2>1 DEF RowInv, RowTypeOK, ReceiptsInOrder
    <3> QED
      BY <3>1
  <2>2. CASE r = <<j, a, x>>
    BY <1>1, <2>2
  <2> QED
    BY <2>1, <2>2
<1>6. JournalInOrder'
  <2> SUFFICES ASSUME NEW k \in Job, NEW i \in DOMAIN journal'[k],
                      NEW m \in DOMAIN journal'[k], i < m
               PROVE  LET p == journal'[k][i]  q == journal'[k][m]
                      IN \/ p.attempt < q.attempt
                         \/ /\ p.attempt = q.attempt /\ p.what # Run /\ p.what # q.what
                            /\ \/ q.what = Run \/ p.what < q.what
                               \/ <<k, q.attempt, q.what>> \notin confirmed
    BY DEF JournalInOrder
  <2>1. CASE k # j \/ m # Len(journal[j]) + 1
    <3>1. /\ i \in DOMAIN journal[k] /\ m \in DOMAIN journal[k]
          /\ journal'[k][i] = journal[k][i] /\ journal'[k][m] = journal[k][m]
      <4>1. CASE k # j
        BY <1>3, <4>1
      <4>2. CASE k = j
        <5>1. i \in 1 .. Len(journal[j]) + 1 /\ m \in 1 .. Len(journal[j]) + 1
          BY <1>3, <4>2
        <5>2. m # Len(journal[j]) + 1 /\ i < m
          BY <2>1, <4>2
        <5>3. i \in 1 .. Len(journal[j]) /\ m \in 1 .. Len(journal[j])
          BY <1>3, <5>1, <5>2
        <5> QED
          BY <1>3, <4>2, <5>3
      <4> QED
        BY <4>1, <4>2
    <3> QED
      BY <3>1 DEF RowInv, JournalInOrder
  <2>2. CASE k = j /\ m = Len(journal[j]) + 1
    <3> DEFINE p == journal[j][i]
    <3>1. /\ i \in DOMAIN journal[j] /\ journal'[j][i] = p
          /\ journal'[j][m] = [attempt |-> a, what |-> x]
      BY <1>3, <2>2
    <3>2. <<j, p.attempt, p.what>> \in receipts /\ p.attempt \in Nat /\ p.what \in Entry
      BY <3>1 DEF RowInv, ReceiptsAgree, RowTypeOK
    <3>3. p.attempt <= a /\ (p.what = Run => p.attempt < a)
      BY <1>1, <3>2 DEF RowInv, ReceiptsInOrder
    <3>4. p.attempt = a => p.what # x
      BY <3>2
    <3>5. <<j, a, x>> \notin confirmed
      BY DEF RowInv, RowTypeOK
    <3> QED
      BY <1>1, <2>2, <3>1, <3>2, <3>3, <3>4, <3>5
  <2> QED
    BY <2>1, <2>2
<1> QED
  BY <1>2, <1>4, <1>5, <1>6

(* With journal and receipts left alone they stay in order, unless an      *)
(* attempt that has ended could run again.                                 *)
LEMMA QuietKept ==
  ASSUME RowInv, UNCHANGED <<journal, receipts, confirmed>>, attempts' \in [Job -> Nat],
         \A k \in Job : attempts[k] <= attempts'[k],
         \A k \in Job : status'[k] = "running" =>
           status[k] = "running" \/ attempts[k] < attempts'[k]
  PROVE  ReceiptsAgree' /\ ReceiptsInOrder' /\ JournalInOrder'
<1>1. ReceiptsAgree' /\ JournalInOrder'
  BY DEF RowInv, ReceiptsAgree, JournalInOrder, Recorded
<1>2. ReceiptsInOrder'
  <2> SUFFICES ASSUME NEW r \in receipts
               PROVE  /\ r[2] <= attempts'[r[1]]
                      /\ r[3] = Run => status'[r[1]] # "running" \/ r[2] < attempts'[r[1]]
    BY DEF ReceiptsInOrder
  <2>1. /\ r[1] \in Job /\ r[2] \in Nat /\ r[2] <= attempts[r[1]]
        /\ r[3] = Run => status[r[1]] # "running" \/ r[2] < attempts[r[1]]
    BY DEF RowInv, RowTypeOK, ReceiptsInOrder
  <2>2. attempts[r[1]] \in Nat /\ attempts'[r[1]] \in Nat
    BY <2>1 DEF RowInv, RowTypeOK
  <2>3. r[2] <= attempts'[r[1]]
    BY <2>1, <2>2
  <2>4. r[3] = Run => status'[r[1]] # "running" \/ r[2] < attempts'[r[1]]
    BY <2>1, <2>2
  <2> QED
    BY <2>3, <2>4
<1> QED
  BY <1>1, <1>2

(* What moves neither attempts, journal nor receipts and starts nothing.    *)
LEMMA SettledKept ==
  ASSUME RowInv, UNCHANGED <<attempts, journal, receipts, confirmed>>,
         \A k \in Job : status'[k] = "running" => status[k] = "running"
  PROVE  ReceiptsAgree' /\ ReceiptsInOrder' /\ JournalInOrder'
<1>1. attempts' \in [Job -> Nat]
  BY DEF RowInv, RowTypeOK
<1>2. \A k \in Job : attempts[k] <= attempts'[k]
  <2>1. \A k \in Job : attempts[k] \in Nat
    BY DEF RowInv, RowTypeOK
  <2> QED
    BY <2>1
<1> QED
  BY <1>1, <1>2, QuietKept

LEMMA TimingKept ==
  ASSUME RowInv,
         UNCHANGED <<status, attempts, holder, journal, receipts, confirmed, releases>>,
         aged' \in [Job -> BOOLEAN], due' \in [Job -> BOOLEAN]
  PROVE  RowInv'
<1>1. RowTypeOK'
  BY DEF RowInv, RowTypeOK
<1>2. LeasesAgree' /\ TriesLeft'
  BY DEF RowInv, LeasesAgree, TriesLeft
<1>3. ReceiptsAgree' /\ ReceiptsInOrder' /\ JournalInOrder'
  BY SettledKept
<1> QED
  BY <1>1, <1>2, <1>3 DEF RowInv

LEMMA RowsSame ==
  ASSUME RowInv, UNCHANGED <<rows, confirmed>> PROVE RowInv'
<1>1. aged' \in [Job -> BOOLEAN] /\ due' \in [Job -> BOOLEAN]
  BY DEF rows, RowInv, RowTypeOK
<1> QED
  BY <1>1, TimingKept DEF rows

(* The statements of queue-store, one by one.                              *)
LEMMA ClaimKept ==
  ASSUME RowInv, NEW j \in Job, NEW w \in Worker, ClaimJob(j, w), UNCHANGED confirmed
  PROVE  RowInv'
<1>1. RowTypeOK'
  <2>1. status' \in [Job -> {"pending", "running"} \cup Final]
    BY DEF RowInv, RowTypeOK, ClaimJob
  <2>2. attempts' \in [Job -> Nat]
    <3>1. attempts[j] + 1 \in Nat
      BY DEF RowInv, RowTypeOK
    <3> QED
      BY <3>1 DEF RowInv, RowTypeOK, ClaimJob
  <2>3. holder' \in [Job -> Worker \cup {None}] /\ aged' \in [Job -> BOOLEAN]
    BY DEF RowInv, RowTypeOK, ClaimJob
  <2> QED
    BY <2>1, <2>2, <2>3 DEF RowInv, RowTypeOK, ClaimJob
<1>2. LeasesAgree'
  BY QueueAssumption DEF RowInv, RowTypeOK, LeasesAgree, ClaimJob
<1>3. TriesLeft'
  BY QueueAssumption DEF RowInv, RowTypeOK, TriesLeft, ClaimJob, Claimable
<1>4. ReceiptsAgree' /\ ReceiptsInOrder' /\ JournalInOrder'
  <2>1. \A k \in Job : attempts[k] <= attempts'[k]
    BY DEF RowInv, RowTypeOK, ClaimJob
  <2>2. \A k \in Job : status'[k] = "running" =>
          status[k] = "running" \/ attempts[k] < attempts'[k]
    BY DEF RowInv, RowTypeOK, ClaimJob
  <2>3. attempts' \in [Job -> Nat] /\ UNCHANGED <<journal, receipts, confirmed>>
    BY <1>1 DEF ClaimJob, RowTypeOK
  <2> QED
    BY <2>1, <2>2, <2>3, QuietKept
<1> QED
  BY <1>1, <1>2, <1>3, <1>4 DEF RowInv

LEMMA ReleaseKept ==
  ASSUME RowInv, NEW w \in Worker, ReleaseOwned(w), UNCHANGED confirmed PROVE RowInv'
<1> DEFINE mine == {j \in Job : holder[j] = w}
<1>1. /\ status' = [j \in Job |-> IF j \in mine THEN "pending" ELSE status[j]]
      /\ holder' = [j \in Job |-> IF j \in mine THEN None ELSE holder[j]]
      /\ aged' = [j \in Job |-> aged[j] /\ j \notin mine]
      /\ releases' = [j \in Job |-> releases[j] + (IF j \in mine THEN 1 ELSE 0)]
      /\ UNCHANGED <<attempts, due, journal, receipts>>
  BY DEF ReleaseOwned
<1>2. \A j \in mine : status[j] = "running"
  BY QueueAssumption DEF RowInv, LeasesAgree
<1> HIDE DEF mine
<1>3. RowTypeOK'
  <2>1. aged' \in [Job -> BOOLEAN]
    BY <1>1
  <2>2. releases' \in [Job -> Nat]
    BY <1>1 DEF RowInv, RowTypeOK
  <2> QED
    BY <1>1, <2>1, <2>2 DEF RowInv, RowTypeOK
<1>4. LeasesAgree'
  BY <1>1, <1>2 DEF RowInv, LeasesAgree, mine
<1>5. TriesLeft'
  <2> SUFFICES ASSUME NEW j \in Job
               PROVE  /\ attempts'[j] <= MaxTries + releases'[j]
                      /\ status'[j] = "pending" => attempts'[j] < MaxTries + releases'[j]
    BY DEF TriesLeft
  <2>1. /\ attempts[j] \in Nat /\ releases[j] \in Nat /\ MaxTries \in Nat
        /\ attempts[j] <= MaxTries + releases[j]
        /\ status[j] = "pending" => attempts[j] < MaxTries + releases[j]
    BY QueueAssumption DEF RowInv, RowTypeOK, TriesLeft
  <2>2. CASE j \in mine
    BY <1>1, <2>1, <2>2
  <2>3. CASE j \notin mine
    BY <1>1, <2>1, <2>3
  <2> QED
    BY <2>2, <2>3
<1>6. ReceiptsAgree' /\ ReceiptsInOrder' /\ JournalInOrder'
  <2>1. \A k \in Job : status'[k] = "running" => status[k] = "running"
    BY <1>1
  <2> QED
    BY <1>1, <2>1, SettledKept
<1> QED
  BY <1>3, <1>4, <1>5, <1>6 DEF RowInv

LEMMA ReapKept ==
  ASSUME RowInv, NEW j \in Job, Reap(j) PROVE RowInv'
<1>1. RowTypeOK'
  BY DEF RowInv, RowTypeOK, Reap, Leave, Final
<1>2. LeasesAgree'
  BY QueueAssumption DEF RowInv, RowTypeOK, LeasesAgree, Reap, Leave
<1>3. TriesLeft'
  BY QueueAssumption DEF RowInv, RowTypeOK, TriesLeft, Reap, Leave
<1>4. ReceiptsAgree' /\ ReceiptsInOrder' /\ JournalInOrder'
  <2>1. \A k \in Job : status'[k] = "running" => status[k] = "running"
    BY DEF RowInv, RowTypeOK, Reap, Leave
  <2> QED
    BY <2>1, SettledKept DEF Reap
<1> QED
  BY <1>1, <1>2, <1>3, <1>4 DEF RowInv

LEMMA WriteKept ==
  ASSUME RowInv, CallInv, NEW c \in Call, CommitWrite(c) PROVE RowInv'
<1> DEFINE j == call[c].job  a == call[c].attempt  x == call[c].what
<1>0. UNCHANGED confirmed
  BY DEF CommitWrite, Served
<1>1. CASE UNCHANGED rows
  BY <1>0, <1>1, RowsSame
<1>2. CASE ~UNCHANGED rows
  <2>1. /\ Fenced(j, call[c].worker, a) /\ <<j, a, x>> \notin receipts
        /\ Journalled(j, a, x) /\ receipts' = receipts \cup {<<j, a, x>>}
        /\ UNCHANGED <<status, attempts, holder, aged, due, releases>>
    BY <1>2 DEF CommitWrite, Holds, KeyOf, Key
  <2>2. j \in Job /\ x \in 1 .. MaxWrites
    BY DEF CommitWrite, Asked, CallInv, CallsAgree, CallAgrees
  <2>3. status[j] = "running" /\ a = attempts[j] /\ x \in Entry /\ a \in Nat
    BY <2>1, <2>2 DEF Fenced, Entry, RowInv, RowTypeOK
  <2>4. x # Run
    BY <2>2, QueueAssumption
  <2> HIDE DEF j, a, x
  <2>5. /\ receipts' \in SUBSET (Job \X Nat \X Entry) /\ confirmed' \subseteq receipts'
        /\ ReceiptsAgree' /\ ReceiptsInOrder' /\ JournalInOrder'
    BY <1>0, <2>1, <2>2, <2>3, <2>4, EntryKept
  <2>6. journal' \in [Job -> Seq(Entries)]
    BY <2>1, <2>2, <2>3, JournalGrows DEF RowInv
  <2>7. RowTypeOK' /\ LeasesAgree' /\ TriesLeft'
    BY <2>1, <2>5, <2>6 DEF RowInv, RowTypeOK, LeasesAgree, TriesLeft, Entries
  <2> QED
    BY <2>5, <2>7 DEF RowInv
<1> QED
  BY <1>1, <1>2

LEMMA SettleKept ==
  ASSUME RowInv, CallInv, NEW c \in Call, CommitSettle(c) PROVE RowInv'
<1> DEFINE j == call[c].job  a == call[c].attempt  o == call[c].outcome
<1>0. UNCHANGED confirmed
  BY DEF CommitSettle, Served
<1>1. CASE UNCHANGED rows
  BY <1>0, <1>1, RowsSame
<1>2. CASE ~UNCHANGED rows
  <2>1. /\ Fenced(j, call[c].worker, a) /\ SettleJob(j, a, o)
        /\ receipts' = receipts \cup {<<j, a, call[c].what>>}
    BY <1>2 DEF CommitSettle, Holds, KeyOf, Key
  <2>2. j \in Job /\ call[c].what = Run
    BY DEF CommitSettle, Asked, CallInv, CallsAgree, CallAgrees
  <2>3. status[j] = "running" /\ a = attempts[j] /\ Run \in Entry /\ a \in Nat
    BY <2>1, <2>2 DEF Fenced, Entry, RowInv, RowTypeOK
  <2>4. /\ status' = [status EXCEPT ![j] = Settled(j, o)]
        /\ holder' = [holder EXCEPT ![j] = None]
        /\ aged' = [aged EXCEPT ![j] = FALSE]
        /\ due' = [due EXCEPT ![j] = @ /\ Settled(j, o) # "pending"]
        /\ Journalled(j, a, Run) /\ UNCHANGED <<attempts, releases>>
    BY <2>1 DEF SettleJob, Leave
  <2>5. /\ Settled(j, o) \in {"pending"} \cup Final
        /\ Settled(j, o) = "pending" => attempts[j] < MaxTries
    BY DEF Settled, Final
  <2> HIDE DEF j, a, o
  <2>6. <<j, attempts[j], Run>> \notin receipts
    <3> SUFFICES ASSUME <<j, attempts[j], Run>> \in receipts PROVE FALSE
      OBVIOUS
    <3>1. attempts[j] < attempts[j]
      BY <2>3 DEF RowInv, ReceiptsInOrder
    <3> QED
      BY <2>3, <3>1
  <2>7. status'[j] # "running" /\ \A k \in Job : k # j => status'[k] = status[k]
    BY <2>2, <2>4, <2>5 DEF RowInv, RowTypeOK, Final
  <2>8. /\ receipts' \in SUBSET (Job \X Nat \X Entry) /\ confirmed' \subseteq receipts'
        /\ ReceiptsAgree' /\ ReceiptsInOrder' /\ JournalInOrder'
    BY <1>0, <2>1, <2>2, <2>3, <2>4, <2>6, <2>7, EntryKept
  <2>9. journal' \in [Job -> Seq(Entries)]
    BY <2>2, <2>3, <2>4, JournalGrows DEF RowInv
  <2>10. RowTypeOK'
    BY <2>4, <2>5, <2>8, <2>9 DEF RowInv, RowTypeOK, Entries
  <2>11. LeasesAgree'
    BY <2>2, <2>4, <2>5 DEF RowInv, RowTypeOK, LeasesAgree, Final
  <2>12. TriesLeft'
    BY <2>2, <2>3, <2>4, <2>5, QueueAssumption DEF RowInv, RowTypeOK, TriesLeft
  <2> QED
    BY <2>8, <2>10, <2>11, <2>12 DEF RowInv
<1> QED
  BY <1>1, <1>2

-------------------------------------------------------------------------------
(* The calls and the processes.  What is on file only grows.               *)

Procs == [step : {"idle", "claiming", "handling", "writing", "settling"},
          job : Job \cup {None}, attempt : Nat, n : 0 .. MaxWrites,
          outcome : Outcome \cup {"none"}]
Calls == [op : {"none", "claim", "write", "settle", "release"},
          by : Worker \cup {None}, worker : Worker \cup {None},
          job : Job \cup {None}, attempt : Nat, what : Entry \cup {None},
          outcome : Outcome \cup {"none"}, checked : BOOLEAN,
          answer : {"none", "ok", "empty", "lost", "error"}]

LEMMA TypesUnfolded ==
  CallTypeOK <=> proc \in [Worker -> Procs] /\ call \in [Call -> Calls]
BY DEF CallTypeOK, Procs, Calls

LEMMA FreeIsFine ==
  /\ Free \in Calls /\ Rest \in Procs
  /\ Free.op = "none" /\ Free.by = None /\ Free.answer = "none"
BY QueueAssumption DEF Free, Rest, Calls, Procs

(* The steps that leave the processes alone: every call that changes is a  *)
(* call that agrees, and a copy of what it was or nobody's.                *)
LEMMA CallsMove ==
  ASSUME CallInv, receipts \subseteq receipts', UNCHANGED proc, call' \in [Call -> Calls],
         \A d \in Call : call'[d] # call[d] =>
           /\ CallAgrees(d)'
           /\ \/ call'[d].by = None
              \/ /\ call'[d].by = call[d].by /\ call'[d].op = call[d].op
                 /\ call'[d].what = call[d].what
                 /\ \/ call[d].op = "claim"
                    \/ call'[d].job = call[d].job /\ call'[d].attempt = call[d].attempt
  PROVE  CallInv'
<1>1. CallTypeOK'
  BY TypesUnfolded DEF CallInv, CallTypeOK, Procs, Calls
<1>2. \A w \in Worker : WorkerAgrees(w)'
  BY DEF CallInv, CallsAgree, WorkerAgrees
<1>3. ASSUME NEW d \in Call PROVE CallAgrees(d)'
  <2>1. CASE call'[d] = call[d]
    <3>1. CallAgrees(d)
      BY DEF CallInv, CallsAgree
    <3> QED
      BY <2>1, <3>1 DEF CallAgrees
  <2>2. CASE call'[d] # call[d]
    BY <2>2
  <2> QED
    BY <2>1, <2>2
<1>4. ASSUME NEW d \in Call, call'[d].by # None
      PROVE  CopyAgrees(d)' /\ call'[d].by = call[d].by
  <2>1. /\ call'[d].by = call[d].by /\ call'[d].op = call[d].op
        /\ call'[d].what = call[d].what
        /\ \/ call[d].op = "claim"
           \/ call'[d].job = call[d].job /\ call'[d].attempt = call[d].attempt
    BY <1>4
  <2>2. CopyAgrees(d)
    BY <1>4, <2>1 DEF CallInv, CallsAgree
  <2> QED
    BY <2>1, <2>2 DEF CopyAgrees
<1>5. ASSUME NEW c \in Call, NEW d \in Call, call'[c].by # None, call'[c].by = call'[d].by
      PROVE  c = d
  <2>1. call'[c].by = call[c].by /\ call'[d].by = call[d].by
    BY <1>4, <1>5
  <2> QED
    BY <1>5, <2>1 DEF CallInv, CallsAgree
<1>6. CallsAgree'
  BY <1>2, <1>3, <1>4, <1>5 DEF CallsAgree
<1> QED
  BY <1>1, <1>6 DEF CallInv

(* An answer of the API.                                                   *)
LEMMA ReplyKept ==
  ASSUME CallInv, receipts \subseteq receipts', UNCHANGED proc,
         NEW c \in Call, call[c].op # "none",
         NEW answer \in {"ok", "empty", "lost", "error"},
         NEW j \in Job \cup {None}, NEW a \in Nat, Reply(c, answer, j, a),
         call[c].op = "claim" => (answer = "ok" => j \in Job),
         call[c].op # "claim" =>
           answer # "empty" /\ j = call[c].job /\ a = call[c].attempt,
         call[c].op \in {"write", "settle"} /\ answer = "ok" =>
           <<call[c].job, call[c].attempt, call[c].what>> \in receipts'
  PROVE  CallInv'
<1> DEFINE r == IF call[c].by = None THEN Free
                ELSE [call[c] EXCEPT !.answer = answer, !.job = j, !.attempt = a]
<1>1. call \in [Call -> Calls] /\ CallAgrees(c)
  BY TypesUnfolded DEF CallInv, CallsAgree
<1>2. call' = [call EXCEPT ![c] = r]
  BY DEF Reply
<1>3. /\ call[c].by = None => r = Free
      /\ call[c].by # None =>
           r = [call[c] EXCEPT !.answer = answer, !.job = j, !.attempt = a]
  OBVIOUS
<1> HIDE DEF r
<1>6. call'[c] = r /\ \A d \in Call : d # c => call'[d] = call[d]
  BY <1>1, <1>2
<1>4. CASE call[c].by = None
  <2>1. r = Free
    BY <1>3, <1>4
  <2>2. call' \in [Call -> Calls]
    BY <1>1, <1>2, <2>1, FreeIsFine
  <2>3. call'[c].op = "none" /\ call'[c].by = None /\ call'[c].answer = "none"
    BY <1>6, <2>1, FreeIsFine
  <2>4. CallAgrees(c)'
    BY <2>3 DEF CallAgrees
  <2> QED
    BY <1>6, <2>2, <2>3, <2>4, CallsMove
<1>5. CASE call[c].by # None
  <2>1. r = [call[c] EXCEPT !.answer = answer, !.job = j, !.attempt = a]
    BY <1>3, <1>5
  <2>2. /\ r \in Calls
        /\ r.op = call[c].op /\ r.by = call[c].by /\ r.what = call[c].what
        /\ r.worker = call[c].worker
        /\ r.answer = answer /\ r.job = j /\ r.attempt = a
    <3>1. call[c] \in Calls
      BY <1>1
    <3> QED
      BY <2>1, <3>1 DEF Calls
  <2>3. call' \in [Call -> Calls]
    BY <1>1, <1>2, <2>2
  <2>4. CallAgrees(c)'
    <3>1. CASE call[c].op = "claim"
      BY <1>1, <1>6, <2>2, <3>1 DEF CallAgrees
    <3>2. CASE call[c].op # "claim"
      <4>1. /\ call'[c].op = call[c].op /\ call'[c].by = call[c].by
            /\ call'[c].what = call[c].what /\ call'[c].worker = call[c].worker
            /\ call'[c].job = call[c].job /\ call'[c].attempt = call[c].attempt
            /\ call'[c].answer = answer
        BY <1>6, <2>2, <3>2
      <4> QED
        BY <1>1, <3>2, <4>1 DEF CallAgrees
    <3> QED
      BY <3>1, <3>2
  <2>5. \/ call[c].op = "claim"
        \/ call'[c].job = call[c].job /\ call'[c].attempt = call[c].attempt
    BY <1>6, <2>2
  <2> QED
    BY <1>6, <2>2, <2>3, <2>4, <2>5, CallsMove
<1> QED
  BY <1>4, <1>5

(* An answer that names what the call named.                               *)
LEMMA AnswerKept ==
  ASSUME CallInv, receipts \subseteq receipts', UNCHANGED proc,
         NEW c \in Call, call[c].op # "none",
         NEW answer \in {"ok", "empty", "lost", "error"}, Answer(c, answer),
         answer = "empty" => call[c].op = "claim",
         call[c].op = "claim" => answer # "ok",
         call[c].op \in {"write", "settle"} /\ answer = "ok" => KeyOf(c) \in receipts'
  PROVE  CallInv'
<1>1. call[c].job \in Job \cup {None} /\ call[c].attempt \in Nat
  BY TypesUnfolded DEF CallInv, Calls
<1> QED
  BY <1>1, ReplyKept DEF Answer, KeyOf, Key

(* The steps of one process that nobody's answer is under way to.          *)
LEMMA ProcMoves ==
  ASSUME CallInv, UNCHANGED receipts, NEW w \in Worker, NEW p \in Procs,
         proc' = [proc EXCEPT ![w] = p], WorkerAgrees(w)', call' \in [Call -> Calls],
         \A c \in Call :
           /\ call'[c].by # w
           /\ \/ call'[c] = call[c]
              \/ call'[c] = Free
              \/ call'[c] = [call[c] EXCEPT !.by = None]
  PROVE  CallInv'
<1>1. proc \in [Worker -> Procs] /\ call \in [Call -> Calls] /\ CallsAgree
  BY TypesUnfolded DEF CallInv
<1>2. CallTypeOK'
  <2>1. proc' \in [Worker -> Procs]
    BY <1>1
  <2> QED
    BY <2>1 DEF CallTypeOK, Procs, Calls
<1>3. \A v \in Worker : v # w => proc'[v] = proc[v]
  BY <1>1
<1>4. \A v \in Worker : WorkerAgrees(v)'
  <2>1. ASSUME NEW v \in Worker, v # w PROVE WorkerAgrees(v)'
    <3>1. WorkerAgrees(v) /\ proc'[v] = proc[v]
      BY <1>1, <1>3, <2>1 DEF CallsAgree
    <3> QED
      BY <3>1 DEF WorkerAgrees
  <2> QED
    BY <2>1
<1>5. ASSUME NEW c \in Call PROVE CallAgrees(c)'
  <2>1. CallAgrees(c)
    BY <1>1 DEF CallsAgree
  <2>2. CASE call'[c] = call[c]
    BY <2>1, <2>2 DEF CallAgrees
  <2>3. CASE call'[c] = Free
    BY <2>3 DEF CallAgrees, Free
  <2>4. CASE call'[c] = [call[c] EXCEPT !.by = None]
    <3>1. /\ call'[c].op = call[c].op /\ call'[c].worker = call[c].worker
          /\ call'[c].job = call[c].job /\ call'[c].attempt = call[c].attempt
          /\ call'[c].what = call[c].what /\ call'[c].answer = call[c].answer
          /\ call'[c].by = None
      BY <1>1, <2>4 DEF Calls
    <3> QED
      BY <2>1, <3>1 DEF CallAgrees
  <2> QED
    BY <2>2, <2>3, <2>4
<1>6. ASSUME NEW c \in Call, call'[c].by # None
      PROVE  call'[c] = call[c] /\ call[c].by \in Worker /\ call[c].by # w
  <2>1. call'[c] # Free /\ call'[c] # [call[c] EXCEPT !.by = None]
    BY <1>1, <1>6 DEF Free, Calls
  <2>2. call'[c] = call[c]
    BY <2>1
  <2> QED
    BY <1>1, <1>6, <2>2 DEF Calls
<1>7. ASSUME NEW c \in Call, call'[c].by # None PROVE CopyAgrees(c)'
  <2>1. CopyAgrees(c) /\ call'[c] = call[c] /\ proc'[call[c].by] = proc[call[c].by]
    BY <1>1, <1>3, <1>6, <1>7 DEF CallsAgree
  <2> QED
    BY <2>1 DEF CopyAgrees
<1>8. ASSUME NEW c \in Call, NEW d \in Call, call'[c].by # None, call'[c].by = call'[d].by
      PROVE  c = d
  <2>1. call'[c] = call[c] /\ call'[d] = call[d]
    BY <1>6, <1>8
  <2> QED
    BY <1>1, <1>8, <2>1 DEF CallsAgree
<1>9. CallsAgree'
  BY <1>4, <1>5, <1>7, <1>8 DEF CallsAgree
<1> QED
  BY <1>2, <1>9 DEF CallInv

LEMMA CallsSame ==
  ASSUME CallInv, UNCHANGED <<receipts, proc, call>> PROVE CallInv'
<1>1. call' \in [Call -> Calls]
  BY TypesUnfolded DEF CallInv
<1> QED
  BY <1>1, CallsMove

LEMMA ServeClaimKept ==
  ASSUME QueueInv, NEW c \in Call, ServeClaim(c) PROVE RowInv' /\ CallInv'
<1>1. call[c].op = "claim" /\ UNCHANGED <<proc, confirmed>>
  BY DEF ServeClaim, Asked, Served
<1>2. CASE UNCHANGED rows /\ Answer(c, "empty")
  <2>1. RowInv'
    BY <1>1, <1>2, RowsSame DEF QueueInv
  <2>2. receipts \subseteq receipts'
    BY <1>2 DEF rows
  <2>3. CallInv'
    BY <1>1, <1>2, <2>2, AnswerKept DEF QueueInv
  <2> QED
    BY <2>1, <2>3 DEF QueueInv
<1>3. ASSUME NEW j \in Job, ClaimJob(j, call[c].worker), Reply(c, "ok", j, attempts'[j])
      PROVE  RowInv' /\ CallInv'
  <2>1. call[c].worker \in Worker
    BY <1>1 DEF QueueInv, CallInv, CallsAgree, CallAgrees
  <2>2. RowInv'
    BY <1>1, <1>3, <2>1, ClaimKept DEF QueueInv
  <2>3. attempts'[j] \in Nat /\ receipts \subseteq receipts'
    BY <1>3, <2>2 DEF RowInv, RowTypeOK, ClaimJob
  <2>4. CallInv'
    BY <1>1, <1>3, <2>3, ReplyKept DEF QueueInv
  <2> QED
    BY <2>2, <2>4 DEF QueueInv
<1> QED
  BY <1>2, <1>3 DEF ServeClaim

LEMMA ServeReleaseKept ==
  ASSUME QueueInv, NEW c \in Call, ServeRelease(c) PROVE RowInv' /\ CallInv'
<1>1. call[c].op = "release" /\ UNCHANGED <<proc, confirmed>> /\ call[c].worker \in Worker
  BY DEF ServeRelease, Asked, Served, QueueInv, CallInv, CallsAgree, CallAgrees
<1>2. RowInv'
  BY <1>1, ReleaseKept DEF ServeRelease, QueueInv
<1>3. receipts \subseteq receipts'
  BY DEF ServeRelease, ReleaseOwned
<1>4. CallInv'
  BY <1>1, <1>3, AnswerKept DEF ServeRelease, QueueInv
<1> QED
  BY <1>2, <1>4 DEF QueueInv

LEMMA LookUpKept ==
  ASSUME QueueInv, NEW c \in Call, LookUp(c) PROVE RowInv' /\ CallInv'
<1>1. /\ call[c].op \in {"write", "settle"} /\ UNCHANGED <<rows, confirmed>> /\ UNCHANGED proc
      /\ receipts \subseteq receipts'
  BY DEF LookUp, IsWrite, Asked, Served, rows
<1>2. RowInv'
  BY <1>1, RowsSame DEF QueueInv
<1>3. CASE KeyOf(c) \in receipts
  BY <1>1, <1>2, <1>3, AnswerKept DEF LookUp, QueueInv
<1>4. CASE KeyOf(c) \notin receipts
  <2>1. call \in [Call -> Calls] /\ CallAgrees(c)
    BY TypesUnfolded DEF QueueInv, CallInv, CallsAgree
  <2>2. call[c] \in Calls /\ call' = [call EXCEPT ![c] = [call[c] EXCEPT !.checked = TRUE]]
    BY <1>4, <2>1 DEF LookUp
  <2>3. call'[c] = [call[c] EXCEPT !.checked = TRUE]
    BY <2>1, <2>2
  <2>4. /\ call'[c] \in Calls
        /\ call'[c].op = call[c].op /\ call'[c].by = call[c].by
        /\ call'[c].what = call[c].what /\ call'[c].worker = call[c].worker
        /\ call'[c].job = call[c].job /\ call'[c].attempt = call[c].attempt
        /\ call'[c].answer = call[c].answer
    <3>1. call[c] \in Calls
      BY <2>2
    <3> QED
      BY <2>3, <3>1 DEF Calls
  <2>5. call' \in [Call -> Calls] /\ \A d \in Call : d # c => call'[d] = call[d]
    BY <2>1, <2>2, <2>3, <2>4
  <2>6. CallAgrees(c)'
    BY <1>1, <2>1, <2>4 DEF CallAgrees
  <2>7. CallInv'
    BY <1>1, <2>4, <2>5, <2>6, CallsMove DEF QueueInv
  <2> QED
    BY <1>2, <2>7 DEF QueueInv
<1> QED
  BY <1>3, <1>4

LEMMA CommitWriteKept ==
  ASSUME QueueInv, NEW c \in Call, CommitWrite(c) PROVE RowInv' /\ CallInv'
<1>1. call[c].op = "write" /\ UNCHANGED proc
  BY DEF CommitWrite, Asked, Served
<1>2. receipts \subseteq receipts'
  BY DEF CommitWrite, rows
<1>3. RowInv'
  BY WriteKept DEF QueueInv
<1>4. CallInv'
  <2>1. CASE Answer(c, "lost")
    BY <1>1, <1>2, <2>1, AnswerKept DEF QueueInv
  <2>2. CASE Answer(c, "ok") /\ KeyOf(c) \in receipts'
    BY <1>1, <1>2, <2>2, AnswerKept DEF QueueInv
  <2>3. Answer(c, "lost") \/ (Answer(c, "ok") /\ KeyOf(c) \in receipts')
    BY DEF CommitWrite, rows
  <2> QED
    BY <2>1, <2>2, <2>3
<1> QED
  BY <1>3, <1>4 DEF QueueInv

LEMMA CommitSettleKept ==
  ASSUME QueueInv, NEW c \in Call, CommitSettle(c) PROVE RowInv' /\ CallInv'
<1>1. call[c].op = "settle" /\ UNCHANGED proc
  BY DEF CommitSettle, Asked, Served
<1>2. receipts \subseteq receipts'
  BY DEF CommitSettle, rows
<1>3. RowInv'
  BY SettleKept DEF QueueInv
<1>4. CallInv'
  <2>1. CASE Answer(c, "lost")
    BY <1>1, <1>2, <2>1, AnswerKept DEF QueueInv
  <2>2. CASE Answer(c, "ok") /\ KeyOf(c) \in receipts'
    BY <1>1, <1>2, <2>2, AnswerKept DEF QueueInv
  <2>3. Answer(c, "lost") \/ (Answer(c, "ok") /\ KeyOf(c) \in receipts')
    BY DEF CommitSettle
  <2> QED
    BY <2>1, <2>2, <2>3
<1> QED
  BY <1>3, <1>4 DEF QueueInv

LEMMA FailAtApiKept ==
  ASSUME QueueInv, NEW c \in Call, FailAtApi(c) PROVE RowInv' /\ CallInv'
<1>1. /\ call[c].op # "none" /\ UNCHANGED <<rows, confirmed>> /\ UNCHANGED proc
      /\ receipts \subseteq receipts' /\ Answer(c, "error")
  BY DEF FailAtApi, rows
<1>2. CallInv'
  BY <1>1, AnswerKept DEF QueueInv
<1> QED
  BY <1>1, <1>2, RowsSame DEF QueueInv

(* A call is freed, or its client is gone.                                 *)
LEMMA LetGo ==
  ASSUME CallInv, UNCHANGED <<receipts, proc>>, NEW c \in Call,
         \/ call' = [call EXCEPT ![c] = Free]
         \/ call' = [call EXCEPT ![c] = [call[c] EXCEPT !.by = None]]
  PROVE  CallInv'
<1>1. call \in [Call -> Calls] /\ CallAgrees(c)
  BY TypesUnfolded DEF CallInv, CallsAgree
<1>2. CASE call' = [call EXCEPT ![c] = Free]
  <2>1. call'[c] = Free
    BY <1>1, <1>2
  <2>2. call' \in [Call -> Calls] /\ \A d \in Call : d # c => call'[d] = call[d]
    BY <1>1, <1>2, FreeIsFine
  <2>3. CallAgrees(c)' /\ call'[c].by = None
    BY <2>1, FreeIsFine DEF CallAgrees
  <2> QED
    BY <2>2, <2>3, CallsMove
<1>3. CASE call' = [call EXCEPT ![c] = [call[c] EXCEPT !.by = None]]
  <2>1. call[c] \in Calls /\ call'[c] = [call[c] EXCEPT !.by = None]
    BY <1>1, <1>3
  <2>2. /\ call'[c] \in Calls
        /\ call'[c].op = call[c].op /\ call'[c].by = None
        /\ call'[c].what = call[c].what /\ call'[c].worker = call[c].worker
        /\ call'[c].job = call[c].job /\ call'[c].attempt = call[c].attempt
        /\ call'[c].answer = call[c].answer
    BY <2>1 DEF Calls
  <2>3. call' \in [Call -> Calls] /\ \A d \in Call : d # c => call'[d] = call[d]
    BY <1>1, <1>3, <2>1, <2>2
  <2>4. CallAgrees(c)'
    BY <1>1, <2>2 DEF CallAgrees
  <2> QED
    BY <2>2, <2>3, <2>4, CallsMove
<1> QED
  BY <1>2, <1>3

-------------------------------------------------------------------------------
(* The steps of a worker.                                                  *)

(* What a worker may post.                                                 *)
Posted(m, w) ==
  /\ m.op # "none" /\ m.answer = "none"
  /\ m.by = None \/ (m.by = w /\ ~Waits(w))
  /\ m.op \in {"write", "settle"} => m.job \in Job
  /\ m.op = "write" => m.what \in 1 .. MaxWrites
  /\ m.op = "settle" => m.what = Run
  /\ m.by = w => \/ m.op = "claim" /\ proc[w].step = "claiming"
                 \/ m.op = "settle" /\ proc[w].step = "settling"
                 \/ /\ m.op = "write" /\ proc[w].step = "writing" /\ m.job = proc[w].job
                    /\ m.attempt = proc[w].attempt /\ m.what = proc[w].n

LEMMA PostKept ==
  ASSUME CallInv, UNCHANGED <<receipts, proc>>, NEW w \in Worker, NEW m \in Calls,
         Post(w, m), Posted(m, w)
  PROVE  CallInv'
<1>1. call \in [Call -> Calls] /\ CallTypeOK /\ CallsAgree
  BY TypesUnfolded DEF CallInv
<1>2. PICK c \in Slots : call' = [call EXCEPT ![c] = [m EXCEPT !.worker = w]]
  BY DEF Post
<1> DEFINE r == [m EXCEPT !.worker = w]
<1>3. r \in Calls /\ r.op = m.op /\ r.by = m.by /\ r.worker = w /\ r.job = m.job
      /\ r.attempt = m.attempt /\ r.what = m.what /\ r.answer = m.answer
  BY DEF Calls
<1>4. c \in Call /\ call[c].by = None
  BY FreeIsFine DEF Slots
<1> HIDE DEF r
<1>5. call' \in [Call -> Calls] /\ call'[c] = r /\ \A d \in Call : d # c => call'[d] = call[d]
  BY <1>1, <1>2, <1>3, <1>4 DEF r
<1>6. CallTypeOK'
  BY <1>1, <1>5 DEF CallTypeOK, Calls
<1>7. \A v \in Worker : WorkerAgrees(v)'
  BY <1>1 DEF CallsAgree, WorkerAgrees
<1>8. ASSUME NEW d \in Call
      PROVE  CallAgrees(d)' /\ (call'[d].by # None => CopyAgrees(d)')
  <2>1. CASE d # c
    <3>1. /\ CallAgrees(d) /\ (call[d].by # None => CopyAgrees(d))
          /\ call'[d] = call[d]
      BY <1>1, <1>5, <2>1 DEF CallsAgree
    <3> QED
      BY <3>1 DEF CallAgrees, CopyAgrees
  <2>2. CASE d = c
    <3>1. CallAgrees(c)'
      BY <1>3, <1>5 DEF CallAgrees, Posted
    <3>2. call'[c].by # None => CopyAgrees(c)'
      BY <1>3, <1>5 DEF CopyAgrees, Posted
    <3> QED
      BY <2>2, <3>1, <3>2
  <2> QED
    BY <2>1, <2>2
<1>9. ASSUME NEW b \in Call, NEW d \in Call, call'[b].by # None, call'[b].by = call'[d].by
      PROVE  b = d
  BY <1>1, <1>3, <1>5, <1>9 DEF CallsAgree, Waits, Posted
<1>10. CallsAgree'
  BY <1>7, <1>8, <1>9 DEF CallsAgree
<1> QED
  BY <1>6, <1>10 DEF CallInv

(* What a worker sends, by what it is doing.                               *)
LEMMA MessageIs ==
  ASSUME CallInv, NEW w \in Worker, proc[w].step \in {"claiming", "writing", "settling"}
  PROVE  /\ Message(w) \in Calls /\ Message(w).answer = "none"
         /\ ~Waits(w) => Posted(Message(w), w)
         /\ Message(w).op = "write" =>
              /\ proc[w].step = "writing" /\ Message(w).job = proc[w].job
              /\ Message(w).attempt = proc[w].attempt /\ Message(w).what = proc[w].n
<1>1. proc[w] \in Procs /\ WorkerAgrees(w)
  BY TypesUnfolded DEF CallInv, CallsAgree
<1> DEFINE m == Message(w)
<1>2. CASE proc[w].step = "claiming"
  <2>1. m = [Free EXCEPT !.op = "claim", !.by = w]
    BY <1>2 DEF Message
  <2> HIDE DEF m
  <2>2. /\ m \in Calls /\ m.op = "claim" /\ m.by = w /\ m.answer = "none"
        /\ m.op # "none" /\ m.op \notin {"write", "settle"} /\ m.op # "write" /\ m.op # "settle"
    <3>1. m \in Calls
      BY <2>1, QueueAssumption DEF Free, Calls
    <3>2. m.op = "claim" /\ m.by = w /\ m.answer = "none"
      BY <2>1 DEF Free
    <3> QED
      BY <3>1, <3>2
  <2>3. ~Waits(w) => Posted(m, w)
    BY <1>2, <2>2 DEF Posted
  <2> QED
    BY <2>2, <2>3 DEF m
<1>3. CASE proc[w].step = "writing"
  <2>1. m = [Free EXCEPT !.op = "write", !.by = w, !.job = proc[w].job,
                         !.attempt = proc[w].attempt, !.what = proc[w].n]
    BY <1>3 DEF Message
  <2>2. proc[w].job \in Job /\ proc[w].n \in 1 .. MaxWrites /\ proc[w].attempt \in Nat
    BY <1>1, <1>3, QueueAssumption DEF WorkerAgrees, Procs
  <2>3. /\ m \in Calls /\ m.op = "write" /\ m.by = w /\ m.answer = "none"
        /\ m.job = proc[w].job /\ m.attempt = proc[w].attempt /\ m.what = proc[w].n
    BY <2>1, <2>2, QueueAssumption DEF Free, Calls, Entry
  <2> HIDE DEF m
  <2>4. ~Waits(w) => Posted(m, w)
    BY <1>3, <2>2, <2>3 DEF Posted
  <2> QED
    BY <1>3, <2>3, <2>4 DEF m
<1>4. CASE proc[w].step = "settling"
  <2>1. m = [Free EXCEPT !.op = "settle", !.by = w, !.job = proc[w].job,
                         !.attempt = proc[w].attempt, !.what = Run,
                         !.outcome = proc[w].outcome]
    BY <1>4 DEF Message
  <2>2. /\ proc[w].job \in Job /\ proc[w].attempt \in Nat
        /\ proc[w].outcome \in Outcome \cup {"none"}
    BY <1>1, <1>4 DEF WorkerAgrees, Procs
  <2>3. /\ m \in Calls /\ m.op = "settle" /\ m.by = w /\ m.answer = "none"
        /\ m.job \in Job /\ m.what = Run
    BY <2>1, <2>2, QueueAssumption DEF Free, Calls, Entry
  <2> HIDE DEF m
  <2>4. ~Waits(w) => Posted(m, w)
    BY <1>4, <2>2, <2>3 DEF Posted
  <2> QED
    BY <2>3, <2>4 DEF m
<1> QED
  BY <1>2, <1>3, <1>4

LEMMA SendKept ==
  ASSUME CallInv, NEW w \in Worker, Send(w) PROVE CallInv'
<1> DEFINE m == Message(w)
<1>1. /\ UNCHANGED <<receipts, proc>> /\ ~Waits(w) /\ Post(w, m)
      /\ proc[w].step \in {"claiming", "writing", "settling"}
  BY DEF Send, rows
<1>2. m \in Calls /\ Posted(m, w)
  BY <1>1, MessageIs
<1> HIDE DEF m
<1> QED
  BY <1>1, <1>2, PostKept

LEMMA SendReleaseKept ==
  ASSUME CallInv, NEW w \in Worker, SendRelease(w) PROVE CallInv'
<1> DEFINE m == [Free EXCEPT !.op = "release"]
<1>1. m \in Calls /\ m.op = "release" /\ m.by = None /\ m.answer = "none"
  BY QueueAssumption DEF Free, Calls
<1>2. UNCHANGED <<receipts, proc>> /\ Post(w, m)
  BY DEF SendRelease, rows
<1> HIDE DEF m
<1>3. Posted(m, w)
  BY <1>1, QueueAssumption DEF Posted
<1> QED
  BY <1>1, <1>2, <1>3, PostKept

(* A worker at rest, in its handler or between two of its calls waits for  *)
(* nothing, and may move on.                                               *)
LEMMA Moves ==
  ASSUME CallInv, UNCHANGED <<receipts, call>>, NEW w \in Worker, NEW p \in Procs,
         proc' = [proc EXCEPT ![w] = p], ~Waits(w), WorkerAgrees(w)'
  PROVE  CallInv'
<1>1. call' \in [Call -> Calls]
  BY TypesUnfolded DEF CallInv
<1>2. \A c \in Call : call'[c].by # w /\ call'[c] = call[c]
  BY DEF Waits
<1> QED
  BY <1>1, <1>2, ProcMoves

LEMMA NobodyWaits ==
  ASSUME CallInv, NEW w \in Worker,
         proc[w].step \notin {"claiming", "writing", "settling"}
  PROVE  ~Waits(w)
BY QueueAssumption DEF CallInv, CallsAgree, CopyAgrees, Waits

(* Of a state of a worker: it is at a job, and a write has a number.       *)
PlaceAgrees(p) ==
  /\ p.step \in {"handling", "writing", "settling"} => p.job \in Job
  /\ p.step = "writing" => p.n # 0

LEMMA ErrorIsFine ==
  ASSUME CallInv, NEW w \in Worker
  PROVE  AfterError(w) \in Procs /\ PlaceAgrees(AfterError(w))
<1>1. proc[w] \in Procs /\ WorkerAgrees(w)
  BY TypesUnfolded DEF CallInv, CallsAgree
<1>2. CASE proc[w].step = "writing"
  <2> DEFINE p == AfterError(w)
  <2>1. p = [proc[w] EXCEPT !.step = "handling"]
    BY <1>2 DEF AfterError
  <2> HIDE DEF p
  <2>2. p \in Procs /\ p.step = "handling" /\ p.job = proc[w].job
    BY <1>1, <2>1 DEF Procs
  <2>3. PlaceAgrees(p)
    BY <1>1, <1>2, <2>2 DEF PlaceAgrees, WorkerAgrees
  <2> QED
    BY <2>2, <2>3 DEF p
<1>3. CASE proc[w].step # "writing"
  <2>1. AfterError(w) = Rest
    BY <1>3 DEF AfterError
  <2>2. Rest.step = "idle"
    BY DEF Rest
  <2> QED
    BY <2>1, <2>2, FreeIsFine DEF PlaceAgrees
<1> QED
  BY <1>2, <1>3

LEMMA PlaceKept ==
  ASSUME CallInv, UNCHANGED receipts, NEW w \in Worker, NEW p \in Procs, PlaceAgrees(p),
         proc' = [proc EXCEPT ![w] = p]
  PROVE  WorkerAgrees(w)'
<1>1. proc'[w] = p
  BY TypesUnfolded DEF CallInv
<1> QED
  BY <1>1 DEF PlaceAgrees, WorkerAgrees

LEMMA WorkKept ==
  ASSUME CallInv, NEW w \in Worker, Claim(w) \/ HandlerWrites(w) \/ HandlerEnds(w)
  PROVE  CallInv'
<1>1. proc[w] \in Procs /\ WorkerAgrees(w)
  BY TypesUnfolded DEF CallInv, CallsAgree
<1>2. UNCHANGED <<receipts, call>> /\ ~Waits(w)
  BY NobodyWaits DEF Claim, HandlerWrites, HandlerEnds, Local, rows
<1>3. CASE Claim(w)
  <2> DEFINE p == [Rest EXCEPT !.step = "claiming"]
  <2>1. p \in Procs /\ p.step = "claiming"
    BY QueueAssumption DEF Rest, Procs
  <2>2. proc' = [proc EXCEPT ![w] = p]
    BY <1>3 DEF Claim, Become
  <2> HIDE DEF p
  <2>3. PlaceAgrees(p)
    BY <2>1 DEF PlaceAgrees
  <2> QED
    BY <1>2, <2>1, <2>2, <2>3, PlaceKept, Moves
<1>4. CASE HandlerWrites(w)
  <2> DEFINE p == [proc[w] EXCEPT !.step = "writing", !.n = proc[w].n + 1]
  <2>1. /\ proc[w].step = "handling"
        /\ proc[w].n \in 0 .. MaxWrites /\ proc[w].n + 1 \in 1 .. MaxWrites
    BY <1>1, <1>4, QueueAssumption DEF HandlerWrites, Procs
  <2>2. /\ p \in Procs /\ p.step = "writing" /\ p.n = proc[w].n + 1
        /\ p.job = proc[w].job /\ p.attempt = proc[w].attempt
    <3>1. proc[w] \in Procs /\ proc[w].n + 1 \in 0 .. MaxWrites
      BY <1>1, <2>1, QueueAssumption
    <3> QED
      BY <3>1 DEF Procs
  <2>3. proc' = [proc EXCEPT ![w] = p]
    BY <1>4 DEF HandlerWrites, Become
  <2> HIDE DEF p
  <2>4. p.job \in Job /\ p.n # 0
    BY <1>1, <2>1, <2>2 DEF WorkerAgrees
  <2>5. PlaceAgrees(p)
    BY <2>2, <2>4 DEF PlaceAgrees
  <2> QED
    BY <1>2, <2>2, <2>3, <2>5, PlaceKept, Moves
<1>5. CASE HandlerEnds(w)
  <2>1. PICK o \in Outcome :
          proc' = [proc EXCEPT ![w] = [proc[w] EXCEPT !.step = "settling", !.n = 0,
                                                      !.outcome = o]]
    BY <1>5 DEF HandlerEnds, Become
  <2> DEFINE p == [proc[w] EXCEPT !.step = "settling", !.n = 0, !.outcome = o]
  <2>2. p \in Procs /\ p.step = "settling" /\ p.job = proc[w].job
    <3>1. 0 \in 0 .. MaxWrites
      BY QueueAssumption
    <3> QED
      BY <1>1, <3>1 DEF Procs
  <2>3. proc' = [proc EXCEPT ![w] = p]
    BY <2>1
  <2> HIDE DEF p
  <2>4. PlaceAgrees(p)
    BY <1>1, <1>5, <2>2 DEF PlaceAgrees, WorkerAgrees, HandlerEnds
  <2> QED
    BY <1>2, <2>2, <2>3, <2>4, PlaceKept, Moves
<1> QED
  BY <1>3, <1>4, <1>5

LEMMA GoneKept ==
  ASSUME CallInv, NEW w \in Worker, Gone(w) PROVE CallInv'
<1>1. call \in [Call -> Calls]
  BY TypesUnfolded DEF CallInv
<1>2. /\ UNCHANGED receipts /\ proc' = [proc EXCEPT ![w] = Rest]
      /\ call' = [c \in Call |-> IF call[c].by # w THEN call[c]
                                  ELSE IF call[c].answer # "none" THEN Free
                                  ELSE [call[c] EXCEPT !.by = None]]
  BY DEF Gone, Become, rows
<1>3. ASSUME NEW c \in Call
      PROVE  /\ call'[c] \in Calls /\ call'[c].by # w
             /\ \/ call'[c] = call[c]
                \/ call'[c] = Free
                \/ call'[c] = [call[c] EXCEPT !.by = None]
  <2>1. call[c] \in Calls
    BY <1>1
  <2>2. CASE call[c].by # w
    BY <1>2, <2>1, <2>2
  <2>3. CASE call[c].by = w /\ call[c].answer # "none"
    <3>1. call'[c] = Free
      BY <1>2, <2>3
    <3> QED
      BY <3>1, FreeIsFine, QueueAssumption
  <2>4. CASE call[c].by = w /\ call[c].answer = "none"
    <3>1. call'[c] = [call[c] EXCEPT !.by = None]
      BY <1>2, <2>4
    <3>2. call'[c] \in Calls /\ call'[c].by = None
      BY <2>1, <3>1 DEF Calls
    <3> QED
      BY <3>1, <3>2, QueueAssumption
  <2> QED
    BY <2>2, <2>3, <2>4
<1>4. call' \in [Call -> Calls]
  <2>1. call' = [c \in Call |-> call'[c]]
    BY <1>2
  <2> QED
    BY <1>3, <2>1
<1>5. Rest \in Procs /\ PlaceAgrees(Rest)
  BY FreeIsFine DEF PlaceAgrees, Rest
<1>6. WorkerAgrees(w)'
  BY <1>2, <1>5, PlaceKept
<1> QED
  BY <1>2, <1>3, <1>4, <1>5, <1>6, ProcMoves

LEMMA ReceiveKept ==
  ASSUME CallInv, NEW c \in Call, Receive(c) PROVE CallInv'
<1>0. PICK w \in Worker : w = call[c].by
  <2>1. call[c] \in Calls /\ call[c].by # None
    BY TypesUnfolded DEF CallInv, Receive
  <2> QED
    BY <2>1 DEF Calls
<1> DEFINE p == AfterAnswer(c, w)
<1>1. /\ call[c] \in Calls /\ call \in [Call -> Calls] /\ CallAgrees(c)
      /\ CopyAgrees(c) /\ proc[w] \in Procs /\ WorkerAgrees(w)
      /\ \A d \in Call : call[d].by = w => d = c
  <2>1. call \in [Call -> Calls] /\ proc \in [Worker -> Procs] /\ CallsAgree
    BY TypesUnfolded DEF CallInv
  <2>2. call[c].by # None
    BY DEF Receive
  <2> QED
    BY <1>0, <2>1, <2>2 DEF CallsAgree
<1>2. /\ proc' = [proc EXCEPT ![w] = p] /\ call' = [call EXCEPT ![c] = Free]
      /\ UNCHANGED receipts /\ call[c].answer # "none"
  BY <1>0 DEF Receive, Become, rows
<1>3. p \in Procs /\ PlaceAgrees(p)
  <2>1. CASE call[c].answer = "error" \/ (call[c].answer = "lost" /\ call[c].op = "write")
    <3>1. p = AfterError(w)
      BY <2>1 DEF AfterAnswer
    <3> QED
      BY <1>1, <3>1, ErrorIsFine
  <2>2. CASE call[c].op = "claim" /\ call[c].answer = "ok"
    <3>1. p = [Rest EXCEPT !.step = "handling", !.job = call[c].job, !.attempt = call[c].attempt]
      BY <2>2 DEF AfterAnswer
    <3>2. call[c].job \in Job /\ call[c].attempt \in Nat
      BY <1>1, <2>2 DEF CallAgrees, Calls
    <3> HIDE DEF p
    <3>3. p \in Procs /\ p.step = "handling" /\ p.job \in Job /\ p.n = 0
      <4>1. p = [step |-> "handling", job |-> call[c].job, attempt |-> call[c].attempt,
                 n |-> 0, outcome |-> "none"]
        BY <3>1 DEF Rest
      <4> QED
        BY <3>2, <4>1, QueueAssumption DEF Procs
    <3> QED
      BY <3>3 DEF PlaceAgrees
  <2>3. CASE call[c].op = "write" /\ call[c].answer = "ok"
    <3>1. p = [proc[w] EXCEPT !.step = "handling"]
      BY <2>3 DEF AfterAnswer
    <3>2. proc[w].step = "writing"
      BY <1>0, <1>1, <2>3 DEF CopyAgrees
    <3> HIDE DEF p
    <3>3. p \in Procs /\ p.step = "handling" /\ p.job = proc[w].job
      BY <1>1, <3>1 DEF Procs
    <3> QED
      BY <1>1, <3>2, <3>3 DEF PlaceAgrees, WorkerAgrees
  <2>4. CASE /\ ~(call[c].answer = "error" \/ (call[c].answer = "lost" /\ call[c].op = "write"))
             /\ ~(call[c].op = "claim" /\ call[c].answer = "ok")
             /\ ~(call[c].op = "write" /\ call[c].answer = "ok")
    <3>1. p = Rest
      BY <2>4 DEF AfterAnswer
    <3> QED
      BY <3>1, FreeIsFine DEF PlaceAgrees, Rest
  <2> QED
    BY <2>1, <2>2, <2>3, <2>4
<1> HIDE DEF p
<1>4. WorkerAgrees(w)'
  BY <1>1, <1>2, <1>3, PlaceKept
<1>5. call' \in [Call -> Calls]
  BY <1>1, <1>2, FreeIsFine
<1>6. \A d \in Call : call'[d].by # w /\ (call'[d] = call[d] \/ call'[d] = Free)
  BY <1>1, <1>2, FreeIsFine, QueueAssumption
<1> QED
  BY <1>1, <1>2, <1>3, <1>4, <1>5, <1>6, ProcMoves

(* A copy that failed is freed, or its client is gone, and the worker that *)
(* waited for it goes on waiting or gets the error.                        *)
LEMMA LossKept ==
  ASSUME CallInv, NEW c \in Call, Lose(c) \/ Die(c) PROVE CallInv'
<1>1. /\ UNCHANGED receipts /\ AfterLoss(c)
      /\ \/ call' = [call EXCEPT ![c] = Free]
         \/ call' = [call EXCEPT ![c] = [call[c] EXCEPT !.by = None]]
  BY DEF Lose, Die, rows
<1>2. CASE UNCHANGED proc
  BY <1>1, <1>2, LetGo
<1>3. CASE call[c].by # None /\ Become(call[c].by, AfterError(call[c].by))
  <2>1. call[c] \in Calls /\ call \in [Call -> Calls]
    BY TypesUnfolded DEF CallInv
  <2>2. PICK w \in Worker : w = call[c].by
    BY <1>3, <2>1 DEF Calls
  <2>3. /\ proc' = [proc EXCEPT ![w] = AfterError(w)]
        /\ AfterError(w) \in Procs /\ PlaceAgrees(AfterError(w))
    BY <1>3, <2>2, ErrorIsFine DEF Become
  <2>4. WorkerAgrees(w)'
    BY <1>1, <2>3, PlaceKept
  <2>5. \A d \in Call : call[d].by = w => d = c
    BY <2>2, <1>3 DEF CallInv, CallsAgree
  <2>6. CASE call' = [call EXCEPT ![c] = Free]
    <3>1. call' \in [Call -> Calls]
      BY <2>1, <2>6, FreeIsFine
    <3>2. \A d \in Call : call'[d].by # w /\ (call'[d] = call[d] \/ call'[d] = Free)
      BY <2>1, <2>5, <2>6, FreeIsFine, QueueAssumption
    <3> QED
      BY <1>1, <2>3, <2>4, <3>1, <3>2, ProcMoves
  <2>7. CASE call' = [call EXCEPT ![c] = [call[c] EXCEPT !.by = None]]
    <3>1. [call[c] EXCEPT !.by = None] \in Calls /\ [call[c] EXCEPT !.by = None].by = None
      BY <2>1 DEF Calls
    <3>2. call' \in [Call -> Calls]
      BY <2>1, <2>7, <3>1
    <3>3. call'[c] = [call[c] EXCEPT !.by = None] /\ \A d \in Call : d # c => call'[d] = call[d]
      BY <2>1, <2>7
    <3>4. \A d \in Call : /\ call'[d].by # w
                          /\ call'[d] = call[d] \/ call'[d] = [call[d] EXCEPT !.by = None]
      BY <2>5, <3>1, <3>3, QueueAssumption
    <3> QED
      BY <1>1, <2>3, <2>4, <3>2, <3>4, ProcMoves
  <2> QED
    BY <1>1, <2>6, <2>7
<1> QED
  BY <1>1, <1>2, <1>3 DEF AfterLoss

-------------------------------------------------------------------------------
(* The attempts.  Most steps hand out none, begin none and post no write.  *)

Slower(w) == At(w)' \subseteq At(w) /\ (At(w)' # {} => proc[w].n <= proc'[w].n)

Calmer(c) ==
  /\ For(c)' \subseteq For(c)
  /\ call'[c].op = "write" =>
       call[c].op = "write" /\ Under(c)' = Under(c) /\ call'[c].what = call[c].what

(* A receipt is of a write that was under way.                             *)
Traced ==
  \A r \in receipts' : r[3] # Run =>
    \/ r \in receipts
    \/ \E c \in Call : /\ call[c].op = "write" /\ call[c].what = r[3]
                       /\ Under(c) = <<r[1], r[2]>>

LEMMA AttemptTypes ==
  ASSUME QueueInv
  PROVE  /\ \A w \in Worker : \A x \in At(w) :
              x = <<x[1], x[2]>> /\ x[1] \in Job /\ x[2] \in Nat
         /\ \A c \in Call : \A x \in For(c) :
              x = <<x[1], x[2]>> /\ x[1] \in Job /\ x[2] \in Nat
         /\ \A c \in Call : call[c].op = "write" =>
              /\ call[c].job \in Job /\ call[c].attempt \in Nat
              /\ call[c].what \in Nat /\ call[c].what # 0
         /\ \A r \in receipts :
              /\ r[1] \in Job /\ r[2] \in Nat
              /\ r[3] # Run => r[3] \in Nat /\ r[3] # 0
         /\ \A w \in Worker : proc[w].n \in Nat
         /\ \A j \in Job : attempts[j] \in Nat
<1>1. /\ proc \in [Worker -> Procs] /\ call \in [Call -> Calls]
      /\ \A w \in Worker : WorkerAgrees(w)
      /\ \A c \in Call : CallAgrees(c)
  BY TypesUnfolded DEF QueueInv, CallInv, CallsAgree
<1>2. \A w \in Worker : \A x \in At(w) :
        x = <<x[1], x[2]>> /\ x[1] \in Job /\ x[2] \in Nat
  BY <1>1 DEF At, WorkerAgrees, Procs
<1>3. ASSUME NEW c \in Call, NEW x \in For(c)
      PROVE  x = <<x[1], x[2]>> /\ x[1] \in Job /\ x[2] \in Nat
  <2>1. /\ x = <<call[c].job, call[c].attempt>>
        /\ call[c].op = "claim" /\ call[c].answer = "ok"
    BY <1>3 DEF For
  <2>2. call[c].job \in Job /\ call[c].attempt \in Nat
    <3>1. CallAgrees(c) /\ call[c] \in Calls
      BY <1>1
    <3> QED
      BY <2>1, <3>1 DEF CallAgrees, Calls
  <2> QED
    BY <2>1, <2>2
<1>4. ASSUME NEW c \in Call, call[c].op = "write"
      PROVE  /\ call[c].job \in Job /\ call[c].attempt \in Nat
             /\ call[c].what \in Nat /\ call[c].what # 0
  <2>1. CallAgrees(c) /\ call[c] \in Calls
    BY <1>1
  <2>2. call[c].job \in Job /\ call[c].attempt \in Nat /\ call[c].what \in 1 .. MaxWrites
    BY <1>4, <2>1 DEF CallAgrees, Calls
  <2> QED
    BY <2>2, QueueAssumption
<1>5. \A r \in receipts : /\ r[1] \in Job /\ r[2] \in Nat
                          /\ r[3] # Run => r[3] \in Nat /\ r[3] # 0
  BY QueueAssumption DEF QueueInv, RowInv, RowTypeOK, Entry
<1>6. \A w \in Worker : proc[w].n \in Nat
  BY <1>1, QueueAssumption DEF Procs
<1>7. \A j \in Job : attempts[j] \in Nat
  BY DEF QueueInv, RowInv, RowTypeOK
<1> QED
  BY <1>2, <1>3, <1>4, <1>5, <1>6, <1>7

LEMMA ReachedKept ==
  ASSUME QueueInv, Traced, \A c \in Call : Calmer(c),
         NEW x, NEW n \in Nat, NEW m \in Nat, n <= m, Reached(x, n)
  PROVE  Reached(x, m)'
<1>1. ASSUME NEW r \in receipts', <<r[1], r[2]>> = x, r[3] # Run PROVE r[3] <= m
  <2>1. CASE r \in receipts
    <3>1. r[3] <= n /\ r[3] \in Nat
      BY <1>1, <2>1, AttemptTypes DEF Reached
    <3> QED
      BY <3>1
  <2>2. CASE r \notin receipts
    <3>1. PICK c \in Call : /\ call[c].op = "write" /\ call[c].what = r[3]
                            /\ Under(c) = <<r[1], r[2]>>
      BY <1>1, <2>2 DEF Traced
    <3>2. call[c].what <= n /\ call[c].what \in Nat
      BY <1>1, <3>1, AttemptTypes DEF Reached
    <3> QED
      BY <3>1, <3>2
  <2> QED
    BY <2>1, <2>2
<1>2. ASSUME NEW c \in Call, call'[c].op = "write", Under(c)' = x PROVE call'[c].what <= m
  <2>1. call[c].op = "write" /\ Under(c) = x /\ call'[c].what = call[c].what
    BY <1>2 DEF Calmer
  <2>2. call[c].what <= n /\ call[c].what \in Nat
    BY <2>1, AttemptTypes DEF Reached
  <2> QED
    BY <2>1, <2>2
<1> QED
  BY <1>1, <1>2 DEF Reached

LEMMA AttemptsKept ==
  ASSUME QueueInv, Traced, attempts' \in [Job -> Nat], \A w \in Worker : proc'[w].n \in Nat,
         \A j \in Job : attempts[j] <= attempts'[j],
         \A w \in Worker : Slower(w), \A c \in Call : Calmer(c)
  PROVE  AttemptsAgree'
<1>1. AttemptsAgree
  BY DEF QueueInv
<1>2. ASSUME NEW w \in Worker, NEW x \in At(w)'
      PROVE  x[2] <= attempts'[x[1]] /\ Reached(x, proc[w].n)'
  <2>1. x \in At(w) /\ proc[w].n <= proc'[w].n
    BY <1>2 DEF Slower
  <2>2. x[2] <= attempts[x[1]] /\ Reached(x, proc[w].n)
    BY <1>1, <2>1 DEF AttemptsAgree
  <2>3. /\ x[2] \in Nat /\ x[1] \in Job /\ proc[w].n \in Nat
        /\ attempts[x[1]] \in Nat /\ attempts'[x[1]] \in Nat
    BY <2>1, AttemptTypes
  <2>4. x[2] <= attempts'[x[1]]
    BY <2>2, <2>3
  <2> QED
    BY <2>1, <2>2, <2>3, <2>4, ReachedKept DEF Reached
<1>3. ASSUME NEW c \in Call, NEW x \in For(c)'
      PROVE  x[2] <= attempts'[x[1]] /\ Reached(x, 0)'
  <2>1. x \in For(c)
    BY <1>3 DEF Calmer
  <2>2. x[2] <= attempts[x[1]] /\ Reached(x, 0)
    BY <1>1, <2>1 DEF AttemptsAgree
  <2>3. x[2] \in Nat /\ x[1] \in Job /\ attempts[x[1]] \in Nat /\ attempts'[x[1]] \in Nat
    BY <2>1, AttemptTypes
  <2>4. x[2] <= attempts'[x[1]]
    BY <2>2, <2>3
  <2> QED
    BY <2>2, <2>4, ReachedKept
<1>4. ASSUME NEW c \in Call, call'[c].op = "write"
      PROVE  call'[c].attempt <= attempts'[call'[c].job]
  <2>1. call[c].op = "write" /\ call'[c].job = call[c].job /\ call'[c].attempt = call[c].attempt
    BY <1>4 DEF Calmer, Under
  <2>2. call[c].attempt <= attempts[call[c].job]
    BY <1>1, <2>1 DEF AttemptsAgree
  <2>3. /\ call[c].attempt \in Nat /\ call[c].job \in Job
        /\ attempts[call[c].job] \in Nat /\ attempts'[call[c].job] \in Nat
    BY <2>1, AttemptTypes
  <2> QED
    BY <2>1, <2>2, <2>3
<1>5. /\ \A v, w \in Worker : At(v)' \cap At(w)' # {} => v = w
      /\ \A c, d \in Call : For(c)' \cap For(d)' # {} => c = d
      /\ \A c \in Call, w \in Worker : For(c)' \cap At(w)' = {}
  <2>1. /\ \A w \in Worker : At(w)' \subseteq At(w)
        /\ \A c \in Call : For(c)' \subseteq For(c)
    BY DEF Slower, Calmer
  <2>2. /\ \A v, w \in Worker : At(v) \cap At(w) # {} => v = w
        /\ \A c, d \in Call : For(c) \cap For(d) # {} => c = d
        /\ \A c \in Call, w \in Worker : For(c) \cap At(w) = {}
    BY <1>1 DEF AttemptsAgree
  <2> HIDE DEF At, For
  <2> QED
    BY <2>1, <2>2
<1> QED
  BY <1>2, <1>3, <1>4, <1>5 DEF AttemptsAgree

LEMMA SameIsSlow ==
  ASSUME QueueInv, NEW w \in Worker, proc'[w] = proc[w] PROVE Slower(w)
<1>1. proc[w].n \in Nat
  BY AttemptTypes
<1> QED
  BY <1>1 DEF Slower, At

LEMMA LeftIsCalm ==
  ASSUME CallInv, NEW c \in Call,
         call'[c] = call[c] \/ call'[c] = Free \/ call'[c] = [call[c] EXCEPT !.by = None]
  PROVE  Calmer(c)
<1>1. CASE call'[c] = call[c]
  BY <1>1 DEF Calmer, For, Under
<1>2. CASE call'[c] = Free
  BY <1>2 DEF Calmer, For, Free
<1>3. CASE call'[c] = [call[c] EXCEPT !.by = None]
  <2>1. call[c] \in Calls
    BY TypesUnfolded DEF CallInv
  <2>2. /\ call'[c].op = call[c].op /\ call'[c].job = call[c].job
        /\ call'[c].attempt = call[c].attempt /\ call'[c].what = call[c].what
        /\ call'[c].answer = call[c].answer
    BY <1>3, <2>1 DEF Calls
  <2> QED
    BY <2>2 DEF Calmer, For, Under
<1> QED
  BY <1>1, <1>2, <1>3

(* The steps that leave receipts, attempts and processes alone.            *)
LEMMA CallsCalm ==
  ASSUME QueueInv, UNCHANGED <<receipts, attempts, proc>>, \A c \in Call : Calmer(c)
  PROVE  AttemptsAgree'
<1>1. Traced
  BY DEF Traced
<1>2. /\ attempts' \in [Job -> Nat] /\ \A j \in Job : attempts[j] <= attempts'[j]
      /\ \A w \in Worker : proc'[w].n \in Nat
  <2>1. attempts \in [Job -> Nat] /\ \A j \in Job : attempts[j] \in Nat
    BY DEF QueueInv, RowInv, RowTypeOK
  <2> QED
    BY <2>1, AttemptTypes
<1>3. \A w \in Worker : Slower(w)
  BY SameIsSlow
<1> QED
  BY <1>1, <1>2, <1>3, AttemptsKept

(* An answer of the API that hands out no attempt.                         *)
LEMMA AnswerIsCalm ==
  ASSUME CallInv, NEW c \in Call, NEW answer, Answer(c, answer),
         call[c].op = "claim" => answer # "ok"
  PROVE  \A d \in Call : Calmer(d)
<1>1. call \in [Call -> Calls] /\ call[c] \in Calls
  BY TypesUnfolded DEF CallInv
<1>2. \A d \in Call : d # c => call'[d] = call[d]
  BY <1>1 DEF Answer, Reply
<1>3. Calmer(c)
  <2>1. CASE call[c].by = None
    <3>1. call'[c] = Free
      BY <1>1, <2>1 DEF Answer, Reply
    <3> QED
      BY <3>1, LeftIsCalm
  <2>2. CASE call[c].by # None
    <3>1. call'[c] = [call[c] EXCEPT !.answer = answer, !.job = call[c].job,
                                     !.attempt = call[c].attempt]
      BY <1>1, <2>2 DEF Answer, Reply
    <3>2. /\ call'[c].op = call[c].op /\ call'[c].job = call[c].job
          /\ call'[c].attempt = call[c].attempt /\ call'[c].what = call[c].what
          /\ call'[c].answer = answer
      BY <1>1, <3>1 DEF Calls
    <3> QED
      BY <3>2 DEF Calmer, For, Under
  <2> QED
    BY <2>1, <2>2
<1> QED
  BY <1>2, <1>3, LeftIsCalm

(* The three steps that do more.  An attempt is handed out: it is a new    *)
(* one.                                                                    *)
LEMMA ClaimAttempts ==
  ASSUME QueueInv, NEW c \in Call, ServeClaim(c) PROVE AttemptsAgree'
<1>1. /\ call[c].op = "claim" /\ call[c].answer = "none" /\ UNCHANGED proc
      /\ call \in [Call -> Calls] /\ call[c] \in Calls /\ CallInv /\ AttemptsAgree
  BY TypesUnfolded DEF ServeClaim, Asked, Served, QueueInv, CallInv
<1>2. CASE UNCHANGED rows /\ Answer(c, "empty")
  BY <1>1, <1>2, AnswerIsCalm, CallsCalm DEF rows
<1>3. ASSUME NEW j \in Job, ClaimJob(j, call[c].worker), Reply(c, "ok", j, attempts'[j])
      PROVE  AttemptsAgree'
  <2>0. PICK x0 : x0 = <<j, attempts[j] + 1>>
    OBVIOUS
  <2>1. /\ UNCHANGED receipts /\ attempts \in [Job -> Nat] /\ attempts' \in [Job -> Nat]
        /\ attempts'[j] = attempts[j] + 1
        /\ \A k \in Job : attempts[k] <= attempts'[k]
    BY <1>3 DEF ClaimJob, QueueInv, RowInv, RowTypeOK
  <2>2. \A d \in Call : d # c => call'[d] = call[d]
    BY <1>1, <1>3 DEF Reply
  <2>3. Traced /\ (\A w \in Worker : Slower(w) /\ proc'[w].n \in Nat)
    BY <1>1, <2>1, SameIsSlow, AttemptTypes DEF Traced
  <2>4. CASE call[c].by = None
    <3>1. call'[c] = Free
      BY <1>1, <1>3, <2>4 DEF Reply
    <3>2. \A d \in Call : Calmer(d)
      BY <1>1, <2>2, <3>1, LeftIsCalm
    <3> QED
      BY <2>1, <2>3, <3>2, AttemptsKept
  <2>5. CASE call[c].by # None
    <3>1. call'[c].op = "claim" /\ For(c)' = {x0} /\ For(c) = {}
      <4>1. call'[c] = [call[c] EXCEPT !.answer = "ok", !.job = j, !.attempt = attempts'[j]]
        BY <1>1, <1>3, <2>5 DEF Reply
      <4>2. /\ call'[c].op = "claim" /\ call'[c].answer = "ok" /\ call'[c].job = j
            /\ call'[c].attempt = attempts'[j]
        BY <1>1, <4>1 DEF Calls
      <4> QED
        BY <1>1, <2>0, <2>1, <4>2 DEF For
    <3>2. /\ \A w \in Worker : At(w)' = At(w)
          /\ \A d \in Call : d # c => For(d)' = For(d)
          /\ \A d \in Call : call'[d].op = "write" => d # c
      BY <1>1, <2>2, <3>1 DEF At, For
    <3>3. /\ \A w \in Worker : x0 \notin At(w)
          /\ \A d \in Call : x0 \notin For(d)
      <4>1. ~(attempts[j] + 1 <= attempts[j])
        BY <2>1
      <4>2. x0[1] = j /\ x0[2] = attempts[j] + 1
        BY <2>0
      <4> QED
        BY <1>1, <4>1, <4>2 DEF AttemptsAgree
    <3>4. Reached(x0, 0)'
      <4>1. ASSUME NEW r \in receipts, <<r[1], r[2]>> = x0 PROVE FALSE
        <5>1. r[2] <= attempts[r[1]]
          BY <4>1 DEF QueueInv, RowInv, ReceiptsInOrder
        <5> QED
          BY <2>0, <2>1, <4>1, <5>1
      <4>2. ASSUME NEW d \in Call, call'[d].op = "write", Under(d)' = x0 PROVE FALSE
        <5>1. call[d].op = "write" /\ call[d].job = j /\ call[d].attempt = attempts[j] + 1
          BY <2>0, <2>2, <3>2, <4>2 DEF Under
        <5>2. call[d].attempt <= attempts[call[d].job]
          BY <1>1, <5>1 DEF AttemptsAgree
        <5> QED
          BY <2>1, <5>1, <5>2
      <4>3. \A r \in receipts' : <<r[1], r[2]>> # x0
        BY <2>1, <4>1
      <4> QED
        BY <4>2, <4>3 DEF Reached
    <3>10. x0[1] = j /\ x0[2] = attempts'[j]
      BY <2>0, <2>1
    <3>5. \A x, n : Reached(x, n) => Reached(x, n)'
      BY <2>1, <2>2, <3>2 DEF Reached, Under
    <3>6. ASSUME NEW w \in Worker, NEW x \in At(w)'
          PROVE  x[2] <= attempts'[x[1]] /\ Reached(x, proc[w].n)'
      <4>1. /\ x \in At(w) /\ x[2] <= attempts[x[1]] /\ Reached(x, proc[w].n)
            /\ x[1] \in Job /\ x[2] \in Nat
        BY <1>1, <3>2, <3>6, AttemptTypes DEF AttemptsAgree
      <4>2. Reached(x, proc[w].n)'
        BY <1>1, <3>5, <4>1 DEF Reached
      <4> QED
        BY <2>1, <4>1, <4>2
    <3>7. ASSUME NEW d \in Call, NEW x \in For(d)'
          PROVE  x[2] <= attempts'[x[1]] /\ Reached(x, 0)'
      <4>1. CASE d = c
        <5>1. x = x0 /\ attempts'[j] \in Nat
          BY <2>1, <3>1, <3>7, <4>1
        <5>2. x[2] <= attempts'[x[1]]
          BY <3>10, <5>1
        <5>3. Reached(x, 0)'
          BY <3>4, <5>1 DEF Reached
        <5> QED
          BY <5>2, <5>3
      <4>2. CASE d # c
        <5>1. /\ x \in For(d) /\ x[2] <= attempts[x[1]] /\ Reached(x, 0)
              /\ x[1] \in Job /\ x[2] \in Nat
          BY <1>1, <3>2, <3>7, <4>2, AttemptTypes DEF AttemptsAgree
        <5> QED
          BY <2>1, <3>5, <5>1
      <4> QED
        BY <4>1, <4>2
    <3>8. ASSUME NEW d \in Call, call'[d].op = "write"
          PROVE  call'[d].attempt <= attempts'[call'[d].job]
      <4>1. call'[d] = call[d] /\ call[d].op = "write"
        BY <2>2, <3>2, <3>8
      <4>2. call[d].attempt <= attempts[call[d].job] /\ call[d].job \in Job /\ call[d].attempt \in Nat
        BY <1>1, <4>1, AttemptTypes DEF AttemptsAgree
      <4> QED
        BY <2>1, <4>1, <4>2
    <3>9. /\ \A v, w \in Worker : At(v)' \cap At(w)' # {} => v = w
          /\ \A d, e \in Call : For(d)' \cap For(e)' # {} => d = e
          /\ \A d \in Call, w \in Worker : For(d)' \cap At(w)' = {}
      <4>1. /\ \A v, w \in Worker : At(v) \cap At(w) # {} => v = w
            /\ \A d, e \in Call : For(d) \cap For(e) # {} => d = e
            /\ \A d \in Call, w \in Worker : For(d) \cap At(w) = {}
        BY <1>1 DEF AttemptsAgree
      <4> QED
        BY <3>1, <3>2, <3>3, <4>1
    <3> QED
      BY <3>6, <3>7, <3>8, <3>9 DEF AttemptsAgree
  <2> QED
    BY <2>4, <2>5
<1> QED
  BY <1>2, <1>3 DEF ServeClaim

(* The answer reaches its worker: the attempt changes hands.               *)
LEMMA ReceiveAttempts ==
  ASSUME QueueInv, NEW c \in Call, Receive(c) PROVE AttemptsAgree'
<1>1. /\ CallInv /\ AttemptsAgree /\ call \in [Call -> Calls] /\ call[c] \in Calls
      /\ proc \in [Worker -> Procs] /\ call[c].by # None
      /\ UNCHANGED <<receipts, attempts>>
  BY TypesUnfolded DEF QueueInv, CallInv, Receive, rows
<1>2. PICK w \in Worker : w = call[c].by
  BY <1>1 DEF Calls
<1>3. /\ proc' = [proc EXCEPT ![w] = AfterAnswer(c, w)]
      /\ call'[c] = Free /\ \A d \in Call : d # c => call'[d] = call[d]
  BY <1>1, <1>2 DEF Receive, Become
<1>4. /\ proc'[w] = AfterAnswer(c, w)
      /\ \A v \in Worker : v # w => proc'[v] = proc[v]
  BY <1>1, <1>3
<1>5. \A d \in Call : Calmer(d)
  BY <1>1, <1>3, LeftIsCalm
<1>6. \A d \in Call : d # c => For(d)' = For(d)
  BY <1>3 DEF For
<1>7. For(c)' = {} /\ call'[c].op # "write"
  BY <1>3 DEF For, Free
<1>8. attempts' \in [Job -> Nat] /\ \A j \in Job : attempts[j] <= attempts'[j]
  BY <1>1, AttemptTypes DEF QueueInv, RowInv, RowTypeOK
<1>9. Traced
  BY <1>1 DEF Traced
<1>10. CASE call[c].op = "claim" /\ call[c].answer = "ok"
  <2> DEFINE x0 == <<call[c].job, call[c].attempt>>
  <2>1. AfterAnswer(c, w) = [Rest EXCEPT !.step = "handling", !.job = call[c].job,
                                         !.attempt = call[c].attempt]
    BY <1>10 DEF AfterAnswer
  <2>2. proc'[w].step = "handling" /\ proc'[w].n = 0 /\ At(w)' = {x0} /\ For(c) = {x0}
    BY <1>4, <1>10, <2>1 DEF At, For, Rest
  <2> HIDE DEF x0
  <2>3. \A v \in Worker : v # w => At(v)' = At(v) /\ proc'[v].n = proc[v].n
    BY <1>4 DEF At
  <2>4. ASSUME NEW v \in Worker, NEW x \in At(v)'
        PROVE  x[2] <= attempts'[x[1]] /\ Reached(x, proc[v].n)'
    <3>1. CASE v = w
      <4>1. x = x0 /\ x[2] <= attempts[x[1]] /\ Reached(x, 0)
        BY <1>1, <2>2, <2>4, <3>1 DEF AttemptsAgree
      <4>2. Reached(x, 0)'
        BY <1>5, <1>9, <4>1, ReachedKept
      <4> QED
        BY <1>1, <2>2, <3>1, <4>1, <4>2 DEF Reached
    <3>2. CASE v # w
      <4>1. x \in At(v) /\ x[2] <= attempts[x[1]] /\ Reached(x, proc[v].n)
        BY <1>1, <2>3, <2>4, <3>2 DEF AttemptsAgree
      <4>2. proc[v].n \in Nat /\ proc'[v].n = proc[v].n
        BY <2>3, <3>2, AttemptTypes
      <4>3. \A n \in Nat : Reached(x, n) => Reached(x, n)'
        BY <1>5, <1>9, ReachedKept
      <4>4. Reached(x, proc[v].n)'
        BY <4>1, <4>2, <4>3 DEF Reached
      <4> QED
        BY <1>1, <4>1, <4>4
    <3> QED
      BY <3>1, <3>2
  <2>5. ASSUME NEW d \in Call, NEW x \in For(d)'
        PROVE  x[2] <= attempts'[x[1]] /\ Reached(x, 0)'
    <3>1. x \in For(d)
      BY <1>5, <2>5 DEF Calmer
    <3>2. x[2] <= attempts[x[1]] /\ Reached(x, 0)
      BY <1>1, <3>1 DEF AttemptsAgree
    <3> QED
      BY <1>1, <1>5, <1>9, <3>2, ReachedKept
  <2>6. ASSUME NEW d \in Call, call'[d].op = "write"
        PROVE  call'[d].attempt <= attempts'[call'[d].job]
    BY <1>1, <1>3, <1>7, <2>6 DEF AttemptsAgree
  <2>7. /\ \A v, u \in Worker : At(v)' \cap At(u)' # {} => v = u
        /\ \A d, e \in Call : For(d)' \cap For(e)' # {} => d = e
        /\ \A d \in Call, v \in Worker : For(d)' \cap At(v)' = {}
    <3>1. /\ \A v, u \in Worker : At(v) \cap At(u) # {} => v = u
          /\ \A d, e \in Call : For(d) \cap For(e) # {} => d = e
          /\ \A d \in Call, v \in Worker : For(d) \cap At(v) = {}
      BY <1>1 DEF AttemptsAgree
    <3> QED
      BY <1>6, <1>7, <2>2, <2>3, <3>1
  <2> QED
    BY <2>4, <2>5, <2>6, <2>7 DEF AttemptsAgree
<1>11. CASE ~(call[c].op = "claim" /\ call[c].answer = "ok")
  <2>1. \/ AfterAnswer(c, w) = Rest
        \/ AfterAnswer(c, w) = [proc[w] EXCEPT !.step = "handling"] /\ proc[w].step = "writing"
    <3>1. call[c].op = "write" => proc[w].step = "writing"
      BY <1>1, <1>2 DEF CallInv, CallsAgree, CopyAgrees
    <3> QED
      BY <1>11, <3>1 DEF AfterAnswer, AfterError
  <2>2. Slower(w) /\ proc'[w].n \in Nat
    <3>1. CASE proc'[w] = Rest
      BY <3>1 DEF Slower, At, Rest
    <3>2. CASE proc'[w] = [proc[w] EXCEPT !.step = "handling"] /\ proc[w].step = "writing"
      <4>1. /\ proc'[w].n = proc[w].n /\ proc'[w].job = proc[w].job
            /\ proc'[w].attempt = proc[w].attempt /\ proc[w].n \in Nat
        BY <1>1, <3>2, AttemptTypes DEF Procs
      <4> QED
        BY <3>2, <4>1 DEF Slower, At
    <3> QED
      BY <1>4, <2>1, <3>1, <3>2
  <2>3. \A v \in Worker : Slower(v) /\ proc'[v].n \in Nat
    BY <1>4, <2>2, SameIsSlow, AttemptTypes
  <2> QED
    BY <1>5, <1>8, <1>9, <2>3, AttemptsKept
<1> QED
  BY <1>10, <1>11

(* A write is sent: it is the one its handler has got to.                  *)
LEMMA SendAttempts ==
  ASSUME QueueInv, NEW w \in Worker, NEW m \in Calls, Post(w, m), m.answer = "none",
         UNCHANGED <<receipts, attempts, proc>>,
         m.op = "write" => /\ proc[w].step = "writing" /\ m.job = proc[w].job
                           /\ m.attempt = proc[w].attempt /\ m.what = proc[w].n
  PROVE  AttemptsAgree'
<1>1. CallInv /\ AttemptsAgree /\ call \in [Call -> Calls]
  BY TypesUnfolded DEF QueueInv, CallInv
<1>2. PICK c \in Slots : call' = [call EXCEPT ![c] = [m EXCEPT !.worker = w]]
  BY DEF Post
<1>3. c \in Call /\ call[c] = Free
  BY <1>2 DEF Slots
<1>4. /\ call'[c].op = m.op /\ call'[c].job = m.job /\ call'[c].attempt = m.attempt
      /\ call'[c].what = m.what /\ call'[c].answer = "none"
      /\ \A d \in Call : d # c => call'[d] = call[d]
  BY <1>1, <1>2, <1>3 DEF Calls
<1>5. CASE m.op # "write"
  <2>1. Calmer(c)
    BY <1>4, <1>5 DEF Calmer, For
  <2>2. \A d \in Call : Calmer(d)
    BY <1>1, <1>4, <2>1, LeftIsCalm
  <2> QED
    BY <2>2, CallsCalm
<1>6. CASE m.op = "write"
  <2> DEFINE x0 == <<proc[w].job, proc[w].attempt>>
  <2>1. At(w) = {x0} /\ Under(c)' = x0 /\ call'[c].what = proc[w].n
    BY <1>4, <1>6 DEF At, Under
  <2>2. /\ \A v \in Worker : At(v)' = At(v)
        /\ \A d \in Call : For(d)' = For(d)
    <3>1. For(c)' = {} /\ For(c) = {}
      BY <1>3, <1>4 DEF For, Free
    <3> QED
      BY <1>4, <3>1 DEF At, For
  <2>9. x0[1] = proc[w].job /\ x0[2] = proc[w].attempt
    OBVIOUS
  <2> HIDE DEF x0
  <2>3. ASSUME NEW x, NEW n, Reached(x, n), x = x0 => proc[w].n <= n PROVE Reached(x, n)'
    BY <1>4, <2>1, <2>3 DEF Reached, Under
  <2>4. ASSUME NEW v \in Worker, NEW x \in At(v)'
        PROVE  x[2] <= attempts'[x[1]] /\ Reached(x, proc[v].n)'
    <3>1. x \in At(v) /\ x[2] <= attempts[x[1]] /\ Reached(x, proc[v].n)
      BY <1>1, <2>2, <2>4 DEF AttemptsAgree
    <3>2. x = x0 => v = w
      BY <1>1, <2>1, <3>1 DEF AttemptsAgree
    <3>3. x = x0 => proc[w].n <= proc[v].n
      BY <3>2, AttemptTypes
    <3>4. Reached(x, proc[v].n)'
      BY <2>3, <3>1, <3>3 DEF Reached
    <3> QED
      BY <3>1, <3>4
  <2>5. ASSUME NEW d \in Call, NEW x \in For(d)'
        PROVE  x[2] <= attempts'[x[1]] /\ Reached(x, 0)'
    <3>1. x \in For(d) /\ x[2] <= attempts[x[1]] /\ Reached(x, 0)
      BY <1>1, <2>2, <2>5 DEF AttemptsAgree
    <3>2. x # x0
      BY <1>1, <2>1, <3>1 DEF AttemptsAgree
    <3> QED
      BY <2>3, <3>1, <3>2
  <2>6. ASSUME NEW d \in Call, call'[d].op = "write"
        PROVE  call'[d].attempt <= attempts'[call'[d].job]
    <3>1. CASE d = c
      <4>1. x0[2] <= attempts[x0[1]]
        BY <1>1, <2>1 DEF AttemptsAgree
      <4> QED
        BY <1>4, <1>6, <2>9, <3>1, <4>1
    <3>2. CASE d # c
      BY <1>1, <1>4, <2>6, <3>2 DEF AttemptsAgree
    <3> QED
      BY <3>1, <3>2
  <2>7. /\ \A v, u \in Worker : At(v)' \cap At(u)' # {} => v = u
        /\ \A d, e \in Call : For(d)' \cap For(e)' # {} => d = e
        /\ \A d \in Call, v \in Worker : For(d)' \cap At(v)' = {}
    BY <1>1, <2>2 DEF AttemptsAgree
  <2> QED
    BY <2>4, <2>5, <2>6, <2>7 DEF AttemptsAgree
<1> QED
  BY <1>5, <1>6

(* The steps of one worker that let its calls go.                          *)
LEMMA WorkerMoved ==
  ASSUME QueueInv, UNCHANGED <<receipts, attempts>>, NEW w \in Worker, NEW p,
         proc' = [proc EXCEPT ![w] = p], p.n \in Nat,
         \/ p.step \notin {"handling", "writing"}
         \/ /\ proc[w].step \in {"handling", "writing"}
            /\ p.job = proc[w].job /\ p.attempt = proc[w].attempt /\ proc[w].n <= p.n,
         \A c \in Call : \/ call'[c] = call[c] \/ call'[c] = Free
                         \/ call'[c] = [call[c] EXCEPT !.by = None]
  PROVE  AttemptsAgree'
<1>1. CallInv /\ proc \in [Worker -> Procs] /\ attempts \in [Job -> Nat]
  BY TypesUnfolded DEF QueueInv, CallInv, RowInv, RowTypeOK
<1>2. proc'[w] = p /\ \A v \in Worker : v # w => proc'[v] = proc[v]
  BY <1>1
<1>3. Slower(w)
  BY <1>2 DEF Slower, At
<1>4. \A v \in Worker : Slower(v) /\ proc'[v].n \in Nat
  BY <1>2, <1>3, SameIsSlow, AttemptTypes
<1>5. \A c \in Call : Calmer(c)
  BY <1>1, LeftIsCalm
<1>6. Traced /\ attempts' \in [Job -> Nat] /\ \A j \in Job : attempts[j] <= attempts'[j]
  BY <1>1, AttemptTypes DEF Traced
<1> QED
  BY <1>4, <1>5, <1>6, AttemptsKept

-------------------------------------------------------------------------------
(* What a worker is told moves no row: what is confirmed is on file, and   *)
(* no later write of its handler is.                                       *)
LEMMA ReceiveRows ==
  ASSUME QueueInv, NEW c \in Call, Receive(c) PROVE RowInv'
<1>1. /\ UNCHANGED rows /\ call[c].by # None /\ call[c] \in Calls
      /\ confirmed' = confirmed \cup (IF Confirms(c) THEN {KeyOf(c)} ELSE {})
  BY TypesUnfolded DEF Receive, QueueInv, CallInv
<1>2. CASE ~Confirms(c)
  BY <1>1, <1>2, RowsSame DEF QueueInv
<1>3. CASE Confirms(c)
  <2> DEFINE j == call[c].job  a == call[c].attempt  n == call[c].what
  <2>1. confirmed' = confirmed \cup {<<j, a, n>>} /\ <<j, a, n>> \in receipts
    BY <1>1, <1>3 DEF Confirms, KeyOf, Key, QueueInv, CallInv, CallsAgree, CallAgrees
  <2>2. n # Run => \A r \in receipts : r[1] = j /\ r[2] = a /\ r[3] # Run => r[3] <= n
    <3> SUFFICES ASSUME n # Run
                 PROVE  \A r \in receipts : r[1] = j /\ r[2] = a /\ r[3] # Run => r[3] <= n
      OBVIOUS
    <3>1. call[c].op = "write"
      BY <1>3 DEF Confirms, QueueInv, CallInv, CallsAgree, CallAgrees
    <3>2. PICK w \in Worker : w = call[c].by
      BY <1>1 DEF Calls
    <3>3. /\ proc[w].step = "writing" /\ j = proc[w].job /\ a = proc[w].attempt
          /\ n = proc[w].n
      BY <1>1, <3>1, <3>2 DEF QueueInv, CallInv, CallsAgree, CopyAgrees
    <3>4. <<j, a>> \in At(w)
      BY <3>3 DEF At
    <3>5. Reached(<<j, a>>, n)
      BY <3>3, <3>4 DEF QueueInv, AttemptsAgree
    <3> QED
      BY <3>5 DEF Reached
  <2> HIDE DEF j, a, n
  <2>3. RowTypeOK'
    BY <1>1, <2>1 DEF QueueInv, RowInv, RowTypeOK, rows
  <2>4. LeasesAgree' /\ TriesLeft' /\ ReceiptsAgree' /\ ReceiptsInOrder'
    BY <1>1 DEF QueueInv, RowInv, LeasesAgree, TriesLeft, ReceiptsAgree, ReceiptsInOrder,
                Recorded, rows
  <2>5. JournalInOrder'
    <3> SUFFICES ASSUME NEW k \in Job, NEW i \in DOMAIN journal[k],
                        NEW m \in DOMAIN journal[k], i < m
                 PROVE  LET p == journal[k][i]  q == journal[k][m]
                        IN \/ p.attempt < q.attempt
                           \/ /\ p.attempt = q.attempt /\ p.what # Run /\ p.what # q.what
                              /\ \/ q.what = Run \/ p.what < q.what
                                 \/ <<k, q.attempt, q.what>> \notin confirmed'
      BY <1>1 DEF JournalInOrder, rows
    <3> DEFINE p == journal[k][i]  q == journal[k][m]
    <3>1. \/ p.attempt < q.attempt
          \/ /\ p.attempt = q.attempt /\ p.what # Run /\ p.what # q.what
             /\ \/ q.what = Run \/ p.what < q.what
                \/ <<k, q.attempt, q.what>> \notin confirmed
      BY DEF QueueInv, RowInv, JournalInOrder
    <3>2. /\ <<k, p.attempt, p.what>> \in receipts /\ <<k, q.attempt, q.what>> \in receipts
      BY DEF QueueInv, RowInv, ReceiptsAgree
    <3> HIDE DEF p, q
    <3>3. CASE <<k, q.attempt, q.what>> = <<j, a, n>>
      <4>1. k = j /\ q.attempt = a /\ q.what = n
        BY <3>3
      <4>2. ASSUME p.attempt = q.attempt, p.what # Run, p.what # q.what, q.what # Run
            PROVE  p.what < q.what
        <5>1. p.what <= n
          BY <2>2, <3>2, <4>1, <4>2
        <5>2. p.what \in Nat /\ q.what \in Nat
          BY <3>2, <4>2, QueueAssumption DEF QueueInv, RowInv, RowTypeOK, Entry
        <5> QED
          BY <4>1, <4>2, <5>1, <5>2
      <4> QED
        BY <3>1, <4>2 DEF p, q
    <3>4. CASE <<k, q.attempt, q.what>> # <<j, a, n>>
      BY <2>1, <3>1, <3>4 DEF p, q
    <3> QED
      BY <3>3, <3>4
  <2> QED
    BY <2>3, <2>4, <2>5 DEF RowInv
<1> QED
  BY <1>2, <1>3

LEMMA InitInv == QueueInit => QueueInv
<1> SUFFICES ASSUME QueueInit PROVE QueueInv
  OBVIOUS
<1> USE DEF QueueInit
<1>1. RowTypeOK
  BY DEF RowTypeOK
<1>2. LeasesAgree /\ TriesLeft /\ ReceiptsAgree /\ ReceiptsInOrder /\ JournalInOrder
  <2>1. LeasesAgree
    BY QueueAssumption DEF LeasesAgree
  <2>2. TriesLeft
    BY QueueAssumption DEF TriesLeft
  <2>3. \A j \in Job : DOMAIN journal[j] = {}
    OBVIOUS
  <2>4. ReceiptsAgree /\ ReceiptsInOrder /\ JournalInOrder
    BY <2>3 DEF ReceiptsAgree, ReceiptsInOrder, JournalInOrder
  <2> QED
    BY <2>1, <2>2, <2>4
<1>3. CallTypeOK
  BY FreeIsFine, TypesUnfolded
<1>4. CallsAgree
  <2>1. \A w \in Worker : WorkerAgrees(w)
    BY DEF WorkerAgrees, Rest
  <2>2. \A c \in Call : CallAgrees(c) /\ call[c].by = None
    BY FreeIsFine DEF CallAgrees
  <2> QED
    BY <2>1, <2>2 DEF CallsAgree
<1>5. AttemptsAgree
  <2>1. /\ \A w \in Worker : At(w) = {}
        /\ \A c \in Call : For(c) = {} /\ call[c].op # "write"
    BY DEF At, For, Rest, Free
  <2> QED
    BY <2>1 DEF AttemptsAgree
<1> QED
  BY <1>1, <1>2, <1>3, <1>4, <1>5 DEF QueueInv, RowInv, CallInv

(* The steps that leave every row alone.                                   *)
LEMMA CallStep ==
  ASSUME QueueInv, CallInv', UNCHANGED <<rows, confirmed>> PROVE RowInv' /\ CallInv'
BY RowsSame DEF QueueInv

(* The steps that leave every call and process alone.                      *)
LEMMA RowStep ==
  ASSUME QueueInv, RowInv', UNCHANGED <<receipts, proc, call>> PROVE RowInv' /\ CallInv'
BY CallsSame DEF QueueInv

LEMMA RowsAndCalls ==
  ASSUME QueueInv, [QueueNext]_qvars PROVE RowInv' /\ CallInv'
<1>0. RowInv /\ CallInv /\ aged \in [Job -> BOOLEAN] /\ due \in [Job -> BOOLEAN]
  BY DEF QueueInv, RowInv, RowTypeOK
<1>1. ASSUME NEW j \in Job, Reap(j) PROVE RowInv' /\ CallInv'
  BY <1>0, <1>1, ReapKept, RowStep DEF Reap
<1>2. ASSUME NEW j \in Job, BackoffEnds(j) PROVE RowInv' /\ CallInv'
  <2>1. aged' \in [Job -> BOOLEAN] /\ due' \in [Job -> BOOLEAN]
    BY <1>0, <1>2 DEF BackoffEnds
  <2> QED
    BY <1>0, <1>2, <2>1, TimingKept, RowStep DEF BackoffEnds
<1>3. ASSUME NEW j \in Job, AgeUntended(j) \/ AgeTended(j) PROVE RowInv' /\ CallInv'
  <2>1. Age(j)
    BY <1>3 DEF AgeUntended, AgeTended
  <2>2. aged' \in [Job -> BOOLEAN] /\ due' \in [Job -> BOOLEAN]
    BY <1>0, <2>1 DEF Age
  <2> QED
    BY <1>0, <2>1, <2>2, TimingKept, RowStep DEF Age
<1>4. ASSUME NEW c \in Call, Serve(c) PROVE RowInv' /\ CallInv'
  BY <1>4, ServeClaimKept, ServeReleaseKept, LookUpKept, CommitWriteKept, CommitSettleKept
  DEF Serve
<1>5. ASSUME NEW c \in Call, FailAtApi(c) PROVE RowInv' /\ CallInv'
  BY <1>5, FailAtApiKept
<1>6. ASSUME NEW c \in Call, Receive(c) PROVE RowInv' /\ CallInv'
  BY <1>0, <1>6, ReceiveKept, ReceiveRows
<1>7. ASSUME NEW c \in Call, Lose(c) \/ Die(c) PROVE RowInv' /\ CallInv'
  BY <1>0, <1>7, LossKept, CallStep DEF Lose, Die
<1>8. ASSUME NEW w \in Worker, Work(w) PROVE RowInv' /\ CallInv'
  <2>1. UNCHANGED <<rows, confirmed>>
    BY <1>8 DEF Work, Claim, HandlerWrites, HandlerEnds, Send, Local
  <2>2. CallInv'
    BY <1>0, <1>8, WorkKept, SendKept DEF Work
  <2> QED
    BY <2>1, <2>2, CallStep
<1>9. ASSUME NEW w \in Worker, RenewLease(w) PROVE RowInv' /\ CallInv'
  <2>1. aged' \in [Job -> BOOLEAN] /\ due' \in [Job -> BOOLEAN]
    BY <1>0, <1>9 DEF RenewLease
  <2> QED
    BY <1>0, <1>9, <2>1, TimingKept, RowStep DEF RenewLease
<1>10. ASSUME NEW w \in Worker, Stop(w) PROVE RowInv' /\ CallInv'
  BY <1>0, <1>10, CallsSame, CallStep DEF Stop, rows
<1>11. ASSUME NEW w \in Worker, SendRelease(w) PROVE RowInv' /\ CallInv'
  BY <1>0, <1>11, SendReleaseKept, CallStep DEF SendRelease
<1>12. ASSUME NEW w \in Worker, Exit(w) \/ Crash(w) PROVE RowInv' /\ CallInv'
  <2>1. Gone(w) /\ UNCHANGED <<rows, confirmed>>
    BY <1>12 DEF Exit, Crash, Gone
  <2> QED
    BY <1>0, <2>1, GoneKept, CallStep
<1>13. CASE UNCHANGED qvars
  BY <1>0, <1>13, CallsSame, CallStep DEF qvars, rows
<1> QED
  BY <1>1, <1>2, <1>3, <1>4, <1>5, <1>6, <1>7, <1>8, <1>9, <1>10, <1>11, <1>12,
     <1>13 DEF QueueNext

LEMMA Attempts ==
  ASSUME QueueInv, [QueueNext]_qvars PROVE AttemptsAgree'
<1>0. /\ CallInv /\ proc \in [Worker -> Procs] /\ call \in [Call -> Calls]
      /\ \A w \in Worker : proc[w].n \in Nat
  BY TypesUnfolded, AttemptTypes DEF QueueInv, CallInv
<1>1. CASE UNCHANGED <<receipts, attempts, proc, call>>
  BY <1>0, <1>1, LeftIsCalm, CallsCalm
<1>2. ASSUME NEW j \in Job, Reap(j) \/ BackoffEnds(j) \/ AgeUntended(j) \/ AgeTended(j)
      PROVE  AttemptsAgree'
  BY <1>1, <1>2 DEF Reap, BackoffEnds, AgeUntended, AgeTended, Age
<1>3. ASSUME NEW w \in Worker, RenewLease(w) \/ Stop(w) PROVE AttemptsAgree'
  BY <1>1, <1>3 DEF RenewLease, Stop, rows
<1>4. ASSUME NEW c \in Call, ServeRelease(c) \/ FailAtApi(c) PROVE AttemptsAgree'
  <2>1. /\ UNCHANGED <<receipts, attempts, proc>>
        /\ \E answer \in {"ok", "error"} :
             Answer(c, answer) /\ (call[c].op = "claim" => answer # "ok")
    BY <1>4 DEF ServeRelease, ReleaseOwned, FailAtApi, Asked, Served, rows
  <2> QED
    BY <1>0, <2>1, AnswerIsCalm, CallsCalm
<1>5. ASSUME NEW c \in Call, LookUp(c) PROVE AttemptsAgree'
  <2>1. UNCHANGED <<receipts, attempts, proc>> /\ call[c].op # "claim"
    BY <1>5 DEF LookUp, IsWrite, Asked, Served, rows
  <2>2. CASE KeyOf(c) \in receipts
    BY <1>0, <1>5, <2>1, <2>2, AnswerIsCalm, CallsCalm DEF LookUp
  <2>3. CASE KeyOf(c) \notin receipts
    <3>1. /\ call'[c] = [call[c] EXCEPT !.checked = TRUE]
          /\ \A d \in Call : d # c => call'[d] = call[d]
      BY <1>0, <1>5, <2>3 DEF LookUp
    <3>2. /\ call'[c].op = call[c].op /\ call'[c].job = call[c].job
          /\ call'[c].attempt = call[c].attempt /\ call'[c].what = call[c].what
      BY <1>0, <3>1 DEF Calls
    <3>3. Calmer(c)
      BY <2>1, <3>2 DEF Calmer, For, Under
    <3> QED
      BY <1>0, <2>1, <3>1, <3>3, LeftIsCalm, CallsCalm
  <2> QED
    BY <2>2, <2>3
<1>6. ASSUME NEW c \in Call, CommitWrite(c) \/ CommitSettle(c) PROVE AttemptsAgree'
  <2>1. /\ call[c].op \in {"write", "settle"} /\ UNCHANGED <<attempts, proc>>
        /\ receipts' = receipts \/ receipts' = receipts \cup {KeyOf(c)}
        /\ \E answer \in {"ok", "lost"} : Answer(c, answer)
    BY <1>6 DEF CommitWrite, CommitSettle, SettleJob, Asked, Served, rows
  <2>2. Traced
    <3>1. call[c].op = "settle" => KeyOf(c)[3] = Run
      BY DEF KeyOf, Key, QueueInv, CallInv, CallsAgree, CallAgrees
    <3>2. KeyOf(c)[3] = call[c].what /\ <<KeyOf(c)[1], KeyOf(c)[2]>> = Under(c)
      BY DEF KeyOf, Key, Under
    <3>3. ASSUME NEW r \in receipts', r[3] # Run, r \notin receipts
          PROVE  /\ call[c].op = "write" /\ call[c].what = r[3]
                 /\ Under(c) = <<r[1], r[2]>>
      <4>1. r = KeyOf(c)
        BY <2>1, <3>3
      <4> QED
        BY <2>1, <3>1, <3>2, <3>3, <4>1
    <3> QED
      BY <3>3 DEF Traced
  <2>3. \A d \in Call : Calmer(d)
    BY <1>0, <2>1, AnswerIsCalm
  <2>4. /\ attempts' \in [Job -> Nat] /\ \A j \in Job : attempts[j] <= attempts'[j]
        /\ \A w \in Worker : Slower(w) /\ proc'[w].n \in Nat
    <3>1. attempts \in [Job -> Nat] /\ \A j \in Job : attempts[j] \in Nat
      BY DEF QueueInv, RowInv, RowTypeOK
    <3> QED
      BY <1>0, <2>1, <3>1, SameIsSlow
  <2> QED
    BY <2>2, <2>3, <2>4, AttemptsKept
<1>7. ASSUME NEW c \in Call, Lose(c) \/ Die(c) PROVE AttemptsAgree'
  <2>1. /\ UNCHANGED <<receipts, attempts>> /\ AfterLoss(c)
        /\ \A d \in Call : \/ call'[d] = call[d] \/ call'[d] = Free
                           \/ call'[d] = [call[d] EXCEPT !.by = None]
    BY <1>0, <1>7 DEF Lose, Die, rows
  <2>2. CASE UNCHANGED proc
    BY <1>0, <2>1, <2>2, LeftIsCalm, CallsCalm
  <2>3. CASE call[c].by # None /\ Become(call[c].by, AfterError(call[c].by))
    <3>1. PICK w \in Worker : w = call[c].by
      BY <1>0, <2>3 DEF Calls
    <3> DEFINE p == AfterError(w)
    <3>2. proc' = [proc EXCEPT ![w] = p]
      BY <2>3, <3>1 DEF Become
    <3>3. /\ p.n \in Nat
          /\ \/ p.step \notin {"handling", "writing"}
             \/ /\ proc[w].step \in {"handling", "writing"}
                /\ p.job = proc[w].job /\ p.attempt = proc[w].attempt /\ proc[w].n <= p.n
      <4>1. CASE proc[w].step = "writing"
        <5>1. p = [proc[w] EXCEPT !.step = "handling"]
          BY <4>1 DEF AfterError
        <5> HIDE DEF p
        <5>2. p.job = proc[w].job /\ p.attempt = proc[w].attempt /\ p.n = proc[w].n
          BY <1>0, <5>1 DEF Procs
        <5> QED
          BY <1>0, <4>1, <5>2
      <4>2. CASE proc[w].step # "writing"
        BY <4>2 DEF AfterError, Rest
      <4> QED
        BY <4>1, <4>2
    <3> HIDE DEF p
    <3> QED
      BY <2>1, <3>2, <3>3, WorkerMoved
  <2> QED
    BY <2>1, <2>2, <2>3 DEF AfterLoss
<1>8. ASSUME NEW w \in Worker, Claim(w) \/ HandlerWrites(w) \/ HandlerEnds(w)
      PROVE  AttemptsAgree'
  <2>1. UNCHANGED <<receipts, attempts, call>>
    BY <1>8 DEF Claim, HandlerWrites, HandlerEnds, Local, rows
  <2>2. PICK p : /\ proc' = [proc EXCEPT ![w] = p] /\ p.n \in Nat
                 /\ \/ p.step \notin {"handling", "writing"}
                    \/ /\ proc[w].step \in {"handling", "writing"}
                       /\ p.job = proc[w].job /\ p.attempt = proc[w].attempt
                       /\ proc[w].n <= p.n
    <3>1. CASE Claim(w)
      <4> DEFINE p == [Rest EXCEPT !.step = "claiming"]
      <4>1. p.n \in Nat /\ p.step \notin {"handling", "writing"}
        BY DEF Rest
      <4> QED
        BY <3>1, <4>1 DEF Claim, Become
    <3>2. CASE HandlerWrites(w)
      <4> DEFINE p == [proc[w] EXCEPT !.step = "writing", !.n = proc[w].n + 1]
      <4>1. /\ p.n = proc[w].n + 1 /\ p.job = proc[w].job /\ p.attempt = proc[w].attempt
            /\ proc[w].n \in Nat /\ proc[w].step = "handling"
        BY <1>0, <3>2 DEF HandlerWrites, Procs
      <4>3. p.n \in Nat /\ proc[w].n <= p.n
        BY <4>1
      <4>2. proc' = [proc EXCEPT ![w] = p]
        BY <3>2 DEF HandlerWrites, Become
      <4> HIDE DEF p
      <4> QED
        BY <4>1, <4>2, <4>3
    <3>3. CASE HandlerEnds(w)
      <4>1. PICK o \in Outcome :
              proc' = [proc EXCEPT ![w] = [proc[w] EXCEPT !.step = "settling", !.n = 0,
                                                          !.outcome = o]]
        BY <3>3 DEF HandlerEnds, Become
      <4> DEFINE p == [proc[w] EXCEPT !.step = "settling", !.n = 0, !.outcome = o]
      <4>2. p.n \in Nat /\ p.step \notin {"handling", "writing"}
        BY <1>0 DEF Procs
      <4> QED
        BY <4>1, <4>2
    <3> QED
      BY <1>8, <3>1, <3>2, <3>3
  <2> QED
    BY <2>1, <2>2, WorkerMoved
<1>9. ASSUME NEW w \in Worker, Send(w) PROVE AttemptsAgree'
  <2>1. /\ UNCHANGED <<receipts, attempts, proc>> /\ Post(w, Message(w))
        /\ proc[w].step \in {"claiming", "writing", "settling"}
    BY <1>9 DEF Send, rows
  <2> DEFINE m == Message(w)
  <2>2. /\ m \in Calls /\ m.answer = "none"
        /\ m.op = "write" => /\ proc[w].step = "writing" /\ m.job = proc[w].job
                             /\ m.attempt = proc[w].attempt /\ m.what = proc[w].n
    BY <1>0, <2>1, MessageIs
  <2> HIDE DEF m
  <2>3. Post(w, m)
    BY <2>1 DEF m
  <2> QED
    BY <2>1, <2>2, <2>3, SendAttempts
<1>10. ASSUME NEW w \in Worker, SendRelease(w) PROVE AttemptsAgree'
  <2> DEFINE m == [Free EXCEPT !.op = "release"]
  <2>1. m \in Calls /\ m.op # "write" /\ m.answer = "none"
    BY QueueAssumption DEF Free, Calls
  <2>2. UNCHANGED <<receipts, attempts, proc>> /\ Post(w, m)
    BY <1>10 DEF SendRelease, rows
  <2> HIDE DEF m
  <2> QED
    BY <2>1, <2>2, SendAttempts
<1>11. ASSUME NEW w \in Worker, Exit(w) \/ Crash(w) PROVE AttemptsAgree'
  <2>1. Gone(w) /\ UNCHANGED <<receipts, attempts>>
    BY <1>11 DEF Exit, Crash, Gone, rows
  <2>2. proc' = [proc EXCEPT ![w] = Rest] /\ Rest.n \in Nat /\ Rest.step = "idle"
    BY <2>1 DEF Gone, Become, Rest
  <2>3. \A c \in Call : \/ call'[c] = call[c] \/ call'[c] = Free
                        \/ call'[c] = [call[c] EXCEPT !.by = None]
    BY <2>1 DEF Gone
  <2> QED
    BY <2>1, <2>2, <2>3, WorkerMoved
<1>12. ASSUME NEW c \in Call, ServeClaim(c) \/ Receive(c) PROVE AttemptsAgree'
  BY <1>12, ClaimAttempts, ReceiveAttempts
<1>13. CASE UNCHANGED qvars
  BY <1>1, <1>13 DEF qvars, rows
<1> QED
  BY <1>2, <1>3, <1>4, <1>5, <1>6, <1>7, <1>8, <1>9, <1>10, <1>11, <1>12, <1>13
  DEF QueueNext, Serve, Work

LEMMA StepInv == QueueInv /\ [QueueNext]_qvars => QueueInv'
BY RowsAndCalls, Attempts DEF QueueInv

(* Whatever is lost, repeated, crashed or stopped, and whatever a handler  *)
(* makes of a failed write: the leases, budgets, journals and receipts of  *)
(* the rows agree with what every worker and call in flight takes for      *)
(* granted of them, and each attempt is one worker's.                      *)
THEOREM QueueAgrees == QueueSpec => []QueueInv
BY InitInv, StepInv, PTL DEF QueueSpec

(* No zombie, retry or replay puts anything behind a run or behind a later *)
(* attempt, no write is on file twice, and none that was confirmed to its  *)
(* handler comes behind a later one.                                       *)
THEOREM JournalIsInOrder == QueueSpec => []JournalInOrder
<1>1. QueueInv => JournalInOrder
  BY DEF QueueInv, RowInv
<1> QED
  BY <1>1, QueueAgrees, PTL

(* A call that was answered "ok" is on file, also when the answer came     *)
(* from a receipt, and what a worker was ever told is done is in the       *)
(* journal.                                                                *)
THEOREM WorkersAreToldTruly == QueueSpec => []ToldTruly
<1>1. QueueInv => ToldTruly
  <2> SUFFICES ASSUME QueueInv PROVE ToldTruly
    OBVIOUS
  <2>1. \A r \in receipts : Recorded(r[1], r[2], r[3])
    BY DEF QueueInv, RowInv, ReceiptsAgree
  <2>2. ASSUME NEW c \in Call, call[c].answer = "ok", call[c].op \in {"write", "settle"}
        PROVE  Recorded(call[c].job, call[c].attempt, call[c].what)
    <3>1. <<call[c].job, call[c].attempt, call[c].what>> \in receipts
      BY <2>2 DEF QueueInv, CallInv, CallsAgree, CallAgrees
    <3> QED
      BY <2>1, <3>1
  <2>3. confirmed \subseteq receipts
    BY DEF QueueInv, RowInv, RowTypeOK
  <2> QED
    BY <2>1, <2>2, <2>3 DEF ToldTruly
<1> QED
  BY <1>1, QueueAgrees, PTL

(* No job is attempted more often than max_attempts and the times a stop   *)
(* handed it back.                                                         *)
THEOREM TriesAreBounded == QueueSpec => []TriesBounded
<1>1. QueueInv => TriesBounded
  BY DEF QueueInv, RowInv, TriesLeft, TriesBounded
<1> QED
  BY <1>1, QueueAgrees, PTL

-------------------------------------------------------------------------------
(* The refinement: what every step makes of one job is a step of FencedJob *)
(* or none.                                                                *)

LEMMA PhaseIs ==
  ASSUME NEW j \in Job
  PROVE  /\ status[j] = "pending" => Phase(j) = "waiting"
         /\ status[j] = "running" => Phase(j) = "held"
         /\ status[j] = "dead" /\ ~Recorded(j, attempts[j], Run) => Phase(j) = "dropped"
         /\ status[j] = "dead" /\ Recorded(j, attempts[j], Run) => Phase(j) = "finished"
         /\ status[j] \notin {"pending", "running", "dead"} => Phase(j) = "finished"
BY Zenon DEF Phase

LEMMA PhaseNext ==
  ASSUME NEW j \in Job
  PROVE  /\ status'[j] = "pending" => Phase(j)' = "waiting"
         /\ status'[j] = "running" => Phase(j)' = "held"
         /\ status'[j] = "dead" /\ ~Recorded(j, attempts[j], Run)' => Phase(j)' = "dropped"
         /\ status'[j] = "dead" /\ Recorded(j, attempts[j], Run)' => Phase(j)' = "finished"
         /\ status'[j] \notin {"pending", "running", "dead"} => Phase(j)' = "finished"
BY Zenon DEF Phase

FencedSteps == \A j \in Job : [F(j)!Step]_(F(j)!fvars)

(* A job none of whose three is changed has taken no step.                 *)
LEMMA QuietJob ==
  ASSUME NEW j \in Job, status'[j] = status[j], attempts'[j] = attempts[j],
         journal'[j] = journal[j]
  PROVE  [F(j)!Step]_(F(j)!fvars)
<1>1. Recorded(j, attempts[j], Run)' <=> Recorded(j, attempts[j], Run)
  BY DEF Recorded
<1>2. Phase(j)' = Phase(j)
  BY <1>1, PhaseIs, PhaseNext
<1> QED
  BY <1>2 DEF F!fvars

LEMMA QuietStep ==
  ASSUME UNCHANGED <<status, attempts, journal>> PROVE FencedSteps
BY QuietJob DEF FencedSteps

(* An attempt that is running has no run on file.                          *)
LEMMA RunningIsOpen ==
  ASSUME RowInv, NEW j \in Job, status[j] = "running"
  PROVE  ~Recorded(j, attempts[j], Run)
<1>1. attempts[j] \in Nat
  BY DEF RowInv, RowTypeOK
<1>2. <<j, attempts[j], Run>> \notin receipts
  <2> SUFFICES ASSUME <<j, attempts[j], Run>> \in receipts PROVE FALSE
    OBVIOUS
  <2>1. attempts[j] < attempts[j]
    BY DEF RowInv, ReceiptsInOrder
  <2> QED
    BY <1>1, <2>1
<1> QED
  BY <1>2 DEF Recorded, RowInv, ReceiptsAgree

LEMMA ClaimTakes ==
  ASSUME RowInv, NEW j \in Job, NEW w \in Worker, ClaimJob(j, w) PROVE FencedSteps
<1>1. /\ status[j] = "pending" /\ status'[j] = "running"
      /\ attempts'[j] = attempts[j] + 1 /\ journal' = journal
      /\ \A k \in Job : k # j => status'[k] = status[k] /\ attempts'[k] = attempts[k]
  BY DEF RowInv, RowTypeOK, ClaimJob, Claimable
<1>2. Phase(j) = "waiting" /\ Phase(j)' = "held"
  BY <1>1, PhaseIs, PhaseNext
<1>3. F(j)!Step
  BY <1>1, <1>2 DEF F!Step, F!Take
<1> QED
  BY <1>1, <1>3, QuietJob DEF FencedSteps

LEMMA ReleaseTakesAway ==
  ASSUME RowInv, NEW w \in Worker, ReleaseOwned(w) PROVE FencedSteps
<1> SUFFICES ASSUME NEW j \in Job PROVE [F(j)!Step]_(F(j)!fvars)
  BY DEF FencedSteps
<1>1. UNCHANGED <<attempts, journal>>
  BY DEF ReleaseOwned
<1>2. CASE holder[j] = w
  <2>1. status[j] = "running" /\ status'[j] = "pending"
    BY <1>2, QueueAssumption DEF ReleaseOwned, RowInv, LeasesAgree
  <2>2. Phase(j) = "held" /\ Phase(j)' = "waiting"
    BY <2>1, PhaseIs, PhaseNext
  <2> QED
    BY <1>1, <2>2 DEF F!Step, F!TakeAway
<1>3. CASE holder[j] # w
  <2>1. status'[j] = status[j]
    BY <1>3 DEF ReleaseOwned
  <2> QED
    BY <1>1, <2>1, QuietJob
<1> QED
  BY <1>2, <1>3

LEMMA ReapTakesAway ==
  ASSUME RowInv, NEW j \in Job, Reap(j) PROVE FencedSteps
<1>1. /\ status[j] = "running" /\ status'[j] \in {"pending", "dead"}
      /\ UNCHANGED <<attempts, journal>>
      /\ \A k \in Job : k # j => status'[k] = status[k]
  BY DEF RowInv, RowTypeOK, Reap, Leave
<1>2. ~Recorded(j, attempts[j], Run)'
  BY <1>1, RunningIsOpen DEF Recorded
<1>3. Phase(j) = "held" /\ Phase(j)' \in {"waiting", "dropped"}
  BY <1>1, <1>2, PhaseIs, PhaseNext
<1>4. F(j)!Step
  BY <1>1, <1>3 DEF F!Step, F!TakeAway
<1> QED
  BY <1>1, <1>4, QuietJob DEF FencedSteps

(* What is not among the receipts is fresh.                                *)
LEMMA PutsFresh ==
  ASSUME RowInv, NEW j \in Job, NEW x \in Entry, <<j, attempts[j], x>> \notin receipts,
         Journalled(j, attempts[j], x)
  PROVE  F(j)!Put(x)
<1>1. F(j)!Fresh(x)
  BY DEF F!Fresh, RowInv, ReceiptsAgree
<1>2. journal'[j] = Append(journal[j], [attempt |-> attempts[j], what |-> x])
  BY DEF Journalled, RowInv, RowTypeOK
<1> QED
  BY <1>1, <1>2 DEF F!Put

LEMMA WriteNotes ==
  ASSUME RowInv, CallInv, NEW c \in Call, CommitWrite(c) PROVE FencedSteps
<1>1. CASE UNCHANGED rows
  BY <1>1, QuietStep DEF rows
<1>2. CASE ~UNCHANGED rows
  <2>1. PICK j \in Job, x \in 1 .. MaxWrites :
          /\ status[j] = "running" /\ <<j, attempts[j], x>> \notin receipts
          /\ Journalled(j, attempts[j], x) /\ UNCHANGED <<status, attempts>>
    BY <1>2 DEF CommitWrite, Holds, Fenced, KeyOf, Key, Asked, CallInv, CallsAgree, CallAgrees
  <2>2. x \in Entry
    BY DEF Entry
  <2>3. F(j)!Put(x)
    BY <2>1, <2>2, PutsFresh
  <2>4. Phase(j) = "held" /\ Phase(j)' = "held"
    BY <2>1, PhaseIs, PhaseNext
  <2>5. F(j)!Step
    BY <2>1, <2>3, <2>4 DEF F!Step, F!Note
  <2>6. \A k \in Job : k # j => journal'[k] = journal[k]
    BY <2>1 DEF Journalled, RowInv, RowTypeOK
  <2> QED
    BY <2>1, <2>5, <2>6, QuietJob DEF FencedSteps
<1> QED
  BY <1>1, <1>2

LEMMA SettleEnds ==
  ASSUME RowInv, CallInv, NEW c \in Call, CommitSettle(c) PROVE FencedSteps
<1>1. CASE UNCHANGED rows
  BY <1>1, QuietStep DEF rows
<1>2. CASE ~UNCHANGED rows
  <2>1. PICK j \in Job, o \in Outcome \cup {"none"} :
          status[j] = "running" /\ SettleJob(j, attempts[j], o)
    <3>1. /\ Fenced(call[c].job, call[c].worker, call[c].attempt)
          /\ SettleJob(call[c].job, call[c].attempt, call[c].outcome)
          /\ call[c].job \in Job
      BY <1>2 DEF CommitSettle, Holds, Asked, CallInv, CallsAgree, CallAgrees
    <3>2. call[c].outcome \in Outcome \cup {"none"}
      BY TypesUnfolded DEF CallInv, Calls
    <3> QED
      BY <3>1, <3>2 DEF Fenced
  <2>2. /\ status' = [status EXCEPT ![j] = Settled(j, o)]
        /\ Journalled(j, attempts[j], Run) /\ UNCHANGED attempts
    BY <2>1 DEF SettleJob, Leave
  <2>3. Settled(j, o) \in {"pending", "succeeded", "failed", "dead"}
    BY DEF Settled
  <2>4. ~Recorded(j, attempts[j], Run) /\ Run \in Entry
    BY <2>1, RunningIsOpen DEF Entry
  <2>5. <<j, attempts[j], Run>> \notin receipts
    BY <2>4 DEF RowInv, ReceiptsAgree
  <2>6. F(j)!Put(Run)
    BY <2>2, <2>4, <2>5, PutsFresh
  <2>7. Recorded(j, attempts[j], Run)'
    <3>1. attempts[j] \in Nat
      BY DEF RowInv, RowTypeOK
    <3>2. /\ Len(journal[j]) + 1 \in DOMAIN journal'[j]
          /\ journal'[j][Len(journal[j]) + 1] = [attempt |-> attempts[j], what |-> Run]
      <4>1. journal[j] \in Seq(Entries) /\ RowTypeOK
        BY DEF RowInv, RowTypeOK, Entries
      <4>2. Len(journal[j]) \in Nat
        BY <4>1
      <4> QED
        BY <2>2, <2>4, <3>1, <4>1, <4>2, JournalGrows
    <3> QED
      BY <2>2, <3>2 DEF Recorded
  <2>8. status'[j] = Settled(j, o) /\ \A k \in Job : k # j => status'[k] = status[k]
    BY <2>2 DEF RowInv, RowTypeOK
  <2>9. Phase(j) = "held" /\ Phase(j)' \in {"waiting", "finished"}
    BY <2>1, <2>3, <2>7, <2>8, PhaseIs, PhaseNext
  <2>10. F(j)!Step
    BY <2>2, <2>6, <2>9 DEF F!Step, F!End
  <2>11. \A k \in Job : k # j => journal'[k] = journal[k]
    BY <2>2 DEF Journalled, RowInv, RowTypeOK
  <2> QED
    BY <2>2, <2>8, <2>10, <2>11, QuietJob DEF FencedSteps
<1> QED
  BY <1>1, <1>2

LEMMA EveryStepIsFenced ==
  ASSUME QueueInv, [QueueNext]_qvars PROVE FencedSteps
<1>0. RowInv /\ CallInv
  BY DEF QueueInv
<1>1. ASSUME NEW j \in Job, Reap(j) PROVE FencedSteps
  BY <1>0, <1>1, ReapTakesAway
<1>2. ASSUME NEW j \in Job, BackoffEnds(j) \/ AgeUntended(j) \/ AgeTended(j)
      PROVE FencedSteps
  BY <1>2, QuietStep DEF BackoffEnds, AgeUntended, AgeTended, Age
<1>3. ASSUME NEW c \in Call, ServeClaim(c) PROVE FencedSteps
  <2>1. call[c].worker \in Worker
    BY <1>0, <1>3 DEF ServeClaim, Asked, CallInv, CallsAgree, CallAgrees
  <2>2. UNCHANGED rows \/ \E j \in Job : ClaimJob(j, call[c].worker)
    BY <1>3 DEF ServeClaim
  <2>3. CASE UNCHANGED rows
    BY <2>3, QuietStep DEF rows
  <2> QED
    BY <1>0, <2>1, <2>2, <2>3, ClaimTakes
<1>4. ASSUME NEW c \in Call, ServeRelease(c) PROVE FencedSteps
  <2>1. call[c].worker \in Worker /\ ReleaseOwned(call[c].worker)
    BY <1>0, <1>4 DEF ServeRelease, Asked, CallInv, CallsAgree, CallAgrees
  <2> QED
    BY <1>0, <2>1, ReleaseTakesAway
<1>5. ASSUME NEW c \in Call, CommitWrite(c) \/ CommitSettle(c) PROVE FencedSteps
  BY <1>0, <1>5, WriteNotes, SettleEnds
<1>6. ASSUME NEW c \in Call, LookUp(c) \/ FailAtApi(c) \/ Receive(c) \/ Lose(c) \/ Die(c)
      PROVE FencedSteps
  BY <1>6, QuietStep DEF LookUp, FailAtApi, Receive, Lose, Die, rows
<1>7. ASSUME NEW w \in Worker,
             \/ Work(w) \/ RenewLease(w) \/ Stop(w) \/ SendRelease(w)
             \/ Exit(w) \/ Crash(w)
      PROVE FencedSteps
  <2>1. UNCHANGED <<status, attempts, journal>>
    BY <1>7 DEF Work, Claim, HandlerWrites, HandlerEnds, Send, Local, RenewLease,
                Stop, SendRelease, Exit, Crash, Gone, rows
  <2> QED
    BY <2>1, QuietStep
<1>8. CASE UNCHANGED qvars
  BY <1>8, QuietStep DEF qvars, rows
<1> QED
  BY <1>1, <1>2, <1>3, <1>4, <1>5, <1>6, <1>7, <1>8 DEF QueueNext, Serve

LEMMA BeginsFenced == QueueInit => \A j \in Job : F(j)!Begin
<1> SUFFICES ASSUME QueueInit, NEW j \in Job PROVE F(j)!Begin
  OBVIOUS
<1>1. status[j] = "pending" /\ attempts[j] = 0 /\ journal[j] = <<>>
  BY DEF QueueInit
<1> QED
  BY <1>1, PhaseIs DEF F!Begin

(* Every job is the job its holders are promised: taken under ever new     *)
(* tokens, recorded on by the last of them alone, and left in peace once   *)
(* it is finished.                                                         *)
THEOREM QueueImplementsFencedJob == QueueSpec => ImplementsFencedJob
<1>1. QueueInv /\ [QueueNext]_qvars => [FencedSteps]_qvars
  BY EveryStepIsFenced
<1>2. QueueSpec => (\A j \in Job : F(j)!Begin) /\ [][FencedSteps]_qvars
  BY <1>1, BeginsFenced, QueueAgrees, PTL DEF QueueSpec
<1> QED
  BY <1>2 DEF ImplementsFencedJob, FencedSteps
===============================================================================
