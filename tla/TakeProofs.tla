------------------------------- MODULE TakeProofs -------------------------------
(***************************************************************************)
(* Theorems about TakeIntake, for every set of members, nonces, contents   *)
(* and requests, every cap, close and bound on the clock.                  *)
(***************************************************************************)
EXTENDS TakeIntake, FiniteSetTheorems, TLAPS

Steps == Running \cup Answers \cup {"idle", "dead"}
Rows  == [nonce : Nonce, bytes : Bytes, at : Nat]

(* A request goes on, with no row touched, to a step that holds no lock    *)
(* on takes; if it is answered with success, its bytes are on file.        *)
LEMMA RequestMoves ==
  ASSUME IntakeInv, NEW r \in Request, NEW s \in Steps, Goes(r, s),
         s \notin {"locked", "numbered", "again"},
         s \in {"accepted", "recorded"} => SameBytes(sent[r]),
         UNCHANGED <<session, rows, sent, drawn, now>>
  PROVE  IntakeInv'
<1> USE DEF session, rows
<1>1. /\ step \in [Request -> Steps] /\ step' = [step EXCEPT ![r] = s]
      /\ UNCHANGED <<state, seat, absent, lost, takes, final, sent, drawn, now>>
  BY DEF IntakeInv, IntakeTypeOK, Goes, Steps
<1>2. /\ step' \in [Request -> Steps]
      /\ \A q \in Request : step'[q] = IF q = r THEN s ELSE step[q]
  BY <1>1
<1>3. IntakeTypeOK'
  BY <1>1, <1>2 DEF IntakeInv, IntakeTypeOK, Steps
<1>4. OneAtTheTakes'
  BY <1>2 DEF IntakeInv, OneAtTheTakes
<1>5. NumbersHold'
  BY <1>1, <1>2 DEF IntakeInv, NumbersHold
<1>6. TakesTimed' /\ NoncesOnce' /\ AbsencesAfter' /\ NewestIsFinal' /\ CapHolds' /\ TakeOrAbsent'
  <2>1. UNCHANGED <<state, seat, absent, lost, takes, final, now>>
    BY <1>1
  <2>2. TakesTimed' /\ NoncesOnce' /\ CapHolds'
    BY <2>1 DEF IntakeInv, TakesTimed, NoncesOnce, CapHolds
  <2>3. NewestIsFinal'
    BY <2>1 DEF IntakeInv, NewestIsFinal
  <2>4. AbsencesAfter' /\ TakeOrAbsent'
    BY <2>1 DEF IntakeInv, AbsencesAfter, TakeOrAbsent
  <2> QED
    BY <2>2, <2>3, <2>4
<1>7. AnsweredOnFile'
  BY <1>1, <1>2 DEF IntakeInv, AnsweredOnFile, SameBytes, Recorded
<1>8. NoAmendmentLost'
  BY <1>2 DEF IntakeInv, NoAmendmentLost
<1> QED
  BY <1>3, <1>4, <1>5, <1>6, <1>7, <1>8 DEF IntakeInv

LEMMA LookUpKept ==
  ASSUME IntakeInv, NEW r \in Request, LookUp(r) PROVE IntakeInv'
<1>1. UNCHANGED <<session, rows, sent, drawn, now>>
  BY DEF LookUp
<1>2. CASE Goes(r, "new")
  BY <1>1, <1>2, RequestMoves DEF Steps, Running
<1>3. CASE Goes(r, "recorded") /\ SameBytes(sent[r])
  BY <1>1, <1>3, RequestMoves DEF Steps, Answers
<1>4. CASE Goes(r, "replayed")
  BY <1>1, <1>4, RequestMoves DEF Steps, Answers
<1> QED
  BY <1>2, <1>3, <1>4 DEF LookUp, AnswerFromRecord

LEMMA CheckKept ==
  ASSUME IntakeInv, NEW r \in Request, CheckWindow(r) \/ CheckSeat(r) \/ CheckCap(r)
  PROVE  IntakeInv'
<1>1. UNCHANGED <<session, rows, sent, drawn, now>>
  BY DEF CheckWindow, CheckSeat, CheckCap
<1>2. PICK s \in {"late", "open", "unseated", "seated", "capped", "checked"} : Goes(r, s)
  BY DEF CheckWindow, CheckSeat, CheckCap
<1> QED
  BY <1>1, <1>2, RequestMoves DEF Steps, Running, Answers

LEMMA LockSessionKept ==
  ASSUME IntakeInv, NEW r \in Request, LockSession(r) PROVE IntakeInv'
BY RequestMoves DEF LockSession, Steps, Running

LEMMA DieKept ==
  ASSUME IntakeInv, NEW r \in Request, Die(r) PROVE IntakeInv'
BY RequestMoves DEF Die, Steps

(* The lock on the member's takes was free.                                *)
LEMMA LockTakesKept ==
  ASSUME IntakeInv, NEW r \in Request, LockTakes(r) PROVE IntakeInv'
<1> USE DEF session, rows
<1>1. /\ step \in [Request -> Steps] /\ step' = [step EXCEPT ![r] = "locked"]
      /\ UNCHANGED <<state, seat, absent, lost, takes, final, sent, drawn, now>>
  BY DEF IntakeInv, IntakeTypeOK, Goes, Steps, LockTakes
<1>2. /\ step' \in [Request -> Steps]
      /\ \A q \in Request : step'[q] = IF q = r THEN "locked" ELSE step[q]
  BY <1>1 DEF Steps, Running
<1>3. IntakeTypeOK'
  BY <1>1, <1>2 DEF IntakeInv, IntakeTypeOK, Steps
<1>4. \A q \in Request : step[q] \in {"locked", "numbered"} => sent[q].member # sent[r].member
  BY DEF LockTakes, HoldsTakes
<1>5. OneAtTheTakes'
  BY <1>1, <1>2, <1>4 DEF IntakeInv, OneAtTheTakes
<1>6. NumbersHold'
  BY <1>1, <1>2 DEF IntakeInv, NumbersHold
<1>7. TakesTimed' /\ NoncesOnce' /\ AbsencesAfter' /\ NewestIsFinal' /\ CapHolds' /\ TakeOrAbsent'
  BY <1>1 DEF IntakeInv, TakesTimed, NoncesOnce, AbsencesAfter, NewestIsFinal, CapHolds,
              TakeOrAbsent
<1>8. AnsweredOnFile'
  BY <1>1, <1>2 DEF IntakeInv, AnsweredOnFile, SameBytes, Recorded
<1>9. NoAmendmentLost'
  BY <1>2 DEF IntakeInv, NoAmendmentLost
<1> QED
  BY <1>3, <1>5, <1>6, <1>7, <1>8, <1>9 DEF IntakeInv

(* What the INSERT read, under both locks.                                 *)
LEMMA NumberTakeKept ==
  ASSUME IntakeInv, NEW r \in Request, NumberTake(r) PROVE IntakeInv'
<1> DEFINE m == sent[r].member
<1> USE DEF session, rows
<1>1. CASE Acceptable(m)
  <2>1. /\ step \in [Request -> Steps] /\ step' = [step EXCEPT ![r] = "numbered"]
        /\ drawn' = [drawn EXCEPT ![r] = [revision |-> Len(takes[m]) + 1, at |-> now]]
        /\ UNCHANGED <<state, seat, absent, lost, takes, final, sent, now>>
        /\ step[r] = "locked"
    BY <1>1 DEF IntakeInv, IntakeTypeOK, Goes, Steps, NumberTake
  <2>2. m \in Member /\ takes[m] \in Seq(Rows)
    BY DEF IntakeInv, IntakeTypeOK, Take, Rows
  <2>3. Len(takes[m]) \in Nat /\ Len(takes[m]) + 1 \in Nat /\ now \in Nat
    BY <2>2 DEF IntakeInv, IntakeTypeOK
  <2>4. /\ step' \in [Request -> Steps]
        /\ \A q \in Request : step'[q] = IF q = r THEN "numbered" ELSE step[q]
    BY <2>1 DEF Steps, Running
  <2>5. /\ drawn' \in [Request -> [revision : Nat, at : Nat]]
        /\ drawn'[r] = [revision |-> Len(takes[m]) + 1, at |-> now]
        /\ \A q \in Request : q # r => drawn'[q] = drawn[q]
    BY <2>1, <2>3 DEF IntakeInv, IntakeTypeOK
  <2>6. IntakeTypeOK'
    BY <2>1, <2>4, <2>5 DEF IntakeInv, IntakeTypeOK, Steps
  <2>7. OneAtTheTakes'
    BY <2>1, <2>4 DEF IntakeInv, OneAtTheTakes
  <2>8. NumbersHold'
    <3> SUFFICES ASSUME NEW q \in Request, step'[q] = "numbered"
                 PROVE  LET p == sent[q].member
                        IN /\ state = "collecting" /\ Len(takes[p]) < Cap
                           /\ drawn'[q].revision = Len(takes[p]) + 1
                           /\ drawn'[q].at <= now /\ drawn'[q].at < Close
                           /\ \A i \in DOMAIN takes[p] : takes[p][i].at <= drawn'[q].at
      BY <2>1 DEF NumbersHold
    <3>1. CASE q = r
      BY <1>1, <2>2, <2>3, <2>5, <3>1 DEF IntakeInv, TakesTimed, Acceptable
    <3>2. CASE q # r
      BY <2>4, <2>5, <3>2 DEF IntakeInv, NumbersHold
    <3> QED
      BY <3>1, <3>2
  <2>9. TakesTimed' /\ NoncesOnce' /\ AbsencesAfter' /\ NewestIsFinal' /\ CapHolds'
        /\ TakeOrAbsent'
    BY <2>1 DEF IntakeInv, TakesTimed, NoncesOnce, AbsencesAfter, NewestIsFinal, CapHolds,
                TakeOrAbsent
  <2>10. AnsweredOnFile'
    BY <2>1, <2>4 DEF IntakeInv, AnsweredOnFile, SameBytes, Recorded
  <2>11. NoAmendmentLost'
    BY <2>4 DEF IntakeInv, NoAmendmentLost
  <2> QED
    BY <2>6, <2>7, <2>8, <2>9, <2>10, <2>11 DEF IntakeInv
<1>2. CASE ~Acceptable(m)
  <2>1. UNCHANGED <<session, rows, sent, drawn, now>>
    BY <1>2 DEF NumberTake
  <2>2. PICK s \in {"capped", "late"} : Goes(r, s)
    BY <1>2 DEF NumberTake
  <2> QED
    BY <2>1, <2>2, RequestMoves DEF Steps, Answers
<1> QED
  BY <1>1, <1>2

(* A row is put at the end of a member's takes.                            *)
LEMMA TakesGrow ==
  ASSUME IntakeTypeOK, NEW m \in Member, NEW row \in Rows,
         takes' = [takes EXCEPT ![m] = Append(@, row)]
  PROVE  /\ takes' \in [Member -> Seq(Rows)]
         /\ \A k \in Member : k # m => takes'[k] = takes[k]
         /\ Len(takes[m]) \in Nat /\ Len(takes'[m]) = Len(takes[m]) + 1
         /\ DOMAIN takes[m] = 1 .. Len(takes[m])
         /\ DOMAIN takes'[m] = 1 .. Len(takes[m]) + 1
         /\ \A i \in 1 .. Len(takes[m]) : takes'[m][i] = takes[m][i]
         /\ takes'[m][Len(takes[m]) + 1] = row
<1>1. takes[m] \in Seq(Rows) /\ takes \in [Member -> Seq(Rows)]
  BY DEF IntakeTypeOK, Rows
<1>2. takes'[m] = Append(takes[m], row)
  BY <1>1
<1>3. Append(takes[m], row) \in Seq(Rows) /\ Len(takes[m]) \in Nat
  BY <1>1
<1>4. /\ Len(Append(takes[m], row)) = Len(takes[m]) + 1
      /\ \A i \in 1 .. Len(takes[m]) : Append(takes[m], row)[i] = takes[m][i]
      /\ Append(takes[m], row)[Len(takes[m]) + 1] = row
      /\ DOMAIN takes[m] = 1 .. Len(takes[m])
      /\ DOMAIN Append(takes[m], row) = 1 .. Len(Append(takes[m], row))
  BY <1>1, <1>3
<1>5. takes' \in [Member -> Seq(Rows)]
  BY <1>1, <1>3
<1>6. \A k \in Member : k # m => takes'[k] = takes[k]
  BY <1>1
<1> QED
  BY <1>2, <1>3, <1>4, <1>5, <1>6

(* The row is written: what was read still holds, nobody else is at these  *)
(* takes, and the nonce is not on file.                                    *)
LEMMA AcceptKept ==
  ASSUME IntakeInv, NEW r \in Request, step[r] = "numbered",
         NEW m \in Member, m = sent[r].member, Recorded(m, sent[r].nonce) = {},
         takes' = [takes EXCEPT ![m] = Append(@,
           [nonce |-> sent[r].nonce, bytes |-> sent[r].bytes, at |-> drawn[r].at])],
         MoveFinal(m, drawn[r].revision), Goes(r, "accepted"),
         UNCHANGED <<session, sent, drawn, now>>
  PROVE  IntakeInv'
<1> DEFINE row == [nonce |-> sent[r].nonce, bytes |-> sent[r].bytes, at |-> drawn[r].at]
           n == Len(takes[m])
<1> USE DEF session
<1>1. /\ IntakeTypeOK /\ step \in [Request -> Steps]
      /\ UNCHANGED <<state, seat, absent, lost, sent, drawn, now>>
      /\ step' = [step EXCEPT ![r] = "accepted"]
      /\ final' = [final EXCEPT ![m] = {drawn[r].revision}]
  BY DEF IntakeInv, IntakeTypeOK, Goes, Steps, MoveFinal
<1>2. /\ step' \in [Request -> Steps]
      /\ \A q \in Request : step'[q] = IF q = r THEN "accepted" ELSE step[q]
  BY <1>1 DEF Steps, Answers
<1>3. row \in Rows /\ drawn[r].revision \in Nat /\ drawn[r].at \in Nat
  BY <1>1 DEF IntakeTypeOK, Take, Rows
<1>4. /\ row.nonce = sent[r].nonce /\ row.bytes = sent[r].bytes /\ row.at = drawn[r].at
  OBVIOUS
<1>5. takes' = [takes EXCEPT ![m] = Append(@, row)]
  OBVIOUS
<1> HIDE DEF row, n
<1>6. /\ takes' \in [Member -> Seq(Rows)]
      /\ \A k \in Member : k # m => takes'[k] = takes[k]
      /\ n \in Nat /\ Len(takes'[m]) = n + 1
      /\ DOMAIN takes[m] = 1 .. n /\ DOMAIN takes'[m] = 1 .. n + 1
      /\ \A i \in 1 .. n : takes'[m][i] = takes[m][i]
      /\ takes'[m][n + 1] = row
  BY <1>1, <1>3, <1>5, TakesGrow DEF n
<1>7. /\ state = "collecting" /\ n < Cap /\ drawn[r].revision = n + 1
      /\ drawn[r].at <= now /\ drawn[r].at < Close
      /\ \A i \in DOMAIN takes[m] : takes[m][i].at <= drawn[r].at
  BY DEF IntakeInv, NumbersHold, n
<1>8. IntakeTypeOK'
  <2>1. final' \in [Member -> SUBSET Nat]
    BY <1>1, <1>3 DEF IntakeTypeOK
  <2> QED
    BY <1>1, <1>2, <1>6, <2>1 DEF IntakeTypeOK, Steps, Rows
<1>9. OneAtTheTakes'
  BY <1>1, <1>2 DEF IntakeInv, OneAtTheTakes
<1>10. NumbersHold'
  <2>1. \A q \in Request : step'[q] = "numbered" =>
          q # r /\ step[q] = "numbered" /\ sent[q].member # m
    BY <1>2 DEF IntakeInv, OneAtTheTakes
  <2>2. \A q \in Request : sent[q].member \in Member
    BY <1>1 DEF IntakeTypeOK, Take
  <2> QED
    BY <1>1, <1>6, <2>1, <2>2 DEF IntakeInv, NumbersHold
<1>11. TakesTimed'
  <2> SUFFICES ASSUME NEW k \in Member, NEW i \in DOMAIN takes'[k]
               PROVE  takes'[k][i].at <= now /\ takes'[k][i].at < Close
    BY <1>1 DEF TakesTimed
  <2>1. CASE k # m \/ i # n + 1
    <3>1. i \in DOMAIN takes[k] /\ takes'[k][i] = takes[k][i]
      BY <1>6, <2>1
    <3> QED
      BY <3>1 DEF IntakeInv, TakesTimed
  <2>2. CASE k = m /\ i = n + 1
    BY <1>4, <1>6, <1>7, <2>2
  <2> QED
    BY <2>1, <2>2
<1>12. NoncesOnce'
  <2>1. \A i \in DOMAIN takes[m] : takes[m][i].nonce # row.nonce
    BY <1>4 DEF Recorded
  <2> SUFFICES ASSUME NEW k \in Member, NEW i \in DOMAIN takes'[k], NEW l \in DOMAIN takes'[k],
                      takes'[k][i].nonce = takes'[k][l].nonce
               PROVE  i = l
    BY DEF NoncesOnce
  <2>2. CASE k # m
    BY <1>6, <2>2 DEF IntakeInv, NoncesOnce
  <2>3. CASE k = m
    <3>1. \A h \in 1 .. n + 1 : h # n + 1 => h \in DOMAIN takes[m] /\ takes'[m][h] = takes[m][h]
      BY <1>6
    <3>2. CASE i # n + 1 /\ l # n + 1
      BY <1>6, <2>3, <3>1, <3>2 DEF IntakeInv, NoncesOnce
    <3>3. CASE i = n + 1 \/ l = n + 1
      BY <1>6, <2>1, <2>3, <3>1, <3>3
    <3> QED
      BY <3>2, <3>3
  <2> QED
    BY <2>2, <2>3
<1>13. AnsweredOnFile'
  <2>1. SameBytes(sent[r])'
    <3>1. n + 1 \in DOMAIN takes'[m]
      BY <1>6
    <3>2. takes'[m][n + 1].nonce = sent[r].nonce /\ takes'[m][n + 1].bytes = sent[r].bytes
      BY <1>4, <1>6
    <3>3. sent'[r] = sent[r] /\ sent[r].member = m
      BY <1>1
    <3>4. SameBytes(sent[r])' <=>
            \E i \in {j \in DOMAIN takes'[m] : takes'[m][j].nonce = sent[r].nonce} :
              takes'[m][i].bytes = sent[r].bytes
      BY <3>3 DEF SameBytes, Recorded
    <3> QED
      BY <3>1, <3>2, <3>4
  <2>2. ASSUME NEW q \in Request, SameBytes(sent[q]) PROVE SameBytes(sent[q])'
    <3> DEFINE k == sent[q].member
    <3>1. PICK i \in DOMAIN takes[k] :
            takes[k][i].nonce = sent[q].nonce /\ takes[k][i].bytes = sent[q].bytes
      BY <2>2 DEF SameBytes, Recorded
    <3>2. i \in DOMAIN takes'[k] /\ takes'[k][i] = takes[k][i]
      <4>1. k \in Member
        BY <1>1 DEF IntakeTypeOK, Take
      <4> QED
        BY <1>6, <4>1
    <3> QED
      BY <1>1, <3>1, <3>2 DEF SameBytes, Recorded
  <2> QED
    BY <1>2, <2>1, <2>2 DEF IntakeInv, AnsweredOnFile
<1>14. AbsencesAfter' /\ NoAmendmentLost'
  BY <1>1, <1>2 DEF IntakeInv, AbsencesAfter, NoAmendmentLost
<1>15. NewestIsFinal'
  <2> SUFFICES ASSUME NEW k \in Member
               PROVE  /\ final'[k] = IF takes'[k] = <<>> THEN {} ELSE {Len(takes'[k])}
                      /\ \A i, l \in DOMAIN takes'[k] : i < l => takes'[k][i].at <= takes'[k][l].at
    BY DEF NewestIsFinal
  <2>1. CASE k # m
    <3>1. final'[k] = final[k] /\ takes'[k] = takes[k]
      BY <1>1, <1>6, <2>1 DEF IntakeTypeOK
    <3> QED
      BY <3>1 DEF IntakeInv, NewestIsFinal
  <2>2. CASE k = m
    <3>1. takes'[m] # <<>> /\ final'[m] = {n + 1}
      <4>1. Len(<<>>) = 0 /\ n + 1 # 0
        BY <1>6
      <4>2. takes'[m] # <<>>
        BY <1>6, <4>1
      <4>3. final'[m] = {drawn[r].revision}
        BY <1>1 DEF IntakeTypeOK
      <4> QED
        BY <1>7, <4>2, <4>3
    <3>2. \A h \in 1 .. n + 1 : h # n + 1 => h \in DOMAIN takes[m] /\ takes'[m][h] = takes[m][h]
      BY <1>6
    <3>3. ASSUME NEW i \in 1 .. n + 1, NEW l \in 1 .. n + 1, i < l
          PROVE  takes'[m][i].at <= takes'[m][l].at
      <4>1. CASE l = n + 1
        <5>1. i \in DOMAIN takes[m] /\ takes'[m][i] = takes[m][i]
          BY <1>6, <3>2, <3>3, <4>1
        <5> QED
          BY <1>4, <1>6, <1>7, <4>1, <5>1
      <4>2. CASE l # n + 1
        <5>1. i \in DOMAIN takes[m] /\ l \in DOMAIN takes[m]
              /\ takes'[m][i] = takes[m][i] /\ takes'[m][l] = takes[m][l]
          BY <1>6, <3>2, <3>3, <4>2
        <5> QED
          BY <3>3, <5>1 DEF IntakeInv, NewestIsFinal
      <4> QED
        BY <4>1, <4>2
    <3> QED
      BY <1>6, <2>2, <3>1, <3>3
  <2> QED
    BY <2>1, <2>2
<1>16. CapHolds'
  BY <1>6, <1>7, CapAssumption DEF IntakeInv, CapHolds
<1>17. TakeOrAbsent'
  BY <1>1, <1>7 DEF IntakeInv, AbsencesAfter, TakeOrAbsent
<1> QED
  BY <1>8, <1>9, <1>10, <1>11, <1>12, <1>13, <1>14, <1>15, <1>16, <1>17 DEF IntakeInv

LEMMA WriteTakeKept ==
  ASSUME IntakeInv, NEW r \in Request, WriteTake(r) PROVE IntakeInv'
<1>1. PICK m \in Member : m = sent[r].member
  BY DEF IntakeInv, IntakeTypeOK, Take
<1>2. step[r] = "numbered" /\ UNCHANGED <<session, sent, drawn, now>>
  BY DEF WriteTake
<1>3. CASE Recorded(m, sent[r].nonce) # {}
  <2>1. UNCHANGED rows /\ AnswerFromRecord(r)
    BY <1>1, <1>3 DEF WriteTake
  <2>2. CASE SameBytes(sent[r])
    BY <1>2, <2>1, <2>2, RequestMoves DEF AnswerFromRecord, Steps, Answers
  <2>3. CASE ~SameBytes(sent[r])
    BY <1>2, <2>1, <2>3, RequestMoves DEF AnswerFromRecord, Steps, Answers
  <2> QED
    BY <2>2, <2>3
<1>4. CASE Recorded(m, sent[r].nonce) = {}
  <2>1. drawn[r].revision \notin DOMAIN takes[m]
    <3>1. takes[m] \in Seq(Rows)
      BY DEF IntakeInv, IntakeTypeOK, Rows
    <3>2. drawn[r].revision = Len(takes[m]) + 1
      BY <1>1, <1>2 DEF IntakeInv, NumbersHold
    <3>3. Len(takes[m]) \in Nat /\ DOMAIN takes[m] = 1 .. Len(takes[m])
      BY <3>1
    <3> QED
      BY <3>2, <3>3
  <2>2. /\ takes' = [takes EXCEPT ![m] = Append(@,
              [nonce |-> sent[r].nonce, bytes |-> sent[r].bytes, at |-> drawn[r].at])]
        /\ MoveFinal(m, drawn[r].revision) /\ Goes(r, "accepted")
    BY <1>1, <1>4, <2>1 DEF WriteTake
  <2> QED
    BY <1>1, <1>2, <1>4, <2>2, AcceptKept
<1> QED
  BY <1>3, <1>4

(* What a member has on file.                                              *)
LEMMA RowsOnFile ==
  ASSUME IntakeTypeOK, NEW m \in Member
  PROVE  /\ \A i \in DOMAIN takes[m] : takes[m][i].at \in Nat
         /\ DOMAIN takes[m] # {} <=> takes[m] # <<>>
<1>1. takes[m] \in Seq(Rows)
  BY DEF IntakeTypeOK, Rows
<1>2. PICK f : f = takes[m] /\ f \in Seq(Rows)
  BY <1>1
<1>3. /\ DOMAIN f = 1 .. Len(f) /\ Len(f) \in Nat
      /\ \A i \in 1 .. Len(f) : f[i] \in Rows
  BY <1>2
<1>4. \A i \in DOMAIN f : f[i].at \in Nat
  BY <1>3 DEF Rows
<1>5. f = <<>> <=> Len(f) = 0
  BY <1>2
<1>6. DOMAIN f # {} <=> Len(f) # 0
  BY <1>3
<1> QED
  BY <1>2, <1>4, <1>5, <1>6

(* No take is later than the close, so counting the takes on time is the   *)
(* same as counting the takes.                                             *)
LEMMA OnTimeIfFiled ==
  ASSUME IntakeInv, NEW m \in Member
  PROVE  OnTime(m) <=> takes[m] # <<>>
<1>1. \A i \in DOMAIN takes[m] : takes[m][i].at \in Nat
  BY RowsOnFile DEF IntakeInv
<1>2. \A i \in DOMAIN takes[m] : takes[m][i].at < Close
  BY DEF IntakeInv, TakesTimed
<1>3. \A i \in DOMAIN takes[m] : takes[m][i].at <= Close
  BY <1>1, <1>2, TimeAssumption
<1>4. DOMAIN takes[m] # {} <=> takes[m] # <<>>
  BY RowsOnFile DEF IntakeInv
<1> QED
  BY <1>3, <1>4 DEF OnTime

(* The boundary holds the session's row: no take is between its INSERT's   *)
(* read and its write.                                                     *)
LEMMA TurnOverKept ==
  ASSUME IntakeInv, TurnOver PROVE IntakeInv'
<1>1. /\ state = "collecting" /\ state' = "window_closed"
      /\ UNCHANGED <<seat, takes, final, step, sent, drawn, now>>
      /\ lost' = lost \/ lost' = TRUE
  BY DEF TurnOver, RecordAbsences, rows, requests
<1>2. \A r \in Request : step[r] # "numbered"
  BY DEF TurnOver, SharesSession
<1>3. /\ absent' \subseteq Member
      /\ \A m \in absent' : ~OnTime(m)
      /\ ~lost' => \A m \in Member : seat[m] = "expected" => m \in absent' \/ OnTime(m)
  BY DEF TurnOver, RecordAbsences
<1>4. IntakeTypeOK'
  BY <1>1, <1>3 DEF IntakeInv, IntakeTypeOK
<1>5. OneAtTheTakes' /\ NumbersHold'
  BY <1>1, <1>2 DEF IntakeInv, OneAtTheTakes, NumbersHold
<1>6. TakesTimed' /\ NoncesOnce' /\ CapHolds'
  BY <1>1 DEF IntakeInv, TakesTimed, NoncesOnce, CapHolds
<1>7. NewestIsFinal'
  BY <1>1 DEF IntakeInv, NewestIsFinal
<1>8. AnsweredOnFile'
  BY <1>1 DEF IntakeInv, AnsweredOnFile, SameBytes, Recorded
<1>9. NoAmendmentLost' /\ AbsencesAfter'
  BY <1>1 DEF IntakeInv, NoAmendmentLost, AbsencesAfter
<1>10. \A m \in Member : OnTime(m) <=> takes[m] # <<>>
  BY OnTimeIfFiled
<1>11. TakeOrAbsent'
  BY <1>1, <1>3, <1>10 DEF TakeOrAbsent
<1> QED
  BY <1>4, <1>5, <1>6, <1>7, <1>8, <1>9, <1>11 DEF IntakeInv

(* One expected member less.                                               *)
LEMMA ExcuseKept ==
  ASSUME IntakeInv, NEW m \in Member, Excuse(m) PROVE IntakeInv'
<1>1. /\ seat' = [seat EXCEPT ![m] = "excused"]
      /\ UNCHANGED <<state, absent, lost, takes, final, step, sent, drawn, now>>
  BY DEF Excuse, rows, requests
<1>2. /\ seat' \in [Member -> {"none", "expected", "excused"}]
      /\ \A k \in Member : seat'[k] = "expected" => seat[k] = "expected"
  BY <1>1 DEF IntakeInv, IntakeTypeOK
<1>3. IntakeTypeOK'
  BY <1>1, <1>2 DEF IntakeInv, IntakeTypeOK
<1>4. OneAtTheTakes' /\ NumbersHold'
  BY <1>1 DEF IntakeInv, OneAtTheTakes, NumbersHold
<1>5. TakesTimed' /\ NoncesOnce' /\ CapHolds'
  BY <1>1 DEF IntakeInv, TakesTimed, NoncesOnce, CapHolds
<1>6. NewestIsFinal'
  BY <1>1 DEF IntakeInv, NewestIsFinal
<1>7. AnsweredOnFile'
  BY <1>1 DEF IntakeInv, AnsweredOnFile, SameBytes, Recorded
<1>8. NoAmendmentLost' /\ AbsencesAfter'
  BY <1>1 DEF IntakeInv, NoAmendmentLost, AbsencesAfter
<1>9. TakeOrAbsent'
  BY <1>1, <1>2 DEF IntakeInv, TakeOrAbsent
<1> QED
  BY <1>3, <1>4, <1>5, <1>6, <1>7, <1>8, <1>9 DEF IntakeInv

LEMMA TickKept ==
  ASSUME IntakeInv, Tick PROVE IntakeInv'
<1>1. /\ now' = now + 1
      /\ UNCHANGED <<state, seat, absent, lost, takes, final, step, sent, drawn>>
  BY DEF Tick, session, rows, requests
<1>2. /\ now \in Nat /\ takes \in [Member -> Seq(Rows)]
      /\ drawn \in [Request -> [revision : Nat, at : Nat]]
  BY DEF IntakeInv, IntakeTypeOK, Rows
<1>3. IntakeTypeOK'
  <2>1. now' \in Nat
    BY <1>1, <1>2
  <2> QED
    BY <1>1, <2>1 DEF IntakeInv, IntakeTypeOK
<1>4. OneAtTheTakes'
  BY <1>1 DEF IntakeInv, OneAtTheTakes
<1>5. NumbersHold'
  <2>1. \A r \in Request : drawn[r].at <= now => drawn[r].at <= now'
    BY <1>1, <1>2
  <2> QED
    BY <1>1, <2>1 DEF IntakeInv, NumbersHold
<1>6. TakesTimed'
  <2>1. \A m \in Member : \A i \in DOMAIN takes[m] : takes[m][i].at \in Nat
    BY RowsOnFile DEF IntakeInv
  <2>2. \A m \in Member : \A i \in DOMAIN takes[m] :
          takes[m][i].at <= now => takes[m][i].at <= now'
    BY <1>1, <1>2, <2>1
  <2> QED
    BY <1>1, <2>2 DEF IntakeInv, TakesTimed
<1>7. NoncesOnce' /\ CapHolds'
  BY <1>1 DEF IntakeInv, NoncesOnce, CapHolds
<1>8. NewestIsFinal'
  BY <1>1 DEF IntakeInv, NewestIsFinal
<1>9. AnsweredOnFile'
  BY <1>1 DEF IntakeInv, AnsweredOnFile, SameBytes, Recorded
<1>10. NoAmendmentLost' /\ AbsencesAfter'
  BY <1>1 DEF IntakeInv, NoAmendmentLost, AbsencesAfter
<1>11. TakeOrAbsent'
  BY <1>1 DEF IntakeInv, TakeOrAbsent
<1> QED
  BY <1>3, <1>4, <1>5, <1>6, <1>7, <1>8, <1>9, <1>10, <1>11 DEF IntakeInv

-------------------------------------------------------------------------------
LEMMA InitKept ==
  ASSUME Init PROVE IntakeInv
<1>1. \A m \in Member : takes[m] = <<>> /\ final[m] = {}
  BY DEF Init
<1>2. IntakeTypeOK
  <2>1. takes \in [Member -> Seq([nonce : Nonce, bytes : Bytes, at : Nat])]
    BY DEF Init
  <2>2. step \in [Request -> Running \cup Answers \cup {"idle", "dead"}]
    BY DEF Init
  <2>3. drawn \in [Request -> [revision : Nat, at : Nat]]
    BY DEF Init
  <2>4. final \in [Member -> SUBSET Nat]
    BY DEF Init
  <2> QED
    BY <2>1, <2>2, <2>3, <2>4 DEF Init, IntakeTypeOK
<1>3. \A r \in Request : step[r] = "idle"
  BY DEF Init
<1>4. OneAtTheTakes /\ NumbersHold /\ AnsweredOnFile /\ NoAmendmentLost
  BY <1>3 DEF OneAtTheTakes, NumbersHold, AnsweredOnFile, NoAmendmentLost
<1>5. \A m \in Member : DOMAIN takes[m] = {} /\ Len(takes[m]) = 0
  BY <1>1
<1>6. TakesTimed /\ NoncesOnce /\ CapHolds
  BY <1>5, CapAssumption DEF TakesTimed, NoncesOnce, CapHolds
<1>7. NewestIsFinal
  BY <1>1, <1>5 DEF NewestIsFinal
<1>8. AbsencesAfter /\ TakeOrAbsent
  BY DEF Init, AbsencesAfter, TakeOrAbsent
<1> QED
  BY <1>2, <1>4, <1>6, <1>7, <1>8 DEF IntakeInv

LEMMA StepKept ==
  ASSUME IntakeInv, [Next]_vars PROVE IntakeInv'
<1>1. CASE \E r \in Request : Submit(r) \/ Die(r)
  BY <1>1, LookUpKept, CheckKept, LockSessionKept, LockTakesKept, NumberTakeKept,
     WriteTakeKept, DieKept DEF Submit
<1>2. CASE TurnOver
  BY <1>2, TurnOverKept
<1>3. CASE \E m \in Member : Excuse(m)
  BY <1>3, ExcuseKept
<1>4. CASE Tick
  BY <1>4, TickKept
<1>5. CASE UNCHANGED vars
  <2>1. UNCHANGED <<state, seat, takes, final, absent, lost, step, sent, drawn, now>>
    BY <1>5 DEF vars, session, rows, requests
  <2>2. IntakeTypeOK' /\ OneAtTheTakes' /\ NumbersHold' /\ AbsencesAfter'
    BY <2>1 DEF IntakeInv, IntakeTypeOK, OneAtTheTakes, NumbersHold, AbsencesAfter
  <2>3. TakesTimed' /\ NoncesOnce' /\ CapHolds' /\ NoAmendmentLost'
    BY <2>1 DEF IntakeInv, TakesTimed, NoncesOnce, CapHolds, NoAmendmentLost
  <2>4. AnsweredOnFile' /\ NewestIsFinal' /\ TakeOrAbsent'
    BY <2>1 DEF IntakeInv, AnsweredOnFile, SameBytes, Recorded, NewestIsFinal, TakeOrAbsent
  <2> QED
    BY <2>2, <2>3, <2>4 DEF IntakeInv
<1> QED
  BY <1>1, <1>2, <1>3, <1>4, <1>5 DEF Next

(* What the two locks protect holds in every state.                        *)
THEOREM IntakeAgrees == Spec => []IntakeInv
BY InitKept, StepKept, PTL DEF Spec

(* A member that filed has one final take, the newest, whatever overlapped. *)
THEOREM NewestFlagged == Spec => []NewestIsFinal
<1>1. IntakeInv => NewestIsFinal
  BY DEF IntakeInv
<1> QED
  BY <1>1, IntakeAgrees, PTL

(* No racing amendment is refused by the revision's unique constraint.     *)
THEOREM AmendmentsKept == Spec => []NoAmendmentLost
<1>1. IntakeInv => NoAmendmentLost
  BY DEF IntakeInv
<1> QED
  BY <1>1, IntakeAgrees, PTL

(* Submissions that each saw room never exceed the cap together.           *)
THEOREM CapIsKept == Spec => []CapHolds
<1>1. IntakeInv => CapHolds
  BY DEF IntakeInv
<1> QED
  BY <1>1, IntakeAgrees, PTL

(* An absent member filed nothing; with the savepoint intact, an expected  *)
(* member that filed nothing by the close is absent.                       *)
THEOREM AbsencesAgree == Spec => []TakeOrAbsent
<1>1. IntakeInv => TakeOrAbsent
  BY DEF IntakeInv
<1> QED
  BY <1>1, IntakeAgrees, PTL

(* A success answers for exactly the signed bytes, on file once.           *)
THEOREM SuccessesOnFile == Spec => []SuccessIsOnFile
<1>1. IntakeInv => SuccessIsOnFile
  <2> SUFFICES ASSUME IntakeInv, NEW m \in Member, NEW n \in Nonce
               PROVE  Cardinality(Recorded(m, n)) <= 1
    BY DEF SuccessIsOnFile, IntakeInv, AnsweredOnFile
  <2>1. CASE Recorded(m, n) = {}
    BY <2>1, FS_EmptySet
  <2>2. ASSUME NEW i \in Recorded(m, n) PROVE Cardinality(Recorded(m, n)) <= 1
    <3>1. \A k \in Recorded(m, n) : k = i
      BY <2>2 DEF Recorded, IntakeInv, NoncesOnce
    <3>2. Recorded(m, n) = {i}
      BY <2>2, <3>1
    <3>3. Cardinality({i}) = 1
      BY FS_Singleton
    <3> QED
      BY <3>2, <3>3
  <2> QED
    BY <2>1, <2>2
<1> QED
  BY <1>1, IntakeAgrees, PTL

(* Nothing is filed, and no flag moves, once the window has closed.        *)
THEOREM ClosedSetStays == Spec => ClosedSetFixed
<1>1. IntakeInv /\ [Next]_vars => [state = "window_closed" => UNCHANGED rows]_vars
  <2> SUFFICES ASSUME IntakeInv, Next, state = "window_closed" PROVE UNCHANGED rows
    OBVIOUS
  <2>1. \A r \in Request : step[r] # "numbered"
    BY DEF IntakeInv, NumbersHold
  <2>2. CASE \E r \in Request : Submit(r) \/ Die(r)
    BY <2>1, <2>2 DEF Submit, Die, LookUp, CheckWindow, CheckSeat, CheckCap, LockSession,
                      LockTakes, NumberTake, WriteTake
  <2>3. CASE TurnOver
    BY <2>3 DEF TurnOver
  <2>4. CASE \E m \in Member : Excuse(m)
    BY <2>4 DEF Excuse
  <2>5. CASE Tick
    BY <2>5 DEF Tick
  <2> QED
    BY <2>2, <2>3, <2>4, <2>5 DEF Next
<1> QED
  BY <1>1, IntakeAgrees, PTL DEF Spec, ClosedSetFixed

-------------------------------------------------------------------------------
(* A request's verdict moves with its step.                                *)
LEMMA VerdictMoves ==
  ASSUME IntakeInv, NEW r \in Request, NEW s \in Steps, Goes(r, s)
  PROVE  /\ verdictBar[r] = Verdict(step[r])
         /\ verdictBar' = [verdictBar EXCEPT ![r] = Verdict(s)]
<1>1. /\ step \in [Request -> Steps] /\ step' \in [Request -> Steps]
      /\ \A q \in Request : step'[q] = IF q = r THEN s ELSE step[q]
  BY DEF IntakeInv, IntakeTypeOK, Goes, Steps
<1> QED
  BY <1>1 DEF verdictBar

(* What a nonce on file means to AtomicIntake is what the lookup reads.    *)
LEMMA OnFileIsRecorded ==
  /\ \A m, n : Atomic!OnFile(m, n) <=> Recorded(m, n) # {}
  /\ \A t : Atomic!SignedAs(t) <=> SameBytes(t)
BY DEF Atomic!OnFile, Atomic!SignedAs, Recorded, SameBytes

(* A step that leaves the verdict of its request alone is a stutter.       *)
LEMMA SilentStep ==
  ASSUME IntakeInv, NEW r \in Request, NEW s \in Steps, Goes(r, s),
         Verdict(s) = Verdict(step[r]),
         UNCHANGED <<session, rows, sent, now>>
  PROVE  UNCHANGED Atomic!vars
<1>1. verdictBar' = verdictBar
  BY VerdictMoves DEF verdictBar
<1> QED
  BY <1>1 DEF Atomic!vars, session, rows

LEMMA ReferStep ==
  ASSUME IntakeInv, NEW r \in Request, step[r] \in {"idle", "numbered"},
         Recorded(sent[r].member, sent[r].nonce) # {}, AnswerFromRecord(r),
         UNCHANGED <<session, rows, sent, now>>
  PROVE  Atomic!Refer(r)
<1> DEFINE s == IF SameBytes(sent[r]) THEN "recorded" ELSE "replayed"
<1>1. Goes(r, s) /\ s \in Steps /\ Verdict(s) = s
  BY DEF AnswerFromRecord, Steps, Answers, Verdict
<1>2. verdictBar[r] = Verdict(step[r]) /\ verdictBar' = [verdictBar EXCEPT ![r] = s]
  <2> HIDE DEF s
  <2> QED
    BY <1>1, VerdictMoves
<1>3. verdictBar[r] \in Atomic!Unanswered
  BY <1>2 DEF Verdict, Atomic!Unanswered
<1> QED
  BY <1>2, <1>3, OnFileIsRecorded DEF Atomic!Refer, Atomic!Says, session, rows

LEMMA RefuseStep ==
  ASSUME IntakeInv, NEW r \in Request, step[r] \in Running,
         NEW why \in {"late", "unseated", "capped"}, Goes(r, why),
         why = "late" => state # "collecting" \/ now >= Close,
         why = "unseated" => step[r] = "open" /\ seat[sent[r].member] # "expected",
         why = "capped" => step[r] \in {"seated", "locked"} /\ Len(takes[sent[r].member]) >= Cap,
         UNCHANGED <<session, rows, sent, now>>
  PROVE  Atomic!Refuse(r, why)
<1>1. why \in Steps /\ Verdict(why) = why
  BY DEF Steps, Answers, Verdict
<1>2. verdictBar[r] = Verdict(step[r]) /\ verdictBar' = [verdictBar EXCEPT ![r] = why]
  BY <1>1, VerdictMoves
<1>3. /\ verdictBar[r] \in Atomic!Unanswered
      /\ step[r] = "open" => verdictBar[r] = "pending"
      /\ step[r] \in {"seated", "locked"} => verdictBar[r] = "admitted"
  BY <1>2 DEF Verdict, Running, Atomic!Unanswered
<1> QED
  BY <1>2, <1>3 DEF Atomic!Refuse, Atomic!Says, session, rows

LEMMA LookUpAnswers ==
  ASSUME IntakeInv, NEW r \in Request, LookUp(r)
  PROVE  Atomic!Next \/ UNCHANGED Atomic!vars
<1>1. step[r] = "idle" /\ UNCHANGED <<session, rows, sent, now>>
  BY DEF LookUp
<1>2. CASE Recorded(sent[r].member, sent[r].nonce) # {}
  <2>1. AnswerFromRecord(r)
    BY <1>2 DEF LookUp
  <2> QED
    BY <1>1, <1>2, <2>1, ReferStep DEF Atomic!Next, Atomic!Answer
<1>3. CASE Recorded(sent[r].member, sent[r].nonce) = {}
  <2>1. Goes(r, "new")
    BY <1>3 DEF LookUp
  <2> QED
    BY <1>1, <2>1, SilentStep DEF Steps, Running, Verdict
<1> QED
  BY <1>2, <1>3

LEMMA ChecksAnswer ==
  ASSUME IntakeInv, NEW r \in Request, CheckWindow(r) \/ CheckSeat(r) \/ CheckCap(r)
  PROVE  Atomic!Next \/ UNCHANGED Atomic!vars
<1>1. UNCHANGED <<session, rows, sent, now>>
  BY DEF CheckWindow, CheckSeat, CheckCap
<1>2. ASSUME NEW why \in {"late", "unseated", "capped"}, Atomic!Refuse(r, why)
      PROVE  Atomic!Next
  BY <1>2 DEF Atomic!Next, Atomic!Answer
<1>3. CASE CheckWindow(r)
  <2>1. step[r] = "new"
    BY <1>3 DEF CheckWindow
  <2>2. CASE state # "collecting" \/ now >= Close
    BY <1>1, <1>2, <1>3, <2>1, <2>2, RefuseStep DEF CheckWindow, Running
  <2>3. CASE ~(state # "collecting" \/ now >= Close)
    BY <1>1, <1>3, <2>1, <2>3, SilentStep DEF CheckWindow, Steps, Running, Verdict
  <2> QED
    BY <2>2, <2>3
<1>4. CASE CheckSeat(r)
  <2>1. step[r] = "open"
    BY <1>4 DEF CheckSeat
  <2>2. CASE seat[sent[r].member] # "expected"
    BY <1>1, <1>2, <1>4, <2>1, <2>2, RefuseStep DEF CheckSeat, Running
  <2>3. CASE seat[sent[r].member] = "expected"
    <3>1. Goes(r, "seated") /\ "seated" \in Steps
      BY <1>4, <2>3 DEF CheckSeat, Steps, Running
    <3>2. /\ verdictBar[r] = "pending"
          /\ verdictBar' = [verdictBar EXCEPT ![r] = "admitted"]
      BY <2>1, <3>1, VerdictMoves DEF Verdict
    <3> QED
      BY <1>1, <2>3, <3>2
      DEF Atomic!Next, Atomic!Answer, Atomic!Admit, Atomic!Says, session, rows
  <2> QED
    BY <2>2, <2>3
<1>5. CASE CheckCap(r)
  <2>1. step[r] = "seated"
    BY <1>5 DEF CheckCap
  <2>2. CASE Len(takes[sent[r].member]) >= Cap
    BY <1>1, <1>2, <1>5, <2>1, <2>2, RefuseStep DEF CheckCap, Running
  <2>3. CASE ~(Len(takes[sent[r].member]) >= Cap)
    BY <1>1, <1>5, <2>1, <2>3, SilentStep DEF CheckCap, Steps, Running, Verdict
  <2> QED
    BY <2>2, <2>3
<1> QED
  BY <1>3, <1>4, <1>5

(* Under the locks nothing is said, or the refusal the INSERT selects.     *)
LEMMA LocksAnswer ==
  ASSUME IntakeInv, NEW r \in Request, LockSession(r) \/ LockTakes(r) \/ NumberTake(r)
  PROVE  Atomic!Next \/ UNCHANGED Atomic!vars
<1>1. UNCHANGED <<session, rows, sent, now>>
  BY DEF LockSession, LockTakes, NumberTake
<1>2. CASE LockSession(r)
  BY <1>1, <1>2, SilentStep DEF LockSession, Steps, Running, Verdict
<1>3. CASE LockTakes(r)
  BY <1>1, <1>3, SilentStep DEF LockTakes, Steps, Running, Verdict
<1>4. CASE NumberTake(r)
  <2>1. step[r] = "locked"
    BY <1>4 DEF NumberTake
  <2>2. CASE Acceptable(sent[r].member)
    BY <1>1, <1>4, <2>1, <2>2, SilentStep DEF NumberTake, Steps, Running, Verdict
  <2>3. CASE ~Acceptable(sent[r].member)
    <3>1. PICK why \in {"late", "capped"} :
            Goes(r, why) /\ (why = "capped" <=> Len(takes[sent[r].member]) >= Cap)
      BY <1>4, <2>3 DEF NumberTake
    <3>2. why = "late" => state # "collecting" \/ now >= Close
      <4>1. takes[sent[r].member] \in Seq(Rows)
        BY DEF IntakeInv, IntakeTypeOK, Take, Rows
      <4>2. Len(takes[sent[r].member]) \in Nat /\ now \in Nat
        BY <4>1 DEF IntakeInv, IntakeTypeOK
      <4> QED
        BY <2>3, <3>1, <4>2, CapAssumption, TimeAssumption DEF Acceptable
    <3>3. Atomic!Refuse(r, why)
      BY <1>1, <2>1, <3>1, <3>2, RefuseStep DEF Running
    <3> QED
      BY <3>3 DEF Atomic!Next, Atomic!Answer
  <2> QED
    BY <2>2, <2>3
<1> QED
  BY <1>2, <1>3, <1>4

(* The row is the answer: what the request numbered is still so.           *)
LEMMA WriteAnswers ==
  ASSUME IntakeInv, NEW r \in Request, WriteTake(r)
  PROVE  Atomic!Next
<1>1. PICK m \in Member : m = sent[r].member
  BY DEF IntakeInv, IntakeTypeOK, Take
<1>2. step[r] = "numbered" /\ UNCHANGED <<session, sent, now>>
  BY DEF WriteTake
<1>3. CASE Recorded(m, sent[r].nonce) # {}
  <2>1. UNCHANGED rows /\ AnswerFromRecord(r)
    BY <1>1, <1>3 DEF WriteTake
  <2> QED
    BY <1>1, <1>2, <1>3, <2>1, ReferStep DEF Atomic!Next, Atomic!Answer
<1>4. CASE Recorded(m, sent[r].nonce) = {}
  <2> DEFINE t == drawn[r].at
  <2>1. /\ state = "collecting" /\ Len(takes[m]) < Cap
        /\ drawn[r].revision = Len(takes[m]) + 1
        /\ t <= now /\ t < Close
        /\ \A i \in DOMAIN takes[m] : takes[m][i].at <= t
    BY <1>1, <1>2 DEF IntakeInv, NumbersHold
  <2>2. t \in 0 .. now
    <3>1. drawn[r].at \in Nat /\ now \in Nat
      BY DEF IntakeInv, IntakeTypeOK
    <3> QED
      BY <2>1, <3>1
  <2>3. drawn[r].revision \notin DOMAIN takes[m]
    <3>1. takes[m] \in Seq(Rows)
      BY DEF IntakeInv, IntakeTypeOK, Rows
    <3>2. Len(takes[m]) \in Nat /\ DOMAIN takes[m] = 1 .. Len(takes[m])
      BY <3>1
    <3> QED
      BY <2>1, <3>2
  <2>4. /\ takes' = [takes EXCEPT ![m] = Append(@,
              [nonce |-> sent[r].nonce, bytes |-> sent[r].bytes, at |-> t])]
        /\ Goes(r, "accepted")
    BY <1>1, <1>4, <2>3 DEF WriteTake
  <2>5. /\ verdictBar[r] = "admitted"
        /\ verdictBar' = [verdictBar EXCEPT ![r] = "accepted"]
    BY <1>2, <2>4, VerdictMoves DEF Verdict, Steps, Answers
  <2> HIDE DEF t
  <2>6. ~Atomic!OnFile(m, sent[r].nonce)
    BY <1>4, OnFileIsRecorded
  <2>7. Atomic!Accept(r)
    BY <1>1, <1>2, <2>1, <2>2, <2>4, <2>5, <2>6 DEF Atomic!Accept, Atomic!Says, session
  <2> QED
    BY <2>7 DEF Atomic!Next, Atomic!Answer
<1> QED
  BY <1>3, <1>4

LEMMA DieAnswers ==
  ASSUME IntakeInv, NEW r \in Request, Die(r)
  PROVE  Atomic!Next
<1>1. /\ step[r] \in Running /\ Goes(r, "dead") /\ "dead" \in Steps
      /\ UNCHANGED <<session, rows, sent, now>>
  BY DEF Die, Steps
<1>2. /\ verdictBar[r] \in Atomic!Unanswered
      /\ verdictBar' = [verdictBar EXCEPT ![r] = "dead"]
  BY <1>1, VerdictMoves DEF Verdict, Running, Atomic!Unanswered
<1> QED
  BY <1>1, <1>2 DEF Atomic!Next, Atomic!Answer, Atomic!Drop, Atomic!Says, session, rows

(* The boundary finds out who is absent by the instants on file.           *)
LEMMA TurnOverShuts ==
  ASSUME IntakeInv, TurnOver PROVE Atomic!Shut
<1>1. {m \in Member : seat[m] = "expected" /\ ~OnTime(m)}
        = {m \in Member : seat[m] = "expected" /\ takes[m] = <<>>}
  BY OnTimeIfFiled
<1>2. verdictBar' = verdictBar
  BY DEF TurnOver, requests, verdictBar
<1> QED
  BY <1>1, <1>2 DEF TurnOver, RecordAbsences, Atomic!Shut, rows, requests

LEMMA StepAnswers ==
  ASSUME IntakeInv, [Next]_vars
  PROVE  Atomic!Next \/ UNCHANGED Atomic!vars
<1>1. CASE \E r \in Request : Submit(r) \/ Die(r)
  BY <1>1, LookUpAnswers, ChecksAnswer, LocksAnswer, WriteAnswers, DieAnswers DEF Submit
<1>2. CASE TurnOver
  BY <1>2, TurnOverShuts DEF Atomic!Next
<1>3. ASSUME NEW m \in Member, Excuse(m) PROVE Atomic!Next
  BY <1>3 DEF Excuse, Atomic!Next, Atomic!Excuse, rows, requests, verdictBar
<1>4. CASE Tick
  BY <1>4 DEF Tick, Atomic!Next, Atomic!Tick, session, rows, requests, verdictBar
<1>5. CASE UNCHANGED vars
  BY <1>5 DEF vars, session, rows, requests, verdictBar, Atomic!vars
<1> QED
  BY <1>1, <1>2, <1>3, <1>4, <1>5 DEF Next

LEMMA InitAnswers == Init => Atomic!Init
<1> SUFFICES ASSUME Init PROVE Atomic!Init
  OBVIOUS
<1>1. verdictBar = [r \in Request |-> "pending"]
  BY DEF Init, verdictBar, Verdict
<1> QED
  BY <1>1 DEF Init, Atomic!Init, Take

(* Submission is linearizable: however statements of overlapping requests, *)
(* the boundary, excuses and deaths interleave, every answer is the one an *)
(* atomic intake could have given at that instant.                         *)
THEOREM IntakeIsAtomic == Spec => ImplementsAtomicIntake
<1>1. IntakeInv /\ [Next]_vars => [Atomic!Next]_(Atomic!vars)
  BY StepAnswers
<1> QED
  BY <1>1, InitAnswers, IntakeAgrees, PTL DEF Spec, ImplementsAtomicIntake, Atomic!Spec
===============================================================================
