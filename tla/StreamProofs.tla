------------------------------ MODULE StreamProofs ------------------------------
(***************************************************************************)
(* What holds of the scheduler's copy however many events commit, frames   *)
(* are lost, calls overlap and connections drop.                           *)
(***************************************************************************)
EXTENDS StreamConsumer, SequenceTheorems, FiniteSetTheorems, TLAPS

-------------------------------------------------------------------------------
(* Frames.                                                                 *)

LEMMA Frames ==
  ASSUME head \in Nat
  PROVE  /\ Resync \in Sendable /\ Closed \in Sendable
         /\ \A n \in Nat : Keepalive(n) \in Sendable
         /\ \A n \in 0 .. head : Event(n) \in Sendable
         /\ Sendable \subseteq Frame
  BY DEF Sendable, Frame, Resync, Closed, Keepalive, Event

(* As the head moves on, what could be sent still can.                     *)
LEMMA SendableGrows ==
  ASSUME head \in Nat, head' \in Nat, head <= head'
  PROVE  /\ Sendable \subseteq Sendable'
         /\ \A s \in Seq(Sendable) : s \in Seq(Sendable')
<1>1. Sendable \subseteq Sendable'
  BY DEF Sendable, Frame
<1> QED
  BY <1>1, SeqMonotonic

LEMMA BatchSendable ==
  ASSUME head \in Nat, sent \in Nat, NEW k \in Nat, sent + k <= head
  PROVE  Batch(k) \in Seq(Sendable)
<1>1. \A i \in 1 .. k : Event(sent + i) \in Sendable
  BY Frames
<1>2. Batch(k) \in [1 .. k -> Sendable]
  BY <1>1 DEF Batch
<1> QED
  BY <1>2, SeqDef

LEMMA ServableCount ==
  ASSUME head \in Nat, sent \in 0 .. head, retained \subseteq 1 .. head
  PROVE  Cardinality(Servable) \in Nat /\ sent + Cardinality(Servable) <= head
<1>1. Servable \in SUBSET ((sent + 1) .. head)
  <2> SUFFICES ASSUME NEW n \in Servable
               PROVE  n \in (sent + 1) .. head
    OBVIOUS
  <2>1. n \in retained /\ n > sent
    BY DEF Servable, Above
  <2>2. n \in 1 .. head
    BY <2>1
  <2> QED
    BY <2>1, <2>2
<1>2. /\ IsFiniteSet((sent + 1) .. head)
      /\ Cardinality((sent + 1) .. head) = head - sent
  <2> DEFINE a == sent + 1
  <2>1. a \in Int /\ head \in Int /\ a - 1 = sent /\ a <= head + 1
    OBVIOUS
  <2> HIDE DEF a
  <2>2. /\ IsFiniteSet(a .. head)
        /\ Cardinality(a .. head) = IF a > head THEN 0 ELSE head - a + 1
    BY <2>1, FS_Interval
  <2>3. (IF a > head THEN 0 ELSE head - a + 1) = head - sent
    BY <2>1
  <2>4. Cardinality(a .. head) = head - sent
    BY <2>2, <2>3
  <2> QED
    BY <2>2, <2>4 DEF a
<1>3. IsFiniteSet(Servable) /\ Cardinality(Servable) <= head - sent
  BY <1>1, <1>2, FS_Subset
<1>4. Cardinality(Servable) \in Nat
  BY <1>3, FS_CardinalityType
<1> QED
  BY <1>3, <1>4

(* What the API and the network do to the frames in flight.                *)
LEMMA EndSendable ==
  ASSUME head \in Nat, wire \in Seq(Sendable), NEW fs \in Seq(Sendable), End(fs)
  PROVE  wire' \in Seq(Sendable) /\ serving' = "ended" /\ sent' = sent
<1>1. Append(fs, Closed) \in Seq(Sendable)
  BY Frames, AppendProperties
<1> QED
  BY <1>1, ConcatProperties DEF End

LEMMA PrefixSendable ==
  ASSUME wire \in Seq(Sendable), NEW k \in 0 .. Len(wire)
  PROVE  SubSeq(wire, 1, k) \in Seq(Sendable)
<1>1. Len(wire) \in Nat /\ \A i \in 1 .. k : wire[i] \in Sendable
  BY LenProperties, ElementOfSeq
<1> QED
  BY <1>1, SubSeqProperties

(* The server's side of the invariant.                                     *)
ServerInv ==
  /\ StreamTypeOK
  /\ sent <= head /\ wire \in Seq(Sendable)

(* All but a commit: the head stays, and the frames in flight name nothing *)
(* above it.                                                               *)
LEMMA ServerMoves ==
  ASSUME ServerInv, ServerStep \/ StreamFault
  PROVE  /\ head' = head /\ wire' \in Seq(Sendable)
         /\ sent' \in 0 .. head /\ retained' \subseteq 1 .. head
         /\ faults' \in Nat
         /\ serving' \in {"none", "checking", "polling", "quiet", "ended", "stalled"}
<1> USE DEF ServerInv, StreamTypeOK, log, server
<1>0. /\ head \in Nat /\ sent \in 0 .. head /\ retained \subseteq 1 .. head
      /\ wire \in Seq(Sendable) /\ faults \in Nat
      /\ <<>> \in Seq(Sendable)
  BY EmptySeq
<1>1. CASE CheckCursor
  <2>1. <<Resync>> \in Seq(Sendable)
    BY <1>0, Frames
  <2>2. UNCHANGED <<log, faults>>
    BY <1>1 DEF CheckCursor
  <2>3. CASE CannotServe(sent)
    <3>1. wire' \in Seq(Sendable) /\ serving' = "ended" /\ sent' = sent
      BY <1>0, <1>1, <2>1, <2>3, EndSendable DEF CheckCursor
    <3> QED
      BY <1>0, <2>2, <3>1
  <2>4. CASE ~CannotServe(sent)
    BY <1>0, <1>1, <2>2, <2>4 DEF CheckCursor
  <2> QED
    BY <2>3, <2>4
<1>2. CASE PollEvents
  <2>1. /\ Cardinality(Servable) \in Nat /\ sent + Cardinality(Servable) <= head
        /\ Batch(Cardinality(Servable)) \in Seq(Sendable)
    BY <1>0, ServableCount, BatchSendable
  <2>2. Append(Batch(Cardinality(Servable)), Resync) \in Seq(Sendable)
    BY <1>0, <2>1, Frames, AppendProperties
  <2>3. wire \o Batch(Cardinality(Servable)) \in Seq(Sendable)
    BY <1>0, <2>1, ConcatProperties
  <2>4. UNCHANGED <<log, faults>>
    BY <1>2 DEF PollEvents
  <2>5. CASE Servable = Above(sent)
    <3>1. /\ wire' = wire \o Batch(Cardinality(Servable))
          /\ sent' = sent + Cardinality(Servable) /\ serving' = serving
      BY <1>2, <2>5 DEF PollEvents
    <3> QED
      BY <1>0, <2>1, <2>3, <2>4, <3>1
  <2>6. CASE Servable # Above(sent)
    <3>1. End(Append(Batch(Cardinality(Servable)), Resync))
      BY <1>2, <2>6 DEF PollEvents
    <3>2. wire' \in Seq(Sendable) /\ serving' = "ended" /\ sent' = sent
      BY <1>0, <2>2, <3>1, EndSendable
    <3> QED
      BY <1>0, <2>4, <3>2
  <2> QED
    BY <2>5, <2>6
<1>3. CASE PollNothing
  BY <1>0, <1>3 DEF PollNothing
<1>4. CASE SendKeepalive
  <2>1. Append(wire, Keepalive(head)) \in Seq(Sendable)
    BY <1>0, Frames, AppendProperties
  <2> QED
    BY <1>0, <1>4, <2>1 DEF SendKeepalive
<1>5. CASE Prune
  BY <1>0, <1>5 DEF Prune, Fault
<1>6. CASE Overflow
  <2>1. PICK k \in {n - sent - 1 : n \in Servable} : End(Append(Batch(k), Resync))
    BY <1>6 DEF Overflow
  <2>2. k \in Nat /\ sent + k <= head
    <3>1. PICK n \in Servable : k = n - sent - 1
      BY <2>1
    <3>2. n \in 1 .. head /\ n > sent
      BY <1>0 DEF Servable, Above
    <3> QED
      BY <1>0, <3>1, <3>2
  <2>3. Append(Batch(k), Resync) \in Seq(Sendable)
    BY <1>0, <2>2, BatchSendable, Frames, AppendProperties
  <2>4. wire' \in Seq(Sendable) /\ serving' = "ended" /\ sent' = sent
    BY <1>0, <2>1, <2>3, EndSendable
  <2> QED
    BY <1>0, <1>6, <2>4 DEF Overflow, Fault
<1>7. CASE Unavailable
  <2>1. <<Resync>> \in Seq(Sendable)
    BY <1>0, Frames
  <2>2. wire' \in Seq(Sendable) /\ serving' = "ended" /\ sent' = sent
    BY <1>0, <1>7, <2>1, EndSendable DEF Unavailable
  <2> QED
    BY <1>0, <1>7, <2>2 DEF Unavailable, Fault
<1>8. CASE Break
  <2>1. PICK k \in 0 .. Len(wire) : wire' = Append(SubSeq(wire, 1, k), Closed)
    BY <1>8 DEF Break
  <2>2. wire' \in Seq(Sendable)
    BY <1>0, <2>1, PrefixSendable, Frames, AppendProperties
  <2> QED
    BY <1>0, <1>8, <2>2 DEF Break, Fault
<1>9. CASE Stall
  BY <1>0, <1>9, PrefixSendable DEF Stall, Fault
<1>10. CASE LoseFrame
  <2>1. PICK i \in DOMAIN wire :
           wire' = SubSeq(wire, 1, i - 1) \o SubSeq(wire, i + 1, Len(wire))
    BY <1>10 DEF LoseFrame
  <2>2. i \in 1 .. Len(wire) /\ Len(wire) \in Nat
    BY <1>0, <2>1, LenProperties
  <2>3. SubSeq(wire, 1, i - 1) \in Seq(Sendable)
    BY <1>0, <2>2, PrefixSendable
  <2>4. SubSeq(wire, i + 1, Len(wire)) \in Seq(Sendable)
    <3>1. \A j \in i + 1 .. Len(wire) : wire[j] \in Sendable
      BY <1>0, <2>2, ElementOfSeq
    <3> QED
      BY <2>2, <3>1, SubSeqProperties
  <2>5. wire' \in Seq(Sendable)
    BY <2>1, <2>3, <2>4, ConcatProperties
  <2> QED
    BY <1>0, <1>10, <2>5 DEF LoseFrame, Fault
<1> QED
  BY <1>1, <1>2, <1>3, <1>4, <1>5, <1>6, <1>7, <1>8, <1>9, <1>10
  DEF ServerStep, StreamFault

LEMMA ServerKeeps ==
  ASSUME ServerInv, StreamNext
  PROVE  ServerInv' /\ head' \in Nat /\ head <= head'
<1>0. head \in Nat
  BY DEF ServerInv, StreamTypeOK
<1>1. CASE Commit
  <2>1. head' = head + 1 /\ wire' = wire /\ wire \in Seq(Sendable)
    BY <1>1 DEF Commit, ServerInv, server
  <2>2. wire' \in Seq(Sendable')
    BY <1>0, <2>1, SendableGrows
  <2> QED
    BY <1>0, <1>1, <2>1, <2>2 DEF Commit, ServerInv, StreamTypeOK, server
<1>2. CASE ServerStep \/ StreamFault
  <2>1. /\ head' = head /\ wire' \in Seq(Sendable)
        /\ sent' \in 0 .. head /\ retained' \subseteq 1 .. head
        /\ faults' \in Nat
        /\ serving' \in {"none", "checking", "polling", "quiet", "ended", "stalled"}
    BY <1>2, ServerMoves
  <2>2. Sendable' = Sendable
    BY <2>1 DEF Sendable
  <2>3. wire' \in Seq(Frame)
    BY <1>0, <2>1, Frames, SeqMonotonic
  <2> QED
    BY <1>0, <2>1, <2>2, <2>3 DEF ServerInv, StreamTypeOK
<1> QED
  BY <1>1, <1>2 DEF StreamNext

-------------------------------------------------------------------------------
(* The shape of the scheduler's state.                                     *)

(* A call that may be added.                                               *)
Fits(x) == /\ x \in Task /\ x.gen <= generation' /\ x.cursor <= head /\ x.event <= head
           /\ x.replay \in Seq(Sendable)

LEMMA ShapeKept ==
  ASSUME TypeOK, FramesInv, CallsInv, UNCHANGED log,
         serving' \in {"none", "checking", "polling", "quiet", "ended", "stalled"},
         sent' \in 0 .. head, faults' \in Nat,
         wire' \in Seq(Sendable), held' \in Seq(Sendable),
         current' \in BOOLEAN, generation' \in Nat, generation <= generation',
         cursor' \in 0 .. head, lastApplied' \in 0 .. head,
         loop' \in {"off", "waiting", "rebuilding"},
         socket' \in 0 .. generation', copy' \subseteq 1 .. head,
         \A x \in tasks' : x \in tasks \/ Fits(x)
  PROVE  TypeOK' /\ FramesInv' /\ CallsInv'
<1>1. head' = head /\ retained' = retained /\ head \in Nat
  BY DEF log, TypeOK, StreamTypeOK
<1>2. Sendable' = Sendable
  BY <1>1 DEF Sendable
<1>3. wire' \in Seq(Frame) /\ held' \in Seq(Frame)
  BY <1>1, Frames, SeqMonotonic
<1>4. \A x \in tasks' : /\ x \in Task /\ x.gen <= generation' /\ x.cursor <= head
                        /\ x.event <= head /\ x.replay \in Seq(Sendable)
  <2> SUFFICES ASSUME NEW x \in tasks'
               PROVE  /\ x \in Task /\ x.gen <= generation' /\ x.cursor <= head
                      /\ x.event <= head /\ x.replay \in Seq(Sendable)
    OBVIOUS
  <2>1. CASE x \in tasks
    <3>1. x \in Task /\ x.gen <= generation /\ x.gen \in Nat /\ generation \in Nat
      BY <2>1 DEF CallsInv, TypeOK, Task
    <3> QED
      BY <2>1, <3>1 DEF CallsInv
  <2>2. CASE Fits(x)
    BY <2>2 DEF Fits
  <2> QED
    BY <2>1, <2>2
<1>5. tasks' \subseteq Task
  BY <1>4
<1>6. CallsInv'
  BY <1>1, <1>2, <1>4 DEF CallsInv
<1>7. FramesInv'
  BY <1>1, <1>2 DEF FramesInv
<1> QED
  BY <1>1, <1>3, <1>5, <1>6, <1>7 DEF TypeOK, StreamTypeOK

-------------------------------------------------------------------------------
(* Steps after which no rebuild that was in flight may take effect.        *)

LEMMA DoubtKeeps ==
  ASSUME TypeOK, CallsInv, OwnerInv, CopyInv,
         current' = FALSE, generation' = generation + 1, copy' = copy,
         NEW u, u.gen = generation + 1, u.pc = "read",
         tasks' \subseteq tasks \cup {u}
  PROVE  OwnerInv' /\ CopyInv'
<1>1. generation \in Nat
  BY DEF TypeOK
<1>2. \A t \in tasks : t.gen \in Nat /\ t.gen <= generation
  BY DEF TypeOK, CallsInv, Task
<1>3. \A t \in tasks : t.gen # generation'
  BY <1>1, <1>2
<1>4. OwnerInv'
  BY <1>1, <1>2, <1>3 DEF OwnerInv, Overtaken
<1>5. \A t \in tasks' : CallFits(t)'
  <2> SUFFICES ASSUME NEW t \in tasks' PROVE CallFits(t)'
    OBVIOUS
  <2>1. CASE t \in tasks
    BY <1>3, <2>1 DEF CopyInv, CallFits, Overtaken
  <2>2. CASE t = u
    BY <2>2 DEF CallFits
  <2> QED
    BY <2>1, <2>2
<1>6. CopyIsComplete'
  BY DEF CopyInv, CopyIsComplete
<1> QED
  BY <1>4, <1>5, <1>6 DEF CopyInv

(* Steps after which there are fewer calls, and no copy is newly current.  *)
LEMMA FewerKeeps ==
  ASSUME TypeOK, OwnerInv, CopyInv, tasks' \subseteq tasks,
         current' => current, generation' = generation, copy' = copy,
         lastApplied' = lastApplied, cursor' = cursor
  PROVE  OwnerInv' /\ CopyInv'
<1>1. OwnerInv'
  BY DEF OwnerInv, Overtaken
<1>2. \A t \in tasks' : CallFits(t)'
  BY DEF CopyInv, CallFits, Overtaken
<1>3. CopyIsComplete'
  BY DEF CopyInv, CopyIsComplete
<1> QED
  BY <1>1, <1>2, <1>3 DEF CopyInv

-------------------------------------------------------------------------------
(* Steps.                                                                  *)

(* What every step is shown to do.                                         *)
Safe == StreamInv' /\ copy \subseteq copy' /\ cursor' >= cursor

(* What a step leaves well-formed beside the calls.                        *)
Formed ==
  /\ UNCHANGED log
  /\ serving' \in {"none", "checking", "polling", "quiet", "ended", "stalled"}
  /\ sent' \in 0 .. head /\ faults' \in Nat
  /\ wire' \in Seq(Sendable) /\ held' \in Seq(Sendable)
  /\ loop' \in {"off", "waiting", "rebuilding"}
  /\ socket' \in 0 .. generation'

(* What the invariant says of the variables beside the calls.              *)
LEMMA StateFacts ==
  ASSUME StreamInv
  PROVE  /\ head \in Nat /\ generation \in Nat /\ current \in BOOLEAN
         /\ cursor \in 0 .. head /\ lastApplied \in 0 .. head
         /\ sent \in 0 .. head /\ faults \in Nat
         /\ serving \in {"none", "checking", "polling", "quiet", "ended", "stalled"}
         /\ wire \in Seq(Sendable) /\ held \in Seq(Sendable)
         /\ <<>> \in Seq(Sendable)
         /\ loop \in {"off", "waiting", "rebuilding"}
         /\ socket \in 0 .. generation /\ copy \subseteq 1 .. head
BY EmptySeq DEF StreamInv, TypeOK, StreamTypeOK, FramesInv

LEMMA CallFacts ==
  ASSUME StreamInv, NEW t \in tasks
  PROVE  /\ t \in Task /\ t.who \in Who /\ t.sock \in Nat
         /\ t.pc \in InRebuild \cup {"replay", "applying"}
         /\ t.gen \in 0 .. generation /\ t.cursor \in 0 .. head /\ t.event \in 0 .. head
         /\ t.replay \in Seq(Sendable) /\ t.replay \in Seq(Frame)
<1>1. t \in Task
  BY DEF StreamInv, TypeOK
<1> QED
  BY <1>1 DEF StreamInv, CallsInv, Task

LEMMA CalledFacts ==
  ASSUME StreamInv, NEW who \in Who, NEW pc \in InRebuild \cup {"replay", "applying"}
  PROVE  /\ Called(who, pc) \in Task
         /\ Called(who, pc).gen = generation + 1 /\ Called(who, pc).pc = pc
         /\ Called(who, pc).cursor = 0 /\ Called(who, pc).event = 0
         /\ Called(who, pc).replay = <<>>
<1>1. generation \in Nat /\ socket \in Nat /\ <<>> \in Seq(Frame)
  BY StateFacts, EmptySeq
<1> QED
  BY <1>1 DEF Called, Task

(* A step that casts doubt: nothing is current, a new generation begins.   *)
LEMMA DoubtSafe ==
  ASSUME StreamInv, Formed, current' = FALSE, generation' = generation + 1,
         UNCHANGED <<cursor, lastApplied, copy>>,
         NEW u, u \in Task, u.gen = generation + 1, u.pc = "read", u.cursor \in 0 .. head,
         u.event \in 0 .. head, u.replay = <<>>, tasks' \subseteq tasks \cup {u}
  PROVE  Safe
<1>0. /\ head \in Nat /\ generation \in Nat /\ <<>> \in Seq(Sendable)
      /\ cursor \in 0 .. head /\ lastApplied \in 0 .. head /\ copy \subseteq 1 .. head
  BY StateFacts
<1>1. Fits(u)
  BY <1>0 DEF Fits
<1>2. \A x \in tasks' : x \in tasks \/ Fits(x)
  BY <1>1
<1>3. TypeOK' /\ FramesInv' /\ CallsInv'
  <2>1. current' \in BOOLEAN
    OBVIOUS
  <2>2. generation' \in Nat /\ generation <= generation'
    BY <1>0
  <2>3. /\ cursor' \in 0 .. head /\ lastApplied' \in 0 .. head
        /\ copy' \subseteq 1 .. head
    BY <1>0
  <2>4. TypeOK /\ FramesInv /\ CallsInv
    BY DEF StreamInv
  <2> QED
    BY <1>2, <2>1, <2>2, <2>3, <2>4, ShapeKept DEF Formed
<1>4. OwnerInv' /\ CopyInv'
  BY DoubtKeeps DEF StreamInv
<1> QED
  BY <1>0, <1>3, <1>4 DEF Safe, StreamInv

(* A step that only ends calls.                                            *)
LEMMA FewerSafe ==
  ASSUME StreamInv, Formed, current' \in BOOLEAN, current' => current,
         UNCHANGED <<generation, cursor, lastApplied, copy>>, tasks' \subseteq tasks
  PROVE  Safe
<1>0. /\ head \in Nat /\ generation \in Nat
      /\ cursor \in 0 .. head /\ lastApplied \in 0 .. head /\ copy \subseteq 1 .. head
  BY StateFacts
<1>1. TypeOK' /\ FramesInv' /\ CallsInv'
  BY <1>0, ShapeKept DEF StreamInv, Formed
<1>2. OwnerInv' /\ CopyInv'
  BY FewerKeeps DEF StreamInv
<1> QED
  BY <1>0, <1>1, <1>2 DEF Safe, StreamInv

(* A call that goes on keeps its place: who owns the rebuild is the same.  *)
LEMMA OwnerKeeps ==
  ASSUME OwnerInv, NEW t \in tasks, NEW u, u.gen = t.gen,
         u.pc \in InRebuild => t.pc \in InRebuild,
         generation' = generation, current' => current,
         tasks' \subseteq (tasks \ {t}) \cup {u}
  PROVE  OwnerInv'
<1> SUFFICES ASSUME NEW x \in tasks', x.pc \in InRebuild
             PROVE  /\ x.gen = generation => ~current'
                    /\ \A y \in tasks' : y.pc \in InRebuild /\ y.gen = x.gen => y = x
  BY DEF OwnerInv, Overtaken
<1>1. x.gen = generation => ~current'
  <2>1. CASE x = u
    BY <2>1 DEF OwnerInv, Overtaken
  <2>2. CASE x \in tasks
    BY <2>2 DEF OwnerInv, Overtaken
  <2> QED
    BY <2>1, <2>2
<1>2. ASSUME NEW y \in tasks', y.pc \in InRebuild, y.gen = x.gen PROVE y = x
  <2>1. CASE x = u /\ y \in tasks \ {t}
    BY <1>2, <2>1 DEF OwnerInv
  <2>2. CASE y = u /\ x \in tasks \ {t}
    BY <1>2, <2>2 DEF OwnerInv
  <2>3. CASE x \in tasks /\ y \in tasks
    BY <1>2, <2>3 DEF OwnerInv
  <2> QED
    BY <2>1, <2>2, <2>3
<1> QED
  BY <1>1, <1>2

-------------------------------------------------------------------------------
(* The API's steps, and those of the network.                              *)

LEMMA StreamMovesSafe ==
  ASSUME StreamInv, StreamMoves
  PROVE  Safe
<1>1. /\ UNCHANGED <<current, generation, cursor, lastApplied, held>>
      /\ UNCHANGED <<tasks, loop, socket, copy>>
  BY DEF StreamMoves, client
<1>2. ServerInv
  BY DEF ServerInv, StreamInv, TypeOK, FramesInv
<1>3. ServerInv' /\ head' \in Nat /\ head <= head' /\ head \in Nat
  BY <1>2, ServerKeeps, StateFacts DEF StreamMoves
<1>4. \A q \in Seq(Sendable) : q \in Seq(Sendable')
  BY <1>3, SendableGrows
<1>5. TypeOK'
  <2>1. cursor <= head' /\ lastApplied <= head' /\ copy \subseteq 1 .. head'
    BY <1>3, StateFacts
  <2> QED
    BY <1>1, <1>3, <2>1 DEF StreamInv, TypeOK, ServerInv
<1>6. FramesInv'
  BY <1>1, <1>3, <1>4 DEF StreamInv, FramesInv, ServerInv
<1>7. CallsInv'
  <2> SUFFICES ASSUME NEW t \in tasks
               PROVE  /\ t.gen <= generation /\ t.cursor <= head' /\ t.event <= head'
                      /\ t.replay \in Seq(Sendable')
    BY <1>1 DEF CallsInv
  <2> QED
    BY <1>3, <1>4, CallFacts
<1>8. OwnerInv'
  BY <1>1 DEF StreamInv, OwnerInv, Overtaken
<1>9. CopyInv'
  BY <1>1 DEF StreamInv, CopyInv, CopyIsComplete, CallFits, Overtaken
<1> QED
  BY <1>1, <1>5, <1>6, <1>7, <1>8, <1>9, StateFacts DEF Safe, StreamInv

-------------------------------------------------------------------------------
(* Steps that cast doubt, and steps that end a call.                       *)

(* What is left of the frames in flight, held or replayed.                 *)
LEMMA TailSendable ==
  ASSUME NEW q \in Seq(Sendable), q # <<>>
  PROVE  Head(q) \in Sendable /\ Tail(q) \in Seq(Sendable)
BY HeadTailProperties

(* A socket that is closed or left as it is.                               *)
LEMMA SocketKept ==
  ASSUME StreamInv, CloseStream \/ UNCHANGED <<socket, server>>
  PROVE  /\ serving' \in {"none", "checking", "polling", "quiet", "ended", "stalled"}
         /\ sent' \in 0 .. head /\ wire' \in Seq(Sendable)
         /\ socket' = 0 \/ socket' = socket
<1>1. CASE CloseStream
  <2>1. serving' = "none" /\ sent' = 0 /\ wire' = <<>> /\ socket' = 0
    BY <1>1 DEF CloseStream
  <2>2. head \in Nat /\ <<>> \in Seq(Sendable)
    BY StateFacts
  <2> QED
    BY <2>1, <2>2
<1>2. CASE UNCHANGED <<socket, server>>
  BY <1>2, StateFacts DEF server
<1> QED
  BY <1>1, <1>2

LEMMA DroppedSafe ==
  ASSUME StreamInv, Dropped, UNCHANGED <<log, copy>>, tasks' \subseteq tasks,
         faults' \in Nat, \/ CloseStream
                         \/ UNCHANGED <<socket, server>>
  PROVE  Safe
<1>1. Formed
  <2>1. socket' \in 0 .. generation'
    <3>1. generation \in Nat /\ socket \in 0 .. generation
      BY StateFacts
    <3>2. generation' = generation + 1 /\ (socket' = 0 \/ socket' = socket)
      BY DEF CloseStream, Dropped
    <3> QED
      BY <3>1, <3>2
  <2>2. /\ serving' \in {"none", "checking", "polling", "quiet", "ended", "stalled"}
        /\ sent' \in 0 .. head /\ wire' \in Seq(Sendable)
    BY SocketKept
  <2>3. held' \in Seq(Sendable) /\ loop' \in {"off", "waiting", "rebuilding"}
    BY StateFacts DEF Dropped, StartLoop
  <2> QED
    BY <2>1, <2>2, <2>3 DEF Formed
<1>2. PICK u : u = Called("start", "read")
  OBVIOUS
<1>3. /\ u \in Task /\ u.gen = generation + 1 /\ u.pc = "read"
      /\ u.cursor \in 0 .. head /\ u.event \in 0 .. head /\ u.replay = <<>>
  BY <1>2, CalledFacts, StateFacts DEF Who, InRebuild
<1>4. /\ current' = FALSE /\ generation' = generation + 1
      /\ UNCHANGED <<cursor, lastApplied, copy>>
  BY DEF Dropped
<1> QED
  BY <1>1, <1>3, <1>4, DoubtSafe

LEMMA HeldWithoutSendable ==
  ASSUME StreamInv, NEW t \in tasks
  PROVE  HeldWithout(t) \in Seq(Sendable)
BY StateFacts DEF HeldWithout

LEMMA YieldSafe ==
  ASSUME StreamInv, NEW t \in tasks, Yield(t), UNCHANGED <<log, copy>>, faults' \in Nat,
         serving' \in {"none", "checking", "polling", "quiet", "ended", "stalled"},
         sent' \in 0 .. head, wire' \in Seq(Sendable), socket' = 0 \/ socket' = socket
  PROVE  Safe
<1>1. Formed
  <2>1. socket' \in 0 .. generation'
    BY StateFacts DEF Yield
  <2>2. held' \in Seq(Sendable) /\ loop' \in {"off", "waiting", "rebuilding"}
    BY StateFacts, HeldWithoutSendable DEF Yield, Done, LoopAfter
  <2> QED
    BY <2>1, <2>2 DEF Formed
<1>2. /\ current' = current /\ current \in BOOLEAN /\ tasks' \subseteq tasks
      /\ UNCHANGED <<generation, cursor, lastApplied, copy>>
  BY StateFacts DEF Yield, Done
<1> QED
  BY <1>1, <1>2, FewerSafe

LEMMA ThrowSafe ==
  ASSUME StreamInv, NEW t \in tasks, Throw(t), UNCHANGED <<log, copy>>,
         faults' \in Nat, \/ CloseStream
                         \/ UNCHANGED <<socket, server>>
  PROVE  Safe
<1>1. CASE Drops(t)
  BY <1>1, DroppedSafe DEF Throw
<1>2. CASE ~Drops(t)
  <2>1. Formed
    <3>1. socket' \in 0 .. generation'
      <4>1. generation \in Nat /\ socket \in 0 .. generation
        BY StateFacts
      <4>2. generation' = generation /\ (socket' = 0 \/ socket' = socket)
        BY <1>2 DEF CloseStream, Throw
      <4> QED
        BY <4>1, <4>2
    <3>2. /\ serving' \in {"none", "checking", "polling", "quiet", "ended", "stalled"}
          /\ sent' \in 0 .. head /\ wire' \in Seq(Sendable)
      BY SocketKept
    <3>3. held' \in Seq(Sendable) /\ loop' \in {"off", "waiting", "rebuilding"}
      BY <1>2, StateFacts, HeldWithoutSendable DEF Throw, StartLoop
    <3> QED
      BY <3>1, <3>2, <3>3 DEF Formed
  <2>2. /\ current' = FALSE /\ tasks' \subseteq tasks
        /\ UNCHANGED <<generation, cursor, lastApplied, copy>>
    BY <1>2 DEF Throw
  <2>3. current' \in BOOLEAN /\ (current' => current)
    BY <2>2
  <2> QED
    BY <2>1, <2>2, <2>3, FewerSafe
<1> QED
  BY <1>1, <1>2

-------------------------------------------------------------------------------
(* Steps that carry a call on.                                             *)

LEMMA FormedSame ==
  ASSUME StreamInv, UNCHANGED <<log, server, faults, generation, socket>>,
         held' \in Seq(Sendable), loop' \in {"off", "waiting", "rebuilding"}
  PROVE  Formed
BY StateFacts DEF Formed, server

(* The types, when one call changes or begins.                             *)
LEMMA ShapeGrows ==
  ASSUME StreamInv, Formed, current' \in BOOLEAN, generation' = generation,
         cursor' \in 0 .. head, lastApplied' \in 0 .. head, copy' \subseteq 1 .. head,
         NEW u, Fits(u), tasks' \subseteq tasks \cup {u}
  PROVE  TypeOK' /\ FramesInv' /\ CallsInv'
<1>1. TypeOK /\ FramesInv /\ CallsInv
  BY DEF StreamInv
<1>2. generation' \in Nat /\ generation <= generation'
  BY StateFacts
<1>3. \A x \in tasks' : x \in tasks \/ Fits(x)
  OBVIOUS
<1> QED
  BY <1>1, <1>2, <1>3, ShapeKept DEF Formed

(* Who else could be in a rebuild that may still take effect?  Nobody.     *)
LEMMA OneOwner ==
  ASSUME StreamInv, NEW t \in tasks, t.pc \in InRebuild, ~Overtaken(t)
  PROVE  /\ ~current
         /\ \A x \in tasks \ {t} : x.pc \in InRebuild => Overtaken(x)
BY DEF StreamInv, OwnerInv, Overtaken

LEMMA SnapshotSafe ==
  ASSUME StreamInv, NEW t \in tasks, Snapshot(t)
  PROVE  Safe
<1> PICK u : u = [t EXCEPT !.pc = "answered", !.cursor = head]
  OBVIOUS
<1>0. /\ UNCHANGED <<current, generation, cursor, lastApplied, held, copy, loop>>
      /\ UNCHANGED <<log, server, faults, socket>>
      /\ tasks' = (tasks \ {t}) \cup {u} /\ t.pc = "read"
  BY DEF Snapshot, Becomes, client
<1>a. /\ t \in Task /\ t.gen \in 0 .. generation /\ t.event \in 0 .. head
      /\ t.replay \in Seq(Sendable) /\ head \in Nat /\ generation \in Nat
  BY CallFacts, StateFacts
<1>1. /\ u \in Task /\ u.gen = t.gen /\ u.pc = "answered" /\ u.cursor = head
      /\ u.event = t.event /\ u.replay = t.replay
  BY <1>a DEF Task, InRebuild
<1>2. Fits(u)
  BY <1>0, <1>1, <1>a DEF Fits
<1>3. Formed
  BY <1>0, FormedSame, StateFacts
<1>4. TypeOK' /\ FramesInv' /\ CallsInv'
  BY <1>0, <1>2, <1>3, ShapeGrows, StateFacts
<1>5. OwnerInv'
  BY <1>0, <1>1, OwnerKeeps DEF StreamInv, InRebuild
<1>6. CopyIsComplete'
  BY <1>0 DEF StreamInv, CopyInv, CopyIsComplete
<1>7. CallFits(u)'
  <2>1. copy \subseteq 1 .. head /\ cursor <= head
    BY StateFacts
  <2> QED
    BY <1>0, <1>1, <2>1 DEF CallFits
<1>8. \A x \in tasks : CallFits(x)'
  BY <1>0 DEF StreamInv, CopyInv, CallFits, Overtaken
<1>9. CopyInv'
  BY <1>0, <1>6, <1>7, <1>8 DEF CopyInv
<1> QED
  BY <1>0, <1>4, <1>5, <1>9, StateFacts DEF Safe, StreamInv

LEMMA AppliedSafe ==
  ASSUME StreamInv, NEW t \in tasks, Applied(t)
  PROVE  Safe
<1> DEFINE u == [t EXCEPT !.pc = "replay", !.event = 0]
<1>0. /\ UNCHANGED <<current, generation, cursor, held, copy>>
      /\ UNCHANGED <<log, server, faults, socket>>
      /\ tasks' \subseteq (tasks \ {t}) \cup {u} /\ t.pc = "applying"
      /\ lastApplied' = t.event
  BY DEF Applied, Becomes, Done
<1>a. /\ t \in Task /\ t.gen \in 0 .. generation /\ t.cursor \in 0 .. head
      /\ t.replay \in Seq(Sendable) /\ head \in Nat /\ generation \in Nat
  BY CallFacts, StateFacts
<1>1. /\ u \in Task /\ u.gen = t.gen /\ u.pc = "replay" /\ u.cursor = t.cursor
      /\ u.event = 0 /\ u.replay = t.replay
  BY <1>a DEF Task, InRebuild
<1>2. Fits(u)
  BY <1>0, <1>1, <1>a DEF Fits
<1> HIDE DEF u
<1>3. Formed
  <2>1. loop' \in {"off", "waiting", "rebuilding"}
    BY StateFacts DEF Applied, Done, LoopAfter
  <2> QED
    BY <1>0, <2>1, FormedSame, StateFacts
<1>4. TypeOK' /\ FramesInv' /\ CallsInv'
  BY <1>0, <1>2, <1>3, ShapeGrows, StateFacts, CallFacts
<1>5. OwnerInv'
  BY <1>0, <1>1, OwnerKeeps DEF StreamInv, InRebuild
<1>6. 1 .. t.event \subseteq copy
  BY <1>0 DEF StreamInv, CopyInv, CallFits
<1>7. CopyIsComplete'
  BY <1>0, <1>6 DEF StreamInv, CopyInv, CopyIsComplete
<1>8. CallFits(u)'
  BY <1>1 DEF CallFits
<1>9. ASSUME NEW x \in tasks PROVE CallFits(x)'
  <2>1. CallFits(x)
    BY DEF StreamInv, CopyInv
  <2>2. ASSUME x.pc = "opening", ~Overtaken(x) PROVE t.event <= x.cursor
    <3>1. 1 .. t.event \subseteq 1 .. x.cursor
      BY <1>6, <2>1, <2>2 DEF CallFits
    <3>2. t.event \in Nat /\ x.cursor \in Nat
      BY CallFacts, StateFacts
    <3> QED
      BY <3>1, <3>2
  <2> QED
    BY <1>0, <1>6, <2>1, <2>2 DEF CallFits, Overtaken
<1>10. CopyInv'
  BY <1>0, <1>7, <1>8, <1>9 DEF CopyInv
<1> QED
  BY <1>0, <1>4, <1>5, <1>10, StateFacts DEF Safe, StreamInv

LEMMA ReadReturnsSafe ==
  ASSUME StreamInv, NEW t \in tasks, ReadReturns(t)
  PROVE  Safe
<1>1. CASE Overtaken(t)
  <2>1. /\ Yield(t) /\ UNCHANGED <<socket, server>> /\ UNCHANGED <<log, copy>>
        /\ faults' = faults
    BY <1>1 DEF ReadReturns
  <2>2. faults' \in Nat
    BY <2>1, StateFacts
  <2>3. /\ serving' \in {"none", "checking", "polling", "quiet", "ended", "stalled"}
        /\ sent' \in 0 .. head /\ wire' \in Seq(Sendable)
        /\ socket' = 0 \/ socket' = socket
    BY <2>1, SocketKept
  <2> QED
    BY <2>1, <2>2, <2>3, YieldSafe
<1>2. CASE ~Overtaken(t)
  <2> DEFINE u == [t EXCEPT !.pc = "opening", !.sock = 0]
  <2>0. /\ UNCHANGED <<current, generation, held, loop, copy>>
        /\ UNCHANGED <<log, faults>>
        /\ tasks' = (tasks \ {t}) \cup {u} /\ t.pc = "answered"
        /\ cursor' = t.cursor /\ lastApplied' = t.cursor
        /\ socket' = t.gen /\ serving' = "none" /\ sent' = 0 /\ wire' = <<>>
    BY <1>2 DEF ReadReturns, Becomes
  <2>a. /\ t \in Task /\ t.gen \in 0 .. generation /\ t.cursor \in 0 .. head
        /\ t.event \in 0 .. head
        /\ t.replay \in Seq(Sendable) /\ head \in Nat /\ generation \in Nat
    BY CallFacts, StateFacts
  <2>1. /\ u \in Task /\ u.gen = t.gen /\ u.pc = "opening" /\ u.cursor = t.cursor
        /\ u.event = t.event /\ u.replay = t.replay
    BY <2>a DEF Task, InRebuild
  <2>2. Fits(u)
    BY <2>0, <2>1, <2>a DEF Fits
  <2> HIDE DEF u
  <2>3. Formed
    BY <2>0, StateFacts, CallFacts DEF Formed
  <2>4. TypeOK' /\ FramesInv' /\ CallsInv'
    BY <2>0, <2>2, <2>3, ShapeGrows, StateFacts, CallFacts
  <2>5. OwnerInv'
    BY <2>0, <2>1, OwnerKeeps DEF StreamInv, InRebuild
  <2>6. /\ ~current /\ \A x \in tasks \ {t} : x.pc \in InRebuild => Overtaken(x)
    BY <1>2, <2>0, OneOwner DEF InRebuild
  <2>7. copy \subseteq 1 .. t.cursor /\ cursor <= t.cursor
    BY <1>2, <2>0 DEF StreamInv, CopyInv, CallFits
  <2>8. CopyIsComplete'
    BY <2>0, <2>6 DEF StreamInv, CopyInv, CopyIsComplete
  <2>9. CallFits(u)'
    BY <2>0, <2>1, <2>7, CallFacts DEF CallFits, Overtaken
  <2>10. ASSUME NEW x \in tasks \ {t} PROVE CallFits(x)'
    BY <2>0, <2>6 DEF StreamInv, CopyInv, CallFits, Overtaken, InRebuild
  <2>11. CopyInv'
    BY <2>0, <2>8, <2>9, <2>10 DEF CopyInv
  <2> QED
    BY <2>0, <2>4, <2>5, <2>7, <2>11, StateFacts, CallFacts DEF Safe, StreamInv
<1> QED
  BY <1>1, <1>2

LEMMA OpensSafe ==
  ASSUME StreamInv, NEW t \in tasks, Opens(t)
  PROVE  Safe
<1>a. /\ t \in Task /\ t.gen \in 0 .. generation /\ t.cursor \in 0 .. head
      /\ t.event \in 0 .. head
      /\ t.replay \in Seq(Sendable) /\ head \in Nat /\ generation \in Nat
  BY CallFacts, StateFacts
<1>0. /\ UNCHANGED <<log, faults, socket>> /\ t.pc = "opening"
      /\ serving' = "checking" /\ sent' = t.cursor /\ wire' = <<>>
  BY DEF Opens
<1>1. /\ serving' \in {"none", "checking", "polling", "quiet", "ended", "stalled"}
      /\ sent' \in 0 .. head /\ wire' \in Seq(Sendable) /\ faults' \in Nat
  BY <1>0, <1>a, StateFacts
<1>2. CASE Overtaken(t)
  <2>1. Yield(t) /\ UNCHANGED <<log, copy>> /\ socket' = socket
    BY <1>2 DEF Opens
  <2> QED
    BY <1>1, <2>1, YieldSafe
<1>3. CASE ~Overtaken(t)
  <2> DEFINE u == [t EXCEPT !.pc = "timers", !.cursor = 0]
  <2>0. /\ UNCHANGED <<current, generation, cursor, lastApplied, held, loop>>
        /\ tasks' = (tasks \ {t}) \cup {u} /\ copy' = 1 .. t.cursor
    BY <1>3 DEF Opens, Becomes, client
  <2>1. /\ u \in Task /\ u.gen = t.gen /\ u.pc = "timers" /\ u.cursor = 0
        /\ u.event = t.event /\ u.replay = t.replay
    BY <1>a DEF Task, InRebuild
  <2>2. Fits(u)
    BY <2>0, <2>1, <1>a DEF Fits
  <2> HIDE DEF u
  <2>3. Formed
    BY <1>0, <1>1, <2>0, StateFacts DEF Formed
  <2>4. TypeOK' /\ FramesInv' /\ CallsInv'
    <3>1. copy' \subseteq 1 .. head
      BY <1>a, <2>0
    <3> QED
      BY <2>0, <2>2, <2>3, <3>1, ShapeGrows, StateFacts
  <2>5. OwnerInv'
    BY <1>0, <2>0, <2>1, OwnerKeeps DEF StreamInv, InRebuild
  <2>6. /\ ~current /\ \A x \in tasks \ {t} : x.pc \in InRebuild => Overtaken(x)
    BY <1>0, <1>3, OneOwner DEF InRebuild
  <2>7. copy \subseteq copy' /\ lastApplied <= t.cursor
    BY <1>0, <1>3, <2>0 DEF StreamInv, CopyInv, CallFits
  <2>8. CopyIsComplete'
    <3>1. \A n \in copy' : 1 .. n \subseteq copy'
      BY <1>a, <2>0
    <3> QED
      BY <2>0, <2>6, <3>1 DEF CopyIsComplete
  <2>9. CallFits(u)'
    <3>1. 1 .. lastApplied \subseteq copy'
      BY <1>a, <2>0, <2>7, StateFacts
    <3> QED
      BY <2>0, <2>1, <3>1 DEF CallFits
  <2>10. ASSUME NEW x \in tasks \ {t} PROVE CallFits(x)'
    BY <2>0, <2>6, <2>7 DEF StreamInv, CopyInv, CallFits, Overtaken, InRebuild
  <2>11. CopyInv'
    BY <2>0, <2>8, <2>9, <2>10 DEF CopyInv
  <2> QED
    BY <2>0, <2>4, <2>5, <2>7, <2>11, StateFacts DEF Safe, StreamInv
<1> QED
  BY <1>2, <1>3

(* A call that fails is overtaken, and yields, or throws to its caller.    *)
LEMMA FailsSafe ==
  ASSUME StreamInv, NEW t \in tasks, IF Overtaken(t) THEN Yield(t) ELSE Throw(t),
         UNCHANGED <<log, copy>>, faults' \in Nat,
         CloseStream \/ UNCHANGED <<socket, server>>
  PROVE  Safe
<1>1. CASE Overtaken(t)
  <2>1. Yield(t)
    BY <1>1
  <2>2. /\ serving' \in {"none", "checking", "polling", "quiet", "ended", "stalled"}
        /\ sent' \in 0 .. head /\ wire' \in Seq(Sendable)
        /\ socket' = 0 \/ socket' = socket
    BY SocketKept
  <2> QED
    BY <2>1, <2>2, YieldSafe
<1>2. CASE ~Overtaken(t)
  <2>1. Throw(t)
    BY <1>2
  <2> QED
    BY <2>1, ThrowSafe
<1> QED
  BY <1>1, <1>2

LEMMA ReadFailsSafe ==
  ASSUME StreamInv, NEW t \in tasks, ReadFails(t)
  PROVE  Safe
<1>1. /\ IF Overtaken(t) THEN Yield(t) ELSE Throw(t)
      /\ UNCHANGED <<log, copy>> /\ faults' = faults + 1
      /\ CloseStream \/ UNCHANGED <<socket, server>>
  BY DEF ReadFails, Fault
<1>2. faults' \in Nat
  BY <1>1, StateFacts
<1> QED
  BY <1>1, <1>2, FailsSafe

LEMMA OpenFailsSafe ==
  ASSUME StreamInv, NEW t \in tasks, OpenFails(t)
  PROVE  Safe
<1>1. /\ IF Overtaken(t) THEN Yield(t) ELSE Throw(t)
      /\ UNCHANGED <<log, copy>> /\ faults' = faults + 1 /\ CloseStream
  BY DEF OpenFails, Fault
<1>2. faults' \in Nat
  BY <1>1, StateFacts
<1> QED
  BY <1>1, <1>2, FailsSafe

LEMMA OpenAbortedSafe ==
  ASSUME StreamInv, NEW t \in tasks, OpenAborted(t)
  PROVE  Safe
<1>1. /\ IF Overtaken(t) THEN Yield(t) ELSE Throw(t)
      /\ UNCHANGED <<log, copy>> /\ faults' = faults
      /\ CloseStream \/ UNCHANGED <<socket, server>>
  BY DEF OpenAborted
<1>2. faults' \in Nat
  BY <1>1, StateFacts
<1> QED
  BY <1>1, <1>2, FailsSafe

LEMMA ReturnsSafe ==
  ASSUME StreamInv, NEW t \in tasks, Returns(t)
  PROVE  Safe
<1>1. /\ UNCHANGED <<log, server, faults, socket, copy>>
      /\ UNCHANGED <<current, generation, cursor, lastApplied, held>>
      /\ tasks' \subseteq tasks /\ LoopAfter(t)
  BY DEF Returns, Done, client
<1>2. loop' \in {"off", "waiting", "rebuilding"}
  BY <1>1, StateFacts DEF LoopAfter
<1>3. Formed
  BY <1>1, <1>2, FormedSame, StateFacts
<1>4. current' \in BOOLEAN /\ (current' => current)
  BY <1>1, StateFacts
<1> QED
  BY <1>1, <1>3, <1>4, FewerSafe

LEMMA RebuiltSafe ==
  ASSUME StreamInv, NEW t \in tasks, Rebuilt(t)
  PROVE  Safe
<1>1. CASE Overtaken(t)
  <2>1. /\ Yield(t) /\ UNCHANGED <<socket, server>> /\ UNCHANGED <<log, copy>>
        /\ faults' = faults
    BY <1>1 DEF Rebuilt
  <2>2. faults' \in Nat
    BY <2>1, StateFacts
  <2>3. /\ serving' \in {"none", "checking", "polling", "quiet", "ended", "stalled"}
        /\ sent' \in 0 .. head /\ wire' \in Seq(Sendable)
        /\ socket' = 0 \/ socket' = socket
    BY <2>1, SocketKept
  <2> QED
    BY <2>1, <2>2, <2>3, YieldSafe
<1>2. CASE ~Overtaken(t)
  <2> PICK u : u = [t EXCEPT !.pc = "replay", !.replay = held]
    OBVIOUS
  <2>a. /\ t \in Task /\ t.gen \in 0 .. generation /\ t.cursor \in 0 .. head
        /\ t.event \in 0 .. head /\ held \in Seq(Sendable) /\ held \in Seq(Frame)
        /\ head \in Nat /\ generation \in Nat
    BY CallFacts, StateFacts DEF StreamInv, TypeOK
  <2>0. /\ UNCHANGED <<generation, cursor, lastApplied, loop, copy>>
        /\ UNCHANGED <<log, server, faults, socket>>
        /\ tasks' = (tasks \ {t}) \cup {u} /\ t.pc = "timers"
        /\ current' = TRUE /\ held' = <<>>
    BY <1>2 DEF Rebuilt, Becomes
  <2>1. /\ u \in Task /\ u.gen = t.gen /\ u.pc = "replay" /\ u.cursor = t.cursor
        /\ u.event = t.event /\ u.replay = held
    BY <2>a DEF Task, InRebuild
  <2>2. Fits(u)
    BY <2>0, <2>1, <2>a DEF Fits
  <2>3. Formed
    BY <2>0, FormedSame, StateFacts
  <2>4. TypeOK' /\ FramesInv' /\ CallsInv'
    <3>1. current' \in BOOLEAN
      BY <2>0
    <3> QED
      BY <2>0, <2>2, <2>3, <3>1, ShapeGrows, StateFacts
  <2>5. \A x \in tasks \ {t} : x.pc \in InRebuild => Overtaken(x)
    BY <1>2, <2>0, OneOwner DEF InRebuild
  <2>6. \A x \in tasks' : x.pc \in InRebuild => x \in tasks \ {t}
    BY <2>0, <2>1 DEF InRebuild
  <2>7. OwnerInv'
    BY <2>0, <2>5, <2>6 DEF StreamInv, OwnerInv, Overtaken
  <2>8. CopyIsComplete'
    BY <1>2, <2>0 DEF StreamInv, CopyInv, CallFits, CopyIsComplete
  <2>9. CallFits(u)'
    BY <2>1 DEF CallFits
  <2>10. ASSUME NEW x \in tasks PROVE CallFits(x)'
    BY <2>0 DEF StreamInv, CopyInv, CallFits, Overtaken
  <2>11. CopyInv'
    BY <2>0, <2>8, <2>9, <2>10 DEF CopyInv
  <2> QED
    BY <2>0, <2>4, <2>7, <2>11, StateFacts DEF Safe, StreamInv
<1> QED
  BY <1>1, <1>2

-------------------------------------------------------------------------------
(* A frame against the copy.                                               *)

(* An event is applied only to a current copy, which reflects all before   *)
(* it; no rebuild is then about to replace the copy.                       *)
LEMMA ApplyingFits ==
  ASSUME StreamInv, NEW f \in Sendable, InOrder(f), Applying(f)
  PROVE  /\ UNCHANGED <<current, generation, cursor, lastApplied, held>>
         /\ f.n \in 0 .. head /\ copy \subseteq copy' /\ copy' \subseteq 1 .. head
         /\ 1 .. f.n \subseteq copy' /\ CopyIsComplete'
         /\ \A x \in tasks : CallFits(x)'
<1>1. /\ UNCHANGED <<current, generation, cursor, lastApplied, held>>
      /\ copy' = copy \cup {f.n} /\ current /\ f.n = lastApplied + 1
  BY DEF Applying, InOrder, client
<1>2. f.n \in 1 .. head
  <2>1. f.n <= head
    BY DEF Sendable, InOrder
  <2> QED
    BY <1>1, <2>1, StateFacts
<1>3. 1 .. lastApplied \subseteq copy
  BY <1>1 DEF StreamInv, CopyInv, CopyIsComplete
<1>4. 1 .. f.n \subseteq copy'
  BY <1>1, <1>3, StateFacts
<1>5. CopyIsComplete'
  <2>1. ASSUME NEW n \in copy' PROVE 1 .. n \subseteq copy'
    BY <1>1, <1>4 DEF StreamInv, CopyInv, CopyIsComplete
  <2>2. 1 .. lastApplied \subseteq copy'
    BY <1>1, <1>3
  <2> QED
    BY <1>1, <2>1, <2>2 DEF CopyIsComplete
<1>6. ASSUME NEW x \in tasks PROVE CallFits(x)'
  <2>1. x.pc \in InRebuild => Overtaken(x)
    BY <1>1 DEF StreamInv, OwnerInv
  <2>2. CallFits(x)
    BY DEF StreamInv, CopyInv
  <2> QED
    BY <1>1, <2>1, <2>2 DEF CallFits, Overtaken, InRebuild
<1>7. copy' \subseteq 1 .. head
  BY <1>1, <1>2, StateFacts
<1> QED
  BY <1>1, <1>2, <1>4, <1>5, <1>6, <1>7

LEMMA ReplaySafe ==
  ASSUME StreamInv, NEW t \in tasks, Replay(t)
  PROVE  Safe
<1>a. /\ t \in Task /\ t.gen \in 0 .. generation /\ t.cursor \in 0 .. head
      /\ t.event \in 0 .. head /\ t.replay \in Seq(Sendable)
      /\ head \in Nat /\ generation \in Nat /\ <<>> \in Seq(Sendable)
  BY CallFacts, StateFacts
<1> PICK f : f = Head(t.replay)
  OBVIOUS
<1> PICK q : q = Tail(t.replay)
  OBVIOUS
<1> PICK rest : rest = [t EXCEPT !.replay = q]
  OBVIOUS
<1>0. /\ t.pc = "replay" /\ UNCHANGED <<log, server, faults, loop, socket>>
      /\ t.replay # <<>>
  BY DEF Replay
<1>1. f \in Sendable /\ q \in Seq(Sendable) /\ q \in Seq(Frame)
  <2>1. f \in Sendable /\ q \in Seq(Sendable)
    BY <1>a, <1>0, TailSendable
  <2> QED
    BY <1>a, <2>1, Frames, SeqMonotonic
<1>2. \/ Ignored(f)  /\ Becomes(t, rest) /\ UNCHANGED <<client, copy>>
      \/ InOrder(f)  /\ Applying(f)
                     /\ Becomes(t, [rest EXCEPT !.pc = "applying", !.event = f.n])
      \/ Doubtful(f) /\ Stale /\ UNCHANGED copy
                     /\ Becomes(t, [rest EXCEPT !.pc = "read", !.gen = generation + 1,
                                                !.replay = <<>>])
  BY DEF Replay
<1>3. rest \in Task /\ rest.gen = t.gen /\ rest.pc = t.pc /\ rest.cursor = t.cursor
      /\ rest.event = t.event /\ rest.replay = q
  BY <1>a, <1>1 DEF Task
<1>4. CASE Ignored(f) /\ Becomes(t, rest) /\ UNCHANGED <<client, copy>>
  <2>0. /\ UNCHANGED <<current, generation, cursor, lastApplied, held, copy>>
        /\ tasks' = (tasks \ {t}) \cup {rest}
    BY <1>4 DEF Becomes, client
  <2>1. Fits(rest)
    BY <1>a, <1>1, <1>3, <2>0 DEF Fits
  <2>2. Formed
    BY <1>0, <2>0, FormedSame, StateFacts
  <2>3. TypeOK' /\ FramesInv' /\ CallsInv'
    BY <2>0, <2>1, <2>2, ShapeGrows, StateFacts
  <2>4. OwnerInv'
    BY <1>0, <1>3, <2>0, OwnerKeeps DEF StreamInv, InRebuild
  <2>5. CopyIsComplete'
    BY <2>0 DEF StreamInv, CopyInv, CopyIsComplete
  <2>6. CallFits(rest)'
    BY <1>0, <1>3 DEF CallFits
  <2>7. ASSUME NEW x \in tasks PROVE CallFits(x)'
    BY <2>0 DEF StreamInv, CopyInv, CallFits, Overtaken
  <2>8. CopyInv'
    BY <2>0, <2>5, <2>6, <2>7 DEF CopyInv
  <2> QED
    BY <2>0, <2>3, <2>4, <2>8, StateFacts DEF Safe, StreamInv
<1>5. CASE InOrder(f) /\ Applying(f)
           /\ Becomes(t, [rest EXCEPT !.pc = "applying", !.event = f.n])
  <2> PICK u : u = [rest EXCEPT !.pc = "applying", !.event = f.n]
    OBVIOUS
  <2>0. /\ UNCHANGED <<current, generation, cursor, lastApplied, held>>
        /\ f.n \in 0 .. head /\ copy \subseteq copy' /\ copy' \subseteq 1 .. head
        /\ 1 .. f.n \subseteq copy' /\ CopyIsComplete'
        /\ \A x \in tasks : CallFits(x)'
    BY <1>1, <1>5, ApplyingFits
  <2>1. /\ u \in Task /\ u.gen = t.gen /\ u.pc = "applying" /\ u.cursor = t.cursor
        /\ u.event = f.n /\ u.replay = q
    <3>1. f.n \in Nat /\ "applying" \in InRebuild \cup {"replay", "applying"}
      BY <1>a, <2>0
    <3>2. u \in Task
      <4>1. rest \in Task
        BY <1>3
      <4> QED
        BY <3>1, <4>1 DEF Task
    <3> QED
      BY <1>3, <3>2 DEF Task
  <2>2. tasks' = (tasks \ {t}) \cup {u}
    BY <1>5 DEF Becomes
  <2>3. Fits(u)
    BY <1>a, <1>1, <2>0, <2>1 DEF Fits
  <2>4. Formed
    BY <1>0, <2>0, FormedSame, StateFacts
  <2>5. TypeOK' /\ FramesInv' /\ CallsInv'
    BY <2>0, <2>2, <2>3, <2>4, ShapeGrows, StateFacts
  <2>6. OwnerInv'
    <3>1. u.gen = t.gen /\ (u.pc \in InRebuild => t.pc \in InRebuild)
      BY <2>1 DEF InRebuild
    <3>2. generation' = generation
      BY <2>0
    <3>3. current' => current
      BY <2>0
    <3>4. OwnerInv
      BY DEF StreamInv
    <3>5. tasks' \subseteq (tasks \ {t}) \cup {u}
      BY <2>2
    <3> QED
      BY <3>1, <3>2, <3>3, <3>4, <3>5, OwnerKeeps
  <2>7. CallFits(u)'
    BY <2>0, <2>1 DEF CallFits
  <2>8. CopyInv'
    BY <2>0, <2>2, <2>7 DEF CopyInv
  <2> QED
    BY <2>0, <2>5, <2>6, <2>8, StateFacts DEF Safe, StreamInv
<1>6. CASE Doubtful(f) /\ Stale /\ UNCHANGED copy
           /\ Becomes(t, [rest EXCEPT !.pc = "read", !.gen = generation + 1,
                                      !.replay = <<>>])
  <2> PICK u : u = [rest EXCEPT !.pc = "read", !.gen = generation + 1, !.replay = <<>>]
    OBVIOUS
  <2>0. /\ current' = FALSE /\ generation' = generation + 1
        /\ UNCHANGED <<cursor, lastApplied, copy>> /\ held' = held
        /\ tasks' = (tasks \ {t}) \cup {u}
    BY <1>6 DEF Stale, Becomes
  <2>1. <<>> \in Seq(Frame)
    BY EmptySeq
  <2>2. /\ u \in Task /\ u.gen = generation + 1 /\ u.pc = "read"
        /\ u.cursor = t.cursor /\ u.event = t.event /\ u.replay = <<>>
    <3>1. generation + 1 \in Nat /\ "read" \in InRebuild \cup {"replay", "applying"}
      BY <1>a DEF InRebuild
    <3>2. u \in Task
      BY <1>3, <2>1, <3>1 DEF Task
    <3> QED
      BY <1>3, <3>2 DEF Task
  <2> QED
    <3>1. Formed
      BY <1>0, <2>0, StateFacts DEF Formed, server
    <3>2. u.cursor \in 0 .. head /\ u.event \in 0 .. head
      BY <1>a, <2>2
    <3>3. tasks' \subseteq tasks \cup {u}
      BY <2>0
    <3> QED
      BY <2>0, <2>2, <3>1, <3>2, <3>3, DoubtSafe
<1> QED
  BY <1>2, <1>4, <1>5, <1>6

(* What taking a frame off the socket leaves.                              *)
LEMMA ArrivesFacts ==
  ASSUME StreamInv, NEW f, Arrives(f), UNCHANGED <<log, serving, sent, faults>>
  PROVE  /\ f \in Sendable /\ wire' \in Seq(Sendable) /\ faults' \in Nat
         /\ serving' \in {"none", "checking", "polling", "quiet", "ended", "stalled"}
         /\ sent' \in 0 .. head
<1>1. wire \in Seq(Sendable) /\ wire # <<>> /\ f = Head(wire) /\ wire' = Tail(wire)
  BY StateFacts DEF Arrives
<1>2. f \in Sendable /\ wire' \in Seq(Sendable)
  BY <1>1, TailSendable
<1> QED
  BY <1>2, StateFacts

LEMMA ReceiveHeldSafe ==
  ASSUME StreamInv, ReceiveHeld
  PROVE  Safe
<1>1. PICK f \in {wire[i] : i \in DOMAIN wire} :
         /\ Arrives(f) /\ held' = Append(held, f)
         /\ UNCHANGED <<log, serving, sent, faults>>
         /\ UNCHANGED <<current, generation, cursor, lastApplied, tasks, loop, socket, copy>>
  BY DEF ReceiveHeld
<1>2. /\ f \in Sendable /\ wire' \in Seq(Sendable) /\ faults' \in Nat
      /\ serving' \in {"none", "checking", "polling", "quiet", "ended", "stalled"}
      /\ sent' \in 0 .. head
  BY <1>1, ArrivesFacts
<1>3. held' \in Seq(Sendable)
  BY <1>1, <1>2, StateFacts, AppendProperties
<1>4. Formed
  BY <1>1, <1>2, <1>3, StateFacts DEF Formed
<1>5. current' \in BOOLEAN /\ (current' => current)
  BY <1>1, StateFacts
<1> QED
  BY <1>1, <1>4, <1>5, FewerSafe

(* A frame that is handled at once.                                        *)
Handled(f) ==
  \/ Ignored(f)  /\ UNCHANGED <<client, tasks, copy>>
  \/ InOrder(f)  /\ Applying(f)
                 /\ tasks' = tasks \cup {[Called("frame", "applying") EXCEPT !.event = f.n, !.gen = 0]}
  \/ Doubtful(f) /\ Stale /\ UNCHANGED copy
                 /\ tasks' = tasks \cup {Called("frame", "read")}

LEMMA ReceiveSafe ==
  ASSUME StreamInv, Receive
  PROVE  Safe
<1>1. PICK f \in {wire[i] : i \in DOMAIN wire} :
         /\ Arrives(f) /\ Handled(f)
         /\ UNCHANGED <<log, serving, sent, faults>> /\ UNCHANGED <<loop, socket>>
  BY DEF Receive, Handled
<1>2. /\ f \in Sendable /\ wire' \in Seq(Sendable) /\ faults' \in Nat
      /\ serving' \in {"none", "checking", "polling", "quiet", "ended", "stalled"}
      /\ sent' \in 0 .. head
  BY <1>1, ArrivesFacts
<1>3. ASSUME held' = held, generation' = generation \/ generation' = generation + 1
      PROVE  Formed
  BY <1>1, <1>2, <1>3, StateFacts DEF Formed
<1>4. CASE UNCHANGED <<client, tasks, copy>>
  <2>1. UNCHANGED <<current, generation, cursor, lastApplied, held, tasks, copy>>
    BY <1>4 DEF client
  <2>2. current' \in BOOLEAN /\ (current' => current)
    BY <2>1, StateFacts
  <2>3. Formed
    BY <1>3, <2>1
  <2> QED
    BY <2>1, <2>2, <2>3, FewerSafe
<1>5. CASE InOrder(f) /\ Applying(f)
           /\ tasks' = tasks \cup {[Called("frame", "applying") EXCEPT !.event = f.n, !.gen = 0]}
  <2> PICK c : c = Called("frame", "applying")
    OBVIOUS
  <2> PICK u : u = [c EXCEPT !.event = f.n, !.gen = 0]
    OBVIOUS
  <2>0. /\ UNCHANGED <<current, generation, cursor, lastApplied, held>>
        /\ f.n \in 0 .. head /\ copy \subseteq copy' /\ copy' \subseteq 1 .. head
        /\ 1 .. f.n \subseteq copy' /\ CopyIsComplete'
        /\ \A x \in tasks : CallFits(x)'
    BY <1>2, <1>5, ApplyingFits
  <2>1. /\ c \in Task /\ c.pc = "applying" /\ c.cursor = 0 /\ c.replay = <<>>
    BY CalledFacts DEF Who
  <2>2. /\ u \in Task /\ u.gen = 0 /\ u.pc = "applying" /\ u.cursor = 0
        /\ u.event = f.n /\ u.replay = <<>>
    <3>1. f.n \in Nat
      BY <2>0, StateFacts
    <3>2. u \in Task
      BY <2>1, <3>1 DEF Task
    <3> QED
      BY <2>1, <3>2 DEF Task
  <2>3. tasks' = tasks \cup {u}
    BY <1>5
  <2>4. Fits(u)
    <3>1. /\ u.gen <= generation' /\ u.cursor <= head /\ u.event <= head
      BY <2>0, <2>2, StateFacts
    <3>2. u.replay \in Seq(Sendable)
      BY <2>2, StateFacts
    <3> QED
      BY <2>2, <3>1, <3>2 DEF Fits
  <2>5. Formed
    BY <1>3, <2>0
  <2>6. TypeOK' /\ FramesInv' /\ CallsInv'
    BY <2>0, <2>3, <2>4, <2>5, ShapeGrows, StateFacts
  <2>7. OwnerInv'
    <3>1. \A x \in tasks' : x.pc \in InRebuild => x \in tasks
      BY <2>2, <2>3 DEF InRebuild
    <3> QED
      BY <2>0, <3>1 DEF StreamInv, OwnerInv, Overtaken
  <2>8. CallFits(u)'
    BY <2>0, <2>2 DEF CallFits
  <2>9. CopyInv'
    BY <2>0, <2>3, <2>8 DEF CopyInv
  <2> QED
    BY <2>0, <2>6, <2>7, <2>9, StateFacts DEF Safe, StreamInv
<1>6. CASE /\ Stale /\ UNCHANGED copy
           /\ tasks' = tasks \cup {Called("frame", "read")}
  <2> PICK u : u = Called("frame", "read")
    OBVIOUS
  <2>1. /\ current' = FALSE /\ generation' = generation + 1 /\ held' = held
        /\ UNCHANGED <<cursor, lastApplied, copy>> /\ tasks' \subseteq tasks \cup {u}
    BY <1>6 DEF Stale
  <2>2. /\ u \in Task /\ u.gen = generation + 1 /\ u.pc = "read"
        /\ u.cursor \in 0 .. head /\ u.event \in 0 .. head /\ u.replay = <<>>
    BY CalledFacts, StateFacts DEF Who, InRebuild
  <2>3. Formed
    BY <1>3, <2>1
  <2> QED
    BY <2>1, <2>2, <2>3, DoubtSafe
<1> QED
  BY <1>1, <1>4, <1>5, <1>6 DEF Handled

LEMMA ReceiveCloseSafe ==
  ASSUME StreamInv, ReceiveClose
  PROVE  Safe
<1>1. /\ Dropped /\ CloseStream /\ UNCHANGED <<log, copy>> /\ tasks' = tasks
      /\ faults' = faults
  BY DEF ReceiveClose
<1>2. faults' \in Nat /\ tasks' \subseteq tasks
  BY <1>1, StateFacts
<1> QED
  BY <1>1, <1>2, DroppedSafe

(* The watchdog and the reconnect loop begin a rebuild.                    *)
LEMMA BeginsSafe ==
  ASSUME StreamInv, Stale, UNCHANGED <<log, server, socket, copy>>, faults' \in Nat,
         loop' \in {"off", "waiting", "rebuilding"},
         NEW who \in Who, tasks' = tasks \cup {Called(who, "read")}
  PROVE  Safe
<1> PICK u : u = Called(who, "read")
  OBVIOUS
<1>1. /\ current' = FALSE /\ generation' = generation + 1 /\ held' = held
      /\ UNCHANGED <<cursor, lastApplied, copy>> /\ tasks' \subseteq tasks \cup {u}
  BY DEF Stale
<1>2. /\ u \in Task /\ u.gen = generation + 1 /\ u.pc = "read"
      /\ u.cursor \in 0 .. head /\ u.event \in 0 .. head /\ u.replay = <<>>
  BY CalledFacts, StateFacts DEF InRebuild
<1>3. Formed
  BY <1>1, StateFacts DEF Formed, server
<1> QED
  BY <1>1, <1>2, <1>3, DoubtSafe

LEMMA MissedKeepaliveSafe ==
  ASSUME StreamInv, MissedKeepalive
  PROVE  Safe
<1>1. /\ Stale /\ UNCHANGED <<log, server, socket, copy>> /\ loop' = loop
      /\ faults' = faults \/ faults' = faults + 1
      /\ tasks' = tasks \cup {Called("watchdog", "read")}
  BY DEF MissedKeepalive, Fault
<1>2. faults' \in Nat /\ loop' \in {"off", "waiting", "rebuilding"} /\ "watchdog" \in Who
  BY <1>1, StateFacts DEF Who
<1> QED
  BY <1>1, <1>2, BeginsSafe

LEMMA ReconnectSafe ==
  ASSUME StreamInv, Reconnect
  PROVE  Safe
<1>1. /\ Stale /\ UNCHANGED <<log, server, socket, copy>> /\ loop' = "rebuilding"
      /\ faults' = faults /\ tasks' = tasks \cup {Called("reconnect", "read")}
  BY DEF Reconnect
<1>2. faults' \in Nat /\ loop' \in {"off", "waiting", "rebuilding"} /\ "reconnect" \in Who
  BY <1>1, StateFacts DEF Who
<1> QED
  BY <1>1, <1>2, BeginsSafe

-------------------------------------------------------------------------------
(* Theorems.                                                               *)

LEMMA InitSafe ==
  ASSUME Init
  PROVE  StreamInv
<1>a. PICK r : r = <<>>
  OBVIOUS
<1>b. PICK u : u = [Called("start", "read") EXCEPT !.gen = 1]
  OBVIOUS
<1>1. /\ head \in Nat /\ retained = 1 .. head
      /\ serving = "none" /\ sent = 0 /\ wire = <<>> /\ faults = 0
  BY StreamBounds DEF Init, StreamInit
<1>2. /\ current = FALSE /\ generation = 1 /\ cursor = 0 /\ lastApplied = 0 /\ held = <<>>
      /\ tasks = {u} /\ loop = "off" /\ socket = 0 /\ copy = {}
  BY <1>b DEF Init
<1>3. r \in Seq(Frame) /\ r \in Seq(Sendable)
  BY <1>a, EmptySeq
<1>4. u = [who |-> "start", sock |-> 0, gen |-> 1, pc |-> "read",
           cursor |-> 0, event |-> 0, replay |-> r]
  BY <1>a, <1>b DEF Called
<1>5. u \in Task
  <2>1. "start" \in Who /\ "read" \in InRebuild
    BY DEF Who, InRebuild
  <2>2. 0 \in Nat /\ 1 \in Nat
    OBVIOUS
  <2> QED
    BY <1>3, <1>4, <2>1, <2>2 DEF Task
<1>6. TypeOK
  <2>1. StreamTypeOK
    BY <1>1, EmptySeq DEF StreamTypeOK
  <2>2. held \in Seq(Frame) /\ tasks \subseteq Task
    BY <1>2, <1>5, EmptySeq
  <2>3. /\ generation \in Nat /\ cursor \in Nat /\ lastApplied \in Nat
        /\ socket \in 0 .. generation
        /\ cursor <= head /\ lastApplied <= head /\ copy \subseteq 1 .. head
    BY <1>1, <1>2
  <2>4. current \in BOOLEAN /\ loop \in {"off", "waiting", "rebuilding"}
    BY <1>2
  <2> QED
    BY <2>1, <2>2, <2>3, <2>4 DEF TypeOK
<1>7. FramesInv
  BY <1>1, <1>2, <1>3 DEF FramesInv
<1>8. CallsInv
  <2>1. u.gen <= generation /\ u.cursor <= head /\ u.event <= head
    BY <1>1, <1>2, <1>4
  <2>2. u.replay \in Seq(Sendable)
    BY <1>3, <1>4
  <2> QED
    BY <1>2, <2>1, <2>2 DEF CallsInv
<1>9. OwnerInv
  BY <1>2, <1>4 DEF OwnerInv
<1>10. CopyInv
  BY <1>2, <1>4 DEF CopyInv, CopyIsComplete, CallFits
<1> QED
  BY <1>6, <1>7, <1>8, <1>9, <1>10 DEF StreamInv

LEMMA StutterSafe ==
  ASSUME StreamInv, UNCHANGED vars
  PROVE  Safe
<1>1. /\ UNCHANGED <<log, server, faults>> /\ UNCHANGED <<tasks, loop, socket, copy>>
      /\ UNCHANGED <<current, generation, cursor, lastApplied, held>>
  BY DEF vars, client
<1>2. Formed
  BY <1>1, FormedSame, StateFacts
<1>3. current' \in BOOLEAN /\ (current' => current)
  BY <1>1, StateFacts
<1> QED
  BY <1>1, <1>2, <1>3, FewerSafe

LEMMA StepSafe ==
  ASSUME StreamInv, [Next]_vars
  PROVE  Safe
<1>1. CASE Next
  <2>1. CASE StreamMoves
    BY <2>1, StreamMovesSafe
  <2>2. CASE ReceiveHeld \/ Receive \/ ReceiveClose
    BY <2>2, ReceiveHeldSafe, ReceiveSafe, ReceiveCloseSafe
  <2>3. ASSUME NEW t \in tasks, Answer(t) \/ ReadFails(t) \/ OpenFails(t) PROVE Safe
    BY <2>3, AppliedSafe, SnapshotSafe, ReadReturnsSafe, OpensSafe, OpenAbortedSafe,
       RebuiltSafe, ReplaySafe, ReturnsSafe, ReadFailsSafe, OpenFailsSafe DEF Answer
  <2>4. CASE MissedKeepalive \/ Reconnect
    BY <2>4, MissedKeepaliveSafe, ReconnectSafe
  <2> QED
    BY <1>1, <2>1, <2>2, <2>3, <2>4 DEF Next
<1>2. CASE UNCHANGED vars
  BY <1>2, StutterSafe
<1> QED
  BY <1>1, <1>2

(* At most one rebuild can still take effect, nothing is current while it  *)
(* is in flight, and what it holds is no older than what it replaces       *)
(* (SchedulerStreamConsumer and its transport and runtime).                *)
THEOREM StreamSafe == Spec => []StreamInv
<1>1. Init => StreamInv
  BY InitSafe
<1>2. StreamInv /\ [Next]_vars => StreamInv'
  BY StepSafe DEF Safe
<1> QED
  BY <1>1, <1>2, PTL DEF Spec

(* Type correctness of the stream and its consumer.                        *)
THEOREM TypeCorrect == Spec => []TypeOK
<1>1. StreamInv => TypeOK
  BY DEF StreamInv
<1> QED
  BY <1>1, StreamSafe, PTL

(* The copy of a current clock reflects every event up to the last one     *)
(* applied, whatever rebuilds and applications overlapped                  *)
(* (SchedulerStreamConsumer #rebuild, #handle).                            *)
THEOREM CopyComplete == Spec => []CopyIsComplete
<1>1. StreamInv => CopyIsComplete
  BY DEF StreamInv, CopyInv
<1> QED
  BY <1>1, StreamSafe, PTL

(* An overtaken rebuild never brings an older world back: the copy loses   *)
(* no event and the cursor never moves back (#rebuild's generation).       *)
THEOREM NoOlder == Spec => NeverOlder
<1>1. StreamInv /\ [Next]_vars => [copy \subseteq copy' /\ cursor' >= cursor]_vars
  BY StepSafe DEF Safe
<1> QED
  BY <1>1, StreamSafe, PTL DEF Spec, NeverOlder

-------------------------------------------------------------------------------
(* The contract of CurrentCopy, and the connection of a current copy.      *)

(* What a step is shown to do besides keeping StreamInv.                   *)
Links == LinkInv' /\ (Contract!Next \/ UNCHANGED Contract!vars)

(* The calls that are about to declare the copy current.                   *)
Declaring == {x \in tasks : x.pc = "timers" /\ x.gen = generation}

LEMMA FreshIs == Fresh <=> current \/ Declaring # {}
BY DEF Fresh, Declaring, Overtaken

(* A copy without holes is what CurrentCopy counts.                        *)
LEMMA Counted ==
  ASSUME head \in Nat, NEW n \in 0 .. head, copy = 1 .. n
  PROVE  Reflected = n
<1>1. \A m \in 0 .. head : 1 .. m = 1 .. n => m = n
  <2> SUFFICES ASSUME NEW m \in 0 .. head, 1 .. m = 1 .. n PROVE m = n
    OBVIOUS
  <2>1. (m \in 1 .. m <=> m # 0) /\ (n \in 1 .. n <=> n # 0)
    OBVIOUS
  <2> QED
    BY <2>1
<1> QED
  BY <1>1 DEF Reflected

(* Nothing that the contract speaks of changes.                            *)
LEMMA QuietLinks ==
  ASSUME StreamInv, LinkInv, UNCHANGED <<head, copy, current, generation>>,
         Declaring' = Declaring,
         Fresh => socket' = socket /\ (serving' = "none" => serving = "none")
  PROVE  Links
<1>1. Fresh' = Fresh
  BY DEF Fresh, Declaring, Overtaken
<1>2. Reflected' = Reflected
  BY DEF Reflected
<1>3. LinkInv'
  BY <1>1 DEF LinkInv
<1> QED
  BY <1>1, <1>2, <1>3 DEF Links, Contract!vars

(* A doubt: from here on nothing is current or about to be.                *)
LEMMA DoubtLinks ==
  ASSUME StreamInv, LinkInv, UNCHANGED <<head, copy>>, current' = FALSE,
         generation' = generation \/ generation' = generation + 1,
         Declaring' = {}
  PROVE  Links
<1>1. Fresh' = FALSE
  BY DEF Fresh, Declaring, Overtaken
<1>2. Reflected' = Reflected
  BY DEF Reflected
<1>3. generation' # 0
  BY StateFacts DEF LinkInv
<1>4. LinkInv'
  BY <1>1, <1>3 DEF LinkInv
<1> QED
  BY <1>1, <1>2, <1>4 DEF Links, Contract!Next, Contract!Doubt

(* A new generation leaves every rebuild that was in flight overtaken.     *)
LEMMA NextGeneration ==
  ASSUME StreamInv, LinkInv, UNCHANGED <<head, copy>>, current' = FALSE,
         generation' = generation + 1,
         \A x \in tasks' : x \in tasks \/ x.pc # "timers"
  PROVE  Links
<1>1. \A x \in tasks : x.gen # generation'
  BY StateFacts, CallFacts
<1>2. Declaring' = {}
  BY <1>1 DEF Declaring
<1> QED
  BY <1>2, DoubtLinks

(* A rebuild that throws was the one that could still take effect.         *)
LEMMA ThrowLinks ==
  ASSUME StreamInv, LinkInv, NEW t \in tasks, t.pc \in InRebuild, t.pc # "timers",
         ~Overtaken(t), Throw(t), UNCHANGED <<log, copy>>
  PROVE  Links
<1>1. current' = FALSE /\ tasks' = tasks \ {t} /\ head' = head
  BY DEF Throw, Dropped, log
<1>2. CASE Drops(t)
  <2>1. generation' = generation + 1
    BY <1>2 DEF Throw, Dropped
  <2> QED
    BY <1>1, <2>1, NextGeneration
<1>3. CASE ~Drops(t)
  <2>1. generation' = generation
    BY <1>3 DEF Throw
  <2>2. \A x \in tasks : x.pc \in InRebuild /\ x.gen = generation => x = t
    BY DEF StreamInv, OwnerInv, Overtaken
  <2>3. Declaring' = {}
    BY <1>1, <2>1, <2>2 DEF Declaring, InRebuild
  <2> QED
    BY <1>1, <2>1, <2>3, DoubtLinks
<1> QED
  BY <1>2, <1>3

(* One that was overtaken gives way, and nobody notices.                   *)
LEMMA YieldLinks ==
  ASSUME StreamInv, LinkInv, NEW t \in tasks, Overtaken(t), Yield(t),
         UNCHANGED <<log, copy>>,
         \/ UNCHANGED <<socket, server>>
         \/ socket = t.gen
  PROVE  Links
<1>1. /\ UNCHANGED <<head, copy, current, generation>> /\ tasks' = tasks \ {t}
  BY DEF Yield, Done, log
<1>2. Declaring' = Declaring
  BY <1>1 DEF Declaring, Overtaken
<1>3. Fresh => socket' = socket /\ serving' = serving
  BY DEF LinkInv, Overtaken, server
<1> QED
  BY <1>1, <1>2, <1>3, QuietLinks

(* A call that goes on without a word about the copy.                      *)
LEMMA CarriesOn ==
  ASSUME StreamInv, LinkInv, NEW t \in tasks, t.pc # "timers", NEW u, u.pc # "timers",
         Becomes(t, u) \/ Done(t), UNCHANGED <<head, copy, current, generation>>,
         Fresh => socket' = socket /\ serving' = serving
  PROVE  Links
<1>1. tasks' \subseteq (tasks \ {t}) \cup {u} /\ tasks \ {t} \subseteq tasks'
  BY DEF Becomes, Done
<1>2. Declaring' = Declaring
  BY <1>1 DEF Declaring
<1> QED
  BY <1>2, QuietLinks

LEMMA StreamMovesLinks ==
  ASSUME StreamInv, LinkInv, StreamMoves
  PROVE  Links
<1>0. /\ UNCHANGED <<current, generation, tasks, socket, copy>>
  BY DEF StreamMoves, client
<1>1. serving' = "none" => serving = "none"
  BY DEF StreamMoves, StreamNext, Commit, ServerStep, StreamFault, CheckCursor, End,
         PollEvents, PollNothing, SendKeepalive, Prune, Overflow, Unavailable, Break,
         Stall, LoseFrame, server
<1>2. Declaring' = Declaring
  BY <1>0 DEF Declaring
<1>3. CASE Commit
  <2>1. head' = head + 1 /\ head \in Nat
    BY <1>3, StateFacts DEF Commit
  <2>2. PICK n \in 0 .. head : copy = 1 .. n
    BY DEF LinkInv
  <2>3. Reflected = n
    BY <2>1, <2>2, Counted
  <2>4. Reflected' = n
    <3>1. \A m \in 0 .. head' : 1 .. m = 1 .. n => m = n
      <4> SUFFICES ASSUME NEW m \in 0 .. head', 1 .. m = 1 .. n PROVE m = n
        OBVIOUS
      <4>1. m \in Nat /\ n \in Nat
        BY <2>1
      <4>2. (m \in 1 .. m <=> m # 0) /\ (n \in 1 .. n <=> n # 0)
        BY <4>1
      <4> QED
        BY <4>1, <4>2
    <3>2. n \in 0 .. head' /\ copy' = 1 .. n
      BY <1>0, <2>1, <2>2
    <3> QED
      BY <3>1, <3>2 DEF Reflected
  <2>5. Fresh' = Fresh
    BY <1>0, <1>2, FreshIs DEF Fresh, Declaring, Overtaken
  <2>6. LinkInv'
    BY <1>0, <1>1, <2>1, <2>2, <2>5 DEF LinkInv
  <2> QED
    BY <1>0, <2>1, <2>3, <2>4, <2>5, <2>6 DEF Links, Contract!Next, Contract!Change
<1>4. CASE ~Commit
  <2>1. head' = head
    BY <1>4 DEF StreamMoves, StreamNext, ServerStep, StreamFault, CheckCursor,
         PollEvents, PollNothing, SendKeepalive, Prune, Overflow, Unavailable, Break,
         Stall, LoseFrame, log
  <2> QED
    BY <1>0, <1>1, <1>2, <2>1, QuietLinks
<1> QED
  BY <1>3, <1>4

(* Applying the next event, on whichever path: the copy has it already, or *)
(* it is the one that follows.                                             *)
LEMMA ApplyLinks ==
  ASSUME StreamInv, LinkInv, NEW f \in Sendable, InOrder(f), Applying(f),
         UNCHANGED <<head, socket, serving>>, Declaring' = Declaring
  PROVE  Links
<1>0. /\ head \in Nat /\ lastApplied \in 0 .. head /\ f.n = lastApplied + 1
      /\ current = TRUE /\ 1 .. lastApplied \subseteq copy /\ f.n <= head
  BY StateFacts DEF InOrder, StreamInv, CopyInv, CopyIsComplete, Sendable
<1>1. UNCHANGED <<current, generation, lastApplied>> /\ copy' = copy \cup {f.n}
  BY DEF Applying, client
<1>2. PICK n \in 0 .. head : copy = 1 .. n
  BY DEF LinkInv
<1>3. lastApplied <= n
  BY <1>0, <1>2
<1>4. CASE f.n <= n
  <2>1. copy' = copy
    BY <1>0, <1>1, <1>2, <1>4
  <2> QED
    BY <1>1, <2>1, QuietLinks
<1>5. CASE ~(f.n <= n)
  <2>1. f.n = n + 1 /\ n + 1 \in 0 .. head
    BY <1>0, <1>2, <1>3, <1>5
  <2>2. copy' = 1 .. n + 1
    BY <1>1, <1>2, <2>1
  <2>3. Reflected = n
    BY <1>0, <1>2, Counted
  <2>4. Reflected' = n + 1
    <3>1. \A m \in 0 .. head : 1 .. m = 1 .. n + 1 => m = n + 1
      <4> SUFFICES ASSUME NEW m \in 0 .. head, 1 .. m = 1 .. n + 1 PROVE m = n + 1
        OBVIOUS
      <4>1. m \in Nat /\ n \in Nat /\ n + 1 \in 1 .. n + 1
        BY <1>0
      <4>2. m # 0 /\ n + 1 <= m /\ m \in 1 .. m
        BY <4>1
      <4> QED
        BY <4>1, <4>2
    <3> QED
      BY <2>1, <2>2, <3>1 DEF Reflected
  <2>5. Fresh = TRUE /\ Fresh' = TRUE
    BY <1>0, <1>1 DEF Fresh
  <2>6. LinkInv'
    BY <1>1, <2>1, <2>2, <2>5 DEF LinkInv
  <2>7. n < head
    BY <1>0, <1>2, <2>1
  <2> QED
    BY <1>0, <1>1, <2>3, <2>4, <2>5, <2>6, <2>7 DEF Links, Contract!Next, Contract!Apply
<1> QED
  BY <1>4, <1>5

LEMMA ReceiveLinks ==
  ASSUME StreamInv, LinkInv, ReceiveHeld \/ Receive \/ ReceiveClose
  PROVE  Links
<1>1. CASE ReceiveHeld
  <2>1. UNCHANGED <<head, copy, current, generation, tasks, socket, serving>>
    BY <1>1 DEF ReceiveHeld, log
  <2>2. Declaring' = Declaring
    BY <2>1 DEF Declaring
  <2> QED
    BY <2>1, <2>2, QuietLinks
<1>2. CASE ReceiveClose
  <2>1. UNCHANGED <<head, copy, tasks>> /\ current' = FALSE /\ generation' = generation + 1
    BY <1>2 DEF ReceiveClose, Dropped, log
  <2> QED
    BY <2>1, NextGeneration
<1>3. CASE Receive
  <2>1. PICK f \in {wire[i] : i \in DOMAIN wire} :
          /\ Arrives(f) /\ Handled(f)
          /\ UNCHANGED <<log, serving, sent, faults>> /\ UNCHANGED <<loop, socket>>
    BY <1>3 DEF Receive, Handled
  <2>2. f \in Sendable /\ head' = head
    BY <2>1, ArrivesFacts DEF log
  <2>3. CASE UNCHANGED <<client, tasks, copy>>
    <3>1. Declaring' = Declaring /\ UNCHANGED <<current, generation, copy>>
      BY <2>3 DEF Declaring, client
    <3> QED
      BY <2>1, <2>2, <3>1, QuietLinks
  <2>4. CASE /\ InOrder(f) /\ Applying(f)
             /\ tasks' = tasks \cup {[Called("frame", "applying") EXCEPT !.event = f.n, !.gen = 0]}
    <3> PICK u : u = [Called("frame", "applying") EXCEPT !.event = f.n, !.gen = 0]
      OBVIOUS
    <3>1. u.pc = "applying"
      <4>1. Called("frame", "applying") \in Task /\ Called("frame", "applying").pc = "applying"
        BY CalledFacts DEF Who
      <4> QED
        BY <4>1 DEF Task
    <3>2. Declaring' = Declaring
      BY <2>4, <3>1 DEF Declaring, Applying, client
    <3> QED
      BY <2>1, <2>2, <2>4, <3>2, ApplyLinks
  <2>5. CASE Stale /\ UNCHANGED copy /\ tasks' = tasks \cup {Called("frame", "read")}
    <3>1. Called("frame", "read").pc = "read"
      BY CalledFacts DEF Who, InRebuild
    <3>2. current' = FALSE /\ generation' = generation + 1
      BY <2>5 DEF Stale
    <3> QED
      BY <2>2, <2>5, <3>1, <3>2, NextGeneration
  <2> QED
    BY <2>1, <2>3, <2>4, <2>5 DEF Handled
<1> QED
  BY <1>1, <1>2, <1>3

LEMMA ReadLinks ==
  ASSUME StreamInv, LinkInv, NEW t \in tasks,
         Applied(t) \/ Snapshot(t) \/ ReadReturns(t) \/ ReadFails(t)
  PROVE  Links
<1>a. t \in Task
  BY CallFacts
<1>1. CASE Applied(t)
  <2> PICK u : u = [t EXCEPT !.pc = "replay", !.event = 0]
    OBVIOUS
  <2>1. t.pc = "applying" /\ u.pc = "replay" /\ (Becomes(t, u) \/ Done(t))
        /\ UNCHANGED <<head, copy, current, generation, socket, serving>>
    BY <1>a, <1>1 DEF Applied, Task, log, server
  <2> QED
    BY <2>1, CarriesOn
<1>2. CASE Snapshot(t)
  <2> PICK u : u = [t EXCEPT !.pc = "answered", !.cursor = head]
    OBVIOUS
  <2>1. t.pc = "read" /\ u.pc = "answered" /\ Becomes(t, u)
        /\ UNCHANGED <<head, copy, current, generation, socket, serving>>
    BY <1>a, <1>2 DEF Snapshot, Task, log, server, client
  <2> QED
    BY <2>1, CarriesOn
<1>3. CASE ReadReturns(t) /\ Overtaken(t)
  BY <1>3, YieldLinks DEF ReadReturns
<1>4. CASE ReadReturns(t) /\ ~Overtaken(t)
  <2> PICK u : u = [t EXCEPT !.pc = "opening", !.sock = 0]
    OBVIOUS
  <2>1. t.pc = "answered" /\ u.pc = "opening" /\ Becomes(t, u)
        /\ UNCHANGED <<head, copy, current, generation>>
    BY <1>a, <1>4 DEF ReadReturns, Task, log
  <2>2. ~Fresh
    BY <1>4, <2>1 DEF Fresh, StreamInv, OwnerInv, Overtaken, InRebuild
  <2> QED
    BY <2>1, <2>2, CarriesOn
<1>5. CASE ReadFails(t) /\ Overtaken(t)
  BY <1>5, YieldLinks DEF ReadFails
<1>6. CASE ReadFails(t) /\ ~Overtaken(t)
  <2>1. t.pc \in InRebuild /\ t.pc # "timers"
    BY <1>6 DEF ReadFails, InRebuild
  <2> QED
    BY <1>6, <2>1, ThrowLinks DEF ReadFails
<1> QED
  BY <1>1, <1>2, <1>3, <1>4, <1>5, <1>6

(* The clock starts over from the snapshot: CurrentCopy's Replace.         *)
LEMMA OpensLinks ==
  ASSUME StreamInv, LinkInv, NEW t \in tasks, Opens(t)
  PROVE  Links
<1>a. t \in Task /\ t.cursor \in 0 .. head /\ head \in Nat /\ generation \in Nat
  BY CallFacts, StateFacts
<1>1. CASE Overtaken(t)
  BY <1>1, YieldLinks DEF Opens
<1>2. CASE ~Overtaken(t)
  <2> PICK u : u = [t EXCEPT !.pc = "timers", !.cursor = 0]
    OBVIOUS
  <2>1. /\ t.pc = "opening" /\ t.gen = generation /\ socket = t.gen /\ serving' = "checking"
        /\ u.pc = "timers" /\ u.gen = t.gen /\ u \in tasks'
        /\ UNCHANGED <<head, socket, current, generation>> /\ copy' = 1 .. t.cursor
    BY <1>a, <1>2 DEF Opens, Becomes, Overtaken, client, log, Task
  <2>2. ~current /\ copy \subseteq 1 .. t.cursor
    BY <1>2, <2>1 DEF StreamInv, OwnerInv, CopyInv, CallFits, InRebuild
  <2>3. PICK n \in 0 .. head : copy = 1 .. n
    BY DEF LinkInv
  <2>4. n <= t.cursor
    <3>1. n # 0 => n \in 1 .. n
      BY <2>3
    <3> QED
      BY <1>a, <2>2, <2>3, <3>1
  <2>5. Reflected = n
    BY <1>a, <2>3, Counted
  <2>6. Reflected' = t.cursor
    <3>1. \A m \in 0 .. head : 1 .. m = 1 .. t.cursor => m = t.cursor
      <4> SUFFICES ASSUME NEW m \in 0 .. head, 1 .. m = 1 .. t.cursor PROVE m = t.cursor
        OBVIOUS
      <4>1. (m \in 1 .. m <=> m # 0) /\ (t.cursor \in 1 .. t.cursor <=> t.cursor # 0)
        BY <1>a
      <4> QED
        BY <1>a, <4>1
    <3> QED
      BY <1>a, <2>1, <3>1 DEF Reflected
  <2>7. Fresh' = TRUE
    BY <2>1 DEF Fresh, Overtaken
  <2>8. LinkInv'
    BY <1>a, <2>1, <2>7 DEF LinkInv
  <2>9. t.cursor \in n .. head
    BY <1>a, <2>3, <2>4
  <2> QED
    BY <2>1, <2>2, <2>5, <2>6, <2>7, <2>8, <2>9 DEF Links, Contract!Next, Contract!Replace
<1> QED
  BY <1>1, <1>2

LEMMA OpenFailsLinks ==
  ASSUME StreamInv, LinkInv, NEW t \in tasks, OpenFails(t) \/ OpenAborted(t)
  PROVE  Links
<1>1. /\ t.pc = "opening" /\ UNCHANGED <<log, copy>>
      /\ IF Overtaken(t) THEN Yield(t) ELSE Throw(t)
      /\ Overtaken(t) => socket = t.gen \/ UNCHANGED <<socket, server>>
  BY DEF OpenFails, OpenAborted
<1>2. t.pc \in InRebuild /\ t.pc # "timers"
  BY <1>1 DEF InRebuild
<1> QED
  BY <1>1, <1>2, YieldLinks, ThrowLinks

(* CurrentCopy's Declare.                                                  *)
LEMMA RebuiltLinks ==
  ASSUME StreamInv, LinkInv, NEW t \in tasks, Rebuilt(t)
  PROVE  Links
<1>1. CASE Overtaken(t)
  BY <1>1, YieldLinks DEF Rebuilt
<1>2. CASE ~Overtaken(t)
  <2>1. /\ UNCHANGED <<head, copy, generation, socket, serving>> /\ current' = TRUE
        /\ t.pc = "timers"
    BY <1>2 DEF Rebuilt, log, server
  <2>2. Fresh = TRUE /\ Fresh' = TRUE
    BY <1>2, <2>1 DEF Fresh
  <2>3. Reflected' = Reflected /\ LinkInv'
    BY <2>1, <2>2 DEF Reflected, LinkInv
  <2> QED
    BY <2>1, <2>2, <2>3 DEF Links, Contract!Next, Contract!Declare
<1> QED
  BY <1>1, <1>2

LEMMA ReplayLinks ==
  ASSUME StreamInv, LinkInv, NEW t \in tasks, Replay(t) \/ Returns(t)
  PROVE  Links
<1>a. t \in Task /\ t.replay \in Seq(Sendable)
  BY CallFacts
<1>1. CASE Returns(t)
  <2>1. t.pc = "replay" /\ Done(t)
        /\ UNCHANGED <<head, copy, current, generation, socket, serving>>
    BY <1>1 DEF Returns, log, server, client
  <2> QED
    BY <2>1, CarriesOn
<1>2. CASE Replay(t)
  <2> PICK f : f = Head(t.replay)
    OBVIOUS
  <2> PICK rest : rest = [t EXCEPT !.replay = Tail(@)]
    OBVIOUS
  <2>0. /\ t.pc = "replay" /\ UNCHANGED <<head, serving, socket>> /\ t.replay # <<>>
    BY <1>2 DEF Replay, log, server
  <2>1. f \in Sendable
    BY <1>a, <2>0, TailSendable
  <2>2. \/ Ignored(f)  /\ Becomes(t, rest) /\ UNCHANGED <<client, copy>>
        \/ InOrder(f)  /\ Applying(f)
                       /\ Becomes(t, [rest EXCEPT !.pc = "applying", !.event = f.n])
        \/ Doubtful(f) /\ Stale /\ UNCHANGED copy
                       /\ Becomes(t, [rest EXCEPT !.pc = "read", !.gen = generation + 1,
                                                  !.replay = <<>>])
    BY <1>2 DEF Replay
  <2>3. /\ rest.pc = "replay"
        /\ [rest EXCEPT !.pc = "applying", !.event = f.n].pc = "applying"
        /\ [rest EXCEPT !.pc = "read", !.gen = generation + 1, !.replay = <<>>].pc = "read"
    BY <1>a, <2>0 DEF Task
  <2>4. CASE Becomes(t, rest) /\ UNCHANGED <<client, copy>>
    BY <2>0, <2>3, <2>4, CarriesOn DEF client
  <2>5. CASE /\ InOrder(f) /\ Applying(f)
             /\ Becomes(t, [rest EXCEPT !.pc = "applying", !.event = f.n])
    <3>1. Declaring' = Declaring
      BY <2>0, <2>3, <2>5 DEF Declaring, Becomes, Applying, client
    <3> QED
      BY <2>0, <2>1, <2>5, <3>1, ApplyLinks
  <2>6. CASE /\ Stale /\ UNCHANGED copy
             /\ Becomes(t, [rest EXCEPT !.pc = "read", !.gen = generation + 1,
                                        !.replay = <<>>])
    <3>1. /\ current' = FALSE /\ generation' = generation + 1
          /\ \A x \in tasks' : x \in tasks \/ x.pc # "timers"
      BY <2>3, <2>6 DEF Stale, Becomes
    <3> QED
      BY <2>0, <2>6, <3>1, NextGeneration
  <2> QED
    BY <2>2, <2>4, <2>5, <2>6
<1> QED
  BY <1>1, <1>2

LEMMA BeginsLinks ==
  ASSUME StreamInv, LinkInv, MissedKeepalive \/ Reconnect
  PROVE  Links
<1>1. PICK who \in {"watchdog", "reconnect"} :
        tasks' = tasks \cup {Called(who, "read")}
  BY DEF MissedKeepalive, Reconnect
<1>2. UNCHANGED <<head, copy>> /\ current' = FALSE /\ generation' = generation + 1
  BY DEF MissedKeepalive, Reconnect, Stale, log
<1>3. Called(who, "read").pc = "read"
  BY CalledFacts DEF Who, InRebuild
<1> QED
  BY <1>1, <1>2, <1>3, NextGeneration

LEMMA StepLinks ==
  ASSUME StreamInv, LinkInv, [Next]_vars
  PROVE  Links
<1>1. ASSUME NEW t \in tasks, Answer(t) \/ ReadFails(t) \/ OpenFails(t) PROVE Links
  BY <1>1, ReadLinks, OpensLinks, OpenFailsLinks, RebuiltLinks, ReplayLinks DEF Answer
<1>2. CASE UNCHANGED vars
  <2>1. UNCHANGED <<head, copy, current, generation, tasks, socket, serving>>
    BY <1>2 DEF vars, log, client, server
  <2>2. Declaring' = Declaring
    BY <2>1 DEF Declaring
  <2> QED
    BY <2>1, <2>2, QuietLinks
<1> QED
  BY <1>1, <1>2, StreamMovesLinks, ReceiveLinks, BeginsLinks DEF Next

LEMMA InitLinks ==
  ASSUME Init
  PROVE  LinkInv /\ Contract!Init
<1>1. /\ head \in Nat /\ generation = 1 /\ current = FALSE /\ copy = 1 .. 0
      /\ tasks = {[Called("start", "read") EXCEPT !.gen = 1]}
  BY StreamBounds DEF Init, StreamInit
<1>2. [Called("start", "read") EXCEPT !.gen = 1].pc = "read"
  BY DEF Called
<1>3. Fresh = FALSE
  BY <1>1, <1>2 DEF Fresh
<1>4. 0 \in 0 .. head
  BY <1>1
<1>5. Reflected = 0
  BY <1>1, <1>4, Counted
<1> QED
  BY <1>1, <1>3, <1>4, <1>5 DEF LinkInv, Contract!Init

LEMMA Linked == Spec => [](StreamInv /\ LinkInv)
<1>1. Init => StreamInv /\ LinkInv
  BY InitSafe, InitLinks
<1>2. StreamInv /\ LinkInv /\ [Next]_vars => (StreamInv /\ LinkInv)'
  BY StepSafe, StepLinks DEF Safe, Links
<1> QED
  BY <1>1, <1>2, PTL DEF Spec

(* While the clock may act, the transport listens to the socket that its   *)
(* last full read opened, and the API was asked to serve it.               *)
THEOREM CurrentlyConnected == Spec => []CurrentIsConnected
<1>1. StreamInv /\ LinkInv => CurrentIsConnected
  BY DEF LinkInv, Fresh, CurrentIsConnected
<1> QED
  BY <1>1, Linked, PTL

(* The consumer with its transport and runtime implements CurrentCopy.     *)
THEOREM StreamImplementsCopy == Spec => ImplementsCurrentCopy
<1>1. Init => Contract!Init
  BY InitLinks
<1>2. StreamInv /\ LinkInv /\ [Next]_vars => [Contract!Next]_(Contract!vars)
  BY StepLinks DEF Links
<1> QED
  BY <1>1, <1>2, Linked, PTL DEF Spec, ImplementsCurrentCopy, Contract!Spec
===============================================================================
