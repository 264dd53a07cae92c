----------------------------- MODULE StreamConsumer -----------------------------
(***************************************************************************)
(* The scheduler's side of the stream: SchedulerStreamConsumer, which says *)
(* when the clock's copy of the world is current, the transport that hands *)
(* it frames one at a time, and the runtime that reconnects.  Composed     *)
(* with the API's side, EventStream.                                       *)
(*                                                                         *)
(* The program is one thread of asynchronous calls.  A task is a call that *)
(* waits for an answer; everything between two awaits is one step.  A call *)
(* starts from the process start, from a frame, from the watchdog or from  *)
(* the reconnect loop, and may outlive the socket or the rebuild that it   *)
(* started under: that is why each rebuild takes a generation.             *)
(***************************************************************************)
EXTENDS EventStream

VARIABLES
  current,     \* the clock may act
  generation,  \* bumped by every rebuild and every drop
  cursor,      \* the cursor of the last full read
  lastApplied, \* the last event applied
  held,        \* frames that arrived during a rebuild
  tasks,       \* the calls that wait for an answer
  loop,        \* the reconnect loop: off, waiting out its backoff, rebuilding
  socket,      \* the generation that opened the socket listened to, or 0
  copy         \* the events that the clock's copy reflects

client == <<current, generation, cursor, lastApplied, held>>
vars   == <<log, server, faults, client, tasks, loop, socket, copy>>

Who == {"start", "frame", "watchdog", "reconnect"}

(* Where a call waits.  The first four are a rebuild in flight; then its   *)
(* held frames are handled; an event is applied by either of the two.      *)
InRebuild == {"read", "answered", "opening", "timers"}

Task == [who : Who, sock : Nat, gen : Nat, pc : InRebuild \cup {"replay", "applying"},
         cursor : Nat, event : Nat, replay : Seq(Frame)]

TypeOK ==
  /\ StreamTypeOK
  /\ current \in BOOLEAN /\ generation \in Nat /\ cursor \in Nat /\ lastApplied \in Nat
  /\ held \in Seq(Frame) /\ tasks \subseteq Task
  /\ loop \in {"off", "waiting", "rebuilding"}
  /\ socket \in 0 .. generation
  /\ cursor <= head /\ lastApplied <= head /\ copy \subseteq 1 .. head

Rebuilding(ts) == \E t \in ts : t.pc \in InRebuild
Overtaken(t)   == t.gen # generation
ChainFree      == \A t \in tasks : t.who = "frame" => t.sock # socket

(* A call that has just started, a rebuild of the next generation.         *)
Called(who, pc) ==
  [who |-> who, sock |-> IF who = "frame" THEN socket ELSE 0, gen |-> generation + 1,
   pc |-> pc, cursor |-> 0, event |-> 0, replay |-> <<>>]

Init ==
  /\ StreamInit
  /\ current = FALSE /\ generation = 1 /\ cursor = 0 /\ lastApplied = 0 /\ held = <<>>
  /\ tasks = {[Called("start", "read") EXCEPT !.gen = 1]}
  /\ loop = "off" /\ socket = 0 /\ copy = {}

-------------------------------------------------------------------------------
(* How calls end.                                                          *)

Becomes(t, u) == tasks' = (tasks \ {t}) \cup {u}

(* The reconnect loop leaves only with a current copy.                     *)
LoopAfter(t) == loop' = IF t.who # "reconnect" THEN loop
                        ELSE IF current THEN "off" ELSE "waiting"

Done(t) == tasks' = tasks \ {t} /\ LoopAfter(t)

(* A rebuild that ends undeclared gives its held frames to nobody, unless  *)
(* another rebuild is in flight.                                           *)
HeldWithout(t) == IF Rebuilding(tasks \ {t}) THEN held ELSE <<>>

(* An overtaken rebuild returns, with no further effect.                   *)
Yield(t) ==
  /\ Done(t) /\ held' = HeldWithout(t)
  /\ UNCHANGED <<current, generation, cursor, lastApplied>>

CloseStream == socket' = 0 /\ serving' = "none" /\ sent' = 0 /\ wire' = <<>>

StartLoop == loop' = IF loop = "off" THEN "waiting" ELSE loop

(* Mutant: the drop bumps no generation, so a rebuild in flight survives it. *)
Dropped_sameGeneration ==
  /\ current' = FALSE /\ held' = <<>>
  /\ UNCHANGED <<generation, cursor, lastApplied>>
  /\ StartLoop

(* runtime #dropped: stale first, then reconnect.                          *)
Dropped ==
  /\ current' = FALSE /\ generation' = generation + 1 /\ held' = <<>>
  /\ UNCHANGED <<cursor, lastApplied>>
  /\ StartLoop

(* A rebuild that could not read or subscribe throws to its caller: the    *)
(* runtime drops the connection, or the reconnect loop goes round again.   *)
Drops(t) == t.who \in {"frame", "watchdog"}

Throw(t) ==
  /\ tasks' = tasks \ {t}
  /\ IF Drops(t) THEN Dropped
     ELSE /\ current' = FALSE /\ held' = HeldWithout(t)
          /\ UNCHANGED <<generation, cursor, lastApplied>>
          /\ IF t.who = "start" THEN StartLoop ELSE loop' = "waiting"

-------------------------------------------------------------------------------
(* A frame against the copy.                                               *)

Ignored(f) ==
  \/ f.type = "event"     /\ (~current \/ f.n <= lastApplied)
  \/ f.type = "keepalive" /\ (~current \/ f.n <= lastApplied)

(* Mutant: an event above a gap is applied.                                *)
InOrder_anyAbove(f) == f.type = "event" /\ current /\ f.n > lastApplied

InOrder(f) == f.type = "event" /\ current /\ f.n = lastApplied + 1

(* Mutant: the head of a keepalive is not compared.                        *)
Doubtful_noHead(f) ==
  \/ f.type = "resync"
  \/ f.type = "event" /\ current /\ f.n > lastApplied + 1

Doubtful(f) ==
  \/ f.type = "resync"
  \/ f.type = "event"     /\ current /\ f.n > lastApplied + 1
  \/ f.type = "keepalive" /\ current /\ f.n > lastApplied

(* A rebuild begins: nothing is current from here on.                      *)
Stale ==
  /\ current' = FALSE /\ generation' = generation + 1
  /\ UNCHANGED <<cursor, lastApplied, held>>

(* The copy reflects an event from when its application begins.            *)
Applying(f) == copy' = copy \cup {f.n} /\ UNCHANGED client

(* The transport takes the next frame off the socket.                      *)
Arrives(f) ==
  /\ socket # 0 /\ wire # <<>> /\ ChainFree
  /\ f = Head(wire) /\ wire' = Tail(wire)

ReceiveHeld ==
  \E f \in {wire[i] : i \in DOMAIN wire} :
    /\ Arrives(f) /\ f.type # "closed" /\ Rebuilding(tasks)
    /\ f.type = "keepalive" => Len(held) < MaxWire
    /\ held' = Append(held, f)
    /\ UNCHANGED <<log, serving, sent, faults, current, generation, cursor, lastApplied,
                   tasks, loop, socket, copy>>

Receive ==
  \E f \in {wire[i] : i \in DOMAIN wire} :
    /\ Arrives(f) /\ f.type # "closed" /\ ~Rebuilding(tasks)
    /\ \/ Ignored(f)  /\ UNCHANGED <<client, tasks, copy>>
       \/ InOrder(f)  /\ Applying(f)
                      /\ tasks' = tasks \cup {[Called("frame", "applying") EXCEPT !.event = f.n, !.gen = 0]}
       \/ Doubtful(f) /\ Stale /\ UNCHANGED copy
                      /\ tasks' = tasks \cup {Called("frame", "read")}
    /\ UNCHANGED <<log, serving, sent, faults, loop, socket>>

(* The close is reported after every frame before it was handled.          *)
ReceiveClose ==
  /\ socket # 0 /\ wire # <<>> /\ ChainFree /\ Head(wire) = Closed
  /\ Dropped /\ CloseStream
  /\ UNCHANGED <<log, faults, tasks, copy>>

(* The application of an event is answered; the number is recorded, be the *)
(* copy still the one it was applied to or not.                            *)
Applied(t) ==
  /\ t.pc = "applying"
  /\ lastApplied' = t.event
  /\ IF t.who = "frame" /\ t.replay = <<>>
     THEN Done(t)
     ELSE Becomes(t, [t EXCEPT !.pc = "replay", !.event = 0]) /\ UNCHANGED loop
  /\ UNCHANGED <<log, server, faults, current, generation, cursor, held, socket, copy>>

-------------------------------------------------------------------------------
(* #rebuild, from the full read to the replay of the held frames.          *)

(* Mutant: the cursor is the next number instead of the last.              *)
Snapshot_next(t) ==
  /\ t.pc = "read"
  /\ Becomes(t, [t EXCEPT !.pc = "answered", !.cursor = head + 1])
  /\ UNCHANGED <<log, server, faults, client, loop, socket, copy>>

(* The API takes the snapshot and its cursor in one transaction.           *)
Snapshot(t) ==
  /\ t.pc = "read"
  /\ Becomes(t, [t EXCEPT !.pc = "answered", !.cursor = head])
  /\ UNCHANGED <<log, server, faults, client, loop, socket, copy>>

ReadFails(t) ==
  /\ t.pc \in {"read", "answered"} /\ Fault
  /\ IF Overtaken(t) THEN Yield(t) ELSE Throw(t)
  /\ IF ~Overtaken(t) /\ Drops(t) THEN CloseStream ELSE UNCHANGED <<socket, server>>
  /\ UNCHANGED <<log, copy>>

(* Mutant: an overtaken rebuild goes on with its older snapshot.           *)
ReadReturns_overtaken(t) ==
  /\ t.pc = "answered"
  /\ cursor' = t.cursor /\ lastApplied' = t.cursor
  /\ Becomes(t, [t EXCEPT !.pc = "opening", !.sock = 0])
  /\ socket' = t.gen /\ serving' = "none" /\ sent' = 0 /\ wire' = <<>>
  /\ UNCHANGED <<current, generation, held, loop, log, faults, copy>>

(* The snapshot arrives; the socket is replaced by one that is opening.    *)
ReadReturns(t) ==
  /\ t.pc = "answered"
  /\ IF Overtaken(t) THEN Yield(t) /\ UNCHANGED <<socket, server>>
     ELSE /\ cursor' = t.cursor /\ lastApplied' = t.cursor
          /\ Becomes(t, [t EXCEPT !.pc = "opening", !.sock = 0])
          /\ socket' = t.gen /\ serving' = "none" /\ sent' = 0 /\ wire' = <<>>
          /\ UNCHANGED <<current, generation, held, loop>>
  /\ UNCHANGED <<log, faults, copy>>

(* The socket opens; the clock starts over from the snapshot.              *)
Opens(t) ==
  /\ t.pc = "opening" /\ socket = t.gen
  /\ serving' = "checking" /\ sent' = t.cursor /\ wire' = <<>>
  /\ IF Overtaken(t) THEN Yield(t) /\ UNCHANGED copy
     ELSE /\ Becomes(t, [t EXCEPT !.pc = "timers", !.cursor = 0])
          /\ copy' = 1 .. t.cursor
          /\ UNCHANGED <<client, loop>>
  /\ UNCHANGED <<log, faults, socket>>

(* The socket is refused, or does not open in time.                        *)
OpenFails(t) ==
  /\ t.pc = "opening" /\ socket = t.gen /\ Fault
  /\ IF Overtaken(t) THEN Yield(t) ELSE Throw(t)
  /\ CloseStream
  /\ UNCHANGED <<log, copy>>

(* It was replaced or closed before it opened.                             *)
OpenAborted(t) ==
  /\ t.pc = "opening" /\ socket # t.gen
  /\ IF Overtaken(t) THEN Yield(t) ELSE Throw(t)
  /\ IF ~Overtaken(t) /\ Drops(t) THEN CloseStream ELSE UNCHANGED <<socket, server>>
  /\ UNCHANGED <<log, faults, copy>>

(* Mutant: the copy is declared current although the rebuild was overtaken. *)
Rebuilt_overtaken(t) ==
  /\ t.pc = "timers"
  /\ current' = TRUE /\ held' = <<>>
  /\ Becomes(t, [t EXCEPT !.pc = "replay", !.replay = held])
  /\ UNCHANGED <<generation, cursor, lastApplied, loop,
                 log, server, faults, socket, copy>>

(* The timers are set.  The copy is current if nothing happened meanwhile. *)
Rebuilt(t) ==
  /\ t.pc = "timers"
  /\ IF Overtaken(t) THEN Yield(t)
     ELSE /\ current' = TRUE /\ held' = <<>>
          /\ Becomes(t, [t EXCEPT !.pc = "replay", !.replay = held])
          /\ UNCHANGED <<generation, cursor, lastApplied, loop>>
  /\ UNCHANGED <<log, server, faults, socket, copy>>

(* The held frames, until one of them, or anything else, starts over.      *)
Replay(t) ==
  /\ t.pc = "replay" /\ ~Overtaken(t) /\ t.replay # <<>>
  /\ LET f == Head(t.replay)  rest == [t EXCEPT !.replay = Tail(@)] IN
     \/ Ignored(f)  /\ Becomes(t, rest) /\ UNCHANGED <<client, copy>>
     \/ InOrder(f)  /\ Applying(f)
                    /\ Becomes(t, [rest EXCEPT !.pc = "applying", !.event = f.n])
     \/ Doubtful(f) /\ Stale /\ UNCHANGED copy
                    /\ Becomes(t, [rest EXCEPT !.pc = "read", !.gen = generation + 1,
                                               !.replay = <<>>])
  /\ UNCHANGED <<log, server, faults, loop, socket>>

Returns(t) ==
  /\ t.pc = "replay" /\ (Overtaken(t) \/ t.replay = <<>>)
  /\ Done(t)
  /\ UNCHANGED <<log, server, faults, client, socket, copy>>

-------------------------------------------------------------------------------
(* The runtime.                                                            *)

(* The watchdog finds no keepalive within the budget: the socket stalled,  *)
(* or the frames wait behind a slow one.                                   *)
MissedKeepalive ==
  /\ current /\ \A t \in tasks : t.who # "watchdog"
  /\ IF serving = "stalled" THEN UNCHANGED faults ELSE Fault
  /\ Stale
  /\ tasks' = tasks \cup {Called("watchdog", "read")}
  /\ UNCHANGED <<log, server, loop, socket, copy>>

Reconnect ==
  /\ loop = "waiting"
  /\ loop' = "rebuilding"
  /\ Stale
  /\ tasks' = tasks \cup {Called("reconnect", "read")}
  /\ UNCHANGED <<log, server, faults, socket, copy>>

StreamMoves ==
  /\ StreamNext
  /\ UNCHANGED <<client, tasks, loop, socket, copy>>

Answer(t) ==
  \/ Applied(t) \/ Snapshot(t) \/ ReadReturns(t) \/ Opens(t)
  \/ OpenAborted(t) \/ Rebuilt(t) \/ Replay(t) \/ Returns(t)

Next ==
  \/ StreamMoves
  \/ ReceiveHeld \/ Receive \/ ReceiveClose
  \/ \E t \in tasks : Answer(t) \/ ReadFails(t) \/ OpenFails(t)
  \/ MissedKeepalive \/ Reconnect

Spec == Init /\ [][Next]_vars

(* The API polls and beats, the transport hands frames on, calls are       *)
(* answered (every request has a ceiling), the watchdog and the reconnect  *)
(* loop run on timers.  Nothing has to commit, and nothing has to fail.    *)
Fairness ==
  /\ WF_vars(StreamMoves /\ CheckCursor) /\ WF_vars(StreamMoves /\ PollEvents)
  /\ WF_vars(StreamMoves /\ PollNothing) /\ WF_vars(StreamMoves /\ SendKeepalive)
  /\ WF_vars(ReceiveHeld \/ Receive \/ ReceiveClose)
  /\ \A w \in Who : WF_vars(\E t \in tasks : t.who = w /\ Answer(t))
  /\ WF_vars(serving = "stalled" /\ MissedKeepalive)
  /\ WF_vars(Reconnect)

FairSpec == Spec /\ Fairness

-------------------------------------------------------------------------------
(* Properties.                                                             *)

Fresh == current \/ \E t \in tasks : t.pc = "timers" /\ ~Overtaken(t)

Reflected == CHOOSE n \in 0 .. head : copy = 1 .. n

(* The copy of a current clock reflects every event up to the last one     *)
(* applied, whatever rebuilds and applications overlapped before           *)
(* (system-scheduler-spec.md 3.1: "with no gap").                          *)
CopyIsComplete ==
  /\ \A n \in copy : 1 .. n \subseteq copy
  /\ current => 1 .. lastApplied \subseteq copy

(* While the copy is current the transport listens to a socket that the    *)
(* API was asked to serve: no drop was reported that the copy outlived     *)
(* (spec 3.1: "its stream connection is live").                            *)
CurrentIsConnected == current => socket # 0 /\ serving # "none"

(* The inductive invariant behind CopyIsComplete.  No frame names an event *)
(* that did not commit; at most one rebuild may still take effect, and the *)
(* copy is stale until it has; its snapshot is no older than the copy that *)
(* it replaces; and what is being applied is already in the copy.          *)
Sendable == {f \in Frame : f.type = "event" => f.n <= head}

FramesInv == sent <= head /\ wire \in Seq(Sendable) /\ held \in Seq(Sendable)

CallsInv ==
  \A t \in tasks : /\ t.gen <= generation /\ t.cursor <= head /\ t.event <= head
                  /\ t.replay \in Seq(Sendable)

OwnerInv ==
  \A t \in tasks : t.pc \in InRebuild =>
    /\ ~Overtaken(t) => ~current
    /\ \A u \in tasks : u.pc \in InRebuild /\ u.gen = t.gen => u = t

CallFits(t) ==
  /\ t.pc = "applying" => 1 .. t.event \subseteq copy
  /\ ~Overtaken(t) =>
       /\ t.pc = "answered" => copy \subseteq 1 .. t.cursor /\ cursor <= t.cursor
       /\ t.pc = "opening"  => copy \subseteq 1 .. t.cursor /\ lastApplied <= t.cursor
       /\ t.pc = "timers"   => 1 .. lastApplied \subseteq copy

CopyInv == CopyIsComplete /\ \A t \in tasks : CallFits(t)

StreamInv == TypeOK /\ FramesInv /\ CallsInv /\ OwnerInv /\ CopyInv

(* Behind CurrentIsConnected and the refinement: what is current, or about *)
(* to be, was read over the newest socket, and the copy has no holes.      *)
LinkInv ==
  /\ generation # 0
  /\ Fresh => socket = generation /\ serving # "none"
  /\ \E n \in 0 .. head : copy = 1 .. n

(* A rebuild that was overtaken never brings an older world back: the copy *)
(* loses no event, and the cursor never moves back.                        *)
NeverOlder == [][copy \subseteq copy' /\ cursor' >= cursor]_vars

(* The consumer implements the abstract contract: the copy grows by the    *)
(* next event while it is current, is replaced while it is not, and after  *)
(* a doubt only a full read that finished under it makes it current.       *)
Contract == INSTANCE CurrentCopy WITH copy <- Reflected, fresh <- Fresh
ImplementsCurrentCopy == Contract!Spec

(* Once nothing goes wrong any more the clock becomes current, with all    *)
(* that was committed, and stays so: lost frames, stalls, prunes and       *)
(* overtaken rebuilds included.                                            *)
CatchesUp == <>[](current /\ copy = 1 .. head)

===============================================================================
