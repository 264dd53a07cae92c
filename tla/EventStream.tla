------------------------------ MODULE EventStream ------------------------------
(***************************************************************************)
(* The API's side of the scheduler's stream, and the network below it: the *)
(* event log, the loop of serveSchedulerStream that serves the subscriber's *)
(* socket, and what may befall a socket on the way.                        *)
(*                                                                         *)
(* One socket is modelled, the one the subscriber still listens to.  A     *)
(* socket it replaced is closed, and nothing of it is heard again.         *)
(***************************************************************************)
EXTENDS Naturals, Sequences, FiniteSets

CONSTANTS
  MaxHead,    \* bound: events the API commits
  MaxWire,    \* bound: frames before a keepalive, in flight or held
  MaxFaults   \* bound: things that go wrong

ASSUME StreamBounds == MaxHead \in Nat /\ MaxWire \in Nat \ {0} /\ MaxFaults \in Nat

VARIABLES
  head,     \* swarm_stream_head.seq
  retained, \* the numbers still in swarm_stream_events
  serving,  \* how far the serving loop is, "none" without a socket
  sent,     \* the last event the loop served, at first the cursor
  wire,     \* frames sent and not yet handled, in order
  faults    \* what went wrong so far

log    == <<head, retained>>
server == <<serving, sent, wire>>

Event(n)     == [type |-> "event", n |-> n]
Keepalive(n) == [type |-> "keepalive", n |-> n]
Resync       == [type |-> "resync", n |-> 0]
Closed       == [type |-> "closed", n |-> 0]
Frame        == [type : {"event", "keepalive", "resync", "closed"}, n : Nat]

StreamTypeOK ==
  /\ head \in Nat /\ retained \subseteq 1 .. head
  /\ serving \in {"none", "checking", "polling", "quiet", "ended", "stalled"}
  /\ sent \in Nat /\ wire \in Seq(Frame) /\ faults \in Nat

StreamInit ==
  /\ head \in 0 .. MaxHead /\ retained = 1 .. head
  /\ serving = "none" /\ sent = 0 /\ wire = <<>> /\ faults = 0

-------------------------------------------------------------------------------
(* A transition commits, and takes its number with it.                     *)
Commit ==
  /\ head < MaxHead
  /\ head' = head + 1 /\ retained' = retained \cup {head + 1}
  /\ UNCHANGED <<server, faults>>

Fault == faults < MaxFaults /\ faults' = faults + 1

(* The operator's prune.  It goes by the start of each event's transaction *)
(* and may leave a hole: numbers follow the commits.                       *)
Prune ==
  /\ Fault
  /\ \E gone \in SUBSET retained \ {{}} : retained' = retained \ gone
  /\ UNCHANGED <<head, server>>

-------------------------------------------------------------------------------
(* The last frames of a socket, then its close.                            *)
End(frames) ==
  /\ wire' = wire \o Append(frames, Closed)
  /\ serving' = "ended"
  /\ UNCHANGED sent

(* retainedFloor, or the number after the head when nothing is left.       *)
Floor == CHOOSE n \in retained \cup {head + 1} : \A m \in retained : n <= m

CannotServe(c) == c > head \/ c + 1 < Floor

(* resyncReasonFor, once per socket.                                       *)
CheckCursor ==
  /\ serving = "checking"
  /\ IF CannotServe(sent) THEN End(<<Resync>>)
                          ELSE serving' = "polling" /\ UNCHANGED <<sent, wire>>
  /\ UNCHANGED <<log, faults>>

Above(c) == {n \in retained : n > c}

(* The events that follow the last one served without a hole.              *)
Servable == {n \in Above(sent) : sent + 1 .. n \subseteq retained}

Batch(k) == [i \in 1 .. k |-> Event(sent + i)]

(* One poll that finds events: they go out in order, and where the next    *)
(* number is gone from the log the subscriber is told.                     *)
PollEvents ==
  /\ serving = "polling" /\ Above(sent) # {}
  /\ LET k == Cardinality(Servable) IN
     IF Servable = Above(sent)
     THEN wire' = wire \o Batch(k) /\ sent' = sent + k /\ UNCHANGED serving
     ELSE End(Append(Batch(k), Resync))
  /\ UNCHANGED <<log, faults>>

(* A poll that finds nothing; its keepalive reads the head afterwards.     *)
PollNothing ==
  /\ serving = "polling" /\ Above(sent) = {}
  /\ serving' = "quiet"
  /\ UNCHANGED <<log, sent, wire, faults>>

SendKeepalive ==
  /\ serving = "quiet" /\ Len(wire) < MaxWire
  /\ wire' = Append(wire, Keepalive(head))
  /\ serving' = "polling"
  /\ UNCHANGED <<log, sent, faults>>

(* The backlog passes its bound in the middle of a batch.                  *)
Overflow ==
  /\ serving = "polling" /\ Fault
  /\ \E k \in {n - sent - 1 : n \in Servable} : End(Append(Batch(k), Resync))
  /\ UNCHANGED log

(* A read of the log or of the counter fails.                              *)
Unavailable ==
  /\ serving \in {"checking", "polling", "quiet"} /\ Fault
  /\ End(<<Resync>>)
  /\ UNCHANGED log

-------------------------------------------------------------------------------
(* The network.  A connection breaks, or stalls without a close; what was  *)
(* not yet through is lost.  A hop may also lose one frame.                *)
Live == serving \in {"checking", "polling", "quiet"}

Break ==
  /\ Live /\ Fault
  /\ \E k \in 0 .. Len(wire) : wire' = Append(SubSeq(wire, 1, k), Closed)
  /\ serving' = "ended"
  /\ UNCHANGED <<log, sent>>

Stall ==
  /\ Live /\ Fault
  /\ \E k \in 0 .. Len(wire) : wire' = SubSeq(wire, 1, k)
  /\ serving' = "stalled"
  /\ UNCHANGED <<log, sent>>

LoseFrame ==
  /\ Fault
  /\ \E i \in DOMAIN wire :
       /\ wire[i].type # "closed"
       /\ wire' = SubSeq(wire, 1, i - 1) \o SubSeq(wire, i + 1, Len(wire))
  /\ UNCHANGED <<log, serving, sent>>

ServerStep  == CheckCursor \/ PollEvents \/ PollNothing \/ SendKeepalive
StreamFault == Prune \/ Overflow \/ Unavailable \/ Break \/ Stall \/ LoseFrame
StreamNext  == Commit \/ ServerStep \/ StreamFault
===============================================================================
