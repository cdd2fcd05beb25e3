-------------------------- MODULE ClientFlowProofs --------------------------
(***************************************************************************)
(* For every number of calls, buffer size, batch size and traffic: what a  *)
(* stream carries, in both directions, and how it ends.  It rests on the   *)
(* bookkeeping of tags proved in ClientProofs and on the facts about the   *)
(* deque proved in ReadyQueueProofs.                                       *)
(***************************************************************************)
EXTENDS ClientProofs, ReadyQueueProofs

\* The write side: what was accepted is on the wire or in the queue, in order.
WriteFlow(s, n) ==
    /\ s.write_inflight \/ s.wdone_inflight => ~s.broken
    /\ ~s.broken =>
         /\ n.written + Len(s.write_queue) = n.accepted
         /\ \A k \in 1..Len(s.write_queue) : s.write_queue[k] = n.written + k
    /\ Len(s.write_queue) <= s.write_cap

\* The read side: a read is in flight only where there is room for its message.
ReadRoom(s) == s.read_cap > 0 => s.unread < s.read_cap
ReadFlow(s) ==
    /\ s.read_cap > 0 => s.unread <= s.read_cap
    /\ s.read_inflight => ReadRoom(s)
    /\ ~s.started => s.unread = 0

\* The end: Finish is wanted after a failed operation or the last read, and
\* the last read of an unbroken stream saw the call dead or all its messages.
EndFlow(s, n) ==
    /\ s.want_finish => s.broken \/ s.reads_closed
    /\ s.reads_closed /\ ~s.broken =>
         n.wire = "dead" \/ (n.wire = "ended" /\ n.taken = n.inbound)

Flow(s, n) == WriteFlow(s, n) /\ ReadFlow(s) /\ EndFlow(s, n)

\* The messages of stream i in the deque go on from those R has had; while the
\* stream is unbroken these are all that were read; and unread counts them.
MsgFlow(i) ==
    /\ Numbered(Msgs(ready, i), handed[i].msgs)
    /\ phase # "closed" /\ ~st[i].broken =>
         handed[i].msgs + Cardinality(Msgs(ready, i)) = net[i].taken
    /\ i \in streams => st[i].unread = Cardinality(Msgs(ready, i))

\* A queued status: its stream is over, and the peer's own comes after all
\* the peer sent, unless a send had failed.
StatusFlow(e) ==
    e.kind = "stream_status" =>
        /\ st[e.id].status_emitted
        /\ e.val = 0 /\ ~st[e.id].broken => net[e.id].taken = net[e.id].inbound

\* An id that is still to be given out.
Unused(i) ==
    /\ i \notin calls /\ i \notin streams /\ net[i].wire = "none"
    /\ net[i].accepted = 0 /\ net[i].written = 0 /\ net[i].inbound = 0 /\ net[i].taken = 0
    /\ handed[i].msgs = 0 /\ ~handed[i].over
    /\ \A e \in ready : e.id # i

\* join() returned because the completion queue was empty.
Closed == phase = "closed" => ready = {} /\ unary = {} /\ \A i \in Ids : st[i].ops = {}

\* The inductive invariant, on top of IInv.
FlowInv ==
    /\ \A i \in Ids : Flow(st[i], net[i]) /\ MsgFlow(i)
    /\ \A e \in ready : StatusFlow(e)
    /\ \A i \in Ids : i >= next_id => Unused(i)
    /\ Closed

\* The fate of a call: in flight, or its terminal event queued last, or handed.
EventsOf(i) == {e \in ready : e.id = i}
EndOf(i) == {e \in ready : e.id = i /\ e.kind \in Terminal}
Fate(i) ==
    \/ i \in calls \cup streams /\ EndOf(i) = {} /\ ~handed[i].over
    \/ /\ i \notin calls \cup streams /\ ~handed[i].over
       /\ \E e \in ready : EndOf(i) = {e} /\ \A f \in EventsOf(i) : f.stamp <= e.stamp
    \/ i \notin calls \cup streams /\ handed[i].over /\ EventsOf(i) = {}
FateInv ==
    phase = "open" =>
        /\ calls \cap streams = {}
        /\ \A i \in Ids : i < next_id => Fate(i)

-----------------------------------------------------------------------------
(* The helpers of client.cpp, seen from the flow.                          *)

\* Equal in everything the flow of messages depends on, but not in the flags
\* of operations in flight.
Kept(s, t) ==
    /\ t.unread = s.unread /\ t.read_cap = s.read_cap /\ t.write_cap = s.write_cap
    /\ t.started = s.started /\ t.reads_closed = s.reads_closed /\ t.broken = s.broken
    /\ t.want_finish = s.want_finish /\ t.write_queue = s.write_queue

\* Tags aside, a stream with the same fields has the same flow.
LEMMA FlowSame ==
    ASSUME NEW s, NEW t, NEW n, SameButTags(s, t), Flow(s, n)
    PROVE  Flow(t, n) /\ Kept(s, t)
BY DEF SameButTags, Flow, WriteFlow, ReadFlow, ReadRoom, EndFlow, Kept

\* Posting and retiring a tag.
LEMMA PostSame ==
    ASSUME NEW s \in Stream, NEW op \in OpKinds
    PROVE  Post(s, op) \in Stream /\ SameButTags(s, Post(s, op))
<1>1. s.pending + 1 \in Nat /\ s.ops \cup {op} \in SUBSET OpKinds
  BY DEF Stream
<1> QED
  BY <1>1 DEF Post, Stream, SameButTags

LEMMA PostReadFlow ==
    ASSUME NEW s \in Stream, NEW n, Flow(s, n), ReadRoom(s), NEW t, t = s_post_read_locked(s)
    PROVE  t \in Stream /\ Flow(t, n) /\ Kept(s, t)
<1>1. CASE t = s
  BY <1>1 DEF Kept
<1>2. CASE t # s
  <2> DEFINE u == [s EXCEPT !.read_inflight = TRUE]
  <2>1. t = Post(u, "read")
    BY <1>2 DEF s_post_read_locked
  <2>2. /\ u \in Stream /\ Kept(s, u) /\ u.write_inflight = s.write_inflight
        /\ u.wdone_inflight = s.wdone_inflight
    BY DEF Stream, Kept
  <2> HIDE DEF u
  <2>3. Flow(u, n)
    BY <2>2 DEF Flow, WriteFlow, ReadFlow, ReadRoom, EndFlow, Kept
  <2>4. t \in Stream /\ SameButTags(u, t)
    BY <2>1, <2>2, PostSame DEF OpKinds
  <2>5. Flow(t, n) /\ Kept(u, t)
    BY <2>3, <2>4, FlowSame
  <2> QED
    BY <2>2, <2>4, <2>5 DEF Kept
<1> QED
  BY <1>1, <1>2

LEMMA PumpFlow ==
    ASSUME NEW s \in Stream, NEW n, Flow(s, n), NEW t, t = s_pump_writes_locked(s)
    PROVE  t \in Stream /\ Flow(t, n) /\ Kept(s, t)
<1>1. CASE t = s
  BY <1>1 DEF Kept
<1>2. ASSUME NEW u, NEW op \in OpKinds, u \in Stream, Kept(s, u), ~s.broken,
             u.read_inflight = s.read_inflight, t = Post(u, op)
      PROVE  t \in Stream /\ Flow(t, n) /\ Kept(s, t)
  <2>1. Flow(u, n)
    BY <1>2 DEF Flow, WriteFlow, ReadFlow, ReadRoom, EndFlow, Kept
  <2>2. t \in Stream /\ SameButTags(u, t)
    BY <1>2, PostSame
  <2>3. Flow(t, n) /\ Kept(u, t)
    BY <2>1, <2>2, FlowSame
  <2> QED
    BY <1>2, <2>2, <2>3 DEF Kept
<1>3. CASE t # s /\ s.write_queue # <<>>
  <2> DEFINE u == [s EXCEPT !.write_inflight = TRUE]
  <2>1. t = Post(u, "write") /\ ~s.broken /\ "write" \in OpKinds
    BY <1>3 DEF s_pump_writes_locked, OpKinds
  <2>2. u \in Stream /\ Kept(s, u) /\ u.read_inflight = s.read_inflight
    BY DEF Stream, Kept
  <2> HIDE DEF u
  <2> QED
    BY <2>1, <2>2, <1>2
<1>4. CASE t # s /\ s.write_queue = <<>>
  <2> DEFINE u == [s EXCEPT !.wdone_inflight = TRUE]
  <2>1. t = Post(u, "wdone") /\ ~s.broken /\ "wdone" \in OpKinds
    BY <1>4 DEF s_pump_writes_locked, OpKinds
  <2>2. u \in Stream /\ Kept(s, u) /\ u.read_inflight = s.read_inflight
    BY DEF Stream, Kept
  <2> HIDE DEF u
  <2> QED
    BY <2>1, <2>2, <1>2
<1> QED
  BY <1>1, <1>3, <1>4

LEMMA TryFinishFlow ==
    ASSUME NEW s \in Stream, NEW n, Flow(s, n), NEW t, t = s_try_finish_locked(s)
    PROVE  t \in Stream /\ Flow(t, n) /\ Kept(s, t)
<1>1. CASE t = s
  BY <1>1 DEF Kept
<1>2. CASE t # s
  <2> DEFINE u == [s EXCEPT !.finish_posted = TRUE]
  <2>1. t = Post(u, "finish")
    BY <1>2 DEF s_try_finish_locked
  <2>2. /\ u \in Stream /\ Kept(s, u) /\ u.read_inflight = s.read_inflight
        /\ u.write_inflight = s.write_inflight /\ u.wdone_inflight = s.wdone_inflight
    BY DEF Stream, Kept
  <2> HIDE DEF u
  <2>3. Flow(u, n)
    BY <2>2 DEF Flow, WriteFlow, ReadFlow, ReadRoom, EndFlow, Kept
  <2>4. t \in Stream /\ SameButTags(u, t)
    BY <2>1, <2>2, PostSame DEF OpKinds
  <2>5. Flow(t, n) /\ Kept(u, t)
    BY <2>3, <2>4, FlowSame
  <2> QED
    BY <2>2, <2>4, <2>5 DEF Kept
<1> QED
  BY <1>1, <1>2

-----------------------------------------------------------------------------
(* The completion cases, seen from the flow.                               *)

\* The stream the handler starts from: the one the tag was found in, less the tag.
LEMMA RetireFlow ==
    ASSUME NEW s, StreamInv(s), NEW op \in s.ops, NEW n, Flow(s, n)
    PROVE  /\ Retire(s, op) \in Stream /\ SameButTags(s, Retire(s, op))
           /\ Flow(Retire(s, op), n) /\ Kept(s, Retire(s, op))
BY RetireLemma, FlowSame DEF StreamInv, FlagsTellTags

LEMMA CapType ==
    ASSUME NEW s \in Stream
    PROVE  s.read_cap \in Nat /\ s.write_cap \in Nat /\ s.unread \in Int
BY ClientAssumption DEF Stream, ClientAssumption

LEMMA StartFlow ==
    ASSUME NEW s, StreamInv(s), "start" \in s.ops, NEW n, Flow(s, n), NEW ok \in BOOLEAN,
           NEW t, t = AfterStart(Retire(s, "start"), ok)
    PROVE  Flow(t, n) /\ t.unread = s.unread /\ (s.broken => t.broken)
<1> DEFINE r == Retire(s, "start")
<1>1. r \in Stream /\ SameButTags(s, r) /\ Flow(r, n) /\ t = AfterStart(r, ok)
  BY RetireFlow
<1>2. ~r.started /\ r.unread = s.unread /\ r.broken = s.broken /\ ~r.write_inflight /\ ~r.wdone_inflight
  BY <1>1 DEF StreamInv, FlagsTellTags, LifeOrder, SameButTags
<1> HIDE DEF r
<1>3. CASE ok
  <2> DEFINE a == [r EXCEPT !.started = TRUE]
             b == s_post_read_locked(a)
             c == s_pump_writes_locked(b)
  <2>1. t = s_try_finish_locked(c)
    BY <1>1, <1>3 DEF AfterStart
  <2>2. a \in Stream
    BY <1>1 DEF Stream
  <2>3. Flow(a, n) /\ ReadRoom(a) /\ a.unread = s.unread /\ a.broken = s.broken
    <3>1. r.unread = 0
      BY <1>1, <1>2 DEF Flow, ReadFlow
    <3> QED
      BY <1>1, <1>2, <3>1 DEF Flow, WriteFlow, ReadFlow, ReadRoom, EndFlow, Stream
  <2> HIDE DEF a
  <2>4. b \in Stream /\ Flow(b, n) /\ Kept(a, b)
    BY <2>2, <2>3, PostReadFlow
  <2> HIDE DEF b
  <2>5. c \in Stream /\ Flow(c, n) /\ Kept(b, c)
    BY <2>4, PumpFlow
  <2> HIDE DEF c
  <2>6. Flow(t, n) /\ Kept(c, t)
    BY <2>1, <2>5, TryFinishFlow
  <2> QED
    BY <2>3, <2>4, <2>5, <2>6 DEF Kept
<1>4. CASE ~ok
  <2> DEFINE a == [r EXCEPT !.broken = TRUE, !.started = TRUE, !.want_finish = TRUE]
  <2>1. t = s_try_finish_locked(a)
    BY <1>1, <1>4 DEF AfterStart
  <2>2. a \in Stream /\ a.unread = s.unread /\ a.broken
    BY <1>1, <1>2 DEF Stream
  <2>3. Flow(a, n)
    BY <1>1, <1>2 DEF Flow, WriteFlow, ReadFlow, ReadRoom, EndFlow, Stream
  <2> HIDE DEF a
  <2>4. Flow(t, n) /\ Kept(a, t)
    BY <2>1, <2>2, <2>3, TryFinishFlow
  <2> QED
    BY <2>2, <2>4 DEF Kept
<1> QED
  BY <1>3, <1>4

\* A read takes the next message off the wire, or finds there is none to come.
ReadFrom(n, m, ok) ==
    /\ m.wire = n.wire /\ m.inbound = n.inbound
    /\ m.accepted = n.accepted /\ m.written = n.written
    /\ ok => n.taken # n.inbound
    /\ ~ok => m.taken = n.taken /\ (n.wire = "dead" \/ (n.wire = "ended" /\ n.taken = n.inbound))

LEMMA ReadsFlow ==
    ASSUME NEW s, StreamInv(s), "read" \in s.ops, NEW n, Flow(s, n), NEW ok \in BOOLEAN,
           NEW m, ReadFrom(n, m, ok), NEW t, t = AfterRead(Retire(s, "read"), ok)
    PROVE  /\ Flow(t, m) /\ t.broken = s.broken
           /\ ok /\ ~s.broken => t.unread = s.unread + 1
           /\ ~(ok /\ ~s.broken) => t.unread = s.unread
<1> DEFINE r == Retire(s, "read")
<1>1. r \in Stream /\ SameButTags(s, r) /\ Flow(r, n) /\ t = AfterRead(r, ok)
  BY RetireFlow
<1>2. r.started /\ r.read_inflight /\ r.unread = s.unread /\ r.broken = s.broken
  BY <1>1 DEF StreamInv, FlagsTellTags, LifeOrder, SameButTags
<1> HIDE DEF r
<1>3. ok => Flow(r, m)
  BY <1>1 DEF Flow, WriteFlow, ReadFlow, ReadRoom, EndFlow, ReadFrom
<1>4. CASE ok /\ ~s.broken
  <2> DEFINE a == [r EXCEPT !.read_inflight = FALSE, !.unread = @ + 1]
             b == IF a.unread < a.read_cap THEN s_post_read_locked(a) ELSE a
  <2>1. t = s_try_finish_locked(b)
    BY <1>1, <1>2, <1>4 DEF AfterRead
  <2>2. r.unread + 1 \in Int /\ r.read_cap \in Nat /\ r.unread \in Int
    BY <1>1, CapType
  <2>3. /\ a \in Stream /\ a.unread = r.unread + 1 /\ a.broken = r.broken /\ a.read_cap = r.read_cap
        /\ a.started = r.started /\ ~a.read_inflight /\ a.write_queue = r.write_queue
        /\ a.write_inflight = r.write_inflight /\ a.wdone_inflight = r.wdone_inflight
        /\ a.write_cap = r.write_cap /\ a.want_finish = r.want_finish /\ a.reads_closed = r.reads_closed
    BY <1>1, <2>2 DEF Stream
  <2> HIDE DEF a
  <2>4. Flow(a, m)
    <3>1. ReadFlow(a)
      BY <1>2, <1>3, <1>4, <2>2, <2>3 DEF Flow, ReadFlow, ReadRoom
    <3>2. WriteFlow(a, m) /\ EndFlow(a, m)
      BY <1>3, <1>4, <2>3 DEF Flow, WriteFlow, EndFlow
    <3> QED
      BY <3>1, <3>2 DEF Flow
  <2>5. b \in Stream /\ Flow(b, m) /\ Kept(a, b)
    <3>1. CASE a.unread < a.read_cap
      BY <2>3, <2>4, <3>1, PostReadFlow DEF ReadRoom
    <3>2. CASE ~(a.unread < a.read_cap)
      BY <2>3, <2>4, <3>2 DEF Kept
    <3> QED
      BY <3>1, <3>2
  <2> HIDE DEF b
  <2>6. Flow(t, m) /\ Kept(b, t)
    BY <2>1, <2>5, TryFinishFlow
  <2> QED
    BY <1>2, <1>4, <2>3, <2>5, <2>6 DEF Kept
<1>5. CASE ~(ok /\ ~s.broken)
  <2> DEFINE a == [r EXCEPT !.read_inflight = FALSE, !.reads_closed = TRUE, !.want_finish = TRUE]
  <2>1. t = s_try_finish_locked(a)
    BY <1>1, <1>2, <1>5 DEF AfterRead
  <2>2. a \in Stream /\ a.unread = s.unread /\ a.broken = s.broken
    BY <1>1, <1>2 DEF Stream
  <2>3. Flow(a, m)
    BY <1>1, <1>2, <1>5 DEF Flow, WriteFlow, ReadFlow, ReadRoom, EndFlow, Stream, ReadFrom
  <2> HIDE DEF a
  <2>4. Flow(t, m) /\ Kept(a, t)
    BY <2>1, <2>2, <2>3, TryFinishFlow
  <2> QED
    BY <1>5, <2>2, <2>4 DEF Kept
<1> QED
  BY <1>4, <1>5

\* A write puts the head of the queue on the wire.
WroteTo(n, m, q, ok) ==
    /\ m.wire = n.wire /\ m.inbound = n.inbound /\ m.taken = n.taken /\ m.accepted = n.accepted
    /\ ok => m.written = Head(q)
    /\ ~ok => m.written = n.written

\* The head of the queue is the next number, and the tail goes on from it.
LEMMA QueueMoves ==
    ASSUME NEW q \in Seq(1..MaxSends), q # <<>>, NEW w \in Nat,
           \A k \in 1..Len(q) : q[k] = w + k
    PROVE  /\ Head(q) = w + 1 /\ Tail(q) \in Seq(1..MaxSends) /\ Len(Tail(q)) = Len(q) - 1
           /\ Len(q) \in Nat
           /\ \A k \in 1..Len(Tail(q)) : Tail(q)[k] = Head(q) + k
<1>1. /\ Len(q) \in Nat \ {0} /\ Head(q) = q[1]
      /\ Tail(q) \in Seq(1..MaxSends) /\ Len(Tail(q)) = Len(q) - 1
      /\ \A k \in 1..Len(Tail(q)) : Tail(q)[k] = q[k + 1]
  BY HeadTailProperties, EmptySeq, LenProperties
<1>2. Head(q) = w + 1
  BY <1>1
<1>3. ASSUME NEW k \in 1..Len(Tail(q)) PROVE Tail(q)[k] = Head(q) + k
  <2>1. k + 1 \in 1..Len(q) /\ k \in Nat
    BY <1>1
  <2>2. Tail(q)[k] = w + (k + 1)
    BY <1>1, <2>1
  <2>3. w + (k + 1) = (w + 1) + k
    BY <2>1
  <2> QED
    BY <1>2, <2>2, <2>3
<1> QED
  BY <1>1, <1>2, <1>3

LEMMA WritesFlow ==
    ASSUME NEW s, StreamInv(s), "write" \in s.ops, NEW n \in Net, Flow(s, n), NEW ok \in BOOLEAN,
           NEW m, WroteTo(n, m, s.write_queue, ok), NEW t, t = AfterWrite(Retire(s, "write"), ok)
    PROVE  Flow(t, m) /\ t.unread = s.unread /\ (s.broken => t.broken)
<1> DEFINE r == Retire(s, "write")
<1>1. r \in Stream /\ SameButTags(s, r) /\ Flow(r, n) /\ t = AfterWrite(r, ok)
  BY RetireFlow
<1>2. /\ r.write_inflight /\ ~r.wdone_inflight /\ r.unread = s.unread /\ r.broken = s.broken
      /\ r.write_queue = s.write_queue /\ r.write_queue # <<>>
  BY <1>1 DEF StreamInv, FlagsTellTags, LifeOrder, SameButTags
<1>3. ~r.broken
  BY <1>1, <1>2 DEF Flow, WriteFlow
<1> HIDE DEF r
<1>4. CASE ok
  <2> DEFINE q == r.write_queue
             z == Tail(q)
             a == [r EXCEPT !.write_inflight = FALSE, !.write_queue = z]
             b == s_pump_writes_locked(a)
  <2>1. t = s_try_finish_locked(b)
    BY <1>1, <1>3, <1>4 DEF AfterWrite
  <2>2. /\ q \in Seq(1..MaxSends) /\ q # <<>> /\ n.written \in Nat
        /\ n.written + Len(q) = n.accepted /\ Len(q) <= r.write_cap
        /\ \A k \in 1..Len(q) : q[k] = n.written + k
    BY <1>1, <1>2, <1>3, ClientAssumption DEF Stream, Net, Flow, WriteFlow, ClientAssumption
  <2>3. /\ Head(q) = n.written + 1 /\ z \in Seq(1..MaxSends) /\ Len(z) = Len(q) - 1 /\ Len(q) \in Nat
        /\ \A k \in 1..Len(z) : z[k] = Head(q) + k
    BY <2>2, QueueMoves
  <2>4. m.written = Head(q) /\ m.accepted = n.accepted
    BY <1>2, <1>4 DEF WroteTo
  <2> HIDE DEF z
  <2>5. /\ a \in Stream /\ a.write_queue = z /\ ~a.write_inflight /\ a.unread = r.unread
        /\ a.wdone_inflight = r.wdone_inflight /\ a.broken = r.broken /\ a.read_cap = r.read_cap
        /\ a.started = r.started /\ a.read_inflight = r.read_inflight
        /\ a.write_cap = r.write_cap /\ a.want_finish = r.want_finish /\ a.reads_closed = r.reads_closed
    BY <1>1, <2>3 DEF Stream
  <2> HIDE DEF a
  <2>6. r.write_cap \in Nat
    BY <1>1, CapType
  <2>7. WriteFlow(a, m)
    <3>1. Len(z) <= a.write_cap /\ m.written + Len(z) = m.accepted
      <4> DEFINE L == Len(q)
                 M == Len(z)
                 c == r.write_cap
                 w == n.written
                 acc == n.accepted
      <4>1. L \in Nat /\ M = L - 1 /\ c \in Nat /\ L <= c /\ w \in Nat /\ w + L = acc
        BY <2>2, <2>3, <2>6
      <4> HIDE DEF L, M, c, w, acc
      <4>2. M <= c /\ (w + 1) + M = acc
        BY <4>1
      <4>3. m.written = w + 1 /\ m.accepted = acc
        BY <2>3, <2>4 DEF w, acc
      <4> QED
        BY <2>5, <4>2, <4>3 DEF M, c
    <3> QED
      BY <1>2, <2>3, <2>4, <2>5, <3>1 DEF WriteFlow
  <2>8. ReadFlow(a) /\ EndFlow(a, m)
    BY <1>1, <2>5 DEF Flow, ReadFlow, ReadRoom, EndFlow, WroteTo
  <2>9. b \in Stream /\ Flow(b, m) /\ Kept(a, b)
    BY <2>5, <2>7, <2>8, PumpFlow DEF Flow
  <2> HIDE DEF b
  <2>10. Flow(t, m) /\ Kept(b, t)
    BY <2>1, <2>9, TryFinishFlow
  <2> QED
    BY <1>2, <2>5, <2>9, <2>10 DEF Kept
<1>5. CASE ~ok
  <2> DEFINE a == [r EXCEPT !.write_inflight = FALSE, !.broken = TRUE, !.want_finish = TRUE]
  <2>1. t = s_try_finish_locked(a)
    BY <1>1, <1>5 DEF AfterWrite
  <2>2. a \in Stream /\ a.unread = s.unread /\ a.broken
    BY <1>1, <1>2 DEF Stream
  <2>3. Flow(a, m)
    BY <1>1, <1>2, <1>5 DEF Flow, WriteFlow, ReadFlow, ReadRoom, EndFlow, Stream, WroteTo
  <2> HIDE DEF a
  <2>4. Flow(t, m) /\ Kept(a, t)
    BY <2>1, <2>2, <2>3, TryFinishFlow
  <2> QED
    BY <2>2, <2>4 DEF Kept
<1> QED
  BY <1>4, <1>5

LEMMA WdoneFlow ==
    ASSUME NEW s, StreamInv(s), "wdone" \in s.ops, NEW n, Flow(s, n), NEW ok \in BOOLEAN,
           NEW t, t = AfterWdone(Retire(s, "wdone"), ok)
    PROVE  Flow(t, n) /\ t.unread = s.unread /\ (s.broken => t.broken)
<1> DEFINE r == Retire(s, "wdone")
<1>1. r \in Stream /\ SameButTags(s, r) /\ Flow(r, n) /\ t = AfterWdone(r, ok)
  BY RetireFlow
<1>2. ~r.write_inflight /\ r.unread = s.unread /\ r.broken = s.broken
  BY <1>1 DEF StreamInv, FlagsTellTags, LifeOrder, SameButTags
<1> HIDE DEF r
<1>3. CASE ok
  <2> DEFINE a == [r EXCEPT !.wdone_inflight = FALSE, !.wdone_sent = TRUE]
  <2>1. t = s_try_finish_locked(a)
    BY <1>1, <1>3 DEF AfterWdone
  <2>2. a \in Stream /\ a.unread = s.unread /\ a.broken = s.broken
    BY <1>1, <1>2 DEF Stream
  <2>3. Flow(a, n)
    BY <1>1, <1>2 DEF Flow, WriteFlow, ReadFlow, ReadRoom, EndFlow, Stream
  <2> HIDE DEF a
  <2>4. Flow(t, n) /\ Kept(a, t)
    BY <2>1, <2>2, <2>3, TryFinishFlow
  <2> QED
    BY <2>2, <2>4 DEF Kept
<1>4. CASE ~ok
  <2> DEFINE a == [r EXCEPT !.wdone_inflight = FALSE, !.wdone_sent = TRUE, !.broken = TRUE, !.want_finish = TRUE]
  <2>1. t = s_try_finish_locked(a)
    BY <1>1, <1>4 DEF AfterWdone
  <2>2. a \in Stream /\ a.unread = s.unread /\ a.broken
    BY <1>1, <1>2 DEF Stream
  <2>3. Flow(a, n)
    BY <1>1, <1>2 DEF Flow, WriteFlow, ReadFlow, ReadRoom, EndFlow, Stream
  <2> HIDE DEF a
  <2>4. Flow(t, n) /\ Kept(a, t)
    BY <2>1, <2>2, <2>3, TryFinishFlow
  <2> QED
    BY <2>2, <2>4 DEF Kept
<1> QED
  BY <1>3, <1>4

-----------------------------------------------------------------------------
(* The operations of R, seen from the flow.                                *)

\* A send goes to the end of the queue, numbered by its acceptance.
LEMMA SendFlow ==
    ASSUME NEW s \in Stream, NEW n \in Net, Flow(s, n), ~s.broken,
           Len(s.write_queue) < s.write_cap, n.accepted + 1 \in 1..MaxSends,
           NEW m, m.wire = n.wire, m.inbound = n.inbound, m.taken = n.taken,
           m.written = n.written, m.accepted = n.accepted + 1,
           NEW t, t = s_pump_writes_locked(
                        [s EXCEPT !.write_queue = Append(s.write_queue, n.accepted + 1)])
    PROVE  Flow(t, m) /\ t.unread = s.unread /\ t.broken = s.broken
<1> DEFINE q == s.write_queue
           x == n.accepted + 1
           z == Append(q, x)
           u == [s EXCEPT !.write_queue = z]
           L == Len(q)
           w == n.written
           c == s.write_cap
<1>1. q \in Seq(1..MaxSends) /\ L \in Nat /\ w \in Nat /\ c \in Nat /\ n.accepted \in Nat
  BY CapType, LenProperties, ClientAssumption DEF Stream, Net, ClientAssumption
<1>2. w + L = n.accepted /\ \A k \in 1..L : q[k] = w + k
  BY DEF Flow, WriteFlow
<1>3. z \in Seq(1..MaxSends) /\ Len(z) = L + 1 /\ z[L + 1] = x /\ \A k \in 1..L : z[k] = q[k]
  BY <1>1, AppendProperties
<1>4. t = s_pump_writes_locked(u) /\ L < c /\ m.accepted = x /\ m.written = w
  OBVIOUS
<1>5. x = w + (L + 1)
  <2> DEFINE acc == n.accepted
  <2>1. w \in Nat /\ L \in Nat /\ w + L = acc
    BY <1>1, <1>2
  <2> HIDE DEF w, L, acc
  <2>2. acc + 1 = w + (L + 1)
    BY <2>1
  <2> QED
    BY <2>2 DEF acc
<1> HIDE DEF x, z, q
<1>6. /\ u \in Stream /\ u.write_queue = z /\ u.unread = s.unread /\ u.broken = s.broken
      /\ u.write_inflight = s.write_inflight /\ u.wdone_inflight = s.wdone_inflight
      /\ u.read_cap = s.read_cap /\ u.started = s.started /\ u.read_inflight = s.read_inflight
      /\ u.write_cap = c /\ u.want_finish = s.want_finish /\ u.reads_closed = s.reads_closed
  BY <1>3 DEF Stream
<1> HIDE DEF u, L, w, c
<1>7. L + 1 <= c /\ w + (L + 1) = x
  BY <1>1, <1>4, <1>5
<1>8. \A k \in 1..Len(z) : z[k] = w + k
  <2> SUFFICES ASSUME NEW k \in 1..(L + 1) PROVE z[k] = w + k
    BY <1>3
  <2>1. k \in 1..L \/ k = L + 1
    BY <1>1
  <2> QED
    BY <1>2, <1>3, <1>5, <2>1
<1>9. WriteFlow(u, m)
  BY <1>3, <1>4, <1>6, <1>7, <1>8 DEF Flow, WriteFlow
<1>10. ReadFlow(u) /\ EndFlow(u, m)
  BY <1>6 DEF Flow, ReadFlow, ReadRoom, EndFlow
<1>11. Flow(t, m) /\ Kept(u, t)
  BY <1>4, <1>6, <1>9, <1>10, PumpFlow DEF Flow
<1> QED
  BY <1>6, <1>11 DEF Kept

LEMMA WritesDoneFlow ==
    ASSUME NEW s \in Stream, NEW n, Flow(s, n),
           NEW t, t = s_pump_writes_locked([s EXCEPT !.wdone_requested = TRUE])
    PROVE  Flow(t, n) /\ t.unread = s.unread /\ t.broken = s.broken
<1> DEFINE u == [s EXCEPT !.wdone_requested = TRUE]
<1>1. u \in Stream /\ u.unread = s.unread /\ u.broken = s.broken /\ t = s_pump_writes_locked(u)
  BY DEF Stream
<1>2. Flow(u, n)
  BY DEF Flow, WriteFlow, ReadFlow, ReadRoom, EndFlow, Stream
<1> HIDE DEF u
<1>3. Flow(t, n) /\ Kept(u, t)
  BY <1>1, <1>2, PumpFlow
<1> QED
  BY <1>1, <1>3 DEF Kept

\* The poll loop lowers unread and resumes the read where there is room.
LEMMA DrainFlow ==
    ASSUME NEW s \in Stream, NEW n, Flow(s, n), NEW d \in Nat, d <= s.unread
    PROVE  /\ Flow(Drained(s, d), n)
           /\ Drained(s, d).unread = s.unread - d /\ Drained(s, d).broken = s.broken
           /\ Drained(s, d).status_emitted = s.status_emitted
<1> DEFINE t == [s EXCEPT !.unread = @ - d]
<1>1. s.unread - d \in Int /\ s.unread \in Int /\ s.read_cap \in Nat
  BY CapType
<1>2. /\ t \in Stream /\ t.unread = s.unread - d /\ t.broken = s.broken
      /\ t.write_inflight = s.write_inflight /\ t.wdone_inflight = s.wdone_inflight
      /\ t.read_cap = s.read_cap /\ t.started = s.started /\ t.read_inflight = s.read_inflight
      /\ t.write_cap = s.write_cap /\ t.write_queue = s.write_queue
      /\ t.want_finish = s.want_finish /\ t.reads_closed = s.reads_closed
      /\ t.status_emitted = s.status_emitted
  BY <1>1 DEF Stream
<1>3. Drained(s, d) = IF d > 0 /\ t.unread < t.read_cap THEN s_post_read_locked(t) ELSE t
  BY DEF Drained
<1> HIDE DEF t
<1>4. ReadFlow(t)
  BY <1>1, <1>2 DEF Flow, ReadFlow, ReadRoom
<1>5. Flow(t, n)
  BY <1>2, <1>4 DEF Flow, WriteFlow, EndFlow
<1>6. CASE d > 0 /\ t.unread < t.read_cap
  <2>1. Drained(s, d) = s_post_read_locked(t)
    BY <1>3, <1>6
  <2>2. Flow(s_post_read_locked(t), n) /\ Kept(t, s_post_read_locked(t))
    BY <1>2, <1>5, <1>6, PostReadFlow DEF ReadRoom
  <2>3. s_post_read_locked(t).status_emitted = t.status_emitted
    BY <1>2 DEF s_post_read_locked, Post, Stream
  <2> QED
    BY <1>2, <2>1, <2>2, <2>3 DEF Kept
<1>7. CASE ~(d > 0 /\ t.unread < t.read_cap)
  BY <1>2, <1>3, <1>5, <1>7
<1> QED
  BY <1>6, <1>7

-----------------------------------------------------------------------------
(* Steps that leave the deque's messages alone.                            *)

LEMMA FlowTypes ==
    ASSUME IInv
    PROVE  /\ \A i \in Ids : /\ net[i] \in Net /\ net[i].taken \in Nat /\ net[i].inbound \in Nat
                             /\ handed[i].msgs \in Nat /\ handed[i].over \in BOOLEAN
                             /\ st[i] \in Stream /\ StreamInv(st[i])
           /\ \A e \in ready : /\ e.id \in Ids /\ e.val \in Nat /\ e.stamp \in Nat
                               /\ e.stamp <= arrived /\ arrived \in Nat
           /\ Ids \subseteq Nat /\ next_id \in Nat
<1>1. ASSUME NEW i \in Ids
      PROVE  /\ net[i] \in Net /\ net[i].taken \in Nat /\ net[i].inbound \in Nat
             /\ handed[i].msgs \in Nat /\ handed[i].over \in BOOLEAN
             /\ st[i] \in Stream /\ StreamInv(st[i])
  <2>1. net[i] \in Net /\ st[i] \in Stream /\ StreamInv(st[i])
    BY DEF IInv, TypeOK
  <2>2. handed[i] \in [msgs : Nat, over : BOOLEAN]
    BY DEF IInv, TypeOK
  <2>3. net[i].taken \in Nat /\ net[i].inbound \in Nat
    BY <2>1, ClientAssumption DEF Net, ClientAssumption
  <2> QED
    BY <2>1, <2>2, <2>3
<1>2. ASSUME NEW e \in ready
      PROVE  /\ e.id \in Ids /\ e.val \in Nat /\ e.stamp \in Nat
             /\ e.stamp <= arrived /\ arrived \in Nat
  <2>1. e \in [kind : EventKinds, id : Ids, val : Nat, stamp : 1..arrived] /\ arrived \in Nat
    BY DEF IInv, TypeOK
  <2> QED
    BY <2>1
<1>3. Ids \subseteq Nat /\ next_id \in Nat
  BY ClientAssumption DEF IInv, TypeOK, Ids, ClientAssumption
<1> QED
  BY <1>1, <1>2, <1>3

\* A stream whose status is out is freed and has no tag left.
LEMMA Settled ==
    ASSUME IInv, NEW i \in Ids, st[i].status_emitted
    PROVE  i \notin streams /\ st[i].ops = {}
<1>1. StreamInv(st[i]) /\ i \notin streams
  BY DEF IInv, LiveInv
<1> QED
  BY <1>1 DEF StreamInv, FlagsTellTags, LifeOrder

LEMMA MsgKept ==
    ASSUME NEW i \in Ids, MsgFlow(i), Msgs(ready', i) = Msgs(ready, i),
           handed'[i].msgs = handed[i].msgs,
           phase' # "closed" /\ ~st'[i].broken =>
              phase # "closed" /\ ~st[i].broken /\ net'[i].taken = net[i].taken,
           i \in streams' => i \in streams /\ st'[i].unread = st[i].unread
    PROVE  MsgFlow(i)'
BY DEF MsgFlow

\* One stream moves, by an operation of R or a completion.
LEMMA StreamStep ==
    ASSUME IInv, FlowInv, NEW i \in streams, phase # "closed", NEW t, NEW m,
           st' = [st EXCEPT ![i] = t], net' = [net EXCEPT ![i] = m],
           streams' \subseteq streams, UNCHANGED <<phase, next_id, calls, unary, handed>>,
           Flow(t, m), MsgFlow(i)', \A j \in Ids \ {i} : Msgs(ready', j) = Msgs(ready, j),
           \A e \in ready' : e \in ready \/ (e.id = i /\ StatusFlow(e)')
    PROVE  FlowInv'
<1>1. i \in Ids /\ st'[i] = t /\ net'[i] = m
  BY DEF IInv, TypeOK
<1>2. \A j \in Ids \ {i} : st'[j] = st[j] /\ net'[j] = net[j]
  BY DEF IInv, TypeOK
<1>3. ASSUME NEW j \in Ids PROVE Flow(st'[j], net'[j]) /\ MsgFlow(j)'
  <2>1. CASE j = i
    BY <1>1, <2>1
  <2>2. CASE j # i
    <3>1. Flow(st'[j], net'[j])
      BY <1>2, <2>2 DEF FlowInv
    <3>2. MsgFlow(j) /\ Msgs(ready', j) = Msgs(ready, j) /\ st'[j] = st[j] /\ net'[j] = net[j]
      BY <1>2, <2>2 DEF FlowInv
    <3>3. MsgFlow(j)'
      BY <3>2, MsgKept
    <3> QED
      BY <3>1, <3>3
  <2> QED
    BY <2>1, <2>2
<1>4. ASSUME NEW e \in ready' PROVE StatusFlow(e)'
  <2>1. CASE e \in ready /\ e.kind = "stream_status"
    <3>1. e.id \in Ids /\ StatusFlow(e) /\ st[e.id].status_emitted
      BY <2>1, FlowTypes DEF FlowInv, StatusFlow
    <3>2. e.id # i
      BY <3>1, Settled
    <3> QED
      BY <1>2, <3>1, <3>2 DEF StatusFlow
  <2>2. CASE e \in ready /\ e.kind # "stream_status"
    BY <2>2 DEF StatusFlow
  <2> QED
    BY <2>1, <2>2
<1>5. ASSUME NEW j \in Ids, j >= next_id' PROVE Unused(j)'
  <2>1. Unused(j)
    BY <1>5 DEF FlowInv
  <2>2. j # i
    BY <2>1 DEF Unused
  <2> QED
    BY <1>2, <2>1, <2>2 DEF Unused
<1>6. Closed'
  BY DEF Closed
<1> QED
  BY <1>3, <1>4, <1>5, <1>6 DEF FlowInv

\* The network, or R's cancelling, moves the wire of some calls.
WireStep(i) ==
    /\ net'[i].accepted = net[i].accepted /\ net'[i].written = net[i].written
    /\ net'[i].taken = net[i].taken
    /\ net[i].wire \in {"none", "dead"} => net'[i].wire = net[i].wire
    /\ net[i].wire = "ended" => net'[i].wire \in {"ended", "dead"}
    /\ net'[i].inbound = net[i].inbound \/ (i \in streams /\ net[i].wire = "open")

LEMMA NetStep ==
    ASSUME IInv, FlowInv, \A i \in Ids : WireStep(i), phase' = "closed" <=> phase = "closed",
           UNCHANGED <<next_id, calls, streams, st, unary, ready, handed>>
    PROVE  FlowInv'
<1>1. ASSUME NEW i \in Ids PROVE Flow(st'[i], net'[i]) /\ MsgFlow(i)'
  <2>1. Flow(st[i], net[i]) /\ MsgFlow(i) /\ WireStep(i)
    BY DEF FlowInv
  <2>2. Flow(st[i], net'[i])
    BY <2>1 DEF Flow, WriteFlow, EndFlow, WireStep
  <2>3. MsgFlow(i)'
    BY <2>1, MsgKept DEF WireStep
  <2> QED
    BY <2>2, <2>3
<1>2. ASSUME NEW e \in ready PROVE StatusFlow(e)'
  <2>1. CASE e.kind = "stream_status"
    <3>1. e.id \in Ids /\ StatusFlow(e) /\ st[e.id].status_emitted
      BY <2>1, FlowTypes DEF FlowInv, StatusFlow
    <3>2. e.id \notin streams
      BY <3>1, Settled
    <3> QED
      BY <3>1, <3>2 DEF StatusFlow, WireStep
  <2>2. CASE e.kind # "stream_status"
    BY <2>2 DEF StatusFlow
  <2> QED
    BY <2>1, <2>2
<1>3. ASSUME NEW j \in Ids, j >= next_id PROVE Unused(j)'
  BY <1>3 DEF FlowInv, Unused, WireStep
<1>4. Closed'
  BY DEF FlowInv, Closed
<1> QED
  BY <1>1, <1>2, <1>3, <1>4 DEF FlowInv

LEMMA CancelStep ==
    ASSUME IInv, NEW W, TryCancel(W)
    PROVE  \A i \in Ids : WireStep(i)
<1> SUFFICES ASSUME NEW i \in Ids PROVE WireStep(i)
  OBVIOUS
<1>1. net[i] \in Net
  BY FlowTypes
<1>2. \/ net'[i] = net[i]
      \/ net[i].wire \in {"open", "ended"} /\ net'[i] = [net[i] EXCEPT !.wire = "dead"]
  BY DEF TryCancel
<1>3. CASE net'[i] = net[i]
  BY <1>1, <1>3 DEF WireStep, Net
<1>4. CASE net[i].wire \in {"open", "ended"} /\ net'[i] = [net[i] EXCEPT !.wire = "dead"]
  BY <1>1, <1>4 DEF WireStep, Net
<1> QED
  BY <1>2, <1>3, <1>4

-----------------------------------------------------------------------------
(* Events come and go.                                                     *)

LEMMA MsgsFinite ==
    ASSUME IInv, NEW i
    PROVE  IsFiniteSet(Msgs(ready, i)) /\ Cardinality(Msgs(ready, i)) \in Nat
<1>1. Msgs(ready, i) \subseteq ready
  BY DEF Msgs
<1> QED
  BY <1>1, FS_Subset, FS_CardinalityType DEF IInv

\* An event that is not a message.
LEMMA EmitOther ==
    ASSUME NEW k, k # "stream_msg", NEW i, NEW v, Emit(k, i, v)
    PROVE  /\ \A j : Msgs(ready', j) = Msgs(ready, j)
           /\ \A e \in ready' : e \in ready \/ (e.kind = k /\ e.id = i /\ e.val = v)
BY DEF Emit, Msgs

\* The next message of a stream.
LEMMA EmitMsg ==
    ASSUME IInv, NEW i \in Ids, MsgFlow(i), NEW v,
           v = handed[i].msgs + Cardinality(Msgs(ready, i)) + 1, Emit("stream_msg", i, v)
    PROVE  /\ Numbered(Msgs(ready', i), handed[i].msgs)
           /\ Cardinality(Msgs(ready', i)) = Cardinality(Msgs(ready, i)) + 1
           /\ \A j \in Ids \ {i} : Msgs(ready', j) = Msgs(ready, j)
           /\ \A e \in ready' : e \in ready \/ (e.id = i /\ e.kind = "stream_msg")
<1> DEFINE e == [kind |-> "stream_msg", id |-> i, val |-> v, stamp |-> arrived + 1]
           q == Msgs(ready, i)
<1>1. ready' = ready \cup {e}
  BY DEF Emit
<1>2. Msgs(ready', i) = q \cup {e} /\ \A j \in Ids \ {i} : Msgs(ready', j) = Msgs(ready, j)
  BY <1>1 DEF Msgs
<1>3. e.val = v /\ e.stamp = arrived + 1 /\ e.id = i /\ e.kind = "stream_msg"
  OBVIOUS
<1>4. arrived \in Nat /\ \A f \in q : f.stamp \in Int /\ f.stamp < arrived + 1
  <2>1. arrived \in Nat
    BY DEF IInv, TypeOK
  <2>2. \A f \in q : f.stamp \in Nat /\ f.stamp <= arrived
    BY FlowTypes DEF Msgs
  <2> QED
    BY <2>1, <2>2
<1>5. IsFiniteSet(q) /\ handed[i].msgs \in Nat /\ Numbered(q, handed[i].msgs)
  BY MsgsFinite, FlowTypes DEF MsgFlow
<1>6. v = handed[i].msgs + Cardinality(q) + 1
  OBVIOUS
<1> HIDE DEF e, q
<1>7. Numbered(q \cup {e}, handed[i].msgs) /\ Cardinality(q \cup {e}) = Cardinality(q) + 1
  BY <1>3, <1>4, <1>5, <1>6, NumberedAppend
<1> QED
  BY <1>1, <1>2, <1>3, <1>7 DEF q

\* A poll takes a prefix of each stream's messages.
LEMMA PollMsgs ==
    ASSUME IInv, FlowInv, NEW i \in Ids, NEW want, NEW maxn \in PollSizes,
           NEW batch, batch = Batch(ready, want, maxn), NEW d, d = Cardinality(Msgs(batch, i))
    PROVE  /\ d \in Nat /\ d <= Cardinality(Msgs(ready, i))
           /\ Cardinality(Msgs(ready \ batch, i)) = Cardinality(Msgs(ready, i)) - d
           /\ Numbered(Msgs(ready \ batch, i), handed[i].msgs + d)
<1> DEFINE q == Msgs(ready, i)
           P == Msgs(batch, i)
<1>1. batch \subseteq ready
  BY DEF Batch
<1>2. P \in SUBSET q /\ Msgs(ready \ batch, i) = q \ P
  BY <1>1 DEF Msgs
<1>3. IsFiniteSet(q) /\ handed[i].msgs \in Nat /\ Numbered(q, handed[i].msgs) /\ Cardinality(q) \in Nat
  BY MsgsFinite, FlowTypes DEF FlowInv, MsgFlow
<1>4. \A e \in q : e.stamp \in Int
  BY FlowTypes DEF Msgs
<1>5. ASSUME NEW e \in P, NEW f \in q \ P PROVE e.stamp < f.stamp
  <2>1. maxn \in Nat /\ IsFiniteSet(ready) /\ \A g \in ready : g.stamp \in Nat
    BY ClientAssumption, FlowTypes DEF ClientAssumption, IInv
  <2>2. e \in Batch(ready, want, maxn) /\ f \in ready \ Batch(ready, want, maxn) /\ e.id = f.id
    BY <1>1 DEF Msgs
  <2> QED
    BY <2>1, <2>2, BatchIsPrefix
<1>6. d = Cardinality(P)
  OBVIOUS
<1> HIDE DEF q, P
<1>7. /\ Cardinality(P) \in Nat /\ Cardinality(q \ P) = Cardinality(q) - Cardinality(P)
      /\ Numbered(q \ P, handed[i].msgs + Cardinality(P))
  BY <1>2, <1>3, <1>4, <1>5, NumberedTake
<1>8. Cardinality(P) <= Cardinality(q)
  BY <1>2, <1>3, FS_Subset
<1> QED
  BY <1>2, <1>6, <1>7, <1>8 DEF q

\* What R has had of a call after a poll.
LEMMA PollHanded ==
    ASSUME IInv, NEW want, NEW maxn, Poll(want, maxn), NEW i \in Ids,
           NEW batch, batch = Batch(ready, want, maxn)
    PROVE  /\ handed'[i].msgs = handed[i].msgs + Cardinality(Msgs(batch, i))
           /\ handed'[i].over =
                (handed[i].over \/ \E e \in batch : e.id = i /\ e.kind \in Terminal)
<1> DEFINE x == handed[i].msgs + Cardinality(Msgs(batch, i))
           o == handed[i].over \/ \E e \in batch : e.id = i /\ e.kind \in Terminal
<1>1. handed'[i] = [msgs |-> x, over |-> o]
  BY DEF Poll
<1>2. o \in BOOLEAN
  BY FlowTypes
<1> HIDE DEF x, o
<1>3. handed'[i].msgs = x /\ handed'[i].over = o
  BY <1>1, <1>2
<1> QED
  BY <1>3 DEF x, o

LEMMA PollStep ==
    ASSUME IInv, FlowInv, NEW want \in Ids \cup {All}, NEW maxn \in PollSizes, Poll(want, maxn)
    PROVE  FlowInv'
<1> DEFINE batch == Batch(ready, want, maxn)
           n(i) == Cardinality(Msgs(batch, i))
           msgs(i) == handed[i].msgs + n(i)
           over(i) == handed[i].over \/ \E e \in batch : e.id = i /\ e.kind \in Terminal
<1>1. /\ phase = "open" /\ ready' = ready \ batch /\ batch \subseteq ready
      /\ UNCHANGED <<phase, next_id, calls, streams, unary, arrived, net>>
  BY DEF Poll, Batch
<1>2. \A i \in Ids : st'[i] = IF i \in streams THEN Drained(st[i], n(i)) ELSE st[i]
  BY DEF Poll
<1>3. \A i \in Ids : handed'[i].msgs = msgs(i) /\ handed'[i].over = over(i)
  BY PollHanded
<1>4. ASSUME NEW i \in Ids
      PROVE  /\ n(i) \in Nat /\ n(i) <= Cardinality(Msgs(ready, i))
             /\ Cardinality(Msgs(ready', i)) = Cardinality(Msgs(ready, i)) - n(i)
             /\ Numbered(Msgs(ready', i), handed[i].msgs + n(i))
  BY <1>1, PollMsgs
<1>5. ASSUME NEW i \in Ids, \A e \in ready : e.id # i PROVE n(i) = 0
  <2>1. Msgs(batch, i) = {}
    BY <1>1, <1>5 DEF Msgs
  <2> QED
    BY <2>1, FS_EmptySet
<1>6. ASSUME NEW i \in Ids, \A e \in ready : e.id # i, ~handed[i].over PROVE ~over(i)
  BY <1>1, <1>6
<1> HIDE DEF batch, n, over
<1>7. ASSUME NEW i \in Ids PROVE Flow(st'[i], net'[i]) /\ MsgFlow(i)'
  <2> DEFINE c == Cardinality(Msgs(ready, i))
             h == handed[i].msgs
             d == n(i)
  <2>1. c \in Nat /\ h \in Nat /\ d \in Nat /\ d <= c /\ st[i] \in Stream
    BY <1>4, MsgsFinite, FlowTypes
  <2>2. /\ Cardinality(Msgs(ready', i)) = c - d /\ handed'[i].msgs = h + d
        /\ Numbered(Msgs(ready', i), h + d)
    BY <1>3, <1>4
  <2>3. Flow(st[i], net[i]) /\ MsgFlow(i)
    BY DEF FlowInv
  <2>4. /\ Flow(st'[i], net'[i]) /\ st'[i].broken = st[i].broken
        /\ i \in streams => st'[i].unread = c - d
    <3>1. CASE i \in streams
      <4>1. st[i].unread = c
        BY <2>3, <3>1 DEF MsgFlow
      <4>2. st'[i] = Drained(st[i], d)
        BY <1>2, <3>1
      <4> HIDE DEF c, d
      <4> QED
        BY <1>1, <2>1, <2>3, <4>1, <4>2, DrainFlow
    <3>2. CASE i \notin streams
      BY <1>1, <1>2, <2>3, <3>2
    <3> QED
      BY <3>1, <3>2
  <2>5. ~st[i].broken => h + c = net[i].taken
    BY <1>1, <2>3 DEF MsgFlow
  <2> HIDE DEF c, h, d
  <2>6. (h + d) + (c - d) = h + c
    BY <2>1
  <2>7. MsgFlow(i)'
    BY <1>1, <2>2, <2>4, <2>5, <2>6 DEF MsgFlow
  <2> QED
    BY <2>4, <2>7
<1>8. ASSUME NEW e \in ready' PROVE StatusFlow(e)'
  <2>1. CASE e.kind = "stream_status"
    <3>1. e.id \in Ids /\ StatusFlow(e) /\ st[e.id].status_emitted
      BY <1>1, <2>1, FlowTypes DEF FlowInv, StatusFlow
    <3>2. e.id \notin streams
      BY <3>1, Settled
    <3> QED
      BY <1>1, <1>2, <3>1, <3>2 DEF StatusFlow
  <2>2. CASE e.kind # "stream_status"
    BY <2>2 DEF StatusFlow
  <2> QED
    BY <2>1, <2>2
<1>9. ASSUME NEW j \in Ids, j >= next_id' PROVE Unused(j)'
  <2>1. Unused(j)
    BY <1>1, <1>9 DEF FlowInv
  <2>2. n(j) = 0 /\ ~handed'[j].over
    BY <1>3, <1>5, <1>6, <2>1 DEF Unused
  <2>3. handed'[j].msgs = 0
    BY <1>3, <2>1, <2>2 DEF Unused
  <2> QED
    BY <1>1, <2>1, <2>2, <2>3 DEF Unused
<1>10. Closed'
  BY <1>1 DEF Closed
<1> QED
  BY <1>7, <1>8, <1>9, <1>10 DEF FlowInv

-----------------------------------------------------------------------------
(* The actions.                                                            *)

\* The stream a completion is for.
LEMMA TagFacts ==
    ASSUME IInv, FlowInv, NEW i \in Ids, st[i].ops # {}
    PROVE  /\ i \in streams /\ phase # "closed" /\ StreamInv(st[i]) /\ st[i] \in Stream
           /\ Flow(st[i], net[i]) /\ MsgFlow(i) /\ net[i] \in Net
BY FlowTypes DEF IInv, NoDanglingTag, FlowInv, Closed

\* A completion that brings no message.
LEMMA PlainCase ==
    ASSUME IInv, FlowInv, NEW i \in Ids, st[i].ops # {}, NEW t, NEW m, StreamCase(i, t),
           net' = [net EXCEPT ![i] = m], Flow(t, m), m.taken = net[i].taken,
           t.unread = st[i].unread, st[i].broken => t.broken,
           \A j : Msgs(ready', j) = Msgs(ready, j),
           \A e \in ready' : e \in ready \/ (e.id = i /\ StatusFlow(e)')
    PROVE  FlowInv'
<1>1. i \in streams /\ phase # "closed" /\ MsgFlow(i)
  BY TagFacts
<1>2. /\ st' = [st EXCEPT ![i] = t] /\ streams' \subseteq streams
      /\ UNCHANGED <<phase, next_id, calls, unary, handed>>
  BY DEF StreamCase, LiveAfter
<1>3. st'[i] = t /\ net'[i] = m
  BY <1>2 DEF IInv, TypeOK
<1>4. MsgFlow(i)'
  BY <1>1, <1>2, <1>3, MsgKept
<1> QED
  BY <1>1, <1>2, <1>4, StreamStep

LEMMA CompleteStartFlow ==
    ASSUME IInv, FlowInv, NEW i \in Ids, NEW ok \in BOOLEAN, CompleteStart(i, ok)
    PROVE  FlowInv'
<1> DEFINE t == AfterStart(Retire(st[i], "start"), ok)
<1>1. /\ "start" \in st[i].ops /\ StreamCase(i, t)
      /\ ready' = ready /\ net' = [net EXCEPT ![i] = net[i]]
  BY DEF CompleteStart, Quiet, IInv, TypeOK
<1>2. Flow(t, net[i]) /\ t.unread = st[i].unread /\ (st[i].broken => t.broken)
  BY <1>1, TagFacts, StartFlow
<1> HIDE DEF t
<1> QED
  BY <1>1, <1>2, PlainCase

LEMMA CompleteWdoneFlow ==
    ASSUME IInv, FlowInv, NEW i \in Ids, NEW ok \in BOOLEAN, CompleteWdone(i, ok)
    PROVE  FlowInv'
<1> DEFINE t == AfterWdone(Retire(st[i], "wdone"), ok)
<1>1. /\ "wdone" \in st[i].ops /\ StreamCase(i, t)
      /\ ready' = ready /\ net' = [net EXCEPT ![i] = net[i]]
  BY DEF CompleteWdone, Quiet, IInv, TypeOK
<1>2. Flow(t, net[i]) /\ t.unread = st[i].unread /\ (st[i].broken => t.broken)
  BY <1>1, TagFacts, WdoneFlow
<1> HIDE DEF t
<1> QED
  BY <1>1, <1>2, PlainCase

LEMMA CompleteWriteFlow ==
    ASSUME IInv, FlowInv, NEW i \in Ids, NEW ok \in BOOLEAN, CompleteWrite(i, ok)
    PROVE  FlowInv'
<1> DEFINE t == AfterWrite(Retire(st[i], "write"), ok)
           q == st[i].write_queue
           m == IF ok THEN [net[i] EXCEPT !.written = Head(q)] ELSE net[i]
<1>1. "write" \in st[i].ops /\ StreamCase(i, t) /\ net[i] \in Net
  BY TagFacts DEF CompleteWrite
<1>2. net' = [net EXCEPT ![i] = m]
  BY DEF CompleteWrite, IInv, TypeOK
<1>3. WroteTo(net[i], m, q, ok) /\ m.taken = net[i].taken
  BY <1>1 DEF WroteTo, Net
<1> HIDE DEF m
<1>4. Flow(t, m) /\ t.unread = st[i].unread /\ (st[i].broken => t.broken)
  <2> DEFINE s == st[i]
             n == net[i]
  <2>1. /\ StreamInv(s) /\ "write" \in s.ops /\ n \in Net /\ Flow(s, n)
        /\ WroteTo(n, m, s.write_queue, ok) /\ t = AfterWrite(Retire(s, "write"), ok)
    BY <1>1, <1>3, TagFacts
  <2> HIDE DEF s, n, t
  <2>2. Flow(t, m) /\ t.unread = s.unread /\ (s.broken => t.broken)
    BY <2>1, WritesFlow
  <2> QED
    BY <2>2 DEF s
<1>5. Emit("stream_writable", i, 0) \/ ready' = ready
  BY DEF CompleteWrite, Quiet
<1>6. /\ \A j : Msgs(ready', j) = Msgs(ready, j)
      /\ \A e \in ready' : e \in ready \/ (e.id = i /\ e.kind = "stream_writable")
  BY <1>5, EmitOther
<1>7. \A e \in ready' : e \in ready \/ (e.id = i /\ StatusFlow(e)')
  BY <1>6 DEF StatusFlow
<1> HIDE DEF t
<1> QED
  BY <1>1, <1>2, <1>3, <1>4, <1>6, <1>7, PlainCase

LEMMA CompleteReadFlow ==
    ASSUME IInv, FlowInv, NEW i \in Ids, NEW ok \in BOOLEAN, CompleteRead(i, ok)
    PROVE  FlowInv'
<1> DEFINE t == AfterRead(Retire(st[i], "read"), ok)
           m == IF ok THEN [net[i] EXCEPT !.taken = @ + 1] ELSE net[i]
           c == Cardinality(Msgs(ready, i))
<1>1. /\ "read" \in st[i].ops /\ StreamCase(i, t) /\ net[i] \in Net /\ MsgFlow(i)
      /\ i \in streams /\ phase # "closed" /\ net[i].taken \in Nat
  BY TagFacts, FlowTypes DEF CompleteRead
<1>2. net' = [net EXCEPT ![i] = m]
  BY DEF CompleteRead, IInv, TypeOK
<1>3. ReadFrom(net[i], m, ok)
  <2>1. ok => net[i].taken # net[i].inbound
    BY FlowTypes DEF CompleteRead
  <2>2. ~ok => net[i].wire = "dead" \/ (net[i].wire = "ended" /\ net[i].taken = net[i].inbound)
    BY DEF CompleteRead
  <2> QED
    BY <1>1, <2>1, <2>2 DEF ReadFrom, Net
<1>4. (ok => m.taken = net[i].taken + 1) /\ (~ok => m.taken = net[i].taken)
  BY <1>1 DEF Net
<1> HIDE DEF m
<1>5. /\ Flow(t, m) /\ t.broken = st[i].broken
      /\ ok /\ ~st[i].broken => t.unread = st[i].unread + 1
      /\ ~(ok /\ ~st[i].broken) => t.unread = st[i].unread
  BY <1>1, <1>3, TagFacts, ReadsFlow
<1>6. /\ st' = [st EXCEPT ![i] = t] /\ streams' \subseteq streams
      /\ UNCHANGED <<phase, next_id, calls, unary, handed>>
  BY <1>1 DEF StreamCase, LiveAfter
<1> HIDE DEF t
<1>7. st'[i] = t /\ net'[i] = m
  BY <1>2, <1>6 DEF IInv, TypeOK
<1>8. CASE ok /\ ~st[i].broken
  <2>1. Emit("stream_msg", i, net[i].taken + 1)
    BY <1>8 DEF CompleteRead
  <2>2. handed[i].msgs + c = net[i].taken /\ st[i].unread = c
    BY <1>1, <1>8 DEF MsgFlow
  <2>3. /\ Numbered(Msgs(ready', i), handed[i].msgs) /\ Cardinality(Msgs(ready', i)) = c + 1
        /\ \A j \in Ids \ {i} : Msgs(ready', j) = Msgs(ready, j)
        /\ \A e \in ready' : e \in ready \/ (e.id = i /\ e.kind = "stream_msg")
    BY <1>1, <2>1, <2>2, EmitMsg
  <2>4. c \in Nat /\ handed[i].msgs \in Nat
    BY MsgsFinite, FlowTypes
  <2> HIDE DEF c
  <2>5. handed[i].msgs + (c + 1) = net[i].taken + 1
    BY <2>2, <2>4
  <2>6. MsgFlow(i)'
    BY <1>4, <1>5, <1>6, <1>7, <1>8, <2>2, <2>3, <2>5 DEF MsgFlow
  <2>7. \A e \in ready' : e \in ready \/ (e.id = i /\ StatusFlow(e)')
    BY <2>3 DEF StatusFlow
  <2> QED
    BY <1>1, <1>2, <1>5, <1>6, <2>3, <2>6, <2>7, StreamStep
<1>9. CASE ~(ok /\ ~st[i].broken)
  <2>1. ready' = ready
    BY <1>9 DEF CompleteRead, Quiet
  <2>2. MsgFlow(i)'
    BY <1>1, <1>4, <1>5, <1>6, <1>7, <1>9, <2>1, MsgKept
  <2> QED
    BY <1>1, <1>2, <1>5, <1>6, <2>1, <2>2, StreamStep
<1> QED
  BY <1>8, <1>9

\* The status is out: whatever it says, the last read has said the same.
LEMMA CompleteFinishFlow ==
    ASSUME IInv, FlowInv, NEW i \in Ids, CompleteFinish(i)
    PROVE  FlowInv'
<1> DEFINE r == Retire(st[i], "finish")
           t == [r EXCEPT !.status_emitted = TRUE]
<1>1. /\ "finish" \in st[i].ops /\ StreamCase(i, t) /\ Emit("stream_status", i, Status(i))
      /\ net' = [net EXCEPT ![i] = net[i]] /\ UNCHANGED net
  BY DEF CompleteFinish, IInv, TypeOK
<1>2. StreamInv(st[i]) /\ Flow(st[i], net[i]) /\ st[i] \in Stream
  BY <1>1, TagFacts
<1>3. r \in Stream /\ SameButTags(st[i], r) /\ Flow(r, net[i])
  BY <1>1, <1>2, RetireFlow
<1> HIDE DEF r
<1>4. t.unread = st[i].unread /\ t.broken = st[i].broken /\ t.status_emitted
  BY <1>3 DEF Stream, SameButTags
<1>5. Flow(t, net[i])
  BY <1>3 DEF Flow, WriteFlow, ReadFlow, ReadRoom, EndFlow, Stream
<1>6. st[i].broken \/ st[i].reads_closed
  BY <1>1, <1>2 DEF StreamInv, FlagsTellTags, LifeOrder, Flow, EndFlow
<1>7. Status(i) = 0 /\ ~st[i].broken => net[i].taken = net[i].inbound
  BY <1>2, <1>6 DEF Status, Flow, EndFlow
<1>8. /\ \A j : Msgs(ready', j) = Msgs(ready, j)
      /\ \A e \in ready' : e \in ready \/ (e.kind = "stream_status" /\ e.id = i /\ e.val = Status(i))
  BY <1>1, EmitOther
<1> HIDE DEF t
<1>9. st'[i] = t
  BY <1>1 DEF StreamCase, IInv, TypeOK
<1>10. \A e \in ready' : e \in ready \/ (e.id = i /\ StatusFlow(e)')
  BY <1>1, <1>4, <1>7, <1>8, <1>9 DEF StatusFlow
<1> QED
  BY <1>1, <1>4, <1>5, <1>8, <1>10, PlainCase

LEMMA CompleteUnaryFlow ==
    ASSUME IInv, FlowInv, NEW i \in Ids, CompleteUnary(i)
    PROVE  FlowInv'
<1>1. /\ i \in unary /\ i \in calls /\ Emit("unary", i, Status(i)) /\ calls' \subseteq calls
      /\ UNCHANGED <<phase, next_id, streams, st, net, handed>>
  BY DEF CompleteUnary, IInv, NoDanglingTag
<1>2. /\ \A j : Msgs(ready', j) = Msgs(ready, j)
      /\ \A e \in ready' : e \in ready \/ (e.kind = "unary" /\ e.id = i)
  BY <1>1, EmitOther
<1>3. \A j \in Ids : MsgFlow(j)'
  BY <1>1, <1>2, MsgKept DEF FlowInv
<1>4. \A j \in Ids : Flow(st'[j], net'[j])
  BY <1>1 DEF FlowInv
<1>5. \A e \in ready' : StatusFlow(e)'
  BY <1>1, <1>2 DEF FlowInv, StatusFlow
<1>6. \A j \in Ids : j >= next_id' => Unused(j)'
  BY <1>1, <1>2 DEF FlowInv, Unused
<1>7. Closed'
  BY <1>1 DEF FlowInv, Closed
<1> QED
  BY <1>3, <1>4, <1>5, <1>6, <1>7 DEF FlowInv

LEMMA SendStep ==
    ASSUME IInv, FlowInv, NEW i \in Ids, StreamSend(i) \/ StreamWritesDone(i)
    PROVE  FlowInv'
<1>1. i \in streams /\ phase = "open" /\ UNCHANGED <<phase, next_id, calls, streams, unary, ready, handed>>
  BY DEF StreamSend, SendAccepted, StreamWritesDone
<1>2. st[i] \in Stream /\ net[i] \in Net /\ Flow(st[i], net[i]) /\ MsgFlow(i)
  BY FlowTypes DEF FlowInv
<1>3. ASSUME NEW t, NEW m, st' = [st EXCEPT ![i] = t], net' = [net EXCEPT ![i] = m],
             Flow(t, m), t.unread = st[i].unread, t.broken = st[i].broken, m.taken = net[i].taken
      PROVE  FlowInv'
  <2>1. st'[i] = t /\ net'[i] = m
    BY <1>3 DEF IInv, TypeOK
  <2>2. MsgFlow(i)'
    BY <1>1, <1>2, <1>3, <2>1, MsgKept
  <2> QED
    BY <1>1, <1>3, <2>2, StreamStep
<1>4. CASE StreamSend(i)
  <2> DEFINE t == s_pump_writes_locked(
                    [st[i] EXCEPT !.write_queue = Append(st[i].write_queue, net[i].accepted + 1)])
             m == [net[i] EXCEPT !.accepted = net[i].accepted + 1]
  <2>1. st' = [st EXCEPT ![i] = t] /\ net' = [net EXCEPT ![i] = m]
    BY <1>4 DEF StreamSend
  <2>2. ~st[i].broken /\ Len(st[i].write_queue) < st[i].write_cap
    BY <1>4 DEF StreamSend, SendAccepted
  <2>3. net[i].accepted + 1 \in 1..MaxSends
    BY <1>2, <1>4, ClientAssumption DEF StreamSend, Net, ClientAssumption
  <2>4. /\ m.wire = net[i].wire /\ m.inbound = net[i].inbound /\ m.taken = net[i].taken
        /\ m.written = net[i].written /\ m.accepted = net[i].accepted + 1
    BY <1>2 DEF Net
  <2> HIDE DEF m
  <2>5. Flow(t, m) /\ t.unread = st[i].unread /\ t.broken = st[i].broken
    BY <1>2, <2>2, <2>3, <2>4, SendFlow
  <2> HIDE DEF t
  <2> QED
    BY <1>3, <2>1, <2>4, <2>5
<1>5. CASE StreamWritesDone(i)
  <2> DEFINE t == s_pump_writes_locked([st[i] EXCEPT !.wdone_requested = TRUE])
  <2>1. st' = [st EXCEPT ![i] = t] /\ net' = [net EXCEPT ![i] = net[i]]
    BY <1>5 DEF StreamWritesDone, IInv, TypeOK
  <2>2. Flow(t, net[i]) /\ t.unread = st[i].unread /\ t.broken = st[i].broken
    BY <1>2, WritesDoneFlow
  <2> HIDE DEF t
  <2> QED
    BY <1>3, <2>1, <2>2
<1> QED
  BY <1>4, <1>5

\* A new stream starts from nothing, whoever had its record before.
LEMMA NewFlow ==
    ASSUME NEW rc \in ReadCaps, NEW wc \in WriteCaps, NEW n, n.accepted = 0, n.written = 0,
           NEW t, t = NewStream(rc, wc) \/ t = Post(NewStream(rc, wc), "start")
    PROVE  Flow(t, n) /\ t.unread = 0
<1> DEFINE s == NewStream(rc, wc)
<1>1. rc \in Nat /\ wc \in Nat /\ Len(<<>>) = 0
  BY ClientAssumption, EmptySeq DEF ClientAssumption
<1>2. /\ s.unread = 0 /\ s.read_cap = rc /\ s.write_cap = wc /\ s.write_queue = <<>>
      /\ ~s.read_inflight /\ ~s.write_inflight /\ ~s.wdone_inflight
      /\ ~s.want_finish /\ ~s.reads_closed /\ ~s.broken
  BY DEF NewStream
<1>3. s \in Stream
  BY NewStreamLemma
<1> HIDE DEF s
<1>4. Flow(s, n)
  BY <1>1, <1>2 DEF Flow, WriteFlow, ReadFlow, ReadRoom, EndFlow
<1>5. CASE t = s
  BY <1>2, <1>4, <1>5
<1>6. CASE t = Post(s, "start")
  <2>1. SameButTags(s, t)
    BY <1>3, <1>6, PostSame DEF OpKinds
  <2> QED
    BY <1>2, <1>4, <2>1, FlowSame DEF SameButTags
<1> QED
  BY <1>5, <1>6 DEF s

LEMMA StartStep ==
    ASSUME IInv, FlowInv, CallStart \/ \E rc \in ReadCaps, wc \in WriteCaps : StreamStart(rc, wc)
    PROVE  FlowInv'
<1>0. PICK i : i = next_id
  OBVIOUS
<1>1. /\ i \in Ids /\ phase = "open" /\ next_id' = i + 1
      /\ calls' \subseteq calls \cup {i} /\ streams' \subseteq streams \cup {i}
      /\ UNCHANGED <<phase, ready, handed>>
  BY <1>0, ClientAssumption DEF CallStart, StreamStart, IInv, TypeOK, Ids, ClientAssumption
<1>2. net' = [net EXCEPT ![i] = [net[i] EXCEPT !.wire = "open"]]
  BY <1>0 DEF CallStart, StreamStart
<1>3. net[i] \in Net /\ Unused(i) /\ Flow(st[i], net[i]) /\ MsgFlow(i)
  BY <1>0, <1>1, FlowTypes DEF FlowInv
<1>4. net'[i].accepted = 0 /\ net'[i].written = 0 /\ net'[i].taken = 0
  BY <1>1, <1>2, <1>3 DEF Unused, Net, IInv, TypeOK
<1>5. \A j \in Ids \ {i} : st'[j] = st[j] /\ net'[j] = net[j]
  BY <1>0, <1>1, <1>2 DEF CallStart, StreamStart, IInv, TypeOK
<1>6. Flow(st'[i], net'[i]) /\ (i \in streams' => st'[i].unread = 0)
  <2>1. CASE CallStart
    <3>1. st'[i] = st[i] /\ i \notin streams'
      BY <1>3, <2>1 DEF CallStart, Unused
    <3>2. Flow(st[i], net'[i])
      BY <1>3, <1>4 DEF Flow, WriteFlow, EndFlow, Unused
    <3> QED
      BY <3>1, <3>2
  <2>2. ASSUME NEW rc \in ReadCaps, NEW wc \in WriteCaps, StreamStart(rc, wc)
        PROVE  Flow(st'[i], net'[i]) /\ st'[i].unread = 0
    <3>1. st'[i] = Post(NewStream(rc, wc), "start")
      BY <1>0, <1>1, <2>2 DEF StreamStart, IInv, TypeOK
    <3> QED
      BY <1>4, <3>1, NewFlow
  <2> QED
    BY <2>1, <2>2
<1>7. Msgs(ready, i) = {} /\ Cardinality(Msgs(ready, i)) = 0
  BY <1>3, FS_EmptySet DEF Unused, Msgs
<1>8. ASSUME NEW j \in Ids PROVE Flow(st'[j], net'[j]) /\ MsgFlow(j)'
  <2>1. CASE j = i
    <3>1. Msgs(ready', i) = Msgs(ready, i) /\ handed'[i].msgs = 0 /\ handed[i].msgs = 0
      BY <1>1, <1>3 DEF Unused
    <3>2. MsgFlow(i)'
      BY <1>3, <1>4, <1>6, <1>7, <3>1 DEF MsgFlow
    <3> QED
      BY <1>6, <2>1, <3>2
  <2>2. CASE j # i
    <3>1. Flow(st'[j], net'[j])
      BY <1>5, <2>2 DEF FlowInv
    <3>2. MsgFlow(j) /\ st'[j] = st[j] /\ net'[j] = net[j] /\ (j \in streams' => j \in streams)
      BY <1>1, <1>5, <2>2 DEF FlowInv
    <3>3. MsgFlow(j)'
      BY <1>1, <3>2, MsgKept
    <3> QED
      BY <3>1, <3>3
  <2> QED
    BY <2>1, <2>2
<1>9. ASSUME NEW e \in ready' PROVE StatusFlow(e)'
  <2>1. e.id \in Ids \ {i} /\ StatusFlow(e)
    BY <1>1, <1>3, FlowTypes DEF FlowInv, Unused
  <2> QED
    BY <1>5, <2>1 DEF StatusFlow
<1>10. ASSUME NEW j \in Ids, j >= next_id' PROVE Unused(j)'
  <2>1. j \in Nat /\ i \in Nat /\ j # i /\ j >= i
    BY <1>1, <1>10, FlowTypes
  <2>2. Unused(j)
    BY <1>0, <2>1 DEF FlowInv
  <2> QED
    BY <1>1, <1>5, <2>1, <2>2 DEF Unused
<1>11. Closed'
  BY <1>1 DEF Closed
<1> QED
  BY <1>8, <1>9, <1>10, <1>11 DEF FlowInv

\* join() has returned: what is left in the deque goes with the client.
LEMMA JoinStep ==
    ASSUME IInv, FlowInv, CloseJoin
    PROVE  FlowInv'
<1>1. /\ unary = {} /\ (\A i \in Ids : st[i].ops = {}) /\ phase' = "closed"
      /\ calls' = {} /\ streams' = {} /\ ready' = {}
      /\ UNCHANGED <<next_id, st, unary, net, handed>>
  BY DEF CloseJoin
<1>2. ASSUME NEW i \in Ids PROVE MsgFlow(i)'
  <2>1. Msgs(ready', i) = {} /\ Cardinality(Msgs(ready', i)) = 0 /\ handed[i].msgs \in Nat
    BY <1>1, FS_EmptySet, FlowTypes DEF Msgs
  <2>2. Numbered(Msgs(ready', i), handed[i].msgs)
    BY <2>1 DEF Numbered
  <2> QED
    BY <1>1, <2>2 DEF MsgFlow
<1>3. \A i \in Ids : Flow(st'[i], net'[i])
  BY <1>1 DEF FlowInv
<1>4. \A j \in Ids : j >= next_id' => Unused(j)'
  BY <1>1 DEF FlowInv, Unused
<1>5. Closed'
  BY <1>1 DEF Closed
<1> QED
  BY <1>1, <1>2, <1>3, <1>4, <1>5 DEF FlowInv

LEMMA FlowNext == IInv /\ FlowInv /\ [Next]_vars => FlowInv'
<1> SUFFICES ASSUME IInv, FlowInv, [Next]_vars PROVE FlowInv'
  OBVIOUS
<1>1. ASSUME NEW i \in Ids, CallCancel(i) PROVE FlowInv'
  <2>1. \A j \in Ids : WireStep(j)
    BY <1>1, CancelStep DEF CallCancel
  <2> QED
    BY <1>1, <2>1, NetStep DEF CallCancel
<1>2. ASSUME NEW i \in Ids, PeerSend(i) PROVE FlowInv'
  <2>1. ASSUME NEW j \in Ids PROVE WireStep(j)
    <3>1. net[j] \in Net /\ net[i].wire = "open" /\ i \in streams
      BY <1>2, FlowTypes DEF PeerSend
    <3>2. net'[j] = IF j = i THEN [net[i] EXCEPT !.inbound = net[i].inbound + 1] ELSE net[j]
      BY <1>2 DEF PeerSend, IInv, TypeOK
    <3> QED
      BY <3>1, <3>2 DEF WireStep, Net
  <2> QED
    BY <1>2, <2>1, NetStep DEF PeerSend
<1>3. ASSUME NEW i \in Ids, NEW how \in {"ended", "dead"}, WireOver(i, how) PROVE FlowInv'
  <2>1. ASSUME NEW j \in Ids PROVE WireStep(j)
    <3>1. net[j] \in Net /\ net[i].wire = "open"
      BY <1>3, FlowTypes DEF WireOver
    <3>2. net'[j] = IF j = i THEN [net[i] EXCEPT !.wire = how] ELSE net[j]
      BY <1>3 DEF WireOver, IInv, TypeOK
    <3> QED
      BY <3>1, <3>2 DEF WireStep, Net
  <2> QED
    BY <1>3, <2>1, NetStep DEF WireOver
<1>4. CASE CloseBegin
  <2>1. \A j \in Ids : WireStep(j)
    BY <1>4, CancelStep DEF CloseBegin
  <2> QED
    BY <1>4, <2>1, NetStep DEF CloseBegin
<1>5. CASE CloseQueue
  BY <1>5, NetStep DEF CloseQueue, WireStep
<1>6. CASE UNCHANGED vars
  BY <1>6, NetStep DEF vars, WireStep
<1> QED
  BY <1>1, <1>2, <1>3, <1>4, <1>5, <1>6, StartStep, SendStep, PollStep, JoinStep,
     CompleteUnaryFlow, CompleteStartFlow, CompleteReadFlow, CompleteWriteFlow,
     CompleteWdoneFlow, CompleteFinishFlow
  DEF Next, Complete, CloseAgain

LEMMA FlowInit == Init => FlowInv
<1> SUFFICES ASSUME Init PROVE FlowInv
  OBVIOUS
<1> PICK rc \in ReadCaps, wc \in WriteCaps : st = [i \in Ids |-> NewStream(rc, wc)]
  BY DEF Init
<1>1. ASSUME NEW i \in Ids
      PROVE  /\ st[i] = NewStream(rc, wc) /\ handed[i].msgs = 0 /\ ~handed[i].over
             /\ net[i].wire = "none" /\ net[i].accepted = 0 /\ net[i].written = 0
             /\ net[i].inbound = 0 /\ net[i].taken = 0
  BY DEF Init
<1>2. ASSUME NEW i \in Ids PROVE Flow(st[i], net[i]) /\ MsgFlow(i)
  <2>1. Flow(st[i], net[i])
    BY <1>1, NewFlow
  <2>2. Msgs(ready, i) = {} /\ Cardinality(Msgs(ready, i)) = 0
    BY FS_EmptySet DEF Init, Msgs
  <2>3. Numbered(Msgs(ready, i), 0)
    BY <2>2 DEF Numbered
  <2> QED
    BY <1>1, <2>1, <2>2, <2>3 DEF Init, MsgFlow
<1>3. \A i \in Ids : Unused(i)
  BY <1>1 DEF Init, Unused
<1> QED
  BY <1>2, <1>3 DEF Init, FlowInv, Closed

LEMMA FlowInvariance == Spec => [](IInv /\ FlowInv)
<1>1. Init => IInv /\ FlowInv
  BY InitLemma, FlowInit
<1>2. IInv /\ FlowInv /\ [Next]_vars => (IInv /\ FlowInv)'
  BY NextLemma, FlowNext
<1> QED
  BY <1>1, <1>2, PTL DEF Spec

-----------------------------------------------------------------------------
\* R's read buffer is a bound on what the client holds for it: unread is the
\* number of messages queued, and no read is posted without room (client.cpp's
\* test of unread against read_cap, in the completion and in the poll).
THEOREM BackpressureTheorem == Spec => []Backpressure
<1>1. IInv /\ FlowInv => Backpressure
  <2> SUFFICES ASSUME IInv, FlowInv, NEW i \in streams
               PROVE  /\ st[i].unread = Cardinality(Msgs(ready, i))
                      /\ st[i].read_cap > 0 =>
                           st[i].unread + (IF st[i].read_inflight THEN 1 ELSE 0) <= st[i].read_cap
    BY DEF Backpressure
  <2>1. i \in Ids /\ MsgFlow(i) /\ ReadFlow(st[i])
    BY DEF IInv, TypeOK, FlowInv, Flow
  <2>2. st[i].read_cap \in Nat /\ st[i].unread \in Int
    BY <2>1, FlowTypes, CapType
  <2>3. CASE st[i].read_inflight
    <3>1. st[i].read_cap > 0 => st[i].unread + 1 <= st[i].read_cap
      BY <2>1, <2>2, <2>3 DEF ReadFlow, ReadRoom
    <3> QED
      BY <2>1, <2>3, <3>1 DEF MsgFlow
  <2>4. CASE ~st[i].read_inflight
    <3>1. st[i].read_cap > 0 => st[i].unread + 0 <= st[i].read_cap
      BY <2>1, <2>2 DEF ReadFlow
    <3> QED
      BY <2>1, <2>4, <3>1 DEF MsgFlow
  <2> QED
    BY <2>3, <2>4
<1> QED
  BY <1>1, FlowInvariance, PTL

\* What grpc_send accepted is on the wire or in write_queue, each message once
\* and in order, within write_cap, and WritesDone comes after the last of it.
THEOREM WritesInOrderTheorem == Spec => []WritesInOrder
<1>1. IInv /\ FlowInv => WritesInOrder
  <2> SUFFICES ASSUME IInv, FlowInv, NEW i \in streams
               PROVE  /\ WriteFlow(st[i], net[i])
                      /\ "wdone" \in st[i].ops => net[i].written = net[i].accepted
    BY DEF WritesInOrder, WriteFlow
  <2>1. i \in Ids /\ StreamInv(st[i]) /\ WriteFlow(st[i], net[i]) /\ net[i] \in Net
    BY FlowTypes DEF IInv, TypeOK, FlowInv, Flow
  <2>2. ASSUME "wdone" \in st[i].ops PROVE net[i].written = net[i].accepted
    <3>1. st[i].write_queue = <<>> /\ ~st[i].broken
      BY <2>1, <2>2 DEF StreamInv, FlagsTellTags, LifeOrder, WriteFlow
    <3>2. net[i].written + 0 = net[i].accepted /\ net[i].written \in Nat
      BY <2>1, <3>1, EmptySeq, ClientAssumption DEF WriteFlow, Net, ClientAssumption
    <3> QED
      BY <3>2
  <2> QED
    BY <2>1, <2>2
<1> QED
  BY <1>1, FlowInvariance, PTL

\* R is handed the peer's messages in the order sent, none skipped and none
\* repeated, whatever it filters its polls by and however they are batched.
THEOREM MsgsInOrderTheorem == Spec => []MsgsInOrder
<1>1. FlowInv => MsgsInOrder
  BY DEF FlowInv, MsgFlow, MsgsInOrder, Numbered
<1> QED
  BY <1>1, FlowInvariance, PTL

\* The status the peer sent reaches R after every message the peer sent, on a
\* stream on which no send had failed.
THEOREM StatusCompleteTheorem == Spec => []StatusComplete
<1>1. IInv /\ FlowInv => StatusComplete
  <2> SUFFICES ASSUME IInv, FlowInv, NEW e \in ready,
                      e.kind = "stream_status", e.val = 0, ~st[e.id].broken
               PROVE  handed[e.id].msgs + Cardinality(Msgs(ready, e.id)) = net[e.id].inbound
    BY DEF StatusComplete
  <2>1. e.id \in Ids /\ StatusFlow(e) /\ MsgFlow(e.id) /\ phase # "closed"
    BY FlowTypes DEF FlowInv, Closed
  <2> QED
    BY <2>1 DEF StatusFlow, MsgFlow
<1> QED
  BY <1>1, FlowInvariance, PTL

-----------------------------------------------------------------------------
(* One fate.                                                               *)

LEMMA FateKept ==
    ASSUME NEW j \in Ids, Fate(j), j \in (calls \cup streams)' <=> j \in calls \cup streams,
           EventsOf(j)' = EventsOf(j), handed'[j].over = handed[j].over
    PROVE  Fate(j)'
<1>1. EndOf(j)' = {e \in EventsOf(j)' : e.kind \in Terminal} /\ EndOf(j) = {e \in EventsOf(j) : e.kind \in Terminal}
  BY DEF EndOf, EventsOf
<1>2. EndOf(j)' = EndOf(j)
  BY <1>1
<1>3. \A e : EndOf(j) = {e} => (e \in ready' <=> e \in ready)
  <2> SUFFICES ASSUME NEW e, EndOf(j) = {e} PROVE e \in ready' /\ e \in ready
    OBVIOUS
  <2>1. e \in EndOf(j) /\ e \in EndOf(j)'
    BY <1>2
  <2> QED
    BY <2>1 DEF EndOf
<1> QED
  BY <1>2, <1>3 DEF Fate

\* An event of call i leaves the other calls' alone, and is the newest.
LEMMA FateEmit ==
    ASSUME IInv, NEW k, NEW i \in Ids, NEW v, Emit(k, i, v)
    PROVE  /\ \A j \in Ids \ {i} : EventsOf(j)' = EventsOf(j)
           /\ k \notin Terminal => EndOf(i)' = EndOf(i)
           /\ EndOf(i) = {} /\ k \in Terminal =>
                \E e \in ready' : EndOf(i)' = {e} /\ \A f \in EventsOf(i)' : f.stamp <= e.stamp
<1> DEFINE e == [kind |-> k, id |-> i, val |-> v, stamp |-> arrived + 1]
<1>1. ready' = ready \cup {e}
  BY DEF Emit
<1>2. e.kind = k /\ e.id = i /\ e.stamp = arrived + 1
  OBVIOUS
<1>3. arrived \in Nat /\ \A f \in ready : f.stamp \in Nat /\ f.stamp <= arrived
  BY FlowTypes DEF IInv, TypeOK
<1> HIDE DEF e
<1>4. \A j \in Ids \ {i} : EventsOf(j)' = EventsOf(j)
  BY <1>1, <1>2 DEF EventsOf
<1>5. k \notin Terminal => EndOf(i)' = EndOf(i)
  BY <1>1, <1>2 DEF EndOf
<1>6. EndOf(i) = {} /\ k \in Terminal => EndOf(i)' = {e}
  BY <1>1, <1>2 DEF EndOf
<1>7. \A f \in EventsOf(i)' : f.stamp <= e.stamp
  <2> SUFFICES ASSUME NEW f \in ready' PROVE f.stamp <= e.stamp
    BY DEF EventsOf
  <2> QED
    BY <1>1, <1>2, <1>3
<1> QED
  BY <1>1, <1>4, <1>5, <1>6, <1>7

\* A call in flight gets an event that is not its last, or none.
LEMMA FateGoesOn ==
    ASSUME IInv, FlowInv, FateInv, phase = "open", NEW i \in Ids, i \in streams,
           Quiet \/ \E k, v : k \notin Terminal /\ Emit(k, i, v),
           UNCHANGED <<phase, next_id, calls, streams, handed>>
    PROVE  FateInv'
<1>1. /\ \A j \in Ids \ {i} : EventsOf(j)' = EventsOf(j)
      /\ EndOf(i)' = EndOf(i)
  BY FateEmit DEF Quiet, EventsOf, EndOf
<1>2. ASSUME NEW j \in Ids, j < next_id PROVE Fate(j)'
  <2>1. Fate(j)
    BY <1>2 DEF FateInv
  <2>2. CASE j = i
    BY <1>1, <2>1, <2>2 DEF Fate
  <2>3. CASE j # i
    BY <1>1, <2>1, <2>3, FateKept
  <2> QED
    BY <2>2, <2>3
<1> QED
  BY <1>2 DEF FateInv

\* The last event of a call takes it out of its map.
LEMMA FateEnds ==
    ASSUME IInv, FlowInv, FateInv, phase = "open", NEW i \in calls \cup streams,
           NEW k \in Terminal, NEW v, Emit(k, i, v),
           (calls \cup streams)' = (calls \cup streams) \ {i},
           calls' \subseteq calls, streams' \subseteq streams, UNCHANGED <<phase, next_id, handed>>
    PROVE  FateInv'
<1>0. i \in Ids
  BY DEF IInv, TypeOK
<1>1. i < next_id /\ Fate(i)
  <2>1. ~(i >= next_id) /\ i \in Nat /\ next_id \in Nat
    BY <1>0, FlowTypes DEF FlowInv, Unused
  <2> QED
    BY <1>0, <2>1 DEF FateInv
<1>2. EndOf(i) = {} /\ ~handed[i].over
  BY <1>1 DEF Fate
<1>3. /\ \A j \in Ids \ {i} : EventsOf(j)' = EventsOf(j)
      /\ \E e \in ready' : EndOf(i)' = {e} /\ \A f \in EventsOf(i)' : f.stamp <= e.stamp
  BY <1>0, <1>2, FateEmit
<1>4. ASSUME NEW j \in Ids, j < next_id PROVE Fate(j)'
  <2>1. Fate(j)
    BY <1>4 DEF FateInv
  <2>2. CASE j = i
    BY <1>2, <1>3, <2>2 DEF Fate
  <2>3. CASE j # i
    BY <1>3, <2>1, <2>3, FateKept
  <2> QED
    BY <2>2, <2>3
<1> QED
  BY <1>4 DEF FateInv

LEMMA FatePoll ==
    ASSUME IInv, FlowInv, FateInv, NEW want \in Ids \cup {All}, NEW maxn \in PollSizes,
           Poll(want, maxn)
    PROVE  FateInv'
<1> DEFINE batch == Batch(ready, want, maxn)
           taken(i) == \E e \in batch : e.id = i /\ e.kind \in Terminal
<1>1. /\ phase = "open" /\ ready' = ready \ batch /\ batch \subseteq ready
      /\ UNCHANGED <<phase, next_id, calls, streams>>
  BY DEF Poll, Batch
<1>2. \A i \in Ids : handed'[i].over = (handed[i].over \/ taken(i))
  BY PollHanded
<1>3. ASSUME NEW e \in batch, NEW f \in ready \ batch, e.id = f.id PROVE e.stamp < f.stamp
  <2>1. maxn \in Nat /\ IsFiniteSet(ready) /\ \A g \in ready : g.stamp \in Nat
    BY ClientAssumption, FlowTypes DEF ClientAssumption, IInv
  <2> QED
    BY <1>3, <2>1, BatchIsPrefix
<1>4. \A e \in ready : e.stamp \in Nat
  BY FlowTypes
<1> HIDE DEF batch
<1>5. ASSUME NEW i \in Ids, i < next_id PROVE Fate(i)'
  <2>1. Fate(i)
    BY <1>1, <1>5 DEF FateInv
  <2>2. EndOf(i)' = EndOf(i) \ batch /\ EventsOf(i)' = EventsOf(i) \ batch
    BY <1>1 DEF EndOf, EventsOf
  <2>3. taken(i) <=> \E e \in EndOf(i) : e \in batch
    BY <1>1 DEF EndOf
  <2> HIDE DEF taken
  <2>4. CASE i \in calls \cup streams /\ EndOf(i) = {} /\ ~handed[i].over
    BY <1>1, <1>2, <2>2, <2>3, <2>4 DEF Fate
  <2>5. CASE i \notin calls \cup streams /\ handed[i].over /\ EventsOf(i) = {}
    BY <1>1, <1>2, <2>2, <2>5 DEF Fate
  <2>6. ASSUME i \notin calls \cup streams, ~handed[i].over, NEW e \in ready, EndOf(i) = {e},
               \A f \in EventsOf(i) : f.stamp <= e.stamp
        PROVE  Fate(i)'
    <3>1. e.id = i
      BY <2>6 DEF EndOf
    <3>2. CASE e \in batch
      <4>1. taken(i) /\ handed'[i].over
        BY <1>2, <2>3, <2>6, <3>2
      <4>2. EventsOf(i)' = {}
        <5> SUFFICES ASSUME NEW f \in EventsOf(i), f \notin batch PROVE FALSE
          BY <2>2
        <5>1. f \in ready /\ f.id = i
          BY DEF EventsOf
        <5>2. e.stamp < f.stamp /\ f.stamp <= e.stamp
          BY <1>3, <2>6, <3>1, <3>2, <5>1
        <5> QED
          BY <1>4, <5>1, <5>2
      <4> QED
        BY <1>1, <2>6, <4>1, <4>2 DEF Fate
    <3>3. CASE e \notin batch
      <4>1. EndOf(i)' = {e} /\ ~taken(i) /\ ~handed'[i].over
        BY <1>2, <2>2, <2>3, <2>6, <3>3
      <4>2. e \in ready' /\ \A f \in EventsOf(i)' : f.stamp <= e.stamp
        BY <1>1, <2>2, <2>6, <3>3
      <4> QED
        BY <1>1, <2>6, <4>1, <4>2 DEF Fate
    <3> QED
      BY <3>2, <3>3
  <2> QED
    BY <2>1, <2>4, <2>5, <2>6 DEF Fate
<1> QED
  BY <1>1, <1>5 DEF FateInv

LEMMA FateStart ==
    ASSUME IInv, FlowInv, FateInv,
           CallStart \/ \E rc \in ReadCaps, wc \in WriteCaps : StreamStart(rc, wc)
    PROVE  FateInv'
<1>0. PICK i : i = next_id
  OBVIOUS
<1>1. /\ i \in Ids /\ phase = "open" /\ next_id' = i + 1
      /\ UNCHANGED <<phase, ready, handed>>
      /\ \/ calls' = calls \cup {i} /\ streams' = streams
         \/ calls' = calls /\ streams' = streams \cup {i}
  BY <1>0, ClientAssumption DEF CallStart, StreamStart, IInv, TypeOK, Ids, ClientAssumption
<1>2. Unused(i)
  BY <1>0, <1>1, FlowTypes DEF FlowInv
<1>3. calls' \cap streams' = {}
  BY <1>1, <1>2 DEF FateInv, Unused
<1>4. ASSUME NEW j \in Ids, j < next_id' PROVE Fate(j)'
  <2>1. CASE j = i
    BY <1>1, <1>2, <2>1 DEF Fate, Unused, EndOf
  <2>2. CASE j # i
    <3>1. j < next_id
      BY <1>0, <1>1, <1>4, <2>2, FlowTypes
    <3>2. Fate(j)
      BY <1>1, <3>1 DEF FateInv
    <3>3. EventsOf(j)' = EventsOf(j)
      BY <1>1 DEF EventsOf
    <3> QED
      BY <1>1, <2>2, <3>2, <3>3, FateKept
  <2> QED
    BY <2>1, <2>2
<1> QED
  BY <1>3, <1>4 DEF FateInv

\* A stream that has an operation to come stays in the map.
LEMMA StaysLive ==
    ASSUME IInv, NEW i \in Ids, st[i].ops # {}, NEW t, StreamCase(i, t), Advances(st[i], t)
    PROVE  i \in streams /\ UNCHANGED <<phase, next_id, calls, streams, handed>>
<1>1. i \in streams /\ ~t.status_emitted
  BY DEF IInv, NoDanglingTag, LiveInv, Advances, Carries
<1> QED
  BY <1>1 DEF StreamCase, LiveAfter

LEMMA FateComplete ==
    ASSUME IInv, FlowInv, FateInv, phase = "open", NEW i \in Ids, Complete(i)
    PROVE  FateInv'
<1>1. CASE CompleteUnary(i)
  <2>1. /\ i \in calls /\ i \notin streams /\ Emit("unary", i, Status(i)) /\ "unary" \in Terminal
        /\ calls' = calls \ {i} /\ UNCHANGED <<phase, next_id, streams, handed>>
    BY <1>1 DEF CompleteUnary, IInv, NoDanglingTag, FateInv, Terminal
  <2>2. (calls \cup streams)' = (calls \cup streams) \ {i}
    BY <2>1
  <2> QED
    BY <2>1, <2>2, FateEnds
<1>2. ASSUME NEW ok \in BOOLEAN, CompleteStart(i, ok) PROVE FateInv'
  <2> DEFINE t == AfterStart(Retire(st[i], "start"), ok)
  <2>1. "start" \in st[i].ops /\ StreamCase(i, t) /\ Quiet
    BY <1>2 DEF CompleteStart
  <2>2. Advances(st[i], t)
    BY <2>1, TaggedLemma, StartLemma
  <2> HIDE DEF t
  <2> QED
    BY <2>1, <2>2, StaysLive, FateGoesOn
<1>3. ASSUME NEW ok \in BOOLEAN, CompleteRead(i, ok) PROVE FateInv'
  <2> DEFINE t == AfterRead(Retire(st[i], "read"), ok)
  <2>1. "read" \in st[i].ops /\ StreamCase(i, t)
    BY <1>3 DEF CompleteRead
  <2>2. Advances(st[i], t)
    BY <2>1, TaggedLemma, ReadLemma
  <2>3. (Emit("stream_msg", i, net[i].taken + 1) \/ Quiet) /\ "stream_msg" \notin Terminal
    BY <1>3 DEF CompleteRead, Terminal
  <2> HIDE DEF t
  <2> QED
    BY <2>1, <2>2, <2>3, StaysLive, FateGoesOn
<1>4. ASSUME NEW ok \in BOOLEAN, CompleteWrite(i, ok) PROVE FateInv'
  <2> DEFINE t == AfterWrite(Retire(st[i], "write"), ok)
  <2>1. "write" \in st[i].ops /\ StreamCase(i, t)
    BY <1>4 DEF CompleteWrite
  <2>2. Advances(st[i], t)
    BY <2>1, TaggedLemma, WriteLemma
  <2>3. (Emit("stream_writable", i, 0) \/ Quiet) /\ "stream_writable" \notin Terminal
    BY <1>4 DEF CompleteWrite, Terminal
  <2> HIDE DEF t
  <2> QED
    BY <2>1, <2>2, <2>3, StaysLive, FateGoesOn
<1>5. ASSUME NEW ok \in BOOLEAN, CompleteWdone(i, ok) PROVE FateInv'
  <2> DEFINE t == AfterWdone(Retire(st[i], "wdone"), ok)
  <2>1. "wdone" \in st[i].ops /\ StreamCase(i, t) /\ Quiet
    BY <1>5 DEF CompleteWdone
  <2>2. Advances(st[i], t)
    BY <2>1, TaggedLemma, WdoneLemma
  <2> HIDE DEF t
  <2> QED
    BY <2>1, <2>2, StaysLive, FateGoesOn
<1>6. CASE CompleteFinish(i)
  <2> DEFINE r == Retire(st[i], "finish")
             t == [r EXCEPT !.status_emitted = TRUE]
  <2>1. /\ "finish" \in st[i].ops /\ StreamCase(i, t) /\ Emit("stream_status", i, Status(i))
        /\ "stream_status" \in Terminal
    BY <1>6 DEF CompleteFinish, Terminal
  <2>2. r \in Stream /\ r.pending = Cardinality(r.ops) /\ r.ops = st[i].ops \ {"finish"}
    BY <2>1, RetireLemma DEF IInv, StreamInv, FlagsTellTags
  <2>3. r.ops = {}
    BY <2>1, <2>2 DEF IInv, StreamInv, FlagsTellTags, LifeOrder
  <2> HIDE DEF r
  <2>4. t.status_emitted /\ t.pending = 0
    BY <2>2, <2>3, FS_EmptySet DEF Stream
  <2> HIDE DEF t
  <2>5. i \in streams /\ i \notin calls
    BY <2>1 DEF IInv, NoDanglingTag, FateInv
  <2>6. streams' = streams \ {i} /\ UNCHANGED <<phase, next_id, calls, handed>>
    BY <2>1, <2>4 DEF StreamCase, LiveAfter
  <2>7. (calls \cup streams)' = (calls \cup streams) \ {i}
    BY <2>5, <2>6
  <2> QED
    BY <2>1, <2>5, <2>6, <2>7, FateEnds
<1> QED
  BY <1>1, <1>2, <1>3, <1>4, <1>5, <1>6 DEF Complete

LEMMA FateNext == IInv /\ FlowInv /\ FateInv /\ [Next]_vars => FateInv'
<1> SUFFICES ASSUME IInv, FlowInv, FateInv, [Next]_vars, phase' = "open" PROVE FateInv'
  BY DEF FateInv
<1>1. ASSUME UNCHANGED <<phase, next_id, calls, streams, ready, handed>> PROVE FateInv'
  <2>1. ASSUME NEW j \in Ids, j < next_id PROVE Fate(j)'
    BY <1>1, <2>1, FateKept DEF FateInv, EventsOf
  <2> QED
    BY <1>1, <2>1 DEF FateInv
<1>2. CASE \E i \in Ids : CallCancel(i) \/ StreamSend(i) \/ StreamWritesDone(i) \/ PeerSend(i)
  BY <1>1, <1>2 DEF CallCancel, StreamSend, StreamWritesDone, PeerSend
<1>3. CASE \E i \in Ids, how \in {"ended", "dead"} : WireOver(i, how)
  BY <1>1, <1>3 DEF WireOver
<1>4. CASE CloseAgain \/ UNCHANGED vars
  BY <1>1, <1>4 DEF CloseAgain, vars
<1>5. CASE \E i \in Ids : Complete(i)
  <2> PICK i \in Ids : Complete(i)
    BY <1>5
  <2>1. phase' = phase
    BY DEF Complete, CompleteUnary, CompleteStart, CompleteRead, CompleteWrite, CompleteWdone,
           CompleteFinish, StreamCase
  <2> QED
    BY <2>1, FateComplete
<1> QED
  BY <1>2, <1>3, <1>4, <1>5, FateStart, FatePoll DEF Next, CloseBegin, CloseQueue, CloseJoin

LEMMA FateInit == Init => FateInv
  BY ClientAssumption DEF Init, FateInv, Ids, ClientAssumption

LEMMA FateInvariance == Spec => [](IInv /\ FlowInv /\ FateInv)
<1>1. Init => FateInv
  BY FateInit
<1>2. IInv /\ FlowInv /\ FateInv /\ [Next]_vars => FateInv'
  BY FateNext
<1> QED
  BY <1>1, <1>2, FlowInvariance, PTL DEF Spec

\* While the client is open every call that was started is in flight, or has
\* its one terminal event queued as its last, or R has had it and nothing of
\* the call comes after (R/client.R:285-286).
THEOREM OneFateTheorem == Spec => []OneFate
<1>1. IInv /\ FateInv => OneFate
  <2> SUFFICES ASSUME IInv, FateInv, phase = "open", NEW i \in 1..(next_id - 1)
               PROVE  /\ i \in calls \cup streams => EndOf(i) = {} /\ ~handed[i].over
                      /\ i \notin calls \cup streams /\ ~handed[i].over => Cardinality(EndOf(i)) = 1
                      /\ \A e \in EndOf(i), f \in ready : f.id = i => f.stamp <= e.stamp
                      /\ handed[i].over => EventsOf(i) = {}
    BY DEF OneFate, EndOf, EventsOf
  <2>1. i \in Ids /\ i < next_id
    BY ClientAssumption DEF IInv, TypeOK, Ids, ClientAssumption
  <2>2. Fate(i)
    BY <2>1 DEF FateInv
  <2>3. \A e : EndOf(i) = {e} => Cardinality(EndOf(i)) = 1
    BY FS_Singleton
  <2>4. EventsOf(i) = {} => EndOf(i) = {}
    BY DEF EventsOf, EndOf
  <2>5. \A f \in ready : f.id = i => f \in EventsOf(i)
    BY DEF EventsOf
  <2> QED
    BY <2>2, <2>3, <2>4, <2>5 DEF Fate
<1> QED
  BY <1>1, FateInvariance, PTL

-----------------------------------------------------------------------------
(* A stream as the other end of the RPC sees it.                           *)

\* Nothing goes out that R has not handed over, nothing comes in that was not
\* sent, and R hears of the end only when there is one; a status other than the
\* peer's own only of a dead call.
Edge(i) ==
    /\ net[i].written <= net[i].accepted
    /\ net[i].taken <= net[i].inbound
    /\ handed[i].msgs + Cardinality(Msgs(ready, i)) <= net[i].taken
    /\ handed[i].over \/ EndOf(i) # {} => net[i].wire \in {"ended", "dead"}
    /\ \A e \in EndOf(i) : net[i].wire = "ended" => e.val = 0
    /\ i \in streams => net[i].wire # "none"

\* The client has only streams.
NoUnary == calls = {} /\ unary = {} /\ \A e \in ready : e.kind # "unary"

EdgeInv == NoUnary /\ \A i \in Ids : Edge(i)

\* The steps of an open client with only streams.
Local ==
    \/ \E rc \in ReadCaps, wc \in WriteCaps : StreamStart(rc, wc)
    \/ \E i \in Ids : CallCancel(i) \/ StreamSend(i) \/ StreamWritesDone(i)
    \/ \E want \in Ids \cup {All}, maxn \in PollSizes : Poll(want, maxn)
    \/ \E i \in Ids : Complete(i)

\* What any step may do to what R knows of stream i: R hands over one more
\* message; or R is handed messages and perhaps the end, and with the peer's
\* OK status of an unbroken stream all there were.  After the end nothing moves.
Port(i) ==
    /\ net'[i].accepted # net[i].accepted =>
         /\ net'[i].accepted = net[i].accepted + 1
         /\ ~handed[i].over /\ handed'[i] = handed[i]
    /\ handed'[i] # handed[i] =>
         /\ ~handed[i].over /\ net' = net /\ st'[i].broken = st[i].broken
         /\ handed'[i].msgs \in Nat /\ handed'[i].msgs >= handed[i].msgs
         /\ handed'[i].over /\ net[i].wire = "ended" /\ ~st[i].broken =>
              handed'[i].msgs = net[i].inbound
    /\ handed[i].over => net'[i].wire = net[i].wire /\ st'[i].broken = st[i].broken

\* What the client's own steps leave to the network.
Still(i) ==
    /\ net'[i].inbound = net[i].inbound
    /\ net'[i].wire = "ended" => net[i].wire = "ended"

EdgeTypes(i) ==
    /\ net[i] \in Net /\ net[i].taken \in Nat /\ net[i].inbound \in Nat
    /\ net[i].accepted \in Nat /\ net[i].written \in Nat /\ handed[i].msgs \in Nat
    /\ Cardinality(Msgs(ready, i)) \in Nat

LEMMA EdgeTyped ==
    ASSUME IInv, NEW i \in Ids
    PROVE  EdgeTypes(i) /\ net \in [Ids -> Net] /\ st \in [Ids -> Stream]
<1>1. net[i].accepted \in Nat /\ net[i].written \in Nat
  BY FlowTypes, ClientAssumption DEF Net, ClientAssumption
<1>2. net \in [Ids -> Net] /\ st \in [Ids -> Stream]
  BY DEF IInv, TypeOK
<1> QED
  BY <1>1, <1>2, FlowTypes, MsgsFinite DEF EdgeTypes

\* A stream that the step does not touch.
LEMMA EdgeFrame ==
    ASSUME NEW i \in Ids, Edge(i), net'[i] = net[i], st'[i] = st[i], handed'[i] = handed[i],
           EventsOf(i)' = EventsOf(i), i \in streams' => i \in streams
    PROVE  Edge(i)' /\ Port(i) /\ Still(i)
<1>1. Msgs(ready, i)' = {e \in EventsOf(i)' : e.kind = "stream_msg"}
      /\ Msgs(ready, i) = {e \in EventsOf(i) : e.kind = "stream_msg"}
  BY DEF Msgs, EventsOf
<1>2. EndOf(i)' = {e \in EventsOf(i)' : e.kind \in Terminal}
      /\ EndOf(i) = {e \in EventsOf(i) : e.kind \in Terminal}
  BY DEF EndOf, EventsOf
<1>3. Msgs(ready, i)' = Msgs(ready, i) /\ EndOf(i)' = EndOf(i)
  BY <1>1, <1>2
<1> QED
  BY <1>3 DEF Edge, Port, Still

\* A call in its map is not over.
LEMMA InFlight ==
    ASSUME IInv, FlowInv, FateInv, phase = "open", NEW i \in calls \cup streams
    PROVE  i \in Ids /\ EndOf(i) = {} /\ ~handed[i].over
<1>1. i \in Ids
  BY DEF IInv, TypeOK
<1>2. ~(i >= next_id) /\ i \in Nat /\ next_id \in Nat
  BY <1>1, FlowTypes DEF FlowInv, Unused
<1>3. Fate(i)
  BY <1>1, <1>2 DEF FateInv
<1> QED
  BY <1>1, <1>3 DEF Fate

\* What is on the wire or in flight is at most what R handed over.
LEMMA WriteAhead ==
    ASSUME IInv, FlowInv, NEW i \in Ids, Edge(i)
    PROVE  /\ net[i].written + (IF "write" \in st[i].ops THEN 1 ELSE 0) <= net[i].accepted
           /\ "write" \in st[i].ops => Head(st[i].write_queue) = net[i].written + 1
<1>1. EdgeTypes(i) /\ net[i].written <= net[i].accepted
  BY EdgeTyped DEF Edge
<1>2. CASE "write" \notin st[i].ops
  BY <1>1, <1>2 DEF EdgeTypes
<1>3. CASE "write" \in st[i].ops
  <2>1. StreamInv(st[i]) /\ WriteFlow(st[i], net[i]) /\ st[i] \in Stream
    BY FlowTypes DEF FlowInv, Flow
  <2>2. st[i].write_inflight /\ st[i].write_queue # <<>>
    BY <1>3, <2>1 DEF StreamInv, FlagsTellTags, LifeOrder
  <2>3. /\ net[i].written + Len(st[i].write_queue) = net[i].accepted
        /\ \A k \in 1..Len(st[i].write_queue) : st[i].write_queue[k] = net[i].written + k
    BY <2>1, <2>2 DEF WriteFlow
  <2>4. st[i].write_queue \in Seq(1..MaxSends)
    BY <2>1 DEF Stream
  <2>5. Head(st[i].write_queue) = net[i].written + 1
    BY <1>1, <2>2, <2>3, <2>4, QueueMoves DEF EdgeTypes
  <2>6. Len(st[i].write_queue) \in Nat /\ Len(st[i].write_queue) >= 1
    BY <2>2, <2>4, EmptySeq, LenProperties
  <2>7. net[i].written + 1 <= net[i].accepted
    BY <1>1, <2>3, <2>6 DEF EdgeTypes
  <2> QED
    BY <1>3, <2>5, <2>7
<1> QED
  BY <1>2, <1>3

\* grpc_stream: the id was not used before.
LEMMA EdgeStart ==
    ASSUME IInv, FlowInv, FateInv, EdgeInv, phase = "open", NEW rc, NEW wc, StreamStart(rc, wc),
           NEW i \in Ids
    PROVE  Edge(i)' /\ Port(i) /\ Still(i)
<1>0. PICK k : k = next_id
  OBVIOUS
<1>1. /\ st' = [st EXCEPT ![k] = Post(NewStream(rc, wc), "start")] /\ streams' = streams \cup {k}
      /\ net' = [net EXCEPT ![k].wire = "open"] /\ ready' = ready /\ handed' = handed
  BY <1>0 DEF StreamStart
<1>2. EdgeTypes(i) /\ net \in [Ids -> Net] /\ st \in [Ids -> Stream] /\ Edge(i)
  BY EdgeTyped DEF EdgeInv
<1>3. CASE i # k
  <2>1. net'[i] = net[i] /\ st'[i] = st[i] /\ EventsOf(i)' = EventsOf(i)
    BY <1>1, <1>2, <1>3 DEF EventsOf
  <2> QED
    BY <1>1, <1>2, <1>3, <2>1, EdgeFrame
<1>4. CASE i = k
  <2>1. Unused(i)
    BY <1>0, <1>4, FlowTypes DEF FlowInv
  <2>2. net'[i] = [net[i] EXCEPT !.wire = "open"]
    BY <1>1, <1>2, <1>4
  <2>3. /\ net'[i].wire = "open" /\ net'[i].accepted = net[i].accepted
        /\ net'[i].written = net[i].written /\ net'[i].taken = net[i].taken
        /\ net'[i].inbound = net[i].inbound
    BY <1>2, <2>2 DEF EdgeTypes, Net
  <2>4. EndOf(i)' = EndOf(i) /\ EndOf(i) = {} /\ Msgs(ready, i)' = Msgs(ready, i) /\ ~handed[i].over
    BY <1>1, <2>1 DEF EndOf, Msgs, Unused
  <2> QED
    BY <1>1, <1>2, <2>3, <2>4 DEF Edge, Port, Still
<1> QED
  BY <1>3, <1>4

\* grpc_cancel: a call in flight may die.
LEMMA EdgeCancel ==
    ASSUME IInv, FlowInv, FateInv, EdgeInv, phase = "open", NEW k \in Ids, CallCancel(k),
           NEW i \in Ids
    PROVE  Edge(i)' /\ Port(i) /\ Still(i)
<1>1. /\ k \in calls \cup streams /\ TryCancel({k})
      /\ st' = st /\ ready' = ready /\ handed' = handed /\ streams' = streams
  BY DEF CallCancel
<1>2. EdgeTypes(i) /\ net \in [Ids -> Net] /\ Edge(i)
  BY EdgeTyped DEF EdgeInv
<1>3. \/ net'[i] = net[i]
      \/ i = k /\ net'[i] = [net[i] EXCEPT !.wire = "dead"]
  BY <1>1 DEF TryCancel
<1>4. EventsOf(i)' = EventsOf(i) /\ EndOf(i)' = EndOf(i) /\ Msgs(ready, i)' = Msgs(ready, i)
  BY <1>1 DEF EventsOf, EndOf, Msgs
<1>5. CASE net'[i] = net[i]
  BY <1>1, <1>2, <1>4, <1>5, EdgeFrame
<1>6. CASE i = k /\ net'[i] = [net[i] EXCEPT !.wire = "dead"]
  <2>1. ~handed[i].over
    BY <1>1, <1>6, InFlight
  <2>2. /\ net'[i].wire = "dead" /\ net'[i].accepted = net[i].accepted
        /\ net'[i].written = net[i].written /\ net'[i].taken = net[i].taken
        /\ net'[i].inbound = net[i].inbound
    BY <1>2, <1>6 DEF EdgeTypes, Net
  <2> QED
    BY <1>1, <1>2, <1>4, <2>1, <2>2 DEF Edge, Port, Still
<1> QED
  BY <1>3, <1>5, <1>6

\* grpc_send and grpc_writes_done: of a stream in flight.
LEMMA EdgeSend ==
    ASSUME IInv, FlowInv, FateInv, EdgeInv, phase = "open", NEW k \in Ids,
           StreamSend(k) \/ StreamWritesDone(k), NEW i \in Ids
    PROVE  Edge(i)' /\ Port(i) /\ Still(i)
<1>1. /\ k \in streams /\ ready' = ready /\ handed' = handed /\ streams' = streams
      /\ \E t : st' = [st EXCEPT ![k] = t]
      /\ net' = net \/ net' = [net EXCEPT ![k].accepted = net[k].accepted + 1]
  BY DEF StreamSend, SendAccepted, StreamWritesDone
<1>2. EdgeTypes(i) /\ net \in [Ids -> Net] /\ st \in [Ids -> Stream] /\ Edge(i)
  BY EdgeTyped DEF EdgeInv
<1>3. EventsOf(i)' = EventsOf(i) /\ EndOf(i)' = EndOf(i) /\ Msgs(ready, i)' = Msgs(ready, i)
  BY <1>1 DEF EventsOf, EndOf, Msgs
<1>4. CASE i # k
  <2>1. net'[i] = net[i] /\ st'[i] = st[i]
    BY <1>1, <1>2, <1>4
  <2> QED
    BY <1>1, <1>2, <1>3, <2>1, EdgeFrame
<1>5. CASE i = k
  <2>1. ~handed[i].over
    BY <1>1, <1>5, InFlight
  <2>2. net'[i] = net[i] \/ net'[i] = [net[i] EXCEPT !.accepted = net[i].accepted + 1]
    BY <1>1, <1>2, <1>5
  <2>3. /\ net'[i].accepted \in {net[i].accepted, net[i].accepted + 1}
        /\ net'[i].written = net[i].written /\ net'[i].taken = net[i].taken
        /\ net'[i].inbound = net[i].inbound /\ net'[i].wire = net[i].wire
    BY <1>2, <2>2 DEF EdgeTypes, Net
  <2>4. net'[i].written <= net'[i].accepted
    BY <1>2, <2>3 DEF Edge, EdgeTypes
  <2> QED
    BY <1>1, <1>2, <1>3, <2>1, <2>3, <2>4 DEF Edge, Port, Still
<1> QED
  BY <1>4, <1>5

\* The network: a message, or the end, of a call that is in progress.
LEMMA EdgePeer ==
    ASSUME IInv, EdgeInv, NEW k \in Ids,
           PeerSend(k) \/ WireOver(k, "ended") \/ WireOver(k, "dead"), NEW i \in Ids
    PROVE  Edge(i)' /\ Port(i)
<1>1. /\ net[k].wire = "open" /\ st' = st /\ ready' = ready /\ handed' = handed
      /\ streams' = streams
      /\ \/ net' = [net EXCEPT ![k].inbound = net[k].inbound + 1]
         \/ \E how \in {"ended", "dead"} : net' = [net EXCEPT ![k].wire = how]
  BY DEF PeerSend, WireOver
<1>2. EdgeTypes(i) /\ net \in [Ids -> Net] /\ st \in [Ids -> Stream] /\ Edge(i)
  BY EdgeTyped DEF EdgeInv
<1>3. EventsOf(i)' = EventsOf(i) /\ EndOf(i)' = EndOf(i) /\ Msgs(ready, i)' = Msgs(ready, i)
  BY <1>1 DEF EventsOf, EndOf, Msgs
<1>4. CASE i # k
  <2>1. net'[i] = net[i] /\ st'[i] = st[i]
    BY <1>1, <1>2, <1>4
  <2> QED
    BY <1>1, <1>2, <1>3, <2>1, EdgeFrame
<1>5. CASE i = k
  <2>1. ~handed[i].over /\ EndOf(i) = {}
    BY <1>1, <1>2, <1>5 DEF Edge
  <2>2. \/ net'[i] = [net[i] EXCEPT !.inbound = net[i].inbound + 1]
        \/ \E how \in {"ended", "dead"} : net'[i] = [net[i] EXCEPT !.wire = how]
    BY <1>1, <1>2, <1>5
  <2>3. /\ net'[i].accepted = net[i].accepted
        /\ net'[i].written = net[i].written /\ net'[i].taken = net[i].taken
        /\ net'[i].inbound \in {net[i].inbound, net[i].inbound + 1}
        /\ net'[i].wire \in {net[i].wire, "ended", "dead"}
    BY <1>2, <2>2 DEF EdgeTypes, Net
  <2>4. net'[i].taken <= net'[i].inbound
    BY <1>2, <2>3 DEF Edge, EdgeTypes
  <2> QED
    BY <1>1, <1>2, <1>3, <2>1, <2>3, <2>4 DEF Edge, Port
<1> QED
  BY <1>4, <1>5

\* A completion of stream k, in flight: t is what the handler leaves.
LEMMA EdgeCase ==
    ASSUME IInv, FlowInv, FateInv, EdgeInv, phase = "open", NEW k \in Ids, st[k].ops # {},
           NEW t, StreamCase(k, t), NEW e, ready' = ready \/ (ready' = ready \cup {e} /\ e.id = k),
           NEW m \in Net, net' = [net EXCEPT ![k] = m],
           m.inbound = net[k].inbound, m.wire = net[k].wire, m.accepted = net[k].accepted,
           m.written <= m.accepted, m.taken <= m.inbound,
           m.taken = net[k].taken \/ m.taken = net[k].taken + 1,
           ready' # ready /\ e.kind = "stream_msg" => m.taken = net[k].taken + 1,
           ready' # ready /\ e.kind \in Terminal => m.wire \in {"ended", "dead"},
           e.kind \in Terminal /\ m.wire = "ended" => e.val = 0,
           NEW i \in Ids
    PROVE  Edge(i)' /\ Port(i) /\ Still(i)
<1>1. st' = [st EXCEPT ![k] = t] /\ handed' = handed /\ streams' \subseteq streams
  BY DEF StreamCase, LiveAfter
<1>2. EdgeTypes(i) /\ net \in [Ids -> Net] /\ st \in [Ids -> Stream] /\ Edge(i)
  BY EdgeTyped DEF EdgeInv
<1>3. CASE i # k
  <2>1. net'[i] = net[i] /\ st'[i] = st[i] /\ EventsOf(i)' = EventsOf(i)
    BY <1>1, <1>2, <1>3 DEF EventsOf
  <2> QED
    BY <1>1, <1>2, <2>1, EdgeFrame
<1>4. CASE i = k
  <2>1. ~handed[i].over /\ EndOf(i) = {}
    <3>1. i \in streams
      BY <1>4, TagFacts
    <3> QED
      BY <3>1, InFlight
  <2>2. net'[i] = m
    BY <1>2, <1>4
  <2>3. \A f \in EndOf(i)' : f = e /\ ready' # ready /\ e.kind \in Terminal
    BY <1>4, <2>1 DEF EndOf
  <2>4. handed[i].msgs + Cardinality(Msgs(ready, i)') <= m.taken
    <3>1. CASE Msgs(ready, i)' = Msgs(ready, i)
      <4>1. Cardinality(Msgs(ready, i)') = Cardinality(Msgs(ready, i))
        BY <3>1
      <4> QED
        BY <1>2, <1>4, <4>1 DEF Edge, EdgeTypes
    <3>2. CASE Msgs(ready, i)' # Msgs(ready, i)
      <4> DEFINE q == Msgs(ready, i)
      <4>1. Msgs(ready, i)' = q \cup {e} /\ ready' # ready /\ e.kind = "stream_msg"
        BY <3>2 DEF Msgs
      <4>2. IsFiniteSet(q) /\ Cardinality(q) \in Nat
        BY MsgsFinite
      <4>3. handed[i].msgs + Cardinality(q) <= net[i].taken /\ m.taken = net[i].taken + 1
            /\ handed[i].msgs \in Nat /\ net[i].taken \in Nat
        BY <1>2, <1>4, <4>1 DEF Edge, EdgeTypes
      <4> HIDE DEF q
      <4>4. Cardinality(q \cup {e}) \in {Cardinality(q), Cardinality(q) + 1}
        BY <4>2, FS_AddElement
      <4>5. handed[i].msgs + Cardinality(q \cup {e}) <= m.taken
        BY <4>2, <4>3, <4>4
      <4> QED
        BY <4>1, <4>5
    <3> QED
      BY <3>1, <3>2
  <2>5. Cardinality(Msgs(ready, i))' = Cardinality(Msgs(ready, i)')
    OBVIOUS
  <2>6. Edge(i)'
    BY <1>1, <1>2, <1>4, <2>1, <2>2, <2>3, <2>4, <2>5 DEF Edge
  <2> QED
    BY <1>1, <1>4, <2>1, <2>2, <2>6 DEF Port, Still
<1> QED
  BY <1>3, <1>4

LEMMA EdgeComplete ==
    ASSUME IInv, FlowInv, FateInv, EdgeInv, phase = "open", NEW k \in Ids, Complete(k), NEW i \in Ids
    PROVE  Edge(i)' /\ Port(i) /\ Still(i)
<1> DEFINE Goal == Edge(i)' /\ Port(i) /\ Still(i)
           n == net[k]
           old == [kind |-> "stream_writable", id |-> k, val |-> 0, stamp |-> arrived + 1]
<1>0. /\ n \in Net /\ n.taken \in Nat /\ n.accepted \in Nat /\ net \in [Ids -> Net]
      /\ n.written <= n.accepted /\ n.taken <= n.inbound /\ Edge(k)
      /\ n.inbound \in Nat /\ n.inbound \in 0..MaxMsgs
  BY EdgeTyped DEF EdgeInv, Edge, EdgeTypes, Net
<1>1. "stream_writable" \notin Terminal /\ "stream_msg" \notin Terminal /\ "stream_status" \in Terminal
  BY DEF Terminal
<1>2. old.kind = "stream_writable" /\ old.id = k /\ old.val = 0
  OBVIOUS
<1>3. net = [net EXCEPT ![k] = n]
  BY <1>0
<1>4. CASE CompleteUnary(k)
  BY <1>4 DEF CompleteUnary, EdgeInv, NoUnary
<1>5. ASSUME NEW ok \in BOOLEAN, CompleteStart(k, ok) \/ CompleteWdone(k, ok)
      PROVE  Goal
  <2>1. /\ st[k].ops # {} /\ \E t : StreamCase(k, t)
        /\ ready' = ready /\ net' = net
    BY <1>5 DEF CompleteStart, CompleteWdone, Quiet
  <2>2. net' = [net EXCEPT ![k] = n]
    BY <1>3, <2>1
  <2> HIDE DEF old, n
  <2> QED
    BY <1>0, <1>1, <1>2, <2>1, <2>2, EdgeCase DEF n
<1>6. ASSUME NEW ok \in BOOLEAN, CompleteRead(k, ok)
      PROVE  Goal
  <2> DEFINE e == [kind |-> "stream_msg", id |-> k, val |-> n.taken + 1, stamp |-> arrived + 1]
             m == IF ok THEN [n EXCEPT !.taken = n.taken + 1] ELSE n
  <2>1. /\ st[k].ops # {} /\ \E t : StreamCase(k, t)
        /\ ready' = ready \/ (ok /\ ready' = ready \cup {e})
        /\ ok => n.taken < n.inbound
        /\ net' = IF ok THEN [net EXCEPT ![k].taken = n.taken + 1] ELSE net
    BY <1>6 DEF CompleteRead, Quiet, Emit
  <2>2. e.kind = "stream_msg" /\ e.id = k
    OBVIOUS
  <2>3. net' = [net EXCEPT ![k] = m]
    BY <1>0, <1>3, <2>1
  <2>4. n.taken + 1 \in 0..MaxMsgs \/ ~ok
    BY <1>0, <2>1, ClientAssumption DEF ClientAssumption
  <2>5. /\ m \in Net /\ m.inbound = n.inbound /\ m.wire = n.wire /\ m.accepted = n.accepted
        /\ m.written = n.written /\ m.taken = IF ok THEN n.taken + 1 ELSE n.taken
    BY <1>0, <2>4 DEF Net
  <2> HIDE DEF e, m
  <2>6. m.taken <= m.inbound /\ m.written <= m.accepted
    BY <1>0, <2>1, <2>5
  <2>7. /\ ready' # ready => m.taken = n.taken + 1
        /\ m.taken = n.taken \/ m.taken = n.taken + 1
        /\ ready' = ready \/ (ready' = ready \cup {e} /\ e.id = k)
        /\ e.kind \notin Terminal
    BY <1>1, <2>1, <2>2, <2>5
  <2>8. PICK t : StreamCase(k, t)
    BY <2>1
  <2>9. st[k].ops # {}
    BY <2>1
  <2> HIDE DEF n, old, Goal
  <2> QED
    BY <2>3, <2>5, <2>6, <2>7, <2>8, <2>9, EdgeCase DEF n, Goal
<1>7. ASSUME NEW ok \in BOOLEAN, CompleteWrite(k, ok)
      PROVE  Goal
  <2> DEFINE m == IF ok THEN [n EXCEPT !.written = Head(st[k].write_queue)] ELSE n
  <2>1. /\ "write" \in st[k].ops /\ \E t : StreamCase(k, t)
        /\ ready' = ready \/ ready' = ready \cup {old}
        /\ net' = IF ok THEN [net EXCEPT ![k].written = Head(st[k].write_queue)] ELSE net
    BY <1>7 DEF CompleteWrite, Quiet, Emit
  <2>2. Head(st[k].write_queue) = n.written + 1 /\ n.written + 1 <= n.accepted
    BY <1>0, <2>1, WriteAhead
  <2>3. net' = [net EXCEPT ![k] = m]
    BY <1>0, <1>3, <2>1
  <2>4. n.written + 1 \in 0..MaxSends
    BY <1>0, <2>2, ClientAssumption DEF ClientAssumption, Net
  <2>5. /\ m \in Net /\ m.inbound = n.inbound /\ m.wire = n.wire /\ m.accepted = n.accepted
        /\ m.taken = n.taken /\ m.written = IF ok THEN n.written + 1 ELSE n.written
    BY <1>0, <2>2, <2>4 DEF Net
  <2> HIDE DEF m, old
  <2>6. m.taken <= m.inbound /\ m.written <= m.accepted
    BY <1>0, <2>2, <2>5
  <2> HIDE DEF n
  <2> QED
    BY <1>1, <1>2, <2>1, <2>3, <2>5, <2>6, EdgeCase DEF n
<1>8. CASE CompleteFinish(k)
  <2> DEFINE e == [kind |-> "stream_status", id |-> k, val |-> Status(k), stamp |-> arrived + 1]
  <2>1. /\ st[k].ops # {} /\ \E t : StreamCase(k, t)
        /\ ready' = ready \cup {e} /\ net' = net
    BY <1>8 DEF CompleteFinish, Emit
  <2>2. e.kind = "stream_status" /\ e.id = k /\ (n.wire = "ended" => e.val = 0)
    BY DEF Status
  <2>3. n.wire \in {"ended", "dead"}
    <3>1. n.wire # "open" /\ n.wire \in {"none", "open", "ended", "dead"}
      BY <1>0, <1>8 DEF CompleteFinish, Net
    <3>2. n.wire # "none"
      BY <1>0, <2>1, TagFacts DEF Edge
    <3> QED
      BY <3>1, <3>2
  <2>4. net' = [net EXCEPT ![k] = n]
    BY <1>3, <2>1
  <2> HIDE DEF e, n
  <2> QED
    BY <1>0, <1>1, <2>1, <2>2, <2>3, <2>4, EdgeCase DEF n
<1> QED
  BY <1>4, <1>5, <1>6, <1>7, <1>8 DEF Complete

\* grpc_poll: the messages go from the deque to R, and with the last event all.
LEMMA EdgePoll ==
    ASSUME IInv, FlowInv, FateInv, EdgeInv, phase = "open",
           NEW want \in Ids \cup {All}, NEW maxn \in PollSizes, Poll(want, maxn), NEW i \in Ids
    PROVE  Edge(i)' /\ Port(i) /\ Still(i)
<1> DEFINE batch == Batch(ready, want, maxn)
           d == Cardinality(Msgs(batch, i))
           q == Cardinality(Msgs(ready, i))
           x == handed[i].msgs
           ends == \E e \in batch : e.id = i /\ e.kind \in Terminal
<1>1. /\ ready' = ready \ batch /\ batch \subseteq ready /\ net' = net
      /\ UNCHANGED <<phase, next_id, streams>>
  BY DEF Poll, Batch
<1>2. /\ d \in Nat /\ d <= q /\ Cardinality(Msgs(ready \ batch, i)) = q - d
  BY PollMsgs
<1>3. handed'[i].msgs = x + d /\ handed'[i].over = (handed[i].over \/ ends)
  BY PollHanded
<1>4. EdgeTypes(i) /\ Edge(i) /\ MsgFlow(i) /\ Flow(st[i], net[i])
  BY EdgeTyped DEF EdgeInv, FlowInv
<1>5. st'[i].broken = st[i].broken
  <2>1. st'[i] = IF i \in streams THEN Drained(st[i], d) ELSE st[i]
    BY DEF Poll
  <2>2. i \in streams => Drained(st[i], d).broken = st[i].broken
    BY <1>2, <1>4, FlowTypes, DrainFlow DEF MsgFlow
  <2> QED
    BY <2>1, <2>2
<1>6. i < next_id => Fate(i) /\ Fate(i)'
  BY <1>1, FatePoll DEF FateInv
<1>7. handed[i].over \/ ends => i < next_id
  <2>1. i \in Nat /\ next_id \in Nat
    BY FlowTypes
  <2>2. Unused(i) => ~handed[i].over /\ ~ends
    BY <1>1 DEF Unused
  <2>3. i >= next_id => Unused(i)
    BY DEF FlowInv
  <2> QED
    BY <2>1, <2>2, <2>3
<1>8. ends => \E e \in batch : e \in EndOf(i)
  BY <1>1 DEF EndOf
<1>9. EndOf(i)' \subseteq EndOf(i) /\ Msgs(ready, i)' = Msgs(ready \ batch, i)
  BY <1>1 DEF EndOf, Msgs
<1>10. Msgs(batch, i) # {} => EventsOf(i) # {}
  BY <1>1 DEF Msgs, EventsOf
<1>11. handed[i].over => Msgs(batch, i) = {} /\ EndOf(i) = {}
  <2>1. handed[i].over => EventsOf(i) = {}
    BY <1>6, <1>7 DEF Fate
  <2> QED
    BY <1>10, <2>1 DEF EndOf, EventsOf
<1>12. handed[i].over => d = 0
  BY <1>11, FS_EmptySet
<1> HIDE DEF batch, d, q, x
<1>13. x \in Nat /\ q \in Nat /\ x + q <= net[i].taken
  BY <1>4 DEF EdgeTypes, Edge, x, q
<1>14. Edge(i)'
  <2>1. handed'[i].msgs + Cardinality(Msgs(ready, i))' <= net'[i].taken
    <3>1. (x + d) + (q - d) = x + q
      BY <1>2, <1>13
    <3> QED
      BY <1>1, <1>2, <1>3, <1>9, <1>13, <3>1
  <2>2. handed'[i].over \/ EndOf(i)' # {} => handed[i].over \/ EndOf(i) # {}
    BY <1>3, <1>8, <1>9
  <2> QED
    BY <1>1, <1>4, <1>9, <2>1, <2>2 DEF Edge
<1>15. handed[i].over => handed'[i] = handed[i]
  <2>1. handed[i] \in [msgs : Nat, over : BOOLEAN] /\ handed'[i] \in [msgs : Nat, over : BOOLEAN]
    <3>1. handed[i] \in [msgs : Nat, over : BOOLEAN]
      BY DEF IInv, TypeOK
    <3>2. handed'[i] = [msgs |-> handed[i].msgs + Cardinality(Msgs(batch, i)), over |-> handed[i].over \/ ends]
      BY DEF Poll, batch
    <3>3. handed[i].msgs + Cardinality(Msgs(batch, i)) \in Nat /\ (handed[i].over \/ ends) \in BOOLEAN
      BY <1>2, <1>13, <3>1 DEF d, x
    <3> QED
      BY <3>1, <3>2, <3>3
  <2>2. handed[i].over => handed'[i].over = handed[i].over /\ handed'[i].msgs = handed[i].msgs
    <3>1. handed[i].over => x + d = x
      BY <1>12, <1>13
    <3>2. handed[i].over => handed'[i].msgs = handed[i].msgs
      BY <1>3, <3>1 DEF x
    <3>3. handed[i].over \in BOOLEAN /\ handed[i].over => (handed[i].over \/ ends) = handed[i].over
      OBVIOUS
    <3>4. handed[i].over \in BOOLEAN
      BY <2>1
    <3> QED
      BY <1>3, <3>2, <3>3, <3>4
  <2>3. \A g, h \in [msgs : Nat, over : BOOLEAN] : g.msgs = h.msgs /\ g.over = h.over => g = h
    <3>1. \A g \in [msgs : Nat, over : BOOLEAN] : g = [msgs |-> g.msgs, over |-> g.over]
      OBVIOUS
    <3> QED
      BY <3>1, Zenon
  <2> QED
    BY <2>1, <2>2, <2>3, Zenon
<1>16. handed'[i].over /\ ~handed[i].over /\ net[i].wire = "ended" /\ ~st[i].broken =>
          handed'[i].msgs = net[i].inbound
  <2> SUFFICES ASSUME handed'[i].over, ~handed[i].over, net[i].wire = "ended", ~st[i].broken
               PROVE  handed'[i].msgs = net[i].inbound
    OBVIOUS
  <2>1. ends
    BY <1>3
  <2>2. PICK e \in batch : e \in EndOf(i)
    BY <1>8, <2>1
  <2>3. e \in ready /\ e.id = i /\ e.kind = "stream_status" /\ e.val = 0
    BY <1>4, <2>2 DEF EndOf, Edge, EdgeInv, NoUnary, Terminal
  <2>4. net[i].taken = net[i].inbound
    BY <2>3 DEF FlowInv, StatusFlow
  <2>5. x + q = net[i].taken
    BY <1>4 DEF MsgFlow, x, q
  <2>6. EventsOf(i)' = {}
    BY <1>6, <1>7, <2>1 DEF Fate
  <2>7. Msgs(ready, i)' = {}
    BY <2>6 DEF Msgs, EventsOf
  <2>8. q - d = 0
    BY <1>2, <1>9, <2>7, FS_EmptySet
  <2>9. x + d = net[i].inbound
    BY <1>2, <1>13, <2>4, <2>5, <2>8
  <2> QED
    BY <1>3, <2>9
<1>17. handed'[i].msgs \in Nat /\ handed'[i].msgs >= x
  BY <1>2, <1>3, <1>13
<1>18. Port(i)
  BY <1>1, <1>5, <1>15, <1>16, <1>17 DEF Port, x
<1> QED
  BY <1>1, <1>14, <1>18 DEF Still

\* Without unary calls there are none, nor their events.
LEMMA NoUnaryStep ==
    ASSUME IInv, NoUnary,
           \/ Local
           \/ \E k \in Ids : PeerSend(k) \/ WireOver(k, "ended") \/ WireOver(k, "dead")
           \/ UNCHANGED vars
    PROVE  NoUnary'
<1>1. CASE UNCHANGED <<calls, unary, ready>>
  BY <1>1 DEF NoUnary
<1>2. ASSUME NEW k \in Ids, Complete(k) PROVE NoUnary'
  <2>1. ~CompleteUnary(k)
    BY DEF NoUnary, CompleteUnary
  <2>2. /\ UNCHANGED <<calls, unary>>
        /\ \/ Quiet
           \/ \E kind \in {"stream_msg", "stream_writable", "stream_status"} :
                \E v : Emit(kind, k, v)
    BY <1>2, <2>1 DEF Complete, CompleteStart, CompleteRead, CompleteWrite, CompleteWdone,
       CompleteFinish, StreamCase
  <2> QED
    BY <2>2 DEF NoUnary, Quiet, Emit
<1>3. ASSUME NEW want \in Ids \cup {All}, NEW maxn \in PollSizes, Poll(want, maxn)
      PROVE  NoUnary'
  BY <1>3 DEF Poll, NoUnary
<1> QED
  BY <1>1, <1>2, <1>3 DEF Local, StreamStart, CallCancel, StreamSend, StreamWritesDone,
     PeerSend, WireOver, vars

\* The client's own steps.
LEMMA EdgeLocal ==
    ASSUME IInv, FlowInv, FateInv, EdgeInv, phase = "open", Local, NEW i \in Ids
    PROVE  Edge(i)' /\ Port(i) /\ Still(i)
BY EdgeStart, EdgeCancel, EdgeSend, EdgePoll, EdgeComplete DEF Local

LEMMA EdgeNext ==
    ASSUME IInv, FlowInv, FateInv, EdgeInv, phase = "open",
           \/ Local
           \/ \E k \in Ids : PeerSend(k) \/ WireOver(k, "ended") \/ WireOver(k, "dead")
           \/ UNCHANGED vars
    PROVE  EdgeInv' /\ phase' = phase
<1>1. NoUnary'
  BY NoUnaryStep DEF EdgeInv
<1>2. ASSUME NEW i \in Ids PROVE Edge(i)'
  <2>1. CASE UNCHANGED vars
    BY <2>1, EdgeFrame DEF EdgeInv, vars, EventsOf
  <2> QED
    BY <2>1, EdgeLocal, EdgePeer
<1>3. phase' = phase
  BY DEF Local, StreamStart, CallCancel, StreamSend, StreamWritesDone, Poll, Complete,
     CompleteUnary, CompleteStart, CompleteRead, CompleteWrite, CompleteWdone, CompleteFinish,
     StreamCase, PeerSend, WireOver, vars
<1> QED
  BY <1>1, <1>2, <1>3 DEF EdgeInv

LEMMA EdgeInit == Init => EdgeInv
<1> SUFFICES ASSUME Init PROVE EdgeInv
  OBVIOUS
<1>1. ASSUME NEW i \in Ids PROVE Edge(i)
  <2>1. /\ net[i].wire = "none" /\ net[i].accepted = 0 /\ net[i].written = 0
        /\ net[i].inbound = 0 /\ net[i].taken = 0
        /\ handed[i].msgs = 0 /\ handed[i].over = FALSE /\ streams = {}
    BY DEF Init
  <2>2. Msgs(ready, i) = {} /\ EndOf(i) = {}
    BY DEF Init, Msgs, EndOf
  <2>3. Cardinality(Msgs(ready, i)) = 0
    BY <2>2, FS_EmptySet
  <2> QED
    BY <2>1, <2>2, <2>3 DEF Edge
<1> QED
  BY <1>1 DEF EdgeInv, NoUnary, Init

\* What the network does to a stream.
LEMMA PeerStep ==
    ASSUME IInv, NEW i \in Ids
    PROVE  /\ PeerSend(i) => /\ net'[i].inbound = net[i].inbound + 1
                             /\ net'[i].wire = "open" /\ net'[i].accepted = net[i].accepted
                             /\ handed' = handed
           /\ \A how : WireOver(i, how) => /\ net'[i].inbound = net[i].inbound
                                           /\ net'[i].accepted = net[i].accepted
                                           /\ net'[i].wire = how /\ handed' = handed
<1>1. net \in [Ids -> Net] /\ net[i] \in Net
  BY EdgeTyped DEF EdgeTypes
<1> QED
  BY <1>1 DEF PeerSend, WireOver, Net
=============================================================================
