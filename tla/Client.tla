------------------------------- MODULE Client -------------------------------
(***************************************************************************)
(* The asynchronous client of src/src/client.cpp: unary calls and streams  *)
(* multiplexed on one completion queue.                                    *)
(*                                                                         *)
(* Three actors.  R's main thread runs the exported operations; the        *)
(* completion thread runs one branch of client::run per completion; the    *)
(* network (gRPC core and the peer, external to src/) decides when an      *)
(* outstanding tag completes and with which ok.  The first two hold mu for *)
(* the whole of their step, so each operation and each completion is one   *)
(* action; client_shutdown lets go of mu and is three.                     *)
(***************************************************************************)
EXTENDS ReadyQueue, Sequences

CONSTANTS
    ReadCaps,   \* values of grpc_stream's read_buffer
    WriteCaps,  \* values of grpc_stream's write_buffer
    PollSizes,  \* values of max_events
    MaxCalls,   \* bound: calls and streams started on the client
    MaxMsgs,    \* bound: messages the peer sends on one stream
    MaxSends    \* bound: messages R has accepted for one stream

ASSUME ClientAssumption ==
    /\ ReadCaps \subseteq Nat
    /\ WriteCaps \subseteq Nat
    /\ PollSizes \subseteq Nat \ {0}
    /\ MaxCalls \in Nat /\ MaxMsgs \in Nat /\ MaxSends \in Nat
    /\ All \notin Nat

VARIABLES
    phase,      \* "open", or how far client_shutdown has got
    next_id,
    calls,      \* ids of unary calls not completed
    streams,    \* ids of streams not freed
    st,         \* st[i]: the stream_state of i, kept as it was when freed
    unary,      \* external: unary tags outstanding at the completion queue
    ready,      \* the deque: set of [kind, id, val, stamp]
    arrived,    \* events pushed so far
    net,        \* external: net[i], the RPC of i as the network sees it
    handed      \* history: handed[i], what polls have returned of i

rvars == <<phase, next_id, calls>>
vars == <<phase, next_id, calls, streams, st, unary, ready, arrived, net, handed>>

Ids == 1..MaxCalls
OpKinds == {"start", "read", "write", "wdone", "finish"}

(***************************************************************************)
(* The stream_state of client.cpp:91.  ops is not a field of the code: it  *)
(* is the set of this stream's tags that are outstanding at the completion *)
(* queue, which pending is meant to count.  A queued write is its number   *)
(* in the sequence of sends R had accepted.                                *)
(***************************************************************************)
Stream ==
    [pending : Nat, unread : Int, read_cap : ReadCaps, write_cap : WriteCaps,
     started : BOOLEAN, read_inflight : BOOLEAN, write_inflight : BOOLEAN,
     wdone_inflight : BOOLEAN, wdone_requested : BOOLEAN, wdone_sent : BOOLEAN,
     reads_closed : BOOLEAN, broken : BOOLEAN, want_finish : BOOLEAN,
     finish_posted : BOOLEAN, status_emitted : BOOLEAN,
     write_queue : Seq(1..MaxSends), ops : SUBSET OpKinds]

NewStream(rc, wc) ==
    [pending |-> 0, unread |-> 0, read_cap |-> rc, write_cap |-> wc,
     started |-> FALSE, read_inflight |-> FALSE, write_inflight |-> FALSE,
     wdone_inflight |-> FALSE, wdone_requested |-> FALSE, wdone_sent |-> FALSE,
     reads_closed |-> FALSE, broken |-> FALSE, want_finish |-> FALSE,
     finish_posted |-> FALSE, status_emitted |-> FALSE,
     write_queue |-> <<>>, ops |-> {}]

\* wire: "none" before the call, then "open" until the peer's OK status is here
\* ("ended"), or the peer has failed the call with another status or it is
\* lost, timed out or cancelled ("dead").
\* inbound: messages the peer sent; taken: of these, returned by reads;
\* accepted: messages R queued; written: of these, written to the wire.
Net == [wire : {"none", "open", "ended", "dead"},
        inbound : 0..MaxMsgs, taken : 0..MaxMsgs,
        accepted : 0..MaxSends, written : 0..MaxSends]

EventKinds == {"unary", "stream_msg", "stream_writable", "stream_status"}
Terminal == {"unary", "stream_status"}
Shutting == phase # "open"

-----------------------------------------------------------------------------
(* Posting an operation: count it and hand its tag to the completion queue. *)

\* Mutation of Post: ++pending is forgotten.
PostUncounted(s, op) == [s EXCEPT !.ops = @ \cup {op}]

Post(s, op) == [s EXCEPT !.pending = @ + 1, !.ops = @ \cup {op}]

Retire(s, op) == [s EXCEPT !.pending = @ - 1, !.ops = @ \ {op}]

\* Mutations of s_post_read_locked: a read may be in flight; shutting ignored.
PostSecondRead(s) ==
    IF Shutting \/ s.reads_closed \/ s.broken \/ s.finish_posted \/ ~s.started
    THEN s
    ELSE Post([s EXCEPT !.read_inflight = TRUE], "read")
PostReadShutting(s) ==
    IF s.read_inflight \/ s.reads_closed \/ s.broken \/ s.finish_posted \/ ~s.started
    THEN s
    ELSE Post([s EXCEPT !.read_inflight = TRUE], "read")

s_post_read_locked(s) ==
    IF \/ Shutting \/ s.read_inflight \/ s.reads_closed
       \/ s.broken \/ s.finish_posted \/ ~s.started
    THEN s
    ELSE Post([s EXCEPT !.read_inflight = TRUE], "read")

\* Mutation of s_pump_writes_locked: the half-close overtakes the queue.
PumpHalfCloseFirst(s) ==
    IF Shutting \/ ~s.started \/ s.broken \/ s.finish_posted \/ s.write_inflight THEN s
    ELSE IF s.wdone_requested /\ ~s.wdone_sent /\ ~s.wdone_inflight
         THEN Post([s EXCEPT !.wdone_inflight = TRUE], "wdone")
    ELSE IF s.write_queue # <<>>
         THEN Post([s EXCEPT !.write_inflight = TRUE], "write")
         ELSE s

s_pump_writes_locked(s) ==
    IF Shutting \/ ~s.started \/ s.broken \/ s.finish_posted \/ s.write_inflight THEN s
    ELSE IF s.write_queue # <<>>
         THEN Post([s EXCEPT !.write_inflight = TRUE], "write")
    ELSE IF s.wdone_requested /\ ~s.wdone_sent /\ ~s.wdone_inflight
         THEN Post([s EXCEPT !.wdone_inflight = TRUE], "wdone")
         ELSE s

\* Mutation of s_try_finish_locked: a read may still be in flight.
FinishDuringRead(s) ==
    IF \/ Shutting \/ ~s.want_finish \/ s.finish_posted
       \/ s.write_inflight \/ s.wdone_inflight \/ ~s.started
    THEN s
    ELSE Post([s EXCEPT !.finish_posted = TRUE], "finish")

s_try_finish_locked(s) ==
    IF \/ Shutting \/ ~s.want_finish \/ s.finish_posted
       \/ s.read_inflight \/ s.write_inflight \/ s.wdone_inflight \/ ~s.started
    THEN s
    ELSE Post([s EXCEPT !.finish_posted = TRUE], "finish")

\* Mutation of LiveAfter: the stream is freed when Finish is posted.
FreedAtFinish(i, s) == IF s.finish_posted THEN streams \ {i} ELSE streams

\* s_maybe_free_locked: the stream leaves the map, and is deleted, once its
\* status is out and no tag points to it.
LiveAfter(i, s) ==
    IF s.pending = 0 /\ s.status_emitted THEN streams \ {i} ELSE streams

\* ready.push_back(ev); signal().  The wake handle is EventQueue's subject.
Emit(k, i, v) ==
    /\ arrived' = arrived + 1
    /\ ready' = ready \cup {[kind |-> k, id |-> i, val |-> v, stamp |-> arrived + 1]}

Quiet == UNCHANGED <<ready, arrived>>

-----------------------------------------------------------------------------
(* R's main thread.  get_client refuses a closed client: phase = "open".    *)

Init ==
    /\ phase = "open"
    /\ next_id = 1
    /\ calls = {} /\ streams = {} /\ unary = {}
    /\ \E rc \in ReadCaps, wc \in WriteCaps : st = [i \in Ids |-> NewStream(rc, wc)]
    /\ ready = {} /\ arrived = 0
    /\ net = [i \in Ids |-> [wire |-> "none", inbound |-> 0, taken |-> 0,
                             accepted |-> 0, written |-> 0]]
    /\ handed = [i \in Ids |-> [msgs |-> 0, over |-> FALSE]]

\* grpc_r_call_start.
CallStart ==
    /\ phase = "open" /\ next_id <= MaxCalls
    /\ next_id' = next_id + 1
    /\ calls' = calls \cup {next_id}
    /\ unary' = unary \cup {next_id}
    /\ net' = [net EXCEPT ![next_id].wire = "open"]
    /\ UNCHANGED <<phase, streams, st, ready, arrived, handed>>

\* grpc_r_stream_start.
StreamStart(rc, wc) ==
    /\ phase = "open" /\ next_id <= MaxCalls
    /\ next_id' = next_id + 1
    /\ streams' = streams \cup {next_id}
    /\ st' = [st EXCEPT ![next_id] = Post(NewStream(rc, wc), "start")]
    /\ net' = [net EXCEPT ![next_id].wire = "open"]
    /\ UNCHANGED <<phase, calls, unary, ready, arrived, handed>>

\* gRPC's Finish returns when the call has failed or, with an OK status, when
\* all of the peer's messages have been read.  This one waits for reads that
\* nobody can post any more.
FinishBlocked(i) ==
    "finish" \in st[i].ops /\ net[i].wire = "ended" /\ net[i].taken < net[i].inbound

\* ClientContext::TryCancel: the call is dead, unless its status was already
\* on its way in; a Finish that waits for reads is released.
TryCancel(W) ==
    \E lost \in SUBSET W :
        net' = [i \in Ids |->
                  IF /\ i \in W
                     /\ \/ net[i].wire = "open"
                        \/ net[i].wire = "ended" /\ (i \in lost \/ FinishBlocked(i))
                  THEN [net[i] EXCEPT !.wire = "dead"]
                  ELSE net[i]]

\* grpc_r_call_cancel; an id that is in neither map is ignored.
CallCancel(i) ==
    /\ phase = "open"
    /\ i \in calls \cup streams
    /\ TryCancel({i})
    /\ UNCHANGED <<phase, next_id, calls, streams, st, unary, ready, arrived, handed>>

\* The sends grpc_r_stream_send answers with TRUE; the others change nothing.
SendAccepted(i) ==
    /\ i \in streams
    /\ ~st[i].broken /\ ~st[i].finish_posted /\ ~st[i].wdone_requested
    /\ Len(st[i].write_queue) < st[i].write_cap

\* grpc_r_stream_send.
StreamSend(i) ==
    /\ phase = "open"
    /\ SendAccepted(i)
    /\ net[i].accepted < MaxSends
    /\ net' = [net EXCEPT ![i].accepted = @ + 1]
    /\ LET q == Append(st[i].write_queue, net[i].accepted + 1)
       IN  st' = [st EXCEPT ![i] = s_pump_writes_locked([@ EXCEPT !.write_queue = q])]
    /\ UNCHANGED <<phase, next_id, calls, streams, unary, ready, arrived, handed>>

\* grpc_r_stream_writes_done, where it answers TRUE.
StreamWritesDone(i) ==
    /\ phase = "open"
    /\ i \in streams /\ ~st[i].wdone_requested
    /\ st' = [st EXCEPT ![i] = s_pump_writes_locked([@ EXCEPT !.wdone_requested = TRUE])]
    /\ UNCHANGED <<phase, next_id, calls, streams, unary, ready, arrived, net, handed>>

\* Messages of stream i in a set of events.
Msgs(q, i) == {e \in q : e.id = i /\ e.kind = "stream_msg"}

\* Mutation of Drained: the read paused at read_cap is not resumed.
DrainedNoResume(s, n) == [s EXCEPT !.unread = @ - n]

\* The poll loop's bookkeeping for a stream of which n messages were taken.
\* unread only falls, so the repost test succeeds for one of them if and
\* only if it does for the last.
Drained(s, n) ==
    LET t == [s EXCEPT !.unread = @ - n]
    IN  IF n > 0 /\ t.unread < t.read_cap THEN s_post_read_locked(t) ELSE t

\* grpc_r_client_poll, from the drain on: the wait before it is EventQueue's.
Poll(want, maxn) ==
    /\ phase = "open"
    /\ LET batch == Batch(ready, want, maxn) IN
       /\ ready' = ready \ batch
       /\ st' = [i \in Ids |-> IF i \in streams
                               THEN Drained(st[i], Cardinality(Msgs(batch, i)))
                               ELSE st[i]]
       /\ handed' = [i \in Ids |->
                       [msgs |-> handed[i].msgs + Cardinality(Msgs(batch, i)),
                        over |-> \/ handed[i].over
                                 \/ \E e \in batch : e.id = i /\ e.kind \in Terminal]]
    /\ UNCHANGED <<phase, next_id, calls, streams, unary, arrived, net>>

\* Mutation of CloseBegin: nothing is cancelled.
CloseNoCancel ==
    /\ phase = "open"
    /\ phase' = "shutting"
    /\ UNCHANGED <<next_id, calls, streams, st, unary, ready, arrived, net, handed>>

\* client_shutdown, first part: closed, then under mu shutting and TryCancel.
CloseBegin ==
    /\ phase = "open"
    /\ phase' = "shutting"
    /\ TryCancel(calls \cup streams)
    /\ UNCHANGED <<next_id, calls, streams, st, unary, ready, arrived, handed>>

\* cq.Shutdown(): from here on starting an operation aborts the process.
CloseQueue ==
    /\ phase = "shutting"
    /\ phase' = "cqdown"
    /\ UNCHANGED <<next_id, calls, streams, st, unary, ready, arrived, net, handed>>

\* join() returns once the queue is drained; the rest is deleted.
CloseJoin ==
    /\ phase = "cqdown"
    /\ unary = {} /\ \A i \in Ids : st[i].ops = {}
    /\ phase' = "closed"
    /\ calls' = {} /\ streams' = {} /\ ready' = {}
    /\ UNCHANGED <<next_id, st, unary, arrived, net, handed>>

\* grpc_close on a closed client: the external pointer is cleared, no-op.
CloseAgain == phase = "closed" /\ UNCHANGED vars

-----------------------------------------------------------------------------
(* The completion thread: one action per case of client::run.              *)

\* Status codes: 0 is the peer's OK, 1 stands for every other status.
Status(i) == IF net[i].wire = "ended" THEN 0 ELSE 1

\* case T_UNARY.
CompleteUnary(i) ==
    /\ i \in unary
    /\ net[i].wire # "open"
    /\ unary' = unary \ {i}
    /\ Emit("unary", i, Status(i))
    /\ calls' = calls \ {i}
    /\ UNCHANGED <<phase, next_id, streams, st, net, handed>>

\* The common frame of the stream cases: s is what the handler leaves.
StreamCase(i, s) ==
    /\ st' = [st EXCEPT ![i] = s]
    /\ streams' = LiveAfter(i, s)
    /\ UNCHANGED <<phase, next_id, calls, unary, handed>>

\* Mutation of AfterStart: a stream that never started is not finished.
AfterStartNoFinish(s, ok) ==
    s_try_finish_locked(
        IF ok THEN s_pump_writes_locked(s_post_read_locked([s EXCEPT !.started = TRUE]))
              ELSE [s EXCEPT !.broken = TRUE, !.started = TRUE])

\* case T_START.
AfterStart(s, ok) ==
    s_try_finish_locked(
        IF ok THEN s_pump_writes_locked(s_post_read_locked([s EXCEPT !.started = TRUE]))
              ELSE [s EXCEPT !.broken = TRUE, !.started = TRUE, !.want_finish = TRUE])

CompleteStart(i, ok) ==
    /\ "start" \in st[i].ops
    /\ ok \/ net[i].wire = "dead"
    /\ StreamCase(i, AfterStart(Retire(st[i], "start"), ok))
    /\ Quiet
    /\ UNCHANGED net

\* Mutation of AfterRead: reading goes on whatever R has not polled.
AfterReadUncapped(s, ok) ==
    LET s0 == [s EXCEPT !.read_inflight = FALSE]
    IN  s_try_finish_locked(
            IF ok /\ ~s.broken THEN s_post_read_locked([s0 EXCEPT !.unread = @ + 1])
            ELSE [s0 EXCEPT !.reads_closed = TRUE, !.want_finish = TRUE])

\* case T_READ.
AfterRead(s, ok) ==
    LET s0 == [s EXCEPT !.read_inflight = FALSE]
        s1 == [s0 EXCEPT !.unread = @ + 1]
    IN  s_try_finish_locked(
            IF ok /\ ~s.broken
            THEN IF s1.unread < s1.read_cap THEN s_post_read_locked(s1) ELSE s1
            ELSE [s0 EXCEPT !.reads_closed = TRUE, !.want_finish = TRUE])

\* Mutation of CompleteRead: the half-close is taken for a broken stream, and a
\* message that comes in after it is discarded.
CompleteReadHalfClosed(i, ok) ==
    LET keep == ok /\ ~st[i].wdone_sent IN
    /\ "read" \in st[i].ops
    /\ IF ok THEN net[i].taken < net[i].inbound
             ELSE \/ net[i].wire = "dead"
                  \/ net[i].wire = "ended" /\ net[i].taken = net[i].inbound
    /\ StreamCase(i, AfterRead(Retire(st[i], "read"), keep))
    /\ IF keep /\ ~st[i].broken THEN Emit("stream_msg", i, net[i].taken + 1) ELSE Quiet
    /\ net' = IF ok THEN [net EXCEPT ![i].taken = @ + 1] ELSE net

CompleteRead(i, ok) ==
    /\ "read" \in st[i].ops
    /\ IF ok THEN net[i].taken < net[i].inbound
             ELSE \/ net[i].wire = "dead"
                  \/ net[i].wire = "ended" /\ net[i].taken = net[i].inbound
    /\ StreamCase(i, AfterRead(Retire(st[i], "read"), ok))
    /\ IF ok /\ ~st[i].broken THEN Emit("stream_msg", i, net[i].taken + 1) ELSE Quiet
    /\ net' = IF ok THEN [net EXCEPT ![i].taken = @ + 1] ELSE net

\* Mutation of AfterWrite: the next write is not posted.
AfterWriteNoPump(s, ok) ==
    LET s0 == [s EXCEPT !.write_inflight = FALSE]
    IN  s_try_finish_locked(
            IF ok /\ ~s.broken THEN [s0 EXCEPT !.write_queue = Tail(@)]
            ELSE [s0 EXCEPT !.broken = TRUE, !.want_finish = TRUE])

\* case T_WRITE.
AfterWrite(s, ok) ==
    LET s0 == [s EXCEPT !.write_inflight = FALSE]
    IN  s_try_finish_locked(
            IF ok /\ ~s.broken
            THEN s_pump_writes_locked([s0 EXCEPT !.write_queue = Tail(@)])
            ELSE [s0 EXCEPT !.broken = TRUE, !.want_finish = TRUE])

CompleteWrite(i, ok) ==
    /\ "write" \in st[i].ops
    /\ ok \/ net[i].wire # "open"
    /\ StreamCase(i, AfterWrite(Retire(st[i], "write"), ok))
    /\ IF ok /\ ~st[i].broken /\ Len(st[i].write_queue) = 1
       THEN Emit("stream_writable", i, 0) ELSE Quiet
    /\ net' = IF ok THEN [net EXCEPT ![i].written = Head(st[i].write_queue)] ELSE net

\* case T_WDONE.
AfterWdone(s, ok) ==
    LET s0 == [s EXCEPT !.wdone_inflight = FALSE, !.wdone_sent = TRUE]
    IN  s_try_finish_locked(
            IF ok THEN s0 ELSE [s0 EXCEPT !.broken = TRUE, !.want_finish = TRUE])

CompleteWdone(i, ok) ==
    /\ "wdone" \in st[i].ops
    /\ ok \/ net[i].wire # "open"
    /\ StreamCase(i, AfterWdone(Retire(st[i], "wdone"), ok))
    /\ Quiet
    /\ UNCHANGED net

\* case T_FINISH.
CompleteFinish(i) ==
    /\ "finish" \in st[i].ops
    /\ net[i].wire # "open" /\ ~FinishBlocked(i)
    /\ StreamCase(i, [Retire(st[i], "finish") EXCEPT !.status_emitted = TRUE])
    /\ Emit("stream_status", i, Status(i))
    /\ UNCHANGED net

Complete(i) ==
    \/ CompleteUnary(i)
    \/ \E ok \in BOOLEAN : CompleteStart(i, ok)
    \/ \E ok \in BOOLEAN : CompleteRead(i, ok)
    \/ \E ok \in BOOLEAN : CompleteWrite(i, ok)
    \/ \E ok \in BOOLEAN : CompleteWdone(i, ok)
    \/ CompleteFinish(i)

-----------------------------------------------------------------------------
(* The network, external.                                                  *)

PeerSend(i) ==
    /\ i \in streams /\ net[i].wire = "open" /\ net[i].inbound < MaxMsgs
    /\ net' = [net EXCEPT ![i].inbound = @ + 1]
    /\ UNCHANGED <<phase, next_id, calls, streams, st, unary, ready, arrived, handed>>

\* The peer's status arrives, OK ("ended") or not; or the deadline passes or the
\* connection breaks.
WireOver(i, how) ==
    /\ net[i].wire = "open"
    /\ net' = [net EXCEPT ![i].wire = how]
    /\ UNCHANGED <<phase, next_id, calls, streams, st, unary, ready, arrived, handed>>

Next ==
    \/ CallStart
    \/ \E rc \in ReadCaps, wc \in WriteCaps : StreamStart(rc, wc)
    \/ \E i \in Ids : CallCancel(i) \/ StreamSend(i) \/ StreamWritesDone(i)
    \/ \E want \in Ids \cup {All}, maxn \in PollSizes : Poll(want, maxn)
    \/ CloseBegin \/ CloseQueue \/ CloseJoin \/ CloseAgain
    \/ \E i \in Ids : Complete(i)
    \/ \E i \in Ids : PeerSend(i)
    \/ \E i \in Ids, how \in {"ended", "dead"} : WireOver(i, how)

(***************************************************************************)
(* The completion thread keeps draining, and of a call that is over gRPC   *)
(* completes every tag that its contract lets complete, which a Finish     *)
(* with messages unread is not (FinishBlocked).  R, once inside            *)
(* grpc_close, finishes it, and keeps polling while the client is open     *)
(* ("Read every stream to its status", R/client.R:296).  Nothing is        *)
(* assumed of the peer or of flow control.                                 *)
(***************************************************************************)
Fairness ==
    /\ \A i \in Ids : WF_vars(net[i].wire # "open" /\ Complete(i))
    /\ WF_vars(\E maxn \in PollSizes : Poll(All, maxn))
    /\ WF_vars(CloseQueue) /\ WF_vars(CloseJoin)

Spec == Init /\ [][Next]_vars /\ Fairness

-----------------------------------------------------------------------------
(* Properties.                                                             *)

TypeOK ==
    /\ phase \in {"open", "shutting", "cqdown", "closed"}
    /\ next_id \in 1..(MaxCalls + 1)
    /\ calls \subseteq Ids /\ streams \subseteq Ids /\ unary \subseteq Ids
    /\ st \in [Ids -> Stream]
    /\ arrived \in Nat
    /\ ready \subseteq [kind : EventKinds, id : Ids, val : Nat, stamp : 1..arrived]
    /\ net \in [Ids -> Net]
    /\ handed \in [Ids -> [msgs : Nat, over : BOOLEAN]]

\* pending counts exactly the tags outstanding at the completion queue: no
\* operation is posted twice in one direction and none is forgotten.
TagsCounted == \A i \in Ids : st[i].pending = Cardinality(st[i].ops)

\* A tag never outlives the object it points to: a completion or a late
\* operation finds no freed stream_state or call_state.
NoDanglingTag ==
    /\ \A i \in Ids : st[i].ops # {} => i \in streams
    /\ unary \subseteq calls

\* client.cpp:16: Finish is outstanding only when nothing else is.
FinishAlone == \A i \in Ids : "finish" \in st[i].ops => st[i].ops = {"finish"}

\* R/client.R:288: unread is the number of undelivered messages, and with
\* the read in flight it stays within read_buffer (for a buffer of at least 1).
Backpressure ==
    \A i \in streams :
        /\ st[i].unread = Cardinality(Msgs(ready, i))
        /\ st[i].read_cap > 0 =>
              st[i].unread + (IF st[i].read_inflight THEN 1 ELSE 0) <= st[i].read_cap

\* A live stream is never stranded: it has an operation in flight, whose
\* completion will move it on, or R has a full buffer to drain.
NeverStranded ==
    phase = "open" =>
        \A i \in streams : st[i].ops # {} \/ st[i].unread >= st[i].read_cap

\* Queued writes and a requested half-close keep moving: on a started stream
\* that still accepts operations the next one is in flight.
WritesMove ==
    phase = "open" =>
        \A i \in streams :
            st[i].started /\ ~st[i].broken /\ ~st[i].finish_posted =>
                /\ st[i].write_queue # <<>> => "write" \in st[i].ops
                /\ st[i].wdone_requested /\ ~st[i].wdone_sent =>
                      st[i].ops \cap {"write", "wdone"} # {}

\* What R had accepted goes out once each and in order: on the wire so far,
\* then the queue, with nothing between; and WritesDone comes after all of it.
WritesInOrder ==
    \A i \in streams :
        /\ ~st[i].broken =>
             /\ net[i].written + Len(st[i].write_queue) = net[i].accepted
             /\ \A k \in 1..Len(st[i].write_queue) : st[i].write_queue[k] = net[i].written + k
        /\ Len(st[i].write_queue) <= st[i].write_cap
        /\ "wdone" \in st[i].ops => net[i].written = net[i].accepted

\* R sees the peer's messages in the order sent, none skipped or repeated.
MsgsInOrder ==
    \A i \in Ids :
        /\ {e.val : e \in Msgs(ready, i)} =
             (handed[i].msgs + 1)..(handed[i].msgs + Cardinality(Msgs(ready, i)))
        /\ \A e, f \in Msgs(ready, i) : e.val < f.val => e.stamp < f.stamp

\* While the client is open a started call has exactly one fate: it is in
\* flight, or its terminal event is queued, or R has had it; the terminal
\* event is the last of its call (R/client.R:285-286: "a final stream_status").
OneFate ==
    phase = "open" =>
        \A i \in 1..(next_id - 1) :
            LET live == i \in calls \cup streams
                queued == {e \in ready : e.id = i /\ e.kind \in Terminal}
            IN  /\ live => queued = {} /\ ~handed[i].over
                /\ ~live /\ ~handed[i].over => Cardinality(queued) = 1
                /\ \A e \in queued, f \in ready : f.id = i => f.stamp <= e.stamp
                /\ handed[i].over => {e \in ready : e.id = i} = {}

\* A stream that ends with the peer's OK status has handed over, or queued
\* before it, every message the peer sent, unless a send had failed first.
StatusComplete ==
    \A e \in ready :
        e.kind = "stream_status" /\ e.val = 0 /\ ~st[e.id].broken =>
            handed[e.id].msgs + Cardinality(Msgs(ready, e.id)) = net[e.id].inbound

\* client.cpp:137-139: once the completion queue is shut down no operation is
\* started on it (gRPC would abort the process).
NoPostAfterShutdown ==
    [][phase = "cqdown" => \A i \in Ids : st'[i].ops \subseteq st[i].ops]_vars

\* A call that is over is reported to an R that keeps polling.  The one case
\* the code leaves open is a stream on which a send or the half-close failed
\* and whose Finish was posted over a paused read (see StatusComes).
EndReported ==
    \A i \in Ids :
        (net[i].wire \in {"ended", "dead"}) ~>
            (handed[i].over \/ phase # "open" \/ (st[i].broken /\ FinishBlocked(i)))

\* grpc_close returns: cancelling everything drains the queue, join succeeds.
CloseReturns == (phase = "shutting") ~> (phase = "closed")

-----------------------------------------------------------------------------
(* What the documentation says and the code does not do.                   *)

\* R/client.R:285-296: a stream brings "a final stream_status", and R is to "Read
\* every stream to its status": once the peer's OK status is here, an R that
\* keeps polling is handed it (client.cpp:260-264 posts Finish over a paused read,
\* client.cpp:146 then refuses the reads it waits for).
StatusComes ==
    \A i \in Ids : (net[i].wire = "ended") ~> (handed[i].over \/ phase # "open")

\* R/client.R:281-286: "everything inbound arrives through grpc_poll", before "a
\* final stream_status": here for the peer's OK status.
EverythingArrives ==
    \A e \in ready :
        e.kind = "stream_status" /\ e.val = 0 =>
            handed[e.id].msgs + Cardinality(Msgs(ready, e.id)) = net[e.id].inbound
=============================================================================
