------------------------------- MODULE Server -------------------------------
(***************************************************************************)
(* The asynchronous server of src/src/server.cpp: accept slots, calls with *)
(* explicit reads, a bounded write queue and a deferred terminal status.   *)
(*                                                                         *)
(* R's main thread runs the exported operations, the completion thread one *)
(* case of rserver::run per completion, both holding mu throughout; the    *)
(* network (gRPC core and the peers, external to src/) decides which       *)
(* outstanding tag completes next and with which ok.  Completions of one   *)
(* call may be dequeued in any order, the done tag included.               *)
(***************************************************************************)
EXTENDS ReadyQueue, Sequences

CONSTANTS
    accept_window,  \* accept slots kept outstanding
    max_active,     \* calls plus slots allowed
    write_cap,      \* the write queue's capacity
    PollSizes,      \* values of max_events
    MaxCalls,       \* bound: calls the peers make
    MaxMsgs,        \* bound: messages a peer sends on one call
    MaxSends,       \* bound: messages R has accepted for one call
    MaxEvents       \* bound: R posts no read once so many events were queued

ASSUME ServerAssumption ==
    /\ accept_window \in Nat \ {0} /\ max_active \in Nat \ {0} /\ write_cap \in Nat
    /\ PollSizes \subseteq Nat \ {0}
    /\ MaxCalls \in Nat /\ MaxMsgs \in Nat /\ MaxSends \in Nat /\ MaxEvents \in Nat
    /\ All \notin Nat

VARIABLES
    phase,                  \* "open", or how far rserver_shutdown has got
    next_id,
    active,                 \* ids of calls accepted and not freed
    cl,                     \* cl[i]: the sv_call of i, kept as it was when freed
    accepts_outstanding,    \* accept slots posted and not completed
    ready,                  \* the deque: set of [kind, id, val, stamp]
    arrived,                \* events pushed so far
    waiting,                \* external: calls queued in the transport
    net,                    \* external: net[i], the RPC of i
    handed                  \* history: handed[i], what polls returned of i: kinds, msgs

vars == <<phase, next_id, active, cl, accepts_outstanding, ready, arrived,
          waiting, net, handed>>

Ids == 1..MaxCalls
OpKinds == {"read", "write", "done", "finish"}
EventKinds == {"request", "cancelled", "stream_msg", "client_done", "stream_writable"}
Shutting == phase # "open"

(***************************************************************************)
(* The sv_call of server.cpp:54 from the moment it is accepted (a slot is  *)
(* only counted).  ops, not a field of the code, is the set of its tags    *)
(* outstanding at the completion queue, which pending is meant to count.   *)
(* A queued message is its number among the sends R had accepted; the      *)
(* response of grpc_reply is the write after them.                         *)
(***************************************************************************)
Call ==
    [pending : Nat, delivered : BOOLEAN, replied : BOOLEAN, dead : BOOLEAN,
     read_inflight : BOOLEAN, write_inflight : BOOLEAN, finish_posted : BOOLEAN,
     has_final_write : BOOLEAN, write_queue : Seq(Nat), ops : SUBSET OpKinds]

NewCall ==
    [pending |-> 0, delivered |-> FALSE, replied |-> FALSE, dead |-> FALSE,
     read_inflight |-> FALSE, write_inflight |-> FALSE, finish_posted |-> FALSE,
     has_final_write |-> FALSE, write_queue |-> <<>>, ops |-> {}]

\* over: cancelled, timed out, lost, or its status is out.  half: the peer has
\* half-closed.  sent: messages the peer sent; taken: of these, read.
\* accepted: messages R queued; wire: numbers of the messages written to the
\* peer, in order; abort: its length when an abortive finish was accepted.
Net == [over : BOOLEAN, half : BOOLEAN, sent : 0..MaxMsgs, taken : 0..MaxMsgs,
        accepted : 0..MaxSends, wire : Seq(Nat), status : BOOLEAN, abort : Int]

NewNet == [over |-> FALSE, half |-> FALSE, sent |-> 0, taken |-> 0,
           accepted |-> 0, wire |-> <<>>, status |-> FALSE, abort |-> -1]

-----------------------------------------------------------------------------
\* Mutation of Post: ++pending is forgotten.
PostUncounted(c, op) == [c EXCEPT !.ops = @ \cup {op}]

Post(c, op) == [c EXCEPT !.pending = @ + 1, !.ops = @ \cup {op}]

Retire(c, op) == [c EXCEPT !.pending = @ - 1, !.ops = @ \ {op}]

\* push_event_locked.  The wake handle is EventQueue's subject.
Emit(k, i, v) ==
    /\ arrived' = arrived + 1
    /\ ready' = ready \cup {[kind |-> k, id |-> i, val |-> v, stamp |-> arrived + 1]}

Quiet == UNCHANGED <<ready, arrived>>

\* Mutations of SlotsAfter: active calls not counted; shutting ignored.
SlotsUncapped(slots, n) ==
    IF Shutting \/ slots >= accept_window THEN slots ELSE accept_window
SlotsShutting(slots, n) ==
    IF slots < accept_window /\ n + slots < max_active THEN slots + 1 ELSE slots

\* post_accepts_locked: the slots outstanding after the loop, given the slots
\* and the number of active calls before it.
SlotsAfter(slots, n) ==
    IF Shutting THEN slots
    ELSE LET room == max_active - n
             goal == IF room < accept_window THEN room ELSE accept_window
         IN  IF slots < goal THEN goal ELSE slots

\* pump_locked: the next write, or the terminal status when there is none.
pump_locked(c) ==
    IF Shutting \/ c.dead \/ c.finish_posted \/ c.write_inflight THEN c
    ELSE IF c.write_queue # <<>>
         THEN Post([c EXCEPT !.write_inflight = TRUE], "write")
    ELSE IF c.replied THEN Post([c EXCEPT !.finish_posted = TRUE], "finish") ELSE c

\* Mutation of LiveAfter: freed with one tag, the last but one, outstanding.
FreedEarly(i, c) == IF c.pending <= 1 THEN active \ {i} ELSE active

\* maybe_free_locked: the calls still active.
LiveAfter(i, c) == IF c.pending = 0 THEN active \ {i} ELSE active

-----------------------------------------------------------------------------
(* R's main thread.  get_server refuses a closed server: phase = "open".    *)

\* grpc_r_server2_create posts the first slots before the thread starts.
Init ==
    /\ phase = "open"
    /\ next_id = 1
    /\ active = {}
    /\ cl = [i \in Ids |-> NewCall]
    /\ accepts_outstanding = IF max_active < accept_window THEN max_active ELSE accept_window
    /\ ready = {} /\ arrived = 0
    /\ waiting = 0
    /\ net = [i \in Ids |-> NewNet]
    /\ handed = [i \in Ids |-> [kinds |-> {}, msgs |-> 0]]

\* R holds a grpc_request object, the handle of every operation on the call.
Known(i) == "request" \in handed[i].kinds

\* grpc_reply and grpc_finish are answered TRUE for a delivered, unanswered,
\* living call; otherwise they change nothing.
Answerable(i) ==
    /\ i \in active /\ Known(i)
    /\ cl[i].delivered /\ ~cl[i].replied /\ ~cl[i].dead

\* grpc_r_server2_reply; payload: status OK with a response.
Reply(i, payload) ==
    /\ phase = "open"
    /\ Answerable(i)
    /\ cl' = [cl EXCEPT ![i] =
                 pump_locked([@ EXCEPT !.replied = TRUE, !.has_final_write = payload])]
    /\ UNCHANGED <<phase, next_id, active, accepts_outstanding, ready, arrived,
                   waiting, net, handed>>

\* Mutation of Discarded: the queue is kept.
DiscardedNone(c) == c.write_queue

\* The queue an abortive finish leaves: the write in flight, if any.
Discarded(c) ==
    IF c.write_inflight THEN SubSeq(c.write_queue, 1, 1) ELSE <<>>

\* grpc_r_server2_finish.
Finish(i, drain) ==
    /\ phase = "open"
    /\ Answerable(i)
    /\ LET q == IF drain THEN cl[i].write_queue ELSE Discarded(cl[i])
       IN  cl' = [cl EXCEPT ![i] = pump_locked([@ EXCEPT !.replied = TRUE,
                                                         !.has_final_write = FALSE,
                                                         !.write_queue = q])]
    /\ net' = IF drain THEN net ELSE [net EXCEPT ![i].abort = Len(net[i].wire)]
    /\ UNCHANGED <<phase, next_id, active, accepts_outstanding, ready, arrived,
                   waiting, handed>>

\* Mutation of Read: a read may be in flight.
ReadTwice(i) ==
    /\ phase = "open"
    /\ i \in active /\ Known(i)
    /\ cl[i].delivered /\ ~cl[i].dead /\ ~cl[i].finish_posted
    /\ arrived < MaxEvents
    /\ cl' = [cl EXCEPT ![i] = Post([@ EXCEPT !.read_inflight = TRUE], "read")]
    /\ UNCHANGED <<phase, next_id, active, accepts_outstanding, ready, arrived,
                   waiting, net, handed>>

\* grpc_r_server2_read.
Read(i) ==
    /\ phase = "open"
    /\ i \in active /\ Known(i)
    /\ cl[i].delivered /\ ~cl[i].dead /\ ~cl[i].read_inflight /\ ~cl[i].finish_posted
    /\ arrived < MaxEvents
    /\ cl' = [cl EXCEPT ![i] = Post([@ EXCEPT !.read_inflight = TRUE], "read")]
    /\ UNCHANGED <<phase, next_id, active, accepts_outstanding, ready, arrived,
                   waiting, net, handed>>

\* grpc_r_server2_send.
Send(i) ==
    /\ phase = "open"
    /\ Answerable(i)
    /\ Len(cl[i].write_queue) < write_cap
    /\ net[i].accepted < MaxSends
    /\ net' = [net EXCEPT ![i].accepted = @ + 1]
    /\ LET q == Append(cl[i].write_queue, net[i].accepted + 1)
       IN  cl' = [cl EXCEPT ![i] = pump_locked([@ EXCEPT !.write_queue = q])]
    /\ UNCHANGED <<phase, next_id, active, accepts_outstanding, ready, arrived,
                   waiting, handed>>

\* grpc_r_server2_cancel: ctx.TryCancel(); nothing of the call's own state.
Cancel(i) ==
    /\ phase = "open"
    /\ i \in active /\ Known(i) /\ ~cl[i].dead
    /\ net' = [net EXCEPT ![i].over = TRUE]
    /\ UNCHANGED <<phase, next_id, active, cl, accepts_outstanding, ready, arrived,
                   waiting, handed>>

\* Inbound messages of call i in a set of events.
Msgs(q, i) == {e \in q : e.id = i /\ e.kind \in {"request", "stream_msg"}}

\* grpc_r_server2_poll, from the drain on: the wait before it is EventQueue's.
Poll(want, maxn) ==
    /\ phase = "open"
    /\ LET batch == Batch(ready, want, maxn) IN
       /\ ready' = ready \ batch
       /\ handed' = [i \in Ids |->
                       [kinds |-> handed[i].kinds \cup {e.kind : e \in {f \in batch : f.id = i}},
                        msgs |-> handed[i].msgs + Cardinality(Msgs(batch, i))]]
    /\ UNCHANGED <<phase, next_id, active, cl, accepts_outstanding, arrived, waiting, net>>

\* rserver_shutdown: closed, shutting under mu; then server->Shutdown cancels
\* every call and turns away the ones not accepted.
CloseBegin ==
    /\ phase = "open"
    /\ phase' = "shutting"
    /\ UNCHANGED <<next_id, active, cl, accepts_outstanding, ready, arrived, waiting,
                   net, handed>>

\* Mutation of CloseServer: calls in flight are waited for, not cancelled.
CloseServerWait ==
    /\ phase = "shutting"
    /\ phase' = "cancelled"
    /\ UNCHANGED <<next_id, active, cl, accepts_outstanding, ready, arrived, waiting,
                   net, handed>>

CloseServer ==
    /\ phase = "shutting"
    /\ phase' = "cancelled"
    /\ net' = [i \in Ids |-> IF i \in active THEN [net[i] EXCEPT !.over = TRUE] ELSE net[i]]
    /\ UNCHANGED <<next_id, active, cl, accepts_outstanding, ready, arrived, waiting, handed>>

\* cq->Shutdown(): from here on starting an operation aborts the process.
CloseQueue ==
    /\ phase = "cancelled"
    /\ phase' = "cqdown"
    /\ UNCHANGED <<next_id, active, cl, accepts_outstanding, ready, arrived, waiting,
                   net, handed>>

\* join() returns once the queue is drained; the rest is deleted.
CloseJoin ==
    /\ phase = "cqdown"
    /\ accepts_outstanding = 0 /\ \A i \in Ids : cl[i].ops = {}
    /\ phase' = "closed"
    /\ active' = {}
    /\ UNCHANGED <<next_id, cl, accepts_outstanding, ready, arrived, waiting, net, handed>>

\* grpc_close on a closed server: the external pointer is cleared, no-op.
CloseAgain == phase = "closed" /\ UNCHANGED vars

-----------------------------------------------------------------------------
(* The completion thread: one action per case of rserver::run.             *)

\* The RPC is over for gRPC core: cancelled or lost, or its status posted.
Over(i) == net[i].over \/ cl[i].finish_posted

\* case accept, ok: a call is matched to a slot.  Its done tag is live from
\* here on; its first message is read at once, unless the server is closing.
AcceptOk ==
    /\ accepts_outstanding > 0 /\ waiting > 0
    /\ waiting' = waiting - 1
    /\ next_id' = next_id + 1
    /\ active' = active \cup {next_id}
    /\ cl' = [cl EXCEPT ![next_id] =
                 IF Shutting THEN [Post(NewCall, "done") EXCEPT !.dead = TRUE]
                 ELSE Post(Post([NewCall EXCEPT !.read_inflight = TRUE], "done"), "read")]
    /\ accepts_outstanding' = SlotsAfter(accepts_outstanding - 1, Cardinality(active'))
    /\ net' = [net EXCEPT ![next_id].over = phase \in {"cancelled", "cqdown"}]
    /\ UNCHANGED <<phase, ready, arrived, handed>>

\* case accept, not ok: shutdown; the slot was never matched and is freed.
AcceptFailed ==
    /\ phase \in {"cancelled", "cqdown"} /\ accepts_outstanding > 0
    /\ accepts_outstanding' = accepts_outstanding - 1
    /\ UNCHANGED <<phase, next_id, active, cl, ready, arrived, waiting, net, handed>>

\* Mutation of CallCase: a call once answered is not freed.
CallCaseLeak(i, c) ==
    /\ cl' = [cl EXCEPT ![i] = c]
    /\ active' = IF c.replied THEN active ELSE LiveAfter(i, c)
    /\ UNCHANGED <<phase, next_id, waiting, handed>>

\* The common frame of the call cases: c is what the handler leaves; the done
\* and finish cases end with post_accepts_locked, read and write do not.
CallCase(i, c) ==
    /\ cl' = [cl EXCEPT ![i] = c]
    /\ active' = LiveAfter(i, c)
    /\ UNCHANGED <<phase, next_id, waiting, handed>>

\* Mutation of ReadOutcome: messages are dropped once R has answered.
ReadOutcomeMuted(c, ok) ==
    IF ok /\ ~c.dead /\ ~c.replied THEN IF c.delivered THEN "stream_msg" ELSE "request"
    ELSE IF c.delivered /\ ~c.dead THEN "client_done" ELSE "none"

\* What R hears of a read: the first message is the request, later ones are
\* stream_msg; a failed read of a delivered call is client_done.
ReadOutcome(c, ok) ==
    IF ok /\ ~c.dead THEN IF c.delivered THEN "stream_msg" ELSE "request"
    ELSE IF c.delivered /\ ~c.dead THEN "client_done" ELSE "none"

\* case read.
CompleteRead(i, ok) ==
    LET c == [Retire(cl[i], "read") EXCEPT !.read_inflight = FALSE]
        k == ReadOutcome(c, ok)
    IN  /\ "read" \in cl[i].ops
        /\ IF ok THEN net[i].taken < net[i].sent
                 ELSE Over(i) \/ (net[i].half /\ net[i].taken = net[i].sent)
        /\ net' = IF ok THEN [net EXCEPT ![i].taken = @ + 1] ELSE net
        /\ CallCase(i, [c EXCEPT !.delivered = @ \/ k = "request", !.dead = @ \/ k = "none"])
        /\ IF k = "none" THEN Quiet ELSE Emit(k, i, IF ok THEN net[i].taken + 1 ELSE 0)
        /\ UNCHANGED accepts_outstanding

\* Mutations of AfterWrite: the next operation is not posted; no pop_front.
AfterWriteNoPump(c, ok) ==
    IF ok /\ ~c.dead THEN [c EXCEPT !.write_queue = Tail(@)] ELSE [c EXCEPT !.dead = TRUE]
AfterWriteNoPop(c, ok) ==
    IF ok /\ ~c.dead THEN pump_locked(c) ELSE [c EXCEPT !.dead = TRUE]

\* case write.
AfterWrite(c, ok) ==
    IF ok /\ ~c.dead THEN pump_locked([c EXCEPT !.write_queue = Tail(@)])
                     ELSE [c EXCEPT !.dead = TRUE]

CompleteWrite(i, ok) ==
    LET c == [Retire(cl[i], "write") EXCEPT !.write_inflight = FALSE] IN
    /\ "write" \in cl[i].ops
    /\ ok \/ Over(i)
    /\ net' = IF ok THEN [net EXCEPT ![i].wire = Append(@, Head(c.write_queue))] ELSE net
    /\ CallCase(i, AfterWrite(c, ok))
    /\ IF ok /\ ~c.dead /\ ~c.replied /\ Len(c.write_queue) = 1
       THEN Emit("stream_writable", i, 0) ELSE Quiet
    /\ UNCHANGED accepts_outstanding

\* Mutations of Abandoned: undelivered calls too; not while R is reading.
AbandonedEarly(c) == ~c.replied
AbandonedIdle(c) == c.delivered /\ ~c.replied /\ ~c.read_inflight

\* case done: the RPC ended; R is told if it had not answered.
Abandoned(c) == c.delivered /\ ~c.replied

\* Mutation of CompleteDone: the call is not marked dead.
DoneNotDead(i) ==
    LET c == Retire(cl[i], "done") IN
    /\ "done" \in cl[i].ops
    /\ Over(i)
    /\ CallCase(i, c)
    /\ IF Abandoned(c) THEN Emit("cancelled", i, 0) ELSE Quiet
    /\ accepts_outstanding' = SlotsAfter(accepts_outstanding, Cardinality(active'))
    /\ UNCHANGED net

CompleteDone(i) ==
    LET c == Retire(cl[i], "done") IN
    /\ "done" \in cl[i].ops
    /\ Over(i)
    /\ CallCase(i, IF Abandoned(c) THEN [c EXCEPT !.dead = TRUE] ELSE c)
    /\ IF Abandoned(c) THEN Emit("cancelled", i, 0) ELSE Quiet
    /\ accepts_outstanding' = SlotsAfter(accepts_outstanding, Cardinality(active'))
    /\ UNCHANGED net

\* case finish: the status is out (with the response, if there is one).
CompleteFinish(i, ok) ==
    /\ "finish" \in cl[i].ops
    /\ ok \/ net[i].over
    /\ CallCase(i, Retire(cl[i], "finish"))
    /\ Quiet
    /\ accepts_outstanding' = SlotsAfter(accepts_outstanding, Cardinality(active'))
    /\ net' = IF ok
              THEN [net EXCEPT ![i].status = TRUE,
                               ![i].wire = IF cl[i].has_final_write
                                           THEN Append(@, net[i].accepted + 1) ELSE @]
              ELSE net

Complete(i) ==
    \/ \E ok \in BOOLEAN : CompleteRead(i, ok)
    \/ \E ok \in BOOLEAN : CompleteWrite(i, ok)
    \/ CompleteDone(i)
    \/ \E ok \in BOOLEAN : CompleteFinish(i, ok)

-----------------------------------------------------------------------------
(* The peers, external.                                                    *)

pvars == <<phase, next_id, active, cl, accepts_outstanding, ready, arrived, handed>>

PeerCall ==
    /\ phase = "open" /\ next_id + waiting <= MaxCalls
    /\ waiting' = waiting + 1
    /\ UNCHANGED <<pvars, net>>

PeerSend(i) ==
    /\ i \in active /\ ~net[i].over /\ ~net[i].half /\ net[i].sent < MaxMsgs
    /\ net' = [net EXCEPT ![i].sent = @ + 1]
    /\ UNCHANGED <<pvars, waiting>>

PeerHalfClose(i) ==
    /\ i \in active /\ ~net[i].over /\ ~net[i].half
    /\ net' = [net EXCEPT ![i].half = TRUE]
    /\ UNCHANGED <<pvars, waiting>>

\* The peer cancels, the deadline passes or the connection breaks.
PeerGone(i) ==
    /\ i \in active /\ ~net[i].over
    /\ net' = [net EXCEPT ![i].over = TRUE]
    /\ UNCHANGED <<pvars, waiting>>

Next ==
    \/ \E i \in Ids, payload \in BOOLEAN : Reply(i, payload)
    \/ \E i \in Ids, drain \in BOOLEAN : Finish(i, drain)
    \/ \E i \in Ids : Read(i) \/ Send(i) \/ Cancel(i)
    \/ \E want \in Ids \cup {All}, maxn \in PollSizes : Poll(want, maxn)
    \/ CloseBegin \/ CloseServer \/ CloseQueue \/ CloseJoin \/ CloseAgain
    \/ AcceptOk \/ AcceptFailed
    \/ \E i \in Ids : Complete(i)
    \/ PeerCall
    \/ \E i \in Ids : PeerSend(i) \/ PeerHalfClose(i) \/ PeerGone(i)

(***************************************************************************)
(* The completion thread keeps draining and gRPC completes every tag of an *)
(* RPC that is over and every slot of a server that is shut down; R polls  *)
(* while the server is open and, once inside grpc_close, finishes it.      *)
(* Nothing is assumed of the peers or of flow control.                     *)
(***************************************************************************)
Fairness ==
    /\ \A i \in Ids : WF_vars(net[i].over /\ Complete(i))
    /\ WF_vars(AcceptFailed)
    /\ WF_vars(\E maxn \in PollSizes : Poll(All, maxn))
    /\ WF_vars(CloseServer) /\ WF_vars(CloseQueue) /\ WF_vars(CloseJoin)

Spec == Init /\ [][Next]_vars /\ Fairness

-----------------------------------------------------------------------------
(* Properties.                                                             *)

TypeOK ==
    /\ phase \in {"open", "shutting", "cancelled", "cqdown", "closed"}
    /\ next_id \in 1..(MaxCalls + 1)
    /\ active \subseteq Ids
    /\ cl \in [Ids -> Call]
    /\ accepts_outstanding \in 0..accept_window
    /\ arrived \in Nat
    /\ ready \subseteq [kind : EventKinds, id : Ids, val : Nat, stamp : 1..arrived]
    /\ waiting \in 0..MaxCalls
    /\ net \in [Ids -> Net]
    /\ handed \in [Ids -> [kinds : SUBSET EventKinds, msgs : Nat]]

\* pending counts exactly the tags outstanding at the completion queue: one
\* read and one write at a time, one terminal status per call.
TagsCounted == \A i \in Ids : cl[i].pending = Cardinality(cl[i].ops)

\* A call is in the map exactly while one of its tags is outstanding: no
\* completion or operation meets a freed sv_call, and none is ever leaked.
ActiveWhileTagged == \A i \in Ids : i \in active <=> cl[i].ops # {}

\* R/server.R:10-12: active calls plus accept slots stay within max_active.
Capacity == Cardinality(active) + accepts_outstanding <= max_active

\* Queued messages and an accepted answer keep moving: on a call that still
\* accepts operations the next one is in flight.
PumpArmed ==
    phase = "open" =>
        \A i \in active :
            ~cl[i].dead /\ ~cl[i].finish_posted =>
                /\ cl[i].write_queue # <<>> => "write" \in cl[i].ops
                /\ cl[i].replied => "write" \in cl[i].ops

\* The peer receives what R had accepted once each and in order.
WireInOrder == \A i \in Ids : \A k \in 1..Len(net[i].wire) : net[i].wire[k] = k

\* R/server.R:301-312: after an abortive finish at most the one write already
\* posted reaches the peer; a draining one (or a reply) is preceded by all.
FenceHolds ==
    \A i \in Ids :
        IF net[i].abort >= 0
        THEN Len(net[i].wire) <= net[i].abort + 1
        ELSE net[i].status => Len(net[i].wire) = net[i].accepted +
                                 (IF cl[i].has_final_write THEN 1 ELSE 0)

\* R hears of a call first by its request: every other event is behind it.
RequestFirst ==
    \A e \in ready : e.kind # "request" =>
        \/ Known(e.id)
        \/ \E f \in ready : f.id = e.id /\ f.kind = "request" /\ f.stamp < e.stamp

\* Messages of a call reach R in the order sent, none skipped or repeated.
MsgsInOrder ==
    \A i \in Ids :
        LET n == handed[i].msgs
            m == n + Cardinality(Msgs(ready, i))
        IN  /\ {e.val : e \in Msgs(ready, i)} = (n + 1)..m
            /\ \A e, f \in Msgs(ready, i) : e.val < f.val => e.stamp < f.stamp
            /\ ~cl[i].dead => m = net[i].taken

\* After "cancelled" (a delivered, unanswered call whose done tag has been
\* handled) no event of that call is queued.
NothingAfterCancelled ==
    [][\A e \in ready' \ ready :
          ~(Abandoned(cl[e.id]) /\ "done" \notin cl[e.id].ops)]_vars

\* Once the completion queue is shut down no operation is started on it and
\* no slot is posted; a late accept only brings its done tag.
NoPostAfterShutdown ==
    [][phase = "cqdown" => /\ accepts_outstanding' <= accepts_outstanding
                           /\ \A i \in Ids : cl'[i].ops \ cl[i].ops \subseteq {"done"}]_vars

\* An RPC that is over gives its place back.
OverFreed == \A i \in Ids : (i \in active /\ net[i].over) ~> (i \notin active)

\* R/generics.R:15-16: R is told of a request the peer abandoned, if it had
\* the request before the end of the RPC was noticed (otherwise CancelSurfaces).
CancelReported ==
    \A i \in Ids :
        (/\ i \in active /\ net[i].over /\ Abandoned(cl[i]) /\ "done" \in cl[i].ops)
            ~> ("cancelled" \in handed[i].kinds \/ cl[i].replied \/ phase # "open")

\* grpc_close returns: cancelling everything drains the queue, join succeeds.
CloseReturns == (phase = "shutting") ~> (phase = "closed")

-----------------------------------------------------------------------------
(* What the documentation says and the code does not do.                   *)

\* R/server.R:12-13: "Excess incoming calls queue in the transport until
\* capacity frees up."  An idle open server has a slot for the next call.
IdleServerAccepts == phase = "open" /\ active = {} => accepts_outstanding > 0

\* R/server.R:234: "client_done" says the peer has half-closed.
ClientDoneMeansHalfClosed ==
    \A e \in ready : e.kind = "client_done" => net[e.id].half

\* NEWS.md:286-288: "Peer cancellation and deadline expiry surface as "cancelled"
\* events": every request R is handed and has not answered when its RPC ends.
CancelSurfaces ==
    \A i \in Ids :
        (net[i].over /\ Abandoned(cl[i])) ~>
            ("cancelled" \in handed[i].kinds \/ cl[i].replied \/ phase # "open")

\* R/server.R:3-8: any method is accepted and incoming requests are received
\* via grpc_poll: an accepted RPC that goes on is, once read, known to R.
EveryCallSurfaces ==
    phase = "open" =>
        \A i \in active : ~Over(i) /\ "read" \notin cl[i].ops => cl[i].delivered
=============================================================================
