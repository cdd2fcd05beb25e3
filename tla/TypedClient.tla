----------------------------- MODULE TypedClient -----------------------------
(***************************************************************************)
(* The R layer over the client (src/R/client.R): a table remembers, for    *)
(* every call started with a grpc_method, the message types to check sends *)
(* against and to decode responses with, until the terminal event of the   *)
(* call has been handed over.  Client supplies the native half of every    *)
(* operation; all of this runs on R's main thread.                         *)
(***************************************************************************)
EXTENDS Client

VARIABLES
    types,      \* ids with an entry in client$calls$types
    typed,      \* history: ids of the calls started with a grpc_method
    spoiled,    \* history: ids whose terminal event a poll took and then failed on
    mistyped    \* history: typed streams that accepted a message of another type

tvars == <<vars, types, typed, spoiled, mistyped>>

TypedInit ==
    /\ Init
    /\ types = {} /\ typed = {} /\ spoiled = {} /\ mistyped = {}

\* .calls_set, after the native start has returned the id.
Remember(istyped) ==
    /\ types' = IF istyped THEN types \cup {next_id} ELSE types
    /\ typed' = IF istyped THEN typed \cup {next_id} ELSE typed
    /\ UNCHANGED <<spoiled, mistyped>>

\* grpc_call.
TypedCall(istyped) == CallStart /\ Remember(istyped)

\* grpc_stream.
TypedStream(rc, wc, istyped) == StreamStart(rc, wc) /\ Remember(istyped)

\* grpc_send.grpc_stream: a Message is checked against the entry, if there
\* is one; fits: it is of the stream's input type.
TypedSend(i, fits) ==
    /\ i \in types => fits
    /\ StreamSend(i)
    /\ mistyped' = IF i \in typed /\ ~fits THEN mistyped \cup {i} ELSE mistyped
    /\ UNCHANGED <<types, typed, spoiled>>

\* The events grpc_decode is called on: a message, or the response of a unary
\* call that ended OK (which only a status of the peer's can be).
Decoded(e) ==
    /\ e.id \in types
    /\ e.kind = "stream_msg" \/ (e.kind = "unary" /\ e.val = 0)

\* The calls that end among the events of q.
Ends(q) == {e.id : e \in {f \in q : f.kind \in Terminal}}

\* Mutations of DecorateEvents: an entry goes with its call's first event; the
\* entry of a stream is kept.
DecorateAny(batch, stop) == types \ {e.id : e \in {f \in batch : f.stamp < stop}}
DecorateUnary(batch, stop) ==
    types \ {e.id : e \in {f \in batch : f.stamp < stop /\ f.kind = "unary"}}

\* decorate_events: lapply goes through the batch in order and drops the entry
\* at a terminal event, after decoding it; stop is the arrival number of the
\* first event it fails to decode.
DecorateEvents(batch, stop) == types \ Ends({e \in batch : e.stamp < stop})

\* grpc_poll and grpc_await: the native poll has taken the batch out of the
\* queue when decoding starts; an error leaves R without any of it.
TypedPoll(want, maxn) ==
    LET batch == Batch(ready, want, maxn) IN
    /\ Poll(want, maxn)
    /\ \E stop \in {e.stamp : e \in {f \in batch : Decoded(f)}} \cup {arrived + 1} :
          /\ types' = DecorateEvents(batch, stop)
          /\ spoiled' = spoiled \cup Ends({e \in batch : e.stamp >= stop})
    /\ UNCHANGED <<typed, mistyped>>

\* The other operations, the completion thread and the network do not touch the
\* table; a closed client keeps it until the object itself is dropped.
Untyped ==
    /\ \/ \E i \in Ids : CallCancel(i) \/ StreamWritesDone(i) \/ Complete(i) \/ PeerSend(i)
       \/ CloseBegin \/ CloseQueue \/ CloseJoin \/ CloseAgain
       \/ \E i \in Ids, how \in {"ended", "dead"} : WireOver(i, how)
    /\ UNCHANGED <<types, typed, spoiled, mistyped>>

TypedNext ==
    \/ \E t \in BOOLEAN : TypedCall(t)
    \/ \E rc \in ReadCaps, wc \in WriteCaps, t \in BOOLEAN : TypedStream(rc, wc, t)
    \/ \E i \in Ids, fits \in BOOLEAN : TypedSend(i, fits)
    \/ \E want \in Ids \cup {All}, maxn \in PollSizes : TypedPoll(want, maxn)
    \/ Untyped

\* As Client's, for the operations of this module.
TypedFairness ==
    /\ \A i \in Ids : WF_tvars(net[i].wire # "open" /\ Complete(i) /\ Untyped)
    /\ WF_tvars(\E maxn \in PollSizes : TypedPoll(All, maxn))
    /\ WF_tvars(CloseQueue /\ Untyped) /\ WF_tvars(CloseJoin /\ Untyped)

TypedSpec == TypedInit /\ [][TypedNext]_tvars /\ TypedFairness

-----------------------------------------------------------------------------
(* Properties.                                                             *)

\* Call i can still bring an event: it is in flight or has one queued.
Outstanding(i) == i \in calls \cup streams \/ \E e \in ready : e.id = i

\* While the client is open the table holds the typed calls that can still
\* bring an event, so that every event of theirs is decoded and every send
\* checked, and no others, except those whose last batch failed to decode (the
\* comment at R/client.R:142 overlooks these: "only ever holds the outstanding calls").
TableExact ==
    phase = "open" =>
        \A i \in typed : i \in types <=> Outstanding(i) \/ i \in spoiled

\* R/client.R:393-407: a message of another type is never queued on a typed
\* stream, the checks of a stream that has just ended included.
SendsWellTyped == mistyped = {}
=============================================================================
