------------------------------ MODULE RpcSystem ------------------------------
(***************************************************************************)
(* A client and a server of this package at the two ends of one RPC, a     *)
(* stream: Client and Server composed, with gRPC between them.             *)
(*                                                                         *)
(* Each side takes the steps of its own module.  What those modules leave  *)
(* to chance, when a message, the half-close, the status or a failure gets *)
(* to a side, here follows from what the other side has put on the wire.   *)
(* gRPC (external) delivers in order, accepts a write while fewer than     *)
(* Window messages are unread, and may lose the connection, or run into    *)
(* the deadline, on either side and at any time.                           *)
(***************************************************************************)
EXTENDS Integers, Sequences

CONSTANTS
    All,
    read_cap,       \* grpc_stream's read_buffer
    client_cap,     \* grpc_stream's write_buffer
    server_cap,     \* the server's write queue capacity
    PollSizes,      \* values of max_events, on both sides
    Window,         \* external: messages in transit per direction
    MaxUp,          \* bound: messages the client's R sends
    MaxDown,        \* bound: messages the server's R sends before its answer
    MaxReads        \* bound: events on the server, see Server!MaxEvents

ASSUME RpcAssumption ==
    /\ read_cap \in Nat /\ client_cap \in Nat /\ server_cap \in Nat
    /\ PollSizes \subseteq Nat \ {0}
    /\ MaxUp \in Nat /\ MaxDown \in Nat /\ MaxReads \in Nat
    /\ All \notin Nat

VARIABLES
    cphase, cnext_id, calls, streams, st, unary, cready, carrived, cnet, chanded,
    sphase, snext_id, active, cl, accepts_outstanding, sready, sarrived, waiting,
    snet, shanded

cvars == <<cphase, cnext_id, calls, streams, st, unary, cready, carrived, cnet, chanded>>
svars == <<sphase, snext_id, active, cl, accepts_outstanding, sready, sarrived, waiting,
           snet, shanded>>
vars == <<cvars, svars>>

C == INSTANCE Client WITH
        ReadCaps <- {read_cap}, WriteCaps <- {client_cap}, MaxCalls <- 1,
        MaxMsgs <- MaxDown + 1, MaxSends <- MaxUp,
        phase <- cphase, next_id <- cnext_id, ready <- cready, arrived <- carrived,
        net <- cnet, handed <- chanded

S == INSTANCE Server WITH
        accept_window <- 1, max_active <- 1, write_cap <- server_cap, MaxCalls <- 1,
        MaxMsgs <- MaxUp, MaxSends <- MaxDown, MaxEvents <- MaxReads,
        phase <- sphase, next_id <- snext_id, ready <- sready, arrived <- sarrived,
        net <- snet, handed <- shanded

Init == C!Init /\ S!Init

-----------------------------------------------------------------------------
(* R's operations at the two ends.                                         *)

ClientPoll == \E maxn \in PollSizes : C!Poll(All, maxn)
ServerPoll == \E maxn \in PollSizes : S!Poll(All, maxn)

ClientR ==
    /\ \/ C!StreamStart(read_cap, client_cap)
       \/ C!StreamSend(1) \/ C!StreamWritesDone(1) \/ C!CallCancel(1)
       \/ ClientPoll
    /\ UNCHANGED svars

ServerR ==
    /\ \/ \E payload \in BOOLEAN : S!Reply(1, payload)
       \/ \E drain \in BOOLEAN : S!Finish(1, drain)
       \/ S!Read(1) \/ S!Send(1) \/ S!Cancel(1)
       \/ ServerPoll
    /\ UNCHANGED cvars

-----------------------------------------------------------------------------
(* The completion threads.  A write completes, while the RPC goes on, only *)
(* when the other side's reads leave room for it.                          *)

UpRoom ==
    cnet'[1].written # cnet[1].written =>
        cnet'[1].written - snet[1].taken <= Window \/ cnet[1].wire # "open"

DownRoom ==
    Len(snet'[1].wire) # Len(snet[1].wire) =>
        Len(snet'[1].wire) - cnet[1].taken <= Window \/ snet[1].over

ClientCompletes == C!Complete(1) /\ UpRoom /\ UNCHANGED svars

ServerCompletes == (S!AcceptOk \/ (S!Complete(1) /\ DownRoom)) /\ UNCHANGED cvars

-----------------------------------------------------------------------------
(* gRPC between the two, external.  What an operation carries can be at    *)
(* the other side before the operation's own completion is handled here.   *)

Up == cnet[1].written + (IF "write" \in st[1].ops THEN 1 ELSE 0)

HalfClosed ==
    "wdone" \in st[1].ops \/ (st[1].wdone_sent /\ ~st[1].broken)

Down ==
    Len(snet[1].wire) +
        (IF \/ "write" \in cl[1].ops
            \/ "finish" \in cl[1].ops /\ cl[1].has_final_write THEN 1 ELSE 0)

StatusSent == "finish" \in cl[1].ops \/ snet[1].status

CallArrives == cnet[1].wire # "none" /\ S!PeerCall /\ UNCHANGED cvars

AskArrives == snet[1].sent < Up /\ S!PeerSend(1) /\ UNCHANGED cvars

HalfCloseArrives ==
    HalfClosed /\ snet[1].sent = Up /\ S!PeerHalfClose(1) /\ UNCHANGED cvars

CancelArrives == cnet[1].wire = "dead" /\ S!PeerGone(1) /\ UNCHANGED cvars

AnswerArrives == cnet[1].inbound < Down /\ C!PeerSend(1) /\ UNCHANGED svars

\* The status of the answer is OK ("ended") or not.
StatusArrives ==
    /\ StatusSent /\ cnet[1].inbound = Down
    /\ \E how \in {"ended", "dead"} : C!WireOver(1, how)
    /\ UNCHANGED svars

ResetArrives == snet[1].over /\ C!WireOver(1, "dead") /\ UNCHANGED svars

\* The connection is lost or the deadline passes, noticed by one side.
Fault ==
    \/ C!WireOver(1, "dead") /\ UNCHANGED svars
    \/ S!PeerGone(1) /\ UNCHANGED cvars

Transport ==
    \/ CallArrives \/ AskArrives \/ HalfCloseArrives \/ CancelArrives
    \/ AnswerArrives \/ StatusArrives \/ ResetArrives

Next ==
    \/ ClientR \/ ServerR
    \/ ClientCompletes \/ ServerCompletes
    \/ Transport \/ Fault

(***************************************************************************)
(* As long as a completion thread has a tag to handle, gRPC something to   *)
(* deliver (an end of the call included) or the client's R events to poll, *)
(* one of them goes on.  A Finish that waits for messages nobody reads any *)
(* more (Client!FinishBlocked) is no such tag.  Nothing is assumed of the  *)
(* server's R.                                                             *)
(***************************************************************************)
Progress ==
    \/ ClientCompletes \/ ServerCompletes \/ Transport
    \/ ClientPoll /\ UNCHANGED svars

Fairness == WF_vars(Progress)

Spec == Init /\ [][Next]_vars /\ Fairness

-----------------------------------------------------------------------------
(* Properties.                                                             *)

\* The answer as the client can still receive it.
Answered ==
    IF cl[1].dead THEN "lost" ELSE IF cl[1].replied THEN "given" ELSE "open"

\* The messages that go with it.
Promise ==
    IF Answered = "given"
    THEN Len(snet[1].wire) + Len(cl[1].write_queue)
         + (IF cl[1].has_final_write /\ ~snet[1].status THEN 1 ELSE 0)
    ELSE 0

\* What the client's R was told of the end.
Outcome ==
    IF ~chanded[1].over THEN "none"
    ELSE IF cnet[1].wire = "dead" THEN "failed"
    ELSE IF st[1].broken THEN "cut" ELSE "ok"

Contract == INSTANCE Rpc WITH
    asked <- cnet[1].accepted,
    heard <- shanded[1].msgs,
    said <- snet[1].accepted,
    got <- chanded[1].msgs,
    answer <- Answered,
    promise <- Promise,
    outcome <- Outcome

\* The two ends together keep the contract of Rpc: what either R is handed was
\* sent by the other, one answer, one outcome, and "ok" only of an answer the
\* server's R gave, with every message it promised (R/server.R:301-312,
\* R/client.R:281-286), whatever is lost, cancelled or in flight.
ContractKept == Contract!Spec

\* Backpressure never closes into a deadlock: once the server's R has answered,
\* a client that polls is told how the call ended, however full the queues; the
\* exception is Client!EndReported's, a failed send whose Finish was posted over
\* a paused read.
AnswerReported ==
    cl[1].replied ~> (chanded[1].over \/ (st[1].broken /\ C!FinishBlocked(1)))
=============================================================================
