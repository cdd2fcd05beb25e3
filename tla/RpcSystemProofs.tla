--------------------------- MODULE RpcSystemProofs ---------------------------
(***************************************************************************)
(* For every buffer size, batch size, window and amount of traffic: the    *)
(* two ends of an RPC implement the contract of Rpc.  What each end does   *)
(* is proved about each on its own, in ClientFlowProofs and ServerProofs;  *)
(* here the two are joined by what the network has carried between them.   *)
(***************************************************************************)
EXTENDS RpcSystem, TLAPS

CP == INSTANCE ClientFlowProofs WITH
        ReadCaps <- {read_cap}, WriteCaps <- {client_cap}, MaxCalls <- 1,
        MaxMsgs <- MaxDown + 1, MaxSends <- MaxUp,
        phase <- cphase, next_id <- cnext_id, ready <- cready, arrived <- carrived,
        net <- cnet, handed <- chanded

SP == INSTANCE ServerProofs WITH
        accept_window <- 1, max_active <- 1, write_cap <- server_cap, MaxCalls <- 1,
        MaxMsgs <- MaxUp, MaxSends <- MaxDown, MaxEvents <- MaxReads,
        phase <- sphase, next_id <- snext_id, ready <- sready, arrived <- sarrived,
        net <- snet, handed <- shanded

-----------------------------------------------------------------------------
(* The theorems about each end are about the same operators and actions as *)
(* the ones composed here.                                                 *)

LEMMA CardSame ==
    \A x : CP!Cardinality(x) = C!Cardinality(x) /\ SP!Cardinality(x) = S!Cardinality(x)
  BY DEF CP!Cardinality, C!Cardinality, SP!Cardinality, S!Cardinality

LEMMA ClientTags ==
    \A s, op : C!Post(s, op) = CP!Post(s, op) /\ C!Retire(s, op) = CP!Retire(s, op)
  BY DEF C!Post, CP!Post, C!Retire, CP!Retire

LEMMA ClientHelpers ==
    \A s : /\ C!s_post_read_locked(s) = CP!s_post_read_locked(s)
           /\ C!s_pump_writes_locked(s) = CP!s_pump_writes_locked(s)
           /\ C!s_try_finish_locked(s) = CP!s_try_finish_locked(s)
  BY ClientTags DEF C!s_post_read_locked, CP!s_post_read_locked, C!s_pump_writes_locked,
     CP!s_pump_writes_locked, C!s_try_finish_locked, CP!s_try_finish_locked,
     C!Shutting, CP!Shutting

LEMMA ClientCases ==
    \A s, ok : /\ C!AfterStart(s, ok) = CP!AfterStart(s, ok)
               /\ C!AfterRead(s, ok) = CP!AfterRead(s, ok)
               /\ C!AfterWrite(s, ok) = CP!AfterWrite(s, ok)
               /\ C!AfterWdone(s, ok) = CP!AfterWdone(s, ok)
  BY ClientHelpers DEF C!AfterStart, CP!AfterStart, C!AfterRead, CP!AfterRead,
     C!AfterWrite, CP!AfterWrite, C!AfterWdone, CP!AfterWdone

LEMMA ClientFrame ==
    \A i, s : C!StreamCase(i, s) => CP!StreamCase(i, s)
  BY DEF C!StreamCase, CP!StreamCase, C!LiveAfter, CP!LiveAfter

LEMMA ClientEvents ==
    /\ C!Quiet => CP!Quiet
    /\ \A k, i, v : C!Emit(k, i, v) => CP!Emit(k, i, v)
    /\ \A i : C!Status(i) = CP!Status(i)
  BY DEF C!Quiet, CP!Quiet, C!Emit, CP!Emit, C!Status, CP!Status

LEMMA ClientComplete == C!Complete(1) => CP!Complete(1)
<1>1. C!CompleteUnary(1) => CP!CompleteUnary(1)
  BY ClientEvents DEF C!CompleteUnary, CP!CompleteUnary
<1>2. ASSUME NEW ok \in BOOLEAN
      PROVE  /\ C!CompleteStart(1, ok) => CP!CompleteStart(1, ok)
             /\ C!CompleteWdone(1, ok) => CP!CompleteWdone(1, ok)
  BY ClientTags, ClientCases, ClientFrame, ClientEvents
     DEF C!CompleteStart, CP!CompleteStart, C!CompleteWdone, CP!CompleteWdone
<1>3. ASSUME NEW ok \in BOOLEAN
      PROVE  C!CompleteRead(1, ok) => CP!CompleteRead(1, ok)
  BY ClientTags, ClientCases, ClientFrame, ClientEvents DEF C!CompleteRead, CP!CompleteRead
<1>4. ASSUME NEW ok \in BOOLEAN
      PROVE  C!CompleteWrite(1, ok) => CP!CompleteWrite(1, ok)
  BY ClientTags, ClientCases, ClientFrame, ClientEvents DEF C!CompleteWrite, CP!CompleteWrite
<1>5. C!CompleteFinish(1) => CP!CompleteFinish(1)
  BY ClientTags, ClientFrame, ClientEvents DEF C!CompleteFinish, CP!CompleteFinish, C!FinishBlocked, CP!FinishBlocked
<1> QED
  BY <1>1, <1>2, <1>3, <1>4, <1>5 DEF C!Complete, CP!Complete

LEMMA ClientPolls ==
    ASSUME NEW maxn, C!Poll(All, maxn)
    PROVE  CP!Poll(All, maxn)
<1>1. C!Batch(cready, All, maxn) = CP!Batch(cready, All, maxn)
  BY CardSame DEF C!Batch, CP!Batch, C!Matches, CP!Matches, C!UpTo, CP!UpTo
<1>2. \A q, i : C!Cardinality(C!Msgs(q, i)) = CP!Cardinality(CP!Msgs(q, i))
  BY CardSame DEF C!Msgs, CP!Msgs
<1>3. \A s, n : C!Drained(s, n) = CP!Drained(s, n)
  BY ClientHelpers DEF C!Drained, CP!Drained
<1> QED
  BY <1>1, <1>2, <1>3 DEF C!Poll, CP!Poll, C!Ids, CP!Ids, C!Terminal, CP!Terminal

LEMMA ClientInit == C!Init => CP!Init
  BY DEF C!Init, CP!Init, C!Ids, CP!Ids, C!NewStream, CP!NewStream

\* Steps of the client's R and of its completion thread.
LEMMA ClientLocal ==
    ASSUME ClientR \/ ClientCompletes
    PROVE  CP!Local
<1>1. 1 \in CP!Ids
  BY DEF CP!Ids
<1>2. CASE C!StreamStart(read_cap, client_cap)
  <2>1. CP!StreamStart(read_cap, client_cap)
    BY <1>2, ClientTags DEF C!StreamStart, CP!StreamStart, C!NewStream, CP!NewStream
  <2> QED
    BY <2>1 DEF CP!Local
<1>3. CASE C!StreamSend(1)
  <2>1. CP!StreamSend(1)
    BY <1>3, ClientHelpers DEF C!StreamSend, CP!StreamSend, C!SendAccepted, CP!SendAccepted
  <2> QED
    BY <1>1, <2>1 DEF CP!Local
<1>4. CASE C!StreamWritesDone(1)
  <2>1. CP!StreamWritesDone(1)
    BY <1>4, ClientHelpers DEF C!StreamWritesDone, CP!StreamWritesDone
  <2> QED
    BY <1>1, <2>1 DEF CP!Local
<1>5. CASE C!CallCancel(1)
  <2>1. CP!CallCancel(1)
    BY <1>5 DEF C!CallCancel, CP!CallCancel, C!TryCancel, CP!TryCancel, C!Ids, CP!Ids,
        C!FinishBlocked, CP!FinishBlocked
  <2> QED
    BY <1>1, <2>1 DEF CP!Local
<1>6. CASE ClientPoll
  BY <1>6, ClientPolls DEF ClientPoll, CP!Local
<1>7. CASE C!Complete(1)
  BY <1>1, <1>7, ClientComplete DEF CP!Local
<1> QED
  BY <1>2, <1>3, <1>4, <1>5, <1>6, <1>7 DEF ClientR, ClientCompletes

LEMMA ServerTags ==
    /\ \A c, op : S!Post(c, op) = SP!Post(c, op) /\ S!Retire(c, op) = SP!Retire(c, op)
    /\ \A i, c : S!LiveAfter(i, c) = SP!LiveAfter(i, c)
    /\ \A slots, n : S!SlotsAfter(slots, n) = SP!SlotsAfter(slots, n)
    /\ S!NewCall = SP!NewCall /\ S!NewNet = SP!NewNet
  BY DEF S!Post, SP!Post, S!Retire, SP!Retire, S!LiveAfter, SP!LiveAfter,
     S!SlotsAfter, SP!SlotsAfter, S!Shutting, SP!Shutting, S!NewCall, SP!NewCall,
     S!NewNet, SP!NewNet

LEMMA ServerPump ==
    /\ \A c : S!pump_locked(c) = SP!pump_locked(c)
    /\ \A c, ok : S!AfterWrite(c, ok) = SP!AfterWrite(c, ok)
<1>1. \A c : S!pump_locked(c) = SP!pump_locked(c)
  BY ServerTags DEF S!pump_locked, SP!pump_locked, S!Shutting, SP!Shutting
<1> QED
  BY <1>1 DEF S!AfterWrite, SP!AfterWrite

LEMMA ServerEvents ==
    /\ S!Quiet => SP!Quiet
    /\ \A k, i, v : S!Emit(k, i, v) => SP!Emit(k, i, v)
    /\ \A c, ok : S!ReadOutcome(c, ok) = SP!ReadOutcome(c, ok)
    /\ \A c : S!Abandoned(c) <=> SP!Abandoned(c)
    /\ \A i : S!Over(i) <=> SP!Over(i)
    /\ \A i : S!Answerable(i) => SP!Answerable(i)
    /\ \A i : S!Known(i) => SP!Known(i)
  BY DEF S!Quiet, SP!Quiet, S!Emit, SP!Emit, S!ReadOutcome, SP!ReadOutcome,
     S!Abandoned, SP!Abandoned, S!Over, SP!Over, S!Answerable, SP!Answerable, S!Known, SP!Known

LEMMA ServerFrame ==
    \A i, c : S!CallCase(i, c) => SP!CallCase(i, c)
  BY ServerTags DEF S!CallCase, SP!CallCase

LEMMA ServerComplete == S!Complete(1) => SP!Complete(1)
<1>1. ASSUME NEW ok \in BOOLEAN PROVE S!CompleteRead(1, ok) => SP!CompleteRead(1, ok)
  BY ServerTags, ServerEvents, ServerFrame DEF S!CompleteRead, SP!CompleteRead
<1>2. ASSUME NEW ok \in BOOLEAN PROVE S!CompleteWrite(1, ok) => SP!CompleteWrite(1, ok)
  BY ServerTags, ServerPump, ServerEvents, ServerFrame DEF S!CompleteWrite, SP!CompleteWrite
<1>3. S!CompleteDone(1) => SP!CompleteDone(1)
  BY CardSame, ServerTags, ServerEvents, ServerFrame DEF S!CompleteDone, SP!CompleteDone
<1>4. ASSUME NEW ok \in BOOLEAN PROVE S!CompleteFinish(1, ok) => SP!CompleteFinish(1, ok)
  BY CardSame, ServerTags, ServerEvents, ServerFrame DEF S!CompleteFinish, SP!CompleteFinish
<1> QED
  BY <1>1, <1>2, <1>3, <1>4 DEF S!Complete, SP!Complete

LEMMA ServerPolls ==
    ASSUME NEW maxn, S!Poll(All, maxn)
    PROVE  SP!Poll(All, maxn)
<1>1. S!Batch(sready, All, maxn) = SP!Batch(sready, All, maxn)
  BY CardSame DEF S!Batch, SP!Batch, S!Matches, SP!Matches, S!UpTo, SP!UpTo
<1>2. \A q, i : S!Cardinality(S!Msgs(q, i)) = SP!Cardinality(SP!Msgs(q, i))
  BY CardSame DEF S!Msgs, SP!Msgs
<1> QED
  BY <1>1, <1>2 DEF S!Poll, SP!Poll, S!Ids, SP!Ids

LEMMA ServerInit == S!Init => SP!Init
  BY ServerTags DEF S!Init, SP!Init, S!Ids, SP!Ids

\* Steps of the server's R, of its completion thread, and of the connection.
LEMMA ServerLocal ==
    ASSUME ServerR \/ ServerCompletes \/ S!PeerCall \/ S!PeerHalfClose(1) \/ S!PeerGone(1)
    PROVE  SP!Local
<1>1. 1 \in SP!Ids
  BY DEF SP!Ids
<1>2. ASSUME NEW payload \in BOOLEAN, S!Reply(1, payload)
      PROVE  SP!Local
  <2>1. SP!Reply(1, payload)
    BY <1>2, ServerEvents, ServerPump DEF S!Reply, SP!Reply
  <2> QED
    BY <1>1, <2>1 DEF SP!Local
<1>3. ASSUME NEW drain \in BOOLEAN, S!Finish(1, drain)
      PROVE  SP!Local
  <2>1. SP!Finish(1, drain)
    BY <1>3, ServerEvents, ServerPump DEF S!Finish, SP!Finish, S!Discarded, SP!Discarded
  <2> QED
    BY <1>1, <2>1 DEF SP!Local
<1>4. CASE S!Read(1)
  <2>1. SP!Read(1)
    BY <1>4, ServerEvents, ServerTags DEF S!Read, SP!Read
  <2> QED
    BY <1>1, <2>1 DEF SP!Local
<1>5. CASE S!Send(1)
  <2>1. SP!Send(1)
    BY <1>5, ServerEvents, ServerPump DEF S!Send, SP!Send
  <2> QED
    BY <1>1, <2>1 DEF SP!Local
<1>6. CASE S!Cancel(1)
  <2>1. SP!Cancel(1)
    BY <1>6, ServerEvents DEF S!Cancel, SP!Cancel
  <2> QED
    BY <1>1, <2>1 DEF SP!Local
<1>7. CASE ServerPoll
  BY <1>7, ServerPolls DEF ServerPoll, SP!Local
<1>8. CASE S!AcceptOk
  <2>1. SP!AcceptOk
    BY <1>8, CardSame, ServerTags DEF S!AcceptOk, SP!AcceptOk, S!Shutting, SP!Shutting
  <2> QED
    BY <2>1 DEF SP!Local
<1>9. CASE S!Complete(1)
  BY <1>1, <1>9, ServerComplete DEF SP!Local
<1>10. CASE S!PeerCall \/ S!PeerHalfClose(1) \/ S!PeerGone(1)
  <2>1. SP!PeerCall \/ SP!PeerHalfClose(1) \/ SP!PeerGone(1)
    BY <1>10 DEF S!PeerCall, SP!PeerCall, S!PeerHalfClose, SP!PeerHalfClose,
       S!PeerGone, SP!PeerGone, S!pvars, SP!pvars
  <2> QED
    BY <1>1, <2>1 DEF SP!Local
<1> QED
  BY <1>2, <1>3, <1>4, <1>5, <1>6, <1>7, <1>8, <1>9, <1>10 DEF ServerR, ServerCompletes

\* What the network does to either end.
LEMMA PeerSteps ==
    /\ S!PeerSend(1) => SP!PeerSend(1)
    /\ C!PeerSend(1) => CP!PeerSend(1)
    /\ \A how : C!WireOver(1, how) => CP!WireOver(1, how)
  BY DEF S!PeerSend, SP!PeerSend, S!pvars, SP!pvars, C!PeerSend, CP!PeerSend,
     C!WireOver, CP!WireOver

-----------------------------------------------------------------------------
(* Each end keeps its invariant, whatever the other does.                  *)

ClientInv == CP!IInv /\ CP!FlowInv /\ CP!FateInv /\ CP!EdgeInv /\ cphase = "open"

ServerInv == SP!TagInv /\ SP!FreshInv /\ SP!Wires /\ SP!Outs /\ SP!Intakes

LEMMA One == 1 \in CP!Ids /\ 1 \in SP!Ids
  BY DEF CP!Ids, SP!Ids

\* The assumptions of the two modules, for the constants they have here.
LEMMA Constants ==
    /\ /\ {read_cap} \subseteq Nat
       /\ {client_cap} \subseteq Nat
       /\ PollSizes \subseteq Nat \ {0}
       /\ 1 \in Nat /\ MaxDown + 1 \in Nat /\ MaxUp \in Nat
       /\ All \notin Nat
    /\ /\ 1 \in Nat \ {0} /\ 1 \in Nat \ {0} /\ server_cap \in Nat
       /\ PollSizes \subseteq Nat \ {0}
       /\ 1 \in Nat /\ MaxUp \in Nat /\ MaxDown \in Nat /\ MaxReads \in Nat
       /\ All \notin Nat
  BY RpcAssumption DEF RpcAssumption

LEMMA ClientStep ==
    ASSUME ClientInv,
           \/ CP!Local \/ CP!PeerSend(1)
           \/ CP!WireOver(1, "ended") \/ CP!WireOver(1, "dead") \/ UNCHANGED cvars
    PROVE  ClientInv'
<1>1. [CP!Next]_(CP!vars)
  BY One DEF CP!Local, CP!Next, CP!vars, cvars
<1>2. CP!EdgeInv' /\ cphase' = cphase
  BY Constants, One, CP!EdgeNext DEF ClientInv, CP!vars, cvars
<1>3. CP!IInv' /\ CP!FlowInv' /\ CP!FateInv'
  BY <1>1, Constants, CP!NextLemma, CP!FlowNext, CP!FateNext DEF ClientInv
<1> QED
  BY <1>2, <1>3 DEF ClientInv

LEMMA ServerStep ==
    ASSUME ServerInv, SP!Local \/ SP!PeerSend(1) \/ UNCHANGED svars
    PROVE  [SP!Next]_(SP!vars) /\ ServerInv'
<1>1. [SP!Next]_(SP!vars)
  BY One DEF SP!Local, SP!Next, SP!vars, svars
<1>2. SP!TagInv' /\ SP!FreshInv' /\ SP!Wires'
  BY <1>1, Constants, SP!TagNext, SP!FreshNext, SP!WireNext DEF ServerInv
<1>3. SP!Outs'
  BY <1>1, Constants, SP!OutNext DEF ServerInv, SP!OutStep, SP!Outs
<1>4. SP!Intakes'
  BY <1>1, Constants, SP!IntakeNext DEF ServerInv
<1> QED
  BY <1>1, <1>2, <1>3, <1>4 DEF ServerInv

LEMMA EndsInit ==
    ASSUME Init
    PROVE  ClientInv /\ ServerInv
<1>1. CP!Init /\ SP!Init /\ cphase = "open"
  BY ClientInit, ServerInit DEF Init, C!Init
<1>2. CP!IInv /\ CP!FlowInv /\ CP!FateInv /\ CP!EdgeInv
  BY <1>1, Constants, CP!InitLemma, CP!FlowInit, CP!FateInit, CP!EdgeInit
<1>3. SP!TagInv /\ SP!FreshInv /\ SP!Wires /\ SP!Outs /\ SP!Intakes
  BY <1>1, Constants, SP!TagInit, SP!WireInit, SP!OutInit, SP!IntakeInit
<1> QED
  BY <1>1, <1>2, <1>3 DEF ClientInv, ServerInv

-----------------------------------------------------------------------------
(* What joins the ends: a message that has arrived was handed over on the  *)
(* other side, and the status comes with everything promised.              *)

Reached == SP!Reached(cl[1], snet[1])

Promised == SP!Promised(cl[1], snet[1])

Joint ==
    /\ snet[1].sent <= cnet[1].accepted
    /\ ~cl[1].dead => cnet[1].inbound <= Reached
    /\ cl[1].dead => cnet[1].inbound <= snet[1].accepted
    /\ cnet[1].wire = "ended" => cl[1].finish_posted /\ cnet[1].inbound = Promised

RpcInv == ClientInv /\ ServerInv /\ Joint

\* The client's end, in numbers.
ClientNumbers ==
    /\ cnet[1].accepted \in Nat /\ cnet[1].inbound \in Nat /\ chanded[1].msgs \in Nat
    /\ chanded[1].msgs <= cnet[1].inbound
    /\ Up \in Nat /\ Up <= cnet[1].accepted
    /\ chanded[1].over => cnet[1].wire \in {"ended", "dead"}

LEMMA ClientFacts == ClientInv => ClientNumbers
<1> SUFFICES ASSUME ClientInv PROVE ClientNumbers
  OBVIOUS
<1>1. CP!Edge(1) /\ CP!EdgeTypes(1)
  BY Constants, One, CP!EdgeTyped DEF ClientInv, CP!EdgeInv
<1>2. /\ cnet[1].accepted \in Nat /\ cnet[1].inbound \in Nat /\ chanded[1].msgs \in Nat
      /\ cnet[1].written \in Nat /\ cnet[1].taken \in Nat
  BY <1>1 DEF CP!EdgeTypes
<1>3. Up <= cnet[1].accepted
  BY <1>1, Constants, One, CP!WriteAhead DEF ClientInv, Up
<1>4. chanded[1].msgs <= cnet[1].inbound
  <2> DEFINE q == CP!Cardinality(CP!Msgs(cready, 1))
  <2>1. q \in Nat /\ chanded[1].msgs + q <= cnet[1].taken /\ cnet[1].taken <= cnet[1].inbound
    BY <1>1 DEF CP!Edge, CP!EdgeTypes
  <2> HIDE DEF q
  <2> QED
    BY <1>2, <2>1
<1>5. chanded[1].over => cnet[1].wire \in {"ended", "dead"}
  BY <1>1 DEF CP!Edge
<1>6. Up \in Nat
  BY <1>2 DEF Up
<1> QED
  BY <1>2, <1>3, <1>4, <1>5, <1>6 DEF ClientNumbers

\* The server's end, in numbers.
ServerNumbers ==
    /\ snet[1].accepted \in Nat /\ snet[1].sent \in Nat /\ shanded[1].msgs \in Nat
    /\ shanded[1].msgs <= snet[1].sent
    /\ Reached \in Nat /\ Promised \in Nat /\ Down \in Nat /\ Down <= Reached
    /\ StatusSent => cl[1].finish_posted /\ Down = Promised
    /\ cl[1].finish_posted => ~cl[1].dead /\ cl[1].replied
    /\ ~cl[1].finish_posted => Reached <= snet[1].accepted
    /\ ~cl[1].dead => Reached <= Promised /\ Promised <= snet[1].accepted + 1

LEMMA ServerFacts == ServerInv => ServerNumbers
<1> SUFFICES ASSUME ServerInv PROVE ServerNumbers
  OBVIOUS
<1>1. SP!TagInv /\ SP!Wires /\ SP!Outs /\ SP!Intake(1)
  BY One DEF ServerInv, SP!Intakes
<1>2. /\ Reached \in Nat /\ Promised \in Nat /\ snet[1].accepted \in Nat
      /\ cl[1].finish_posted => ~cl[1].dead /\ cl[1].replied
      /\ ~cl[1].finish_posted => Reached <= snet[1].accepted
      /\ ~cl[1].dead => Reached <= Promised /\ Promised <= snet[1].accepted + 1
      /\ "finish" \in cl[1].ops \/ snet[1].status => cl[1].finish_posted
  BY <1>1, Constants, One, SP!OutFacts DEF Reached, Promised
<1>3. Down = SP!OnWire(cl[1], snet[1])
  BY DEF Down, SP!OnWire
<1>4. /\ Down \in Nat /\ Down <= Reached
      /\ "finish" \in cl[1].ops \/ snet[1].status => Down = Promised
  BY <1>1, <1>3, Constants, One, SP!WrittenFacts DEF Reached, Promised
<1>5. /\ snet[1].sent \in Nat /\ shanded[1].msgs \in Nat /\ shanded[1].msgs <= snet[1].sent
  BY <1>1, Constants, One, SP!IntakeFacts
<1> QED
  BY <1>2, <1>4, <1>5 DEF StatusSent, ServerNumbers

-----------------------------------------------------------------------------
(* A step of either end is a step of the contract, or none.                *)

AnswerForms ==
    /\ Answered = "lost" <=> cl[1].dead
    /\ Answered = "given" <=> ~cl[1].dead /\ cl[1].replied
    /\ Answered = "open" <=> ~cl[1].dead /\ ~cl[1].replied
    /\ Promise = IF Answered = "given" THEN Promised ELSE 0

LEMMA AnswerStates == AnswerForms
  BY DEF AnswerForms, Answered, Promise, Promised, SP!Promised, SP!Final

LEMMA OutcomeStates ==
    /\ Outcome = "none" <=> ~chanded[1].over
    /\ Outcome = "failed" <=> chanded[1].over /\ cnet[1].wire = "dead"
    /\ Outcome = "cut" <=> chanded[1].over /\ cnet[1].wire # "dead" /\ st[1].broken
    /\ Outcome = "ok" <=> chanded[1].over /\ cnet[1].wire # "dead" /\ ~st[1].broken
    /\ Outcome \in {"none", "failed", "cut", "ok"}
  BY DEF Outcome

\* What the client's R can have been handed, as the contract bounds it.
LEMMA InboundSayable ==
    ASSUME RpcInv
    PROVE  Contract!Sayable \in Nat /\ cnet[1].inbound <= Contract!Sayable
<1>1. ClientInv /\ ServerInv /\ Joint
  BY DEF RpcInv
<1>2. /\ cnet[1].inbound \in Nat /\ Reached \in Nat /\ Promised \in Nat
      /\ snet[1].accepted \in Nat
      /\ cl[1].finish_posted => cl[1].replied
      /\ ~cl[1].finish_posted => Reached <= snet[1].accepted
      /\ ~cl[1].dead => Reached <= Promised
  BY <1>1, ClientFacts, ServerFacts DEF ClientNumbers, ServerNumbers
<1>3. /\ ~cl[1].dead => cnet[1].inbound <= Reached
      /\ cl[1].dead => cnet[1].inbound <= snet[1].accepted
  BY <1>1 DEF Joint
<1>4. Contract!Sayable = IF ~cl[1].dead /\ cl[1].replied THEN Promised ELSE snet[1].accepted
  BY AnswerStates DEF Contract!Sayable, AnswerForms
<1> QED
  BY <1>2, <1>3, <1>4

LEMMA ClientMoves ==
    ASSUME RpcInv, ClientInv', CP!Port(1), UNCHANGED svars
    PROVE  [Contract!Next]_(Contract!vars)
<1>1. /\ snet'[1].accepted = snet[1].accepted /\ shanded'[1].msgs = shanded[1].msgs
      /\ Answered' = Answered /\ Promise' = Promise
  BY DEF svars, Answered, Promise
<1>2. CASE cnet'[1].accepted # cnet[1].accepted
  <2>1. /\ cnet'[1].accepted = cnet[1].accepted + 1
        /\ ~chanded[1].over /\ chanded'[1] = chanded[1]
    BY <1>2 DEF CP!Port
  <2>2. Outcome = "none" /\ Outcome' = "none"
    BY <2>1 DEF Outcome
  <2>3. Contract!Ask
    BY <1>1, <2>1, <2>2 DEF Contract!Ask
  <2> QED
    BY <2>3 DEF Contract!Next
<1>3. CASE chanded'[1] # chanded[1]
  <2>1. /\ ~chanded[1].over /\ cnet' = cnet /\ st'[1].broken = st[1].broken
        /\ chanded'[1].msgs \in Nat /\ chanded'[1].msgs >= chanded[1].msgs
        /\ chanded'[1].over /\ cnet[1].wire = "ended" /\ ~st[1].broken =>
             chanded'[1].msgs = cnet[1].inbound
    BY <1>3 DEF CP!Port
  <2>2. /\ chanded'[1].msgs <= cnet'[1].inbound
        /\ chanded'[1].over => cnet'[1].wire \in {"ended", "dead"}
    <3>1. ClientNumbers'
      BY ClientFacts, PTL
    <3> QED
      BY <3>1 DEF ClientNumbers
  <2>3. chanded'[1].msgs <= Contract!Sayable
    BY <2>1, <2>2, InboundSayable, ClientFacts DEF RpcInv, ClientNumbers
  <2>4. cnet[1].wire = "ended" => Answered = "given" /\ cnet[1].inbound = Promise
    BY AnswerStates, ServerFacts DEF RpcInv, Joint, ServerNumbers, AnswerForms
  <2>5. CASE ~chanded'[1].over
    <3>1. Outcome = "none" /\ Outcome' = "none"
      BY <2>1, <2>5 DEF Outcome
    <3>2. Contract!Deliver
      BY <1>1, <2>1, <2>3, <3>1, InboundSayable, ClientFacts
         DEF RpcInv, Contract!Deliver, ClientNumbers
    <3> QED
      BY <3>2 DEF Contract!Next
  <2>6. CASE chanded'[1].over
    <3>1. /\ Outcome = "none"
          /\ cnet[1].wire = "dead" => Outcome' = "failed"
          /\ cnet[1].wire # "dead" => Outcome' = IF st[1].broken THEN "cut" ELSE "ok"
      BY <2>1, <2>6 DEF Outcome
    <3>2. chanded'[1].msgs \in chanded[1].msgs .. Contract!Sayable
      BY <2>1, <2>3, InboundSayable, ClientFacts DEF RpcInv, ClientNumbers
    <3>3. CASE cnet[1].wire = "dead"
      BY <1>1, <2>1, <3>1, <3>2, <3>3 DEF Contract!Next, Contract!Deliver
    <3>4. CASE cnet[1].wire = "ended" /\ st[1].broken
      BY <1>1, <2>1, <2>4, <3>1, <3>2, <3>4 DEF Contract!Next, Contract!Deliver
    <3>5. CASE cnet[1].wire = "ended" /\ ~st[1].broken
      BY <1>1, <2>1, <2>4, <2>6, <3>1, <3>2, <3>5 DEF Contract!Next, Contract!Deliver
    <3> QED
      BY <2>1, <2>2, <2>6, <3>3, <3>4, <3>5
  <2> QED
    BY <2>5, <2>6
<1>4. CASE cnet'[1].accepted = cnet[1].accepted /\ chanded'[1] = chanded[1]
  <2>1. Outcome' = Outcome
    BY <1>4 DEF Outcome, CP!Port
  <2> QED
    BY <1>1, <1>4, <2>1 DEF Contract!vars
<1> QED
  BY <1>2, <1>3, <1>4

LEMMA ServerMoves ==
    ASSUME RpcInv, ServerInv', Joint', SP!Outlet(cl[1], snet[1], cl'[1], snet'[1]),
           \/ shanded' = shanded
           \/ /\ snet' = snet /\ cl' = cl
              /\ shanded'[1].msgs \in Nat /\ shanded'[1].msgs >= shanded[1].msgs,
           UNCHANGED cvars
    PROVE  [Contract!Next]_(Contract!vars)
<1>1. /\ cnet' = cnet /\ chanded' = chanded /\ Outcome' = Outcome
  BY DEF cvars, Outcome
<1>2. ServerNumbers' /\ AnswerForms'
  BY ServerFacts, AnswerStates, PTL
<1>3. /\ snet'[1].sent <= cnet'[1].accepted /\ snet'[1].sent \in Nat
      /\ shanded'[1].msgs \in Nat /\ shanded'[1].msgs <= snet'[1].sent
      /\ cnet[1].accepted \in Nat /\ shanded[1].msgs \in Nat
  BY <1>2, ClientFacts, ServerFacts DEF RpcInv, Joint, ClientNumbers, ServerNumbers
<1>4. CASE snet' = snet /\ cl' = cl
  <2>1. snet'[1].accepted = snet[1].accepted /\ Answered' = Answered /\ Promise' = Promise
    BY <1>4 DEF Answered, Promise
  <2>2. CASE shanded'[1].msgs = shanded[1].msgs
    BY <1>1, <2>1, <2>2 DEF Contract!vars
  <2>3. CASE shanded'[1].msgs # shanded[1].msgs
    <3>1. shanded'[1].msgs >= shanded[1].msgs
      BY <2>3
    <3>2. shanded'[1].msgs \in (shanded[1].msgs + 1)..cnet[1].accepted
      BY <1>1, <1>3, <2>3, <3>1
    <3>3. Contract!Hear
      BY <1>1, <2>1, <3>2 DEF Contract!Hear
    <3> QED
      BY <3>3 DEF Contract!Next
  <2> QED
    BY <2>2, <2>3
<1>5. CASE shanded' = shanded
  <2>1. /\ Answered' = "lost" <=> cl'[1].dead
        /\ Answered' = "given" <=> ~cl'[1].dead /\ cl'[1].replied
        /\ Answered' = "open" <=> ~cl'[1].dead /\ ~cl'[1].replied
        /\ Promise' = IF Answered' = "given" THEN Promised' ELSE 0
    BY <1>2 DEF AnswerForms
  <2>2. /\ (cl[1].dead => cl'[1].dead) /\ (cl[1].replied => cl'[1].replied)
        /\ cl[1].replied /\ ~cl'[1].dead => Promised' = Promised
        /\ cl'[1].replied /\ ~cl[1].replied =>
             ~cl[1].dead /\ ~cl'[1].dead /\ snet'[1].accepted = snet[1].accepted
        /\ snet'[1].accepted # snet[1].accepted =>
             /\ snet'[1].accepted = snet[1].accepted + 1
             /\ ~cl[1].dead /\ ~cl'[1].dead /\ ~cl[1].replied /\ ~cl'[1].replied
    BY DEF SP!Outlet, Promised
  <2>3. CASE snet'[1].accepted # snet[1].accepted
    <3>1. Contract!Say
      BY <1>1, <1>5, <2>1, <2>2, <2>3, AnswerStates DEF Contract!Say, AnswerForms
    <3> QED
      BY <3>1 DEF Contract!Next
  <2>4. CASE cl'[1].dead /\ ~cl[1].dead
    <3>1. cnet[1].wire # "ended"
      <4>1. cl'[1].finish_posted => ~cl'[1].dead
        BY <1>2 DEF ServerNumbers
      <4> QED
        BY <1>1, <2>4, <4>1 DEF Joint
    <3>2. Outcome # "ok"
      BY <3>1, OutcomeStates, ClientFacts DEF RpcInv, ClientNumbers
    <3>3. Contract!Lose
      BY <1>1, <1>5, <2>1, <2>2, <2>4, <3>2, AnswerStates DEF Contract!Lose, AnswerForms
    <3> QED
      BY <3>3 DEF Contract!Next
  <2>5. CASE cl'[1].replied /\ ~cl[1].replied
    <3>1. /\ ~cl[1].dead /\ ~cl'[1].dead /\ snet'[1].accepted = snet[1].accepted
      BY <2>2, <2>5
    <3>2. /\ Reached' \in Nat /\ Promised' \in Nat /\ snet'[1].accepted \in Nat
          /\ ~cl'[1].dead => Reached' <= Promised' /\ Promised' <= snet'[1].accepted + 1
      BY <1>2 DEF ServerNumbers
    <3>3. cnet[1].inbound <= Reached'
      BY <1>1, <3>1 DEF Joint
    <3>4. Promised' \in chanded[1].msgs .. (snet[1].accepted + 1)
      BY <3>1, <3>2, <3>3, ClientFacts DEF RpcInv, ClientNumbers
    <3>5. Contract!Answer
      BY <1>1, <1>5, <2>1, <2>5, <3>1, <3>4, AnswerStates DEF Contract!Answer, AnswerForms
    <3> QED
      BY <3>5 DEF Contract!Next
  <2>6. CASE /\ snet'[1].accepted = snet[1].accepted
             /\ cl'[1].dead <=> cl[1].dead
             /\ cl'[1].replied <=> cl[1].replied
    <3>1. Answered' = Answered /\ Promise' = Promise
      BY <2>1, <2>2, <2>6, AnswerStates DEF AnswerForms
    <3> QED
      BY <1>1, <1>5, <2>6, <3>1 DEF Contract!vars
  <2> QED
    BY <2>2, <2>3, <2>4, <2>5, <2>6
<1> QED
  BY <1>4, <1>5

-----------------------------------------------------------------------------
(* The steps of the system.                                                *)

\* The client's own steps: nothing arrives.
LEMMA ClientKeeps ==
    ASSUME RpcInv, CP!Local, UNCHANGED svars
    PROVE  RpcInv' /\ [Contract!Next]_(Contract!vars)
<1>1. ClientInv' /\ ServerInv'
  BY ClientStep, ServerStep DEF RpcInv
<1>2. CP!Port(1) /\ CP!Still(1)
  BY Constants, One, CP!EdgeLocal DEF RpcInv, ClientInv
<1>3. /\ cnet[1].accepted \in Nat /\ snet[1].sent \in Nat
      /\ cnet'[1].accepted \in {cnet[1].accepted, cnet[1].accepted + 1}
      /\ cnet'[1].inbound = cnet[1].inbound
      /\ cnet'[1].wire = "ended" => cnet[1].wire = "ended"
  BY <1>2, ClientFacts, ServerFacts
     DEF RpcInv, ClientNumbers, ServerNumbers, CP!Port, CP!Still
<1>4. cl' = cl /\ snet' = snet /\ Reached' = Reached /\ Promised' = Promised
  BY DEF svars, Reached, Promised
<1>5. Joint'
  <2>1. snet'[1].sent <= cnet'[1].accepted
    BY <1>3, <1>4 DEF RpcInv, Joint
  <2> QED
    BY <1>3, <1>4, <2>1 DEF RpcInv, Joint
<1> QED
  BY <1>1, <1>2, <1>5, ClientMoves DEF RpcInv

\* What arrives at the client was on its way, and the status comes last.
LEMMA ArrivalKeeps ==
    ASSUME RpcInv, UNCHANGED svars,
           \/ cnet[1].inbound < Down /\ CP!PeerSend(1)
           \/ StatusSent /\ cnet[1].inbound = Down /\ CP!WireOver(1, "ended")
           \/ CP!WireOver(1, "dead")
    PROVE  RpcInv' /\ [Contract!Next]_(Contract!vars)
<1>1. ClientInv' /\ ServerInv'
  BY ClientStep, ServerStep DEF RpcInv
<1>2. CP!Port(1)
  BY Constants, One, CP!EdgePeer DEF RpcInv, ClientInv
<1>3. /\ CP!PeerSend(1) => /\ cnet'[1].inbound = cnet[1].inbound + 1
                           /\ cnet'[1].wire = "open" /\ cnet'[1].accepted = cnet[1].accepted
      /\ \A how : CP!WireOver(1, how) => /\ cnet'[1].inbound = cnet[1].inbound
                                         /\ cnet'[1].accepted = cnet[1].accepted
                                         /\ cnet'[1].wire = how
  BY Constants, One, CP!PeerStep DEF RpcInv, ClientInv
<1>4. cl' = cl /\ snet' = snet /\ Reached' = Reached /\ Promised' = Promised
  BY DEF svars, Reached, Promised
<1>5. ServerNumbers /\ ClientNumbers
  BY ClientFacts, ServerFacts DEF RpcInv
<1>6. Joint'
  <2>1. CASE cnet[1].inbound < Down /\ CP!PeerSend(1)
    <3>1. cnet'[1].inbound <= Reached
      BY <1>3, <1>5, <2>1 DEF ServerNumbers, ClientNumbers
    <3>2. cl[1].dead => cnet'[1].inbound <= snet[1].accepted
      BY <1>3, <1>5, <2>1, <3>1 DEF ServerNumbers, ClientNumbers
    <3> QED
      BY <1>3, <1>4, <2>1, <3>1, <3>2 DEF RpcInv, Joint
  <2>2. CASE StatusSent /\ cnet[1].inbound = Down /\ CP!WireOver(1, "ended")
    <3>1. cl[1].finish_posted /\ cnet'[1].inbound = Promised
      BY <1>3, <1>5, <2>2 DEF ServerNumbers
    <3> QED
      BY <1>3, <1>4, <2>2, <3>1 DEF RpcInv, Joint
  <2>3. CASE CP!WireOver(1, "dead")
    BY <1>3, <1>4, <2>3 DEF RpcInv, Joint
  <2> QED
    BY <2>1, <2>2, <2>3
<1> QED
  BY <1>1, <1>2, <1>6, ClientMoves DEF RpcInv

\* The server's steps, and what arrives at the server.
LEMMA ServerKeeps ==
    ASSUME RpcInv, UNCHANGED cvars,
           SP!Local \/ (snet[1].sent < Up /\ SP!PeerSend(1))
    PROVE  RpcInv' /\ [Contract!Next]_(Contract!vars)
<1>1. ClientInv' /\ ServerInv' /\ [SP!Next]_(SP!vars)
  BY ClientStep, ServerStep DEF RpcInv
<1>2. SP!Intake(1)
  BY One DEF RpcInv, ServerInv, SP!Intakes
<1>3. SP!Outlet(cl[1], snet[1], cl'[1], snet'[1])
  BY <1>1, Constants, One, SP!OutNext DEF RpcInv, ServerInv, SP!OutStep
<1>4. \/ shanded' = shanded
      \/ /\ snet' = snet /\ cl' = cl
         /\ shanded'[1].msgs \in Nat /\ shanded'[1].msgs >= shanded[1].msgs
  BY <1>1, <1>2, Constants, One, SP!HandedStep DEF RpcInv, ServerInv
<1>5. cnet' = cnet
  BY DEF cvars
<1>6. /\ ServerNumbers /\ ClientNumbers /\ ServerNumbers'
  BY <1>1, ClientFacts, ServerFacts, PTL DEF RpcInv
<1>7. snet'[1].sent <= cnet[1].accepted
  <2>1. CASE SP!Local
    BY <1>2, <2>1, Constants, One, SP!IntakeLocal DEF RpcInv, ServerInv, Joint
  <2>2. CASE snet[1].sent < Up /\ SP!PeerSend(1)
    <3>1. snet'[1].sent = snet[1].sent + 1
      BY <2>2, Constants, One, SP!SentStep DEF RpcInv, ServerInv
    <3> QED
      BY <1>6, <2>2, <3>1 DEF ServerNumbers, ClientNumbers
  <2> QED
    BY <2>1, <2>2
<1>8. /\ (cl[1].dead => cl'[1].dead) /\ (cl[1].replied => cl'[1].replied)
      /\ cl[1].finish_posted => cl'[1].finish_posted
      /\ ~cl'[1].dead => Reached <= Reached'
      /\ cl[1].replied /\ ~cl'[1].dead => Promised' = Promised
      /\ snet'[1].accepted \in {snet[1].accepted, snet[1].accepted + 1}
  BY <1>3 DEF SP!Outlet, Reached, Promised
<1>9. Joint'
  <2>1. ~cl'[1].dead => cnet[1].inbound <= Reached'
    BY <1>6, <1>8 DEF RpcInv, Joint, ServerNumbers, ClientNumbers
  <2>2. cl'[1].dead => cnet[1].inbound <= snet'[1].accepted
    BY <1>6, <1>8 DEF RpcInv, Joint, ServerNumbers, ClientNumbers
  <2>3. cnet[1].wire = "ended" => cl'[1].finish_posted /\ cnet[1].inbound = Promised'
    BY <1>6, <1>8 DEF RpcInv, Joint, ServerNumbers
  <2> QED
    BY <1>5, <1>7, <2>1, <2>2, <2>3 DEF Joint
<1> QED
  BY <1>1, <1>3, <1>4, <1>9, ServerMoves DEF RpcInv

LEMMA RpcNext == RpcInv /\ [Next]_vars => RpcInv' /\ [Contract!Next]_(Contract!vars)
<1> SUFFICES ASSUME RpcInv, [Next]_vars
             PROVE  RpcInv' /\ [Contract!Next]_(Contract!vars)
  OBVIOUS
<1>1. CASE ClientR \/ ClientCompletes
  BY <1>1, ClientLocal, ClientKeeps DEF ClientR, ClientCompletes
<1>2. CASE ServerR \/ ServerCompletes
  BY <1>2, ServerLocal, ServerKeeps DEF ServerR, ServerCompletes
<1>3. CASE CallArrives \/ HalfCloseArrives \/ CancelArrives
  BY <1>3, ServerLocal, ServerKeeps DEF CallArrives, HalfCloseArrives, CancelArrives
<1>4. CASE AskArrives
  BY <1>4, PeerSteps, ServerKeeps DEF AskArrives
<1>5. CASE AnswerArrives \/ StatusArrives \/ ResetArrives
  BY <1>5, PeerSteps, ArrivalKeeps DEF AnswerArrives, StatusArrives, ResetArrives
<1>6. CASE Fault
  BY <1>6, PeerSteps, ServerLocal, ArrivalKeeps, ServerKeeps DEF Fault
<1>7. CASE UNCHANGED vars
  <2>1. UNCHANGED cvars /\ UNCHANGED svars
    BY <1>7 DEF vars
  <2>2. ClientInv' /\ ServerInv'
    BY <2>1, ClientStep, ServerStep DEF RpcInv
  <2>3. Joint'
    BY <2>1 DEF RpcInv, Joint, Reached, Promised, cvars, svars
  <2>4. UNCHANGED Contract!vars
    BY <2>1 DEF Contract!vars, Answered, Promise, Outcome, cvars, svars
  <2> QED
    BY <2>2, <2>3, <2>4 DEF RpcInv
<1> QED
  BY <1>1, <1>2, <1>3, <1>4, <1>5, <1>6, <1>7 DEF Next, Transport

LEMMA RpcInit == Init => RpcInv /\ Contract!Init
<1> SUFFICES ASSUME Init PROVE RpcInv /\ Contract!Init
  OBVIOUS
<1>1. ClientInv /\ ServerInv
  BY EndsInit
<1>2. /\ cnet[1] = [wire |-> "none", inbound |-> 0, taken |-> 0, accepted |-> 0, written |-> 0]
      /\ chanded[1] = [msgs |-> 0, over |-> FALSE]
  BY One, ClientInit DEF Init, CP!Init
<1>3. /\ snet[1].sent = 0 /\ snet[1].accepted = 0 /\ shanded[1].msgs = 0
      /\ ~cl[1].dead /\ ~cl[1].replied
  BY One, ServerInit DEF Init, SP!Init, SP!NewCall, SP!NewNet
<1>4. Reached \in Nat
  BY <1>1, ServerFacts DEF ServerNumbers
<1>5. Joint
  BY <1>2, <1>3, <1>4 DEF Joint
<1>6. Answered = "open" /\ Promise = 0 /\ Outcome = "none"
  BY <1>2, <1>3 DEF Answered, Promise, Outcome
<1>7. Contract!Init
  BY <1>2, <1>3, <1>6 DEF Contract!Init
<1> QED
  BY <1>1, <1>5, <1>7 DEF RpcInv

\* The two ends together implement the contract of Rpc, whatever the sizes of
\* the buffers and the network's window: either R is handed only what the other
\* sent; the server's R answers once (server.cpp:417, 511); and the client's R is
\* told "ok" only of an answer given on a call that did not die, with every
\* message promised in hand, whatever is lost or cancelled.
THEOREM ContractTheorem == Spec => ContractKept
<1>1. Init => RpcInv /\ Contract!Init
  BY RpcInit
<1>2. RpcInv /\ [Next]_vars => RpcInv' /\ [Contract!Next]_(Contract!vars)
  BY RpcNext
<1> QED
  BY <1>1, <1>2, PTL DEF Spec, ContractKept, Contract!Spec
=============================================================================
