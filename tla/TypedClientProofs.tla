-------------------------- MODULE TypedClientProofs --------------------------
(***************************************************************************)
(* The table of src/R/client.R over the client, for every number of calls, *)
(* batch size and choice of what fails to decode.  Every step of the R     *)
(* layer is a step of Client, so Client's invariants hold here; the one    *)
(* that matters is that a call has exactly one fate.                       *)
(***************************************************************************)
EXTENDS TypedClient, ClientFlowProofs

\* While the client is open: entries are for calls that were started; a typed
\* call has its entry until its terminal event is handed over, and keeps it if
\* the batch that had the event failed to decode before it got there.
TableInv ==
    phase = "open" =>
        /\ typed \subseteq {i \in Ids : i < next_id}
        /\ \A i \in typed : i \in types <=> ~handed[i].over \/ i \in spoiled
        /\ \A i \in spoiled : i \in Ids /\ handed[i].over

\* The invariant of the client, as proved for its own specification.
ClientInv == IInv /\ FlowInv /\ FateInv

TypedInv == ClientInv /\ TableInv /\ SendsWellTyped

\* The R layer adds no step to the client's.
LEMMA TypedStepLemma == [TypedNext]_tvars => [Next]_vars
<1> SUFFICES ASSUME [TypedNext]_tvars PROVE [Next]_vars
  OBVIOUS
<1>1. CASE \E t \in BOOLEAN : TypedCall(t)
  BY <1>1 DEF TypedCall, Next
<1>2. CASE \E rc \in ReadCaps, wc \in WriteCaps, t \in BOOLEAN : TypedStream(rc, wc, t)
  BY <1>2 DEF TypedStream, Next
<1>3. CASE \E i \in Ids, fits \in BOOLEAN : TypedSend(i, fits)
  BY <1>3 DEF TypedSend, Next
<1>4. CASE \E want \in Ids \cup {All}, maxn \in PollSizes : TypedPoll(want, maxn)
  BY <1>4 DEF TypedPoll, Next
<1>5. CASE Untyped
  BY <1>5 DEF Untyped, Next
<1>6. CASE UNCHANGED tvars
  BY <1>6 DEF tvars
<1> QED
  BY <1>1, <1>2, <1>3, <1>4, <1>5, <1>6 DEF TypedNext

LEMMA ClientStepLemma == ClientInv /\ [TypedNext]_tvars => ClientInv'
<1>1. IInv /\ FlowInv /\ FateInv /\ [Next]_vars => IInv' /\ FlowInv' /\ FateInv'
  BY NextLemma, FlowNext, FateNext
<1> QED
  BY <1>1, TypedStepLemma DEF ClientInv

\* A call that can still bring an event is one whose last R has not had.
LEMMA OutstandingLemma ==
    ASSUME ClientInv, phase = "open", NEW i \in Ids, i < next_id
    PROVE  Outstanding(i) <=> ~handed[i].over
<1>1. Fate(i) /\ handed[i].over \in BOOLEAN
  BY FlowTypes DEF ClientInv, FateInv
<1>2. EventsOf(i) = {} <=> ~\E e \in ready : e.id = i
  BY DEF EventsOf
<1>3. \A e : EndOf(i) = {e} => e.id = i
  BY DEF EndOf
<1> QED
  BY <1>1, <1>2, <1>3 DEF Fate, Outstanding

\* A call that starts: its id is new, and its entry is there if it is typed.
LEMMA RememberLemma ==
    ASSUME ClientInv, TableInv, NEW istyped \in BOOLEAN, Remember(istyped),
           CallStart \/ \E rc \in ReadCaps, wc \in WriteCaps : StreamStart(rc, wc)
    PROVE  TableInv'
<1>0. PICK i : i = next_id
  OBVIOUS
<1>1. i \in Ids /\ phase = "open" /\ next_id' = i + 1 /\ UNCHANGED <<phase, handed>>
  BY <1>0, ClientAssumption
  DEF CallStart, StreamStart, ClientInv, IInv, TypeOK, Ids, ClientAssumption
<1>2. Unused(i) /\ Ids \subseteq Nat /\ i \in Nat
  BY <1>0, <1>1, FlowTypes DEF ClientInv, FlowInv
<1>3. \A j \in Ids : j < next_id => j < next_id' /\ j # i
  BY <1>0, <1>1, <1>2
<1>4. i < next_id'
  BY <1>1, <1>2
<1>5. CASE istyped
  BY <1>0, <1>1, <1>2, <1>3, <1>4, <1>5 DEF Remember, TableInv, Unused
<1>6. CASE ~istyped
  BY <1>1, <1>3, <1>6 DEF Remember, TableInv
<1> QED
  BY <1>5, <1>6

\* decorate_events drops the entry of a call at its one terminal event, or
\* stops before it and leaves the call spoiled.
LEMMA TablePoll ==
    ASSUME ClientInv, TableInv, NEW want \in Ids \cup {All}, NEW maxn \in PollSizes,
           TypedPoll(want, maxn)
    PROVE  TableInv'
<1> DEFINE batch == Batch(ready, want, maxn)
<1>1. PICK stop \in {e.stamp : e \in {f \in batch : Decoded(f)}} \cup {arrived + 1} :
         /\ types' = types \ Ends({e \in batch : e.stamp < stop})
         /\ spoiled' = spoiled \cup Ends({e \in batch : e.stamp >= stop})
  BY DEF TypedPoll, DecorateEvents
<1>2. /\ Poll(want, maxn) /\ phase = "open" /\ batch \subseteq ready /\ typed' = typed
      /\ UNCHANGED <<phase, next_id>>
  BY DEF TypedPoll, Poll, Batch
<1>3. \A i \in Ids : handed'[i].over =
                       (handed[i].over \/ \E e \in batch : e.id = i /\ e.kind \in Terminal)
  BY <1>2, PollHanded DEF ClientInv
<1> HIDE DEF batch
<1> DEFINE Done == Ends({e \in batch : e.stamp < stop})
           Lost == Ends({e \in batch : e.stamp >= stop})
<1>4. stop \in Nat /\ \A e \in ready : e.stamp \in Nat /\ e.id \in Ids
  BY <1>2, FlowTypes DEF ClientInv, IInv, TypeOK
<1>5. ASSUME NEW i \in Ids
      PROVE  (\E e \in batch : e.id = i /\ e.kind \in Terminal) <=> i \in Done \cup Lost
  BY <1>2, <1>4 DEF Ends
<1>6. ASSUME NEW i \in Ids, i \in Done \cup Lost, i < next_id
      PROVE  ~handed[i].over /\ ~(i \in Done /\ i \in Lost)
  <2>1. Fate(i) /\ EndOf(i) # {}
    BY <1>2, <1>6 DEF ClientInv, FateInv, Ends, EndOf
  <2>2. ~handed[i].over
    BY <2>1 DEF Fate, EndOf, EventsOf
  <2>3. ASSUME NEW e \in batch, NEW f \in batch, e.id = i, f.id = i,
               e.kind \in Terminal, f.kind \in Terminal
        PROVE  e = f
    <3>1. e \in EndOf(i) /\ f \in EndOf(i)
      BY <1>2, <2>3 DEF EndOf
    <3> QED
      BY <2>1, <2>2, <3>1 DEF Fate
  <2>4. ~(i \in Done /\ i \in Lost)
    <3> SUFFICES ASSUME i \in Done, i \in Lost PROVE FALSE
      OBVIOUS
    <3>1. PICK e \in batch : e.id = i /\ e.kind \in Terminal /\ e.stamp < stop
      BY DEF Ends
    <3>2. PICK f \in batch : f.id = i /\ f.kind \in Terminal /\ f.stamp >= stop
      BY DEF Ends
    <3> QED
      BY <1>2, <1>4, <2>3, <3>1, <3>2
  <2> QED
    BY <2>2, <2>4
<1>7. Lost \subseteq Ids /\ \A i \in Lost : handed'[i].over
  <2>1. Lost \subseteq Ids
    BY <1>2, <1>4 DEF Ends
  <2> HIDE DEF Done, Lost
  <2>2. ASSUME NEW i \in Lost PROVE handed'[i].over
    <3>1. i \in Ids /\ \E e \in batch : e.id = i /\ e.kind \in Terminal
      BY <1>5, <2>1, <2>2
    <3>2. handed'[i].over = TRUE
      BY <1>3, <3>1
    <3> QED
      BY <3>2
  <2> QED
    BY <2>1, <2>2
<1>8. types' = types \ Done /\ spoiled' = spoiled \cup Lost
  BY <1>1
<1> HIDE DEF Done, Lost
<1>9. ASSUME NEW i \in typed PROVE i \in types' <=> ~handed'[i].over \/ i \in spoiled'
  <2>1. i \in Ids /\ i < next_id /\ (i \in types <=> ~handed[i].over \/ i \in spoiled)
        /\ (i \in spoiled => handed[i].over)
    BY <1>2 DEF TableInv
  <2>2. handed'[i].over <=> handed[i].over \/ i \in Done \cup Lost
    BY <1>3, <1>5, <2>1
  <2> QED
    BY <1>6, <1>8, <2>1, <2>2
<1>10. \A i \in spoiled' : i \in Ids /\ handed'[i].over
  BY <1>2, <1>3, <1>7, <1>8 DEF TableInv
<1> QED
  BY <1>2, <1>9, <1>10 DEF TableInv

LEMMA TypedInvLemma == TypedInv /\ [TypedNext]_tvars => TypedInv'
<1> SUFFICES ASSUME TypedInv, [TypedNext]_tvars PROVE TypedInv'
  OBVIOUS
<1>0. ClientInv' /\ ClientInv
  BY ClientStepLemma DEF TypedInv
<1>1. CASE \E t \in BOOLEAN : TypedCall(t)
  BY <1>0, <1>1, RememberLemma DEF TypedInv, TypedCall, Remember, SendsWellTyped
<1>2. CASE \E rc \in ReadCaps, wc \in WriteCaps, t \in BOOLEAN : TypedStream(rc, wc, t)
  BY <1>0, <1>2, RememberLemma DEF TypedInv, TypedStream, Remember, SendsWellTyped
<1>3. ASSUME NEW i \in Ids, NEW fits \in BOOLEAN, TypedSend(i, fits) PROVE TypedInv'
  <2>1. phase = "open" /\ i \in streams /\ UNCHANGED <<phase, next_id, handed, types, typed, spoiled>>
    BY <1>3 DEF TypedSend, StreamSend, SendAccepted
  <2>2. TableInv'
    BY <2>1 DEF TypedInv, TableInv
  <2>3. i \in typed => i \in types
    <3> SUFFICES ASSUME i \in typed PROVE i \in types
      OBVIOUS
    <3>1. i < next_id
      BY <2>1 DEF TypedInv, TableInv
    <3>2. ~handed[i].over
      BY <1>0, <2>1, <3>1, OutstandingLemma DEF Outstanding
    <3> QED
      BY <2>1, <3>2 DEF TypedInv, TableInv
  <2>4. mistyped' = {}
    BY <1>3, <2>3 DEF TypedSend, TypedInv, SendsWellTyped
  <2> QED
    BY <1>0, <2>2, <2>4 DEF TypedInv, SendsWellTyped
<1>4. ASSUME NEW want \in Ids \cup {All}, NEW maxn \in PollSizes, TypedPoll(want, maxn) PROVE TypedInv'
  BY <1>0, <1>4, TablePoll DEF TypedInv, TypedPoll, SendsWellTyped
<1>5. CASE Untyped \/ UNCHANGED tvars
  <2>1. UNCHANGED <<types, typed, spoiled, mistyped, next_id, handed>> /\ (phase' = "open" => phase = "open")
    BY <1>5
    DEF Untyped, tvars, vars, CallCancel, StreamWritesDone, PeerSend, CloseBegin, CloseQueue,
        CloseJoin, CloseAgain, WireOver, Complete, CompleteUnary, CompleteStart, CompleteRead,
        CompleteWrite, CompleteWdone, CompleteFinish, StreamCase
  <2> QED
    BY <1>0, <2>1 DEF TypedInv, TableInv, SendsWellTyped
<1> QED
  BY <1>1, <1>2, <1>3, <1>4, <1>5 DEF TypedNext

LEMMA TypedInitLemma == TypedInit => TypedInv
<1> SUFFICES ASSUME TypedInit PROVE TypedInv
  OBVIOUS
<1>1. Init /\ types = {} /\ typed = {} /\ spoiled = {} /\ mistyped = {}
  BY DEF TypedInit
<1>2. FateInv
  BY <1>1, ClientAssumption DEF Init, FateInv, Ids, ClientAssumption
<1> QED
  BY <1>1, <1>2, InitLemma, FlowInit DEF TypedInv, ClientInv, TableInv, SendsWellTyped

LEMMA TypedInvariance == TypedSpec => []TypedInv
<1>1. TypedInit => TypedInv
  BY TypedInitLemma
<1>2. TypedInv /\ [TypedNext]_tvars => TypedInv'
  BY TypedInvLemma
<1> QED
  BY <1>1, <1>2, PTL DEF TypedSpec

-----------------------------------------------------------------------------
\* The table of client.R holds the typed calls that can still bring an event,
\* and besides them only those whose last batch failed to decode.
THEOREM TableExactTheorem == TypedSpec => []TableExact
<1>1. TypedInv => TableExact
  <2> SUFFICES ASSUME TypedInv, phase = "open", NEW i \in typed
               PROVE  i \in types <=> Outstanding(i) \/ i \in spoiled
    BY DEF TableExact
  <2>1. i \in Ids /\ i < next_id /\ (i \in types <=> ~handed[i].over \/ i \in spoiled)
    BY DEF TypedInv, TableInv
  <2>2. Outstanding(i) <=> ~handed[i].over
    BY <2>1, OutstandingLemma DEF TypedInv
  <2> QED
    BY <2>1, <2>2
<1> QED
  BY <1>1, TypedInvariance, PTL

\* grpc_send finds the entry of every typed stream that still takes messages,
\* so a message of another type is never queued on one.
THEOREM SendsWellTypedTheorem == TypedSpec => []SendsWellTyped
<1>1. TypedInv => SendsWellTyped
  BY DEF TypedInv
<1> QED
  BY <1>1, TypedInvariance, PTL
=============================================================================
