-------------------------- MODULE EventQueueProofs --------------------------
(***************************************************************************)
(* For every set of calls, pipe capacity, batch size and number of         *)
(* arrivals: the wake handle tells the truth, R never sleeps on an event   *)
(* it wants, and the shared deque implements a mailbox per call.           *)
(***************************************************************************)
EXTENDS EventQueue, ReadyQueueProofs

\* While R waits, every event it wants arrived after its last look: it had
\* found no match before it drained the handle and let go of the lock.
NewsOnly ==
    pc \in {"polling", "relock"} =>
        \A e \in ready : Matches(e, call.want) => e.stamp > seen

\* A wait that is over knows why, and only a timeout expires.
Answered ==
    pc = "relock" => /\ pr \in {"readable", "expired", "interrupted"}
                     /\ pr = "expired" => call.timeout = "finite"

\* The inductive invariant.
IInv ==
    /\ TypeOK
    /\ IsFiniteSet(ready)
    /\ Stamped
    /\ WakeMirror
    /\ WakeMeansNews
    /\ NewsOnly
    /\ Answered

-----------------------------------------------------------------------------
\* The signal leaves the handle readable and the drain leaves it empty,
\* however many bytes the pipe held or holds.
LEMMA WakeLemma ==
    ASSUME NEW w \in 0..PipeCap
    PROVE  /\ WakeSignal(w) \in 1..PipeCap
           /\ WakeDrain(w) = 0
           /\ 0 \in 0..PipeCap
BY EventQueueAssumption DEF EventQueueAssumption, WakeSignal, WakeDrain

-----------------------------------------------------------------------------
LEMMA InitLemma == Init => IInv
BY FS_EmptySet, EventQueueAssumption
DEF Init, IInv, TypeOK, Stamped, WakeMirror, WakeMeansNews, NewsOnly, Answered, Readable,
    EventQueueAssumption

\* A poll that returns re-establishes the mirror, whatever it was called with.
LEMMA TakeLemma ==
    ASSUME IInv, NEW c \in PollArgs, Take(c), UNCHANGED arrived, call' \in PollArgs
    PROVE  IInv'
<1>1. /\ TypeOK' /\ Stamped' /\ NewsOnly' /\ WakeMeansNews' /\ Answered'
  BY WakeLemma DEF IInv, TypeOK, Stamped, Take, NewsOnly, WakeMeansNews, Answered
<1>2. IsFiniteSet(ready')
  BY FS_Subset DEF IInv, Take
<1>3. WakeMirror'
  BY WakeLemma DEF IInv, TypeOK, WakeMirror, Readable, Take
<1> QED
  BY <1>1, <1>2, <1>3 DEF IInv

\* Going to sleep: no event matches, and the handle has just been drained.
LEMMA WaitLemma ==
    ASSUME IInv, Wait, UNCHANGED arrived, call' \in PollArgs, ~HaveMatch(ready, call'.want)
    PROVE  IInv'
BY WakeLemma
DEF IInv, TypeOK, Stamped, WakeMirror, WakeMeansNews, NewsOnly, Answered, Readable, Wait, HaveMatch

LEMMA NextLemma == IInv /\ [Next]_vars => IInv'
<1> SUFFICES ASSUME IInv, [Next]_vars PROVE IInv'
  OBVIOUS
<1>1. CASE \E i \in Ids : Push(i)
  <2> PICK i \in Ids : Push(i)
    BY <1>1
  <2>1. arrived \in Nat /\ arrived' = arrived + 1 /\ arrived' \in 1..MaxArrivals /\ wake' \in 1..PipeCap
    BY WakeLemma, EventQueueAssumption DEF IInv, TypeOK, Push, EventQueueAssumption
  <2>2. TypeOK'
    BY <2>1, EventQueueAssumption DEF IInv, TypeOK, Push, Events, EventQueueAssumption
  <2>3. IsFiniteSet(ready')
    BY FS_AddElement DEF IInv, Push
  <2>4. \A e \in ready : e.stamp \in Nat /\ e.stamp <= arrived
    BY DEF IInv, TypeOK, Stamped, Events
  <2>5. Stamped'
    BY <2>1, <2>4 DEF IInv, Stamped, Push
  <2>6. WakeMirror' /\ WakeMeansNews'
    <3>1. wake' > 0
      BY <2>1, EventQueueAssumption DEF EventQueueAssumption
    <3>2. [id |-> i, stamp |-> arrived + 1] \in ready'
      BY DEF Push
    <3>3. arrived' > seen'
      BY <2>1 DEF IInv, TypeOK, Push
    <3> QED
      BY <3>1, <3>2, <3>3 DEF WakeMirror, WakeMeansNews, Readable
  <2>7. NewsOnly' /\ Answered'
    BY <2>1 DEF IInv, TypeOK, NewsOnly, Answered, Push
  <2> QED
    BY <2>2, <2>3, <2>5, <2>6, <2>7 DEF IInv
<1>2. CASE \E c \in PollArgs : PollEnter(c)
  <2> PICK c \in PollArgs : PollEnter(c)
    BY <1>2
  <2>1. UNCHANGED arrived /\ call' = c /\ LoopStep(c)
    BY DEF PollEnter
  <2>2. CASE Take(c)
    BY <2>1, <2>2, TakeLemma
  <2>3. CASE Wait /\ ~HaveMatch(ready, c.want)
    BY <2>1, <2>3, WaitLemma
  <2> QED
    BY <2>1, <2>2, <2>3 DEF LoopStep
<1>3. CASE WakePollReadable \/ WakePollExpired \/ WakePollInterrupted
  BY <1>3 DEF WakePollReadable, WakePollExpired, WakePollInterrupted,
              IInv, TypeOK, Stamped, WakeMirror, WakeMeansNews, NewsOnly, Answered, Readable
<1>4. CASE Relock
  <2>1. UNCHANGED <<arrived, call>> /\ call \in PollArgs
    BY <1>4 DEF Relock, IInv, TypeOK
  <2>2. CASE Take(call)
    BY <2>1, <2>2, TakeLemma
  <2>3. CASE Wait /\ ~HaveMatch(ready, call.want)
    BY <2>1, <2>3, WaitLemma
  <2> QED
    BY <1>4, <2>2, <2>3 DEF Relock, LoopStep
<1>5. CASE UNCHANGED vars
  BY <1>5 DEF vars, IInv, TypeOK, Stamped, WakeMirror, WakeMeansNews, NewsOnly, Answered, Readable
<1> QED
  BY <1>1, <1>2, <1>3, <1>4, <1>5 DEF Next

LEMMA Invariance == Spec => []IInv
BY InitLemma, NextLemma, PTL DEF Spec

-----------------------------------------------------------------------------
\* wake.h:4-6: outside a poll, the descriptor handed to external event loops
\* is readable exactly while events are queued.
THEOREM WakeMirrorTheorem == Spec => []WakeMirror
<1>1. IInv => WakeMirror
  BY DEF IInv
<1> QED
  BY <1>1, Invariance, PTL

\* client.cpp:549-556: while R waits, the handle is readable exactly when a
\* completion arrived since R last looked: no lost wakeup and no spinning.
THEOREM WakeMeansNewsTheorem == Spec => []WakeMeansNews
<1>1. IInv => WakeMeansNews
  BY DEF IInv
<1> QED
  BY <1>1, Invariance, PTL

\* R is never blocked while an event it asked for is in the deque.
THEOREM NoSleepTheorem == Spec => []NoSleepOnMatch
<1>1. IInv => NoSleepOnMatch
  BY DEF IInv, TypeOK, Stamped, WakeMeansNews, NewsOnly, NoSleepOnMatch, HaveMatch, Events
<1> QED
  BY <1>1, Invariance, PTL

\* client.cpp:558-581: a wait without a timeout comes back with an event of the
\* call it is for, whatever else arrived and woke it, or because of a signal.
THEOREM AwaitDeliversTheorem == Spec => AwaitDelivers
<1>1. ASSUME IInv, [Next]_vars, pc # "idle", pc' = "idle",
             call.timeout = "infinite", pr # "interrupted"
      PROVE  HaveMatch(ready \ ready', call.want)
  <2>1. Relock
    BY <1>1 DEF Next, vars, Push, PollEnter, WakePollReadable, WakePollExpired,
                WakePollInterrupted
  <2>2. pr = "readable"
    BY <1>1, <2>1 DEF Relock, IInv, Answered
  <2>3. Take(call) /\ HaveMatch(ready, call.want)
    BY <1>1, <2>1, <2>2 DEF Relock, LoopStep, Wait
  <2>4. ready \ ready' = Batch(ready, call.want, call.maxn)
    BY <2>3 DEF Take, Batch
  <2>5. call.maxn \in Nat \ {0}
    BY <1>1, EventQueueAssumption DEF IInv, TypeOK, PollArgs, EventQueueAssumption
  <2>6. /\ IsFiniteSet(ready)
        /\ \A e \in ready : e.stamp \in Nat
        /\ \A e, f \in ready : e.stamp = f.stamp => e = f
    BY <1>1 DEF IInv, TypeOK, Stamped, Events
  <2>7. HaveMatch(Batch(ready, call.want, call.maxn), call.want)
    BY <2>3, <2>5, <2>6, BatchTakes
  <2> QED
    BY <2>4, <2>7
<1>2. IInv /\ [Next]_vars =>
        [pc # "idle" /\ pc' = "idle" /\ call.timeout = "infinite" /\ pr # "interrupted" =>
            HaveMatch(ready \ ready', call.want)]_vars
  BY <1>1
<1> QED
  BY <1>2, Invariance, PTL DEF Spec, AwaitDelivers

\* The deque with filtered and unfiltered polls implements one mailbox per
\* call: nothing lost, repeated or reordered within a call.
THEOREM MailboxTheorem == Spec => MailboxSpec
<1> DEFINE Box == [i \in Ids |-> {e.stamp : e \in {f \in ready : f.id = i}}]
<1>1. Init => Mail!Init
  BY DEF Init, Mail!Init
<1>2. ASSUME IInv, [Next]_vars PROVE [Mail!Next]_(Mail!vars)
  <2>1. CASE \E i \in Ids : Push(i)
    <3> PICK i \in Ids : Push(i)
      BY <2>1
    <3>1. Box' = [Box EXCEPT ![i] = @ \cup {arrived + 1}]
      <4> DEFINE new == [id |-> i, stamp |-> arrived + 1]
      <4>1. ready' = ready \cup {new} /\ new.id = i /\ new.stamp = arrived + 1
        BY DEF Push
      <4> HIDE DEF new
      <4>2. ASSUME NEW j \in Ids
            PROVE  Box'[j] = IF j = i THEN Box[j] \cup {arrived + 1} ELSE Box[j]
        <5>1. CASE j = i
          <6>1. {f \in ready' : f.id = j} = {f \in ready : f.id = j} \cup {new}
            BY <4>1, <5>1
          <6> QED
            BY <4>1, <5>1, <6>1
        <5>2. CASE j # i
          <6>1. {f \in ready' : f.id = j} = {f \in ready : f.id = j}
            BY <4>1, <5>2
          <6> QED
            BY <5>2, <6>1
        <5> QED
          BY <5>1, <5>2
      <4> QED
        BY <4>2
    <3>2. Mail!Arrive(i)
      BY <3>1 DEF Mail!Arrive, Push
    <3> QED
      BY <3>2 DEF Mail!Next
  <2>2. ASSUME NEW c \in PollArgs, Take(c), UNCHANGED arrived PROVE Mail!Deliver
    <3>1. \A e \in ready : e.stamp \in Nat /\ e.stamp \in 1..arrived
      BY <1>2 DEF IInv, TypeOK, Stamped, Events
    <3>2. c.maxn \in Nat
      BY EventQueueAssumption DEF PollArgs, EventQueueAssumption
    <3>3. ready' \subseteq ready
      BY <2>2 DEF Take
    <3>4. Box' \in [Ids -> SUBSET (1..arrived)]
      BY <3>1, <3>3
    <3>5. ASSUME NEW i \in Ids, NEW m \in Box[i] \ Box'[i], NEW n \in Box'[i] PROVE m < n
      <4>1. PICK e \in ready : e.id = i /\ e.stamp = m
        BY <3>5
      <4>2. PICK f \in ready' : f.id = i /\ f.stamp = n
        BY <3>5
      <4>3. e \in Batch(ready, c.want, c.maxn)
        BY <4>1, <3>5, <2>2 DEF Take
      <4>4. f \in ready \ Batch(ready, c.want, c.maxn)
        BY <4>2, <2>2 DEF Take
      <4>5. IsFiniteSet(ready)
        BY <1>2 DEF IInv
      <4>6. e.stamp < f.stamp
        BY <4>1, <4>2, <4>3, <4>4, <4>5, <3>1, <3>2, BatchIsPrefix
      <4> QED
        BY <4>1, <4>2, <4>6
    <3>6. \A i \in Ids : Box'[i] \subseteq Box[i]
      BY <3>3
    <3> QED
      BY <2>2, <3>4, <3>5, <3>6 DEF Mail!Deliver
  <2>3. CASE \E c \in PollArgs : PollEnter(c)
    BY <2>2, <2>3 DEF PollEnter, LoopStep, Wait, Mail!Next, Mail!vars
  <2>4. CASE WakePollReadable \/ WakePollExpired \/ WakePollInterrupted
    BY <2>4 DEF WakePollReadable, WakePollExpired, WakePollInterrupted, Mail!vars
  <2>5. CASE Relock
    <3>1. call \in PollArgs
      BY <1>2 DEF IInv, TypeOK
    <3> QED
      BY <2>2, <2>5, <3>1 DEF Relock, LoopStep, Wait, Mail!Next, Mail!vars
  <2>6. CASE UNCHANGED vars
    BY <2>6 DEF vars, Mail!vars
  <2> QED
    BY <1>2, <2>1, <2>3, <2>4, <2>5, <2>6 DEF Next
<1> QED
  BY <1>1, <1>2, Invariance, PTL DEF Spec, MailboxSpec, Mail!Spec
=============================================================================
