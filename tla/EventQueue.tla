----------------------------- MODULE EventQueue -----------------------------
(***************************************************************************)
(* The wait loop of grpc_r_client_poll (client.cpp:558-608, and its twin   *)
(* server.cpp:576-604) over the wake handle of wake.h, against the         *)
(* completion thread that queues events.                                   *)
(*                                                                         *)
(* Every access to ready and every drain or signal of the wake handle is   *)
(* made under mu, so the steps are the critical sections; the one thing R  *)
(* does without the lock is the wake_poll system call, a step of its own.  *)
(* The completion thread may push before and after each of them.           *)
(***************************************************************************)
EXTENDS ReadyQueue

CONSTANTS
    Ids,        \* calls and streams that events belong to
    PipeCap,    \* bytes the self-pipe holds: beyond it write() is EAGAIN
    PollSizes,  \* the max_events values R passes
    MaxArrivals \* bound: events pushed in one behaviour

ASSUME EventQueueAssumption ==
    /\ PipeCap \in Nat \ {0}
    /\ PollSizes \subseteq Nat \ {0}
    /\ MaxArrivals \in Nat
    /\ All \notin Ids

VARIABLES
    ready,      \* set of [id, stamp]: the deque
    arrived,    \* events pushed so far: the last stamp
    wake,       \* bytes in the self-pipe
    pc,         \* "idle", "polling" (in wake_poll) or "relock" (it returned)
    call,       \* arguments of the poll in progress: want, maxn, timeout
    pr,         \* what wake_poll returned
    seen        \* history: arrived when the waiter last drained the handle

vars == <<ready, arrived, wake, pc, call, pr, seen>>

\* timeout_ms = 0, > 0 and < 0.
Timeouts == {"zero", "finite", "infinite"}

Events == [id : Ids, stamp : 1..MaxArrivals]
PollArgs == [want : Ids \cup {All}, maxn : PollSizes, timeout : Timeouts]

\* The handle answers one question, whether it is readable.
Readable == wake > 0

-----------------------------------------------------------------------------
\* Mutation of WakeSignal: the signal is never sent.
WakeSignalLost(w) == w

\* wake_signal writes one byte; a full pipe stays full (and readable).
WakeSignal(w) == IF w < PipeCap THEN w + 1 ELSE w

\* wake_drain reads until the pipe is empty.
WakeDrain(w) == 0

Init ==
    /\ ready = {}
    /\ arrived = 0
    /\ wake = 0
    /\ pc = "idle"
    /\ call \in PollArgs
    /\ pr = "none"
    /\ seen = 0

\* The completion thread: ready.push_back(ev); signal(), under mu.
Push(i) ==
    /\ arrived < MaxArrivals
    /\ arrived' = arrived + 1
    /\ ready' = ready \cup {[id |-> i, stamp |-> arrived + 1]}
    /\ wake' = WakeSignal(wake)
    /\ UNCHANGED <<pc, call, pr, seen>>

\* Mutation of Take: the re-arm is forgotten.
TakeNoRearm(c) ==
    /\ ready' = ready \ Batch(ready, c.want, c.maxn)
    /\ wake' = WakeDrain(wake)
    /\ pc' = "idle"
    /\ pr' = "none"
    /\ seen' = 0

\* Drain, take the batch, re-arm if anything is left, return to R.
\* c is the argument record of the poll that returns.
Take(c) ==
    /\ ready' = ready \ Batch(ready, c.want, c.maxn)
    /\ wake' = IF ready' # {} THEN WakeSignal(WakeDrain(wake)) ELSE WakeDrain(wake)
    /\ pc' = "idle"
    /\ pr' = "none"
    /\ seen' = 0

\* Mutation of Wait: the filtered wait leans on the descriptor (no drain).
WaitNoDrain ==
    /\ seen' = arrived
    /\ pc' = "polling"
    /\ pr' = "none"
    /\ UNCHANGED <<ready, wake>>

\* The body of the wait loop up to the unlock: drain, then wait.
Wait ==
    /\ wake' = WakeDrain(wake)
    /\ seen' = arrived
    /\ pc' = "polling"
    /\ pr' = "none"
    /\ UNCHANGED ready

\* Mutation of LoopStep: wait first, look afterwards.
LoopStepBlind(c) ==
    \/ c.timeout # "infinite" /\ Take(c)
    \/ c.timeout # "zero" /\ Wait

\* The loop test: leave when an event matches or the deadline has passed
\* (left <= 0 is possible at every turn of a finite wait); else wait.
LoopStep(c) ==
    \/ /\ c.timeout = "zero" \/ HaveMatch(ready, c.want) \/ c.timeout = "finite"
       /\ Take(c)
    \/ /\ c.timeout # "zero" /\ ~HaveMatch(ready, c.want)
       /\ Wait

\* R calls grpc_poll or grpc_await.
PollEnter(c) ==
    /\ pc = "idle"
    /\ call' = c
    /\ LoopStep(c)
    /\ UNCHANGED arrived

\* wake_poll returns > 0.
WakePollReadable ==
    /\ pc = "polling" /\ Readable
    /\ pr' = "readable"
    /\ pc' = "relock"
    /\ UNCHANGED <<ready, arrived, wake, call, seen>>

\* wake_poll returns 0: wait_ms passed with nothing to read.
WakePollExpired ==
    /\ pc = "polling" /\ ~Readable /\ call.timeout = "finite"
    /\ pr' = "expired"
    /\ pc' = "relock"
    /\ UNCHANGED <<ready, arrived, wake, call, seen>>

\* wake_poll returns < 0: a signal arrived while it was blocked.
WakePollInterrupted ==
    /\ pc = "polling" /\ ~Readable
    /\ pr' = "interrupted"
    /\ pc' = "relock"
    /\ UNCHANGED <<ready, arrived, wake, call, seen>>

\* Mutation of Relock: the wait is tested once, not in a loop.
RelockOnce ==
    /\ pc = "relock"
    /\ Take(call)
    /\ UNCHANGED <<arrived, call>>

\* The lock is taken again: go round the loop, or break out on pr <= 0.
Relock ==
    /\ pc = "relock"
    /\ IF pr = "readable" THEN LoopStep(call) ELSE Take(call)
    /\ UNCHANGED <<arrived, call>>

Next ==
    \/ \E i \in Ids : Push(i)
    \/ \E c \in PollArgs : PollEnter(c)
    \/ WakePollReadable
    \/ WakePollExpired
    \/ WakePollInterrupted
    \/ Relock

\* The waiter is R's main thread inside .Call: a readable descriptor makes
\* poll() return, and a free mutex is eventually acquired.
Fairness == WF_vars(WakePollReadable) /\ WF_vars(Relock)

Spec == Init /\ [][Next]_vars /\ Fairness

-----------------------------------------------------------------------------
TypeOK ==
    /\ ready \subseteq Events
    /\ arrived \in 0..MaxArrivals
    /\ wake \in 0..PipeCap
    /\ pc \in {"idle", "polling", "relock"}
    /\ call \in PollArgs
    /\ pr \in {"none", "readable", "expired", "interrupted"}
    /\ seen \in 0..arrived

\* wake.h:4-6: between polls the handle is readable exactly while events are
\* queued, whatever filters and batch sizes the polls before used; this is
\* what an external event loop watching grpc_fd relies on.
WakeMirror == pc = "idle" => (Readable <=> ready # {})

\* client.cpp:549-556: while R waits, readable means "a completion arrived
\* since I last looked".  Left to right: a filtered wait is never woken by
\* events it already stepped over (no spin).  Right to left: no arrival goes
\* unnoticed (no lost wakeup).
WakeMeansNews == pc = "polling" => (Readable <=> arrived > seen)

\* A poll that is blocked on an unreadable handle has nothing it wants in the
\* deque: R never sleeps on an event it could return.
NoSleepOnMatch == pc = "polling" /\ ~Readable => ~HaveMatch(ready, call.want)

\* A wait without a timeout that returns has taken an event R wants, unless a
\* signal interrupted it: neither another call's completion nor a wakeup that
\* was meant for an earlier poll ends it empty-handed (client.cpp:558-581;
\* R/generics.R:25-27).
AwaitDelivers ==
    [][pc # "idle" /\ pc' = "idle" /\ call.timeout = "infinite" /\ pr # "interrupted" =>
          HaveMatch(ready \ ready', call.want)]_vars

\* Every arrival is stamped after all events queued before it, and the deque
\* holds no two events of one stamp.
Stamped ==
    /\ \A e \in ready : e.stamp <= arrived
    /\ \A e, f \in ready : e.stamp = f.stamp => e = f

\* The shared deque gives each call a mailbox of its own.
Mail == INSTANCE Mailboxes WITH
    box <- [i \in Ids |-> {e.stamp : e \in {f \in ready : f.id = i}}],
    clock <- arrived
MailboxSpec == Mail!Spec

\* A wait whose event is queued ends: grpc_await returns.
WaiterServed == (pc = "polling" /\ HaveMatch(ready, call.want)) ~> (pc = "idle")
=============================================================================
