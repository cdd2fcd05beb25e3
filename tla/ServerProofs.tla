---------------------------- MODULE ServerProofs ----------------------------
(***************************************************************************)
(* For every window, capacity, number of calls and traffic: calls and      *)
(* slots stay within the capacity, every tag finds its call, what R sends  *)
(* goes out in order and up to the fence, and what the peer sends comes in *)
(* in order and after its request.                                         *)
(***************************************************************************)
EXTENDS Server, ReadyQueueProofs, SequenceTheorems

(***************************************************************************)
(* Capacity on its own is not inductive: a step must know that the set of  *)
(* active calls is finite and that the slots are a natural number.  Of the *)
(* calls themselves it needs nothing: whichever of their tags completes,   *)
(* and in whichever order, a call leaves active, and slots are posted only *)
(* up to what is left.                                                     *)
(***************************************************************************)
CapInv ==
    /\ IsFiniteSet(active)
    /\ accepts_outstanding \in Nat
    /\ Capacity

\* post_accepts_locked never goes past max_active, and never takes a slot back.
LEMMA SlotsBounded ==
    ASSUME NEW slots \in Nat, NEW n \in Nat, slots + n <= max_active
    PROVE  /\ SlotsAfter(slots, n) \in Nat
           /\ SlotsAfter(slots, n) >= slots
           /\ SlotsAfter(slots, n) + n <= max_active
  <1>1. max_active \in Nat /\ accept_window \in Nat
    BY ServerAssumption
  <1> QED
    BY <1>1 DEF SlotsAfter

\* maybe_free_locked only ever takes the call out of the map.
LEMMA LiveAfterShrinks ==
    ASSUME IsFiniteSet(active), NEW i, NEW c
    PROVE  /\ IsFiniteSet(LiveAfter(i, c))
           /\ Cardinality(LiveAfter(i, c)) \in Nat
           /\ Cardinality(LiveAfter(i, c)) <= Cardinality(active)
           /\ Cardinality(active) \in Nat
  <1>1. LiveAfter(i, c) \subseteq active
    BY DEF LiveAfter
  <1> QED
    BY <1>1, FS_Subset, FS_CardinalityType

\* A step that leaves the calls and the slots alone.
LEMMA CapUnchanged ==
    ASSUME CapInv, UNCHANGED <<active, accepts_outstanding>>
    PROVE  CapInv'
  BY DEF CapInv, Capacity

\* A read or write completion: the call may go, no slot is posted.
LEMMA CapCase ==
    ASSUME CapInv, NEW i, NEW c, CallCase(i, c), UNCHANGED accepts_outstanding
    PROVE  CapInv'
  <1>1. active' = LiveAfter(i, c)
    BY DEF CallCase
  <1>2. IsFiniteSet(active)
    BY DEF CapInv
  <1>3. max_active \in Nat
    BY ServerAssumption
  <1> QED
    BY <1>1, <1>2, <1>3, LiveAfterShrinks DEF CapInv, Capacity

\* A done or finish completion: the call may go, then slots are posted.
LEMMA CapCaseSlots ==
    ASSUME CapInv, NEW i, NEW c, CallCase(i, c),
           accepts_outstanding' = SlotsAfter(accepts_outstanding, Cardinality(active'))
    PROVE  CapInv'
  <1>1. active' = LiveAfter(i, c)
    BY DEF CallCase
  <1>2. IsFiniteSet(active) /\ accepts_outstanding \in Nat
        /\ Cardinality(active) + accepts_outstanding <= max_active
    BY DEF CapInv, Capacity
  <1>3. max_active \in Nat
    BY ServerAssumption
  <1>4. /\ IsFiniteSet(active') /\ Cardinality(active') \in Nat
        /\ accepts_outstanding + Cardinality(active') <= max_active
    BY <1>1, <1>2, <1>3, LiveAfterShrinks
  <1>5. /\ accepts_outstanding' \in Nat
        /\ accepts_outstanding' + Cardinality(active') <= max_active
    BY <1>2, <1>4, SlotsBounded
  <1> QED
    BY <1>4, <1>5 DEF CapInv, Capacity

\* An accepted call takes the place its slot had.
LEMMA CapAccept ==
    ASSUME CapInv, AcceptOk
    PROVE  CapInv'
  <1>1. IsFiniteSet(active) /\ accepts_outstanding \in Nat /\ accepts_outstanding > 0
        /\ Cardinality(active) + accepts_outstanding <= max_active
    BY DEF CapInv, Capacity, AcceptOk
  <1>2. max_active \in Nat
    BY ServerAssumption
  <1>3. /\ active' = active \cup {next_id}
        /\ accepts_outstanding' = SlotsAfter(accepts_outstanding - 1, Cardinality(active'))
    BY DEF AcceptOk
  <1>4. /\ IsFiniteSet(active') /\ Cardinality(active') \in Nat
        /\ Cardinality(active) \in Nat
        /\ Cardinality(active') <= Cardinality(active) + 1
    BY <1>1, <1>3, FS_AddElement, FS_CardinalityType
  <1>5. accepts_outstanding - 1 \in Nat
        /\ (accepts_outstanding - 1) + Cardinality(active') <= max_active
    BY <1>1, <1>2, <1>4
  <1>6. /\ accepts_outstanding' \in Nat
        /\ accepts_outstanding' + Cardinality(active') <= max_active
    BY <1>3, <1>4, <1>5, SlotsBounded
  <1> QED
    BY <1>4, <1>6 DEF CapInv, Capacity

LEMMA CapNext ==
    ASSUME CapInv, [Next]_vars
    PROVE  CapInv'
  <1>1. CASE UNCHANGED vars
    BY <1>1, CapUnchanged DEF vars
  <1>2. ASSUME NEW i \in Ids, NEW payload \in BOOLEAN, Reply(i, payload) PROVE CapInv'
    BY <1>2, CapUnchanged DEF Reply
  <1>3. ASSUME NEW i \in Ids, NEW drain \in BOOLEAN, Finish(i, drain) PROVE CapInv'
    BY <1>3, CapUnchanged DEF Finish
  <1>4. ASSUME NEW i \in Ids, Read(i) \/ Send(i) \/ Cancel(i) PROVE CapInv'
    BY <1>4, CapUnchanged DEF Read, Send, Cancel
  <1>5. ASSUME NEW want \in Ids \cup {All}, NEW maxn \in PollSizes, Poll(want, maxn)
        PROVE  CapInv'
    BY <1>5, CapUnchanged DEF Poll
  <1>6. CASE CloseBegin \/ CloseServer \/ CloseQueue \/ CloseAgain
    BY <1>6, CapUnchanged DEF CloseBegin, CloseServer, CloseQueue, CloseAgain, vars
  <1>7. CASE CloseJoin
    <2>1. active' = {} /\ accepts_outstanding' = accepts_outstanding
          /\ accepts_outstanding = 0
      BY <1>7 DEF CloseJoin
    <2>2. max_active \in Nat
      BY ServerAssumption
    <2> QED
      BY <2>1, <2>2, FS_EmptySet DEF CapInv, Capacity
  <1>8. CASE AcceptOk
    BY <1>8, CapAccept
  <1>9. CASE AcceptFailed
    <2>1. active' = active /\ accepts_outstanding' = accepts_outstanding - 1
          /\ accepts_outstanding > 0
      BY <1>9 DEF AcceptFailed
    <2>2. IsFiniteSet(active) /\ Cardinality(active) \in Nat /\ max_active \in Nat
      BY FS_CardinalityType, ServerAssumption DEF CapInv
    <2> QED
      BY <2>1, <2>2 DEF CapInv, Capacity
  <1>10. ASSUME NEW i \in Ids, Complete(i) PROVE CapInv'
    <2>1. ASSUME NEW ok \in BOOLEAN, CompleteRead(i, ok) PROVE CapInv'
      BY <2>1, CapCase DEF CompleteRead
    <2>2. ASSUME NEW ok \in BOOLEAN, CompleteWrite(i, ok) PROVE CapInv'
      BY <2>2, CapCase DEF CompleteWrite
    <2>3. CASE CompleteDone(i)
      BY <2>3, CapCaseSlots DEF CompleteDone
    <2>4. ASSUME NEW ok \in BOOLEAN, CompleteFinish(i, ok) PROVE CapInv'
      BY <2>4, CapCaseSlots DEF CompleteFinish
    <2> QED
      BY <1>10, <2>1, <2>2, <2>3, <2>4 DEF Complete
  <1>11. CASE PeerCall
    BY <1>11, CapUnchanged DEF PeerCall, pvars
  <1>12. ASSUME NEW i \in Ids, PeerSend(i) \/ PeerHalfClose(i) \/ PeerGone(i) PROVE CapInv'
    BY <1>12, CapUnchanged DEF PeerSend, PeerHalfClose, PeerGone, pvars
  <1> QED
    BY <1>1, <1>2, <1>3, <1>4, <1>5, <1>6, <1>7, <1>8, <1>9, <1>10, <1>11, <1>12 DEF Next

\* R/server.R:10-12: whatever the window, the capacity and the number of
\* calls, active calls and accept slots together never exceed max_active.
THEOREM CapacityTheorem == Spec => []Capacity
  <1>1. Init => CapInv
    BY ServerAssumption, FS_EmptySet DEF Init, CapInv, Capacity
  <1>2. CapInv /\ [Next]_vars => CapInv'
    BY CapNext
  <1>3. CapInv => Capacity
    BY DEF CapInv
  <1> QED
    BY <1>1, <1>2, <1>3, PTL DEF Spec

-----------------------------------------------------------------------------
(* The tags of a call.                                                     *)

\* The flags of an sv_call say which of its tags are outstanding, and pending
\* how many.
FlagsTellTags(c) ==
    /\ c.pending = Cardinality(c.ops)
    /\ "read" \in c.ops <=> c.read_inflight
    /\ "write" \in c.ops <=> c.write_inflight
    /\ "finish" \in c.ops => c.finish_posted

\* Once R has the request and owes the answer, a call whose end was noticed is
\* dead: nothing more is posted on it or reported of it.
Settled(c) == c.delivered /\ ~c.replied /\ "done" \notin c.ops => c.dead

\* The order in which a call passes through its life: nothing is written before
\* the request is delivered, the status is posted on an answered, living call
\* after the last write, and the last tag may have settled everything.
LifeOrder(c) ==
    /\ ~c.delivered => c.ops \subseteq {"done", "read"} /\ ~c.replied
    /\ c.has_final_write => c.replied
    /\ c.write_inflight => c.write_queue # <<>>
    /\ c.finish_posted => c.replied /\ ~c.dead /\ ~c.write_inflight /\ c.write_queue = <<>>
    /\ c.ops # {} => Settled(c)

CallInv(c) == c \in Call /\ FlagsTellTags(c) /\ LifeOrder(c)

\* What pump_locked guarantees on a server that is not shutting.
Pumped(c) ==
    ~c.dead /\ ~c.finish_posted /\ (c.write_queue # <<>> \/ c.replied) => c.write_inflight

\* The inductive invariant of the tags.
TagInv ==
    /\ TypeOK
    /\ IsFiniteSet(ready)
    /\ next_id + waiting <= MaxCalls + 1
    /\ \A i \in active : i < next_id
    /\ \A i \in Ids : CallInv(cl[i])
    /\ ActiveWhileTagged
    /\ ~Shutting => \A i \in active : Pumped(cl[i])

-----------------------------------------------------------------------------
\* Equal in everything but pending and ops.
SameButTags(c, d) ==
    /\ d.delivered = c.delivered /\ d.replied = c.replied /\ d.dead = c.dead
    /\ d.read_inflight = c.read_inflight /\ d.write_inflight = c.write_inflight
    /\ d.finish_posted = c.finish_posted /\ d.has_final_write = c.has_final_write
    /\ d.write_queue = c.write_queue

LEMMA OpsFinite ==
    ASSUME NEW S \in SUBSET OpKinds
    PROVE  IsFiniteSet(S) /\ Cardinality(S) \in Nat
<1>1. IsFiniteSet({"read"})
  BY FS_Singleton
<1>2. IsFiniteSet({"read"} \cup {"write"})
  BY FS_AddElement, <1>1
<1>3. IsFiniteSet({"read"} \cup {"write"} \cup {"done"})
  BY FS_AddElement, <1>2
<1>4. IsFiniteSet({"read"} \cup {"write"} \cup {"done"} \cup {"finish"})
  BY FS_AddElement, <1>3
<1>5. OpKinds = {"read"} \cup {"write"} \cup {"done"} \cup {"finish"}
  BY DEF OpKinds
<1> QED
  BY <1>4, <1>5, FS_Subset, FS_CardinalityType

LEMMA PostLemma ==
    ASSUME NEW c \in Call, NEW op \in OpKinds \ c.ops, c.pending = Cardinality(c.ops)
    PROVE  /\ Post(c, op) \in Call
           /\ Post(c, op).pending = Cardinality(Post(c, op).ops)
           /\ Post(c, op).ops = c.ops \cup {op}
           /\ SameButTags(c, Post(c, op))
<1>1. c.ops \in SUBSET OpKinds /\ c.pending \in Nat
  BY DEF Call
<1>2. Cardinality(c.ops \cup {op}) = Cardinality(c.ops) + 1
  BY <1>1, OpsFinite, FS_AddElement
<1>3. c.ops \cup {op} \in SUBSET OpKinds /\ c.pending + 1 \in Nat
  BY <1>1
<1>4. Post(c, op) \in Call
  BY <1>3 DEF Post, Call
<1>5. Post(c, op).pending = c.pending + 1 /\ Post(c, op).ops = c.ops \cup {op}
  BY DEF Post, Call
<1>6. SameButTags(c, Post(c, op))
  BY DEF Post, Call, SameButTags
<1> QED
  BY <1>2, <1>4, <1>5, <1>6

LEMMA RetireLemma ==
    ASSUME NEW c \in Call, NEW op \in c.ops, c.pending = Cardinality(c.ops)
    PROVE  /\ Retire(c, op) \in Call
           /\ Retire(c, op).pending = Cardinality(Retire(c, op).ops)
           /\ Retire(c, op).ops = c.ops \ {op}
           /\ SameButTags(c, Retire(c, op))
<1>1. c.ops \in SUBSET OpKinds
  BY DEF Call
<1>2. Cardinality(c.ops \ {op}) = Cardinality(c.ops) - 1
  BY <1>1, OpsFinite, FS_RemoveElement
<1>3. Cardinality(c.ops \ {op}) \in Nat
  BY <1>1, OpsFinite
<1>4. SameButTags(c, Retire(c, op))
  BY DEF Retire, Call, SameButTags
<1> QED
  BY <1>1, <1>2, <1>3, <1>4 DEF Retire, Call

\* pump_locked posts at most the one operation that is due, and only on a
\* server that is not shutting.
LEMMA PumpLemma ==
    ASSUME NEW c, CallInv(c), c.delivered, Settled(c), NEW d, d = pump_locked(c)
    PROVE  /\ CallInv(d)
           /\ ~Shutting => Pumped(d)
           /\ Shutting => d = c
           /\ c.ops \subseteq d.ops
<1> DEFINE Skip == Shutting \/ c.dead \/ c.finish_posted \/ c.write_inflight
<1>1. CASE Skip \/ (c.write_queue = <<>> /\ ~c.replied)
  <2>1. d = c
    BY <1>1 DEF pump_locked
  <2> QED
    BY <1>1, <2>1 DEF Pumped
<1>2. CASE ~Skip /\ c.write_queue # <<>>
  <2> DEFINE u == [c EXCEPT !.write_inflight = TRUE]
  <2>1. d = Post(u, "write")
    BY <1>2 DEF pump_locked
  <2>2. u \in Call /\ u.ops = c.ops /\ u.pending = c.pending
    BY DEF CallInv, Call
  <2>3. "write" \in OpKinds \ u.ops
    BY <1>2, <2>2 DEF CallInv, FlagsTellTags, OpKinds
  <2>4. /\ d \in Call /\ d.pending = Cardinality(d.ops)
        /\ d.ops = c.ops \cup {"write"} /\ SameButTags(u, d)
    BY <2>1, <2>2, <2>3, PostLemma DEF CallInv, FlagsTellTags
  <2>5. CallInv(d)
    BY <1>2, <2>4 DEF CallInv, FlagsTellTags, LifeOrder, Settled, SameButTags, Call
  <2> QED
    BY <1>2, <2>4, <2>5 DEF Pumped, SameButTags, CallInv, Call
<1>3. CASE ~Skip /\ c.write_queue = <<>> /\ c.replied
  <2> DEFINE u == [c EXCEPT !.finish_posted = TRUE]
  <2>1. d = Post(u, "finish")
    BY <1>3 DEF pump_locked
  <2>2. u \in Call /\ u.ops = c.ops /\ u.pending = c.pending
    BY DEF CallInv, Call
  <2>3. "finish" \in OpKinds \ u.ops
    BY <1>3, <2>2 DEF CallInv, FlagsTellTags, OpKinds
  <2>4. /\ d \in Call /\ d.pending = Cardinality(d.ops)
        /\ d.ops = c.ops \cup {"finish"} /\ SameButTags(u, d)
    BY <2>1, <2>2, <2>3, PostLemma DEF CallInv, FlagsTellTags
  <2>5. CallInv(d)
    BY <1>3, <2>4 DEF CallInv, FlagsTellTags, LifeOrder, Settled, SameButTags, Call
  <2> QED
    BY <1>3, <2>4, <2>5 DEF Pumped, SameButTags, CallInv, Call
<1> QED
  BY <1>1, <1>2, <1>3

-----------------------------------------------------------------------------
(* The completion cases, each from the call the tag was found in.           *)

\* What a completion makes of call c.
Steps(c, d) ==
    /\ CallInv(d)
    /\ ~Shutting /\ Pumped(c) => Pumped(d)
    /\ Shutting => d.ops \subseteq c.ops

\* The step writes nothing; the call may have died.
KeepsWrites(c, d) ==
    /\ d.write_queue = c.write_queue /\ d.write_inflight = c.write_inflight
    /\ d.finish_posted = c.finish_posted /\ d.has_final_write = c.has_final_write
    /\ d.replied = c.replied /\ (c.dead => d.dead)

\* case read: a message, the peer's half-close, or the end of a call R never saw.
AfterRead(c, ok) ==
    LET r == [Retire(c, "read") EXCEPT !.read_inflight = FALSE]
        k == ReadOutcome(r, ok)
    IN  [r EXCEPT !.delivered = @ \/ k = "request", !.dead = @ \/ k = "none"]

LEMMA ReadCaseLemma ==
    ASSUME NEW c, CallInv(c), "read" \in c.ops, NEW ok \in BOOLEAN, NEW d, d = AfterRead(c, ok)
    PROVE  Steps(c, d) /\ d.ops = c.ops \ {"read"} /\ KeepsWrites(c, d)
<1> DEFINE s == Retire(c, "read")
           r == [s EXCEPT !.read_inflight = FALSE]
           k == ReadOutcome(r, ok)
<1>1. /\ s \in Call /\ s.pending = Cardinality(s.ops)
      /\ s.ops = c.ops \ {"read"} /\ SameButTags(c, s)
  BY RetireLemma DEF CallInv, FlagsTellTags
<1>2. d = [r EXCEPT !.delivered = @ \/ k = "request", !.dead = @ \/ k = "none"]
  BY DEF AfterRead
<1> HIDE DEF s
<1>3. /\ r \in Call /\ r.ops = c.ops \ {"read"} /\ r.pending = Cardinality(r.ops)
      /\ r.delivered = c.delivered /\ r.replied = c.replied /\ r.dead = c.dead
      /\ ~r.read_inflight /\ r.write_inflight = c.write_inflight
      /\ r.finish_posted = c.finish_posted /\ r.has_final_write = c.has_final_write
      /\ r.write_queue = c.write_queue
  BY <1>1 DEF SameButTags, Call
<1>4. /\ k = "request" => ~r.delivered /\ ~r.dead
      /\ k = "none" => r.dead \/ ~r.delivered
  BY DEF ReadOutcome
<1> HIDE DEF r, k
<1>5. /\ d \in Call /\ d.ops = r.ops /\ d.pending = r.pending
      /\ d.delivered = (r.delivered \/ k = "request") /\ d.dead = (r.dead \/ k = "none")
      /\ d.replied = r.replied /\ ~d.read_inflight /\ d.write_inflight = r.write_inflight
      /\ d.finish_posted = r.finish_posted /\ d.has_final_write = r.has_final_write
      /\ d.write_queue = r.write_queue
  BY <1>2, <1>3 DEF Call
<1>6. FlagsTellTags(d)
  BY <1>3, <1>5 DEF CallInv, FlagsTellTags
<1>7. LifeOrder(d)
  BY <1>3, <1>4, <1>5 DEF CallInv, FlagsTellTags, LifeOrder, Settled
<1>8. KeepsWrites(c, d)
  BY <1>3, <1>5 DEF KeepsWrites
<1> QED
  BY <1>3, <1>4, <1>5, <1>6, <1>7, <1>8 DEF Steps, CallInv, Pumped

\* case write: the queue moves up and the next operation goes out, or the call
\* is dead.
LEMMA WriteCaseLemma ==
    ASSUME NEW c, CallInv(c), "write" \in c.ops, NEW ok \in BOOLEAN,
           NEW d, d = AfterWrite([Retire(c, "write") EXCEPT !.write_inflight = FALSE], ok)
    PROVE  Steps(c, d) /\ (c.dead => d.dead)
<1> DEFINE s == Retire(c, "write")
           r == [s EXCEPT !.write_inflight = FALSE]
<1>1. /\ s \in Call /\ s.pending = Cardinality(s.ops)
      /\ s.ops = c.ops \ {"write"} /\ SameButTags(c, s)
  BY RetireLemma DEF CallInv, FlagsTellTags
<1>2. d = AfterWrite(r, ok)
  OBVIOUS
<1> HIDE DEF s
<1>3. /\ r \in Call /\ r.ops = c.ops \ {"write"} /\ r.pending = Cardinality(r.ops)
      /\ r.delivered = c.delivered /\ r.replied = c.replied /\ r.dead = c.dead
      /\ ~r.write_inflight /\ r.read_inflight = c.read_inflight
      /\ r.finish_posted = c.finish_posted /\ r.has_final_write = c.has_final_write
      /\ r.write_queue = c.write_queue
  BY <1>1 DEF SameButTags, Call
<1> HIDE DEF r
<1>4. c.delivered /\ ~c.finish_posted /\ c.write_queue \in Seq(Nat) /\ c.write_queue # <<>>
      /\ Settled(c)
  BY DEF CallInv, FlagsTellTags, LifeOrder, Call
<1>5. CASE ok /\ ~r.dead
  <2> DEFINE a == [r EXCEPT !.write_queue = Tail(@)]
  <2>1. Tail(r.write_queue) \in Seq(Nat)
    BY <1>3, <1>4, HeadTailProperties
  <2>2. /\ a \in Call /\ a.ops = r.ops /\ a.pending = r.pending
        /\ a.delivered = r.delivered /\ a.replied = r.replied /\ a.dead = r.dead
        /\ ~a.write_inflight /\ a.read_inflight = r.read_inflight
        /\ a.finish_posted = r.finish_posted /\ a.has_final_write = r.has_final_write
    BY <1>3, <2>1 DEF Call
  <2>3. d = pump_locked(a)
    BY <1>2, <1>5 DEF AfterWrite
  <2> HIDE DEF a
  <2>4. CallInv(a) /\ a.delivered /\ Settled(a)
    BY <1>3, <1>4, <2>2 DEF CallInv, FlagsTellTags, LifeOrder, Settled
  <2> QED
    BY <1>3, <1>5, <2>2, <2>3, <2>4, PumpLemma DEF Steps
<1>6. CASE ~(ok /\ ~r.dead)
  <2>1. d = [r EXCEPT !.dead = TRUE]
    BY <1>2, <1>6 DEF AfterWrite
  <2>2. /\ d \in Call /\ d.ops = r.ops /\ d.pending = r.pending
        /\ d.delivered = r.delivered /\ d.replied = r.replied /\ d.dead
        /\ ~d.write_inflight /\ d.read_inflight = r.read_inflight
        /\ d.finish_posted = r.finish_posted /\ d.has_final_write = r.has_final_write
    BY <1>3, <2>1 DEF Call
  <2>3. CallInv(d)
    BY <1>3, <1>4, <2>2 DEF CallInv, FlagsTellTags, LifeOrder, Settled
  <2> QED
    BY <1>3, <2>2, <2>3 DEF Steps, Pumped
<1> QED
  BY <1>5, <1>6

\* case done: the call R has not answered is dead.
AfterDone(c) ==
    LET r == Retire(c, "done") IN IF Abandoned(r) THEN [r EXCEPT !.dead = TRUE] ELSE r

LEMMA DoneCaseLemma ==
    ASSUME NEW c, CallInv(c), "done" \in c.ops, NEW d, d = AfterDone(c)
    PROVE  Steps(c, d) /\ d.ops = c.ops \ {"done"} /\ KeepsWrites(c, d)
           /\ d.delivered = c.delivered
<1> DEFINE r == Retire(c, "done")
<1>1. /\ r \in Call /\ r.pending = Cardinality(r.ops)
      /\ r.ops = c.ops \ {"done"} /\ SameButTags(c, r)
  BY RetireLemma DEF CallInv, FlagsTellTags
<1>2. d = IF Abandoned(r) THEN [r EXCEPT !.dead = TRUE] ELSE r
  BY DEF AfterDone
<1> HIDE DEF r
<1>3. /\ d \in Call /\ d.pending = r.pending /\ d.ops = r.ops
      /\ d.delivered = r.delivered /\ d.replied = r.replied /\ d.dead = (r.dead \/ Abandoned(r))
      /\ d.write_inflight = r.write_inflight /\ d.read_inflight = r.read_inflight
      /\ d.finish_posted = r.finish_posted /\ d.has_final_write = r.has_final_write
      /\ d.write_queue = r.write_queue
  BY <1>1, <1>2 DEF Call
<1>4. CallInv(d)
  BY <1>1, <1>3 DEF CallInv, FlagsTellTags, LifeOrder, Settled, Abandoned, SameButTags
<1>5. KeepsWrites(c, d) /\ d.delivered = c.delivered
  BY <1>1, <1>3 DEF KeepsWrites, SameButTags
<1> QED
  BY <1>1, <1>3, <1>4, <1>5 DEF Steps, Pumped, SameButTags

\* case finish.
LEMMA FinishCaseLemma ==
    ASSUME NEW c, CallInv(c), "finish" \in c.ops, NEW d, d = Retire(c, "finish")
    PROVE  Steps(c, d) /\ d.ops = c.ops \ {"finish"} /\ KeepsWrites(c, d)
           /\ d.delivered = c.delivered
<1>1. /\ d \in Call /\ d.pending = Cardinality(d.ops)
      /\ d.ops = c.ops \ {"finish"} /\ SameButTags(c, d)
  BY RetireLemma DEF CallInv, FlagsTellTags
<1>2. CallInv(d)
  BY <1>1 DEF CallInv, FlagsTellTags, LifeOrder, Settled, SameButTags
<1> QED
  BY <1>1, <1>2 DEF Steps, Pumped, SameButTags, KeepsWrites

-----------------------------------------------------------------------------
(* R's operations on a call that is answerable, or may be read.            *)

\* Call a is call c with the queue q and, perhaps, an answer.
Requeued(c, a, q) ==
    /\ a \in Call /\ a.ops = c.ops /\ a.pending = c.pending
    /\ a.delivered = c.delivered /\ a.dead = c.dead /\ a.finish_posted = c.finish_posted
    /\ a.read_inflight = c.read_inflight /\ a.write_inflight = c.write_inflight
    /\ a.write_queue = q

\* grpc_send, grpc_reply and grpc_finish up to pump_locked: on an answerable call
\* the queue may change as long as the write in flight stays at its front.
LEMMA RequeueLemma ==
    ASSUME NEW c, CallInv(c), c.delivered, ~c.replied, ~c.dead, c.ops # {},
           NEW q, c.write_inflight => q # <<>>,
           NEW a, Requeued(c, a, q), a.has_final_write => a.replied
    PROVE  CallInv(a) /\ a.delivered /\ Settled(a) /\ a.ops = c.ops
<1>1. ~c.finish_posted
  BY DEF CallInv, LifeOrder
<1> QED
  BY <1>1 DEF Requeued, CallInv, FlagsTellTags, LifeOrder, Settled

\* grpc_read.
LEMMA ReadLemma ==
    ASSUME NEW c, CallInv(c), c.delivered, ~c.dead, ~c.read_inflight, c.ops # {}, Pumped(c),
           NEW d, d = Post([c EXCEPT !.read_inflight = TRUE], "read")
    PROVE  CallInv(d) /\ Pumped(d) /\ d.ops = c.ops \cup {"read"} /\ KeepsWrites(c, d)
           /\ d.delivered = c.delivered
<1> DEFINE a == [c EXCEPT !.read_inflight = TRUE]
<1>1. /\ a \in Call /\ a.ops = c.ops /\ a.pending = c.pending
      /\ a.delivered /\ a.replied = c.replied /\ ~a.dead /\ a.read_inflight
      /\ a.has_final_write = c.has_final_write /\ a.write_inflight = c.write_inflight
      /\ a.finish_posted = c.finish_posted /\ a.write_queue = c.write_queue
  BY DEF CallInv, Call
<1>2. d = Post(a, "read")
  OBVIOUS
<1> HIDE DEF a
<1>3. "read" \in OpKinds \ a.ops
  BY <1>1 DEF CallInv, FlagsTellTags, OpKinds
<1>4. /\ d \in Call /\ d.pending = Cardinality(d.ops)
      /\ d.ops = c.ops \cup {"read"} /\ SameButTags(a, d)
  BY <1>1, <1>2, <1>3, PostLemma DEF CallInv, FlagsTellTags
<1>5. CallInv(d)
  BY <1>1, <1>4 DEF CallInv, FlagsTellTags, LifeOrder, Settled, SameButTags
<1> QED
  BY <1>1, <1>4, <1>5 DEF Pumped, SameButTags, KeepsWrites

\* An accepted call, with its first read or, on a closing server, without.
LEMMA AcceptLemma ==
    ASSUME NEW d,
           d = IF Shutting THEN [Post(NewCall, "done") EXCEPT !.dead = TRUE]
               ELSE Post(Post([NewCall EXCEPT !.read_inflight = TRUE], "done"), "read")
    PROVE  CallInv(d) /\ Pumped(d) /\ "done" \in d.ops /\ (Shutting => d.ops = {"done"})
           /\ ~d.delivered /\ ~d.replied /\ ~d.finish_posted /\ d.write_queue = <<>>
           /\ ~d.has_final_write /\ ~d.write_inflight
<1> DEFINE n == NewCall
           a == [NewCall EXCEPT !.read_inflight = TRUE]
<1>1. Cardinality({}) = 0
  BY FS_EmptySet
<1>2. /\ n \in Call /\ n.ops = {} /\ n.pending = Cardinality(n.ops)
      /\ ~n.delivered /\ ~n.replied /\ ~n.dead /\ ~n.read_inflight /\ ~n.write_inflight
      /\ ~n.finish_posted /\ ~n.has_final_write /\ n.write_queue = <<>>
  BY <1>1 DEF NewCall, Call
<1>3. /\ a \in Call /\ a.ops = {} /\ a.pending = Cardinality(a.ops)
      /\ ~a.delivered /\ ~a.replied /\ ~a.dead /\ a.read_inflight /\ ~a.write_inflight
      /\ ~a.finish_posted /\ ~a.has_final_write /\ a.write_queue = <<>>
  BY <1>2 DEF Call
<1> HIDE DEF n, a
<1>4. CASE Shutting
  <2> DEFINE p == Post(n, "done")
  <2>1. /\ p \in Call /\ p.pending = Cardinality(p.ops)
        /\ p.ops = {"done"} /\ SameButTags(n, p)
    BY <1>2, PostLemma DEF OpKinds
  <2>2. d = [p EXCEPT !.dead = TRUE]
    BY <1>4 DEF n
  <2> HIDE DEF p
  <2>3. /\ d \in Call /\ d.pending = Cardinality(d.ops) /\ d.ops = {"done"}
        /\ ~d.delivered /\ ~d.replied /\ d.dead /\ ~d.read_inflight /\ ~d.write_inflight
        /\ ~d.finish_posted /\ ~d.has_final_write /\ d.write_queue = <<>>
    BY <1>2, <2>1, <2>2 DEF SameButTags, Call
  <2> QED
    BY <2>3 DEF CallInv, FlagsTellTags, LifeOrder, Settled, Pumped
<1>5. CASE ~Shutting
  <2> DEFINE p == Post(a, "done")
  <2>1. /\ p \in Call /\ p.pending = Cardinality(p.ops)
        /\ p.ops = {"done"} /\ SameButTags(a, p)
    BY <1>3, PostLemma DEF OpKinds
  <2>2. d = Post(p, "read")
    BY <1>5 DEF a
  <2> HIDE DEF p
  <2>3. "read" \in OpKinds \ p.ops
    BY <2>1 DEF OpKinds
  <2>4. /\ d \in Call /\ d.pending = Cardinality(d.ops)
        /\ d.ops = p.ops \cup {"read"} /\ SameButTags(p, d)
    BY <2>1, <2>2, <2>3, PostLemma
  <2>5. /\ ~d.delivered /\ ~d.replied /\ ~d.dead /\ d.read_inflight /\ ~d.write_inflight
        /\ ~d.finish_posted /\ ~d.has_final_write /\ d.write_queue = <<>>
    BY <1>3, <2>1, <2>4 DEF SameButTags
  <2> QED
    BY <1>5, <2>1, <2>4, <2>5 DEF CallInv, FlagsTellTags, LifeOrder, Settled, Pumped
<1> QED
  BY <1>4, <1>5

-----------------------------------------------------------------------------
(* The invariant of the tags, step by step.                                *)

\* The type of an event queue that has had n events.
EventsUpTo(n) == [kind : EventKinds, id : Ids, val : Nat, stamp : 1..n]

\* push_event_locked keeps the queue finite and typed; so does leaving it alone.
LEMMA EmitLemma ==
    ASSUME arrived \in Nat, ready \subseteq EventsUpTo(arrived), IsFiniteSet(ready),
           NEW k \in EventKinds, NEW i \in Ids, NEW v \in Nat, Emit(k, i, v)
    PROVE  arrived' \in Nat /\ ready' \subseteq EventsUpTo(arrived') /\ IsFiniteSet(ready')
<1> DEFINE e == [kind |-> k, id |-> i, val |-> v, stamp |-> arrived + 1]
<1>1. arrived' = arrived + 1 /\ ready' = ready \cup {e}
  BY DEF Emit
<1>2. e \in EventsUpTo(arrived + 1)
  BY DEF EventsUpTo
<1> HIDE DEF e
<1>3. EventsUpTo(arrived) \subseteq EventsUpTo(arrived + 1)
  BY DEF EventsUpTo
<1>4. IsFiniteSet(ready \cup {e})
  BY FS_AddElement
<1> QED
  BY <1>1, <1>2, <1>3, <1>4

LEMMA QuietLemma ==
    ASSUME arrived \in Nat, ready \subseteq EventsUpTo(arrived), IsFiniteSet(ready), Quiet
    PROVE  arrived' \in Nat /\ ready' \subseteq EventsUpTo(arrived') /\ IsFiniteSet(ready')
  BY DEF Quiet, EventsUpTo

\* post_accepts_locked stays within the window.
LEMMA SlotsInWindow ==
    ASSUME NEW slots \in 0..accept_window, NEW n \in Nat
    PROVE  /\ SlotsAfter(slots, n) \in 0..accept_window
           /\ Shutting => SlotsAfter(slots, n) = slots
<1>1. max_active \in Nat /\ accept_window \in Nat
  BY ServerAssumption
<1> QED
  BY <1>1 DEF SlotsAfter

\* A call is freed exactly when its last tag is.
LEMMA FreedWithLastTag ==
    ASSUME NEW d, CallInv(d), NEW i
    PROVE  LiveAfter(i, d) = IF d.ops = {} THEN active \ {i} ELSE active
<1>1. d.ops \in SUBSET OpKinds /\ d.pending = Cardinality(d.ops)
  BY DEF CallInv, Call, FlagsTellTags
<1>2. d.pending = 0 <=> d.ops = {}
  BY <1>1, OpsFinite, FS_EmptySet
<1> QED
  BY <1>2 DEF LiveAfter

\* A step that leaves the calls alone.
LEMMA TagUnchanged ==
    ASSUME TagInv, UNCHANGED <<next_id, active, cl, accepts_outstanding>>,
           phase' \in {"open", "shutting", "cancelled", "cqdown", "closed"},
           Shutting => phase' # "open",
           waiting' \in 0..MaxCalls, next_id + waiting' <= MaxCalls + 1,
           arrived' \in Nat, ready' \subseteq EventsUpTo(arrived'), IsFiniteSet(ready'),
           net' \in [Ids -> Net],
           handed' \in [Ids -> [kinds : SUBSET EventKinds, msgs : Nat]]
    PROVE  TagInv'
<1>1. TypeOK'
  BY DEF TagInv, TypeOK, EventsUpTo
<1>2. ActiveWhileTagged'
  BY DEF TagInv, ActiveWhileTagged
<1> QED
  BY <1>1, <1>2 DEF TagInv, Shutting

\* One of R's operations on call i, which leaves it d.
LEMMA TagOperation ==
    ASSUME TagInv, phase = "open", NEW i \in Ids, i \in active,
           NEW d, CallInv(d), Pumped(d), d.ops # {}, cl' = [cl EXCEPT ![i] = d],
           net' \in [Ids -> Net],
           UNCHANGED <<phase, next_id, active, accepts_outstanding, ready, arrived,
                       waiting, handed>>
    PROVE  TagInv'
<1>0. cl \in [Ids -> Call] /\ d \in Call
  BY DEF TagInv, TypeOK, CallInv
<1>1. cl' \in [Ids -> Call] /\ \A j \in Ids : cl'[j] = IF j = i THEN d ELSE cl[j]
  BY <1>0
<1>2. TypeOK'
  BY <1>1 DEF TagInv, TypeOK
<1>3. ActiveWhileTagged'
  BY <1>1 DEF TagInv, ActiveWhileTagged
<1>4. \A j \in Ids : CallInv(cl'[j])
  BY <1>1 DEF TagInv
<1>5. active \subseteq Ids
  BY DEF TagInv, TypeOK
<1>6. \A j \in active : Pumped(cl'[j])
  BY <1>1, <1>5 DEF TagInv, Shutting
<1> QED
  BY <1>2, <1>3, <1>4, <1>6 DEF TagInv, Shutting

\* A completion on call i, which leaves it d.
LEMMA TagCompletion ==
    ASSUME TagInv, NEW i \in Ids, cl[i].ops # {}, NEW d, Steps(cl[i], d), CallCase(i, d),
           accepts_outstanding' \in 0..accept_window,
           arrived' \in Nat, ready' \subseteq EventsUpTo(arrived'), IsFiniteSet(ready'),
           net' \in [Ids -> Net]
    PROVE  TagInv'
<1>0. cl \in [Ids -> Call] /\ d \in Call /\ active \subseteq Ids /\ CallInv(d)
  BY DEF TagInv, TypeOK, CallInv, Steps
<1>1. cl' \in [Ids -> Call] /\ \A j \in Ids : cl'[j] = IF j = i THEN d ELSE cl[j]
  BY <1>0 DEF CallCase
<1>2. active' = IF d.ops = {} THEN active \ {i} ELSE active
  BY <1>0, FreedWithLastTag DEF CallCase
<1>3. UNCHANGED <<phase, next_id, waiting, handed>>
  BY DEF CallCase
<1>4. TypeOK'
  BY <1>0, <1>1, <1>2, <1>3 DEF TagInv, TypeOK, EventsUpTo
<1>5. i \in active
  BY DEF TagInv, ActiveWhileTagged
<1>6. ActiveWhileTagged'
  BY <1>1, <1>2, <1>5 DEF TagInv, ActiveWhileTagged
<1>7. \A j \in Ids : CallInv(cl'[j])
  BY <1>0, <1>1 DEF TagInv
<1>8. ~Shutting => \A j \in active' : Pumped(cl'[j])
  BY <1>0, <1>1, <1>2, <1>5 DEF TagInv, Steps
<1>9. \A j \in active' : j < next_id
  BY <1>2 DEF TagInv
<1> QED
  BY <1>3, <1>4, <1>6, <1>7, <1>8, <1>9 DEF TagInv, Shutting

\* A call is accepted: the next id is one the peers have not used.
LEMMA TagAccept ==
    ASSUME TagInv, AcceptOk, IsFiniteSet(active)
    PROVE  TagInv' /\ next_id \in Ids /\ next_id \notin active
           /\ "done" \in cl'[next_id].ops /\ (Shutting => cl'[next_id].ops = {"done"})
<1> DEFINE d == IF Shutting THEN [Post(NewCall, "done") EXCEPT !.dead = TRUE]
                ELSE Post(Post([NewCall EXCEPT !.read_inflight = TRUE], "done"), "read")
<1>1. CallInv(d) /\ Pumped(d) /\ "done" \in d.ops /\ (Shutting => d.ops = {"done"})
  BY AcceptLemma
<1>2. /\ accepts_outstanding > 0 /\ waiting > 0 /\ waiting' = waiting - 1
      /\ next_id' = next_id + 1 /\ active' = active \cup {next_id}
      /\ cl' = [cl EXCEPT ![next_id] = d]
      /\ accepts_outstanding' = SlotsAfter(accepts_outstanding - 1, Cardinality(active'))
      /\ net' = [net EXCEPT ![next_id].over = phase \in {"cancelled", "cqdown"}]
      /\ UNCHANGED <<phase, ready, arrived, handed>>
  BY DEF AcceptOk
<1> HIDE DEF d
<1>3. /\ MaxCalls \in Nat /\ accept_window \in Nat
      /\ waiting \in 0..MaxCalls /\ next_id \in 1..(MaxCalls + 1)
      /\ next_id + waiting <= MaxCalls + 1 /\ accepts_outstanding \in 0..accept_window
      /\ cl \in [Ids -> Call] /\ net \in [Ids -> Net] /\ active \subseteq Ids
  BY ServerAssumption DEF TagInv, TypeOK
<1>4. /\ next_id \in Ids /\ next_id' \in 1..(MaxCalls + 1) /\ waiting' \in 0..MaxCalls
      /\ next_id' + waiting' <= MaxCalls + 1 /\ next_id < next_id'
  BY <1>2, <1>3 DEF Ids
<1>5. Cardinality(active') \in Nat
  BY <1>2, FS_AddElement, FS_CardinalityType
<1>6. accepts_outstanding' \in 0..accept_window
  BY <1>2, <1>3, <1>5, SlotsInWindow
<1>7. net' \in [Ids -> Net]
  <2> DEFINE o == phase \in {"cancelled", "cqdown"}
  <2>1. net[next_id] \in Net /\ o \in BOOLEAN
    BY <1>3, <1>4
  <2>2. net' = [net EXCEPT ![next_id].over = o]
    BY <1>2
  <2> HIDE DEF o
  <2>3. [net[next_id] EXCEPT !.over = o] \in Net
    BY <2>1 DEF Net
  <2> QED
    BY <1>3, <2>2, <2>3
<1>8. d \in Call /\ cl' \in [Ids -> Call]
      /\ \A j \in Ids : cl'[j] = IF j = next_id THEN d ELSE cl[j]
  BY <1>1, <1>2, <1>3 DEF CallInv
<1>9. TypeOK'
  BY <1>2, <1>3, <1>4, <1>6, <1>7, <1>8 DEF TagInv, TypeOK
<1>10. ActiveWhileTagged'
  BY <1>1, <1>2, <1>3, <1>8 DEF TagInv, ActiveWhileTagged
<1>11. \A j \in Ids : CallInv(cl'[j])
  BY <1>1, <1>8 DEF TagInv
<1>12. ~Shutting => \A j \in active' : Pumped(cl'[j])
  BY <1>1, <1>2, <1>3, <1>8 DEF TagInv
<1>13. next_id \notin active
  BY <1>3 DEF TagInv
<1>14. \A j \in active' : j < next_id'
  BY <1>2, <1>3, <1>4 DEF TagInv, Ids
<1>15. TagInv'
  BY <1>2, <1>4, <1>9, <1>10, <1>11, <1>12, <1>14 DEF TagInv, Shutting
<1> QED
  BY <1>1, <1>4, <1>8, <1>13, <1>15

LEMMA ActiveFinite ==
    ASSUME TagInv
    PROVE  IsFiniteSet(active) /\ Cardinality(active) \in Nat
<1>1. active \subseteq 1..MaxCalls /\ MaxCalls \in Nat
  BY ServerAssumption DEF TagInv, TypeOK, Ids
<1>2. IsFiniteSet(1..MaxCalls)
  BY <1>1, FS_Interval
<1> QED
  BY <1>1, <1>2, FS_Subset, FS_CardinalityType

\* What TagInv says of one call and its RPC.
LEMMA TagFacts ==
    ASSUME TagInv, NEW i \in Ids
    PROVE  /\ CallInv(cl[i]) /\ cl[i] \in Call
           /\ net[i] \in Net /\ cl \in [Ids -> Call] /\ net \in [Ids -> Net]
           /\ i \in active <=> cl[i].ops # {}
           /\ ~Shutting /\ i \in active => Pumped(cl[i])
  BY DEF TagInv, TypeOK, CallInv, ActiveWhileTagged

LEMMA TagReply ==
    ASSUME TagInv, NEW i \in Ids, NEW payload \in BOOLEAN, Reply(i, payload)
    PROVE  TagInv'
<1> DEFINE c == cl[i]
           a == [c EXCEPT !.replied = TRUE, !.has_final_write = payload]
           d == pump_locked(a)
<1>1. /\ phase = "open" /\ i \in active /\ c.delivered /\ ~c.replied /\ ~c.dead
      /\ cl' = [cl EXCEPT ![i] = d]
      /\ UNCHANGED <<phase, next_id, active, accepts_outstanding, ready, arrived,
                     waiting, handed>>
      /\ net' = net
  BY DEF Reply, Answerable
<1>2. CallInv(c) /\ c \in Call /\ c.ops # {} /\ net \in [Ids -> Net]
  BY <1>1, TagFacts
<1>3. /\ c.write_inflight => c.write_queue # <<>>
      /\ Requeued(c, a, c.write_queue) /\ a.replied
  BY <1>2 DEF CallInv, LifeOrder, Call, Requeued
<1> HIDE DEF a
<1>4. CallInv(a) /\ a.delivered /\ Settled(a) /\ a.ops = c.ops
  BY <1>1, <1>2, <1>3, RequeueLemma
<1>5. CallInv(d) /\ (~Shutting => Pumped(d)) /\ a.ops \subseteq d.ops
  BY <1>4, PumpLemma
<1> QED
  BY <1>1, <1>2, <1>4, <1>5, TagOperation DEF Shutting

\* What an abortive finish leaves: the front of the queue, or nothing.
LEMMA DiscardedLemma ==
    ASSUME NEW c, CallInv(c)
    PROVE  /\ Discarded(c) \in Seq(Nat)
           /\ c.write_inflight => /\ Len(Discarded(c)) = 1 /\ Len(c.write_queue) >= 1
                                  /\ Discarded(c)[1] = c.write_queue[1]
           /\ ~c.write_inflight => Discarded(c) = <<>>
<1>1. c.write_queue \in Seq(Nat) /\ (c.write_inflight => c.write_queue # <<>>)
  BY DEF CallInv, Call, LifeOrder
<1>2. c.write_inflight => Len(c.write_queue) >= 1
  BY <1>1, EmptySeq, LenProperties
<1>3. ~c.write_inflight => Discarded(c) = <<>> /\ Discarded(c) \in Seq(Nat)
  BY EmptySeq DEF Discarded
<1>4. ASSUME c.write_inflight
      PROVE  /\ Discarded(c) \in Seq(Nat) /\ Len(Discarded(c)) = 1
             /\ Discarded(c)[1] = c.write_queue[1]
  <2>1. Discarded(c) = SubSeq(c.write_queue, 1, 1)
    BY <1>4 DEF Discarded
  <2> QED
    BY <1>1, <1>2, <1>4, <2>1, SubSeqProperties
<1> QED
  BY <1>2, <1>3, <1>4

LEMMA TagFinish ==
    ASSUME TagInv, NEW i \in Ids, NEW drain \in BOOLEAN, Finish(i, drain)
    PROVE  TagInv'
<1> DEFINE c == cl[i]
           q == IF drain THEN c.write_queue ELSE Discarded(c)
           a == [c EXCEPT !.replied = TRUE, !.has_final_write = FALSE, !.write_queue = q]
           d == pump_locked(a)
<1>1. /\ phase = "open" /\ i \in active /\ c.delivered /\ ~c.replied /\ ~c.dead
      /\ cl' = [cl EXCEPT ![i] = d]
      /\ UNCHANGED <<phase, next_id, active, accepts_outstanding, ready, arrived,
                     waiting, handed>>
      /\ net' = IF drain THEN net ELSE [net EXCEPT ![i].abort = Len(net[i].wire)]
  BY DEF Finish, Answerable
<1>2. CallInv(c) /\ c \in Call /\ c.ops # {} /\ net \in [Ids -> Net] /\ net[i] \in Net
  BY <1>1, TagFacts
<1>3. net' \in [Ids -> Net]
  <2>1. Len(net[i].wire) \in Int
    BY <1>2, LenProperties DEF Net
  <2>2. [net[i] EXCEPT !.abort = Len(net[i].wire)] \in Net
    BY <1>2, <2>1 DEF Net
  <2> QED
    BY <1>1, <1>2, <2>2
<1>4. q \in Seq(Nat) /\ (c.write_inflight => q # <<>>)
  <2>1. c.write_queue \in Seq(Nat) /\ (c.write_inflight => c.write_queue # <<>>)
    BY <1>2 DEF CallInv, LifeOrder, Call
  <2>2. Discarded(c) \in Seq(Nat) /\ (c.write_inflight => Discarded(c) # <<>>)
    BY <1>2, DiscardedLemma, EmptySeq
  <2> QED
    BY <2>1, <2>2
<1> HIDE DEF q
<1>5. Requeued(c, a, q) /\ a.replied
  BY <1>2, <1>4 DEF Call, Requeued
<1> HIDE DEF a
<1>6. CallInv(a) /\ a.delivered /\ Settled(a) /\ a.ops = c.ops
  BY <1>1, <1>2, <1>4, <1>5, RequeueLemma
<1>7. CallInv(d) /\ (~Shutting => Pumped(d)) /\ a.ops \subseteq d.ops
  BY <1>6, PumpLemma
<1> QED
  BY <1>1, <1>2, <1>3, <1>6, <1>7, TagOperation DEF Shutting

LEMMA TagRead ==
    ASSUME TagInv, NEW i \in Ids, Read(i)
    PROVE  TagInv'
<1> DEFINE c == cl[i]
           d == Post([c EXCEPT !.read_inflight = TRUE], "read")
<1>1. /\ phase = "open" /\ i \in active /\ c.delivered /\ ~c.dead /\ ~c.read_inflight
      /\ cl' = [cl EXCEPT ![i] = d]
      /\ UNCHANGED <<phase, next_id, active, accepts_outstanding, ready, arrived,
                     waiting, handed>>
      /\ net' = net
  BY DEF Read
<1>2. CallInv(c) /\ c.ops # {} /\ Pumped(c) /\ net \in [Ids -> Net]
  BY <1>1, TagFacts DEF Shutting
<1>3. CallInv(d) /\ Pumped(d) /\ c.ops \subseteq d.ops
  BY <1>1, <1>2, ReadLemma
<1> QED
  BY <1>1, <1>2, <1>3, TagOperation

LEMMA TagSend ==
    ASSUME TagInv, NEW i \in Ids, Send(i)
    PROVE  TagInv'
<1> DEFINE c == cl[i]
           q == Append(c.write_queue, net[i].accepted + 1)
           a == [c EXCEPT !.write_queue = q]
           d == pump_locked(a)
<1>1. /\ phase = "open" /\ i \in active /\ c.delivered /\ ~c.replied /\ ~c.dead
      /\ net[i].accepted < MaxSends /\ net' = [net EXCEPT ![i].accepted = @ + 1]
      /\ cl' = [cl EXCEPT ![i] = d]
      /\ UNCHANGED <<phase, next_id, active, accepts_outstanding, ready, arrived,
                     waiting, handed>>
  BY DEF Send, Answerable
<1>2. CallInv(c) /\ c.ops # {} /\ net \in [Ids -> Net] /\ net[i] \in Net
  BY <1>1, TagFacts
<1>3. net[i].accepted \in Nat /\ net[i].accepted + 1 \in 0..MaxSends
  BY <1>1, <1>2, ServerAssumption DEF Net
<1>4. net' \in [Ids -> Net]
  <2>1. [net[i] EXCEPT !.accepted = net[i].accepted + 1] \in Net
    BY <1>2, <1>3 DEF Net
  <2> QED
    BY <1>1, <1>2, <2>1
<1>5. net[i].accepted + 1 \in Nat /\ c \in Call /\ c.write_queue \in Seq(Nat)
  BY <1>2, <1>3 DEF CallInv, Call
<1>6. q \in Seq(Nat) /\ q # <<>>
  BY <1>5, AppendProperties
<1> HIDE DEF q
<1>7. Requeued(c, a, q) /\ a.replied = c.replied /\ a.has_final_write = c.has_final_write
      /\ (c.has_final_write => c.replied)
  BY <1>2, <1>5, <1>6 DEF Call, Requeued, CallInv, LifeOrder
<1> HIDE DEF a
<1>8. CallInv(a) /\ a.delivered /\ Settled(a) /\ a.ops = c.ops
  BY <1>1, <1>2, <1>6, <1>7, RequeueLemma
<1>9. CallInv(d) /\ (~Shutting => Pumped(d)) /\ a.ops \subseteq d.ops
  BY <1>8, PumpLemma
<1> QED
  BY <1>1, <1>2, <1>4, <1>8, <1>9, TagOperation DEF Shutting

\* A step of the peers or of the network on the RPC alone.
LEMMA TagNet ==
    ASSUME TagInv, UNCHANGED <<next_id, active, cl, accepts_outstanding, ready, arrived,
                               waiting, handed>>,
           phase' \in {"open", "shutting", "cancelled", "cqdown", "closed"},
           Shutting => phase' # "open", net' \in [Ids -> Net]
    PROVE  TagInv'
<1>1. /\ waiting' \in 0..MaxCalls /\ next_id + waiting' <= MaxCalls + 1
      /\ arrived' \in Nat /\ ready' \subseteq EventsUpTo(arrived') /\ IsFiniteSet(ready')
      /\ handed' \in [Ids -> [kinds : SUBSET EventKinds, msgs : Nat]]
  BY DEF TagInv, TypeOK, EventsUpTo
<1> QED
  BY <1>1, TagUnchanged

LEMMA TagPoll ==
    ASSUME TagInv, NEW want \in Ids \cup {All}, NEW maxn \in PollSizes, Poll(want, maxn)
    PROVE  TagInv'
<1> DEFINE batch == Batch(ready, want, maxn)
<1>1. batch \subseteq ready
  BY DEF Batch
<1>2. /\ ready' = ready \ batch
      /\ handed' = [i \in Ids |->
                      [kinds |-> handed[i].kinds \cup {e.kind : e \in {f \in batch : f.id = i}},
                       msgs |-> handed[i].msgs + Cardinality(Msgs(batch, i))]]
      /\ UNCHANGED <<phase, next_id, active, cl, accepts_outstanding, arrived, waiting, net>>
  BY DEF Poll
<1> HIDE DEF batch
<1>3. /\ ready \subseteq EventsUpTo(arrived) /\ IsFiniteSet(ready) /\ net \in [Ids -> Net]
      /\ handed \in [Ids -> [kinds : SUBSET EventKinds, msgs : Nat]]
      /\ phase \in {"open", "shutting", "cancelled", "cqdown", "closed"}
      /\ waiting \in 0..MaxCalls /\ next_id + waiting <= MaxCalls + 1 /\ arrived \in Nat
  BY DEF TagInv, TypeOK, EventsUpTo
<1>4. IsFiniteSet(ready') /\ ready' \subseteq EventsUpTo(arrived')
  BY <1>2, <1>3, FS_Subset DEF EventsUpTo
<1>5. handed' \in [Ids -> [kinds : SUBSET EventKinds, msgs : Nat]]
  <2>1. SUFFICES ASSUME NEW i \in Ids
                 PROVE  /\ handed[i].kinds \cup {e.kind : e \in {f \in batch : f.id = i}}
                               \in SUBSET EventKinds
                        /\ handed[i].msgs + Cardinality(Msgs(batch, i)) \in Nat
    BY <1>2
  <2>2. handed[i].kinds \in SUBSET EventKinds /\ handed[i].msgs \in Nat
    BY <1>3
  <2>3. \A e \in batch : e.kind \in EventKinds
    BY <1>1, <1>3 DEF EventsUpTo
  <2>4. Msgs(batch, i) \subseteq ready
    BY <1>1 DEF Msgs
  <2>5. Cardinality(Msgs(batch, i)) \in Nat
    BY <1>3, <2>4, FS_Subset, FS_CardinalityType
  <2> QED
    BY <2>2, <2>3, <2>5
<1> QED
  BY <1>2, <1>3, <1>4, <1>5, TagUnchanged DEF Shutting

LEMMA TagCompleteRead ==
    ASSUME TagInv, NEW i \in Ids, NEW ok \in BOOLEAN, CompleteRead(i, ok)
    PROVE  TagInv'
<1> DEFINE c == cl[i]
           d == AfterRead(c, ok)
           k == ReadOutcome([Retire(c, "read") EXCEPT !.read_inflight = FALSE], ok)
<1>1. CallCase(i, d)
  BY DEF CompleteRead, AfterRead
<1>2. /\ "read" \in c.ops /\ (ok => net[i].taken < net[i].sent)
      /\ net' = IF ok THEN [net EXCEPT ![i].taken = @ + 1] ELSE net
      /\ accepts_outstanding' = accepts_outstanding
      /\ IF k = "none" THEN Quiet ELSE Emit(k, i, IF ok THEN net[i].taken + 1 ELSE 0)
  BY DEF CompleteRead
<1>3. k \in EventKinds \cup {"none"}
  BY DEF ReadOutcome, EventKinds
<1> HIDE DEF k, d
<1>4. CallInv(c) /\ net \in [Ids -> Net] /\ net[i] \in Net
  BY TagFacts
<1>5. Steps(c, d)
  BY <1>2, <1>4, ReadCaseLemma DEF d
<1>6. net[i].taken \in Nat /\ net' \in [Ids -> Net]
  <2>1. net[i].taken \in Nat /\ (ok => net[i].taken + 1 \in 0..MaxMsgs)
    BY <1>2, <1>4, ServerAssumption DEF Net
  <2>2. ok => [net[i] EXCEPT !.taken = net[i].taken + 1] \in Net
    BY <1>4, <2>1 DEF Net
  <2> QED
    BY <1>2, <1>4, <2>1, <2>2
<1>7. /\ accepts_outstanding' \in 0..accept_window
      /\ arrived \in Nat /\ ready \subseteq EventsUpTo(arrived) /\ IsFiniteSet(ready)
  BY <1>2 DEF TagInv, TypeOK, EventsUpTo
<1>8. arrived' \in Nat /\ ready' \subseteq EventsUpTo(arrived') /\ IsFiniteSet(ready')
  <2>1. CASE k = "none"
    BY <1>2, <1>7, <2>1, QuietLemma
  <2>2. CASE k # "none"
    <3> DEFINE v == IF ok THEN net[i].taken + 1 ELSE 0
    <3>1. v \in Nat /\ k \in EventKinds /\ Emit(k, i, v)
      BY <1>2, <1>3, <1>6, <2>2
    <3> HIDE DEF v
    <3> QED
      BY <1>7, <3>1, EmitLemma
  <2> QED
    BY <2>1, <2>2
<1> QED
  BY <1>1, <1>2, <1>5, <1>6, <1>7, <1>8, TagCompletion

LEMMA TagCompleteWrite ==
    ASSUME TagInv, NEW i \in Ids, NEW ok \in BOOLEAN, CompleteWrite(i, ok)
    PROVE  TagInv'
<1> DEFINE c == cl[i]
           r == [Retire(c, "write") EXCEPT !.write_inflight = FALSE]
           d == AfterWrite(r, ok)
<1>1. CallCase(i, d)
  BY DEF CompleteWrite
<1>2. /\ "write" \in c.ops
      /\ net' = IF ok THEN [net EXCEPT ![i].wire = Append(@, Head(r.write_queue))] ELSE net
      /\ accepts_outstanding' = accepts_outstanding
      /\ Emit("stream_writable", i, 0) \/ Quiet
  BY DEF CompleteWrite
<1>3. CallInv(c) /\ net \in [Ids -> Net] /\ net[i] \in Net
  BY TagFacts
<1>4. Steps(c, d)
  BY <1>2, <1>3, WriteCaseLemma
<1>5. r.write_queue = c.write_queue
  BY <1>3 DEF CallInv, Call, Retire
<1> HIDE DEF r, d
<1>6. net' \in [Ids -> Net]
  <2>1. c.write_queue \in Seq(Nat) /\ c.write_queue # <<>>
    BY <1>2, <1>3 DEF CallInv, FlagsTellTags, LifeOrder, Call
  <2>2. Append(net[i].wire, Head(r.write_queue)) \in Seq(Nat)
    BY <1>3, <1>5, <2>1, HeadTailProperties, AppendProperties DEF Net
  <2>3. [net[i] EXCEPT !.wire = Append(net[i].wire, Head(r.write_queue))] \in Net
    BY <1>3, <2>2 DEF Net
  <2> QED
    BY <1>2, <1>3, <2>3
<1>7. /\ accepts_outstanding' \in 0..accept_window
      /\ arrived \in Nat /\ ready \subseteq EventsUpTo(arrived) /\ IsFiniteSet(ready)
  BY <1>2 DEF TagInv, TypeOK, EventsUpTo
<1>8. arrived' \in Nat /\ ready' \subseteq EventsUpTo(arrived') /\ IsFiniteSet(ready')
  <2>1. "stream_writable" \in EventKinds /\ 0 \in Nat
    BY DEF EventKinds
  <2> QED
    BY <1>2, <1>7, <2>1, QuietLemma, EmitLemma
<1> QED
  BY <1>1, <1>2, <1>4, <1>6, <1>7, <1>8, TagCompletion

\* The slots after a done or finish completion.
LEMMA TagSlots ==
    ASSUME TagInv, NEW i \in Ids, NEW d, CallCase(i, d),
           accepts_outstanding' = SlotsAfter(accepts_outstanding, Cardinality(active'))
    PROVE  /\ accepts_outstanding' \in 0..accept_window
           /\ Shutting => accepts_outstanding' = accepts_outstanding
<1>1. accepts_outstanding \in 0..accept_window
  BY DEF TagInv, TypeOK
<1>2. Cardinality(active') \in Nat
  BY ActiveFinite, LiveAfterShrinks DEF CallCase
<1> QED
  BY <1>1, <1>2, SlotsInWindow

LEMMA TagCompleteDone ==
    ASSUME TagInv, NEW i \in Ids, CompleteDone(i)
    PROVE  TagInv'
<1> DEFINE c == cl[i]
           d == AfterDone(c)
<1>1. CallCase(i, d)
  BY DEF CompleteDone, AfterDone
<1>2. /\ "done" \in c.ops /\ net' = net
      /\ accepts_outstanding' = SlotsAfter(accepts_outstanding, Cardinality(active'))
      /\ Emit("cancelled", i, 0) \/ Quiet
  BY DEF CompleteDone
<1>3. CallInv(c) /\ net \in [Ids -> Net]
  BY TagFacts
<1>4. Steps(c, d)
  BY <1>2, <1>3, DoneCaseLemma
<1> HIDE DEF d
<1>5. arrived \in Nat /\ ready \subseteq EventsUpTo(arrived) /\ IsFiniteSet(ready)
  BY <1>2 DEF TagInv, TypeOK, EventsUpTo
<1>6. arrived' \in Nat /\ ready' \subseteq EventsUpTo(arrived') /\ IsFiniteSet(ready')
  <2>1. "cancelled" \in EventKinds /\ 0 \in Nat
    BY DEF EventKinds
  <2> QED
    BY <1>2, <1>5, <2>1, QuietLemma, EmitLemma
<1>7. accepts_outstanding' \in 0..accept_window
  BY <1>1, <1>2, TagSlots
<1> QED
  BY <1>1, <1>2, <1>3, <1>4, <1>6, <1>7, TagCompletion

LEMMA TagCompleteFinish ==
    ASSUME TagInv, NEW i \in Ids, NEW ok \in BOOLEAN, CompleteFinish(i, ok)
    PROVE  TagInv'
<1> DEFINE c == cl[i]
           d == Retire(c, "finish")
           w == IF c.has_final_write THEN Append(net[i].wire, net[i].accepted + 1)
                ELSE net[i].wire
<1>1. /\ "finish" \in c.ops /\ Quiet /\ CallCase(i, d)
      /\ accepts_outstanding' = SlotsAfter(accepts_outstanding, Cardinality(active'))
      /\ net' = IF ok THEN [net EXCEPT ![i].status = TRUE, ![i].wire = w] ELSE net
  BY DEF CompleteFinish
<1>2. CallInv(c) /\ net \in [Ids -> Net] /\ net[i] \in Net
  BY TagFacts
<1>3. Steps(c, d)
  BY <1>1, <1>2, FinishCaseLemma
<1>4. w \in Seq(Nat)
  BY <1>2, AppendProperties, ServerAssumption DEF Net
<1> HIDE DEF d, w
<1>5. net' \in [Ids -> Net]
  <2>1. [net[i] EXCEPT !.status = TRUE, !.wire = w] \in Net
    BY <1>2, <1>4 DEF Net
  <2> QED
    BY <1>1, <1>2, <2>1
<1>6. arrived' \in Nat /\ ready' \subseteq EventsUpTo(arrived') /\ IsFiniteSet(ready')
  <2>1. arrived \in Nat /\ ready \subseteq EventsUpTo(arrived) /\ IsFiniteSet(ready)
    BY DEF TagInv, TypeOK, EventsUpTo
  <2> QED
    BY <1>1, <2>1, QuietLemma
<1>7. accepts_outstanding' \in 0..accept_window
  BY <1>1, TagSlots
<1> QED
  BY <1>1, <1>2, <1>3, <1>5, <1>6, <1>7, TagCompletion

LEMMA TagClose ==
    ASSUME TagInv, CloseBegin \/ CloseServer \/ CloseQueue \/ CloseJoin
    PROVE  TagInv'
<1>1. net \in [Ids -> Net] /\ phase \in {"open", "shutting", "cancelled", "cqdown", "closed"}
  BY DEF TagInv, TypeOK
<1>2. CASE CloseBegin \/ CloseQueue
  BY <1>1, <1>2, TagNet DEF CloseBegin, CloseQueue, Shutting
<1>3. CASE CloseServer
  <2>1. \A i \in Ids : [net[i] EXCEPT !.over = TRUE] \in Net
    BY <1>1 DEF Net
  <2>2. net' \in [Ids -> Net]
    BY <1>1, <1>3, <2>1 DEF CloseServer
  <2> QED
    BY <1>3, <2>2, TagNet DEF CloseServer, Shutting
<1>4. CASE CloseJoin
  <2>1. /\ \A i \in Ids : cl[i].ops = {}
        /\ active \subseteq Ids /\ ActiveWhileTagged
        /\ active' = {} /\ phase' = "closed"
        /\ UNCHANGED <<next_id, cl, accepts_outstanding, ready, arrived, waiting, net, handed>>
    BY <1>4 DEF CloseJoin, TagInv, TypeOK
  <2>2. active = {}
    BY <2>1 DEF ActiveWhileTagged
  <2> QED
    BY <1>1, <2>1, <2>2, TagNet, <1>4 DEF CloseJoin, Shutting
<1> QED
  BY <1>2, <1>3, <1>4

LEMMA TagPeer ==
    ASSUME TagInv, NEW i \in Ids,
           Cancel(i) \/ PeerSend(i) \/ PeerHalfClose(i) \/ PeerGone(i)
    PROVE  TagInv'
<1>1. /\ net \in [Ids -> Net] /\ net[i] \in Net
      /\ phase \in {"open", "shutting", "cancelled", "cqdown", "closed"}
  BY DEF TagInv, TypeOK
<1>2. [net[i] EXCEPT !.over = TRUE] \in Net /\ [net[i] EXCEPT !.half = TRUE] \in Net
  BY <1>1 DEF Net
<1>3. net[i].sent < MaxMsgs => net[i].sent + 1 \in 0..MaxMsgs
  BY <1>1, ServerAssumption DEF Net
<1>4. net[i].sent < MaxMsgs => [net[i] EXCEPT !.sent = net[i].sent + 1] \in Net
  BY <1>1, <1>3 DEF Net
<1>5. net' \in [Ids -> Net]
  BY <1>1, <1>2, <1>4 DEF Cancel, PeerSend, PeerHalfClose, PeerGone
<1> QED
  BY <1>1, <1>5, TagNet DEF Cancel, PeerSend, PeerHalfClose, PeerGone, pvars, Shutting

LEMMA TagNext ==
    ASSUME TagInv, [Next]_vars
    PROVE  TagInv'
<1>1. net \in [Ids -> Net] /\ phase \in {"open", "shutting", "cancelled", "cqdown", "closed"}
  BY DEF TagInv, TypeOK
<1>2. CASE UNCHANGED vars
  BY <1>1, <1>2, TagNet DEF vars, Shutting
<1>3. ASSUME NEW want \in Ids \cup {All}, NEW maxn \in PollSizes, Poll(want, maxn)
      PROVE  TagInv'
  BY <1>3, TagPoll
<1>4. CASE CloseAgain
  BY <1>2, <1>4 DEF CloseAgain
<1>5. CASE AcceptOk
  BY <1>5, TagAccept, ActiveFinite
<1>6. CASE AcceptFailed
  <2>1. /\ accepts_outstanding \in 0..accept_window /\ accept_window \in Nat
        /\ accepts_outstanding > 0 /\ accepts_outstanding' = accepts_outstanding - 1
        /\ UNCHANGED <<phase, next_id, active, cl, ready, arrived, waiting, net, handed>>
    BY <1>6, ServerAssumption DEF AcceptFailed, TagInv, TypeOK
  <2>2. TypeOK'
    BY <2>1 DEF TagInv, TypeOK
  <2> QED
    BY <2>1, <2>2 DEF TagInv, ActiveWhileTagged, Shutting
<1>7. CASE PeerCall
  <2>1. /\ next_id \in 1..(MaxCalls + 1) /\ waiting \in 0..MaxCalls /\ MaxCalls \in Nat
        /\ next_id + waiting <= MaxCalls /\ waiting' = waiting + 1
        /\ UNCHANGED <<phase, next_id, active, cl, accepts_outstanding, ready, arrived, handed, net>>
    BY <1>7, ServerAssumption DEF PeerCall, pvars, TagInv, TypeOK
  <2>2. waiting' \in 0..MaxCalls /\ next_id + waiting' <= MaxCalls + 1
    BY <2>1
  <2>3. TypeOK'
    BY <2>1, <2>2 DEF TagInv, TypeOK
  <2> QED
    BY <2>1, <2>2, <2>3 DEF TagInv, ActiveWhileTagged, Shutting
<1>8. ASSUME NEW i \in Ids, Complete(i) PROVE TagInv'
  BY <1>8, TagCompleteRead, TagCompleteWrite, TagCompleteDone, TagCompleteFinish DEF Complete
<1>9. ASSUME NEW i \in Ids, Read(i) \/ Send(i) PROVE TagInv'
  BY <1>9, TagRead, TagSend
<1> QED
  BY <1>2, <1>3, <1>4, <1>5, <1>6, <1>7, <1>8, <1>9,
     TagReply, TagFinish, TagClose, TagPeer DEF Next

LEMMA TagInit ==
    ASSUME Init
    PROVE  TagInv
<1>1. Cardinality({}) = 0 /\ IsFiniteSet({})
  BY FS_EmptySet
<1>2. NewCall \in Call /\ CallInv(NewCall)
  BY <1>1 DEF NewCall, Call, CallInv, FlagsTellTags, LifeOrder, Settled
<1>3. NewNet \in Net
  BY ServerAssumption DEF NewNet, Net
<1>4. TypeOK
  BY <1>2, <1>3, ServerAssumption DEF Init, TypeOK
<1>5. ActiveWhileTagged
  BY DEF Init, ActiveWhileTagged, NewCall
<1> QED
  BY <1>1, <1>2, <1>4, <1>5, ServerAssumption DEF Init, TagInv, Shutting

LEMMA TagInvariance == Spec => []TagInv
  <1>1. Init => TagInv
    BY TagInit
  <1>2. TagInv /\ [Next]_vars => TagInv'
    BY TagNext
  <1> QED
    BY <1>1, <1>2, PTL DEF Spec

-----------------------------------------------------------------------------
\* Every variable keeps its type, whatever the bounds.
THEOREM TypeTheorem == Spec => []TypeOK
  <1>1. TagInv => TypeOK
    BY DEF TagInv
  <1> QED
    BY <1>1, TagInvariance, PTL

\* server.cpp's pending counts exactly the tags of a call that are outstanding
\* at the completion queue.
THEOREM TagsCountedTheorem == Spec => []TagsCounted
  <1>1. TagInv => TagsCounted
    BY DEF TagInv, TagsCounted, CallInv, FlagsTellTags
  <1> QED
    BY <1>1, TagInvariance, PTL

\* No completion and no operation of R's meets a freed sv_call, and no call is
\* kept once its last tag is gone.
THEOREM ActiveWhileTaggedTheorem == Spec => []ActiveWhileTagged
  <1>1. TagInv => ActiveWhileTagged
    BY DEF TagInv
  <1> QED
    BY <1>1, TagInvariance, PTL

\* On an open server a living call with messages queued or an answer accepted
\* has a write in flight or its status posted.
THEOREM PumpArmedTheorem == Spec => []PumpArmed
  <1>1. TagInv => PumpArmed
    BY DEF TagInv, PumpArmed, Pumped, Shutting, TypeOK, CallInv, FlagsTellTags
  <1> QED
    BY <1>1, TagInvariance, PTL

\* What a step of a server that is shutting posts.
LEMMA ShutStep ==
    ASSUME TagInv, Next, phase = "cqdown"
    PROVE  /\ accepts_outstanding' <= accepts_outstanding
           /\ \A i \in Ids : cl'[i].ops \ cl[i].ops \subseteq {"done"}
<1> USE DEF Shutting
<1>1. /\ accepts_outstanding \in 0..accept_window /\ accept_window \in Nat
      /\ cl \in [Ids -> Call]
  BY ServerAssumption DEF TagInv, TypeOK
<1>2. CASE UNCHANGED <<cl, accepts_outstanding>>
  BY <1>1, <1>2
<1>3. CASE AcceptFailed
  BY <1>1, <1>3 DEF AcceptFailed
<1>4. CASE AcceptOk
  <2>1. /\ next_id \in Ids /\ cl'[next_id].ops = {"done"} /\ accepts_outstanding > 0
        /\ accepts_outstanding' = SlotsAfter(accepts_outstanding - 1, Cardinality(active'))
    BY <1>4, TagAccept, ActiveFinite DEF AcceptOk
  <2>2. \A j \in Ids : j # next_id => cl'[j] = cl[j]
    BY <1>1, <1>4 DEF AcceptOk
  <2>3. accepts_outstanding' = accepts_outstanding - 1
    BY <1>1, <2>1 DEF SlotsAfter
  <2> QED
    BY <1>1, <2>1, <2>2, <2>3
<1>5. ASSUME NEW i \in Ids, NEW d, Steps(cl[i], d), CallCase(i, d),
             accepts_outstanding' = accepts_outstanding
      PROVE  /\ accepts_outstanding' <= accepts_outstanding
             /\ \A j \in Ids : cl'[j].ops \ cl[j].ops \subseteq {"done"}
  <2>1. \A j \in Ids : cl'[j] = IF j = i THEN d ELSE cl[j]
    BY <1>1, <1>5 DEF CallCase
  <2> QED
    BY <1>1, <1>5, <2>1 DEF Steps
<1>6. ASSUME NEW i \in Ids, NEW ok \in BOOLEAN, CompleteRead(i, ok)
      PROVE  /\ accepts_outstanding' <= accepts_outstanding
             /\ \A j \in Ids : cl'[j].ops \ cl[j].ops \subseteq {"done"}
  <2>1. /\ CallCase(i, AfterRead(cl[i], ok)) /\ "read" \in cl[i].ops
        /\ accepts_outstanding' = accepts_outstanding
    BY <1>6 DEF CompleteRead, AfterRead
  <2>2. Steps(cl[i], AfterRead(cl[i], ok))
    BY <2>1, TagFacts, ReadCaseLemma
  <2> QED
    BY <1>5, <2>1, <2>2
<1>7. ASSUME NEW i \in Ids, NEW ok \in BOOLEAN, CompleteWrite(i, ok)
      PROVE  /\ accepts_outstanding' <= accepts_outstanding
             /\ \A j \in Ids : cl'[j].ops \ cl[j].ops \subseteq {"done"}
  <2> DEFINE d == AfterWrite([Retire(cl[i], "write") EXCEPT !.write_inflight = FALSE], ok)
  <2>1. /\ CallCase(i, d) /\ "write" \in cl[i].ops
        /\ accepts_outstanding' = accepts_outstanding
    BY <1>7 DEF CompleteWrite
  <2>2. Steps(cl[i], d)
    BY <2>1, TagFacts, WriteCaseLemma
  <2> HIDE DEF d
  <2> QED
    BY <1>5, <2>1, <2>2
<1>8. ASSUME NEW i \in Ids, CompleteDone(i)
      PROVE  /\ accepts_outstanding' <= accepts_outstanding
             /\ \A j \in Ids : cl'[j].ops \ cl[j].ops \subseteq {"done"}
  <2>1. /\ CallCase(i, AfterDone(cl[i])) /\ "done" \in cl[i].ops
        /\ accepts_outstanding' = SlotsAfter(accepts_outstanding, Cardinality(active'))
    BY <1>8 DEF CompleteDone, AfterDone
  <2>2. Steps(cl[i], AfterDone(cl[i]))
    BY <2>1, TagFacts, DoneCaseLemma
  <2> QED
    BY <1>5, <2>1, <2>2, TagSlots
<1>9. ASSUME NEW i \in Ids, NEW ok \in BOOLEAN, CompleteFinish(i, ok)
      PROVE  /\ accepts_outstanding' <= accepts_outstanding
             /\ \A j \in Ids : cl'[j].ops \ cl[j].ops \subseteq {"done"}
  <2>1. /\ CallCase(i, Retire(cl[i], "finish")) /\ "finish" \in cl[i].ops
        /\ accepts_outstanding' = SlotsAfter(accepts_outstanding, Cardinality(active'))
    BY <1>9 DEF CompleteFinish
  <2>2. Steps(cl[i], Retire(cl[i], "finish"))
    BY <2>1, TagFacts, FinishCaseLemma
  <2> QED
    BY <1>5, <2>1, <2>2, TagSlots
<1>10. ~CloseAgain
  BY DEF CloseAgain
<1>11. ASSUME ~AcceptOk, ~AcceptFailed, ~\E i \in Ids : Complete(i)
       PROVE  UNCHANGED <<cl, accepts_outstanding>>
  BY <1>10, <1>11 DEF Next, Reply, Finish, Read, Send, Cancel, Poll, CloseBegin,
     CloseServer, CloseQueue, CloseJoin, PeerCall, PeerSend, PeerHalfClose, PeerGone, pvars
<1> QED
  BY <1>2, <1>3, <1>4, <1>6, <1>7, <1>8, <1>9, <1>11 DEF Complete

\* rserver_shutdown: once the completion queue is shut down nothing is started on
\* it, neither by R nor by a completion that is still drained.
THEOREM NoPostAfterShutdownTheorem == Spec => NoPostAfterShutdown
  <1>1. TagInv /\ [Next]_vars =>
          [phase = "cqdown" => /\ accepts_outstanding' <= accepts_outstanding
                               /\ \A i \in Ids : cl'[i].ops \ cl[i].ops \subseteq {"done"}]_vars
    BY ShutStep
  <1> QED
    BY <1>1, TagInvariance, PTL DEF Spec, NoPostAfterShutdown

\* The only events a step adds are of a call whose end R has not been told.
LEMMA EmitStep ==
    ASSUME TagInv, Next, NEW e \in ready' \ ready
    PROVE  ~(Abandoned(cl[e.id]) /\ "done" \notin cl[e.id].ops)
<1>1. ASSUME NEW k, NEW i, NEW v, Emit(k, i, v) PROVE e.id = i
  BY <1>1 DEF Emit
<1>2. ~Quiet
  BY DEF Quiet
<1>3. ASSUME NEW i \in Ids, NEW ok \in BOOLEAN, CompleteRead(i, ok)
      PROVE  ~(Abandoned(cl[i]) /\ "done" \notin cl[i].ops) /\ e.id = i
  <2> DEFINE s == Retire(cl[i], "read")
             r == [s EXCEPT !.read_inflight = FALSE]
             k == ReadOutcome(r, ok)
  <2>1. /\ "read" \in cl[i].ops
        /\ IF k = "none" THEN Quiet ELSE Emit(k, i, IF ok THEN net[i].taken + 1 ELSE 0)
    BY <1>3 DEF CompleteRead
  <2>2. CallInv(cl[i])
    BY TagFacts
  <2>3. s \in Call /\ SameButTags(cl[i], s)
    BY <2>1, <2>2, RetireLemma DEF CallInv, FlagsTellTags
  <2> HIDE DEF s
  <2>4. r.dead = cl[i].dead
    BY <2>3 DEF SameButTags, Call
  <2>5. k # "none" => ~cl[i].dead
    BY <2>4 DEF ReadOutcome
  <2>6. k # "none" /\ e.id = i
    BY <1>1, <1>2, <2>1
  <2> QED
    BY <2>1, <2>2, <2>5, <2>6 DEF CallInv, LifeOrder, Settled, Abandoned
<1>4. ASSUME NEW i \in Ids, NEW ok \in BOOLEAN, CompleteWrite(i, ok)
      PROVE  ~(Abandoned(cl[i]) /\ "done" \notin cl[i].ops) /\ e.id = i
  <2> DEFINE s == Retire(cl[i], "write")
             r == [s EXCEPT !.write_inflight = FALSE]
  <2>1. /\ "write" \in cl[i].ops
        /\ IF ok /\ ~r.dead /\ ~r.replied /\ Len(r.write_queue) = 1
           THEN Emit("stream_writable", i, 0) ELSE Quiet
    BY <1>4 DEF CompleteWrite
  <2>2. CallInv(cl[i])
    BY TagFacts
  <2>3. s \in Call /\ SameButTags(cl[i], s)
    BY <2>1, <2>2, RetireLemma DEF CallInv, FlagsTellTags
  <2> HIDE DEF s
  <2>4. r.dead = cl[i].dead
    BY <2>3 DEF SameButTags, Call
  <2> QED
    BY <1>1, <1>2, <2>1, <2>2, <2>4 DEF CallInv, LifeOrder, Settled, Abandoned
<1>5. ASSUME NEW i \in Ids, CompleteDone(i)
      PROVE  ~(Abandoned(cl[i]) /\ "done" \notin cl[i].ops) /\ e.id = i
  BY <1>1, <1>2, <1>5 DEF CompleteDone
<1>6. ASSUME NEW i \in Ids, Complete(i)
      PROVE  ~(Abandoned(cl[i]) /\ "done" \notin cl[i].ops) /\ e.id = i
  BY <1>2, <1>3, <1>4, <1>5, <1>6 DEF Complete, CompleteFinish
<1>7. ASSUME ~\E i \in Ids : Complete(i) PROVE ready' \subseteq ready
  <2>1. ASSUME NEW want, NEW maxn, Poll(want, maxn) PROVE ready' \subseteq ready
    BY <2>1 DEF Poll
  <2> QED
    BY <1>7, <2>1 DEF Next, Reply, Finish, Read, Send, Cancel, CloseBegin, CloseAgain, vars,
       CloseServer, CloseQueue, CloseJoin, AcceptOk, AcceptFailed, PeerCall, PeerSend,
       PeerHalfClose, PeerGone, pvars
<1> QED
  BY <1>6, <1>7

\* R/generics.R: "cancelled" is the last event of a call.
THEOREM NothingAfterCancelledTheorem == Spec => NothingAfterCancelled
  <1>1. TagInv /\ [Next]_vars =>
          [\A e \in ready' \ ready :
              ~(Abandoned(cl[e.id]) /\ "done" \notin cl[e.id].ops)]_vars
    BY EmitStep
  <1> QED
    BY <1>1, TagInvariance, PTL DEF Spec, NothingAfterCancelled

-----------------------------------------------------------------------------
(* What goes out.                                                          *)

\* What is on the wire and in the queue of a call, c its record and n its RPC.
\* The queue goes on where the wire stops, as long as its front can still be
\* written.
QueueFollows(c, n) ==
    ~c.dead \/ c.write_inflight =>
        \A k \in 1..Len(c.write_queue) : c.write_queue[k] = Len(n.wire) + k

\* Nothing accepted is missing unless an abortive finish dropped it.
AllThere(c, n) ==
    n.abort < 0 /\ ~c.dead =>
        /\ n.status /\ c.has_final_write =>
              Len(n.wire) + Len(c.write_queue) = n.accepted + 1
        /\ ~(n.status /\ c.has_final_write) =>
              Len(n.wire) + Len(c.write_queue) = n.accepted

\* Behind an abortive finish comes at most the write that was in flight.
Fenced(c, n) ==
    n.abort >= 0 =>
        /\ c.replied /\ ~c.has_final_write
        /\ Len(n.wire) <= n.abort + 1
        /\ ~c.dead \/ c.write_inflight => Len(n.wire) + Len(c.write_queue) <= n.abort + 1

WireInv(c, n) ==
    /\ \A k \in 1..Len(n.wire) : n.wire[k] = k
    /\ QueueFollows(c, n)
    /\ n.status => c.finish_posted /\ "finish" \notin c.ops
    /\ AllThere(c, n)
    /\ Fenced(c, n)

\* Nothing is known yet of a call that has not come.
FreshInv ==
    \A i \in Ids : i >= next_id =>
        /\ cl[i] = NewCall /\ net[i] = NewNet
        /\ handed[i] = [kinds |-> {}, msgs |-> 0]
        /\ \A e \in ready : e.id # i

Wires == \A i \in Ids : WireInv(cl[i], net[i])

\* Equal in what was sent.
SameSent(n, m) ==
    m.wire = n.wire /\ m.status = n.status /\ m.abort = n.abort /\ m.accepted = n.accepted

\* A step that sends and posts no write: the call may die, its tags go.
LEMMA WireKept ==
    ASSUME NEW c, NEW n, WireInv(c, n), NEW d, NEW m, SameSent(n, m),
           d.write_queue = c.write_queue, d.write_inflight => c.write_inflight,
           c.dead => d.dead, d.finish_posted = c.finish_posted,
           "finish" \in d.ops => "finish" \in c.ops,
           d.has_final_write = c.has_final_write, d.replied = c.replied
    PROVE  WireInv(d, m)
<1>1. QueueFollows(d, m)
  BY DEF WireInv, QueueFollows, SameSent
<1>2. AllThere(d, m)
  BY DEF WireInv, AllThere, SameSent
<1>3. Fenced(d, m)
  BY DEF WireInv, Fenced, SameSent
<1> QED
  BY <1>1, <1>2, <1>3 DEF WireInv, SameSent

\* pump_locked moves nothing: it puts the front of the queue in flight on a
\* living call, or posts a status that was not posted.
LEMMA PumpFields ==
    ASSUME NEW a, a \in Call, a.pending = Cardinality(a.ops),
           a.write_inflight <=> "write" \in a.ops, "finish" \in a.ops => a.finish_posted,
           NEW d, d = pump_locked(a)
    PROVE  /\ d.dead = a.dead /\ d.write_queue = a.write_queue
           /\ d.has_final_write = a.has_final_write /\ d.replied = a.replied
           /\ d.write_inflight => a.write_inflight \/ ~a.dead
           /\ a.finish_posted => d.finish_posted /\ d.ops = a.ops
<1> DEFINE Skip == Shutting \/ a.dead \/ a.finish_posted \/ a.write_inflight
<1>1. CASE Skip \/ (a.write_queue = <<>> /\ ~a.replied)
  <2>1. d = a
    BY <1>1 DEF pump_locked
  <2> QED
    BY <1>1, <2>1
<1>2. CASE ~Skip /\ a.write_queue # <<>>
  <2> DEFINE u == [a EXCEPT !.write_inflight = TRUE]
  <2>1. d = Post(u, "write")
    BY <1>2 DEF pump_locked
  <2>2. /\ u \in Call /\ u.ops = a.ops /\ u.pending = a.pending
        /\ u.dead = a.dead /\ u.write_queue = a.write_queue
        /\ u.has_final_write = a.has_final_write /\ u.replied = a.replied
    BY DEF Call
  <2>3. "write" \in OpKinds \ u.ops
    BY <1>2, <2>2 DEF OpKinds
  <2> HIDE DEF u
  <2>4. SameButTags(u, d)
    BY <2>1, <2>2, <2>3, PostLemma
  <2> QED
    BY <1>2, <2>2, <2>4 DEF SameButTags
<1>3. CASE ~Skip /\ a.write_queue = <<>> /\ a.replied
  <2> DEFINE u == [a EXCEPT !.finish_posted = TRUE]
  <2>1. d = Post(u, "finish")
    BY <1>3 DEF pump_locked
  <2>2. /\ u \in Call /\ u.ops = a.ops /\ u.pending = a.pending
        /\ u.dead = a.dead /\ u.write_queue = a.write_queue
        /\ u.has_final_write = a.has_final_write /\ u.replied = a.replied
    BY DEF Call
  <2>3. "finish" \in OpKinds \ u.ops
    BY <1>3, <2>2 DEF OpKinds
  <2> HIDE DEF u
  <2>4. SameButTags(u, d)
    BY <2>1, <2>2, <2>3, PostLemma
  <2> QED
    BY <1>3, <2>2, <2>4 DEF SameButTags
<1> QED
  BY <1>1, <1>2, <1>3

LEMMA WirePumped ==
    ASSUME NEW a, CallInv(a), NEW n, WireInv(a, n), NEW d, d = pump_locked(a)
    PROVE  WireInv(d, n)
<1>1. /\ a \in Call /\ a.pending = Cardinality(a.ops) /\ (a.write_inflight <=> "write" \in a.ops)
      /\ ("finish" \in a.ops => a.finish_posted)
  BY DEF CallInv, FlagsTellTags
<1>2. /\ d.dead = a.dead /\ d.write_queue = a.write_queue
      /\ d.has_final_write = a.has_final_write /\ d.replied = a.replied
      /\ d.write_inflight => a.write_inflight \/ ~a.dead
      /\ a.finish_posted => d.finish_posted /\ d.ops = a.ops
  BY <1>1, PumpFields
<1> QED
  BY <1>2 DEF WireInv, QueueFollows, AllThere, Fenced

\* grpc_reply and a draining grpc_finish: the queue stays.
LEMMA WireAnswered ==
    ASSUME NEW c, CallInv(c), ~c.replied, NEW n \in Net, WireInv(c, n),
           NEW a, Requeued(c, a, c.write_queue)
    PROVE  WireInv(a, n)
<1>1. ~c.finish_posted
  BY DEF CallInv, LifeOrder
<1>2. ~n.status /\ n.abort < 0
  BY <1>1 DEF WireInv, Fenced, Net
<1> QED
  BY <1>2 DEF WireInv, QueueFollows, AllThere, Fenced, Requeued

\* An abortive grpc_finish: the fence is what is on the wire now.
LEMMA WireAborted ==
    ASSUME NEW c, CallInv(c), ~c.replied, ~c.dead, NEW n \in Net, WireInv(c, n),
           NEW a, Requeued(c, a, Discarded(c)), a.replied, ~a.has_final_write,
           NEW m, m.wire = n.wire, m.status = n.status, m.abort = Len(n.wire)
    PROVE  WireInv(a, m)
<1>1. ~c.finish_posted
  BY DEF CallInv, LifeOrder
<1>2. ~n.status /\ n.wire \in Seq(Nat)
  BY <1>1 DEF WireInv, Net
<1>3. Len(n.wire) \in Nat
  BY <1>2, LenProperties
<1>4. /\ Len(Discarded(c)) \in 0..1
      /\ \A k \in 1..Len(Discarded(c)) : Discarded(c)[k] = Len(n.wire) + k
  <2>1. CASE c.write_inflight
    <3>1. /\ Len(Discarded(c)) = 1 /\ Len(c.write_queue) >= 1
          /\ Discarded(c)[1] = c.write_queue[1]
      BY <2>1, DiscardedLemma
    <3>2. c.write_queue \in Seq(Nat)
      BY DEF CallInv, Call
    <3>3. 1 \in 1..Len(c.write_queue)
      BY <3>1, <3>2, LenProperties
    <3>4. c.write_queue[1] = Len(n.wire) + 1
      BY <3>3 DEF WireInv, QueueFollows
    <3> QED
      BY <3>1, <3>4
  <2>2. CASE ~c.write_inflight
    <3>1. Len(Discarded(c)) = 0
      BY <2>2, DiscardedLemma, EmptySeq
    <3> QED
      BY <3>1
  <2> QED
    BY <2>1, <2>2
<1>5. \A k \in 1..Len(m.wire) : m.wire[k] = k
  BY DEF WireInv
<1> QED
  BY <1>2, <1>3, <1>4, <1>5 DEF WireInv, QueueFollows, AllThere, Fenced, Requeued

\* grpc_send: the message gets the number after all accepted before it.
LEMMA WireSent ==
    ASSUME NEW c, CallInv(c), ~c.replied, ~c.dead, NEW n \in Net, WireInv(c, n),
           NEW a, Requeued(c, a, Append(c.write_queue, n.accepted + 1)),
           NEW m, m.wire = n.wire, m.status = n.status, m.abort = n.abort,
           m.accepted = n.accepted + 1
    PROVE  WireInv(a, m)
<1> DEFINE q == Append(c.write_queue, n.accepted + 1)
<1>1. ~c.finish_posted
  BY DEF CallInv, LifeOrder
<1>2. ~n.status /\ n.abort < 0 /\ n.accepted \in Nat /\ n.wire \in Seq(Nat)
  BY <1>1, ServerAssumption DEF WireInv, Fenced, Net
<1>3. c.write_queue \in Seq(Nat) /\ Len(c.write_queue) \in Nat /\ Len(n.wire) \in Nat
  BY <1>2, LenProperties DEF CallInv, Call
<1>4. /\ Len(q) = Len(c.write_queue) + 1
      /\ \A k \in 1..Len(c.write_queue) : q[k] = c.write_queue[k]
      /\ q[Len(c.write_queue) + 1] = n.accepted + 1
  BY <1>2, <1>3, AppendProperties
<1> HIDE DEF q
<1>5. Len(n.wire) + Len(c.write_queue) = n.accepted
  BY <1>2 DEF WireInv, AllThere
<1>6. \A k \in 1..Len(q) : q[k] = Len(n.wire) + k
  <2> SUFFICES ASSUME NEW k \in 1..Len(q) PROVE q[k] = Len(n.wire) + k
    OBVIOUS
  <2>1. CASE k \in 1..Len(c.write_queue)
    BY <1>4, <2>1 DEF WireInv, QueueFollows
  <2>2. CASE k = Len(c.write_queue) + 1
    <3> DEFINE L == Len(n.wire)
               K == Len(c.write_queue)
               N == n.accepted
    <3>1. L \in Nat /\ K \in Nat /\ L + K = N /\ k = K + 1 /\ q[k] = N + 1
      BY <1>3, <1>4, <1>5, <2>2
    <3> HIDE DEF L, K, N
    <3>2. q[k] = L + k
      BY <3>1
    <3> QED
      BY <3>2 DEF L
  <2> QED
    BY <1>3, <1>4, <2>1, <2>2
<1>7. a.write_queue = q /\ a.dead = c.dead
  BY DEF Requeued, q
<1>8. \A k \in 1..Len(m.wire) : m.wire[k] = k
  BY DEF WireInv
<1>9. QueueFollows(a, m)
  BY <1>6, <1>7 DEF QueueFollows
<1>10. AllThere(a, m)
  <2>1. Len(n.wire) + Len(q) = n.accepted + 1
    <3> DEFINE L == Len(n.wire)
               K == Len(c.write_queue)
               Q == Len(q)
               N == n.accepted
    <3>1. L \in Nat /\ K \in Nat /\ Q = K + 1 /\ L + K = N
      BY <1>3, <1>4, <1>5
    <3> HIDE DEF L, K, Q, N
    <3>2. L + Q = N + 1
      BY <3>1
    <3> QED
      BY <3>2 DEF L, Q, N
  <2> QED
    BY <1>2, <1>7, <2>1 DEF AllThere
<1> QED
  BY <1>2, <1>8, <1>9, <1>10 DEF WireInv, Fenced

\* Appending the next number keeps the wire in order.
LEMMA WireAppend ==
    ASSUME NEW w \in Seq(Nat), \A k \in 1..Len(w) : w[k] = k, NEW x, x = Append(w, Len(w) + 1)
    PROVE  Len(x) = Len(w) + 1 /\ \A k \in 1..Len(x) : x[k] = k
<1>1. Len(w) \in Nat
  BY LenProperties
<1>2. /\ Len(x) = Len(w) + 1 /\ x[Len(w) + 1] = Len(w) + 1
      /\ \A k \in 1..Len(w) : x[k] = w[k]
  BY <1>1, AppendProperties
<1> QED
  BY <1>1, <1>2

\* case write: the front of the queue is on the wire.
LEMMA WireWritten ==
    ASSUME NEW c, CallInv(c), "write" \in c.ops, NEW n \in Net, WireInv(c, n),
           NEW ok \in BOOLEAN, NEW m,
           m.wire = IF ok THEN Append(n.wire, Head(c.write_queue)) ELSE n.wire,
           m.status = n.status, m.abort = n.abort, m.accepted = n.accepted,
           NEW d, d = AfterWrite([Retire(c, "write") EXCEPT !.write_inflight = FALSE], ok)
    PROVE  WireInv(d, m)
<1> DEFINE s == Retire(c, "write")
           r == [s EXCEPT !.write_inflight = FALSE]
           q == c.write_queue
<1>1. /\ s \in Call /\ s.pending = Cardinality(s.ops)
      /\ s.ops = c.ops \ {"write"} /\ SameButTags(c, s)
  BY RetireLemma DEF CallInv, FlagsTellTags
<1>2. d = AfterWrite(r, ok)
  OBVIOUS
<1> HIDE DEF s
<1>3. /\ r \in Call /\ r.ops = c.ops \ {"write"} /\ r.pending = Cardinality(r.ops)
      /\ r.delivered = c.delivered /\ r.replied = c.replied /\ r.dead = c.dead
      /\ ~r.write_inflight /\ r.read_inflight = c.read_inflight
      /\ r.finish_posted = c.finish_posted /\ r.has_final_write = c.has_final_write
      /\ r.write_queue = c.write_queue
  BY <1>1 DEF SameButTags, Call
<1> HIDE DEF r
<1>4. /\ ~c.finish_posted /\ c.write_inflight /\ q \in Seq(Nat) /\ q # <<>>
      /\ n.wire \in Seq(Nat) /\ n.accepted \in Nat /\ n.abort \in Int
  BY ServerAssumption DEF CallInv, FlagsTellTags, LifeOrder, Call, Net
<1>5. /\ Len(n.wire) \in Nat /\ Len(q) \in Nat /\ Len(q) >= 1
      /\ Head(q) = q[1] /\ Tail(q) \in Seq(Nat) /\ Len(Tail(q)) = Len(q) - 1
      /\ \A k \in 1..Len(Tail(q)) : Tail(q)[k] = q[k + 1]
  BY <1>4, LenProperties, HeadTailProperties, EmptySeq
<1>6. /\ ~n.status
      /\ \A k \in 1..Len(q) : q[k] = Len(n.wire) + k
      /\ \A k \in 1..Len(n.wire) : n.wire[k] = k
  BY <1>4 DEF WireInv, QueueFollows
<1>7. ok => Len(m.wire) = Len(n.wire) + 1 /\ \A k \in 1..Len(m.wire) : m.wire[k] = k
  <2>1. Head(q) = Len(n.wire) + 1
    BY <1>5, <1>6
  <2> QED
    BY <1>4, <1>6, <2>1, WireAppend
<1>8. n.abort >= 0 => /\ c.replied /\ ~c.has_final_write
                      /\ Len(n.wire) + Len(q) <= n.abort + 1
  BY <1>4 DEF WireInv, Fenced
<1> DEFINE M == Len(m.wire)
           L == Len(n.wire)
           K == Len(q)
           A == n.abort
<1>9. /\ L \in Nat /\ K \in Nat /\ K >= 1 /\ (ok => M = L + 1) /\ (~ok => M = L)
      /\ A \in Int /\ (A >= 0 => L + K <= A + 1)
  BY <1>4, <1>5, <1>7, <1>8
<1> HIDE DEF M, L, K, A
<1>10. CASE ok /\ ~r.dead
  <2> DEFINE a == [r EXCEPT !.write_queue = Tail(@)]
  <2>1. /\ a \in Call /\ a.ops = r.ops /\ a.pending = r.pending
        /\ a.delivered = r.delivered /\ a.replied = r.replied /\ a.dead = r.dead
        /\ ~a.write_inflight /\ a.read_inflight = r.read_inflight
        /\ a.finish_posted = r.finish_posted /\ a.has_final_write = r.has_final_write
        /\ a.write_queue = Tail(q)
    BY <1>3, <1>5 DEF Call
  <2>2. d = pump_locked(a)
    BY <1>2, <1>10 DEF AfterWrite
  <2> HIDE DEF a
  <2>3. CallInv(a)
    BY <1>3, <1>4, <2>1 DEF CallInv, FlagsTellTags, LifeOrder, Settled
  <2>4. \A k \in 1..Len(Tail(q)) : Tail(q)[k] = Len(m.wire) + k
    <3> SUFFICES ASSUME NEW k \in 1..Len(Tail(q)) PROVE Tail(q)[k] = M + k
      BY DEF M
    <3>1. k \in 1..(K - 1)
      BY <1>5 DEF K
    <3>2. k + 1 \in 1..K /\ k \in Nat
      BY <1>9, <3>1
    <3>3. Tail(q)[k] = q[k + 1] /\ q[k + 1] = L + (k + 1)
      BY <1>5, <1>6, <3>2 DEF K, L
    <3> QED
      BY <1>9, <1>10, <3>2, <3>3
  <2>5. n.abort < 0 => Len(n.wire) + Len(q) = n.accepted
    BY <1>3, <1>6, <1>10 DEF WireInv, AllThere
  <2>6. Len(m.wire) + Len(Tail(q)) = Len(n.wire) + Len(q)
    <3>1. Len(Tail(q)) = K - 1
      BY <1>5 DEF K
    <3>2. M + Len(Tail(q)) = L + K
      BY <1>9, <1>10, <3>1
    <3> QED
      BY <3>2 DEF M, L, K
  <2>7. QueueFollows(a, m)
    BY <2>1, <2>4 DEF QueueFollows
  <2>8. AllThere(a, m)
    BY <1>6, <2>1, <2>5, <2>6 DEF AllThere
  <2>9. Fenced(a, m)
    <3>1. A >= 0 => M <= A + 1 /\ L + K <= A + 1
      BY <1>9
    <3> QED
      BY <1>3, <1>8, <2>1, <2>6, <3>1 DEF Fenced, M, L, K, A
  <2>10. WireInv(a, m)
    BY <1>6, <1>7, <1>10, <2>7, <2>8, <2>9 DEF WireInv
  <2> QED
    BY <2>2, <2>3, <2>10, WirePumped
<1>11. CASE ~(ok /\ ~r.dead)
  <2>1. d = [r EXCEPT !.dead = TRUE]
    BY <1>2, <1>11 DEF AfterWrite
  <2>2. /\ d.dead /\ ~d.write_inflight /\ d.replied = r.replied
        /\ d.has_final_write = r.has_final_write
    BY <1>3, <2>1 DEF Call
  <2>3. \A k \in 1..Len(m.wire) : m.wire[k] = k
    BY <1>6, <1>7
  <2>4. A >= 0 => M <= A + 1
    BY <1>9
  <2>5. Fenced(d, m)
    BY <1>3, <1>8, <2>2, <2>4 DEF Fenced, M, A
  <2> QED
    BY <1>6, <2>2, <2>3, <2>5 DEF WireInv, QueueFollows, AllThere
<1> QED
  BY <1>10, <1>11

\* case finish: the status, behind the response if there is one.
LEMMA WireFinished ==
    ASSUME NEW c, CallInv(c), "finish" \in c.ops, NEW n \in Net, WireInv(c, n), NEW m, m.status,
           m.wire = IF c.has_final_write THEN Append(n.wire, n.accepted + 1) ELSE n.wire,
           m.abort = n.abort, m.accepted = n.accepted,
           NEW d, d = Retire(c, "finish")
    PROVE  WireInv(d, m)
<1>1. d.ops = c.ops \ {"finish"} /\ SameButTags(c, d)
  BY RetireLemma DEF CallInv, FlagsTellTags
<1>2. /\ c.finish_posted /\ c.replied /\ ~c.dead /\ ~c.write_inflight /\ c.write_queue = <<>>
      /\ n.wire \in Seq(Nat) /\ n.accepted \in Nat /\ n.abort \in Int
  BY ServerAssumption DEF CallInv, FlagsTellTags, LifeOrder, Net
<1>3. Len(c.write_queue) = 0 /\ Len(n.wire) \in Nat
  BY <1>2, EmptySeq, LenProperties
<1>4. /\ ~n.status
      /\ \A k \in 1..Len(n.wire) : n.wire[k] = k
      /\ n.abort < 0 => Len(n.wire) = n.accepted
      /\ n.abort >= 0 => ~c.has_final_write /\ Len(n.wire) <= n.abort + 1
  BY <1>2, <1>3 DEF WireInv, AllThere, Fenced
<1>5. /\ Len(m.wire) = Len(n.wire) + (IF c.has_final_write THEN 1 ELSE 0)
      /\ \A k \in 1..Len(m.wire) : m.wire[k] = k
  <2>1. CASE c.has_final_write
    BY <1>2, <1>3, <1>4, <2>1, WireAppend
  <2>2. CASE ~c.has_final_write
    BY <1>3, <1>4, <2>2
  <2> QED
    BY <2>1, <2>2
<1>6. Len(d.write_queue) = 0 /\ d.has_final_write = c.has_final_write /\ d.replied
      /\ d.finish_posted /\ "finish" \notin d.ops
  BY <1>1, <1>2, <1>3 DEF SameButTags
<1>7. QueueFollows(d, m)
  BY <1>6 DEF QueueFollows
<1>8. AllThere(d, m)
  <2> DEFINE M == Len(m.wire)
             L == Len(n.wire)
  <2>1. L \in Nat /\ (c.has_final_write => M = L + 1) /\ (~c.has_final_write => M = L)
    BY <1>3, <1>5
  <2>2. n.abort < 0 => L = n.accepted
    BY <1>4
  <2>3. Len(m.wire) = M
    OBVIOUS
  <2> HIDE DEF M, L
  <2>4. n.abort < 0 => /\ c.has_final_write => M + 0 = n.accepted + 1
                       /\ ~c.has_final_write => M + 0 = n.accepted
    BY <1>2, <2>1, <2>2
  <2> QED
    BY <1>6, <2>3, <2>4 DEF AllThere
<1>9. Fenced(d, m)
  BY <1>2, <1>3, <1>4, <1>5, <1>6 DEF Fenced
<1> QED
  BY <1>5, <1>6, <1>7, <1>8, <1>9 DEF WireInv

-----------------------------------------------------------------------------
\* A step on call j alone leaves what has not come as it is.
LEMMA FreshFrame ==
    ASSUME TagInv, FreshInv, NEW j \in Ids, j \in active, next_id' = next_id,
           \A i \in Ids : i # j => cl'[i] = cl[i] /\ net'[i] = net[i],
           handed' = handed, \A e \in ready' : e \in ready \/ e.id = j
    PROVE  FreshInv'
<1>1. j < next_id /\ j \in Int /\ next_id \in Int
  BY ServerAssumption DEF TagInv, TypeOK, Ids
<1> SUFFICES ASSUME NEW i \in Ids, i >= next_id
             PROVE  /\ cl'[i] = NewCall /\ net'[i] = NewNet
                    /\ handed'[i] = [kinds |-> {}, msgs |-> 0]
                    /\ \A e \in ready' : e.id # i
  BY DEF FreshInv
<1>2. i # j
  BY <1>1 DEF Ids
<1> QED
  BY <1>2 DEF FreshInv

\* A completion on call i, as the frame sees it.
LEMMA CompletionFrame ==
    ASSUME TagInv, NEW i \in Ids, Complete(i)
    PROVE  /\ i \in active /\ next_id' = next_id /\ handed' = handed
           /\ \A j \in Ids : j # i => cl'[j] = cl[j] /\ net'[j] = net[j]
           /\ \A e \in ready' : e \in ready \/ e.id = i
<1>1. cl \in [Ids -> Call] /\ net \in [Ids -> Net] /\ (i \in active <=> cl[i].ops # {})
  BY TagFacts
<1>2. ASSUME NEW d, CallCase(i, d)
      PROVE  /\ next_id' = next_id /\ handed' = handed
             /\ \A j \in Ids : j # i => cl'[j] = cl[j]
  BY <1>1, <1>2 DEF CallCase
<1>3. Quiet => \A e \in ready' : e \in ready \/ e.id = i
  BY DEF Quiet
<1>4. ASSUME NEW k, NEW v, Emit(k, i, v)
      PROVE  \A e \in ready' : e \in ready \/ e.id = i
  BY <1>4 DEF Emit
<1>5. ASSUME NEW ok \in BOOLEAN, CompleteRead(i, ok)
      PROVE  /\ cl[i].ops # {} /\ next_id' = next_id /\ handed' = handed
             /\ \A j \in Ids : j # i => cl'[j] = cl[j] /\ net'[j] = net[j]
             /\ \A e \in ready' : e \in ready \/ e.id = i
  BY <1>1, <1>2, <1>3, <1>4, <1>5 DEF CompleteRead
<1>6. ASSUME NEW ok \in BOOLEAN, CompleteWrite(i, ok)
      PROVE  /\ cl[i].ops # {} /\ next_id' = next_id /\ handed' = handed
             /\ \A j \in Ids : j # i => cl'[j] = cl[j] /\ net'[j] = net[j]
             /\ \A e \in ready' : e \in ready \/ e.id = i
  BY <1>1, <1>2, <1>3, <1>4, <1>6 DEF CompleteWrite
<1>7. ASSUME CompleteDone(i)
      PROVE  /\ cl[i].ops # {} /\ next_id' = next_id /\ handed' = handed
             /\ \A j \in Ids : j # i => cl'[j] = cl[j] /\ net'[j] = net[j]
             /\ \A e \in ready' : e \in ready \/ e.id = i
  BY <1>1, <1>2, <1>3, <1>4, <1>7 DEF CompleteDone
<1>8. ASSUME NEW ok \in BOOLEAN, CompleteFinish(i, ok)
      PROVE  /\ cl[i].ops # {} /\ next_id' = next_id /\ handed' = handed
             /\ \A j \in Ids : j # i => cl'[j] = cl[j] /\ net'[j] = net[j]
             /\ \A e \in ready' : e \in ready \/ e.id = i
  BY <1>1, <1>2, <1>3, <1>8 DEF CompleteFinish
<1> QED
  BY <1>1, <1>5, <1>6, <1>7, <1>8 DEF Complete

\* An operation of R's or a step of the peer on call i.
LEMMA OperationFrame ==
    ASSUME TagInv, NEW i \in Ids,
           \/ \E payload \in BOOLEAN : Reply(i, payload)
           \/ \E drain \in BOOLEAN : Finish(i, drain)
           \/ Read(i) \/ Send(i) \/ Cancel(i)
           \/ PeerSend(i) \/ PeerHalfClose(i) \/ PeerGone(i)
    PROVE  /\ i \in active /\ next_id' = next_id /\ handed' = handed
           /\ \A j \in Ids : j # i => cl'[j] = cl[j] /\ net'[j] = net[j]
           /\ ready' = ready
<1>1. cl \in [Ids -> Call] /\ net \in [Ids -> Net]
  BY TagFacts
<1> QED
  BY <1>1 DEF Reply, Finish, Read, Send, Cancel, PeerSend, PeerHalfClose, PeerGone,
     Answerable, pvars

LEMMA FreshPoll ==
    ASSUME TagInv, FreshInv, NEW want \in Ids \cup {All}, NEW maxn \in PollSizes,
           Poll(want, maxn)
    PROVE  FreshInv'
<1> DEFINE batch == Batch(ready, want, maxn)
<1>1. batch \subseteq ready
  BY DEF Batch
<1>2. /\ ready' = ready \ batch
      /\ handed' = [i \in Ids |->
                      [kinds |-> handed[i].kinds \cup {e.kind : e \in {f \in batch : f.id = i}},
                       msgs |-> handed[i].msgs + Cardinality(Msgs(batch, i))]]
      /\ UNCHANGED <<cl, net, next_id>>
  BY DEF Poll
<1> HIDE DEF batch
<1> SUFFICES ASSUME NEW i \in Ids, i >= next_id
             PROVE  /\ cl'[i] = NewCall /\ net'[i] = NewNet
                    /\ handed'[i] = [kinds |-> {}, msgs |-> 0]
                    /\ \A e \in ready' : e.id # i
  BY <1>2 DEF FreshInv
<1>3. /\ cl[i] = NewCall /\ net[i] = NewNet
      /\ handed[i] = [kinds |-> {}, msgs |-> 0]
      /\ \A e \in ready : e.id # i
  BY DEF FreshInv
<1>4. {f \in batch : f.id = i} = {} /\ Msgs(batch, i) = {}
  BY <1>1, <1>3 DEF Msgs
<1>5. Cardinality({}) = 0
  BY FS_EmptySet
<1>6. handed[i].kinds \cup {e.kind : e \in {}} = {} /\ handed[i].msgs + 0 = 0
  BY <1>3
<1>7. handed'[i] = [kinds |-> {}, msgs |-> 0]
  BY <1>2, <1>4, <1>5, <1>6
<1> QED
  BY <1>2, <1>3, <1>7

LEMMA FreshNext ==
    ASSUME TagInv, FreshInv, [Next]_vars
    PROVE  FreshInv'
<1>1. /\ cl \in [Ids -> Call] /\ net \in [Ids -> Net] /\ active \subseteq Ids
      /\ next_id \in Int /\ \A i \in active : i < next_id
  BY ServerAssumption DEF TagInv, TypeOK
<1>2. CASE UNCHANGED <<cl, net, handed, ready, next_id>>
  BY <1>2 DEF FreshInv
<1>3. ASSUME NEW i \in Ids, Complete(i) PROVE FreshInv'
  BY <1>3, CompletionFrame, FreshFrame
<1>4. ASSUME NEW i \in Ids,
             \/ \E payload \in BOOLEAN : Reply(i, payload)
             \/ \E drain \in BOOLEAN : Finish(i, drain)
             \/ Read(i) \/ Send(i) \/ Cancel(i)
             \/ PeerSend(i) \/ PeerHalfClose(i) \/ PeerGone(i)
      PROVE  FreshInv'
  BY <1>4, OperationFrame, FreshFrame
<1>5. CASE CloseServer
  <2>1. \A i \in Ids : i >= next_id => i \notin active
    BY <1>1 DEF Ids
  <2>2. \A i \in Ids : i \notin active => net'[i] = net[i]
    BY <1>5 DEF CloseServer
  <2> QED
    BY <1>5, <2>1, <2>2 DEF CloseServer, FreshInv
<1>6. CASE AcceptOk
  <2>1. /\ next_id' = next_id + 1 /\ UNCHANGED <<ready, handed>>
        /\ \A i \in Ids : i # next_id => cl'[i] = cl[i] /\ net'[i] = net[i]
    BY <1>1, <1>6 DEF AcceptOk
  <2>2. \A i \in Ids : i >= next_id' => i >= next_id /\ i # next_id
    BY <1>1, <2>1 DEF Ids
  <2> QED
    BY <2>1, <2>2 DEF FreshInv
<1>7. ASSUME NEW want \in Ids \cup {All}, NEW maxn \in PollSizes, Poll(want, maxn)
      PROVE  FreshInv'
  BY <1>7, FreshPoll
<1>8. CASE CloseBegin \/ CloseQueue \/ CloseJoin \/ CloseAgain \/ AcceptFailed \/ PeerCall
           \/ UNCHANGED vars
  BY <1>2, <1>8 DEF CloseBegin, CloseQueue, CloseJoin, CloseAgain, AcceptFailed, PeerCall,
     vars, pvars
<1> QED
  BY <1>3, <1>4, <1>5, <1>6, <1>7, <1>8 DEF Next

-----------------------------------------------------------------------------
\* A step on call j alone: the wires of the others stay.
LEMMA WireFrame ==
    ASSUME Wires, NEW j \in Ids, WireInv(cl'[j], net'[j]),
           \A i \in Ids : i # j => cl'[i] = cl[i] /\ net'[i] = net[i]
    PROVE  Wires'
  BY DEF Wires

LEMMA WireReply ==
    ASSUME TagInv, Wires, NEW i \in Ids, NEW payload \in BOOLEAN, Reply(i, payload)
    PROVE  WireInv(cl'[i], net'[i])
<1> DEFINE c == cl[i]
           a == [c EXCEPT !.replied = TRUE, !.has_final_write = payload]
           d == pump_locked(a)
<1>1. CallInv(c) /\ c \in Call /\ net[i] \in Net /\ cl \in [Ids -> Call] /\ WireInv(c, net[i])
  BY TagFacts DEF Wires
<1>2. i \in active /\ c.delivered /\ ~c.replied /\ ~c.dead /\ cl'[i] = d /\ net' = net
      /\ c.ops # {}
  BY <1>1, TagFacts DEF Reply, Answerable
<1>3. /\ c.write_inflight => c.write_queue # <<>>
      /\ Requeued(c, a, c.write_queue) /\ a.replied
  BY <1>1 DEF CallInv, LifeOrder, Call, Requeued
<1> HIDE DEF a
<1>4. CallInv(a)
  BY <1>1, <1>2, <1>3, RequeueLemma
<1>5. WireInv(a, net[i])
  BY <1>1, <1>2, <1>3, WireAnswered
<1>6. WireInv(d, net[i])
  BY <1>4, <1>5, WirePumped
<1> QED
  BY <1>2, <1>6

LEMMA WireFinish ==
    ASSUME TagInv, Wires, NEW i \in Ids, NEW drain \in BOOLEAN, Finish(i, drain)
    PROVE  WireInv(cl'[i], net'[i])
<1> DEFINE c == cl[i]
           q == IF drain THEN c.write_queue ELSE Discarded(c)
           a == [c EXCEPT !.replied = TRUE, !.has_final_write = FALSE, !.write_queue = q]
           d == pump_locked(a)
           m == IF drain THEN net[i] ELSE [net[i] EXCEPT !.abort = Len(net[i].wire)]
<1>1. /\ CallInv(c) /\ c \in Call /\ net[i] \in Net /\ cl \in [Ids -> Call]
      /\ net \in [Ids -> Net] /\ WireInv(c, net[i])
  BY TagFacts DEF Wires
<1>2. i \in active /\ c.delivered /\ ~c.replied /\ ~c.dead /\ cl'[i] = d /\ net'[i] = m
      /\ c.ops # {}
  BY <1>1, TagFacts DEF Finish, Answerable
<1>3. q \in Seq(Nat) /\ (c.write_inflight => q # <<>>)
  <2>1. c.write_queue \in Seq(Nat) /\ (c.write_inflight => c.write_queue # <<>>)
    BY <1>1 DEF CallInv, LifeOrder, Call
  <2>2. Discarded(c) \in Seq(Nat) /\ (c.write_inflight => Discarded(c) # <<>>)
    BY <1>1, DiscardedLemma, EmptySeq
  <2> QED
    BY <2>1, <2>2
<1>4. (drain => q = c.write_queue) /\ (~drain => q = Discarded(c))
  OBVIOUS
<1>5. /\ drain => m = net[i]
      /\ ~drain => /\ m.wire = net[i].wire /\ m.status = net[i].status
                   /\ m.abort = Len(net[i].wire)
  BY <1>1 DEF Net
<1> HIDE DEF q, m
<1>6. Requeued(c, a, q) /\ a.replied /\ ~a.has_final_write
  BY <1>1, <1>3 DEF Call, Requeued
<1> HIDE DEF a
<1>7. CallInv(a)
  BY <1>1, <1>2, <1>3, <1>6, RequeueLemma
<1>8. WireInv(a, m)
  <2>1. CASE drain
    BY <1>1, <1>2, <1>4, <1>5, <1>6, <2>1, WireAnswered
  <2>2. CASE ~drain
    BY <1>1, <1>2, <1>4, <1>5, <1>6, <2>2, WireAborted
  <2> QED
    BY <2>1, <2>2
<1>9. WireInv(d, m)
  BY <1>7, <1>8, WirePumped
<1> QED
  BY <1>2, <1>9

LEMMA WireSend ==
    ASSUME TagInv, Wires, NEW i \in Ids, Send(i)
    PROVE  WireInv(cl'[i], net'[i])
<1> DEFINE c == cl[i]
           n == net[i]
           q == Append(c.write_queue, n.accepted + 1)
           a == [c EXCEPT !.write_queue = q]
           d == pump_locked(a)
           m == [n EXCEPT !.accepted = n.accepted + 1]
<1>1. /\ CallInv(c) /\ c \in Call /\ n \in Net /\ cl \in [Ids -> Call]
      /\ net \in [Ids -> Net] /\ WireInv(c, n)
  BY TagFacts DEF Wires
<1>2. i \in active /\ c.delivered /\ ~c.replied /\ ~c.dead /\ cl'[i] = d /\ net'[i] = m
      /\ c.ops # {}
  BY <1>1, TagFacts DEF Send, Answerable
<1>3. /\ m.wire = n.wire /\ m.status = n.status /\ m.abort = n.abort
      /\ m.accepted = n.accepted + 1
  BY <1>1 DEF Net
<1>4. n.accepted + 1 \in Nat /\ c.write_queue \in Seq(Nat)
  BY <1>1, ServerAssumption DEF Net, Call
<1>5. q \in Seq(Nat) /\ q # <<>>
  BY <1>4, AppendProperties
<1> HIDE DEF m, q
<1>6. Requeued(c, a, q) /\ (a.has_final_write => a.replied)
  BY <1>1, <1>5 DEF Call, Requeued, CallInv, LifeOrder
<1> HIDE DEF a
<1>7. CallInv(a)
  BY <1>1, <1>2, <1>5, <1>6, RequeueLemma
<1>8. WireInv(a, m)
  BY <1>1, <1>2, <1>3, <1>6, WireSent DEF q
<1>9. WireInv(d, m)
  BY <1>7, <1>8, WirePumped
<1> QED
  BY <1>2, <1>9

LEMMA WireRead ==
    ASSUME TagInv, Wires, NEW i \in Ids, Read(i)
    PROVE  WireInv(cl'[i], net'[i])
<1> DEFINE c == cl[i]
           d == Post([c EXCEPT !.read_inflight = TRUE], "read")
<1>1. CallInv(c) /\ cl \in [Ids -> Call] /\ WireInv(c, net[i])
  BY TagFacts DEF Wires
<1>2. /\ phase = "open" /\ i \in active /\ c.delivered /\ ~c.dead /\ ~c.read_inflight
      /\ cl'[i] = d /\ net' = net
  BY <1>1 DEF Read
<1>3. c.ops # {} /\ Pumped(c)
  BY <1>2, TagFacts DEF Shutting
<1>4. d.ops = c.ops \cup {"read"} /\ KeepsWrites(c, d)
  BY <1>1, <1>2, <1>3, ReadLemma
<1> HIDE DEF d
<1>5. SameSent(net[i], net[i])
  BY DEF SameSent
<1>6. WireInv(d, net[i])
  BY <1>1, <1>4, <1>5, WireKept DEF KeepsWrites
<1> QED
  BY <1>2, <1>6

LEMMA WireCompleteRead ==
    ASSUME TagInv, Wires, NEW i \in Ids, NEW ok \in BOOLEAN, CompleteRead(i, ok)
    PROVE  WireInv(cl'[i], net'[i])
<1> DEFINE c == cl[i]
           d == AfterRead(c, ok)
           m == IF ok THEN [net[i] EXCEPT !.taken = net[i].taken + 1] ELSE net[i]
<1>1. /\ CallInv(c) /\ cl \in [Ids -> Call] /\ net \in [Ids -> Net] /\ net[i] \in Net
      /\ WireInv(c, net[i])
  BY TagFacts DEF Wires
<1>2. CallCase(i, d)
  BY DEF CompleteRead, AfterRead
<1>3. "read" \in c.ops /\ net'[i] = m
  BY <1>1 DEF CompleteRead
<1>4. d.ops = c.ops \ {"read"} /\ KeepsWrites(c, d)
  BY <1>1, <1>3, ReadCaseLemma
<1>5. SameSent(net[i], m)
  BY <1>1 DEF SameSent, Net
<1> HIDE DEF d, m
<1>6. cl'[i] = d
  BY <1>1, <1>2 DEF CallCase
<1>7. WireInv(d, m)
  BY <1>1, <1>4, <1>5, WireKept DEF KeepsWrites
<1> QED
  BY <1>3, <1>6, <1>7

LEMMA WireCompleteWrite ==
    ASSUME TagInv, Wires, NEW i \in Ids, NEW ok \in BOOLEAN, CompleteWrite(i, ok)
    PROVE  WireInv(cl'[i], net'[i])
<1> DEFINE c == cl[i]
           n == net[i]
           r == [Retire(c, "write") EXCEPT !.write_inflight = FALSE]
           d == AfterWrite(r, ok)
           m == IF ok THEN [n EXCEPT !.wire = Append(n.wire, Head(r.write_queue))] ELSE n
<1>1. /\ CallInv(c) /\ cl \in [Ids -> Call] /\ net \in [Ids -> Net] /\ n \in Net
      /\ WireInv(c, n)
  BY TagFacts DEF Wires
<1>2. CallCase(i, d)
  BY DEF CompleteWrite
<1>3. "write" \in c.ops /\ net'[i] = m
  BY <1>1 DEF CompleteWrite
<1>4. r.write_queue = c.write_queue
  BY <1>1 DEF CallInv, Call, Retire
<1>5. /\ m.wire = IF ok THEN Append(n.wire, Head(c.write_queue)) ELSE n.wire
      /\ m.status = n.status /\ m.abort = n.abort /\ m.accepted = n.accepted
  <2>1. CASE ok
    <3> DEFINE w == Append(n.wire, Head(r.write_queue))
    <3>1. m = [n EXCEPT !.wire = w] /\ w = Append(n.wire, Head(c.write_queue))
      BY <1>4, <2>1
    <3> HIDE DEF w, m, r
    <3> QED
      BY <1>1, <2>1, <3>1 DEF Net
  <2>2. CASE ~ok
    BY <2>2
  <2> QED
    BY <2>1, <2>2
<1> HIDE DEF m
<1>6. cl'[i] = d
  BY <1>1, <1>2 DEF CallCase
<1>7. WireInv(d, m)
  BY <1>1, <1>3, <1>5, WireWritten
<1> QED
  BY <1>3, <1>6, <1>7

LEMMA WireCompleteDone ==
    ASSUME TagInv, Wires, NEW i \in Ids, CompleteDone(i)
    PROVE  WireInv(cl'[i], net'[i])
<1> DEFINE c == cl[i]
           d == AfterDone(c)
<1>1. CallInv(c) /\ cl \in [Ids -> Call] /\ WireInv(c, net[i])
  BY TagFacts DEF Wires
<1>2. CallCase(i, d)
  BY DEF CompleteDone, AfterDone
<1>3. "done" \in c.ops /\ net' = net
  BY DEF CompleteDone
<1>4. d.ops = c.ops \ {"done"} /\ KeepsWrites(c, d)
  BY <1>1, <1>3, DoneCaseLemma
<1>5. SameSent(net[i], net[i])
  BY DEF SameSent
<1> HIDE DEF d
<1>6. cl'[i] = d
  BY <1>1, <1>2 DEF CallCase
<1>7. WireInv(d, net[i])
  BY <1>1, <1>4, <1>5, WireKept DEF KeepsWrites
<1> QED
  BY <1>3, <1>6, <1>7

LEMMA WireCompleteFinish ==
    ASSUME TagInv, Wires, NEW i \in Ids, NEW ok \in BOOLEAN, CompleteFinish(i, ok)
    PROVE  WireInv(cl'[i], net'[i])
<1> DEFINE c == cl[i]
           n == net[i]
           d == Retire(c, "finish")
           w == IF c.has_final_write THEN Append(n.wire, n.accepted + 1) ELSE n.wire
           m == IF ok THEN [n EXCEPT !.status = TRUE, !.wire = w] ELSE n
<1>1. /\ CallInv(c) /\ cl \in [Ids -> Call] /\ net \in [Ids -> Net] /\ n \in Net
      /\ WireInv(c, n)
  BY TagFacts DEF Wires
<1>2. CallCase(i, d) /\ "finish" \in c.ops
      /\ net' = IF ok THEN [net EXCEPT ![i].status = TRUE, ![i].wire = w] ELSE net
  BY DEF CompleteFinish
<1>3. w = IF c.has_final_write THEN Append(n.wire, n.accepted + 1) ELSE n.wire
  OBVIOUS
<1> HIDE DEF w
<1>4. net'[i] = m
  BY <1>1, <1>2
<1>5. /\ ok => m.status /\ m.wire = w /\ m.abort = n.abort /\ m.accepted = n.accepted
      /\ ~ok => m = n
  BY <1>1 DEF Net
<1>6. cl'[i] = d
  BY <1>1, <1>2 DEF CallCase
<1> HIDE DEF m
<1>7. WireInv(d, m)
  <2>1. CASE ok
    BY <1>1, <1>2, <1>3, <1>5, <2>1, WireFinished
  <2>2. CASE ~ok
    <3>1. d.ops = c.ops \ {"finish"} /\ KeepsWrites(c, d)
      BY <1>1, <1>2, FinishCaseLemma
    <3>2. SameSent(n, m)
      BY <1>5, <2>2 DEF SameSent
    <3> HIDE DEF d
    <3> QED
      BY <1>1, <3>1, <3>2, WireKept DEF KeepsWrites
  <2> QED
    BY <2>1, <2>2
<1> QED
  BY <1>4, <1>6, <1>7

\* A step that changes of the calls at most that their RPC is over.
LEMMA WireSame ==
    ASSUME Wires, cl' = cl, \A i \in Ids : SameSent(net[i], net'[i])
    PROVE  Wires'
<1> SUFFICES ASSUME NEW i \in Ids PROVE WireInv(cl[i], net'[i])
  BY DEF Wires
<1> QED
  BY WireKept DEF Wires

LEMMA WireAccept ==
    ASSUME TagInv, FreshInv, Wires, AcceptOk
    PROVE  Wires'
<1>1. next_id \in Ids
  BY TagAccept, ActiveFinite
<1>2. cl \in [Ids -> Call] /\ net \in [Ids -> Net] /\ next_id \in Int
  BY <1>1 DEF TagInv, TypeOK, Ids
<1> DEFINE d == IF Shutting THEN [Post(NewCall, "done") EXCEPT !.dead = TRUE]
                ELSE Post(Post([NewCall EXCEPT !.read_inflight = TRUE], "done"), "read")
           o == phase \in {"cancelled", "cqdown"}
           m == [net[next_id] EXCEPT !.over = o]
<1>3. cl' = [cl EXCEPT ![next_id] = d] /\ net' = [net EXCEPT ![next_id].over = o]
  BY DEF AcceptOk
<1>4. ~d.replied /\ ~d.finish_posted /\ d.write_queue = <<>> /\ ~d.has_final_write
  BY AcceptLemma
<1> HIDE DEF d, o
<1>5. net[next_id] = NewNet
  BY <1>1, <1>2 DEF FreshInv
<1>6. m.wire = <<>> /\ ~m.status /\ m.abort = -1 /\ m.accepted = 0
  BY <1>5 DEF NewNet
<1>7. cl'[next_id] = d /\ net'[next_id] = m
  BY <1>1, <1>2, <1>3
<1> HIDE DEF m
<1>8. Len(m.wire) = 0 /\ Len(d.write_queue) = 0
  BY <1>4, <1>6, EmptySeq
<1>9. WireInv(d, m)
  BY <1>4, <1>6, <1>8 DEF WireInv, QueueFollows, AllThere, Fenced
<1>10. \A i \in Ids : i # next_id => cl'[i] = cl[i] /\ net'[i] = net[i]
  BY <1>2, <1>3
<1> QED
  BY <1>1, <1>7, <1>9, <1>10, WireFrame

LEMMA WireNext ==
    ASSUME TagInv, FreshInv, Wires, [Next]_vars
    PROVE  Wires'
<1>1. net \in [Ids -> Net]
  BY DEF TagInv, TypeOK
<1>2. CASE UNCHANGED <<cl, net>>
  BY <1>2, WireSame DEF SameSent
<1>3. ASSUME NEW i \in Ids, Complete(i) PROVE Wires'
  <2>1. WireInv(cl'[i], net'[i])
    BY <1>3, WireCompleteRead, WireCompleteWrite, WireCompleteDone, WireCompleteFinish
       DEF Complete
  <2> QED
    BY <1>3, <2>1, CompletionFrame, WireFrame
<1>4. ASSUME NEW i \in Ids,
             \/ \E payload \in BOOLEAN : Reply(i, payload)
             \/ \E drain \in BOOLEAN : Finish(i, drain)
             \/ Read(i) \/ Send(i)
      PROVE  Wires'
  <2>1. WireInv(cl'[i], net'[i])
    BY <1>4, WireReply, WireFinish, WireRead, WireSend
  <2> QED
    BY <1>4, <2>1, OperationFrame, WireFrame
<1>5. ASSUME NEW i \in Ids, Cancel(i) \/ PeerSend(i) \/ PeerHalfClose(i) \/ PeerGone(i)
      PROVE  Wires'
  <2>1. cl' = cl
    BY <1>5 DEF Cancel, PeerSend, PeerHalfClose, PeerGone, pvars
  <2>2. /\ SameSent(net[i], [net[i] EXCEPT !.over = TRUE])
        /\ SameSent(net[i], [net[i] EXCEPT !.half = TRUE])
        /\ SameSent(net[i], [net[i] EXCEPT !.sent = net[i].sent + 1])
    BY <1>1 DEF SameSent, Net
  <2>3. SameSent(net[i], net'[i])
    BY <1>1, <1>5, <2>2 DEF Cancel, PeerSend, PeerHalfClose, PeerGone
  <2>4. \A j \in Ids : j # i => SameSent(net[j], net'[j])
    BY <1>5, OperationFrame DEF SameSent
  <2> QED
    BY <2>1, <2>3, <2>4, WireSame
<1>6. CASE CloseServer
  <2>1. \A j \in Ids : SameSent(net[j], [net[j] EXCEPT !.over = TRUE]) /\ SameSent(net[j], net[j])
    BY <1>1 DEF SameSent, Net
  <2>2. \A j \in Ids : SameSent(net[j], net'[j])
    BY <1>6, <2>1 DEF CloseServer
  <2> QED
    BY <1>6, <2>2, WireSame DEF CloseServer
<1>7. CASE AcceptOk
  BY <1>7, WireAccept
<1>8. ASSUME NEW want \in Ids \cup {All}, NEW maxn \in PollSizes, Poll(want, maxn)
      PROVE  Wires'
  BY <1>2, <1>8 DEF Poll
<1>9. CASE CloseBegin \/ CloseQueue \/ CloseJoin \/ CloseAgain \/ AcceptFailed \/ PeerCall
           \/ UNCHANGED vars
  BY <1>2, <1>9 DEF CloseBegin, CloseQueue, CloseJoin, CloseAgain, AcceptFailed, PeerCall,
     vars, pvars
<1> QED
  BY <1>3, <1>4, <1>5, <1>6, <1>7, <1>8, <1>9 DEF Next

LEMMA WireInit ==
    ASSUME Init
    PROVE  FreshInv /\ Wires
<1>1. FreshInv
  BY DEF Init, FreshInv
<1>2. /\ NewNet.wire = <<>> /\ ~NewNet.status /\ NewNet.abort = -1 /\ NewNet.accepted = 0
      /\ NewCall.write_queue = <<>> /\ ~NewCall.replied /\ ~NewCall.finish_posted
  BY DEF NewNet, NewCall
<1>3. Len(NewNet.wire) = 0 /\ Len(NewCall.write_queue) = 0
  BY <1>2, EmptySeq
<1>4. WireInv(NewCall, NewNet)
  BY <1>2, <1>3 DEF WireInv, QueueFollows, AllThere, Fenced
<1> QED
  BY <1>1, <1>4 DEF Init, Wires

LEMMA WireInvariance == Spec => [](TagInv /\ FreshInv /\ Wires)
  <1>1. Init => TagInv /\ FreshInv /\ Wires
    BY TagInit, WireInit
  <1>2. TagInv /\ FreshInv /\ Wires /\ [Next]_vars => (TagInv /\ FreshInv /\ Wires)'
    BY TagNext, FreshNext, WireNext
  <1> QED
    BY <1>1, <1>2, PTL DEF Spec

\* grpc_send and grpc_reply: the peer gets what R had accepted, once each and in
\* order, however writes, answers and the end of the RPC interleave.
THEOREM WireInOrderTheorem == Spec => []WireInOrder
  <1>1. Wires => WireInOrder
    BY DEF Wires, WireInv, WireInOrder
  <1> QED
    BY <1>1, WireInvariance, PTL

\* R/server.R:301-312: behind an abortive finish at most one write follows, and a
\* status that goes out otherwise has everything accepted in front of it.
THEOREM FenceHoldsTheorem == Spec => []FenceHolds
  <1>1. ASSUME TagInv, Wires PROVE FenceHolds
    <2> SUFFICES ASSUME NEW i \in Ids
                 PROVE  IF net[i].abort >= 0
                        THEN Len(net[i].wire) <= net[i].abort + 1
                        ELSE net[i].status => Len(net[i].wire) = net[i].accepted +
                                                (IF cl[i].has_final_write THEN 1 ELSE 0)
      BY DEF FenceHolds
    <2>1. CallInv(cl[i]) /\ net[i] \in Net /\ WireInv(cl[i], net[i])
      BY <1>1, TagFacts DEF Wires
    <2>2. CASE net[i].abort >= 0
      BY <2>1, <2>2 DEF WireInv, Fenced
    <2>3. ASSUME ~(net[i].abort >= 0), net[i].status
          PROVE  Len(net[i].wire) = net[i].accepted + (IF cl[i].has_final_write THEN 1 ELSE 0)
      <3>1. cl[i].finish_posted /\ net[i].abort < 0
        BY <2>1, <2>3 DEF WireInv, Net
      <3>2. ~cl[i].dead /\ cl[i].write_queue = <<>>
        BY <2>1, <3>1 DEF CallInv, LifeOrder
      <3>3. Len(cl[i].write_queue) = 0 /\ Len(net[i].wire) \in Nat
        BY <2>1, <3>2, EmptySeq, LenProperties DEF Net
      <3>4. /\ cl[i].has_final_write => Len(net[i].wire) + 0 = net[i].accepted + 1
            /\ ~cl[i].has_final_write => Len(net[i].wire) + 0 = net[i].accepted
        BY <2>1, <2>3, <3>1, <3>2, <3>3 DEF WireInv, AllThere
      <3>5. net[i].accepted \in Nat
        BY <2>1, ServerAssumption DEF Net
      <3> QED
        BY <3>3, <3>4, <3>5
    <2> QED
      BY <2>2, <2>3
  <1> QED
    BY <1>1, WireInvariance, PTL

-----------------------------------------------------------------------------
(* What comes in.                                                          *)

\* A delivered call is known to R, or its request is on the way.
Told ==
    \A i \in Ids : cl[i].delivered =>
        Known(i) \/ \E f \in ready : f.id = i /\ f.kind = "request"

\* The messages of call i in the deque go on where the polls stopped and, while
\* the call lives, end where the reads are.
MsgInv(i) ==
    /\ Numbered(Msgs(ready, i), handed[i].msgs)
    /\ ~cl[i].dead => handed[i].msgs + Cardinality(Msgs(ready, i)) = net[i].taken

InInv == Told /\ RequestFirst /\ \A i \in Ids : MsgInv(i)

\* What a step may do to a call without telling R: the call dies, or nothing more
\* is read of it.
Silent(i) ==
    /\ cl'[i].delivered => cl[i].delivered
    /\ ~cl'[i].dead => ~cl[i].dead /\ net'[i].taken = net[i].taken

LEMMA InQuiet ==
    ASSUME InInv, UNCHANGED <<ready, handed>>, \A i \in Ids : Silent(i)
    PROVE  InInv'
<1>1. Told'
  BY DEF InInv, Told, Silent, Known
<1>2. RequestFirst'
  BY DEF InInv, RequestFirst, Known
<1>3. ASSUME NEW i \in Ids PROVE MsgInv(i)'
  <2>1. Msgs(ready, i)' = Msgs(ready, i)
    BY DEF Msgs
  <2> QED
    BY <2>1 DEF InInv, MsgInv, Silent
<1> QED
  BY <1>1, <1>2, <1>3 DEF InInv

\* What TagInv says of the deque and of what R has had.
LEMMA QueueFacts ==
    ASSUME TagInv, NEW i \in Ids
    PROVE  /\ IsFiniteSet(Msgs(ready, i)) /\ Cardinality(Msgs(ready, i)) \in Nat
           /\ handed[i].msgs \in Nat /\ arrived \in Nat
           /\ \A e \in ready : e.stamp \in Nat /\ e.stamp < arrived + 1 /\ e.id \in Ids
<1>1. Msgs(ready, i) \subseteq ready /\ IsFiniteSet(ready)
  BY DEF TagInv, Msgs
<1>2. IsFiniteSet(Msgs(ready, i)) /\ Cardinality(Msgs(ready, i)) \in Nat
  BY <1>1, FS_Subset, FS_CardinalityType
<1> QED
  BY <1>2 DEF TagInv, TypeOK

\* An event of call i: the request, or something behind it; a message has the
\* number after the last one read.
LEMMA InEmit ==
    ASSUME TagInv, InInv, NEW i \in Ids, NEW k, NEW v, Emit(k, i, v), handed' = handed,
           \A j \in Ids : j # i => Silent(j),
           k # "request" => cl[i].delivered,
           cl'[i].delivered => cl[i].delivered \/ k = "request",
           k \in {"request", "stream_msg"} =>
               ~cl[i].dead /\ v = net[i].taken + 1 /\ net'[i].taken = net[i].taken + 1,
           k \notin {"request", "stream_msg"} => Silent(i)
    PROVE  InInv'
<1> DEFINE e == [kind |-> k, id |-> i, val |-> v, stamp |-> arrived + 1]
<1>1. ready' = ready \cup {e}
  BY DEF Emit
<1>2. e.kind = k /\ e.id = i /\ e.val = v /\ e.stamp = arrived + 1
  OBVIOUS
<1> HIDE DEF e
<1>3. Told'
  <2> SUFFICES ASSUME NEW j \in Ids, cl'[j].delivered
               PROVE  Known(j)' \/ \E f \in ready' : f.id = j /\ f.kind = "request"
    BY DEF Told
  <2>1. cl[j].delivered \/ (j = i /\ k = "request")
    BY DEF Silent
  <2> QED
    BY <1>1, <1>2, <2>1 DEF InInv, Told, Known
<1>4. RequestFirst'
  <2> SUFFICES ASSUME NEW g \in ready', g.kind # "request"
               PROVE  \/ Known(g.id)'
                      \/ \E f \in ready' : f.id = g.id /\ f.kind = "request" /\ f.stamp < g.stamp
    BY DEF RequestFirst
  <2>1. CASE g \in ready
    BY <1>1, <2>1 DEF InInv, RequestFirst, Known
  <2>2. CASE g = e
    <3>1. Known(i) \/ \E f \in ready : f.id = i /\ f.kind = "request"
      BY <1>2, <2>2 DEF InInv, Told
    <3>2. \A f \in ready : f.stamp < arrived + 1
      BY QueueFacts
    <3> QED
      BY <1>1, <1>2, <2>2, <3>1, <3>2 DEF Known
  <2> QED
    BY <1>1, <2>1, <2>2
<1>5. ASSUME NEW j \in Ids, Silent(j), ~(j = i /\ k \in {"request", "stream_msg"})
      PROVE  MsgInv(j)'
  <2>1. Msgs(ready, j)' = Msgs(ready, j)
    BY <1>1, <1>2, <1>5 DEF Msgs
  <2> QED
    BY <1>5, <2>1 DEF InInv, MsgInv, Silent
<1>6. ASSUME k \in {"request", "stream_msg"}
      PROVE  MsgInv(i)'
  <2> DEFINE q == Msgs(ready, i)
             n == handed[i].msgs
  <2>1. Msgs(ready, i)' = q \cup {e}
    BY <1>1, <1>2, <1>6 DEF Msgs
  <2>2. /\ IsFiniteSet(q) /\ Cardinality(q) \in Nat /\ n \in Nat /\ arrived \in Nat
        /\ \A f \in q : f.stamp \in Int /\ f.stamp < arrived + 1
    <3>1. q \subseteq ready
      BY DEF Msgs
    <3> QED
      BY <3>1, QueueFacts
  <2>3. Numbered(q, n) /\ n + Cardinality(q) = net[i].taken
    BY <1>6 DEF InInv, MsgInv
  <2> HIDE DEF q, n
  <2>4. e.val = n + Cardinality(q) + 1 /\ e.stamp \in Int /\ \A f \in q : f.stamp < e.stamp
    BY <1>2, <1>6, <2>2, <2>3
  <2>5. Numbered(q \cup {e}, n) /\ Cardinality(q \cup {e}) = Cardinality(q) + 1
    BY <2>2, <2>3, <2>4, NumberedAppend
  <2>6. n + (Cardinality(q) + 1) = net[i].taken + 1
    BY <2>2, <2>3
  <2> QED
    BY <1>6, <2>1, <2>5, <2>6 DEF MsgInv, n
<1> QED
  BY <1>3, <1>4, <1>5, <1>6 DEF InInv

\* grpc_poll: the batch is a prefix of what there is of each call.
LEMMA InPoll ==
    ASSUME TagInv, InInv, NEW want \in Ids \cup {All}, NEW maxn \in PollSizes,
           Poll(want, maxn)
    PROVE  InInv'
<1> DEFINE batch == Batch(ready, want, maxn)
<1>1. batch \subseteq ready
  BY DEF Batch
<1>2. /\ ready' = ready \ batch
      /\ handed' = [i \in Ids |->
                      [kinds |-> handed[i].kinds \cup {e.kind : e \in {f \in batch : f.id = i}},
                       msgs |-> handed[i].msgs + Cardinality(Msgs(batch, i))]]
      /\ UNCHANGED <<cl, net>>
  BY DEF Poll
<1>3. ASSUME NEW e \in batch, NEW f \in ready \ batch, e.id = f.id
      PROVE  e.stamp < f.stamp
  <2>1. IsFiniteSet(ready) /\ maxn \in Nat /\ \A g \in ready : g.stamp \in Nat
    BY ServerAssumption DEF TagInv, TypeOK
  <2> QED
    BY <1>3, <2>1, BatchIsPrefix
<1> HIDE DEF batch
<1>4. ASSUME NEW i \in Ids
      PROVE  /\ Known(i) => Known(i)'
             /\ \A f \in batch : f.id = i /\ f.kind = "request" => Known(i)'
             /\ handed'[i].msgs = handed[i].msgs + Cardinality(Msgs(batch, i))
  BY <1>2 DEF Known
<1>5. Told'
  BY <1>2, <1>4 DEF InInv, Told
<1>6. RequestFirst'
  <2> SUFFICES ASSUME NEW g \in ready', g.kind # "request"
               PROVE  \/ Known(g.id)'
                      \/ \E f \in ready' : f.id = g.id /\ f.kind = "request" /\ f.stamp < g.stamp
    BY DEF RequestFirst
  <2>1. g \in ready /\ g.id \in Ids
    BY <1>2 DEF TagInv, TypeOK
  <2> QED
    BY <1>2, <1>4, <2>1 DEF InInv, RequestFirst
<1>7. ASSUME NEW i \in Ids PROVE MsgInv(i)'
  <2> DEFINE q == Msgs(ready, i)
             P == Msgs(batch, i)
             n == handed[i].msgs
  <2>1. P \in SUBSET q /\ Msgs(ready, i)' = q \ P
    BY <1>1, <1>2 DEF Msgs
  <2>2. \A e \in P, f \in q \ P : e.stamp < f.stamp
    BY <1>3 DEF Msgs
  <2>3. /\ IsFiniteSet(q) /\ Cardinality(q) \in Nat /\ n \in Nat
        /\ \A f \in q : f.stamp \in Int
    BY QueueFacts DEF Msgs
  <2>4. /\ Numbered(q, n) /\ (~cl[i].dead => n + Cardinality(q) = net[i].taken)
        /\ handed'[i].msgs = n + Cardinality(P)
    BY <1>4 DEF InInv, MsgInv
  <2> HIDE DEF q, P, n
  <2>5. /\ Cardinality(P) \in Nat
        /\ Cardinality(q \ P) = Cardinality(q) - Cardinality(P)
        /\ Numbered(q \ P, n + Cardinality(P))
    BY <2>1, <2>2, <2>3, <2>4, NumberedTake
  <2>6. (n + Cardinality(P)) + Cardinality(q \ P) = n + Cardinality(q)
    BY <2>3, <2>5
  <2> QED
    BY <1>2, <2>1, <2>4, <2>5, <2>6 DEF MsgInv
<1> QED
  BY <1>5, <1>6, <1>7 DEF InInv

LEMMA InCompleteRead ==
    ASSUME TagInv, InInv, NEW i \in Ids, NEW ok \in BOOLEAN, CompleteRead(i, ok)
    PROVE  InInv'
<1> DEFINE c == cl[i]
           s == Retire(c, "read")
           r == [s EXCEPT !.read_inflight = FALSE]
           k == ReadOutcome(r, ok)
           d == [r EXCEPT !.delivered = @ \/ k = "request", !.dead = @ \/ k = "none"]
           v == IF ok THEN net[i].taken + 1 ELSE 0
<1>1. CallInv(c) /\ cl \in [Ids -> Call] /\ net \in [Ids -> Net] /\ net[i] \in Net
  BY TagFacts
<1>2. /\ "read" \in c.ops /\ CallCase(i, d)
      /\ net' = IF ok THEN [net EXCEPT ![i].taken = @ + 1] ELSE net
      /\ IF k = "none" THEN Quiet ELSE Emit(k, i, v)
  BY DEF CompleteRead
<1>3. s \in Call /\ SameButTags(c, s)
  BY <1>1, <1>2, RetireLemma DEF CallInv, FlagsTellTags
<1> HIDE DEF s
<1>4. r \in Call /\ r.delivered = c.delivered /\ r.dead = c.dead
  BY <1>3 DEF SameButTags, Call
<1>5. /\ k # "none" => ~c.dead
      /\ k \notin {"none", "request"} => c.delivered
      /\ k \in {"request", "stream_msg"} => ok
      /\ k = "client_done" => ~ok
      /\ k \in {"request", "stream_msg", "client_done", "none"}
  BY <1>4 DEF ReadOutcome
<1> HIDE DEF r, k
<1>6. d.delivered = (c.delivered \/ k = "request") /\ d.dead = (c.dead \/ k = "none")
  BY <1>4 DEF Call
<1>7. (ok => v = net[i].taken + 1) /\ (ok => net'[i].taken = net[i].taken + 1)
      /\ (~ok => net'[i] = net[i])
  <2>1. ok => net'[i] = [net[i] EXCEPT !.taken = net[i].taken + 1]
    BY <1>1, <1>2
  <2>2. ok => net'[i].taken = net[i].taken + 1
    BY <1>1, <2>1 DEF Net
  <2> QED
    BY <1>1, <1>2, <2>2
<1> HIDE DEF d, v
<1>8. /\ cl'[i] = d /\ handed' = handed
      /\ \A j \in Ids : j # i => cl'[j] = cl[j] /\ net'[j] = net[j]
  BY <1>1, <1>2 DEF CallCase
<1>9. \A j \in Ids : j # i => Silent(j)
  BY <1>8 DEF Silent
<1>10. CASE k = "none"
  <2>1. Silent(i)
    BY <1>6, <1>8, <1>10 DEF Silent
  <2> QED
    BY <1>2, <1>8, <1>9, <1>10, <2>1, InQuiet DEF Quiet
<1>11. CASE k = "client_done"
  <2>1. Silent(i)
    BY <1>5, <1>6, <1>7, <1>8, <1>11 DEF Silent
  <2> QED
    BY <1>2, <1>5, <1>6, <1>8, <1>9, <1>11, <2>1, InEmit
<1>12. CASE k \in {"request", "stream_msg"}
  BY <1>2, <1>5, <1>6, <1>7, <1>8, <1>9, <1>12, InEmit
<1> QED
  BY <1>5, <1>10, <1>11, <1>12

LEMMA InCompleteWrite ==
    ASSUME TagInv, InInv, NEW i \in Ids, NEW ok \in BOOLEAN, CompleteWrite(i, ok)
    PROVE  InInv'
<1> DEFINE c == cl[i]
           r == [Retire(c, "write") EXCEPT !.write_inflight = FALSE]
           d == AfterWrite(r, ok)
           w == Append(net[i].wire, Head(r.write_queue))
<1>1. CallInv(c) /\ cl \in [Ids -> Call] /\ net \in [Ids -> Net] /\ net[i] \in Net
  BY TagFacts
<1>2. /\ "write" \in c.ops /\ CallCase(i, d)
      /\ net' = IF ok THEN [net EXCEPT ![i].wire = w] ELSE net
      /\ Emit("stream_writable", i, 0) \/ Quiet
  BY DEF CompleteWrite
<1>3. c.dead => d.dead
  BY <1>1, <1>2, WriteCaseLemma
<1>4. c.delivered
  BY <1>1, <1>2 DEF CallInv, LifeOrder
<1> HIDE DEF d, w
<1>5. net'[i].taken = net[i].taken
  <2>1. [net[i] EXCEPT !.wire = w].taken = net[i].taken
    BY <1>1 DEF Net
  <2> QED
    BY <1>1, <1>2, <2>1
<1>6. /\ cl'[i] = d /\ handed' = handed
      /\ \A j \in Ids : j # i => cl'[j] = cl[j] /\ net'[j] = net[j]
  BY <1>1, <1>2 DEF CallCase
<1>7. \A j \in Ids : Silent(j)
  BY <1>3, <1>4, <1>5, <1>6 DEF Silent
<1>8. CASE Quiet
  BY <1>6, <1>7, <1>8, InQuiet DEF Quiet
<1>9. CASE Emit("stream_writable", i, 0)
  BY <1>4, <1>6, <1>7, <1>9, InEmit
<1> QED
  BY <1>2, <1>8, <1>9

LEMMA InCompleteDone ==
    ASSUME TagInv, InInv, NEW i \in Ids, CompleteDone(i)
    PROVE  InInv'
<1> DEFINE c == cl[i]
           r == Retire(c, "done")
           d == AfterDone(c)
<1>1. CallInv(c) /\ cl \in [Ids -> Call]
  BY TagFacts
<1>2. CallCase(i, d)
  BY DEF CompleteDone, AfterDone
<1>3. /\ "done" \in c.ops /\ net' = net
      /\ IF Abandoned(r) THEN Emit("cancelled", i, 0) ELSE Quiet
  BY DEF CompleteDone
<1>4. d.delivered = c.delivered /\ (c.dead => d.dead)
  BY <1>1, <1>3, DoneCaseLemma DEF KeepsWrites
<1>5. Abandoned(r) => c.delivered
  BY <1>1, <1>3, RetireLemma DEF CallInv, FlagsTellTags, SameButTags, Abandoned
<1> HIDE DEF d, r
<1>6. /\ cl'[i] = d /\ handed' = handed
      /\ \A j \in Ids : j # i => cl'[j] = cl[j]
  BY <1>1, <1>2 DEF CallCase
<1>7. \A j \in Ids : Silent(j)
  BY <1>3, <1>4, <1>6 DEF Silent
<1>8. CASE Abandoned(r)
  BY <1>3, <1>4, <1>5, <1>6, <1>7, <1>8, InEmit
<1>9. CASE ~Abandoned(r)
  BY <1>3, <1>6, <1>7, <1>9, InQuiet DEF Quiet
<1> QED
  BY <1>8, <1>9

LEMMA InCompleteFinish ==
    ASSUME TagInv, InInv, NEW i \in Ids, NEW ok \in BOOLEAN, CompleteFinish(i, ok)
    PROVE  InInv'
<1> DEFINE c == cl[i]
           d == Retire(c, "finish")
           w == IF c.has_final_write THEN Append(net[i].wire, net[i].accepted + 1)
                ELSE net[i].wire
<1>1. CallInv(c) /\ cl \in [Ids -> Call] /\ net \in [Ids -> Net] /\ net[i] \in Net
  BY TagFacts
<1>2. /\ CallCase(i, d) /\ "finish" \in c.ops /\ Quiet
      /\ net' = IF ok THEN [net EXCEPT ![i].status = TRUE, ![i].wire = w] ELSE net
  BY DEF CompleteFinish
<1>3. d.delivered = c.delivered /\ (c.dead => d.dead)
  BY <1>1, <1>2, FinishCaseLemma DEF KeepsWrites
<1> HIDE DEF d, w
<1>4. net'[i].taken = net[i].taken
  <2>1. [net[i] EXCEPT !.status = TRUE, !.wire = w].taken = net[i].taken
    BY <1>1 DEF Net
  <2> QED
    BY <1>1, <1>2, <2>1
<1>5. /\ cl'[i] = d /\ handed' = handed
      /\ \A j \in Ids : j # i => cl'[j] = cl[j] /\ net'[j] = net[j]
  BY <1>1, <1>2 DEF CallCase
<1>6. \A j \in Ids : Silent(j)
  BY <1>3, <1>4, <1>5 DEF Silent
<1> QED
  BY <1>2, <1>5, <1>6, InQuiet DEF Quiet

\* R's operations and the peer's steps, of which R hears nothing.
LEMMA InOperation ==
    ASSUME TagInv, InInv, NEW i \in Ids,
           \/ \E payload \in BOOLEAN : Reply(i, payload)
           \/ \E drain \in BOOLEAN : Finish(i, drain)
           \/ Read(i) \/ Send(i) \/ Cancel(i)
           \/ PeerSend(i) \/ PeerHalfClose(i) \/ PeerGone(i)
    PROVE  InInv'
<1>1. net \in [Ids -> Net] /\ net[i] \in Net
  BY TagFacts
<1>2. /\ handed' = handed /\ ready' = ready
      /\ \A j \in Ids : j # i => cl'[j] = cl[j] /\ net'[j] = net[j]
  BY OperationFrame
<1>3. (cl[i].delivered /\ ~cl[i].dead) \/ cl' = cl
  BY DEF Reply, Finish, Read, Send, Cancel, PeerSend, PeerHalfClose, PeerGone, Answerable, pvars
<1>4. /\ [net[i] EXCEPT !.abort = Len(net[i].wire)].taken = net[i].taken
      /\ [net[i] EXCEPT !.accepted = net[i].accepted + 1].taken = net[i].taken
      /\ [net[i] EXCEPT !.over = TRUE].taken = net[i].taken
      /\ [net[i] EXCEPT !.half = TRUE].taken = net[i].taken
      /\ [net[i] EXCEPT !.sent = net[i].sent + 1].taken = net[i].taken
  BY <1>1 DEF Net
<1>5. net'[i].taken = net[i].taken
  BY <1>1, <1>4 DEF Reply, Finish, Read, Send, Cancel, PeerSend, PeerHalfClose, PeerGone, pvars
<1>6. \A j \in Ids : Silent(j)
  BY <1>2, <1>3, <1>5 DEF Silent
<1> QED
  BY <1>2, <1>6, InQuiet

LEMMA InNext ==
    ASSUME TagInv, FreshInv, InInv, [Next]_vars
    PROVE  InInv'
<1>1. cl \in [Ids -> Call] /\ net \in [Ids -> Net]
  BY DEF TagInv, TypeOK
<1>2. CASE UNCHANGED <<cl, net, ready, handed>>
  BY <1>2, InQuiet DEF Silent
<1>3. ASSUME NEW i \in Ids, Complete(i) PROVE InInv'
  BY <1>3, InCompleteRead, InCompleteWrite, InCompleteDone, InCompleteFinish DEF Complete
<1>4. CASE CloseServer
  <2>1. \A j \in Ids : [net[j] EXCEPT !.over = TRUE].taken = net[j].taken
    BY <1>1 DEF Net
  <2>2. \A j \in Ids : Silent(j)
    BY <1>4, <2>1 DEF CloseServer, Silent
  <2> QED
    BY <1>4, <2>2, InQuiet DEF CloseServer
<1>5. CASE AcceptOk
  <2> DEFINE d == IF Shutting THEN [Post(NewCall, "done") EXCEPT !.dead = TRUE]
                  ELSE Post(Post([NewCall EXCEPT !.read_inflight = TRUE], "done"), "read")
             o == phase \in {"cancelled", "cqdown"}
  <2>1. /\ cl' = [cl EXCEPT ![next_id] = d] /\ net' = [net EXCEPT ![next_id].over = o]
        /\ UNCHANGED <<ready, handed>>
    BY <1>5 DEF AcceptOk
  <2>2. ~d.delivered
    BY AcceptLemma
  <2> HIDE DEF d, o
  <2>3. next_id \in Ids
    BY <1>5, TagAccept, ActiveFinite
  <2>4. cl[next_id] = NewCall /\ ~NewCall.dead
    BY <2>3 DEF FreshInv, NewCall, Ids
  <2>5. [net[next_id] EXCEPT !.over = o].taken = net[next_id].taken
    BY <1>1, <2>3 DEF Net
  <2>6. \A j \in Ids : Silent(j)
    BY <1>1, <2>1, <2>2, <2>3, <2>4, <2>5 DEF Silent
  <2> QED
    BY <2>1, <2>6, InQuiet
<1>6. ASSUME NEW want \in Ids \cup {All}, NEW maxn \in PollSizes, Poll(want, maxn)
      PROVE  InInv'
  BY <1>6, InPoll
<1>7. CASE CloseBegin \/ CloseQueue \/ CloseJoin \/ CloseAgain \/ AcceptFailed \/ PeerCall
           \/ UNCHANGED vars
  BY <1>2, <1>7 DEF CloseBegin, CloseQueue, CloseJoin, CloseAgain, AcceptFailed, PeerCall,
     vars, pvars
<1> QED
  BY <1>3, <1>4, <1>5, <1>6, <1>7, InOperation DEF Next

LEMMA InInit ==
    ASSUME Init
    PROVE  InInv
<1>1. Cardinality({}) = 0
  BY FS_EmptySet
<1>2. ASSUME NEW i \in Ids PROVE MsgInv(i)
  <2>1. Msgs(ready, i) = {} /\ handed[i].msgs = 0 /\ net[i].taken = 0
    BY DEF Init, Msgs, NewNet
  <2>2. Numbered({}, 0)
    BY <1>1 DEF Numbered
  <2> QED
    BY <1>1, <2>1, <2>2 DEF MsgInv
<1> QED
  BY <1>2 DEF Init, InInv, Told, RequestFirst, NewCall

LEMMA InInvariance == Spec => []InInv
  <1>1. Init => InInv
    BY InInit
  <1>2. TagInv /\ FreshInv /\ InInv /\ [Next]_vars => InInv'
    BY InNext
  <1> QED
    BY <1>1, <1>2, WireInvariance, PTL DEF Spec

\* R/server.R: a handler hears of a call by its request first, whichever poll,
\* filter and batch size it uses and in whatever order the tags completed.
THEOREM RequestFirstTheorem == Spec => []RequestFirst
  <1>1. InInv => RequestFirst
    BY DEF InInv
  <1> QED
    BY <1>1, InInvariance, PTL

\* The messages of a call reach R in the order sent, none skipped or repeated,
\* and of a living call none that was read is missing.
THEOREM MsgsInOrderTheorem == Spec => []MsgsInOrder
  <1>1. InInv => MsgsInOrder
    BY DEF InInv, MsgInv, Numbered, MsgsInOrder
  <1> QED
    BY <1>1, InInvariance, PTL
-----------------------------------------------------------------------------
(* A call as the other end of the RPC sees it.                             *)

\* The response of grpc_reply, until it has gone out with the status.
Final(c, n) == IF c.has_final_write /\ ~n.status THEN 1 ELSE 0

\* Messages that can have reached the peer: what is on its way counts.
Reached(c, n) ==
    Len(n.wire) + (IF "write" \in c.ops THEN 1 ELSE 0)
                + (IF c.finish_posted THEN Final(c, n) ELSE 0)

\* Messages the peer will have had with the status.
Promised(c, n) == Len(n.wire) + Len(c.write_queue) + Final(c, n)

\* Messages R has handed over, a response that went out included.
Given(c, n) == n.accepted + (IF n.status /\ c.has_final_write THEN 1 ELSE 0)

\* Nothing goes out that R has not handed over.
OutInv(c, n) ==
    /\ Len(n.wire) + (IF "write" \in c.ops THEN 1 ELSE 0) <= Given(c, n)
    /\ ~c.dead => Len(n.wire) + Len(c.write_queue) <= Given(c, n)

Outs == \A i \in Ids : OutInv(cl[i], net[i])

\* What one step may do to a call, from c and n to d and m: R hands over one
\* more message, or answers, each on a living unanswered call; the call dies; or
\* something of what was promised goes out, and the promise stays as it is.
Outlet(c, n, d, m) ==
    /\ (c.dead => d.dead) /\ (c.replied => d.replied) /\ (c.finish_posted => d.finish_posted)
    /\ ~d.dead => Reached(c, n) <= Reached(d, m)
    /\ c.replied /\ ~d.dead => Promised(d, m) = Promised(c, n)
    /\ d.replied /\ ~c.replied => ~c.dead /\ ~d.dead /\ m.accepted = n.accepted
    /\ m.accepted # n.accepted =>
         /\ m.accepted = n.accepted + 1
         /\ ~c.dead /\ ~d.dead /\ ~c.replied /\ ~d.replied

\* The lengths are numbers.
LEMMA OutTypes ==
    ASSUME NEW c, CallInv(c), NEW n \in Net
    PROVE  /\ Len(n.wire) \in Nat /\ Len(c.write_queue) \in Nat /\ n.accepted \in Nat
           /\ Reached(c, n) \in Nat
           /\ "write" \in c.ops => ~c.finish_posted /\ Len(c.write_queue) >= 1
<1>1. c.write_queue \in Seq(Nat) /\ n.wire \in Seq(Nat) /\ n.accepted \in Nat
  BY ServerAssumption DEF CallInv, Call, Net
<1>2. Len(n.wire) \in Nat /\ Len(c.write_queue) \in Nat
  BY <1>1, LenProperties
<1>3. "write" \in c.ops => ~c.finish_posted /\ c.write_queue # <<>>
  BY DEF CallInv, FlagsTellTags, LifeOrder
<1>4. Reached(c, n) \in Nat
  <2> DEFINE W == Len(n.wire)
             F == Final(c, n)
  <2>1. W \in Nat /\ F \in {0, 1}
    BY <1>2 DEF Final
  <2>2. Reached(c, n) = W + (IF "write" \in c.ops THEN 1 ELSE 0)
                          + (IF c.finish_posted THEN F ELSE 0)
    BY DEF Reached
  <2> HIDE DEF W, F
  <2> QED
    BY <2>1, <2>2
<1> QED
  BY <1>1, <1>2, <1>3, <1>4, EmptySeq

\* A step that writes nothing.
LEMMA OutKept ==
    ASSUME NEW c, CallInv(c), NEW n \in Net, OutInv(c, n),
           NEW d, KeepsWrites(c, d), "write" \in d.ops <=> "write" \in c.ops,
           NEW m, SameSent(n, m)
    PROVE  OutInv(d, m) /\ Outlet(c, n, d, m)
<1>1. /\ Final(d, m) = Final(c, n) /\ Given(d, m) = Given(c, n)
  BY DEF Final, Given, KeepsWrites, SameSent
<1>2. Reached(d, m) = Reached(c, n) /\ Promised(d, m) = Promised(c, n)
  BY <1>1 DEF Reached, Promised, KeepsWrites, SameSent
<1>3. Reached(c, n) \in Nat
  BY OutTypes
<1>4. OutInv(d, m)
  BY <1>1 DEF OutInv, KeepsWrites, SameSent
<1>5. d.replied = c.replied /\ (c.dead => d.dead) /\ d.finish_posted = c.finish_posted
      /\ m.accepted = n.accepted
  BY DEF KeepsWrites, SameSent
<1>6. Reached(c, n) <= Reached(d, m)
  BY <1>2, <1>3
<1> QED
  BY <1>2, <1>4, <1>5, <1>6 DEF Outlet

\* pump_locked at the end of a step.
LEMMA OutPumped ==
    ASSUME NEW c, NEW n, Reached(c, n) \in Nat, NEW m \in Net,
           NEW a, CallInv(a), a.delivered, Settled(a), OutInv(a, m), Outlet(c, n, a, m),
           NEW d, d = pump_locked(a)
    PROVE  OutInv(d, m) /\ Outlet(c, n, d, m)
<1>1. CallInv(d) /\ a.ops \subseteq d.ops
  BY PumpLemma
<1>2. /\ a \in Call /\ a.pending = Cardinality(a.ops) /\ (a.write_inflight <=> "write" \in a.ops)
      /\ ("finish" \in a.ops => a.finish_posted)
  BY DEF CallInv, FlagsTellTags
<1>3. /\ d.dead = a.dead /\ d.write_queue = a.write_queue
      /\ d.has_final_write = a.has_final_write /\ d.replied = a.replied
      /\ d.write_inflight => a.write_inflight \/ ~a.dead
      /\ a.finish_posted => d.finish_posted /\ d.ops = a.ops
  BY <1>2, PumpFields
<1>4. d.write_inflight <=> "write" \in d.ops
  BY <1>1 DEF CallInv, FlagsTellTags
<1>5. /\ Final(d, m) = Final(a, m) /\ Given(d, m) = Given(a, m)
      /\ Final(a, m) \in {0, 1} /\ Promised(d, m) = Promised(a, m)
  BY <1>3 DEF Final, Given, Promised
<1>6. /\ Len(m.wire) \in Nat /\ Len(d.write_queue) \in Nat /\ m.accepted \in Nat
      /\ "write" \in d.ops => Len(d.write_queue) >= 1
  BY <1>1, OutTypes
<1> DEFINE G == Given(a, m)
           F == Final(a, m)
           W == Len(m.wire)
           Q == Len(d.write_queue)
           B(o) == IF "write" \in o THEN 1 ELSE 0
<1>7. G \in Nat
  BY <1>6 DEF Given
<1>8. /\ W + B(a.ops) <= G /\ (~a.dead => W + Q <= G)
  BY <1>3 DEF OutInv
<1>9. OutInv(d, m)
  <2>1. W + B(d.ops) <= G
    <3>1. W \in Nat /\ Q \in Nat /\ G \in Nat /\ ("write" \in d.ops => Q >= 1)
      BY <1>6, <1>7
    <3> HIDE DEF W, Q, G
    <3> QED
      BY <1>2, <1>3, <1>4, <1>8, <3>1
  <2> QED
    BY <1>3, <1>5, <1>8, <2>1 DEF OutInv
<1>10. Reached(a, m) <= Reached(d, m) /\ Reached(a, m) \in Nat /\ Reached(d, m) \in Nat
  <2>1. Reached(a, m) \in Nat /\ Reached(d, m) \in Nat
    BY <1>1, OutTypes
  <2>2. /\ Reached(a, m) = W + B(a.ops) + (IF a.finish_posted THEN F ELSE 0)
        /\ Reached(d, m) = W + B(d.ops) + (IF d.finish_posted THEN F ELSE 0)
    BY <1>5 DEF Reached
  <2>3. W \in Nat /\ F \in {0, 1}
    BY <1>5, <1>6
  <2> HIDE DEF W, F
  <2> QED
    BY <1>1, <1>3, <2>1, <2>2, <2>3
<1>11. ~d.dead => Reached(c, n) <= Reached(d, m)
  BY <1>3, <1>10 DEF Outlet
<1> QED
  BY <1>3, <1>5, <1>9, <1>11 DEF Outlet

\* grpc_reply, grpc_finish and grpc_send up to pump_locked.
LEMMA OutRequeued ==
    ASSUME NEW c, CallInv(c), ~c.replied, ~c.dead, NEW n \in Net, WireInv(c, n), OutInv(c, n),
           NEW q \in Seq(Nat), NEW a, Requeued(c, a, q),
           NEW m \in Net, m.wire = n.wire, m.status = n.status,
           \/ m.accepted = n.accepted /\ Len(q) <= Len(c.write_queue)
           \/ m.accepted = n.accepted + 1 /\ Len(q) = Len(c.write_queue) + 1 /\ ~a.replied
    PROVE  OutInv(a, m) /\ Outlet(c, n, a, m)
<1>1. ~c.finish_posted /\ ~n.status
  BY DEF CallInv, LifeOrder, WireInv
<1>2. /\ a.ops = c.ops /\ ~a.finish_posted /\ ~a.dead /\ a.write_queue = q
  BY <1>1 DEF Requeued
<1>3. /\ Given(c, n) = n.accepted + 0 /\ Given(a, m) = m.accepted + 0
      /\ Reached(a, m) = Reached(c, n)
  BY <1>1, <1>2 DEF Given, Reached
<1> DEFINE W == Len(n.wire)
           Q == Len(c.write_queue)
           P == Len(q)
           B == IF "write" \in c.ops THEN 1 ELSE 0
<1>4. W \in Nat /\ Q \in Nat /\ P \in Nat /\ n.accepted \in Nat /\ m.accepted \in Nat
      /\ Reached(c, n) \in Nat
  BY OutTypes, LenProperties, ServerAssumption DEF Net
<1>5. W + B <= n.accepted + 0 /\ W + Q <= n.accepted + 0
  BY <1>3 DEF OutInv
<1>6. W + B <= m.accepted + 0 /\ W + P <= m.accepted + 0
  <2>1. B \in Nat
    OBVIOUS
  <2>2. \/ m.accepted = n.accepted /\ P <= Q
        \/ m.accepted = n.accepted + 1 /\ P = Q + 1
    OBVIOUS
  <2> HIDE DEF W, Q, P, B
  <2> QED
    BY <1>4, <1>5, <2>1, <2>2
<1>7. OutInv(a, m)
  BY <1>2, <1>3, <1>6 DEF OutInv
<1>8. Reached(c, n) <= Reached(a, m)
  BY <1>3, <1>4
<1>9. m.accepted # n.accepted => m.accepted = n.accepted + 1 /\ ~a.replied
  OBVIOUS
<1> QED
  BY <1>1, <1>2, <1>7, <1>8, <1>9 DEF Outlet

LEMMA OutReply ==
    ASSUME TagInv, Wires, Outs, NEW i \in Ids, NEW payload \in BOOLEAN, Reply(i, payload)
    PROVE  OutInv(cl'[i], net'[i]) /\ Outlet(cl[i], net[i], cl'[i], net'[i])
<1> DEFINE c == cl[i]
           a == [c EXCEPT !.replied = TRUE, !.has_final_write = payload]
           d == pump_locked(a)
<1>1. /\ CallInv(c) /\ c \in Call /\ net[i] \in Net /\ cl \in [Ids -> Call] /\ WireInv(c, net[i])
      /\ OutInv(c, net[i])
  BY TagFacts DEF Wires, Outs
<1>2. i \in active /\ c.delivered /\ ~c.replied /\ ~c.dead /\ cl'[i] = d /\ net' = net
      /\ c.ops # {}
  BY <1>1, TagFacts DEF Reply, Answerable
<1>3. /\ c.write_inflight => c.write_queue # <<>>
      /\ Requeued(c, a, c.write_queue) /\ a.replied /\ c.write_queue \in Seq(Nat)
  BY <1>1 DEF CallInv, LifeOrder, Call, Requeued
<1> HIDE DEF a
<1>4. CallInv(a) /\ a.delivered /\ Settled(a)
  BY <1>1, <1>2, <1>3, RequeueLemma
<1>5. Reached(c, net[i]) \in Nat /\ Len(c.write_queue) <= Len(c.write_queue)
  BY <1>1, OutTypes
<1>6. OutInv(a, net[i]) /\ Outlet(c, net[i], a, net[i])
  BY <1>1, <1>2, <1>3, <1>5, OutRequeued
<1>7. OutInv(d, net[i]) /\ Outlet(c, net[i], d, net[i])
  BY <1>1, <1>4, <1>5, <1>6, OutPumped
<1> QED
  BY <1>2, <1>7

LEMMA OutFinish ==
    ASSUME TagInv, Wires, Outs, NEW i \in Ids, NEW drain \in BOOLEAN, Finish(i, drain)
    PROVE  OutInv(cl'[i], net'[i]) /\ Outlet(cl[i], net[i], cl'[i], net'[i])
<1> DEFINE c == cl[i]
           n == net[i]
           q == IF drain THEN c.write_queue ELSE Discarded(c)
           a == [c EXCEPT !.replied = TRUE, !.has_final_write = FALSE, !.write_queue = q]
           d == pump_locked(a)
           m == IF drain THEN n ELSE [n EXCEPT !.abort = Len(n.wire)]
<1>1. /\ CallInv(c) /\ c \in Call /\ n \in Net /\ cl \in [Ids -> Call]
      /\ net \in [Ids -> Net] /\ WireInv(c, n) /\ OutInv(c, n)
  BY TagFacts DEF Wires, Outs
<1>2. i \in active /\ c.delivered /\ ~c.replied /\ ~c.dead /\ cl'[i] = d /\ net'[i] = m
      /\ c.ops # {}
  BY <1>1, TagFacts DEF Finish, Answerable
<1>3. /\ Len(n.wire) \in Nat /\ Len(c.write_queue) \in Nat /\ Reached(c, n) \in Nat
  BY <1>1, OutTypes
<1>4. q \in Seq(Nat) /\ (c.write_inflight => q # <<>>) /\ Len(q) <= Len(c.write_queue)
  <2>1. c.write_queue \in Seq(Nat) /\ (c.write_inflight => c.write_queue # <<>>)
    BY <1>1 DEF CallInv, LifeOrder, Call
  <2>2. /\ Discarded(c) \in Seq(Nat) /\ (c.write_inflight => Discarded(c) # <<>>)
        /\ Len(Discarded(c)) <= Len(c.write_queue)
    <3>1. CASE c.write_inflight
      <4>1. /\ Discarded(c) \in Seq(Nat) /\ Len(Discarded(c)) = 1
            /\ Len(c.write_queue) >= 1
        BY <1>1, <3>1, DiscardedLemma
      <4>2. Discarded(c) # <<>>
        BY <1>1, <3>1, DiscardedLemma, EmptySeq
      <4>3. Len(Discarded(c)) <= Len(c.write_queue)
        BY <1>3, <4>1
      <4> QED
        BY <4>1, <4>2, <4>3
    <3>2. CASE ~c.write_inflight
      <4>1. Discarded(c) \in Seq(Nat) /\ Len(Discarded(c)) = 0
        BY <1>1, <3>2, DiscardedLemma, EmptySeq
      <4> QED
        BY <1>3, <3>2, <4>1
    <3> QED
      BY <3>1, <3>2
  <2> QED
    BY <1>3, <2>1, <2>2
<1>5. /\ m \in Net /\ m.wire = n.wire /\ m.status = n.status /\ m.accepted = n.accepted
  <2> DEFINE w == Len(n.wire)
  <2>1. w \in Int /\ m = IF drain THEN n ELSE [n EXCEPT !.abort = w]
    BY <1>3
  <2> HIDE DEF w, m
  <2> QED
    BY <1>1, <2>1 DEF Net
<1> HIDE DEF q, m
<1>6. Requeued(c, a, q) /\ a.replied /\ ~a.has_final_write
  BY <1>1, <1>4 DEF Call, Requeued
<1> HIDE DEF a
<1>7. CallInv(a) /\ a.delivered /\ Settled(a)
  BY <1>1, <1>2, <1>4, <1>6, RequeueLemma
<1>8. OutInv(a, m) /\ Outlet(c, n, a, m)
  BY <1>1, <1>2, <1>4, <1>5, <1>6, OutRequeued
<1>9. OutInv(d, m) /\ Outlet(c, n, d, m)
  BY <1>3, <1>5, <1>7, <1>8, OutPumped
<1> QED
  BY <1>2, <1>9

LEMMA OutSend ==
    ASSUME TagInv, Wires, Outs, NEW i \in Ids, Send(i)
    PROVE  OutInv(cl'[i], net'[i]) /\ Outlet(cl[i], net[i], cl'[i], net'[i])
<1> DEFINE c == cl[i]
           n == net[i]
           q == Append(c.write_queue, n.accepted + 1)
           a == [c EXCEPT !.write_queue = q]
           d == pump_locked(a)
           m == [n EXCEPT !.accepted = n.accepted + 1]
<1>1. /\ CallInv(c) /\ c \in Call /\ n \in Net /\ cl \in [Ids -> Call]
      /\ net \in [Ids -> Net] /\ WireInv(c, n) /\ OutInv(c, n)
  BY TagFacts DEF Wires, Outs
<1>2. i \in active /\ c.delivered /\ ~c.replied /\ ~c.dead /\ cl'[i] = d /\ net'[i] = m
      /\ c.ops # {} /\ n.accepted < MaxSends
  BY <1>1, TagFacts DEF Send, Answerable
<1>3. n.accepted + 1 \in Nat /\ c.write_queue \in Seq(Nat) /\ n.accepted + 1 \in 0..MaxSends
  BY <1>1, <1>2, ServerAssumption DEF Net, Call
<1>4. /\ m \in Net /\ m.wire = n.wire /\ m.status = n.status /\ m.accepted = n.accepted + 1
  BY <1>1, <1>3 DEF Net
<1>5. q \in Seq(Nat) /\ q # <<>> /\ Len(q) = Len(c.write_queue) + 1
  <2>1. q \in Seq(Nat) /\ q # <<>>
    BY <1>3, AppendProperties
  <2>2. Len(q) = Len(c.write_queue) + 1
    BY <1>3, AppendProperties
  <2> QED
    BY <2>1, <2>2
<1> HIDE DEF m, q
<1>6. Requeued(c, a, q) /\ (a.has_final_write => a.replied) /\ ~a.replied
  BY <1>1, <1>2, <1>5 DEF Call, Requeued, CallInv, LifeOrder
<1> HIDE DEF a
<1>7. CallInv(a) /\ a.delivered /\ Settled(a)
  BY <1>1, <1>2, <1>5, <1>6, RequeueLemma
<1>8. OutInv(a, m) /\ Outlet(c, n, a, m)
  BY <1>1, <1>2, <1>4, <1>5, <1>6, OutRequeued
<1>9. Reached(c, n) \in Nat
  BY <1>1, OutTypes
<1>10. OutInv(d, m) /\ Outlet(c, n, d, m)
  BY <1>4, <1>7, <1>8, <1>9, OutPumped
<1> QED
  BY <1>2, <1>10

\* case write.
LEMMA OutWritten ==
    ASSUME NEW c, CallInv(c), "write" \in c.ops, NEW n \in Net, WireInv(c, n), OutInv(c, n),
           NEW ok \in BOOLEAN, NEW m \in Net,
           m.wire = IF ok THEN Append(n.wire, Head(c.write_queue)) ELSE n.wire,
           m.status = n.status, m.accepted = n.accepted,
           NEW d, d = AfterWrite([Retire(c, "write") EXCEPT !.write_inflight = FALSE], ok)
    PROVE  OutInv(d, m) /\ Outlet(c, n, d, m)
<1> DEFINE s == Retire(c, "write")
           r == [s EXCEPT !.write_inflight = FALSE]
           q == c.write_queue
<1>1. /\ s \in Call /\ s.pending = Cardinality(s.ops)
      /\ s.ops = c.ops \ {"write"} /\ SameButTags(c, s)
  BY RetireLemma DEF CallInv, FlagsTellTags
<1>2. d = AfterWrite(r, ok)
  OBVIOUS
<1> HIDE DEF s
<1>3. /\ r \in Call /\ r.ops = c.ops \ {"write"} /\ r.pending = Cardinality(r.ops)
      /\ r.delivered = c.delivered /\ r.replied = c.replied /\ r.dead = c.dead
      /\ ~r.write_inflight /\ r.read_inflight = c.read_inflight
      /\ r.finish_posted = c.finish_posted /\ r.has_final_write = c.has_final_write
      /\ r.write_queue = c.write_queue
  BY <1>1 DEF SameButTags, Call
<1> HIDE DEF r
<1>4. /\ ~c.finish_posted /\ c.delivered /\ Settled(c) /\ q \in Seq(Nat) /\ q # <<>>
      /\ n.wire \in Seq(Nat) /\ n.accepted \in Nat
  <2>1. ~c.finish_posted /\ c.delivered /\ Settled(c) /\ q \in Seq(Nat) /\ q # <<>>
    BY DEF CallInv, FlagsTellTags, LifeOrder, Call
  <2>2. n.wire \in Seq(Nat) /\ n.accepted \in Nat
    BY ServerAssumption DEF Net
  <2> QED
    BY <2>1, <2>2
<1>5. ~n.status /\ ~m.status
  BY <1>4 DEF WireInv
<1>6. /\ Head(q) \in Nat /\ Tail(q) \in Seq(Nat) /\ Len(Tail(q)) = Len(q) - 1
  BY <1>4, HeadTailProperties
<1> DEFINE W == Len(n.wire)
           M == Len(m.wire)
           Q == Len(q)
           N == n.accepted
<1>7. /\ W \in Nat /\ Q \in Nat /\ N \in Nat /\ M \in Nat
      /\ (ok => M = W + 1) /\ (~ok => M = W)
  BY <1>4, <1>6, LenProperties, AppendProperties
<1>8. /\ Given(c, n) = N + 0 /\ Reached(c, n) = W + 1 + 0
  BY <1>4, <1>5 DEF Given, Reached
<1>9. W + 1 <= N + 0 /\ (~c.dead => W + Q <= N + 0)
  BY <1>8 DEF OutInv
<1>10. CASE ok /\ ~r.dead
  <2> DEFINE a == [r EXCEPT !.write_queue = Tail(@)]
  <2>1. /\ a \in Call /\ a.ops = r.ops /\ a.pending = r.pending
        /\ a.delivered = r.delivered /\ a.replied = r.replied /\ a.dead = r.dead
        /\ ~a.write_inflight /\ a.read_inflight = r.read_inflight
        /\ a.finish_posted = r.finish_posted /\ a.has_final_write = r.has_final_write
        /\ a.write_queue = Tail(q)
    BY <1>3, <1>6 DEF Call
  <2>2. d = pump_locked(a)
    BY <1>2, <1>10 DEF AfterWrite
  <2> HIDE DEF a
  <2>3. CallInv(a) /\ a.delivered /\ Settled(a)
    BY <1>3, <1>4, <2>1 DEF CallInv, FlagsTellTags, LifeOrder, Settled
  <2>4. /\ Given(a, m) = N + 0 /\ Reached(a, m) = M + 0 + 0 /\ "write" \notin a.ops
        /\ Final(a, m) = Final(c, n) /\ Final(c, n) \in {0, 1}
    BY <1>3, <1>4, <1>5, <2>1 DEF Given, Reached, Final
  <2> DEFINE T == Len(a.write_queue)
             F == Final(c, n)
  <2>5. T = Q - 1
    BY <1>6, <2>1
  <2>6. Promised(a, m) = M + T + F /\ Promised(c, n) = W + Q + F /\ F \in {0, 1}
    BY <2>4 DEF Promised
  <2>7. M + 0 <= N + 0 /\ M + T <= N + 0 /\ M + T + F = W + Q + F /\ W + 1 + 0 <= M + 0 + 0
        /\ W + 1 + 0 \in Nat
    <3> HIDE DEF W, M, Q, N, T, F
    <3> QED
      BY <1>3, <1>7, <1>9, <1>10, <2>5, <2>6
  <2>8. OutInv(a, m)
    BY <2>4, <2>7 DEF OutInv
  <2>9. Outlet(c, n, a, m)
    BY <1>3, <1>8, <1>10, <2>1, <2>4, <2>6, <2>7 DEF Outlet
  <2>10. Reached(c, n) \in Nat
    BY <1>8, <2>7
  <2> QED
    BY <2>2, <2>3, <2>8, <2>9, <2>10, OutPumped
<1>11. CASE ~(ok /\ ~r.dead)
  <2>1. d = [r EXCEPT !.dead = TRUE]
    BY <1>2, <1>11 DEF AfterWrite
  <2>2. /\ d.dead /\ d.ops = r.ops /\ d.replied = r.replied /\ d.finish_posted = r.finish_posted
        /\ d.has_final_write = r.has_final_write
    BY <1>3, <2>1 DEF Call
  <2>3. M + 0 <= N + 0
    <3> HIDE DEF W, M, Q, N
    <3> QED
      BY <1>7, <1>9
  <2>4. Given(d, m) = N + 0 /\ "write" \notin d.ops
    BY <1>3, <1>5, <2>2 DEF Given
  <2>5. OutInv(d, m)
    BY <2>2, <2>3, <2>4 DEF OutInv
  <2> QED
    BY <1>3, <1>4, <2>2, <2>5 DEF Outlet
<1> QED
  BY <1>10, <1>11

\* case finish: the status, and the response with it.
LEMMA OutFinished ==
    ASSUME NEW c, CallInv(c), "finish" \in c.ops, NEW n \in Net, WireInv(c, n), OutInv(c, n),
           NEW m, m.status,
           m.wire = IF c.has_final_write THEN Append(n.wire, n.accepted + 1) ELSE n.wire,
           m.accepted = n.accepted, NEW d, d = Retire(c, "finish")
    PROVE  OutInv(d, m) /\ Outlet(c, n, d, m)
<1>1. d.ops = c.ops \ {"finish"} /\ SameButTags(c, d)
  BY RetireLemma DEF CallInv, FlagsTellTags
<1>2. /\ c.finish_posted /\ c.replied /\ ~c.dead /\ c.write_queue = <<>>
      /\ "write" \notin c.ops /\ n.wire \in Seq(Nat) /\ n.accepted \in Nat
  BY ServerAssumption DEF CallInv, FlagsTellTags, LifeOrder, Net
<1>3. ~n.status
  BY DEF WireInv
<1>4. /\ d.finish_posted /\ d.replied /\ ~d.dead /\ d.write_queue = <<>> /\ "write" \notin d.ops
      /\ d.has_final_write = c.has_final_write
  BY <1>1, <1>2 DEF SameButTags
<1> DEFINE W == Len(n.wire)
           M == Len(m.wire)
           N == n.accepted
           F == IF c.has_final_write THEN 1 ELSE 0
<1>5. W \in Nat /\ N \in Nat /\ Len(<<>>) = 0 /\ F \in {0, 1}
  BY <1>2, LenProperties, EmptySeq
<1>6. M = W + F
  <2>1. CASE c.has_final_write
    <3>1. n.accepted + 1 \in Nat
      BY <1>2
    <3>2. Len(Append(n.wire, n.accepted + 1)) = Len(n.wire) + 1
      BY <1>2, <3>1, AppendProperties
    <3> QED
      BY <2>1, <3>2
  <2>2. CASE ~c.has_final_write
    BY <1>5, <2>2
  <2> QED
    BY <2>1, <2>2
<1>7. /\ Given(c, n) = N + 0 /\ Given(d, m) = N + F
      /\ Final(c, n) = F /\ Final(d, m) = 0
  BY <1>3, <1>4 DEF Given, Final
<1>8. /\ Reached(c, n) = W + 0 + F /\ Reached(d, m) = M + 0 + 0
      /\ Promised(c, n) = W + 0 + F /\ Promised(d, m) = M + 0 + 0
  BY <1>2, <1>4, <1>5, <1>7 DEF Reached, Promised
<1>9. W + 0 <= N + 0
  BY <1>2, <1>7 DEF OutInv
<1>10. M + 0 <= N + F /\ W + 0 + F <= M + 0 + 0 /\ W + 0 + F = M + 0 + 0
  <2> HIDE DEF W, M, N, F
  <2> QED
    BY <1>5, <1>6, <1>9
<1>11. OutInv(d, m)
  BY <1>4, <1>5, <1>7, <1>10 DEF OutInv
<1> QED
  BY <1>2, <1>4, <1>8, <1>10, <1>11 DEF Outlet

\* What a step does to call i, seen from outside.
OutStep(i) == OutInv(cl'[i], net'[i]) /\ Outlet(cl[i], net[i], cl'[i], net'[i])

\* A step that leaves a call's record alone and sends nothing.
LEMMA OutSame ==
    ASSUME TagInv, Outs, NEW i \in Ids, cl'[i] = cl[i], SameSent(net[i], net'[i])
    PROVE  OutStep(i)
<1>1. CallInv(cl[i]) /\ net[i] \in Net /\ OutInv(cl[i], net[i])
  BY TagFacts DEF Outs
<1>2. KeepsWrites(cl[i], cl'[i])
  BY DEF KeepsWrites
<1> QED
  BY <1>1, <1>2, OutKept DEF OutStep

LEMMA OutRead ==
    ASSUME TagInv, Outs, NEW i \in Ids, Read(i)
    PROVE  OutStep(i)
<1> DEFINE c == cl[i]
           d == Post([c EXCEPT !.read_inflight = TRUE], "read")
<1>1. CallInv(c) /\ cl \in [Ids -> Call] /\ net[i] \in Net /\ OutInv(c, net[i])
  BY TagFacts DEF Outs
<1>2. /\ phase = "open" /\ i \in active /\ c.delivered /\ ~c.dead /\ ~c.read_inflight
      /\ cl'[i] = d /\ net' = net
  BY <1>1 DEF Read
<1>3. c.ops # {} /\ Pumped(c)
  BY <1>2, TagFacts DEF Shutting
<1>4. d.ops = c.ops \cup {"read"} /\ KeepsWrites(c, d)
  BY <1>1, <1>2, <1>3, ReadLemma
<1> HIDE DEF d
<1>5. SameSent(net[i], net[i])
  BY DEF SameSent
<1>6. OutInv(d, net[i]) /\ Outlet(c, net[i], d, net[i])
  BY <1>1, <1>4, <1>5, OutKept
<1> QED
  BY <1>2, <1>6 DEF OutStep

LEMMA OutCompleteRead ==
    ASSUME TagInv, Outs, NEW i \in Ids, NEW ok \in BOOLEAN, CompleteRead(i, ok)
    PROVE  OutStep(i)
<1> DEFINE c == cl[i]
           d == AfterRead(c, ok)
           m == IF ok THEN [net[i] EXCEPT !.taken = net[i].taken + 1] ELSE net[i]
<1>1. /\ CallInv(c) /\ cl \in [Ids -> Call] /\ net \in [Ids -> Net] /\ net[i] \in Net
      /\ OutInv(c, net[i])
  BY TagFacts DEF Outs
<1>2. CallCase(i, d)
  BY DEF CompleteRead, AfterRead
<1>3. "read" \in c.ops /\ net'[i] = m
  BY <1>1 DEF CompleteRead
<1>4. d.ops = c.ops \ {"read"} /\ KeepsWrites(c, d)
  BY <1>1, <1>3, ReadCaseLemma
<1>5. SameSent(net[i], m)
  BY <1>1 DEF SameSent, Net
<1> HIDE DEF d, m
<1>6. cl'[i] = d
  BY <1>1, <1>2 DEF CallCase
<1>7. OutInv(d, m) /\ Outlet(c, net[i], d, m)
  BY <1>1, <1>4, <1>5, OutKept
<1> QED
  BY <1>3, <1>6, <1>7 DEF OutStep

LEMMA OutCompleteWrite ==
    ASSUME TagInv, TagInv', Wires, Outs, NEW i \in Ids, NEW ok \in BOOLEAN, CompleteWrite(i, ok)
    PROVE  OutStep(i)
<1> DEFINE c == cl[i]
           n == net[i]
           r == [Retire(c, "write") EXCEPT !.write_inflight = FALSE]
           d == AfterWrite(r, ok)
           m == IF ok THEN [n EXCEPT !.wire = Append(n.wire, Head(r.write_queue))] ELSE n
<1>1. /\ CallInv(c) /\ cl \in [Ids -> Call] /\ net \in [Ids -> Net] /\ n \in Net
      /\ WireInv(c, n) /\ OutInv(c, n)
  BY TagFacts DEF Wires, Outs
<1>2. CallCase(i, d)
  BY DEF CompleteWrite
<1>3. "write" \in c.ops /\ net'[i] = m
  BY <1>1 DEF CompleteWrite
<1>4. r.write_queue = c.write_queue
  BY <1>1 DEF CallInv, Call, Retire
<1>5. /\ m.wire = IF ok THEN Append(n.wire, Head(c.write_queue)) ELSE n.wire
      /\ m.status = n.status /\ m.accepted = n.accepted
  <2>1. CASE ok
    <3> DEFINE w == Append(n.wire, Head(r.write_queue))
    <3>1. m = [n EXCEPT !.wire = w] /\ w = Append(n.wire, Head(c.write_queue))
      BY <1>4, <2>1
    <3> HIDE DEF w, m, r
    <3> QED
      BY <1>1, <2>1, <3>1 DEF Net
  <2>2. CASE ~ok
    BY <2>2
  <2> QED
    BY <2>1, <2>2
<1> HIDE DEF m
<1>6. cl'[i] = d
  BY <1>1, <1>2 DEF CallCase
<1>7. m \in Net
  BY <1>3 DEF TagInv, TypeOK
<1>8. OutInv(d, m) /\ Outlet(c, n, d, m)
  BY <1>1, <1>3, <1>5, <1>7, OutWritten
<1> QED
  BY <1>3, <1>6, <1>8 DEF OutStep

LEMMA OutCompleteDone ==
    ASSUME TagInv, Outs, NEW i \in Ids, CompleteDone(i)
    PROVE  OutStep(i)
<1> DEFINE c == cl[i]
           d == AfterDone(c)
<1>1. CallInv(c) /\ cl \in [Ids -> Call] /\ net[i] \in Net /\ OutInv(c, net[i])
  BY TagFacts DEF Outs
<1>2. CallCase(i, d)
  BY DEF CompleteDone, AfterDone
<1>3. "done" \in c.ops /\ net' = net
  BY DEF CompleteDone
<1>4. d.ops = c.ops \ {"done"} /\ KeepsWrites(c, d)
  BY <1>1, <1>3, DoneCaseLemma
<1>5. SameSent(net[i], net[i])
  BY DEF SameSent
<1> HIDE DEF d
<1>6. cl'[i] = d
  BY <1>1, <1>2 DEF CallCase
<1>7. OutInv(d, net[i]) /\ Outlet(c, net[i], d, net[i])
  BY <1>1, <1>4, <1>5, OutKept
<1> QED
  BY <1>3, <1>6, <1>7 DEF OutStep

LEMMA OutCompleteFinish ==
    ASSUME TagInv, Wires, Outs, NEW i \in Ids, NEW ok \in BOOLEAN, CompleteFinish(i, ok)
    PROVE  OutStep(i)
<1> DEFINE c == cl[i]
           n == net[i]
           d == Retire(c, "finish")
           w == IF c.has_final_write THEN Append(n.wire, n.accepted + 1) ELSE n.wire
           m == IF ok THEN [n EXCEPT !.status = TRUE, !.wire = w] ELSE n
<1>1. /\ CallInv(c) /\ cl \in [Ids -> Call] /\ net \in [Ids -> Net] /\ n \in Net
      /\ WireInv(c, n) /\ OutInv(c, n)
  BY TagFacts DEF Wires, Outs
<1>2. CallCase(i, d) /\ "finish" \in c.ops
      /\ net' = IF ok THEN [net EXCEPT ![i].status = TRUE, ![i].wire = w] ELSE net
  BY DEF CompleteFinish
<1>3. w = IF c.has_final_write THEN Append(n.wire, n.accepted + 1) ELSE n.wire
  OBVIOUS
<1> HIDE DEF w
<1>4. net'[i] = m
  BY <1>1, <1>2
<1>5. /\ ok => m.status /\ m.wire = w /\ m.accepted = n.accepted
      /\ ~ok => m = n
  BY <1>1 DEF Net
<1>6. cl'[i] = d
  BY <1>1, <1>2 DEF CallCase
<1> HIDE DEF m
<1>7. OutInv(d, m) /\ Outlet(c, n, d, m)
  <2>1. CASE ok
    BY <1>1, <1>2, <1>3, <1>5, <2>1, OutFinished
  <2>2. CASE ~ok
    <3>1. d.ops = c.ops \ {"finish"} /\ KeepsWrites(c, d)
      BY <1>1, <1>2, FinishCaseLemma
    <3>2. SameSent(n, m)
      BY <1>5, <2>2 DEF SameSent
    <3> HIDE DEF d
    <3> QED
      BY <1>1, <3>1, <3>2, OutKept
  <2> QED
    BY <2>1, <2>2
<1> QED
  BY <1>4, <1>6, <1>7 DEF OutStep

LEMMA OutAccept ==
    ASSUME TagInv, FreshInv, Outs, AcceptOk, NEW i \in Ids
    PROVE  OutStep(i)
<1>1. next_id \in Ids
  BY TagAccept, ActiveFinite
<1>2. cl \in [Ids -> Call] /\ net \in [Ids -> Net] /\ next_id \in Int
  BY <1>1 DEF TagInv, TypeOK, Ids
<1> DEFINE d == IF Shutting THEN [Post(NewCall, "done") EXCEPT !.dead = TRUE]
                ELSE Post(Post([NewCall EXCEPT !.read_inflight = TRUE], "done"), "read")
           o == phase \in {"cancelled", "cqdown"}
           m == [net[next_id] EXCEPT !.over = o]
<1>3. cl' = [cl EXCEPT ![next_id] = d] /\ net' = [net EXCEPT ![next_id].over = o]
  BY DEF AcceptOk
<1>4. CallInv(d) /\ ~d.replied /\ ~d.finish_posted /\ d.write_queue = <<>> /\ ~d.has_final_write
      /\ ~d.write_inflight
  BY AcceptLemma
<1> HIDE DEF d, o
<1>5. CASE i = next_id
  <2>1. cl[i] = NewCall /\ SameSent(net[i], m) /\ OutInv(cl[i], net[i]) /\ net[i] \in Net
        /\ CallInv(cl[i])
    BY <1>1, <1>2, <1>5, TagFacts DEF FreshInv, SameSent, Net, Outs
  <2>2. KeepsWrites(cl[i], d)
    <3>1. /\ d.write_inflight = FALSE /\ d.finish_posted = FALSE
          /\ d.has_final_write = FALSE /\ d.replied = FALSE
      BY <1>4 DEF CallInv, Call
    <3>2. /\ cl[i].write_inflight = FALSE /\ cl[i].finish_posted = FALSE
          /\ cl[i].has_final_write = FALSE /\ cl[i].replied = FALSE
          /\ cl[i].write_queue = <<>> /\ cl[i].dead = FALSE
      BY <2>1 DEF NewCall
    <3> QED
      BY <1>4, <3>1, <3>2 DEF KeepsWrites
  <2>3. "write" \notin d.ops /\ "write" \notin cl[i].ops
    BY <1>4, <2>1 DEF NewCall, CallInv, FlagsTellTags
  <2>4. cl'[i] = d /\ net'[i] = m
    BY <1>1, <1>2, <1>3, <1>5
  <2> HIDE DEF m
  <2> QED
    BY <2>1, <2>2, <2>3, <2>4, OutKept DEF OutStep
<1>6. CASE i # next_id
  <2>1. cl'[i] = cl[i] /\ net'[i] = net[i]
    BY <1>2, <1>3, <1>6
  <2> QED
    BY <2>1, OutSame DEF SameSent
<1> QED
  BY <1>5, <1>6

\* Every step, on every call.
LEMMA OutNext ==
    ASSUME TagInv, FreshInv, Wires, Outs, [Next]_vars, NEW j \in Ids
    PROVE  OutStep(j)
<1>1. net \in [Ids -> Net] /\ TagInv'
  BY TagNext DEF TagInv, TypeOK
<1>2. CASE UNCHANGED <<cl, net>>
  BY <1>2, OutSame DEF SameSent
<1>3. ASSUME NEW i \in Ids, Complete(i) PROVE OutStep(j)
  <2>1. OutStep(i)
    BY <1>1, <1>3, OutCompleteRead, OutCompleteWrite, OutCompleteDone, OutCompleteFinish
       DEF Complete
  <2>2. j # i => cl'[j] = cl[j] /\ net'[j] = net[j]
    BY <1>3, CompletionFrame
  <2> QED
    BY <2>1, <2>2, OutSame DEF SameSent
<1>4. ASSUME NEW i \in Ids,
             \/ \E payload \in BOOLEAN : Reply(i, payload)
             \/ \E drain \in BOOLEAN : Finish(i, drain)
             \/ Read(i) \/ Send(i)
      PROVE  OutStep(j)
  <2>1. OutStep(i)
    BY <1>4, OutReply, OutFinish, OutRead, OutSend DEF OutStep
  <2>2. j # i => cl'[j] = cl[j] /\ net'[j] = net[j]
    BY <1>4, OperationFrame
  <2> QED
    BY <2>1, <2>2, OutSame DEF SameSent
<1>5. ASSUME NEW i \in Ids, Cancel(i) \/ PeerSend(i) \/ PeerHalfClose(i) \/ PeerGone(i)
      PROVE  OutStep(j)
  <2>1. cl' = cl
    BY <1>5 DEF Cancel, PeerSend, PeerHalfClose, PeerGone, pvars
  <2>2. /\ SameSent(net[i], [net[i] EXCEPT !.over = TRUE])
        /\ SameSent(net[i], [net[i] EXCEPT !.half = TRUE])
        /\ SameSent(net[i], [net[i] EXCEPT !.sent = net[i].sent + 1])
    BY <1>1 DEF SameSent, Net
  <2>3. SameSent(net[i], net'[i])
    BY <1>1, <1>5, <2>2 DEF Cancel, PeerSend, PeerHalfClose, PeerGone
  <2>4. j # i => SameSent(net[j], net'[j])
    BY <1>5, OperationFrame DEF SameSent
  <2> QED
    BY <2>1, <2>3, <2>4, OutSame
<1>6. CASE CloseServer
  <2>1. SameSent(net[j], [net[j] EXCEPT !.over = TRUE]) /\ SameSent(net[j], net[j])
    BY <1>1 DEF SameSent, Net
  <2>2. SameSent(net[j], net'[j])
    BY <1>6, <2>1 DEF CloseServer
  <2> QED
    BY <1>6, <2>2, OutSame DEF CloseServer
<1>7. CASE AcceptOk
  BY <1>7, OutAccept
<1>8. ASSUME NEW want \in Ids \cup {All}, NEW maxn \in PollSizes, Poll(want, maxn)
      PROVE  OutStep(j)
  BY <1>2, <1>8 DEF Poll
<1>9. CASE CloseBegin \/ CloseQueue \/ CloseJoin \/ CloseAgain \/ AcceptFailed \/ PeerCall
           \/ UNCHANGED vars
  BY <1>2, <1>9 DEF CloseBegin, CloseQueue, CloseJoin, CloseAgain, AcceptFailed, PeerCall,
     vars, pvars
<1> QED
  BY <1>3, <1>4, <1>5, <1>6, <1>7, <1>8, <1>9 DEF Next

LEMMA OutInit ==
    ASSUME Init
    PROVE  Outs
<1>1. /\ NewNet.wire = <<>> /\ ~NewNet.status /\ NewNet.accepted = 0
      /\ NewCall.write_queue = <<>> /\ NewCall.ops = {}
  BY DEF NewNet, NewCall
<1>2. Len(NewNet.wire) = 0 /\ Len(NewCall.write_queue) = 0
  BY <1>1, EmptySeq
<1>3. OutInv(NewCall, NewNet)
  BY <1>1, <1>2 DEF OutInv, Given
<1> QED
  BY <1>3 DEF Init, Outs

-----------------------------------------------------------------------------
(* What has come in, as the other end of the RPC sees it.                  *)

\* No message is read that was not sent, nor handed over that was not read.
Intake(i) ==
    /\ net[i].taken <= net[i].sent
    /\ handed[i].msgs + Cardinality(Msgs(ready, i)) <= net[i].taken

Intakes == \A i \in Ids : Intake(i)

\* Every step but a message of the peer.
Local ==
    \/ \E i \in Ids, payload \in BOOLEAN : Reply(i, payload)
    \/ \E i \in Ids, drain \in BOOLEAN : Finish(i, drain)
    \/ \E i \in Ids : Read(i) \/ Send(i) \/ Cancel(i)
    \/ \E want \in Ids \cup {All}, maxn \in PollSizes : Poll(want, maxn)
    \/ CloseBegin \/ CloseServer \/ CloseQueue \/ CloseJoin \/ CloseAgain
    \/ AcceptOk \/ AcceptFailed
    \/ \E i \in Ids : Complete(i)
    \/ PeerCall
    \/ \E i \in Ids : PeerHalfClose(i) \/ PeerGone(i)

\* A step of which R hears nothing.
LEMMA IntakeQuiet ==
    ASSUME TagInv, NEW i \in Ids, Intake(i),
           Msgs(ready, i)' = Msgs(ready, i), handed'[i].msgs = handed[i].msgs,
           net'[i].taken = net[i].taken,
           net'[i].sent \in {net[i].sent, net[i].sent + 1}
    PROVE  Intake(i)'
<1>1. net[i].taken \in Nat /\ net[i].sent \in Nat
  BY TagFacts, ServerAssumption DEF Net
<1> QED
  BY <1>1 DEF Intake

\* case read: one message more is taken, and perhaps one event queued.
LEMMA IntakeRead ==
    ASSUME TagInv, NEW i \in Ids, NEW ok \in BOOLEAN, CompleteRead(i, ok), Intake(i)
    PROVE  Intake(i)' /\ net'[i].sent = net[i].sent
<1> DEFINE r == [Retire(cl[i], "read") EXCEPT !.read_inflight = FALSE]
           k == ReadOutcome(r, ok)
           v == IF ok THEN net[i].taken + 1 ELSE 0
           e == [kind |-> k, id |-> i, val |-> v, stamp |-> arrived + 1]
<1>1. net \in [Ids -> Net] /\ net[i] \in Net /\ net[i].taken \in Nat /\ net[i].sent \in Nat
  BY TagFacts, ServerAssumption DEF Net
<1>2. /\ ok => net[i].taken < net[i].sent
      /\ net' = IF ok THEN [net EXCEPT ![i].taken = @ + 1] ELSE net
      /\ IF k = "none" THEN Quiet ELSE Emit(k, i, v)
      /\ handed' = handed
  BY DEF CompleteRead, CallCase
<1>3. ~ok => k \in {"client_done", "none"}
  BY DEF ReadOutcome
<1> HIDE DEF k, v
<1>4. ready' = ready \/ ready' = ready \cup {e}
  BY <1>2 DEF Quiet, Emit
<1>5. e.kind = k
  OBVIOUS
<1> HIDE DEF e
<1>6. /\ ok => net'[i].taken = net[i].taken + 1 /\ net'[i].sent = net[i].sent
      /\ ~ok => net'[i] = net[i]
  <2>1. ok => net'[i] = [net[i] EXCEPT !.taken = net[i].taken + 1]
    BY <1>1, <1>2
  <2>2. ok => net'[i].taken = net[i].taken + 1 /\ net'[i].sent = net[i].sent
    BY <1>1, <2>1 DEF Net
  <2> QED
    BY <1>1, <1>2, <2>2
<1>7. CASE Msgs(ready, i)' = Msgs(ready, i)
  <2>1. Cardinality(Msgs(ready, i)) \in Nat /\ handed[i].msgs \in Nat
    BY QueueFacts
  <2>2. Cardinality(Msgs(ready, i))' = Cardinality(Msgs(ready, i))
    BY <1>7
  <2> QED
    BY <1>1, <1>2, <1>6, <2>1, <2>2 DEF Intake
<1>8. CASE Msgs(ready, i)' # Msgs(ready, i)
  <2> DEFINE q == Msgs(ready, i)
  <2>1. Msgs(ready, i)' = q \cup {e} /\ ok
    BY <1>3, <1>4, <1>5, <1>8 DEF Msgs
  <2>2. IsFiniteSet(q) /\ Cardinality(q) \in Nat /\ handed[i].msgs \in Nat
    BY QueueFacts
  <2> HIDE DEF q
  <2>3. Cardinality(q \cup {e}) \in {Cardinality(q), Cardinality(q) + 1}
    BY <2>2, FS_AddElement
  <2>4. handed[i].msgs + Cardinality(q) <= net[i].taken
    BY DEF Intake, q
  <2>5. handed[i].msgs + Cardinality(q \cup {e}) <= net[i].taken + 1
    BY <1>1, <2>2, <2>3, <2>4
  <2> QED
    BY <1>1, <1>2, <1>6, <2>1, <2>5 DEF Intake
<1> QED
  BY <1>7, <1>8

\* The other completions tell R nothing of messages.
LEMMA IntakeComplete ==
    ASSUME TagInv, NEW i \in Ids, Complete(i), Intake(i)
    PROVE  Intake(i)' /\ net'[i].sent = net[i].sent
<1>1. ASSUME NEW ok \in BOOLEAN, CompleteRead(i, ok)
      PROVE  Intake(i)' /\ net'[i].sent = net[i].sent
  BY <1>1, IntakeRead
<1>2. ASSUME \/ \E ok \in BOOLEAN : CompleteWrite(i, ok)
             \/ CompleteDone(i)
             \/ \E ok \in BOOLEAN : CompleteFinish(i, ok)
      PROVE  Intake(i)' /\ net'[i].sent = net[i].sent
  <2>1. net \in [Ids -> Net] /\ net[i] \in Net
    BY TagFacts
  <2>2. handed' = handed
    BY CompletionFrame
  <2>3. \/ Quiet
        \/ Emit("stream_writable", i, 0) \/ Emit("cancelled", i, 0)
    BY <1>2 DEF CompleteWrite, CompleteDone, CompleteFinish
  <2>4. Msgs(ready, i)' = Msgs(ready, i)
    BY <2>3 DEF Quiet, Emit, Msgs
  <2>5. \/ net' = net
        \/ \E w : net' = [net EXCEPT ![i].wire = w]
        \/ \E w : net' = [net EXCEPT ![i].status = TRUE, ![i].wire = w]
    BY <1>2 DEF CompleteWrite, CompleteDone, CompleteFinish
  <2>6. \A w : /\ [net[i] EXCEPT !.wire = w].taken = net[i].taken
               /\ [net[i] EXCEPT !.wire = w].sent = net[i].sent
               /\ [net[i] EXCEPT !.status = TRUE, !.wire = w].taken = net[i].taken
               /\ [net[i] EXCEPT !.status = TRUE, !.wire = w].sent = net[i].sent
    BY <2>1 DEF Net
  <2>7. net'[i].taken = net[i].taken /\ net'[i].sent = net[i].sent
    BY <2>1, <2>5, <2>6
  <2> QED
    BY <2>2, <2>4, <2>7, IntakeQuiet
<1> QED
  BY <1>1, <1>2 DEF Complete

\* grpc_poll moves messages from the deque to R.
LEMMA IntakePoll ==
    ASSUME TagInv, NEW want \in Ids \cup {All}, NEW maxn \in PollSizes, Poll(want, maxn),
           NEW i \in Ids, Intake(i)
    PROVE  Intake(i)' /\ net' = net /\ cl' = cl
           /\ handed'[i].msgs \in Nat /\ handed'[i].msgs >= handed[i].msgs
<1> DEFINE batch == Batch(ready, want, maxn)
           q == Msgs(ready, i)
           P == Msgs(batch, i)
           n == handed[i].msgs
<1>1. batch \subseteq ready
  BY DEF Batch
<1>2. /\ ready' = ready \ batch /\ net' = net /\ cl' = cl
      /\ handed' = [j \in Ids |->
                      [kinds |-> handed[j].kinds \cup {e.kind : e \in {f \in batch : f.id = j}},
                       msgs |-> handed[j].msgs + Cardinality(Msgs(batch, j))]]
  BY DEF Poll
<1> HIDE DEF batch
<1>3. P \in SUBSET q /\ Msgs(ready, i)' = q \ P
  BY <1>1, <1>2 DEF Msgs
<1>4. handed'[i].msgs = n + Cardinality(P)
  BY <1>2
<1>5. IsFiniteSet(q) /\ Cardinality(q) \in Nat /\ n \in Nat
  BY QueueFacts
<1>6. n + Cardinality(q) <= net[i].taken /\ net[i].taken <= net[i].sent
  BY DEF Intake
<1> HIDE DEF q, P, n
<1>7. IsFiniteSet(P) /\ Cardinality(P) \in Nat /\ q \cap P = P
  BY <1>3, <1>5, FS_Subset, FS_CardinalityType
<1>8. Cardinality(q \ P) = Cardinality(q) - Cardinality(P)
  BY <1>5, <1>7, FS_Difference
<1>9. n + Cardinality(P) + Cardinality(q \ P) = n + Cardinality(q)
  BY <1>5, <1>7, <1>8
<1>10. Intake(i)'
  BY <1>2, <1>3, <1>4, <1>6, <1>9 DEF Intake
<1>11. handed'[i].msgs \in Nat /\ handed'[i].msgs >= n
  BY <1>4, <1>5, <1>7
<1> QED
  BY <1>2, <1>10, <1>11 DEF n

\* R's operations and the peer's steps.
LEMMA IntakeOperation ==
    ASSUME TagInv, NEW i \in Ids, Intake(i),
           \/ \E payload \in BOOLEAN : Reply(i, payload)
           \/ \E drain \in BOOLEAN : Finish(i, drain)
           \/ Read(i) \/ Send(i) \/ Cancel(i) \/ PeerHalfClose(i) \/ PeerGone(i)
    PROVE  Intake(i)' /\ net'[i].sent = net[i].sent
<1>1. net \in [Ids -> Net] /\ net[i] \in Net
  BY TagFacts
<1>2. handed' = handed /\ ready' = ready
  BY OperationFrame
<1>3. ASSUME NEW x
      PROVE  /\ [net[i] EXCEPT !.abort = x].taken = net[i].taken
             /\ [net[i] EXCEPT !.accepted = x].taken = net[i].taken
             /\ [net[i] EXCEPT !.over = x].taken = net[i].taken
             /\ [net[i] EXCEPT !.half = x].taken = net[i].taken
  BY <1>1 DEF Net
<1>4. ASSUME NEW x
      PROVE  /\ [net[i] EXCEPT !.abort = x].sent = net[i].sent
             /\ [net[i] EXCEPT !.accepted = x].sent = net[i].sent
             /\ [net[i] EXCEPT !.over = x].sent = net[i].sent
             /\ [net[i] EXCEPT !.half = x].sent = net[i].sent
  BY <1>1 DEF Net
<1>5. \/ net' = net
      \/ \E x : \/ net' = [net EXCEPT ![i].abort = x] \/ net' = [net EXCEPT ![i].accepted = x]
                \/ net' = [net EXCEPT ![i].over = x] \/ net' = [net EXCEPT ![i].half = x]
  BY DEF Reply, Finish, Read, Send, Cancel, PeerHalfClose, PeerGone, pvars
<1>6. \/ net'[i] = net[i]
      \/ \E x : \/ net'[i] = [net[i] EXCEPT !.abort = x] \/ net'[i] = [net[i] EXCEPT !.accepted = x]
                \/ net'[i] = [net[i] EXCEPT !.over = x] \/ net'[i] = [net[i] EXCEPT !.half = x]
  <2>1. ASSUME NEW x
        PROVE  /\ [net EXCEPT ![i].abort = x][i] = [net[i] EXCEPT !.abort = x]
               /\ [net EXCEPT ![i].accepted = x][i] = [net[i] EXCEPT !.accepted = x]
               /\ [net EXCEPT ![i].over = x][i] = [net[i] EXCEPT !.over = x]
               /\ [net EXCEPT ![i].half = x][i] = [net[i] EXCEPT !.half = x]
    BY <1>1
  <2>2. CASE net' = net
    BY <2>2
  <2>3. ASSUME NEW x, \/ net' = [net EXCEPT ![i].abort = x] \/ net' = [net EXCEPT ![i].accepted = x]
                      \/ net' = [net EXCEPT ![i].over = x] \/ net' = [net EXCEPT ![i].half = x]
        PROVE  \/ net'[i] = [net[i] EXCEPT !.abort = x] \/ net'[i] = [net[i] EXCEPT !.accepted = x]
               \/ net'[i] = [net[i] EXCEPT !.over = x] \/ net'[i] = [net[i] EXCEPT !.half = x]
    BY <2>1, <2>3
  <2> QED
    BY <1>5, <2>2, <2>3
<1>7. net'[i].taken = net[i].taken /\ net'[i].sent = net[i].sent
  <2>1. CASE net'[i] = net[i]
    BY <2>1
  <2>2. ASSUME NEW x, net'[i] = [net[i] EXCEPT !.abort = x]
        PROVE  net'[i].taken = net[i].taken /\ net'[i].sent = net[i].sent
    BY <1>3, <1>4, <2>2
  <2>3. ASSUME NEW x, net'[i] = [net[i] EXCEPT !.accepted = x]
        PROVE  net'[i].taken = net[i].taken /\ net'[i].sent = net[i].sent
    BY <1>3, <1>4, <2>3
  <2>4. ASSUME NEW x, net'[i] = [net[i] EXCEPT !.over = x]
        PROVE  net'[i].taken = net[i].taken /\ net'[i].sent = net[i].sent
    BY <1>3, <1>4, <2>4
  <2>5. ASSUME NEW x, net'[i] = [net[i] EXCEPT !.half = x]
        PROVE  net'[i].taken = net[i].taken /\ net'[i].sent = net[i].sent
    BY <1>3, <1>4, <2>5
  <2> QED
    BY <1>6, <2>1, <2>2, <2>3, <2>4, <2>5
<1>8. Msgs(ready, i)' = Msgs(ready, i)
  BY <1>2 DEF Msgs
<1> QED
  BY <1>2, <1>8, <1>7, IntakeQuiet

\* AcceptOk and CloseServer touch only whether a call is over.
LEMMA IntakeOver ==
    ASSUME TagInv, NEW i \in Ids, Intake(i), UNCHANGED <<ready, handed>>,
           net'[i] = net[i] \/ \E x : net'[i] = [net[i] EXCEPT !.over = x]
    PROVE  Intake(i)' /\ net'[i].sent = net[i].sent
<1>1. net[i] \in Net
  BY TagFacts
<1>2. \A x : /\ [net[i] EXCEPT !.over = x].taken = net[i].taken
             /\ [net[i] EXCEPT !.over = x].sent = net[i].sent
  BY <1>1 DEF Net
<1>3. net'[i].taken = net[i].taken /\ net'[i].sent = net[i].sent
  BY <1>2
<1> QED
  BY <1>3 DEF Intake, Msgs

\* Another call's completion: its events are not this one's messages.
LEMMA IntakeOther ==
    ASSUME TagInv, NEW i \in Ids, NEW j \in Ids, j # i, Complete(j), Intake(i)
    PROVE  Intake(i)' /\ net'[i] = net[i]
<1>1. /\ handed' = handed /\ net'[i] = net[i]
      /\ \A e \in ready' : e \in ready \/ e.id = j
  BY CompletionFrame
<1>2. ready \subseteq ready'
  BY DEF Complete, CompleteRead, CompleteWrite, CompleteDone, CompleteFinish, Quiet, Emit
<1>3. Msgs(ready, i)' = Msgs(ready, i)
  BY <1>1, <1>2 DEF Msgs
<1> QED
  BY <1>1, <1>3 DEF Intake

LEMMA IntakePeerSend ==
    ASSUME TagInv, NEW i \in Ids, PeerSend(i), NEW j \in Ids, Intake(j)
    PROVE  Intake(j)'
<1>1. net \in [Ids -> Net] /\ net[i] \in Net
  BY TagFacts
<1>2. /\ handed' = handed /\ ready' = ready
      /\ \A k \in Ids : k # i => cl'[k] = cl[k] /\ net'[k] = net[k]
  BY OperationFrame
<1>3. net'[i] = [net[i] EXCEPT !.sent = net[i].sent + 1]
  BY <1>1 DEF PeerSend
<1>4. net'[i].taken = net[i].taken /\ net'[i].sent = net[i].sent + 1
  BY <1>1, <1>3 DEF Net
<1>5. Msgs(ready, j)' = Msgs(ready, j)
  BY <1>2 DEF Msgs
<1> QED
  BY <1>2, <1>4, <1>5, IntakeQuiet

\* Only the peer sends.
LEMMA IntakeLocal ==
    ASSUME TagInv, FreshInv, NEW i \in Ids, Intake(i), Local \/ UNCHANGED vars
    PROVE  Intake(i)' /\ net'[i].sent = net[i].sent
<1> DEFINE Goal == Intake(i)' /\ net'[i].sent = net[i].sent
<1>0. net \in [Ids -> Net]
  BY TagFacts
<1>1. CASE UNCHANGED <<net, ready, handed>>
  BY <1>1, IntakeOver
<1>2. ASSUME NEW j \in Ids, Complete(j) PROVE Goal
  <2>1. CASE j = i
    BY <1>2, <2>1, IntakeComplete
  <2>2. CASE j # i
    BY <1>2, <2>2, IntakeOther
  <2> QED
    BY <2>1, <2>2
<1>3. ASSUME NEW j \in Ids,
             \/ \E payload \in BOOLEAN : Reply(j, payload)
             \/ \E drain \in BOOLEAN : Finish(j, drain)
             \/ Read(j) \/ Send(j) \/ Cancel(j) \/ PeerHalfClose(j) \/ PeerGone(j)
      PROVE  Goal
  <2>1. CASE j # i
    BY <1>3, <2>1, OperationFrame, IntakeOver
  <2>2. CASE j = i
    BY <1>3, <2>2, IntakeOperation
  <2> QED
    BY <2>1, <2>2
<1>4. CASE CloseServer
  BY <1>4, IntakeOver DEF CloseServer
<1>5. CASE AcceptOk
  <2>1. next_id \in Ids
    BY <1>5, TagAccept, ActiveFinite
  <2>2. net'[i] = net[i] \/ \E x : net'[i] = [net[i] EXCEPT !.over = x]
    BY <1>0, <1>5, <2>1 DEF AcceptOk
  <2> QED
    BY <1>5, <2>2, IntakeOver DEF AcceptOk
<1>6. ASSUME NEW want \in Ids \cup {All}, NEW maxn \in PollSizes, Poll(want, maxn)
      PROVE  Goal
  BY <1>6, IntakePoll
<1>7. CASE CloseBegin \/ CloseQueue \/ CloseJoin \/ CloseAgain \/ AcceptFailed \/ PeerCall
           \/ UNCHANGED vars
  BY <1>1, <1>7 DEF CloseBegin, CloseQueue, CloseJoin, CloseAgain, AcceptFailed, PeerCall,
     vars, pvars
<1> QED
  BY <1>2, <1>3, <1>4, <1>5, <1>6, <1>7 DEF Local

LEMMA IntakeNext ==
    ASSUME TagInv, FreshInv, Intakes, [Next]_vars
    PROVE  Intakes'
<1>1. ASSUME NEW i \in Ids PROVE Intake(i)'
  <2>1. Intake(i)
    BY DEF Intakes
  <2>2. Local \/ UNCHANGED vars \/ \E j \in Ids : PeerSend(j)
    BY DEF Next, Local
  <2> QED
    BY <2>1, <2>2, IntakeLocal, IntakePeerSend
<1> QED
  BY <1>1 DEF Intakes

LEMMA IntakeInit ==
    ASSUME Init
    PROVE  Intakes
<1>1. Cardinality({}) = 0
  BY FS_EmptySet
<1>2. ASSUME NEW i \in Ids PROVE Intake(i)
  <2>1. Msgs(ready, i) = {} /\ handed[i].msgs = 0 /\ net[i].taken = 0 /\ net[i].sent = 0
    BY DEF Init, Msgs, NewNet
  <2> QED
    BY <1>1, <2>1 DEF Intake
<1> QED
  BY <1>2 DEF Intakes

\* What the peer can have had and will have had, and what R has handed over.
LEMMA OutFacts ==
    ASSUME TagInv, Wires, Outs, NEW i \in Ids, NEW c, c = cl[i], NEW n, n = net[i]
    PROVE  /\ Reached(c, n) \in Nat /\ Promised(c, n) \in Nat /\ n.accepted \in Nat
           /\ c.finish_posted => ~c.dead /\ c.replied
           /\ ~c.finish_posted => Reached(c, n) <= n.accepted
           /\ ~c.dead => Reached(c, n) <= Promised(c, n) /\ Promised(c, n) <= n.accepted + 1
           /\ c.finish_posted => Promised(c, n) = Len(n.wire) + Final(c, n)
           /\ "finish" \in c.ops \/ n.status => c.finish_posted
<1>1. CallInv(c) /\ n \in Net /\ WireInv(c, n) /\ OutInv(c, n)
  BY TagFacts DEF Wires, Outs
<1>2. /\ Len(n.wire) \in Nat /\ Len(c.write_queue) \in Nat /\ n.accepted \in Nat
      /\ Reached(c, n) \in Nat
      /\ "write" \in c.ops => ~c.finish_posted /\ Len(c.write_queue) >= 1
  BY <1>1, OutTypes
<1>3. /\ c.finish_posted => ~c.dead /\ c.replied /\ c.write_queue = <<>> /\ "write" \notin c.ops
      /\ "finish" \in c.ops \/ n.status => c.finish_posted
  BY <1>1 DEF CallInv, LifeOrder, FlagsTellTags, WireInv
<1>4. Final(c, n) \in {0, 1} /\ (n.status => Final(c, n) = 0)
  BY DEF Final
<1>5. Given(c, n) \in {n.accepted, n.accepted + 1} /\ (~n.status => Given(c, n) = n.accepted)
  BY <1>2 DEF Given
<1>6. c.finish_posted => Len(c.write_queue) = 0
  BY <1>3, EmptySeq
<1> DEFINE W == Len(n.wire)
           Q == Len(c.write_queue)
           F == Final(c, n)
           G == Given(c, n)
           A == n.accepted
           B == IF "write" \in c.ops THEN 1 ELSE 0
<1>7. /\ Reached(c, n) = W + B + (IF c.finish_posted THEN F ELSE 0)
      /\ Promised(c, n) = W + Q + F
  BY DEF Reached, Promised
<1>8. W + B <= G /\ (~c.dead => W + Q <= G)
  BY <1>1 DEF OutInv
<1>9. B \in {0, 1} /\ (B = 1 => ~c.finish_posted /\ Q >= 1)
  BY <1>2
<1>10. n.status => G = A \/ F = 0
  BY <1>4
<1> HIDE DEF W, Q, F, G, A, B
<1>11. W \in Nat /\ Q \in Nat /\ A \in Nat /\ F \in {0, 1} /\ G \in {A, A + 1}
  BY <1>2, <1>4, <1>5 DEF W, Q, A, F, G
<1>12. Promised(c, n) \in Nat
  BY <1>7, <1>11
<1>13. ~c.finish_posted => Reached(c, n) <= A
  <2>1. ~c.finish_posted => G = A
    BY <1>3, <1>5 DEF G, A
  <2> QED
    BY <1>7, <1>8, <1>9, <1>11, <2>1
<1>14. Reached(c, n) <= Promised(c, n)
  BY <1>7, <1>9, <1>11
<1>15. ~c.dead => Promised(c, n) <= A + 1
  <2>1. n.status => F = 0
    BY <1>4 DEF F
  <2>2. ~n.status => G = A
    BY <1>5 DEF G, A
  <2> QED
    BY <1>7, <1>8, <1>11, <2>1, <2>2
<1>16. c.finish_posted => Promised(c, n) = W + F
  <2>1. c.finish_posted => Q = 0
    BY <1>6 DEF Q
  <2> QED
    BY <1>7, <1>11, <2>1
<1> QED
  BY <1>2, <1>3, <1>12, <1>13, <1>14, <1>15, <1>16 DEF W, F, A

\* Written, or being written.
OnWire(c, n) ==
    Len(n.wire) + (IF \/ "write" \in c.ops
                      \/ "finish" \in c.ops /\ c.has_final_write THEN 1 ELSE 0)

\* Only the status, and what goes with it, ends a call for the peer.
LEMMA WrittenFacts ==
    ASSUME TagInv, Wires, NEW i \in Ids, NEW c, c = cl[i], NEW n, n = net[i]
    PROVE  /\ OnWire(c, n) \in Nat /\ OnWire(c, n) <= Reached(c, n)
           /\ "finish" \in c.ops \/ n.status => OnWire(c, n) = Promised(c, n)
<1>1. CallInv(c) /\ n \in Net /\ WireInv(c, n)
  BY TagFacts DEF Wires
<1>2. /\ Len(n.wire) \in Nat /\ Len(c.write_queue) \in Nat
      /\ "write" \in c.ops => ~c.finish_posted /\ Len(c.write_queue) >= 1
  BY <1>1, OutTypes
<1>3. /\ c.finish_posted => c.write_queue = <<>> /\ "write" \notin c.ops
      /\ "finish" \in c.ops \/ n.status => c.finish_posted
      /\ "finish" \in c.ops => ~n.status
  BY <1>1 DEF CallInv, LifeOrder, FlagsTellTags, WireInv
<1>4. c.finish_posted => Len(c.write_queue) = 0
  BY <1>3, EmptySeq
<1> DEFINE W == Len(n.wire)
           Q == Len(c.write_queue)
           F == Final(c, n)
           B == IF "write" \in c.ops THEN 1 ELSE 0
           P == IF c.finish_posted THEN F ELSE 0
           D == IF "write" \in c.ops \/ ("finish" \in c.ops /\ c.has_final_write) THEN 1 ELSE 0
<1>5. /\ Reached(c, n) = W + B + P /\ Promised(c, n) = W + Q + F /\ OnWire(c, n) = W + D
  BY DEF Reached, Promised, OnWire
<1>6. /\ F \in {0, 1} /\ (n.status => F = 0)
      /\ "finish" \in c.ops => F = IF c.has_final_write THEN 1 ELSE 0
  BY <1>3 DEF Final
<1>7. W \in Nat /\ Q \in Nat /\ (c.finish_posted => Q = 0)
  BY <1>2, <1>4
<1> HIDE DEF F
<1>8. D \in {0, 1} /\ B \in {0, 1} /\ P \in {0, 1} /\ D <= B + P
  <2>1. P \in {0, 1}
    BY <1>6
  <2>2. CASE "write" \in c.ops
    BY <2>1, <2>2
  <2>3. CASE "write" \notin c.ops /\ "finish" \in c.ops /\ c.has_final_write
    BY <1>3, <1>6, <2>3
  <2>4. CASE "write" \notin c.ops /\ ~("finish" \in c.ops /\ c.has_final_write)
    BY <2>1, <2>4
  <2> QED
    BY <2>2, <2>3, <2>4
<1>9. "finish" \in c.ops \/ n.status => D = F /\ Q = 0
  BY <1>3, <1>6, <1>7
<1> HIDE DEF W, Q, B, P, D
<1>10. OnWire(c, n) \in Nat /\ OnWire(c, n) <= Reached(c, n)
  BY <1>5, <1>7, <1>8
<1>11. "finish" \in c.ops \/ n.status => OnWire(c, n) = Promised(c, n)
  BY <1>5, <1>7, <1>8, <1>9
<1> QED
  BY <1>10, <1>11

\* R is handed messages in a poll, and a poll does nothing else to the call.
LEMMA HandedStep ==
    ASSUME TagInv, NEW i \in Ids, Intake(i), [Next]_vars
    PROVE  \/ handed' = handed
           \/ /\ net' = net /\ cl' = cl
              /\ handed'[i].msgs \in Nat /\ handed'[i].msgs >= handed[i].msgs
<1>1. ASSUME NEW j \in Ids, Complete(j) PROVE handed' = handed
  BY <1>1, CompletionFrame
<1>2. ASSUME NEW j \in Ids,
             \/ \E payload \in BOOLEAN : Reply(j, payload)
             \/ \E drain \in BOOLEAN : Finish(j, drain)
             \/ Read(j) \/ Send(j) \/ Cancel(j)
             \/ PeerSend(j) \/ PeerHalfClose(j) \/ PeerGone(j)
      PROVE  handed' = handed
  BY <1>2, OperationFrame
<1>3. CASE CloseBegin \/ CloseServer \/ CloseQueue \/ CloseJoin \/ CloseAgain
           \/ AcceptOk \/ AcceptFailed \/ PeerCall \/ UNCHANGED vars
  BY <1>3 DEF CloseBegin, CloseServer, CloseQueue, CloseJoin, CloseAgain, AcceptOk,
     AcceptFailed, PeerCall, vars, pvars
<1> QED
  BY <1>1, <1>2, <1>3, IntakePoll DEF Next

\* A message of the peer is one more.
LEMMA SentStep ==
    ASSUME TagInv, NEW i \in Ids, PeerSend(i)
    PROVE  net'[i].sent = net[i].sent + 1 /\ net[i].sent \in Nat
<1>1. net \in [Ids -> Net] /\ net[i] \in Net /\ net[i].sent \in Nat
  BY TagFacts, ServerAssumption DEF Net
<1> QED
  BY <1>1 DEF PeerSend, Net

LEMMA IntakeFacts ==
    ASSUME TagInv, NEW i \in Ids, Intake(i)
    PROVE  net[i].sent \in Nat /\ handed[i].msgs \in Nat /\ handed[i].msgs <= net[i].sent
<1>1. net[i].sent \in Nat /\ net[i].taken \in Nat
  BY TagFacts, ServerAssumption DEF Net
<1> DEFINE q == Cardinality(Msgs(ready, i))
<1>2. q \in Nat
  <2>1. IsFiniteSet(ready)
    BY DEF TagInv, TypeOK
  <2>2. Msgs(ready, i) \subseteq ready
    BY DEF Msgs
  <2> QED
    BY <2>1, <2>2, FS_Subset, FS_CardinalityType
<1>3. handed[i].msgs \in Nat
  BY DEF TagInv, TypeOK
<1>4. net[i].taken <= net[i].sent /\ handed[i].msgs + q <= net[i].taken
  BY DEF Intake
<1> HIDE DEF q
<1> QED
  BY <1>1, <1>2, <1>3, <1>4
=============================================================================
