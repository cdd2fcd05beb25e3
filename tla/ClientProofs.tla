---------------------------- MODULE ClientProofs ----------------------------
(***************************************************************************)
(* For every number of calls, buffer size, batch size and traffic: what    *)
(* the completion thread relies on when it dereferences a tag, and what    *)
(* keeps a stream from going to sleep with work left.                      *)
(***************************************************************************)
EXTENDS Client, FiniteSetTheorems, SequenceTheorems, TLAPS

\* The flags of a stream_state say which of its tags are outstanding, and
\* pending how many.
FlagsTellTags(s) ==
    /\ s.pending = Cardinality(s.ops)
    /\ "start" \in s.ops => ~s.started
    /\ "read" \in s.ops <=> s.read_inflight
    /\ "write" \in s.ops <=> s.write_inflight
    /\ "wdone" \in s.ops <=> s.wdone_inflight
    /\ "finish" \in s.ops <=> s.finish_posted /\ ~s.status_emitted

\* The order in which a stream passes through its life.
LifeOrder(s) ==
    /\ ~s.started => s.ops \subseteq {"start"} /\ ~s.want_finish
    /\ s.broken \/ s.reads_closed \/ s.finish_posted => s.want_finish
    /\ s.finish_posted => s.ops \subseteq {"finish"}
    /\ s.status_emitted => s.finish_posted
    /\ s.write_inflight => s.write_queue # <<>>
    /\ s.wdone_inflight => s.write_queue = <<>> /\ s.wdone_requested

StreamInv(s) == s \in Stream /\ FlagsTellTags(s) /\ LifeOrder(s)

\* What the three helpers each guarantee on a client that is not shutting.
ReadArmed(s) ==
    s.started /\ ~s.reads_closed /\ ~s.broken /\ ~s.finish_posted /\ s.unread < s.read_cap
        => s.read_inflight
WriteArmed(s) ==
    s.started /\ ~s.broken /\ ~s.finish_posted =>
        /\ s.write_queue # <<>> => s.write_inflight
        /\ s.wdone_requested /\ ~s.wdone_sent => s.write_inflight \/ s.wdone_inflight
FinishArmed(s) ==
    s.started /\ s.want_finish =>
        s.finish_posted \/ s.read_inflight \/ s.write_inflight \/ s.wdone_inflight

Armed(s) == ReadArmed(s) /\ WriteArmed(s) /\ FinishArmed(s)

\* Equal in everything but pending and ops.
SameButTags(s, t) ==
    /\ t.unread = s.unread /\ t.read_cap = s.read_cap /\ t.write_cap = s.write_cap
    /\ t.started = s.started /\ t.read_inflight = s.read_inflight
    /\ t.write_inflight = s.write_inflight /\ t.wdone_inflight = s.wdone_inflight
    /\ t.wdone_requested = s.wdone_requested /\ t.wdone_sent = s.wdone_sent
    /\ t.reads_closed = s.reads_closed /\ t.broken = s.broken
    /\ t.want_finish = s.want_finish /\ t.finish_posted = s.finish_posted
    /\ t.status_emitted = s.status_emitted /\ t.write_queue = s.write_queue

-----------------------------------------------------------------------------
LEMMA OpsFinite ==
    ASSUME NEW S \in SUBSET OpKinds
    PROVE  IsFiniteSet(S) /\ Cardinality(S) \in Nat
<1>1. IsFiniteSet({"start"})
  BY FS_Singleton
<1>2. IsFiniteSet({"start"} \cup {"read"})
  BY FS_AddElement, <1>1
<1>3. IsFiniteSet({"start"} \cup {"read"} \cup {"write"})
  BY FS_AddElement, <1>2
<1>4. IsFiniteSet({"start"} \cup {"read"} \cup {"write"} \cup {"wdone"})
  BY FS_AddElement, <1>3
<1>5. IsFiniteSet({"start"} \cup {"read"} \cup {"write"} \cup {"wdone"} \cup {"finish"})
  BY FS_AddElement, <1>4
<1>6. OpKinds = {"start"} \cup {"read"} \cup {"write"} \cup {"wdone"} \cup {"finish"}
  BY DEF OpKinds
<1> QED
  BY <1>5, <1>6, FS_Subset, FS_CardinalityType

LEMMA PostLemma ==
    ASSUME NEW s \in Stream, NEW op \in OpKinds \ s.ops,
           s.pending = Cardinality(s.ops)
    PROVE  /\ Post(s, op) \in Stream
           /\ Post(s, op).pending = Cardinality(Post(s, op).ops)
           /\ Post(s, op).ops = s.ops \cup {op}
           /\ SameButTags(s, Post(s, op))
<1>1. s.ops \in SUBSET OpKinds /\ s.pending \in Nat
  BY DEF Stream
<1>2. Cardinality(s.ops \cup {op}) = Cardinality(s.ops) + 1
  BY <1>1, OpsFinite, FS_AddElement
<1>3. s.ops \cup {op} \in SUBSET OpKinds /\ s.pending + 1 \in Nat
  BY <1>1
<1>4. Post(s, op) \in Stream
  BY <1>3 DEF Post, Stream
<1>5. Post(s, op).pending = s.pending + 1 /\ Post(s, op).ops = s.ops \cup {op}
  BY DEF Post, Stream
<1>6. SameButTags(s, Post(s, op))
  BY DEF Post, Stream, SameButTags
<1> QED
  BY <1>2, <1>4, <1>5, <1>6

LEMMA RetireLemma ==
    ASSUME NEW s \in Stream, NEW op \in s.ops, s.pending = Cardinality(s.ops)
    PROVE  /\ Retire(s, op) \in Stream
           /\ Retire(s, op).pending = Cardinality(Retire(s, op).ops)
           /\ Retire(s, op).ops = s.ops \ {op}
           /\ SameButTags(s, Retire(s, op))
<1>1. s.ops \in SUBSET OpKinds
  BY DEF Stream
<1>2. Cardinality(s.ops \ {op}) = Cardinality(s.ops) - 1
  BY <1>1, OpsFinite, FS_RemoveElement
<1>3. Cardinality(s.ops \ {op}) \in Nat
  BY <1>1, OpsFinite
<1>4. SameButTags(s, Retire(s, op))
  BY DEF Retire, Stream, SameButTags
<1> QED
  BY <1>1, <1>2, <1>3, <1>4 DEF Retire, Stream

\* s_post_read_locked arms the read side and leaves the other two as they were.
LEMMA PostReadLemma ==
    ASSUME NEW s, StreamInv(s), NEW t, t = s_post_read_locked(s)
    PROVE  /\ StreamInv(t)
           /\ ~Shutting => ReadArmed(t)
           /\ WriteArmed(s) => WriteArmed(t)
           /\ FinishArmed(s) => FinishArmed(t)
           /\ t.started = s.started /\ t.status_emitted = s.status_emitted
           /\ s.ops \subseteq t.ops
           /\ Shutting => t = s
<1> DEFINE Skip == \/ Shutting \/ s.read_inflight \/ s.reads_closed
                   \/ s.broken \/ s.finish_posted \/ ~s.started
<1>1. CASE Skip
  BY <1>1 DEF s_post_read_locked, StreamInv, ReadArmed, Stream
<1>2. CASE ~Skip
  <2> DEFINE u == [s EXCEPT !.read_inflight = TRUE]
  <2>1. t = Post(u, "read")
    BY <1>2 DEF s_post_read_locked
  <2>2. u \in Stream /\ u.ops = s.ops /\ u.pending = s.pending
    BY DEF StreamInv, Stream
  <2>3. "read" \in OpKinds \ u.ops
    BY <1>2, <2>2 DEF StreamInv, FlagsTellTags, LifeOrder, OpKinds
  <2>4. /\ t \in Stream /\ t.pending = Cardinality(t.ops)
        /\ t.ops = s.ops \cup {"read"} /\ SameButTags(u, t)
    BY <2>1, <2>2, <2>3, PostLemma DEF StreamInv, FlagsTellTags
  <2>5. StreamInv(t)
    BY <1>2, <2>4 DEF StreamInv, FlagsTellTags, LifeOrder, SameButTags, Stream, OpKinds
  <2> QED
    BY <1>2, <2>4, <2>5 DEF ReadArmed, WriteArmed, FinishArmed, SameButTags, StreamInv, Stream
<1> QED
  BY <1>1, <1>2

\* s_pump_writes_locked arms the write side and leaves the other two as they were.
LEMMA PumpLemma ==
    ASSUME NEW s, StreamInv(s), NEW t, t = s_pump_writes_locked(s)
    PROVE  /\ StreamInv(t)
           /\ ~Shutting => WriteArmed(t)
           /\ ReadArmed(s) => ReadArmed(t)
           /\ FinishArmed(s) => FinishArmed(t)
           /\ t.started = s.started /\ t.status_emitted = s.status_emitted
           /\ s.ops \subseteq t.ops
           /\ Shutting => t = s
<1> DEFINE Skip == Shutting \/ ~s.started \/ s.broken \/ s.finish_posted \/ s.write_inflight
           HalfClose == s.wdone_requested /\ ~s.wdone_sent /\ ~s.wdone_inflight
<1>1. CASE Skip \/ (s.write_queue = <<>> /\ ~HalfClose)
  <2>1. t = s
    BY <1>1 DEF s_pump_writes_locked
  <2> QED
    BY <1>1, <2>1 DEF StreamInv, LifeOrder, WriteArmed, Stream
<1>2. CASE ~Skip /\ s.write_queue # <<>>
  <2> DEFINE u == [s EXCEPT !.write_inflight = TRUE]
  <2>1. t = Post(u, "write")
    BY <1>2 DEF s_pump_writes_locked
  <2>2. u \in Stream /\ u.ops = s.ops /\ u.pending = s.pending
    BY DEF StreamInv, Stream
  <2>3. "write" \in OpKinds \ u.ops
    BY <1>2, <2>2 DEF StreamInv, FlagsTellTags, LifeOrder, OpKinds
  <2>4. /\ t \in Stream /\ t.pending = Cardinality(t.ops)
        /\ t.ops = s.ops \cup {"write"} /\ SameButTags(u, t)
    BY <2>1, <2>2, <2>3, PostLemma DEF StreamInv, FlagsTellTags
  <2>5. StreamInv(t)
    BY <1>2, <2>4 DEF StreamInv, FlagsTellTags, LifeOrder, SameButTags, Stream, OpKinds
  <2> QED
    BY <1>2, <2>4, <2>5 DEF ReadArmed, WriteArmed, FinishArmed, SameButTags, StreamInv, Stream
<1>3. CASE ~Skip /\ s.write_queue = <<>> /\ HalfClose
  <2> DEFINE u == [s EXCEPT !.wdone_inflight = TRUE]
  <2>1. t = Post(u, "wdone")
    BY <1>3 DEF s_pump_writes_locked
  <2>2. u \in Stream /\ u.ops = s.ops /\ u.pending = s.pending
    BY DEF StreamInv, Stream
  <2>3. "wdone" \in OpKinds \ u.ops
    BY <1>3, <2>2 DEF StreamInv, FlagsTellTags, LifeOrder, OpKinds
  <2>4. /\ t \in Stream /\ t.pending = Cardinality(t.ops)
        /\ t.ops = s.ops \cup {"wdone"} /\ SameButTags(u, t)
    BY <2>1, <2>2, <2>3, PostLemma DEF StreamInv, FlagsTellTags
  <2>5. StreamInv(t)
    BY <1>3, <2>4 DEF StreamInv, FlagsTellTags, LifeOrder, SameButTags, Stream, OpKinds
  <2> QED
    BY <1>3, <2>4, <2>5 DEF ReadArmed, WriteArmed, FinishArmed, SameButTags, StreamInv, Stream
<1> QED
  BY <1>1, <1>2, <1>3

\* s_try_finish_locked posts Finish as soon as it may, and only alone.
LEMMA TryFinishLemma ==
    ASSUME NEW s, StreamInv(s), NEW t, t = s_try_finish_locked(s)
    PROVE  /\ StreamInv(t)
           /\ ~Shutting => FinishArmed(t)
           /\ ReadArmed(s) => ReadArmed(t)
           /\ WriteArmed(s) => WriteArmed(t)
           /\ t.started = s.started /\ t.status_emitted = s.status_emitted
           /\ s.ops \subseteq t.ops
           /\ Shutting => t = s
<1> DEFINE Skip == \/ Shutting \/ ~s.want_finish \/ s.finish_posted
                   \/ s.read_inflight \/ s.write_inflight \/ s.wdone_inflight \/ ~s.started
<1>1. CASE Skip
  BY <1>1 DEF s_try_finish_locked, StreamInv, FinishArmed, Stream
<1>2. CASE ~Skip
  <2> DEFINE u == [s EXCEPT !.finish_posted = TRUE]
  <2>1. t = Post(u, "finish")
    BY <1>2 DEF s_try_finish_locked
  <2>2. u \in Stream /\ u.ops = s.ops /\ u.pending = s.pending
    BY DEF StreamInv, Stream
  <2>3. "finish" \in OpKinds \ u.ops
    BY <1>2, <2>2 DEF StreamInv, FlagsTellTags, LifeOrder, OpKinds
  <2>4. /\ t \in Stream /\ t.pending = Cardinality(t.ops)
        /\ t.ops = s.ops \cup {"finish"} /\ SameButTags(u, t)
    BY <2>1, <2>2, <2>3, PostLemma DEF StreamInv, FlagsTellTags
  <2>5. s.ops = {}
    BY <1>2 DEF StreamInv, FlagsTellTags, Stream, OpKinds
  <2>6. StreamInv(t)
    BY <1>2, <2>4, <2>5 DEF StreamInv, FlagsTellTags, LifeOrder, SameButTags, Stream, OpKinds
  <2> QED
    BY <1>2, <2>4, <2>6 DEF ReadArmed, WriteArmed, FinishArmed, SameButTags, StreamInv, Stream
<1> QED
  BY <1>1, <1>2

-----------------------------------------------------------------------------
(* The completion cases, each from the stream the tag was found in.         *)

\* What a completion leaves behind: a well-formed stream, armed unless the
\* client is shutting, in which case nothing new is posted.
Carries(s, t) ==
    /\ StreamInv(t)
    /\ t.started
    /\ t.status_emitted = s.status_emitted
    /\ Shutting => t.ops \subseteq s.ops
Advances(s, t) == Carries(s, t) /\ (~Shutting => Armed(t))

\* case T_START: the stream comes to life with its read posted, or ends.
LEMMA StartLemma ==
    ASSUME NEW s, StreamInv(s), ~Shutting => Armed(s), "start" \in s.ops, NEW ok \in BOOLEAN,
           NEW t, t = AfterStart(Retire(s, "start"), ok)
    PROVE  Advances(s, t)
<1> DEFINE r == Retire(s, "start")
<1>1. /\ r \in Stream /\ r.pending = Cardinality(r.ops)
      /\ r.ops = s.ops \ {"start"} /\ SameButTags(s, r)
  BY RetireLemma DEF StreamInv, FlagsTellTags
<1>2. t = AfterStart(r, ok)
  OBVIOUS
<1> HIDE DEF r
<1>3. CASE ok
  <2> DEFINE a == [r EXCEPT !.started = TRUE]
             b == s_post_read_locked(a)
             c == s_pump_writes_locked(b)
  <2>1. Carries(s, a)
    BY <1>1 DEF Carries, StreamInv, FlagsTellTags, LifeOrder, Stream, SameButTags
  <2>2. t = s_try_finish_locked(c)
    BY <1>2, <1>3 DEF AfterStart
  <2> HIDE DEF a
  <2>3. Carries(s, b) /\ (~Shutting => ReadArmed(b))
    BY <2>1, PostReadLemma DEF Carries
  <2> HIDE DEF b
  <2>4. Carries(s, c) /\ (~Shutting => ReadArmed(c) /\ WriteArmed(c))
    BY <2>3, PumpLemma DEF Carries
  <2> HIDE DEF c
  <2> QED
    BY <2>1, <2>2, <2>3, <2>4, TryFinishLemma DEF Advances, Carries, Armed
<1>4. CASE ~ok
  <2> DEFINE a == [r EXCEPT !.broken = TRUE, !.started = TRUE, !.want_finish = TRUE]
  <2>1. Carries(s, a)
    BY <1>1 DEF Carries, StreamInv, FlagsTellTags, LifeOrder, Stream, SameButTags
  <2>2. ~Shutting => ReadArmed(a) /\ WriteArmed(a)
    BY <1>1 DEF ReadArmed, WriteArmed, FinishArmed, Armed, Carries, StreamInv, FlagsTellTags, LifeOrder, Stream, SameButTags
  <2>3. t = s_try_finish_locked(a)
    BY <1>2, <1>4 DEF AfterStart, Stream, SameButTags
  <2> HIDE DEF a
  <2> QED
    BY <2>1, <2>2, <2>3, TryFinishLemma DEF Advances, Carries, Armed
<1> QED
  BY <1>3, <1>4

\* case T_READ: the next read is posted below read_cap; a failed read is the last.
LEMMA ReadLemma ==
    ASSUME NEW s, StreamInv(s), ~Shutting => Armed(s), "read" \in s.ops, NEW ok \in BOOLEAN,
           NEW t, t = AfterRead(Retire(s, "read"), ok)
    PROVE  Advances(s, t)
<1> DEFINE r == Retire(s, "read")
<1>1. /\ r \in Stream /\ r.pending = Cardinality(r.ops)
      /\ r.ops = s.ops \ {"read"} /\ SameButTags(s, r)
  BY RetireLemma DEF StreamInv, FlagsTellTags
<1>2. t = AfterRead(r, ok)
  OBVIOUS
<1> HIDE DEF r
<1>3. CASE ok /\ ~r.broken
  <2> DEFINE a == [r EXCEPT !.read_inflight = FALSE, !.unread = @ + 1]
             b == IF a.unread < a.read_cap THEN s_post_read_locked(a) ELSE a
  <2>0. a \in Stream
    <3>1. r.unread + 1 \in Int
      BY <1>1 DEF Stream
    <3> QED
      BY <1>1, <3>1 DEF Stream
  <2>1. Carries(s, a)
    BY <1>1, <2>0 DEF Carries, StreamInv, FlagsTellTags, LifeOrder, Stream, SameButTags
  <2>2. ~Shutting => WriteArmed(a)
    BY <1>1 DEF ReadArmed, WriteArmed, FinishArmed, Armed, Carries, StreamInv, FlagsTellTags, LifeOrder, Stream, SameButTags
  <2>3. t = s_try_finish_locked(b)
    BY <1>2, <1>3 DEF AfterRead
  <2> HIDE DEF a
  <2>4. Carries(s, b) /\ (~Shutting => ReadArmed(b) /\ WriteArmed(b))
    <3>1. CASE a.unread < a.read_cap
      BY <2>1, <2>2, <3>1, PostReadLemma DEF Carries
    <3>2. CASE ~(a.unread < a.read_cap)
      BY <2>1, <2>2, <3>2 DEF ReadArmed
    <3> QED
      BY <3>1, <3>2
  <2> HIDE DEF b
  <2> QED
    BY <2>1, <2>3, <2>4, TryFinishLemma DEF Advances, Carries, Armed
<1>4. CASE ~(ok /\ ~r.broken)
  <2> DEFINE a == [r EXCEPT !.read_inflight = FALSE, !.reads_closed = TRUE, !.want_finish = TRUE]
  <2>1. Carries(s, a)
    BY <1>1 DEF Carries, StreamInv, FlagsTellTags, LifeOrder, Stream, SameButTags
  <2>2. ~Shutting => ReadArmed(a) /\ WriteArmed(a)
    BY <1>1 DEF ReadArmed, WriteArmed, FinishArmed, Armed, Carries, StreamInv, FlagsTellTags, LifeOrder, Stream, SameButTags
  <2>3. t = s_try_finish_locked(a)
    BY <1>2, <1>4 DEF AfterRead, Stream, SameButTags
  <2> HIDE DEF a
  <2> QED
    BY <2>1, <2>2, <2>3, TryFinishLemma DEF Advances, Carries, Armed
<1> QED
  BY <1>3, <1>4

\* case T_WRITE: the queue moves up, or the stream is broken.
LEMMA WriteLemma ==
    ASSUME NEW s, StreamInv(s), ~Shutting => Armed(s), "write" \in s.ops, NEW ok \in BOOLEAN,
           NEW t, t = AfterWrite(Retire(s, "write"), ok)
    PROVE  Advances(s, t)
<1> DEFINE r == Retire(s, "write")
<1>1. /\ r \in Stream /\ r.pending = Cardinality(r.ops)
      /\ r.ops = s.ops \ {"write"} /\ SameButTags(s, r)
  BY RetireLemma DEF StreamInv, FlagsTellTags
<1>2. t = AfterWrite(r, ok)
  OBVIOUS
<1> HIDE DEF r
<1>3. CASE ok /\ ~r.broken
  <2> DEFINE a == [r EXCEPT !.write_inflight = FALSE, !.write_queue = Tail(@)]
             b == s_pump_writes_locked(a)
  <2>0. a \in Stream
    <3>1. r.write_queue \in Seq(1..MaxSends) /\ r.write_queue # <<>>
      BY <1>1 DEF Carries, StreamInv, FlagsTellTags, LifeOrder, Stream, SameButTags
    <3>2. Tail(r.write_queue) \in Seq(1..MaxSends)
      BY <3>1, HeadTailProperties
    <3> QED
      BY <1>1, <3>2 DEF Stream
  <2>1. Carries(s, a)
    BY <1>1, <2>0 DEF Carries, StreamInv, FlagsTellTags, LifeOrder, Stream, SameButTags
  <2>2. ~Shutting => ReadArmed(a)
    BY <1>1 DEF ReadArmed, WriteArmed, FinishArmed, Armed, Carries, StreamInv, FlagsTellTags, LifeOrder, Stream, SameButTags
  <2>3. t = s_try_finish_locked(b)
    BY <1>2, <1>3 DEF AfterWrite
  <2> HIDE DEF a
  <2>4. Carries(s, b) /\ (~Shutting => ReadArmed(b) /\ WriteArmed(b))
    BY <2>1, <2>2, PumpLemma DEF Carries
  <2> HIDE DEF b
  <2> QED
    BY <2>1, <2>3, <2>4, TryFinishLemma DEF Advances, Carries, Armed
<1>4. CASE ~(ok /\ ~r.broken)
  <2> DEFINE a == [r EXCEPT !.write_inflight = FALSE, !.broken = TRUE, !.want_finish = TRUE]
  <2>1. Carries(s, a)
    BY <1>1 DEF Carries, StreamInv, FlagsTellTags, LifeOrder, Stream, SameButTags
  <2>2. ~Shutting => ReadArmed(a) /\ WriteArmed(a)
    BY <1>1 DEF ReadArmed, WriteArmed, FinishArmed, Armed, Carries, StreamInv, FlagsTellTags, LifeOrder, Stream, SameButTags
  <2>3. t = s_try_finish_locked(a)
    BY <1>2, <1>4 DEF AfterWrite, Stream, SameButTags
  <2> HIDE DEF a
  <2> QED
    BY <2>1, <2>2, <2>3, TryFinishLemma DEF Advances, Carries, Armed
<1> QED
  BY <1>3, <1>4

\* case T_WDONE: the half-close is out; the read side goes on alone.
LEMMA WdoneLemma ==
    ASSUME NEW s, StreamInv(s), ~Shutting => Armed(s), "wdone" \in s.ops, NEW ok \in BOOLEAN,
           NEW t, t = AfterWdone(Retire(s, "wdone"), ok)
    PROVE  Advances(s, t)
<1> DEFINE r == Retire(s, "wdone")
<1>1. /\ r \in Stream /\ r.pending = Cardinality(r.ops)
      /\ r.ops = s.ops \ {"wdone"} /\ SameButTags(s, r)
  BY RetireLemma DEF StreamInv, FlagsTellTags
<1>2. t = AfterWdone(r, ok)
  OBVIOUS
<1> HIDE DEF r
<1>3. CASE ok
  <2> DEFINE a == [r EXCEPT !.wdone_inflight = FALSE, !.wdone_sent = TRUE]
  <2>1. Carries(s, a)
    BY <1>1 DEF Carries, StreamInv, FlagsTellTags, LifeOrder, Stream, SameButTags
  <2>2. ~Shutting => ReadArmed(a) /\ WriteArmed(a)
    BY <1>1 DEF ReadArmed, WriteArmed, FinishArmed, Armed, Carries, StreamInv, FlagsTellTags, LifeOrder, Stream, SameButTags
  <2>3. t = s_try_finish_locked(a)
    BY <1>2, <1>3 DEF AfterWdone
  <2> HIDE DEF a
  <2> QED
    BY <2>1, <2>2, <2>3, TryFinishLemma DEF Advances, Carries, Armed
<1>4. CASE ~ok
  <2> DEFINE a == [r EXCEPT !.wdone_inflight = FALSE, !.wdone_sent = TRUE, !.broken = TRUE, !.want_finish = TRUE]
  <2>1. Carries(s, a)
    BY <1>1 DEF Carries, StreamInv, FlagsTellTags, LifeOrder, Stream, SameButTags
  <2>2. ~Shutting => ReadArmed(a) /\ WriteArmed(a)
    BY <1>1 DEF ReadArmed, WriteArmed, FinishArmed, Armed, Carries, StreamInv, FlagsTellTags, LifeOrder, Stream, SameButTags
  <2>3. t = s_try_finish_locked(a)
    BY <1>2, <1>4 DEF AfterWdone, Stream, SameButTags
  <2> HIDE DEF a
  <2> QED
    BY <2>1, <2>2, <2>3, TryFinishLemma DEF Advances, Carries, Armed
<1> QED
  BY <1>3, <1>4

-----------------------------------------------------------------------------
(* The invariant of the client.                                            *)

\* A live stream has not had its status out; until it started its start tag
\* is outstanding; and while the client is open all three sides are armed.
LiveInv ==
    \A i \in streams :
        /\ ~st[i].status_emitted
        /\ ~st[i].started => "start" \in st[i].ops
        /\ ~Shutting => Armed(st[i])

\* The inductive invariant.
IInv ==
    /\ TypeOK
    /\ IsFiniteSet(ready)
    /\ \A i \in Ids : StreamInv(st[i])
    /\ NoDanglingTag
    /\ LiveInv

LEMMA NewStreamLemma ==
    ASSUME NEW rc \in ReadCaps, NEW wc \in WriteCaps
    PROVE  /\ NewStream(rc, wc) \in Stream
           /\ StreamInv(NewStream(rc, wc)) /\ NewStream(rc, wc).ops = {}
           /\ ~NewStream(rc, wc).started /\ ~NewStream(rc, wc).status_emitted
<1>1. <<>> \in Seq(1..MaxSends)
  OBVIOUS
<1>2. NewStream(rc, wc) \in Stream
  BY <1>1 DEF NewStream, Stream
<1>3. Cardinality({}) = 0
  BY FS_EmptySet
<1> QED
  BY <1>2, <1>3 DEF NewStream, StreamInv, FlagsTellTags, LifeOrder

LEMMA InitLemma == Init => IInv
<1> SUFFICES ASSUME Init PROVE IInv
  OBVIOUS
<1> PICK rc \in ReadCaps, wc \in WriteCaps : st = [i \in Ids |-> NewStream(rc, wc)]
  BY DEF Init
<1>1. \A i \in Ids : st[i] = NewStream(rc, wc)
  OBVIOUS
<1>2. st \in [Ids -> Stream] /\ \A i \in Ids : StreamInv(st[i]) /\ st[i].ops = {}
  BY <1>1, NewStreamLemma
<1>3. net \in [Ids -> Net]
  BY ClientAssumption DEF Init, Net, ClientAssumption
<1>4. TypeOK
  BY <1>2, <1>3, ClientAssumption DEF Init, TypeOK, ClientAssumption
<1> QED
  BY <1>2, <1>4, FS_EmptySet DEF Init, IInv, NoDanglingTag, LiveInv

\* A new event: one more in the deque, stamped by its arrival.
LEMMA EmitLemma ==
    ASSUME IInv, NEW k \in EventKinds, NEW i \in Ids, NEW v \in Nat, Emit(k, i, v)
    PROVE  /\ arrived' \in Nat /\ IsFiniteSet(ready')
           /\ ready' \subseteq [kind : EventKinds, id : Ids, val : Nat, stamp : 1..arrived']
<1> DEFINE e == [kind |-> k, id |-> i, val |-> v, stamp |-> arrived + 1]
<1>1. arrived \in Nat /\ arrived' = arrived + 1 /\ arrived' \in Nat
  BY DEF IInv, TypeOK, Emit
<1>2. ready' = ready \cup {e}
  BY DEF Emit
<1>3. e \in [kind : EventKinds, id : Ids, val : Nat, stamp : 1..arrived']
  BY <1>1
<1>4. ready \subseteq [kind : EventKinds, id : Ids, val : Nat, stamp : 1..arrived']
  <2>1. 1..arrived \subseteq 1..arrived'
    BY <1>1
  <2> QED
    BY <2>1 DEF IInv, TypeOK
<1>5. IsFiniteSet(ready')
  BY <1>2, FS_AddElement DEF IInv
<1> QED
  BY <1>1, <1>2, <1>3, <1>4, <1>5

LEMMA QuietLemma ==
    ASSUME IInv, Quiet
    PROVE  /\ arrived' \in Nat /\ IsFiniteSet(ready')
           /\ ready' \subseteq [kind : EventKinds, id : Ids, val : Nat, stamp : 1..arrived']
BY DEF IInv, TypeOK, Quiet

\* A completion on stream i, seen from the maps.
LEMMA CaseLemma ==
    ASSUME IInv, NEW i \in Ids, NEW t, StreamCase(i, t),
           st[i].ops # {} /\ StreamInv(t) /\ (Shutting => t.ops \subseteq st[i].ops)
    PROVE  /\ i \in streams
           /\ st' \in [Ids -> Stream]
           /\ \A j \in Ids : StreamInv(st'[j])
           /\ st'[i] = t /\ \A j \in Ids \ {i} : st'[j] = st[j]
           /\ streams' \subseteq streams /\ streams \ {i} \subseteq streams'
           /\ ~t.status_emitted => streams' = streams
<1>1. i \in streams /\ st \in [Ids -> Stream] /\ t \in Stream
  BY DEF IInv, NoDanglingTag, TypeOK, StreamInv
<1>2. st' = [st EXCEPT ![i] = t] /\ streams' = LiveAfter(i, t)
  BY DEF StreamCase
<1> QED
  BY <1>1, <1>2 DEF IInv, LiveAfter

\* The four cases whose handler posts what comes next.
LEMMA AdvanceLemma ==
    ASSUME IInv, NEW i \in Ids, NEW t, StreamCase(i, t), st[i].ops # {}, Advances(st[i], t),
           net' \in [Ids -> Net], arrived' \in Nat, IsFiniteSet(ready'),
           ready' \subseteq [kind : EventKinds, id : Ids, val : Nat, stamp : 1..arrived']
    PROVE  IInv'
<1>1. /\ i \in streams /\ st' \in [Ids -> Stream] /\ \A j \in Ids : StreamInv(st'[j])
      /\ st'[i] = t /\ \A j \in Ids \ {i} : st'[j] = st[j]
      /\ streams' \subseteq streams /\ (~t.status_emitted => streams' = streams)
  BY CaseLemma DEF Advances, Carries
<1>2. ~t.status_emitted
  BY <1>1 DEF IInv, LiveInv, Advances, Carries
<1>3. streams' = streams /\ UNCHANGED <<phase, next_id, calls, unary, handed>>
  BY <1>1, <1>2 DEF StreamCase
<1>4. TypeOK'
  BY <1>1, <1>3 DEF IInv, TypeOK
<1>5. NoDanglingTag'
  BY <1>1, <1>3 DEF IInv, NoDanglingTag
<1>6. LiveInv'
  BY <1>1, <1>2, <1>3 DEF IInv, TypeOK, LiveInv, Advances, Carries, Shutting
<1>7. (\A j \in Ids : StreamInv(st[j]))'
  BY <1>1
<1> QED
  BY <1>4, <1>5, <1>6, <1>7 DEF IInv

\* An operation of R on an open client: it leaves a stream alone, or posts on
\* it and keeps it armed.
Touches(s, t) ==
    /\ StreamInv(t) /\ Armed(t)
    /\ t.started = s.started /\ t.status_emitted = s.status_emitted
    /\ s.ops \subseteq t.ops

LEMMA TouchLemma ==
    ASSUME IInv, ~Shutting, UNCHANGED <<phase, next_id, calls, streams, unary, arrived>>,
           net' \in [Ids -> Net], ready' \subseteq ready,
           handed' \in [Ids -> [msgs : Nat, over : BOOLEAN]],
           st' \in [Ids -> Stream],
           \A j \in Ids : st'[j] = st[j] \/ (j \in streams /\ Touches(st[j], st'[j]))
    PROVE  IInv'
<1>1. TypeOK'
  BY DEF IInv, TypeOK
<1>2. IsFiniteSet(ready')
  BY FS_Subset DEF IInv
<1>3. (\A j \in Ids : StreamInv(st[j]))'
  BY DEF IInv, Touches
<1>4. NoDanglingTag'
  BY DEF IInv, NoDanglingTag
<1>5. LiveInv'
  <2> SUFFICES ASSUME NEW j \in streams
               PROVE  /\ ~st'[j].status_emitted
                      /\ ~st'[j].started => "start" \in st'[j].ops
                      /\ Armed(st'[j])
    BY DEF LiveInv
  <2>1. /\ j \in Ids /\ ~st[j].status_emitted
        /\ ~st[j].started => "start" \in st[j].ops
        /\ Armed(st[j])
    BY DEF IInv, TypeOK, LiveInv
  <2> QED
    BY <2>1 DEF Touches
<1> QED
  BY <1>1, <1>2, <1>3, <1>4, <1>5 DEF IInv

\* A step of the network alone.
LEMMA FrameLemma ==
    ASSUME IInv, net' \in [Ids -> Net],
           UNCHANGED <<phase, next_id, calls, streams, st, unary, ready, arrived, handed>>
    PROVE  IInv'
BY DEF IInv, TypeOK, NoDanglingTag, LiveInv, Shutting

LEMMA CancelLemma ==
    ASSUME IInv, NEW W, TryCancel(W)
    PROVE  net' \in [Ids -> Net]
BY DEF IInv, TypeOK, TryCancel, Net

\* The stream a tag points to is live, so it is in shape.
LEMMA TaggedLemma ==
    ASSUME IInv, NEW i \in Ids, st[i].ops # {}
    PROVE  StreamInv(st[i]) /\ (~Shutting => Armed(st[i]))
BY DEF IInv, NoDanglingTag, LiveInv

\* The poll loop's bookkeeping resumes a paused read.
LEMMA DrainLemma ==
    ASSUME NEW s, StreamInv(s), Armed(s), ~Shutting, NEW n \in Nat
    PROVE  Touches(s, Drained(s, n))
<1> DEFINE t == [s EXCEPT !.unread = @ - n]
<1>1. s.unread - n \in Int
  BY DEF StreamInv, Stream
<1>2. t \in Stream
  BY <1>1 DEF StreamInv, Stream
<1>3. StreamInv(t) /\ WriteArmed(t) /\ FinishArmed(t)
  BY <1>2 DEF StreamInv, FlagsTellTags, LifeOrder, Stream, Armed, WriteArmed, FinishArmed
<1>4. t.started = s.started /\ t.status_emitted = s.status_emitted /\ t.ops = s.ops
  BY DEF StreamInv, Stream
<1>5. n = 0 => ReadArmed(t)
  BY DEF StreamInv, Stream, Armed, ReadArmed
<1>6. Drained(s, n) = IF n > 0 /\ t.unread < t.read_cap THEN s_post_read_locked(t) ELSE t
  BY DEF Drained
<1> HIDE DEF t
<1>7. CASE n > 0 /\ t.unread < t.read_cap
  BY <1>3, <1>4, <1>6, <1>7, PostReadLemma DEF Touches, Armed
<1>8. CASE ~(n > 0 /\ t.unread < t.read_cap)
  BY <1>3, <1>4, <1>5, <1>6, <1>8 DEF Touches, Armed, ReadArmed
<1> QED
  BY <1>7, <1>8

LEMMA NextLemma == IInv /\ [Next]_vars => IInv'
<1> SUFFICES ASSUME IInv, [Next]_vars PROVE IInv'
  OBVIOUS
<1>1. CASE CallStart
  <2>1. next_id \in Ids /\ next_id' \in 1..(MaxCalls + 1)
    BY <1>1, ClientAssumption DEF IInv, TypeOK, CallStart, Ids, ClientAssumption
  <2>2. net' \in [Ids -> Net]
    BY <1>1, <2>1 DEF IInv, TypeOK, CallStart, Net
  <2>3. TypeOK'
    BY <1>1, <2>1, <2>2 DEF IInv, TypeOK, CallStart
  <2> QED
    BY <1>1, <2>3 DEF IInv, CallStart, NoDanglingTag, LiveInv, Shutting
<1>2. CASE \E rc \in ReadCaps, wc \in WriteCaps : StreamStart(rc, wc)
  <2> PICK rc \in ReadCaps, wc \in WriteCaps : StreamStart(rc, wc)
    BY <1>2
  <2> DEFINE n == NewStream(rc, wc)
             s == Post(n, "start")
  <2>1. next_id \in Ids /\ next_id' \in 1..(MaxCalls + 1)
    BY ClientAssumption DEF IInv, TypeOK, StreamStart, Ids, ClientAssumption
  <2>2. net' \in [Ids -> Net]
    BY <2>1 DEF IInv, TypeOK, StreamStart, Net
  <2>3. n \in Stream /\ StreamInv(n) /\ n.ops = {} /\ ~n.started /\ ~n.status_emitted
    BY NewStreamLemma
  <2>4. /\ st' = [st EXCEPT ![next_id] = s] /\ streams' = streams \cup {next_id}
        /\ UNCHANGED <<phase, calls, unary, ready, arrived, handed>>
    BY DEF StreamStart
  <2> HIDE DEF n
  <2>5. /\ s \in Stream /\ s.pending = Cardinality(s.ops)
        /\ s.ops = {"start"} /\ SameButTags(n, s)
    BY <2>3, PostLemma DEF StreamInv, FlagsTellTags, OpKinds
  <2> HIDE DEF s
  <2>6. StreamInv(s) /\ ~s.started /\ ~s.status_emitted
    BY <2>3, <2>5 DEF StreamInv, FlagsTellTags, LifeOrder, SameButTags
  <2>7. Armed(s)
    BY <2>6 DEF Armed, ReadArmed, WriteArmed, FinishArmed
  <2>8. /\ st' \in [Ids -> Stream] /\ st'[next_id] = s
        /\ \A j \in Ids \ {next_id} : st'[j] = st[j]
    BY <2>1, <2>4, <2>5 DEF IInv, TypeOK
  <2>9. TypeOK'
    BY <2>1, <2>2, <2>4, <2>8 DEF IInv, TypeOK
  <2>10. (\A j \in Ids : StreamInv(st[j]))'
    BY <2>6, <2>8 DEF IInv
  <2>11. NoDanglingTag'
    BY <2>4, <2>8 DEF IInv, NoDanglingTag
  <2>12. LiveInv'
    BY <2>4, <2>5, <2>6, <2>7, <2>8 DEF IInv, TypeOK, LiveInv, Shutting
  <2> QED
    BY <2>4, <2>9, <2>10, <2>11, <2>12 DEF IInv
<1>3. ASSUME NEW i \in Ids, CallCancel(i) \/ PeerSend(i) \/ WireOver(i, "ended") \/ WireOver(i, "dead")
      PROVE  IInv'
  <2>1. UNCHANGED <<phase, next_id, calls, streams, st, unary, ready, arrived, handed>>
    BY <1>3 DEF CallCancel, PeerSend, WireOver
  <2>2. net' \in [Ids -> Net]
    BY <1>3, CancelLemma, ClientAssumption
    DEF IInv, TypeOK, CallCancel, PeerSend, WireOver, Net, ClientAssumption
  <2> QED
    BY <2>1, <2>2, FrameLemma
<1>4. ASSUME NEW i \in Ids, StreamSend(i) PROVE IInv'
  <2> DEFINE q == Append(st[i].write_queue, net[i].accepted + 1)
             u == [st[i] EXCEPT !.write_queue = q]
             t == s_pump_writes_locked(u)
  <2>1. /\ i \in streams /\ ~Shutting /\ ~st[i].wdone_requested /\ st[i] \in Stream
        /\ StreamInv(st[i]) /\ Armed(st[i])
    BY <1>4 DEF StreamSend, SendAccepted, IInv, TypeOK, LiveInv, Shutting
  <2>2. st' = [st EXCEPT ![i] = t] /\ UNCHANGED <<phase, next_id, calls, streams, unary, ready, arrived, handed>>
    BY <1>4 DEF StreamSend
  <2>3. net' \in [Ids -> Net] /\ net[i].accepted + 1 \in 1..MaxSends
    <3>1. /\ net[i] \in Net /\ net[i].accepted + 1 \in 1..MaxSends
      BY <1>4, ClientAssumption DEF IInv, TypeOK, StreamSend, Net, ClientAssumption
    <3>2. net' = [net EXCEPT ![i] = [net[i] EXCEPT !.accepted = net[i].accepted + 1]]
      BY <1>4 DEF StreamSend
    <3>3. [net[i] EXCEPT !.accepted = net[i].accepted + 1] \in Net
      BY <3>1 DEF Net
    <3> QED
      BY <3>1, <3>2, <3>3 DEF IInv, TypeOK
  <2>4. u \in Stream /\ u.write_queue # <<>>
    <3>1. st[i].write_queue \in Seq(1..MaxSends)
      BY <2>1 DEF Stream
    <3>2. q \in Seq(1..MaxSends) /\ q # <<>>
      BY <3>1, <2>3, AppendProperties
    <3> HIDE DEF q
    <3> QED
      BY <2>1, <3>2 DEF Stream
  <2>5. StreamInv(u) /\ ReadArmed(u) /\ FinishArmed(u)
    BY <2>1, <2>4 DEF StreamInv, FlagsTellTags, LifeOrder, Stream, Armed, ReadArmed, FinishArmed
  <2>6. u.ops = st[i].ops /\ u.started = st[i].started /\ u.status_emitted = st[i].status_emitted
    BY <2>1 DEF Stream
  <2> HIDE DEF u
  <2>7. Touches(st[i], t)
    BY <2>1, <2>5, <2>6, PumpLemma DEF Touches, Armed
  <2> HIDE DEF t
  <2>8. st' \in [Ids -> Stream] /\ \A j \in Ids : st'[j] = st[j] \/ (j \in streams /\ Touches(st[j], st'[j]))
    BY <2>1, <2>2, <2>7 DEF IInv, TypeOK, Touches, StreamInv
  <2> QED
    BY <2>1, <2>2, <2>3, <2>8, TouchLemma DEF IInv, TypeOK
<1>5. ASSUME NEW i \in Ids, StreamWritesDone(i) PROVE IInv'
  <2> DEFINE u == [st[i] EXCEPT !.wdone_requested = TRUE]
             t == s_pump_writes_locked(u)
  <2>1. i \in streams /\ ~Shutting /\ st[i] \in Stream /\ StreamInv(st[i]) /\ Armed(st[i])
    BY <1>5 DEF StreamWritesDone, IInv, TypeOK, LiveInv, Shutting
  <2>2. st' = [st EXCEPT ![i] = t] /\ UNCHANGED <<phase, next_id, calls, streams, unary, ready, arrived, handed, net>>
    BY <1>5 DEF StreamWritesDone
  <2>3. StreamInv(u) /\ ReadArmed(u) /\ FinishArmed(u)
    BY <2>1 DEF StreamInv, FlagsTellTags, LifeOrder, Stream, Armed, ReadArmed, FinishArmed
  <2>4. u.ops = st[i].ops /\ u.started = st[i].started /\ u.status_emitted = st[i].status_emitted
    BY <2>1 DEF Stream
  <2> HIDE DEF u
  <2>5. Touches(st[i], t)
    BY <2>1, <2>3, <2>4, PumpLemma DEF Touches, Armed
  <2> HIDE DEF t
  <2>6. st' \in [Ids -> Stream] /\ \A j \in Ids : st'[j] = st[j] \/ (j \in streams /\ Touches(st[j], st'[j]))
    BY <2>1, <2>2, <2>5 DEF IInv, TypeOK, Touches, StreamInv
  <2> QED
    BY <2>1, <2>2, <2>6, TouchLemma DEF IInv, TypeOK
<1>6. ASSUME NEW want \in Ids \cup {All}, NEW maxn \in PollSizes, Poll(want, maxn) PROVE IInv'
  <2> DEFINE batch == Batch(ready, want, maxn)
             n(i) == Cardinality(Msgs(batch, i))
  <2>1. /\ ~Shutting /\ ready' = ready \ batch
        /\ UNCHANGED <<phase, next_id, calls, streams, unary, arrived, net>>
    BY <1>6 DEF Poll, Shutting
  <2>2. st' = [i \in Ids |-> IF i \in streams THEN Drained(st[i], n(i)) ELSE st[i]]
    BY <1>6 DEF Poll
  <2>3. handed' = [i \in Ids |->
                     [msgs |-> handed[i].msgs + n(i),
                      over |-> \/ handed[i].over
                               \/ \E e \in batch : e.id = i /\ e.kind \in Terminal]]
    BY <1>6 DEF Poll
  <2>4. ASSUME NEW i PROVE n(i) \in Nat
    <3>1. Msgs(batch, i) \subseteq ready
      BY DEF Msgs, Batch
    <3> QED
      BY <3>1, FS_Subset, FS_CardinalityType DEF IInv
  <2> HIDE DEF n, batch
  <2>5. handed' \in [Ids -> [msgs : Nat, over : BOOLEAN]]
    BY <2>3, <2>4 DEF IInv, TypeOK
  <2>6. ASSUME NEW i \in streams PROVE Touches(st[i], Drained(st[i], n(i)))
    <3>1. i \in Ids /\ StreamInv(st[i]) /\ Armed(st[i])
      BY <2>1, <2>6 DEF IInv, TypeOK, LiveInv
    <3> QED
      BY <3>1, <2>1, <2>4, DrainLemma
  <2>7. /\ st' \in [Ids -> Stream]
        /\ \A j \in Ids : st'[j] = st[j] \/ (j \in streams /\ Touches(st[j], st'[j]))
    BY <2>2, <2>6 DEF IInv, TypeOK, Touches, StreamInv
  <2> QED
    BY <2>1, <2>5, <2>7, TouchLemma DEF IInv, TypeOK
<1>7. CASE CloseBegin
  <2>1. net' \in [Ids -> Net]
    BY <1>7, CancelLemma DEF CloseBegin
  <2> QED
    BY <1>7, <2>1 DEF CloseBegin, IInv, TypeOK, NoDanglingTag, LiveInv, Shutting
<1>8. CASE CloseQueue
  BY <1>8 DEF CloseQueue, IInv, TypeOK, NoDanglingTag, LiveInv, Shutting
<1>9. CASE CloseJoin
  BY <1>9, FS_EmptySet DEF CloseJoin, IInv, TypeOK, NoDanglingTag, LiveInv, Shutting
<1>10. ASSUME NEW i \in Ids, CompleteUnary(i) PROVE IInv'
  <2>1. /\ arrived' \in Nat /\ IsFiniteSet(ready')
        /\ ready' \subseteq [kind : EventKinds, id : Ids, val : Nat, stamp : 1..arrived']
    BY <1>10, EmitLemma DEF CompleteUnary, Status, EventKinds
  <2> QED
    BY <1>10, <2>1 DEF CompleteUnary, IInv, TypeOK, NoDanglingTag, LiveInv, Shutting
<1>11. ASSUME NEW i \in Ids, NEW ok \in BOOLEAN, CompleteStart(i, ok) PROVE IInv'
  <2> DEFINE t == AfterStart(Retire(st[i], "start"), ok)
  <2>1. "start" \in st[i].ops /\ StreamCase(i, t) /\ Quiet /\ UNCHANGED net
    BY <1>11 DEF CompleteStart
  <2>2. StreamInv(st[i]) /\ (~Shutting => Armed(st[i]))
    BY <2>1, TaggedLemma
  <2>3. Advances(st[i], t)
    BY <2>1, <2>2, StartLemma
  <2> HIDE DEF t
  <2> QED
    BY <2>1, <2>3, QuietLemma, AdvanceLemma DEF IInv, TypeOK
<1>12. ASSUME NEW i \in Ids, NEW ok \in BOOLEAN, CompleteRead(i, ok) PROVE IInv'
  <2> DEFINE t == AfterRead(Retire(st[i], "read"), ok)
  <2>1. "read" \in st[i].ops /\ StreamCase(i, t)
    BY <1>12 DEF CompleteRead
  <2>2. StreamInv(st[i]) /\ (~Shutting => Armed(st[i]))
    BY <2>1, TaggedLemma
  <2>3. Advances(st[i], t)
    BY <2>1, <2>2, ReadLemma
  <2>4. net[i] \in Net /\ net[i].taken + 1 \in Nat
    BY DEF IInv, TypeOK, Net
  <2>5. net' \in [Ids -> Net]
    <3>1. CASE ok
      <4>1. net' = [net EXCEPT ![i] = [net[i] EXCEPT !.taken = net[i].taken + 1]]
        BY <1>12, <3>1 DEF CompleteRead
      <4>2. net[i].taken + 1 \in 0..MaxMsgs
        BY <1>12, <3>1, <2>4, ClientAssumption DEF CompleteRead, Net, ClientAssumption
      <4>3. [net[i] EXCEPT !.taken = net[i].taken + 1] \in Net
        BY <2>4, <4>2 DEF Net
      <4> QED
        BY <4>1, <4>3 DEF IInv, TypeOK
    <3>2. CASE ~ok
      BY <1>12, <3>2 DEF CompleteRead, IInv, TypeOK
    <3> QED
      BY <3>1, <3>2
  <2>6. Emit("stream_msg", i, net[i].taken + 1) \/ Quiet
    BY <1>12 DEF CompleteRead
  <2>7. "stream_msg" \in EventKinds
    BY DEF EventKinds
  <2> HIDE DEF t
  <2> QED
    BY <2>1, <2>3, <2>4, <2>5, <2>6, <2>7, EmitLemma, QuietLemma, AdvanceLemma
<1>13. ASSUME NEW i \in Ids, NEW ok \in BOOLEAN, CompleteWrite(i, ok) PROVE IInv'
  <2> DEFINE t == AfterWrite(Retire(st[i], "write"), ok)
  <2>1. "write" \in st[i].ops /\ StreamCase(i, t)
    BY <1>13 DEF CompleteWrite
  <2>2. StreamInv(st[i]) /\ (~Shutting => Armed(st[i]))
    BY <2>1, TaggedLemma
  <2>3. Advances(st[i], t)
    BY <2>1, <2>2, WriteLemma
  <2>4. net' \in [Ids -> Net]
    <3> DEFINE w == Head(st[i].write_queue)
    <3>1. CASE ok
      <4>1. st[i].write_queue \in Seq(1..MaxSends) /\ st[i].write_queue # <<>>
        BY <2>1, <2>2 DEF StreamInv, FlagsTellTags, LifeOrder, Stream
      <4>2. w \in 1..MaxSends
        BY <4>1, HeadTailProperties
      <4>3. net' = [net EXCEPT ![i] = [net[i] EXCEPT !.written = w]]
        BY <1>13, <3>1 DEF CompleteWrite
      <4> HIDE DEF w
      <4>4. w \in 0..MaxSends
        BY <4>2, ClientAssumption DEF ClientAssumption
      <4>5. [net[i] EXCEPT !.written = w] \in Net
        BY <4>4 DEF IInv, TypeOK, Net
      <4> QED
        BY <4>3, <4>5 DEF IInv, TypeOK
    <3>2. CASE ~ok
      BY <1>13, <3>2 DEF CompleteWrite, IInv, TypeOK
    <3> QED
      BY <3>1, <3>2
  <2>5. Emit("stream_writable", i, 0) \/ Quiet
    BY <1>13 DEF CompleteWrite
  <2>6. "stream_writable" \in EventKinds /\ 0 \in Nat
    BY DEF EventKinds
  <2> HIDE DEF t
  <2> QED
    BY <2>1, <2>3, <2>4, <2>5, <2>6, EmitLemma, QuietLemma, AdvanceLemma
<1>14. ASSUME NEW i \in Ids, NEW ok \in BOOLEAN, CompleteWdone(i, ok) PROVE IInv'
  <2> DEFINE t == AfterWdone(Retire(st[i], "wdone"), ok)
  <2>1. "wdone" \in st[i].ops /\ StreamCase(i, t) /\ Quiet /\ UNCHANGED net
    BY <1>14 DEF CompleteWdone
  <2>2. StreamInv(st[i]) /\ (~Shutting => Armed(st[i]))
    BY <2>1, TaggedLemma
  <2>3. Advances(st[i], t)
    BY <2>1, <2>2, WdoneLemma
  <2> HIDE DEF t
  <2> QED
    BY <2>1, <2>3, QuietLemma, AdvanceLemma DEF IInv, TypeOK
<1>15. ASSUME NEW i \in Ids, CompleteFinish(i) PROVE IInv'
  <2> DEFINE r == Retire(st[i], "finish")
             t == [r EXCEPT !.status_emitted = TRUE]
  <2>1. "finish" \in st[i].ops /\ StreamCase(i, t) /\ Emit("stream_status", i, Status(i)) /\ UNCHANGED net
    BY <1>15 DEF CompleteFinish
  <2>2. /\ r \in Stream /\ r.pending = Cardinality(r.ops)
        /\ r.ops = st[i].ops \ {"finish"} /\ SameButTags(st[i], r)
    BY <2>1, RetireLemma DEF IInv, StreamInv, FlagsTellTags
  <2> HIDE DEF r
  <2>3. StreamInv(t) /\ t.ops = {} /\ t.status_emitted
    <3>1. StreamInv(st[i]) /\ st[i].finish_posted /\ r.ops = {}
      BY <2>1, <2>2 DEF IInv, StreamInv, FlagsTellTags, LifeOrder
    <3>2. t \in Stream /\ t.ops = {} /\ t.status_emitted = TRUE
      BY <2>2, <3>1 DEF Stream
    <3> QED
      BY <2>2, <3>1, <3>2 DEF StreamInv, FlagsTellTags, LifeOrder, SameButTags, Stream
  <2>4. t.pending = 0
    BY <2>3, FS_EmptySet DEF StreamInv, FlagsTellTags
  <2>5. /\ i \in streams /\ st' \in [Ids -> Stream] /\ \A j \in Ids : StreamInv(st'[j])
        /\ st'[i] = t /\ \A j \in Ids \ {i} : st'[j] = st[j]
    <3> HIDE DEF t
    <3> QED
      BY <2>1, <2>3, CaseLemma
  <2>6. streams' = streams \ {i} /\ UNCHANGED <<phase, next_id, calls, unary, handed>>
    BY <2>1, <2>3, <2>4 DEF StreamCase, LiveAfter
  <2>7. /\ arrived' \in Nat /\ IsFiniteSet(ready')
        /\ ready' \subseteq [kind : EventKinds, id : Ids, val : Nat, stamp : 1..arrived']
    BY <2>1, EmitLemma DEF Status, EventKinds
  <2> HIDE DEF t
  <2>8. TypeOK'
    BY <2>1, <2>5, <2>6, <2>7 DEF IInv, TypeOK
  <2>9. NoDanglingTag' /\ LiveInv'
    BY <2>3, <2>5, <2>6 DEF IInv, TypeOK, NoDanglingTag, LiveInv, Shutting
  <2>10. (\A j \in Ids : StreamInv(st[j]))'
    BY <2>5
  <2> QED
    BY <2>7, <2>8, <2>9, <2>10 DEF IInv
<1>16. CASE UNCHANGED vars
  BY <1>16 DEF vars, IInv, TypeOK, NoDanglingTag, LiveInv, Shutting
<1> QED
  BY <1>1, <1>2, <1>3, <1>4, <1>5, <1>6, <1>7, <1>8, <1>9, <1>10, <1>11, <1>12, <1>13, <1>14,
     <1>15, <1>16
  DEF Next, Complete, CloseAgain

LEMMA Invariance == Spec => []IInv
<1>1. Init => IInv
  BY InitLemma
<1>2. IInv /\ [Next]_vars => IInv'
  BY NextLemma
<1> QED
  BY <1>1, <1>2, PTL DEF Spec

-----------------------------------------------------------------------------
\* Type correctness of the client for every bound.
THEOREM TypeTheorem == Spec => []TypeOK
<1>1. IInv => TypeOK
  BY DEF IInv
<1> QED
  BY <1>1, Invariance, PTL

\* pending, the counter client.cpp frees a stream by, counts its outstanding
\* tags, so nothing is posted twice in one direction and nothing forgotten.
THEOREM TagsCountedTheorem == Spec => []TagsCounted
<1>1. IInv => TagsCounted
  BY DEF IInv, TagsCounted, StreamInv, FlagsTellTags
<1> QED
  BY <1>1, Invariance, PTL

\* The completion thread never dereferences a freed stream_state or
\* call_state: every tag it can be handed belongs to a live object.
THEOREM NoDanglingTagTheorem == Spec => []NoDanglingTag
<1>1. IInv => NoDanglingTag
  BY DEF IInv
<1> QED
  BY <1>1, Invariance, PTL

\* The rule of client.cpp:16, that Finish runs concurrently with nothing.
THEOREM FinishAloneTheorem == Spec => []FinishAlone
<1>1. IInv => FinishAlone
  BY DEF IInv, FinishAlone, StreamInv, FlagsTellTags, LifeOrder
<1> QED
  BY <1>1, Invariance, PTL

\* While the client is open a live stream has an operation in flight, or R
\* has a full read buffer to drain: no stream waits for nobody.
THEOREM NeverStrandedTheorem == Spec => []NeverStranded
<1>1. IInv => NeverStranded
  <2> SUFFICES ASSUME IInv, phase = "open", NEW i \in streams, st[i].ops = {}
               PROVE  st[i].unread >= st[i].read_cap
    BY DEF NeverStranded
  <2>1. i \in Ids /\ StreamInv(st[i]) /\ Armed(st[i]) /\ ~st[i].status_emitted /\ st[i].started
    BY DEF IInv, TypeOK, LiveInv, Shutting
  <2>2. /\ ~st[i].read_inflight /\ ~st[i].write_inflight /\ ~st[i].wdone_inflight
        /\ ~st[i].finish_posted
    BY <2>1 DEF StreamInv, FlagsTellTags
  <2>3. ~st[i].broken /\ ~st[i].reads_closed
    BY <2>1, <2>2 DEF StreamInv, LifeOrder, Armed, FinishArmed
  <2>4. ~(st[i].unread < st[i].read_cap)
    BY <2>1, <2>2, <2>3 DEF Armed, ReadArmed
  <2>5. st[i].unread \in Int /\ st[i].read_cap \in Nat
    BY <2>1, ClientAssumption DEF StreamInv, Stream, ClientAssumption
  <2> QED
    BY <2>4, <2>5
<1> QED
  BY <1>1, Invariance, PTL

\* Queued writes and the half-close keep moving on a stream that takes them.
THEOREM WritesMoveTheorem == Spec => []WritesMove
<1>1. IInv => WritesMove
  <2> SUFFICES ASSUME IInv, phase = "open", NEW i \in streams,
                      st[i].started, ~st[i].broken, ~st[i].finish_posted
               PROVE  /\ st[i].write_queue # <<>> => "write" \in st[i].ops
                      /\ st[i].wdone_requested /\ ~st[i].wdone_sent =>
                            st[i].ops \cap {"write", "wdone"} # {}
    BY DEF WritesMove
  <2>1. i \in Ids /\ StreamInv(st[i]) /\ Armed(st[i])
    BY DEF IInv, TypeOK, LiveInv, Shutting
  <2> QED
    BY <2>1 DEF StreamInv, FlagsTellTags, Armed, WriteArmed
<1> QED
  BY <1>1, Invariance, PTL

\* The handler of one completion, on a client that is shutting, only retires
\* the tag it was given.
LEMMA RetiresLemma ==
    ASSUME IInv, Shutting, NEW i \in Ids, Complete(i), NEW j \in Ids
    PROVE  st'[j].ops \subseteq st[j].ops
<1> DEFINE Case(t) == StreamCase(i, t) /\ t.ops \subseteq st[i].ops
<1>1. ASSUME NEW t, Case(t) PROVE st'[j].ops \subseteq st[j].ops
  BY <1>1 DEF StreamCase, IInv, TypeOK
<1>2. CASE CompleteUnary(i)
  BY <1>2 DEF CompleteUnary
<1>3. ASSUME NEW ok \in BOOLEAN, CompleteStart(i, ok)
      PROVE  Case(AfterStart(Retire(st[i], "start"), ok))
  BY <1>3, TaggedLemma, StartLemma DEF CompleteStart, Advances, Carries
<1>4. ASSUME NEW ok \in BOOLEAN, CompleteRead(i, ok)
      PROVE  Case(AfterRead(Retire(st[i], "read"), ok))
  BY <1>4, TaggedLemma, ReadLemma DEF CompleteRead, Advances, Carries
<1>5. ASSUME NEW ok \in BOOLEAN, CompleteWrite(i, ok)
      PROVE  Case(AfterWrite(Retire(st[i], "write"), ok))
  BY <1>5, TaggedLemma, WriteLemma DEF CompleteWrite, Advances, Carries
<1>6. ASSUME NEW ok \in BOOLEAN, CompleteWdone(i, ok)
      PROVE  Case(AfterWdone(Retire(st[i], "wdone"), ok))
  BY <1>6, TaggedLemma, WdoneLemma DEF CompleteWdone, Advances, Carries
<1>7. ASSUME CompleteFinish(i)
      PROVE  Case([Retire(st[i], "finish") EXCEPT !.status_emitted = TRUE])
  <2>1. Retire(st[i], "finish") \in Stream /\ Retire(st[i], "finish").ops = st[i].ops \ {"finish"}
    BY <1>7, RetireLemma DEF CompleteFinish, IInv, StreamInv, FlagsTellTags
  <2> QED
    BY <1>7, <2>1 DEF CompleteFinish, Stream
<1> HIDE DEF Case
<1> QED
  BY <1>1, <1>2, <1>3, <1>4, <1>5, <1>6, <1>7 DEF Complete

\* Once cq.Shutdown() has run nothing is started on the completion queue: what
\* the shutting test in each helper is for.
THEOREM NoPostAfterShutdownTheorem == Spec => NoPostAfterShutdown
<1>1. IInv /\ [Next]_vars => [phase = "cqdown" => \A i \in Ids : st'[i].ops \subseteq st[i].ops]_vars
  <2> SUFFICES ASSUME IInv, Next, phase = "cqdown", NEW j \in Ids
               PROVE  st'[j].ops \subseteq st[j].ops
    OBVIOUS
  <2>1. CASE \E i \in Ids : Complete(i)
    BY <2>1, RetiresLemma DEF Shutting
  <2>2. CASE CloseJoin \/ CloseAgain \/ \E i \in Ids : PeerSend(i) \/ WireOver(i, "ended") \/ WireOver(i, "dead")
    BY <2>2 DEF CloseJoin, CloseAgain, PeerSend, WireOver, vars
  <2> QED
    BY <2>1, <2>2
    DEF Next, CallStart, StreamStart, CallCancel, StreamSend, StreamWritesDone, Poll, CloseBegin, CloseQueue
<1> QED
  BY <1>1, Invariance, PTL DEF Spec, NoPostAfterShutdown
=============================================================================
