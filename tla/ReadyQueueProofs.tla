-------------------------- MODULE ReadyQueueProofs --------------------------
(***************************************************************************)
(* Facts about the deque and the batch a poll takes from it, for every     *)
(* content, filter and batch size.  The proofs of the queue, the client    *)
(* and the server rest on them.                                            *)
(***************************************************************************)
EXTENDS ReadyQueue, FiniteSetTheorems, TLAPS

\* The batch never overtakes: what it leaves behind of a call is newer than
\* everything it takes of that call.
LEMMA BatchIsPrefix ==
    ASSUME NEW q, IsFiniteSet(q), NEW want, NEW maxn \in Nat,
           \A e \in q : e.stamp \in Nat,
           NEW e \in Batch(q, want, maxn), NEW f \in q \ Batch(q, want, maxn),
           e.id = f.id
    PROVE  e.stamp < f.stamp
<1>1. SUFFICES ASSUME f.stamp <= e.stamp PROVE FALSE
  BY DEF Batch
<1>2. Matches(e, want) /\ Matches(f, want)
  BY DEF Batch, Matches
<1>3. UpTo(q, want, f) \in SUBSET UpTo(q, want, e)
  BY <1>1 DEF UpTo, Batch
<1>4. IsFiniteSet(UpTo(q, want, e))
  BY FS_Subset DEF UpTo
<1>5. IsFiniteSet(UpTo(q, want, f)) /\ Cardinality(UpTo(q, want, f)) <= Cardinality(UpTo(q, want, e))
  BY <1>3, <1>4, FS_Subset
<1>6. Cardinality(UpTo(q, want, e)) \in Nat /\ Cardinality(UpTo(q, want, f)) \in Nat
  BY <1>4, <1>5, FS_CardinalityType
<1>7. Cardinality(UpTo(q, want, e)) <= maxn
  BY DEF Batch
<1>8. f \in Batch(q, want, maxn)
  BY <1>2, <1>5, <1>6, <1>7 DEF Batch
<1> QED
  BY <1>8

\* A batch for which something is queued is not empty.  Counting the matching
\* events up to each numbers the matches from 1, so the oldest is in it.
LEMMA BatchTakes ==
    ASSUME NEW q, IsFiniteSet(q), NEW want, NEW maxn \in Nat \ {0},
           \A e \in q : e.stamp \in Nat,
           \A e, f \in q : e.stamp = f.stamp => e = f,
           HaveMatch(q, want)
    PROVE  HaveMatch(Batch(q, want, maxn), want)
<1> DEFINE M == {e \in q : Matches(e, want)}
           c == Cardinality(M)
           count == [e \in M |-> Cardinality(UpTo(q, want, e))]
<1>1. IsFiniteSet(M) /\ c \in Nat
  BY FS_Subset, FS_CardinalityType
<1>2. PICK old \in M : TRUE
  BY DEF HaveMatch
<1>3. ASSUME NEW e \in M
      PROVE  /\ UpTo(q, want, e) \in SUBSET M /\ IsFiniteSet(UpTo(q, want, e))
             /\ e \in UpTo(q, want, e)
             /\ Cardinality(UpTo(q, want, e)) \in 1..c
  <2>1. UpTo(q, want, e) \in SUBSET M /\ e \in UpTo(q, want, e)
    BY DEF UpTo
  <2>2. IsFiniteSet(UpTo(q, want, e)) /\ Cardinality(UpTo(q, want, e)) <= c
    BY <1>1, <2>1, FS_Subset
  <2>3. Cardinality(UpTo(q, want, e)) \in Nat /\ Cardinality(UpTo(q, want, e)) # 0
    BY <2>1, <2>2, FS_CardinalityType, FS_EmptySet
  <2> QED
    BY <1>1, <2>1, <2>2, <2>3
<1>4. ASSUME NEW e \in M, NEW f \in M,
             Cardinality(UpTo(q, want, e)) = Cardinality(UpTo(q, want, f)), e.stamp <= f.stamp
      PROVE  e = f
  <2>1. UpTo(q, want, e) \in SUBSET UpTo(q, want, f)
    BY <1>4 DEF UpTo
  <2>2. UpTo(q, want, f) = UpTo(q, want, e)
    BY <1>3, <1>4, <2>1, FS_Subset
  <2>3. f \in UpTo(q, want, e)
    BY <1>3, <2>2
  <2> QED
    BY <1>4, <2>3 DEF UpTo
<1>5. count \in Injection(M, 1..c)
  <2>1. count \in [M -> 1..c]
    BY <1>3
  <2>2. \A e, f \in M : count[e] = count[f] => e = f
    BY <1>4
  <2> QED
    BY <2>1, <2>2 DEF Injection, IsInjective
<1>6. IsFiniteSet(1..c) /\ Cardinality(1..c) = c
  BY <1>1, FS_Interval
<1>7. count \in Surjection(M, 1..c)
  BY <1>5, <1>6, FS_Injection
<1>8. 1 \in 1..c
  BY <1>1, <1>2, <1>3
<1>9. PICK e \in M : count[e] = 1
  BY <1>7, <1>8 DEF Surjection
<1> QED
  BY <1>9 DEF Batch, HaveMatch

-----------------------------------------------------------------------------
(* Numbered messages.                                                      *)

\* The messages of q carry the numbers after n, one each, in deque order.
Numbered(q, n) ==
    /\ {e.val : e \in q} = (n + 1)..(n + Cardinality(q))
    /\ \A e, f \in q : e.val < f.val => e.stamp < f.stamp

\* As many numbers as messages, so no number comes twice.
LEMMA NumberedOnce ==
    ASSUME NEW q, IsFiniteSet(q), NEW n \in Nat, Numbered(q, n),
           NEW e \in q, NEW f \in q, e.val = f.val
    PROVE  e = f
<1> DEFINE V == {g.val : g \in q}
           num == [g \in q |-> g.val]
<1>1. Cardinality(q) \in Nat
  BY FS_CardinalityType
<1>2. V = (n + 1)..(n + Cardinality(q))
  BY DEF Numbered
<1>3. Cardinality(V) = Cardinality(q)
  <2>1. /\ n + 1 \in Int /\ n + Cardinality(q) \in Int
        /\ (IF n + 1 > n + Cardinality(q) THEN 0 ELSE (n + Cardinality(q)) - (n + 1) + 1) = Cardinality(q)
    BY <1>1
  <2>2. Cardinality((n + 1)..(n + Cardinality(q))) = Cardinality(q)
    BY <2>1, FS_Interval
  <2> QED
    BY <1>2, <2>2
<1>4. num \in Surjection(q, V)
  BY DEF Surjection
<1>5. num \in Injection(q, V)
  BY <1>3, <1>4, FS_Surjection
<1> QED
  BY <1>5 DEF Injection, IsInjective

\* The numbers of some messages of q are as many as the messages.
LEMMA NumbersCounted ==
    ASSUME NEW q, IsFiniteSet(q), NEW n \in Nat, Numbered(q, n), NEW P \in SUBSET q
    PROVE  LET V == {e.val : e \in P}
           IN  IsFiniteSet(V) /\ IsFiniteSet(P) /\ Cardinality(V) = Cardinality(P)
<1> DEFINE V == {e.val : e \in P}
           num == [e \in P |-> e.val]
<1>1. IsFiniteSet(P)
  BY FS_Subset
<1>2. num \in Bijection(P, V)
  BY NumberedOnce DEF Bijection, Injection, Surjection, IsInjective
<1>3. ExistsBijection(P, V)
  BY <1>2 DEF ExistsBijection
<1> QED
  BY <1>1, <1>3, FS_Bijection

\* The next message at the end of the deque.
LEMMA NumberedAppend ==
    ASSUME NEW q, IsFiniteSet(q), NEW n \in Nat, Numbered(q, n), NEW e,
           e.val = n + Cardinality(q) + 1, e.stamp \in Int,
           \A f \in q : f.stamp \in Int /\ f.stamp < e.stamp
    PROVE  Numbered(q \cup {e}, n) /\ Cardinality(q \cup {e}) = Cardinality(q) + 1
<1> DEFINE c == Cardinality(q)
<1>1. c \in Nat
  BY FS_CardinalityType
<1>2. e \notin q
  OBVIOUS
<1>3. Cardinality(q \cup {e}) = c + 1
  BY <1>2, FS_AddElement
<1>4. {f.val : f \in q} = (n + 1)..(n + c)
  BY DEF Numbered
<1>5. {f.val : f \in q \cup {e}} = {f.val : f \in q} \cup {n + c + 1}
  OBVIOUS
<1> HIDE DEF c
<1>6. {f.val : f \in q \cup {e}} = (n + 1)..(n + (c + 1))
  BY <1>1, <1>4, <1>5
<1>7. ASSUME NEW f \in q PROVE f.val \in Int /\ f.val <= n + c
  <2>1. f.val \in (n + 1)..(n + c)
    BY <1>4
  <2> QED
    BY <2>1, <1>1
<1>8. \A f, g \in q \cup {e} : f.val < g.val => f.stamp < g.stamp
  <2> SUFFICES ASSUME NEW f \in q \cup {e}, NEW g \in q \cup {e}, f.val < g.val
               PROVE  f.stamp < g.stamp
    OBVIOUS
  <2>1. CASE f \in q /\ g \in q
    BY <2>1 DEF Numbered
  <2>2. CASE f \in q /\ g = e
    BY <2>2
  <2>3. CASE f = e
    <3>1. e.val = n + c + 1
      BY DEF c
    <3>2. CASE g = e
      BY <2>3, <3>1, <3>2, <1>1
    <3>3. CASE g \in q
      BY <2>3, <3>1, <3>3, <1>1, <1>7
    <3> QED
      BY <3>2, <3>3
  <2> QED
    BY <2>1, <2>2, <2>3
<1> QED
  BY <1>3, <1>6, <1>8 DEF Numbered, c

\* A prefix taken off the front: the numbers go on from there.
LEMMA NumberedTake ==
    ASSUME NEW q, IsFiniteSet(q), NEW n \in Nat, Numbered(q, n),
           \A e \in q : e.stamp \in Int,
           NEW P \in SUBSET q, \A e \in P, f \in q \ P : e.stamp < f.stamp
    PROVE  /\ Cardinality(P) \in Nat
           /\ Cardinality(q \ P) = Cardinality(q) - Cardinality(P)
           /\ Numbered(q \ P, n + Cardinality(P))
<1> DEFINE c == Cardinality(q)
           k == Cardinality(P)
           V == {e.val : e \in P}
           W == {e.val : e \in q \ P}
<1>1. IsFiniteSet(P) /\ IsFiniteSet(V) /\ Cardinality(V) = k
  BY NumbersCounted
<1>2. c \in Nat /\ k \in Nat
  BY <1>1, FS_CardinalityType
<1>3. Cardinality(q \ P) = c - k
  <2>1. q \cap P = P
    OBVIOUS
  <2> QED
    BY <2>1, FS_Difference
<1>4. {e.val : e \in q} = (n + 1)..(n + c)
  BY DEF Numbered
<1>5. V \cup W = (n + 1)..(n + c)
  BY <1>4
<1>6. ASSUME NEW e \in P, NEW f \in q \ P PROVE e.val \in Int /\ f.val \in Int /\ e.val < f.val
  <2>1. e.val \in (n + 1)..(n + c) /\ f.val \in (n + 1)..(n + c)
    BY <1>4
  <2>2. e.val \in Int /\ f.val \in Int
    BY <2>1, <1>2
  <2>3. e.val # f.val
    BY NumberedOnce
  <2>4. ~(f.val < e.val)
    BY DEF Numbered
  <2> QED
    BY <2>2, <2>3, <2>4
<1>7. V \cap W = {}
  BY <1>6
<1> HIDE DEF c, k
<1>8. ASSUME NEW x \in V PROVE x \in (n + 1)..(n + k)
  <2>1. PICK e \in P : x = e.val
    OBVIOUS
  <2>2. x \in (n + 1)..(n + c) /\ x \in Int
    BY <1>2, <1>5
  <2>3. (n + 1)..x \subseteq V
    <3> SUFFICES ASSUME NEW y \in (n + 1)..x PROVE y \in V
      OBVIOUS
    <3>1. y \in (n + 1)..(n + c)
      BY <1>2, <2>2
    <3>2. y \notin W
      <4> SUFFICES ASSUME NEW f \in q \ P, y = f.val PROVE FALSE
        OBVIOUS
      <4> QED
        BY <1>6, <2>1, <2>2
    <3> QED
      BY <1>5, <3>1, <3>2
  <2>4. Cardinality((n + 1)..x) <= k
    BY <1>1, <2>3, FS_Subset
  <2>5. Cardinality((n + 1)..x) = x - (n + 1) + 1
    BY <2>2, FS_Interval
  <2> QED
    BY <1>2, <2>2, <2>4, <2>5
<1> HIDE DEF V, W
<1>9. V = (n + 1)..(n + k)
  <2>1. IsFiniteSet((n + 1)..(n + k)) /\ Cardinality((n + 1)..(n + k)) = k
    <3>1. n + 1 \in Int /\ n + k \in Int
          /\ (IF n + 1 > n + k THEN 0 ELSE (n + k) - (n + 1) + 1) = k
      BY <1>2
    <3> QED
      BY <3>1, FS_Interval
  <2> QED
    BY <1>1, <1>8, <2>1, FS_Subset
<1>10. k <= c
  BY FS_Subset DEF k, c
<1>11. W = (n + k + 1)..(n + k + (c - k))
  <2>1. W = ((n + 1)..(n + c)) \ ((n + 1)..(n + k))
    BY <1>5, <1>7, <1>9
  <2> QED
    BY <1>2, <1>10, <2>1
<1> QED
  BY <1>2, <1>3, <1>11 DEF Numbered, c, k, W
=============================================================================
