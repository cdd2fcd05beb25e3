---------------------------- MODULE LibraryProofs ----------------------------
(***************************************************************************)
(* For every set of native objects and every number of loads: gRPC's count *)
(* is what the package and its objects hold, so nobody finds it down.      *)
(***************************************************************************)
EXTENDS Library, FiniteSetTheorems, TLAPS

Parts == {"grpc", "wake", "port", "thread"}
Objects == [kind : Kinds, held : SUBSET Parts, live : BOOLEAN]

\* The first n things a constructor of this kind takes.
FirstTaken(kind, n) == {Takes(kind)[k] : k \in 1..n}

\* An object being made holds a prefix of what it takes; R's pointer is to an
\* object that holds something, and without one nothing is held.
Prefix(x, n) == x.held = FirstTaken(x.kind, n)
ObjInv(o) ==
    /\ o \in making => ~obj[o].live
                       /\ \E n \in 0..(Len(Takes(obj[o].kind)) - 1) : Prefix(obj[o], n)
    /\ o \notin making => (obj[o].live <=> obj[o].held # {})

Types ==
    /\ making \subseteq Objs /\ \A o, p \in making : o = p
    /\ obj \in [Objs -> Objects]
    /\ refs \in Int /\ starts \in 0..2
    /\ dll \in BOOLEAN /\ ns \in BOOLEAN /\ library_up \in BOOLEAN

\* gRPC's count is the package's reference and one of every object that uses it.
Counted ==
    /\ library_up => refs = Cardinality(Users) + 1 /\ starts = 1
    /\ ~library_up => refs = Cardinality(Users)

\* Without the DLL there is nothing of the package.
Mapped ==
    /\ ns \/ making # {} => dll
    /\ ~dll => ~library_up /\ starts = 0 /\ Users = {}

\* The inductive invariant.
IInv == Types /\ Counted /\ Mapped /\ \A o \in Objs : ObjInv(o)

-----------------------------------------------------------------------------
(* What a constructor takes.                                               *)

\* No constructor takes the same thing twice.
LEMMA TakesOnce ==
    ASSUME NEW kind \in Kinds
    PROVE  /\ Len(Takes(kind)) \in 1..4
           /\ \A k \in 1..Len(Takes(kind)) : Takes(kind)[k] \in Parts
           /\ \A k, m \in 1..Len(Takes(kind)) : Takes(kind)[k] = Takes(kind)[m] => k = m
<1>1. CASE kind \in {"channel", "cq"}
  <2>1. Takes(kind) = <<"grpc">>
    BY <1>1 DEF Takes
  <2> QED
    BY <2>1 DEF Parts
<1>2. CASE kind = "spike"
  <2>1. Takes(kind) = <<"grpc", "port">>
    BY <1>2 DEF Takes
  <2> QED
    BY <2>1 DEF Parts
<1>3. CASE kind = "client"
  <2>1. Takes(kind) = <<"grpc", "wake", "thread">>
    BY <1>3 DEF Takes
  <2> QED
    BY <2>1 DEF Parts
<1>4. CASE kind = "server"
  <2>1. Takes(kind) = <<"wake", "grpc", "port", "thread">>
    BY <1>4 DEF Takes
  <2> QED
    BY <2>1 DEF Parts
<1> QED
  BY <1>1, <1>2, <1>3, <1>4 DEF Kinds

\* What is held tells how far the constructor has got, and what it wants next
\* it does not hold yet.
LEMMA TakenLemma ==
    ASSUME NEW kind \in Kinds, NEW n \in 0..(Len(Takes(kind)) - 1), NEW h,
           h = FirstTaken(kind, n)
    PROVE  /\ Cardinality(h) = n
           /\ Takes(kind)[n + 1] \in Parts \ h
           /\ h \cup {Takes(kind)[n + 1]} = FirstTaken(kind, n + 1)
           /\ Cardinality(h \cup {Takes(kind)[n + 1]}) = n + 1
<1> DEFINE T == Takes(kind)
<1>0. n \in Nat /\ n + 1 \in 1..Len(T) /\ 1..n \subseteq 1..Len(T)
  BY TakesOnce
<1>1. IsFiniteSet(1..n) /\ Cardinality(1..n) = n
  BY <1>0, FS_Interval
<1>2. [k \in 1..n |-> T[k]] \in Bijection(1..n, h)
  BY <1>0, TakesOnce DEF FirstTaken, Bijection, Injection, Surjection, IsInjective
<1>3. IsFiniteSet(h) /\ Cardinality(h) = n
  BY <1>1, <1>2, FS_Bijection DEF ExistsBijection
<1>4. T[n + 1] \in Parts
  BY <1>0, TakesOnce
<1>5. T[n + 1] \notin h
  <2> SUFFICES ASSUME NEW k \in 1..n, T[n + 1] = T[k] PROVE FALSE
    BY DEF FirstTaken
  <2> QED
    BY <1>0, TakesOnce
<1>6. h \cup {T[n + 1]} = FirstTaken(kind, n + 1)
  <2>1. 1..(n + 1) = 1..n \cup {n + 1}
    BY <1>0
  <2> QED
    BY <2>1 DEF FirstTaken
<1>7. Cardinality(h \cup {T[n + 1]}) = n + 1
  BY <1>3, <1>5, FS_AddElement
<1> QED
  BY <1>3, <1>4, <1>5, <1>6, <1>7

-----------------------------------------------------------------------------
(* The steps.                                                              *)

LEMMA UsersFinite == IsFiniteSet(Users) /\ Cardinality(Users) \in Nat
BY LibraryAssumption, FS_Subset, FS_CardinalityType DEF LibraryAssumption, Users

\* The objects that use gRPC when o becomes x.
LEMMA UsersStep ==
    ASSUME obj \in [Objs -> Objects], NEW o \in Objs, NEW x, obj' = [obj EXCEPT ![o] = x]
    PROVE  /\ "grpc" \in x.held => Users' = Users \cup {o}
           /\ "grpc" \notin x.held => Users' = Users \ {o}
BY DEF Users

\* Taking and returning a reference keeps the count right.
LEMMA CountUp ==
    ASSUME Counted, starts \in 0..2, refs \in Int, library_up \in BOOLEAN, NEW o, o \notin Users,
           Users' = Users \cup {o}, grpc_init, UNCHANGED library_up
    PROVE  Counted' /\ refs' \in Int /\ starts' \in 0..2
<1>1. Cardinality(Users) \in Nat /\ Cardinality(Users') = Cardinality(Users) + 1
  BY UsersFinite, FS_AddElement
<1> QED
  BY <1>1 DEF Counted, grpc_init

LEMMA CountDown ==
    ASSUME Counted, refs \in Int, library_up \in BOOLEAN, NEW o \in Users,
           Users' = Users \ {o}, refs' = refs - 1, UNCHANGED <<starts, library_up>>
    PROVE  Counted' /\ refs' \in Int
<1>1. Cardinality(Users) \in Nat /\ Cardinality(Users') = Cardinality(Users) - 1
  BY UsersFinite, FS_RemoveElement
<1> QED
  BY <1>1 DEF Counted

LEMMA ShutdownCount ==
    ASSUME Counted, refs \in Int, library_up \in BOOLEAN, LibraryShutdown, UNCHANGED obj
    PROVE  Counted' /\ refs' \in Int /\ library_up' = FALSE
<1>1. Users' = Users /\ Cardinality(Users) \in Nat
  BY UsersFinite DEF Users
<1> QED
  BY <1>1 DEF Counted, LibraryShutdown

\* A constructor at work: how far it is and what it wants.
LEMMA MakingLemma ==
    ASSUME IInv, NEW o \in making
    PROVE  \E n \in 0..(Len(Takes(obj[o].kind)) - 1) :
              /\ Prefix(obj[o], n) /\ Cardinality(obj[o].held) = n
              /\ Wants(o) = Takes(obj[o].kind)[n + 1]
              /\ Wants(o) \in Parts \ obj[o].held
              /\ Cardinality(obj[o].held \cup {Wants(o)}) = n + 1
              /\ obj[o].held \cup {Wants(o)} = FirstTaken(obj[o].kind, n + 1)
<1>1. o \in Objs /\ obj[o] \in Objects /\ obj[o].kind \in Kinds
  BY DEF IInv, Types, Objects
<1>2. PICK n \in 0..(Len(Takes(obj[o].kind)) - 1) : Prefix(obj[o], n)
  BY <1>1 DEF IInv, ObjInv
<1> DEFINE kind == obj[o].kind
           h == obj[o].held
<1>3. kind \in Kinds /\ n \in 0..(Len(Takes(kind)) - 1) /\ h = FirstTaken(kind, n)
  BY <1>1, <1>2 DEF Prefix
<1> HIDE DEF kind, h
<1>4. /\ Cardinality(h) = n
      /\ Takes(kind)[n + 1] \in Parts \ h
      /\ h \cup {Takes(kind)[n + 1]} = FirstTaken(kind, n + 1)
      /\ Cardinality(h \cup {Takes(kind)[n + 1]}) = n + 1
  BY <1>3, TakenLemma
<1> QED
  BY <1>2, <1>4 DEF Wants, kind, h

\* The constructor gets what it wants.
LEMMA TakeLemma ==
    ASSUME IInv, NEW o \in Objs, Take(o)
    PROVE  IInv'
<1> DEFINE h == obj[o].held \cup {Wants(o)}
           done == Cardinality(h) = Len(Takes(obj[o].kind))
           x == [obj[o] EXCEPT !.held = h, !.live = done]
<1>1. /\ o \in making /\ obj' = [obj EXCEPT ![o] = x]
      /\ making' = (IF done THEN {} ELSE making)
      /\ (IF Wants(o) = "grpc" THEN grpc_init ELSE UNCHANGED <<refs, starts>>)
      /\ UNCHANGED <<dll, ns, library_up>>
  BY DEF Take, pkg
<1>2. obj[o] \in Objects /\ obj[o].kind \in Kinds /\ obj \in [Objs -> Objects]
  BY DEF IInv, Types, Objects
<1>3. PICK n \in 0..(Len(Takes(obj[o].kind)) - 1) :
              /\ Wants(o) \in Parts \ obj[o].held
              /\ Cardinality(h) = n + 1 /\ h = FirstTaken(obj[o].kind, n + 1)
  BY <1>1, MakingLemma
<1>4. h \in SUBSET Parts /\ done \in BOOLEAN
  BY <1>2, <1>3 DEF Objects
<1>5. Len(Takes(obj[o].kind)) \in 1..4
  BY <1>2, TakesOnce
<1>6. ~done => n + 1 \in 0..(Len(Takes(obj[o].kind)) - 1)
  BY <1>3, <1>5
<1>7. h # {} /\ ("grpc" \in h) = ("grpc" \in obj[o].held \/ Wants(o) = "grpc")
  OBVIOUS
<1> HIDE DEF h, done
<1>8. x \in Objects /\ x.kind = obj[o].kind /\ x.held = h /\ x.live = done
  BY <1>2, <1>4 DEF Objects
<1> HIDE DEF x
<1>9. obj' \in [Objs -> Objects] /\ obj'[o] = x /\ \A p \in Objs \ {o} : obj'[p] = obj[p]
  BY <1>1, <1>2, <1>8
<1>10. dll /\ making = {o}
  BY <1>1 DEF IInv, Types, Mapped
<1>11. Counted' /\ refs' \in Int /\ starts' \in 0..2
  <2>1. CASE Wants(o) = "grpc"
    <3>1. o \notin Users /\ Users' = Users \cup {o}
      BY <1>1, <1>2, <1>3, <1>7, <1>8, <2>1, UsersStep DEF Users
    <3> QED
      BY <1>1, <2>1, <3>1, CountUp DEF IInv, Types
  <2>2. CASE Wants(o) # "grpc"
    <3>1. Users' = Users
      BY <1>1, <1>2, <1>7, <1>8, <2>2, UsersStep DEF Users
    <3> QED
      BY <1>1, <2>2, <3>1 DEF IInv, Types, Counted
  <2> QED
    BY <2>1, <2>2
<1>12. Types'
  BY <1>1, <1>9, <1>10, <1>11 DEF IInv, Types
<1>13. Mapped'
  BY <1>1, <1>10 DEF Mapped
<1>14. ASSUME NEW p \in Objs PROVE ObjInv(p)'
  <2>1. CASE p = o
    <3>1. CASE done
      BY <1>1, <1>7, <1>8, <1>9, <2>1, <3>1 DEF ObjInv
    <3>2. CASE ~done
      BY <1>1, <1>3, <1>6, <1>8, <1>9, <2>1, <3>2 DEF ObjInv, Prefix
    <3> QED
      BY <3>1, <3>2
  <2>2. CASE p # o
    BY <1>1, <1>9, <1>10, <2>2 DEF IInv, ObjInv
  <2> QED
    BY <2>1, <2>2
<1> QED
  BY <1>11, <1>12, <1>13, <1>14 DEF IInv

\* A constructor that can fail at this point has taken nothing but the wake
\* handle and gRPC, and these it gives back.
LEMMA BeforeFailure ==
    ASSUME NEW kind \in Kinds, NEW n \in 0..(Len(Takes(kind)) - 1),
           Takes(kind)[n + 1] \in {"wake", "port"}
    PROVE  FirstTaken(kind, n) \subseteq {"wake", "grpc"}
<1>1. CASE kind \in {"channel", "cq"}
  <2>1. Takes(kind) = <<"grpc">>
    BY <1>1 DEF Takes
  <2> QED
    BY <2>1 DEF FirstTaken
<1>2. CASE kind = "spike"
  <2>1. Takes(kind) = <<"grpc", "port">>
    BY <1>2 DEF Takes
  <2> QED
    BY <2>1 DEF FirstTaken
<1>3. CASE kind = "client"
  <2>1. Takes(kind) = <<"grpc", "wake", "thread">>
    BY <1>3 DEF Takes
  <2> QED
    BY <2>1 DEF FirstTaken
<1>4. CASE kind = "server"
  <2>1. Takes(kind) = <<"wake", "grpc", "port", "thread">>
    BY <1>4 DEF Takes
  <2> QED
    BY <2>1 DEF FirstTaken
<1> QED
  BY <1>1, <1>2, <1>3, <1>4 DEF Kinds

\* An object goes, with all it holds: by its finalizer, or in its constructor.
LEMMA DeletedLemma ==
    ASSUME IInv, NEW o \in Objs, NEW x \in Objects, x.held = {}, ~x.live,
           obj' = [obj EXCEPT ![o] = x], Deleted(o), making' = {}, making \subseteq {o},
           UNCHANGED <<dll, ns, library_up>>
    PROVE  IInv'
<1>1. obj \in [Objs -> Objects] /\ obj' \in [Objs -> Objects]
      /\ obj'[o] = x /\ \A p \in Objs \ {o} : obj'[p] = obj[p]
  BY DEF IInv, Types
<1>2. Users' = Users \ {o}
  BY <1>1, UsersStep
<1>3. Counted' /\ refs' \in Int
  <2>1. CASE o \in Users
    BY <1>2, <2>1, CountDown DEF IInv, Types, Deleted, Users
  <2>2. CASE o \notin Users
    BY <1>2, <2>2 DEF IInv, Types, Deleted, Users, Counted
  <2> QED
    BY <2>1, <2>2
<1>4. Types'
  BY <1>1, <1>3 DEF IInv, Types, Deleted
<1>5. Mapped'
  BY <1>2 DEF IInv, Mapped, Deleted
<1>6. \A p \in Objs : ObjInv(p)'
  BY <1>1 DEF IInv, ObjInv
<1> QED
  BY <1>3, <1>4, <1>5, <1>6 DEF IInv

LEMMA FailLemma ==
    ASSUME IInv, NEW o \in Objs, Fail(o)
    PROVE  IInv'
<1> DEFINE x == [obj[o] EXCEPT !.held = KeptByFailure(o)]
<1>1. o \in making /\ Wants(o) \in {"wake", "port"}
  BY DEF Fail
<1>2. obj[o] \in Objects /\ obj[o].kind \in Kinds /\ ~obj[o].live /\ making = {o}
  BY <1>1 DEF IInv, Types, Objects, ObjInv
<1>3. PICK n \in 0..(Len(Takes(obj[o].kind)) - 1) :
              Prefix(obj[o], n) /\ Wants(o) = Takes(obj[o].kind)[n + 1]
  BY <1>1, MakingLemma
<1>4. KeptByFailure(o) = {}
  <2>1. FirstTaken(obj[o].kind, n) \subseteq {"wake", "grpc"}
    BY <1>1, <1>2, <1>3, BeforeFailure
  <2> QED
    BY <1>3, <2>1 DEF Prefix, KeptByFailure
<1>5. x \in Objects /\ x.held = {} /\ ~x.live
  BY <1>2, <1>4 DEF Objects
<1>6. /\ obj' = [obj EXCEPT ![o] = x] /\ Deleted(o) /\ making' = {}
      /\ UNCHANGED <<dll, ns, library_up>>
  BY DEF Fail, pkg
<1> HIDE DEF x
<1> QED
  BY <1>2, <1>5, <1>6, DeletedLemma

LEMMA FinalizeLemma ==
    ASSUME IInv, NEW o \in Objs, Finalize(o)
    PROVE  IInv'
<1> DEFINE x == [obj[o] EXCEPT !.held = {}, !.live = FALSE]
<1>1. x \in Objects /\ x.held = {} /\ ~x.live
  BY DEF IInv, Types, Objects
<1>2. /\ obj' = [obj EXCEPT ![o] = x] /\ Deleted(o) /\ making = {} /\ making' = {}
      /\ UNCHANGED <<dll, ns, library_up>>
  BY DEF Finalize, pkg
<1> HIDE DEF x
<1> QED
  BY <1>1, <1>2, DeletedLemma

LEMMA NewLemma ==
    ASSUME IInv, NEW o \in Objs, NEW kind \in Kinds, New(o, kind)
    PROVE  IInv'
<1> DEFINE x == [obj[o] EXCEPT !.kind = kind]
<1>1. /\ making = {} /\ making' = {o} /\ ns /\ obj[o].held = {}
      /\ obj' = [obj EXCEPT ![o] = x]
      /\ UNCHANGED <<dll, ns, library_up, refs, starts>>
  BY DEF New, Idle, pkg
<1>2. obj[o] \in Objects /\ obj \in [Objs -> Objects]
  BY DEF IInv, Types
<1>3. ~obj[o].live
  BY <1>1, <1>2 DEF IInv, ObjInv
<1>4. x \in Objects /\ x.kind = kind /\ x.held = {} /\ ~x.live
  BY <1>1, <1>2, <1>3 DEF Objects
<1> HIDE DEF x
<1>5. obj' \in [Objs -> Objects] /\ obj'[o] = x /\ \A p \in Objs \ {o} : obj'[p] = obj[p]
  BY <1>1, <1>2, <1>4
<1>6. Users' = Users
  BY <1>1, <1>2, <1>4, UsersStep DEF Users
<1>7. Types' /\ Counted' /\ Mapped'
  BY <1>1, <1>5, <1>6 DEF IInv, Types, Counted, Mapped
<1>8. Prefix(x, 0) /\ 0 \in 0..(Len(Takes(kind)) - 1)
  BY <1>4, TakesOnce DEF Prefix, FirstTaken
<1>9. \A p \in Objs : ObjInv(p)'
  BY <1>1, <1>4, <1>5, <1>8 DEF IInv, ObjInv
<1> QED
  BY <1>7, <1>9 DEF IInv

-----------------------------------------------------------------------------
LEMMA InitLemma == Init => IInv
<1> SUFFICES ASSUME Init PROVE IInv
  OBVIOUS
<1>1. NoObj \in Objects /\ NoObj.held = {} /\ ~NoObj.live
  BY DEF NoObj, Objects, Kinds
<1>2. obj \in [Objs -> Objects] /\ \A o \in Objs : obj[o].held = {} /\ ~obj[o].live
  BY <1>1 DEF Init
<1>3. Users = {} /\ Cardinality(Users) = 0
  BY <1>2, FS_EmptySet DEF Users
<1>4. Types /\ Counted /\ Mapped
  <2>1. Types
    <3>1. refs \in Int /\ starts \in 0..2
      BY DEF Init
    <3>2. dll \in BOOLEAN /\ ns \in BOOLEAN /\ library_up \in BOOLEAN
      BY DEF Init
    <3>3. making = {}
      BY DEF Init
    <3> QED
      BY <1>2, <3>1, <3>2, <3>3 DEF Types
  <2>2. Counted
    BY <1>3 DEF Init, Counted
  <2>3. Mapped
    BY <1>3 DEF Init, Mapped
  <2> QED
    BY <2>1, <2>2, <2>3
<1>5. \A o \in Objs : ObjInv(o)
  BY <1>2 DEF Init, ObjInv
<1> QED
  BY <1>4, <1>5 DEF IInv

LEMMA NextLemma == IInv /\ [Next]_vars => IInv'
<1> SUFFICES ASSUME IInv, [Next]_vars PROVE IInv'
  OBVIOUS
<1>1. CASE Load
  <2>1. /\ making = {} /\ ns' = TRUE /\ dll' = TRUE /\ UNCHANGED <<obj, making>>
        /\ (IF dll THEN UNCHANGED <<library_up, refs, starts>> ELSE LibraryInit)
    BY <1>1 DEF Load, Idle
  <2>2. Users' = Users
    BY <2>1 DEF Users
  <2>3. Counted' /\ refs' \in Int /\ starts' \in 0..2 /\ library_up' \in BOOLEAN
    <3>1. CASE dll
      BY <2>1, <2>2, <3>1 DEF IInv, Types, Counted
    <3>2. CASE ~dll
      <4>1. Cardinality(Users) = 0 /\ refs = 0 /\ starts = 0
        BY <3>2, FS_EmptySet DEF IInv, Mapped, Counted
      <4>2. library_up' = TRUE /\ refs' = 1 /\ starts' = 1 /\ Cardinality(Users') = 0
        BY <2>1, <2>2, <3>2, <4>1 DEF LibraryInit, grpc_init
      <4> QED
        BY <4>2 DEF Counted
    <3> QED
      BY <3>1, <3>2 DEF IInv, Types
  <2>4. Types' /\ Mapped'
    <3>1. Types'
      BY <2>1, <2>3 DEF IInv, Types
    <3>2. Mapped'
      BY <2>1, <2>2, <2>3 DEF IInv, Mapped
    <3> QED
      BY <3>1, <3>2
  <2>5. \A o \in Objs : ObjInv(o)'
    BY <2>1 DEF IInv, ObjInv
  <2> QED
    BY <2>3, <2>4, <2>5 DEF IInv
<1>2. CASE UnloadNamespace \/ Exit \/ UNCHANGED vars
  <2>1. (ns' = ns \/ ns' = FALSE) /\ UNCHANGED <<dll, library_up, refs, starts, obj, making>>
    BY <1>2 DEF UnloadNamespace, Exit, vars
  <2>2. Users' = Users
    BY <2>1 DEF Users
  <2>3. Types' /\ Counted' /\ Mapped'
    <3>1. Types'
      BY <2>1 DEF IInv, Types
    <3>2. Counted'
      BY <2>1, <2>2 DEF IInv, Counted
    <3>3. Mapped'
      BY <2>1, <2>2 DEF IInv, Mapped
    <3> QED
      BY <3>1, <3>2, <3>3
  <2> QED
    BY <2>1, <2>3 DEF IInv, ObjInv
<1>3. CASE UnloadDll
  <2>1. /\ making = {} /\ ~ns /\ (\A o \in Objs : ~obj[o].live) /\ LibraryShutdown
        /\ dll' = FALSE /\ starts' = 0 /\ UNCHANGED <<ns, obj, making>>
    BY <1>3 DEF UnloadDll, Idle
  <2>2. Users' = {} /\ Users = {}
    BY <2>1 DEF IInv, ObjInv, Users
  <2>3. Counted' /\ refs' \in Int /\ library_up' = FALSE
    BY <2>1, ShutdownCount DEF IInv, Types
  <2>4. Types' /\ Mapped'
    <3>1. Types'
      <4>1. refs' \in Int /\ starts' \in 0..2
        BY <2>1, <2>3
      <4>2. dll' \in BOOLEAN /\ ns' \in BOOLEAN /\ library_up' \in BOOLEAN
        BY <2>1, <2>3 DEF IInv, Types
      <4> QED
        BY <2>1, <4>1, <4>2 DEF IInv, Types
    <3>2. Mapped'
      BY <2>1, <2>2, <2>3 DEF IInv, Mapped
    <3> QED
      BY <3>1, <3>2
  <2>5. \A o \in Objs : ObjInv(o)'
    BY <2>1 DEF IInv, ObjInv
  <2> QED
    BY <2>3, <2>4, <2>5 DEF IInv
<1>4. CASE RunHook
  <2>1. /\ UNCHANGED <<dll, ns, starts, obj, making>>
        /\ (IF dll THEN LibraryShutdown ELSE UNCHANGED <<library_up, refs>>)
    BY <1>4 DEF RunHook
  <2>2. Users' = Users
    BY <2>1 DEF Users
  <2>3. Counted' /\ refs' \in Int /\ library_up' \in BOOLEAN /\ (library_up' => library_up)
    <3>1. CASE dll
      BY <2>1, <3>1, ShutdownCount DEF IInv, Types
    <3>2. CASE ~dll
      BY <2>1, <2>2, <3>2 DEF IInv, Types, Counted
    <3> QED
      BY <3>1, <3>2
  <2>4. Types' /\ Mapped'
    <3>1. Types'
      BY <2>1, <2>3 DEF IInv, Types
    <3>2. Mapped'
      BY <2>1, <2>2, <2>3 DEF IInv, Mapped
    <3> QED
      BY <3>1, <3>2
  <2>5. \A o \in Objs : ObjInv(o)'
    BY <2>1 DEF IInv, ObjInv
  <2> QED
    BY <2>3, <2>4, <2>5 DEF IInv
<1> QED
  BY <1>1, <1>2, <1>3, <1>4, NewLemma, TakeLemma, FailLemma, FinalizeLemma DEF Next

\* For every set of objects: the first finalizer, the last one, a failing
\* constructor or a second load never leave an object, or the package, without
\* gRPC, and gRPC comes up once while the package holds it (shim.cpp:26-33).
THEOREM CoreSteadyTheorem == Spec => []CoreSteady
<1>1. IInv => CoreSteady
  <2> SUFFICES ASSUME IInv PROVE CoreSteady
    OBVIOUS
  <2>1. IsFiniteSet(Users) /\ Cardinality(Users) \in Nat
    BY UsersFinite
  <2>2. Users # {} => Cardinality(Users) # 0
    BY <2>1, FS_EmptySet
  <2> QED
    BY <2>1, <2>2 DEF IInv, Types, Counted, CoreSteady
<1>2. IInv /\ [Next]_vars => IInv'
  BY NextLemma
<1> QED
  BY <1>1, <1>2, InitLemma, PTL DEF Spec
=============================================================================
