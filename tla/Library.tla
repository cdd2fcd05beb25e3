------------------------------- MODULE Library -------------------------------
(***************************************************************************)
(* The life of gRPC inside an R process: the package's own initialization, *)
(* taken when the DLL is loaded and given back once, and the native        *)
(* objects R holds by external pointer, which take what they need step by  *)
(* step, can fail half-way, and are finalized in any order, up to and      *)
(* including R's exit.  One thread, R's, runs all of it; what is hard is   *)
(* the order the garbage collector and R's exit choose.                    *)
(***************************************************************************)
EXTENDS Integers, FiniteSets, Sequences

CONSTANTS
    Objs,       \* the native objects R creates
    MaxLoads    \* bound: times the namespace is loaded

ASSUME LibraryAssumption == IsFiniteSet(Objs) /\ MaxLoads \in Nat

VARIABLES
    process,    \* "running", "exiting"
    dll,        \* external: the DLL is mapped
    ns,         \* external: the namespace is loaded
    loads,      \* times it was loaded
    hooks,      \* finalizers registered by .onLoad and not yet run
    library_up, \* shim.cpp's static flag
    refs,       \* external: gRPC's count of grpc_init calls not shut down
    starts,     \* history: times refs left 0 since the DLL was mapped, up to 2
    obj,        \* obj[o]: kind, what it holds, whether R has its pointer
    making      \* the objects being created: none, or the one R is inside of

vars == <<process, dll, ns, loads, hooks, library_up, refs, starts, obj, making>>

Kinds == {"channel", "cq", "spike", "client", "server"}

\* What the constructor of each kind takes, in order: a reference on gRPC (with
\* its queue or channel), the wake handle, the listening port, the thread.
Takes(kind) ==
    CASE kind \in {"channel", "cq"} -> <<"grpc">>
      [] kind = "spike"  -> <<"grpc", "port">>
      [] kind = "client" -> <<"grpc", "wake", "thread">>
      [] kind = "server" -> <<"wake", "grpc", "port", "thread">>

NoObj == [kind |-> "channel", held |-> {}, live |-> FALSE]

Init ==
    /\ process = "running" /\ dll = FALSE /\ ns = FALSE
    /\ loads = 0 /\ hooks = 0 /\ making = {}
    /\ library_up = FALSE /\ refs = 0 /\ starts = 0
    /\ obj = [o \in Objs |-> NoObj]

-----------------------------------------------------------------------------
(* gRPC's reference count, external.                                       *)

grpc_init ==
    /\ refs' = refs + 1
    /\ starts' = IF refs = 0 /\ starts < 2 THEN starts + 1 ELSE starts

\* grpc_r_library_init.
LibraryInit == grpc_init /\ library_up' = TRUE

\* Mutation of LibraryShutdown: not idempotent.
LibraryShutdownAgain ==
    /\ refs' = refs - 1
    /\ library_up' = FALSE

\* grpc_r_library_shutdown.
LibraryShutdown ==
    /\ refs' = IF library_up THEN refs - 1 ELSE refs
    /\ library_up' = FALSE

-----------------------------------------------------------------------------
(* The package.                                                            *)

Idle == process = "running" /\ making = {}

\* loadNamespace: R_init_rgrpc if the DLL is not mapped yet, then .onLoad.
Load ==
    /\ Idle /\ ~ns /\ loads < MaxLoads
    /\ ns' = TRUE /\ loads' = loads + 1 /\ hooks' = hooks + 1 /\ dll' = TRUE
    /\ IF dll THEN UNCHANGED <<library_up, refs, starts>> ELSE LibraryInit
    /\ UNCHANGED <<process, obj, making>>

\* unloadNamespace: without an .onUnload hook the DLL stays.
UnloadNamespace ==
    /\ Idle /\ ns
    /\ ns' = FALSE
    /\ UNCHANGED <<process, dll, loads, hooks, library_up, refs, starts, obj, making>>

\* R_unload_rgrpc: library.dynam.unload, which R users may call once no object
\* of the package is left; the statics are new when it is mapped again.
UnloadDll ==
    /\ Idle /\ dll /\ ~ns /\ \A o \in Objs : ~obj[o].live
    /\ LibraryShutdown
    /\ dll' = FALSE /\ starts' = 0
    /\ UNCHANGED <<process, ns, loads, hooks, obj, making>>

\* Mutation of RunHook: not registered with onexit = TRUE.
RunHookGcOnly ==
    /\ making = {}
    /\ hooks > (IF ns THEN 1 ELSE 0)
    /\ hooks' = hooks - 1
    /\ IF dll THEN LibraryShutdown ELSE UNCHANGED <<library_up, refs>>
    /\ UNCHANGED <<process, dll, ns, loads, starts, obj, making>>

\* The finalizer .onLoad registers on its namespace: run when an unloaded
\* namespace is collected, and at exit; a no-op once the DLL is gone.
RunHook ==
    /\ making = {}
    /\ hooks > (IF ns /\ process = "running" THEN 1 ELSE 0)
    /\ hooks' = hooks - 1
    /\ IF dll THEN LibraryShutdown ELSE UNCHANGED <<library_up, refs>>
    /\ UNCHANGED <<process, dll, ns, loads, starts, obj, making>>

-----------------------------------------------------------------------------
(* Native objects.                                                         *)

pkg == <<process, dll, ns, loads, hooks, library_up>>

\* R calls one of the _create routines.
New(o, kind) ==
    /\ Idle /\ ns /\ obj[o].held = {}
    /\ making' = {o}
    /\ obj' = [obj EXCEPT ![o].kind = kind]
    /\ UNCHANGED <<pkg, refs, starts>>

\* What the constructor of o is about to take.
Wants(o) == Takes(obj[o].kind)[Cardinality(obj[o].held) + 1]

\* It gets it; with the last, the external pointer and its finalizer exist.
Take(o) ==
    LET h == obj[o].held \cup {Wants(o)}
        done == Cardinality(h) = Len(Takes(obj[o].kind))
    IN  /\ o \in making
        /\ obj' = [obj EXCEPT ![o].held = h, ![o].live = done]
        /\ making' = IF done THEN {} ELSE making
        /\ IF Wants(o) = "grpc" THEN grpc_init ELSE UNCHANGED <<refs, starts>>
        /\ UNCHANGED pkg

\* Deleting the object gives back its reference on gRPC.
Deleted(o) ==
    /\ refs' = IF "grpc" \in obj[o].held THEN refs - 1 ELSE refs
    /\ UNCHANGED starts

\* What a constructor that gives up has still open: wake_open cleans up after
\* itself, a server that does not start closes its wake handle before delete.
KeptByFailure(o) == obj[o].held \ {"wake", "grpc"}

\* wake_open or BuildAndStart fails: the object is deleted, R gets an error.
Fail(o) ==
    /\ o \in making /\ Wants(o) \in {"wake", "port"}
    /\ obj' = [obj EXCEPT ![o].held = KeptByFailure(o)]
    /\ making' = {}
    /\ Deleted(o)
    /\ UNCHANGED pkg

\* The finalizers, called by R's collector, by a _destroy or _close routine or
\* at exit: everything is stopped, closed and deleted, the pointer cleared; on
\* a cleared pointer they return at once.
Finalize(o) ==
    /\ making = {} /\ obj[o].live
    /\ obj' = [obj EXCEPT ![o].held = {}, ![o].live = FALSE]
    /\ Deleted(o)
    /\ UNCHANGED <<pkg, making>>

\* q(): R runs the onexit finalizers, in an order of its own.
Exit ==
    /\ Idle
    /\ process' = "exiting"
    /\ UNCHANGED <<dll, ns, loads, hooks, library_up, refs, starts, obj, making>>

Next ==
    \/ Load \/ UnloadNamespace \/ UnloadDll \/ RunHook \/ Exit
    \/ \E o \in Objs, kind \in Kinds : New(o, kind)
    \/ \E o \in Objs : Take(o) \/ Fail(o) \/ Finalize(o)

\* At exit R runs every finalizer registered with onexit = TRUE.
Fairness ==
    /\ WF_vars(process = "exiting" /\ RunHook)
    /\ \A o \in Objs : WF_vars(process = "exiting" /\ Finalize(o))

Spec == Init /\ [][Next]_vars /\ Fairness

-----------------------------------------------------------------------------
(* Properties.                                                             *)

Users == {o \in Objs : "grpc" \in obj[o].held}

\* shim.cpp:26-33: gRPC is up under every object that uses it, whoever shut the
\* library down first, and it comes up once while the package holds it.
CoreSteady ==
    /\ Users # {} => refs > 0
    /\ library_up => refs > 0 /\ starts = 1

\* shim.cpp:35-37: at exit gRPC goes down, its threads joined, and nothing an
\* object took (or a failed constructor had taken) is left, in whatever order
\* R runs the finalizers.
ExitReleases ==
    (process = "exiting") ~> (refs = 0 /\ \A o \in Objs : obj[o].held = {})
=============================================================================
