# A TLA+ model of rgrpc

rgrpc binds the asynchronous gRPC C++ API to R. R is single-threaded; gRPC is
not. The package's own logic is the piece in between: two C++ objects, a client
and a server, each with one background thread that drains a completion queue
and one event deque that R's main thread polls. This directory models that
piece, the R layer and the library's life around it, and a client and a server
joined by gRPC; checks them with TLC on small instances, and proves the central
invariants with TLAPS for all instances.

Paths below are those of the repository (`src/client.cpp`, `R/client.R`).

## The system

| Component | State | Operations | Interacts with |
|---|---|---|---|
| wake handle (`src/wake.h`) | a non-blocking self-pipe | open, signal, drain, poll, close | signalled by the completion thread, polled by R or by an event loop through `grpc_fd` |
| event queue (the poll functions of `src/client.cpp` and `src/server.cpp`) | `ready`, guarded by `mu` | push and signal; wait; drain a batch, filtered by call or not; re-arm | shared by the two threads |
| client core (`src/client.cpp`) | `calls`, `streams` (each a `stream_state`: flags, `pending`, `unread`, `write_queue`), `next_id`, `shutting`, `closed` | start a call or stream, send, half-close, cancel, poll, close; six kinds of completion | gRPC core, event queue |
| server core (`src/server.cpp`) | `active` (each an `sv_call`), `accepts_outstanding`, `next_id`, `shutting`, `closed` | reply, finish (draining or not), read, send, cancel, poll, close; five kinds of completion | gRPC core, event queue |
| R API (`R/client.R`, `R/server.R`, `R/generics.R`) | a per-client table of typed calls | `.Call` wrappers; decoding of events | the two cores |
| library shim (`src/shim.cpp`) | `library_up` | init, shutdown, stand-alone channel, queue and server | R's load and exit hooks |
| conversion, protobuf, TLS, registration | none | pure functions, file reads, tables | |

**What is hard in it.** R and the completion thread interleave at every
critical section, and R waits without the lock. Tags of one call complete in
any order, succeed or fail, and the last one frees the object the others point
to. gRPC's own rules (one operation per direction, `Finish` alone, nothing
started on a queue that is shut down) are obligations on every path. Flow
control is split between the threads: the completion thread pauses reading, the
poll resumes it. Close must drain whatever is in flight. Two such endpoints on one RPC can wait
on each other through four bounded queues, and learn of a loss at different
times. Finalizers run when R likes. `PROJECT.json` lists
these hazards by line, with the properties that cover each.

**What makes each part correct.**

- Event queue: no lost wakeup, no spurious readiness, order kept per call.
- Client: the tag accounting is exact, no tag outlives its object, gRPC's rules
  hold, buffers stay bounded, a stream never comes to rest with work left,
  each call ends exactly once and close returns.
- Server: the same accounting; capacity respected; writes, status and the
  abortive finish in the right order; requests and cancellations reported.
- Both together: what one R is handed the other R sent, in order; one answer, one
  outcome, and a good outcome only with everything promised; no deadlock.
- R layer: the table of typed calls matches the calls that can still bring events.
- Library: gRPC is up under every object that uses it and down in the end.

## Modules

| Module | Models | Notes |
|---|---|---|
| `ReadyQueue` | the deque and the batch a poll takes | a deque is a set of events with arrival stamps; `Batch` is the poll loop |
| `Mailboxes` | nothing in the code: what the queue promises | one first-in-first-out mailbox per call |
| `EventQueue` | wake handle, wait loop, batch, re-arm | implements `Mailboxes` |
| `Client` | `src/client.cpp` | |
| `Server` | `src/server.cpp` | |
| `TypedClient` | `R/client.R`: the table of typed calls, the check of sends, the decoding of events | extends `Client`: each operation is the R wrapper around the native one |
| `Rpc` | nothing in the code: what a streaming RPC promises the R programs at its two ends | |
| `RpcSystem` | a client, a server and gRPC between them | instances of `Client` and `Server`; implements `Rpc` |
| `Library` | `src/shim.cpp`, the load hooks, the constructors and finalizers of every native object | |
| `ReadyQueueProofs` | | lemmas about the deque and its batches, used by all the others |
| `EventQueueProofs`, `ClientProofs`, `ClientFlowProofs`, `TypedClientProofs`, `ServerProofs`, `LibraryProofs` | | theorems |
| `RpcSystemProofs` | | the refinement of `Rpc`, from instances of `ClientFlowProofs` and `ServerProofs` |
| `MCEventQueue`, `MCClient`, `MCTypedClient`, `MCServer`, `MCRpcSystem`, `MCLibrary` | | instances for TLC; bounds are in the `.cfg` files |

`Client` and `Server` use `Batch` and leave the waiting to `EventQueue`, where
the content of events does not matter; in `EventQueue` an event is only an id and
a stamp.

### Correspondence with the code

*Atomicity.* Both threads hold `mu` for the whole of an operation or of one
completion, so each is one action. The two exceptions are split: a poll lets go
of `mu` around `poll()` (`PollEnter`, `WakePoll...`, `Relock`), and close runs
in steps (`CloseBegin`: `shutting` and the cancellations, `CloseServer` on the
server, `CloseQueue`, `CloseJoin`). Completions are free to occur between.

*State.* A `stream_state` is a record with the code's field names. `ops` is the
one field the code does not have: the set of tags gRPC holds, which `pending`
is meant to count. Posting adds to both and a completion removes from both, so
that `TagsCounted` compares the code's counter with the truth. A freed record
keeps its last value so that properties can talk about it. Payloads are
numbers: the n-th message a peer sent, the n-th message R had accepted.

*Handlers.* Each case of the completion thread is a transform of the record
(`AfterRead`, `AfterWrite`, ...) that calls the helpers in the code's order
(`s_post_read_locked`, `s_pump_writes_locked`, `s_try_finish_locked`), followed
by the free test (`LiveAfter`). Calls that return `FALSE` change nothing and
are not actions.

*External.* gRPC core and the peer are modelled by what the code may assume of
them. `net[i]` is the RPC as the network sees it. A read succeeds only if a
message is there, and fails only if the call is dead or the peer is done; a
write or half-close may fail once the call is over. On the client `Finish`
completes as gRPC promises it: when the call has failed, or when the peer's
status is OK and all its messages have been read. So `wire` tells the OK status
(`"ended"`) from everything else: deadlines, lost connections, cancellation and
any other status of the peer are all "the call is dead". `FinishBlocked` is a
`Finish` that has an OK status to return and messages before it that nobody can
read any more; a cancellation releases it. A server's done tag may be dequeued before or after the
other tags of its call, which is what gRPC permits.

*The two ends together.* In `RpcSystem` each side takes the steps of its own
module, and the steps those modules leave to an unknown peer happen only when
the other side has caused them: a message arrives after it was written, the
half-close after the messages, the status after the queue. What an operation
carries can arrive while the operation's own completion is still to be handled
(`Up`, `Down`). A write completes while fewer than `Window` messages are unread
on the other side, which is how gRPC's flow control reaches the code. `Fault`
loses the RPC on either side at any time; the other side may or may not hear of
it. The RPC is a stream; unary calls and close are left to the single modules.
The client's view of the answer is mapped to `Rpc`: `promise` is what the server
has on the wire and in its queue at the answer, and `"cut"` is the outcome of
a stream on which a client's write had failed first, where the code loses
messages (`client_failed_send`).

*The R layer.* `TypedClient` adds to each native operation what the R wrapper
does. Whether a payload decodes is chosen at the poll: `stop` is the first event
`grpc_decode` fails on. The native poll has removed the batch by then, so R sees
none of it, and the table keeps the entries of the calls that ended at or
behind `stop` (`spoiled`).

*The library.* In `Library` a constructor takes its resources one by one
(`Takes`) and may fail at the wake handle or the listening port; what an error
path leaves open is `KeptByFailure`. Collection, explicit destruction and exit
call the same finalizers, in any order. R's part is external: a finalizer runs at
most once, those registered with `onexit = TRUE` run at exit, `R_unload_rgrpc`
runs when the DLL is unmapped, and nobody unmaps it under live objects.

*Left to the bounds.* `MaxCalls`, `MaxMsgs`, `MaxSends`, `MaxArrivals` and, in
`Server`, `MaxEvents` (R stops posting reads after so many events: a read that
fails can be posted again without end); `MaxUp`, `MaxDown` and `MaxReads` play
these parts in `RpcSystem`, and `MaxLoads` in `Library`. Ids and counters do not overflow in
the code within any realistic run (64 bits) and keep no width here.

## Runs

Passing runs:

| Run | Instance | Shows |
|---|---|---|
| `event_queue` | 2 calls, pipe of 2 bytes, batches of 1 and 2, 4 arrivals | `WakeMirror` (outside a wait the handle is readable exactly while the deque is non-empty), `WakeMeansNews` (inside a wait: exactly if something arrived since R last looked), `NoSleepOnMatch`, `AwaitDelivers` (a wait without a timeout comes back with an event it wants, or interrupted), refinement of `Mailboxes`, and `WaiterServed`: a waiter whose event is queued returns |
| `client_stream` | 1 call or stream, typed or not; 3 messages in, 2 out, buffers 1 and 2 | tag accounting, no dangling tag, `Finish` alone, backpressure, no stranded stream, order of writes and messages, complete answers, nothing posted after shutdown; `EndReported`: a call that is over is reported, unless a send or the half-close failed and `Finish` was posted over a paused read (`client_unread_finish`); and of the R layer `SendsWellTyped` |
| `client_mix` | 2 calls or streams in any mix, typed or not | `OneFate`: in flight, or terminal event queued last, or delivered, and only one of these; `TableExact`: an entry exactly for the typed calls that can still bring an event, or whose last batch failed to decode, be it over the other call's message; `CloseReturns` |
| `server_call` | 1 call beside a free slot, 2 messages in, 2 out | tag accounting, exact lifetime, calls plus accept slots within `max_active`, order of writes, status and fence, request first, messages in order, nothing after `cancelled`, and that an ended call is freed, a cancellation reported, a close completed |
| `rpc` | 1 stream end to end, 1 message up, 1 and perhaps a response down, all buffers and the window 1 | `ContractKept`: refinement of `Rpc`, under loss, cancellation from both ends and deadlines; `AnswerReported`: once the server's R has answered, a client that polls learns how the call ended, however full the queues were (with the exception of `EndReported`) |
| `library` | 2 objects of any of the 5 kinds, the package loaded twice | `CoreSteady`: gRPC is up under every object that uses it, and comes up once while the package holds it; `ExitReleases`: at exit everything is given back, in whatever order finalizers run |

*Why these bounds are enough to be interesting.* With a read buffer of 1 and of
2 against three messages the read pauses and resumes both with and without a
backlog; with a write buffer of 1 and 2 a send is refused, queued behind one in
flight, and queued before the stream has started. Streams do not touch each
other's records, so one stream shows all of a stream's behaviour and two are
needed only for what they share: the deque, the id space, close and the
server's capacity. Four arrivals on two calls are the smallest number at which a
filtered batch steps over an older event, leaves a newer one and finds the pipe
full. In `rpc` one message each way and queues of one are enough to fill every
queue: a message unread by R holds the next in the window, that holds the
server's queue, and the answer waits behind it. Two objects are enough for any
order of their finalizers against the library's own. The state spaces are
explored completely (4 thousand to 510 thousand states). The theorems below
remove the bounds for the safety properties of the single components.

Each property has a mutant in `PROJECT.json`: a plausible slip in the mapped
code (a forgotten increment, a helper not called, a test dropped, two steps
swapped) under which TLC finds the property violated.

Runs that show a disagreement between the code and its documentation:

| Run | Statement | What the code does |
|---|---|---|
| `client_unread_finish` | a stream brings "a final stream_status" and runs until it (`R/client.R:285`, `R/client.R:293`) | a send or half-close that fails after the peer's OK answer, with reading paused at `read_buffer`, posts `Finish` over unread messages and refuses to read them: gRPC holds the status back, and it never comes unless R cancels |
| `client_failed_send` | everything inbound arrives before the final status (`R/client.R:281`) | after a failed write, messages read are discarded and the peer's own OK status is still delivered |
| `server_deaf` | excess calls wait "until capacity frees up" (`R/server.R:12`) | if the last tag of the last call is a read or a write, its place is freed without posting a slot, and an idle server at `max_active` accepts nothing more |
| `server_client_done` | `client_done` means the peer has half-closed (`R/server.R:234`) | it is reported for any failed read of a live delivered call, a cancelled one included |
| `server_zero_messages` | incoming requests are received through `grpc_poll` (`R/server.R:3`) | a stream that half-closes without a message is never shown to R and never answered |
| `server_silent_cancel` | peer cancellation and deadline expiry surface as `cancelled` events (`NEWS.md:286`), given for a request abandoned before it was answered (`R/generics.R:14`) | when the done tag of a cancelled call is dequeued before its first read, the request reaches R with no `cancelled` event to follow; `CancelReported` is stated for calls whose done tag was still outstanding at delivery |

Three more were met and have no run of their own.

- `grpc_writes_done` is TRUE "if the half-close was posted", FALSE if the stream
  is over (`R/client.R:416`); it is TRUE also on a broken or finishing stream,
  where none is ever posted. No other state depends on the answer.
- "The list only ever holds the outstanding calls" (`R/client.R:142`); the entry
  of a call whose terminal event fails to decode, or is in a batch behind one
  that does, is never dropped. `TableExact` says so: these are its `spoiled`.
- `grpc_pending` on a client is described as "calls started but not yet delivered"
  (`R/generics.R:244`) but counts calls not yet *completed*; nothing depends on
  the value.

### Fairness

- Completion thread: it loops on `cq.Next` and gRPC returns the tags of a call
  that is over. So: weak fairness of each call's completions *while that call is
  over*. The exception is in the action, not in the fairness: a client's `Finish`
  is no completion that can happen while an OK status waits behind unread messages
  (`FinishBlocked`). Nothing is assumed of a call in progress; a silent peer may
  stay so.
- R inside an operation goes on: weak fairness of the steps of close, of the
  wait's `poll()` when the handle is readable, and of the re-lock.
- R keeps polling an open client or server (the documentation requires it:
  "Read every stream to its status", `R/client.R:296`). Only `EndReported` and
  `CancelReported` rest on this. R is never assumed to close, send, read or reply.
- On the server, slots complete unsuccessfully once it is shut down
  (`AcceptFailed`).
- `RpcSystem` needs less: one weak fairness condition on `Progress`, that while
  some completion thread has a tag to handle, gRPC something to deliver or the
  client's R events to poll, one of them goes on. Each such step uses up
  something bounded, so no one of them can crowd out the others for ever. The
  server's R is not assumed to do anything after its answer.
- `Library`: at exit R runs the finalizers registered with `onexit = TRUE`.
  Garbage collection is never assumed to happen.

## Proofs

TLAPS checks the modules whose names end in `Proofs`. They rest on the `ASSUME`s
of the specifications only: capacities and bounds are natural numbers, pipe and
batches hold at least one, and the "all calls" marker is not an id.

**The deque.** `ReadyQueueProofs` has what the others need of a poll's batch:
it is finite and of at most `maxn` events, and what it leaves of a call is newer
than everything it takes of it (`BatchIsPrefix`, by counting the matching events
up to each), and it is not empty if anything matches (`BatchTakes`, by the same
counting). `Numbered(q, n)` says that the queued messages of a call continue
the `n` already handed over without a gap; a push and a poll preserve it.

**EventQueue.** `WakeMirrorTheorem`, `WakeMeansNewsTheorem`, `NoSleepTheorem`,
`AwaitDeliversTheorem` (an action property) and `MailboxTheorem`, the refinement. The handle means two different things outside
and inside a wait, so neither statement is inductive alone. The invariant joins
them with `NewsOnly`: while R waits, every event it wants is newer than its last
look. That is what turns "readable if something arrived" into "no wakeup is
lost". `Answered`, why a wait is over, rules out that one without a timeout
expires. `AwaitDelivers` rests on `BatchTakes` and the refinement on
`BatchIsPrefix`.

**Client.** `TypeTheorem`, `TagsCountedTheorem`, `NoDanglingTagTheorem`,
`FinishAloneTheorem`, `NeverStrandedTheorem`, `WritesMoveTheorem` and, as an
action property, `NoPostAfterShutdownTheorem`. None of these is inductive: that
a read may be posted depends on what `read_inflight` says of the outstanding
tags, that a free is safe depends on `pending`, and so on. The invariant is

- per record, `StreamInv`: each flag says whether its tag is outstanding and
  `pending` how many (`FlagsTellTags`); and the order of a stream's life
  (`LifeOrder`): nothing but the start before it started, nothing but `Finish`
  after it was posted, a write in flight has an element to pop, a half-close in
  flight has an empty queue behind it;
- per live stream on an open client, `Armed`: the three postconditions
  `ReadArmed`, `WriteArmed` and `FinishArmed`;
- for the maps, `NoDanglingTag` itself, that a live stream's status is not out,
  and that its start tag is outstanding until it started.

The proof follows the code. Each helper has a lemma saying that it establishes
its own `Armed` part and leaves the other two alone, or does nothing when the
client is shutting; each completion case is then a short composition of these,
and each action one step of `NextLemma`. `NeverStranded` falls out: a live
stream with nothing in flight has started, is not finishing, hence is neither
broken nor read to the end, hence must have a full read buffer.

*Messages and events* (`ClientFlowProofs`). `BackpressureTheorem`,
`WritesInOrderTheorem`, `MsgsInOrderTheorem`, `StatusCompleteTheorem` and
`OneFateTheorem`. A second invariant, `FlowInv`, stands on the first and relates
a record to the network and to the deque: the write queue holds exactly the
messages accepted and not yet written, in order (`Flow`); what R was handed and
what is queued are the messages taken from the network, without a gap while the
stream is sound (`MsgFlow`); a status in the deque has them all before it
(`StatusFlow`); ids not given out yet have no trace (`Unused`). `FateInv` adds
that on an open client every call is in exactly one of its three states. It is a
separate layer because it fails once close has begun: a closed client drops what
was in flight. The buffers' bounds follow: a read is posted only below
`read_cap`, and `unread` counts what is queued.

**TypedClient.** `TableExactTheorem` and `SendsWellTypedTheorem`, on top of the
client's three invariants: an entry belongs to a typed call that is in flight or
has its terminal event queued, or to one whose last batch did not decode. The
step that matters is the poll, where the entries dropped are those of the calls
whose terminal event is in the batch before the event that fails.

**Server.** Eleven theorems, in layers.

- `CapacityTheorem`: active calls and accept slots never exceed `max_active`. The
  invariant adds that `active` is finite and the slots are a natural number; an
  accepted call takes the place of its slot, a free only makes room, and
  `post_accepts_locked` fills no more than the room (`SlotsAfter`).
- `TypeTheorem`, `TagsCountedTheorem`, `ActiveWhileTaggedTheorem`,
  `PumpArmedTheorem`, `NoPostAfterShutdownTheorem` and
  `NothingAfterCancelledTheorem` from `TagInv`: per record the flags tell the tags
  and the order of a call's life (`CallInv`), per active call on an open server
  `Pumped`, and that ids are given out in order, which is why an accepted call
  finds its record unused.
- `WireInOrderTheorem` and `FenceHoldsTheorem` from `Wires` (with `FreshInv` for the
  ids to come): wire, element in flight and queue together are the accepted
  messages in order while the call lives; after an abortive finish nothing of the
  queue goes out, after the status nothing at all.
- `RequestFirstTheorem` and `MsgsInOrderTheorem` from `InInv`: what R was told
  of a call starts with the request, and the messages are numbered as taken.

**Library.** `CoreSteadyTheorem`. The invariant counts: gRPC's reference count is
the number of objects using it, plus one while `library_up` (`Counted`), the
package's objects exist only while the DLL is mapped (`Mapped`), and an object
holds what its constructor has reached (`ObjInv`).

**Both ends.** `ContractTheorem` (`RpcSystemProofs`): the composition implements
`Rpc`, whatever the buffers, the batches, the window and the traffic. The proof
has three parts.

- What one step of an end can do, seen from outside. On the server (`Outlet`, from
  the invariants `Outs` and `Wires`): R hands over one message, or answers, or the
  call dies, one of these at a time; otherwise what was promised goes out and the
  promise, wire plus queue plus response, stays the same number. On the client
  (`Port`, from `EdgeInv`): R hands over one message, or is handed messages and
  perhaps the end, and with the peer's OK status of an unbroken stream all there
  were. `Intakes` and `EdgeInv` also say that nothing is handed to R that was not
  read, nor read that did not arrive.
- `RpcInv` adds `Joint`, which ties the two networks together: the server has been
  sent at most what the client's R handed over; the client has been sent at most
  what the server had on its way, or R had handed over when the call died; and once
  the status has arrived, exactly what was promised. It is the last conjunct that makes
  "ok" mean complete: the status is on the wire only behind everything else
  (`WrittenFacts`), and a call with its status posted no longer dies.
- `ClientMoves` and `ServerMoves` map a step that keeps `RpcInv` to the contract's
  `Ask`, `Deliver`, `Hear`, `Say`, `Answer` or `Lose`, or to none.

The theorems of an end are about an instance of its module; a section of lemmas
shows that the actions composed in `RpcSystem` are those, and `RpcAssumption`
gives the assumptions of both.

**Only model-checked.** Liveness (`WaiterServed`, `EndReported`, `OverFreed`,
`CancelReported`, `CloseReturns`, `AnswerReported`, `ExitReleases`): the prover
does not handle fairness.

## Not modelled

- In `RpcSystem`: unary calls, several RPCs on one connection, and close of
  either end while the RPC runs; each is in `Client` or `Server` alone.
- The value of `grpc_pending`, and the reports of the connectivity state and of
  the library's version: reads that nothing depends on.
- What a namespace unloaded and loaded again does to gRPC after its finalizer
  has run: `Library` has the behaviour, but it depends on R's collector and only
  the first half of `CoreSteady` is claimed of it.
- Deadlines as time, metadata, credentials, keepalive, connectivity state:
  inputs to gRPC, with no state of this package.
- A forked R process: the completion thread does not survive `fork()`, and the
  project declares fork safety a non-goal (`PLAN.md`, "Fork safety").
- The Windows socket pair behind the same wake interface: there a byte may become
  readable some time after it was sent, so that the handle may turn readable
  over an empty deque. The model's handle is the self-pipe.
- `src/common.h`, `R/proto.R`, `R/tls.R`, registration and the build without
  gRPC: pure conversions, I/O and tables.
- `read_buffer = 0`: accepted by the code, after which the stream reads one
  message and never another. No documented range, so nothing to check against.

## Plan

Done: event queue with its abstract specification and proofs; client and server
cores; the R layer's table; both ends against an abstract RPC; the library's
life; every safety property of these components, and both refinements, as theorems.

1. A larger `rpc` instance: two messages each way and a window of two.
