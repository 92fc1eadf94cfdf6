# Lupine: TLA+ models and proofs

Lupine runs GPU work on a remote machine. An application loads shims for the
CUDA driver (and NVML, HIP, NCCL and nvSHMEM); the shims forward every call over
one long-lived HTTP/2 connection per server. This directory models the parts of
that bridge whose correctness depends on the order in which threads, processes
and frames take their steps, and the generated wrappers, whose two sides must agree
on every field. Paths are relative to the repository's root.

## 1. The system's parts

| Part | Source | What it does | Here |
| --- | --- | --- | --- |
| RPC core | `rpc.cpp`, `rpc.h` | request builder, lanes, tickets of fire-and-forget calls, fences | `AsyncOrder` (ordering); builder errors and nested requests not modelled |
| HTTP/2 transport | `h2.cpp` | a stream per client thread, flow control, reader, writer and heartbeat threads | `H2Stream`; process controls in `Handoff`; FIFO lanes elsewhere |
| Process handoff | `transport.cpp`, `h2.cpp` | moves a live connection to another server process | `Handoff` (client's end); its effect on the server's gate in `ServerChild` |
| Dispatch gate | `checkpoint.cpp` | keeps CUDA handlers out during a checkpoint | `CallGate`, `GateSpec` |
| Capture gate | `checkpoint.cpp` | keeps stream captures and checkpoints apart | `CaptureGate`, `GateSpec`, used by `Handoff` |
| Connection child | `server.cpp`, `server_checkpoint.cpp` | a process per connection, a worker thread per lane, drain and checkpoint at exit | `ServerChild` |
| Parent process | `server.cpp` | accept, classify, fork, route bulk connections, reap, stop | `ServerParent` |
| IPC broker | `ipc.cpp` | passes exported descriptors between children | `ServerParent` |
| Deferred copies | `cuda_server.cpp`, `cuda_server_memcpy.cpp`, `codegen/` | device-to-host copies delivered by a later synchronize | `DeferredCopies` |
| Event completions | `events.cpp` | client cache that answers `cuEventQuery` locally | `DeferredCopies` |
| Routing and caches | `routing.cpp`, `cache.cpp`, `transport.cpp` | device numbering, handle ownership, cached allocations and contexts | not modelled |
| Address arenas, managed memory | `rpc.cpp`, `cuda_client_memcpy.cpp`, `managed_advice.h` | equal addresses on both sides, dirty pages, advice | not modelled |
| Graphs and captures | `cuda_client.cpp`, `cuda_server.cpp` | captured resources and their replay | not modelled |
| Generated wrappers | `codegen/` | a client stub and a server handler per call | `RpcCalls` and its tables |
| Handwritten parts of the shims | `cuda_client.cpp`, `hip_*`, `nvml_*`, `nccl_*`, `nvshmem_*` | loading, enumeration, handles | not modelled |
| Python package | `python/` | loads the client bundle, adapts PyTorch to it | not modelled |
| Monitoring, HTTP dispatch, ioctl proxy | `monitor_*`, `dispatch.cpp`, `device_ioctl_*` | metrics, static answers, single forwarded calls | not modelled |

`PROJECT.json` lists every component with its reason, and every definition with
the lines it stands for.

The parts meet as follows. A client thread writes its requests to its own
stream; the server runs one worker per stream. `H2Stream` shows that a stream
delivers what was written, in order, or fails; `AsyncOrder`, `RpcCalls` and
`ServerChild` rely on it and treat a lane as a FIFO queue. Fire-and-forget calls
are ordered across streams by tickets (`AsyncOrder`); `DeferredCopies` takes that
ordering as given: its log is in ticket order and a request runs after what was
published before it. Each worker passes the dispatch gate (`CallGate`), which
`ServerChild` uses through its abstract specification `GateSpec`. A handoff uses
the capture gate; `Handoff` extends `CaptureGate`, so the two are checked together.
The parent forks the children; `ServerParent` keeps of a child only what the
parent sees.

## 2. Modules

### AsyncOrder

State: the client's `issued` and `published` counters, the cached prefix
(`prefixStream`, `prefix`), the builder lock, the frames on each lane, each
worker, and the server's `serving` and `completed`. `CallEnter`, `CallStart`,
`CallWrite`, `CallPublish` and `CallReturn` are the stages of a request;
`Dispatch`, `SequenceWait`, `SequenceBegin`, `SequenceEnd`, `FinishAsync` and
`FinishSync` those of a worker. Either transport may fail at any step and
handlers may fail. `returned`, `after` and `ended` are history.
`MCAsyncOrder` adds symmetry; `AsyncOrderProofs` holds the proofs.

### GateSpec, CallGate, CaptureGate

`GateSpec` states what a gate promises: users are inside, checkpoints ask, hold
and reopen; none holds while a user is inside. `CallGate` has one action per
atomic access of `cuda_call_gate` and per critical section, spurious wakeups
included, with sequentially consistent atomics as in the code. `CaptureGate` has
one action per critical section of `capture_gate`, whose state is all under one
mutex. `CallGateProofs` holds the proofs about the first, `HandoffProofs` those about
the second.

### Handoff

The client's end of a handoff: the checkpoint thread of one connection through
the commands P, D, F, A and C or X, application threads that call and capture,
the HTTP/2 reader and writer with the pause behind the barrier, reconnection,
failure and close. The other members of `Checkpoints` are other connections'
handoffs, which compete for the process-wide gate. The server and the supervisor
are external: they send X only in answer to D or A, and a ping at most once per
command. `HandoffProofs` proves how it uses the capture gate, `HandoffBarrierProofs`
what the barrier on the socket is for.

### H2Stream

Both ends of a connection after the handshake. `h2` is `h2_transport` with its
streams: what the encoder holds (`held`), what waits for the window (`encoded`), the
state of the DATA item, the windows, `outbound`, `flush_pending`, what is staged for
a reader (`local_out`), the reader's buffer (`read_remaining`, `memory`) and who
sleeps on which condition variable. An action is one critical section of
`session_mutex`; `WriteSocket` and `ReaderBatch` are where the socket is used outside
it. Threads that write (`WriteBlock`, `BacklogWait`, `OutboundWait`) and read
(`ReadStream`, `ReadWait`) run against the writer thread, the reader thread,
`Shutdown` and `Destroy`. Payload is numbered units, and frames without payload do
not count against the limits. Whether the encoder keeps a block or emits it is open
below `Block`. Between two blocks the mutex is released, as it is for a refill.
Flow-control credit is nghttp2's and external. `MCH2Stream` gives the instance.

### RpcFields, RpcCalls and the tables

`CudaStubs`, `HipStubs`, `NcclStubs` and `NvmlStubs` hold one definition per generated
client stub, `CudaHandlers`, `HipHandlers`, `NcclHandlers` and `NvmlHandlers` one per
generated server handler: the chain of `rpc_write` and `rpc_read` calls of its body as
a sequence of items, with the conditions, counts, buffers and tests of the code.
The functions for memory, arrays, textures and shared memory are in
`CudaMemoryStubs`, `CudaMemoryHandlers`, `HipMemoryStubs` and `HipMemoryHandlers`.
`RpcFields` is the vocabulary; `RpcCalls` runs a stub against its handler over a lane
that can fail at any read. Shortcuts for local routes send nothing and are left out.
`MCRpcCalls` selects the 656 operations that are generated on both sides.

### ServerChild

The main thread (`client_handler`, `lupine_serve_lanes`,
`lupine_server_checkpoint_child_finish`), a worker per lane, the signal thread,
the reader as far as it changes the lanes, and a client that opens and ends
streams, sends requests, disconnects and takes part in handoffs.
`ServerChildProofs` holds the proofs.

### ServerParent

The parent's loop with the flag test, the preparation of `poll()` and `poll()`
itself as separate steps; children from fork to `waitpid`, with SIGTERM blocked
until the child is ready; the broker's table. Messages are reduced to their kind.
`MCServerParent` adds symmetry; `ServerParentProofs` holds the proofs.

### DeferredCopies

`log` lists the fire-and-forget copies and event records; the device completes them
in stream order, where the legacy default stream is ordered with every other but
those of `NonBlocking` (`Follows`). A synchronize of the legacy stream does not wait
for these, and no record on it marks their queues (`Marked`), but it detaches their
copies with all others (`Collects`). In a program of one thread
`CU_STREAM_PER_THREAD`, which `lupine_note_event_record` leaves out as well, is such
a stream that the device orders more than the model does. `pending` holds the
server's queues with event markers: sets of tickets, since a queue is filled in
ticket order and keeps it. Calls are split where the code releases its locks: the
driver call and the detaching of copies are two steps, as are writing a copy's
request and counting it. `MCDeferredCopies` defines the workloads and adds symmetry;
`EventCacheProofs` and `DeferredCopiesProofs` hold the proofs.

## 3. Runs

| Run | Instance | Shows |
| --- | --- | --- |
| `async_order` | 2 lanes, 2 tickets, failures | fences, exact served prefix, no wait for overlapping calls, a written request is answered or fails |
| `call_gate` | 3 workers, 2 drainers, 3 drains | refinement of `GateSpec`, so a held gate is quiet; drains granted, calls admitted |
| `handoff` | 1 capturing and 1 calling thread, 2 handoffs | nothing follows the barrier on the old socket, no request or capture is cut, every wait ends but for two named exceptions; `CaptureGate` still refines `GateSpec` |
| `handoff_abort` | same | violation, finding 4 |
| `server_child` | 2 streams, handoffs | the child finishes alone, SIGTERM is not lost, SIGTERM and disconnects end the child unless a handoff keeps the gate for good |
| `server_child_term` | 1 stream, handoffs | violation, finding 1 |
| `server_parent` | 3 connections, broker | children accounted for, tokens redeemable, shutdown ends unless a child waits for the broker |
| `server_parent_broker` | 1 connection, broker | violation, finding 2 |
| `h2_stream` | 1 lane, window 1, socket of 1 chunk, limit 0 | streams intact, buffers alive, memory bounded; no writer, reader or destroy waits for ever |
| `deferred_copies` | four workloads | copies neither lost nor delivered twice, none left queued by a stream synchronize that owes it, semaphore exact, queries truthful; one thread finds its bytes after a synchronize, complete ones on blocking streams |
| `deferred_copies_torn` | 2 threads, 1 copy | violation, finding 3 |
| `rpc_calls` | 656 operations, counts up to 2 | both sides agree on every field, nothing is left over, calls return |

Bounds.

- `async_order`: two lanes are the least in which a request can overtake another
  lane's call, and two tickets can end out of order; holes of several tickets and
  more lanes are left to the proofs, which bound neither.
- `call_gate`: two drainers queue behind each other; a third worker can be between
  its increment and its second test while another leaves.
- `handoff`: `MaxWaits` = 2 lets the connection hand off twice, or once while the
  other connection does. The gate's own counters for more threads are proved.
- `server_child`: two workers, so that one can hold the gate while the other is in
  a call. With two streams the table of two is never full. Two streams and a table
  of one (57,090 states), and three streams and a table of two without handoffs
  (1,033,880 states, over five minutes), pass too. The safety properties are proved
  for every number of streams and every table.
- `server_parent`: three connections give two children that exit under one SIGCHLD
  and a bulk connection.
- `h2_stream`: one unit of window makes every message cross several WINDOW_UPDATEs;
  a limit of 0 makes every writer wait at both limits; one chunk of socket lets both
  ends block in `send()` at once. The client's window is never used up, as with the
  2^31-1 bytes of the code. The connection may break at any moment; only the client
  closes it unprovoked, and the server follows. Two lanes with one call each and
  without faults (700,464 states) showed no error, nor did both ends closing.
- `deferred_copies`: one slot for two events forces eviction. The workloads (two
  threads that copy and record on the legacy stream, one thread with a blocking stream
  and two events, one thread with a non-blocking stream as well and one event, two
  threads and two events) share one run of 1,844,164 states; their product is too
  large. With a second stream for two
  threads (2,615,346 states) `TypeOK`, `InOnePlace` and `StaleCoversOwed` hold too.
- `rpc_calls`: every array is empty, single or double, a driver may report more than
  was asked for, signed counts may be negative. A call starts over a lane that
  still holds a message only for three operations (`MCFollowers`).

Deadlock is checked except where the system stops: the child, the parent and both
ends of `h2_stream` exit, a closed connection hands off no more.
`deferred_copies_torn` does not check it either.

Fairness. Weak fairness of threads that can run. `AsyncOrder`: a thread inside
a call and the workers proceed, and a client notices that its peer is gone;
applications need not call. Gates: handlers return, captures end, checkpoints
resume what they hold. `Handoff`: in addition the server answers and the supervisor
proceeds or aborts. Server: its threads and processes run and handlers
return; clients owe nothing, not even the end of a handoff. `RpcCalls`: both ends of
a call proceed. `H2Stream` assumes nothing: `EventuallyStuck` says that every
behaviour is finite, and the invariants that begin with `Stuck` say what is left undone
in a state in which no thread can step. Together they are liveness under weak
fairness of each thread. Spurious wakeups are left out there; each wait is in a loop.

## 4. Findings

1. `TermExits`: SIGTERM while a handoff holds the gate. The connection is shut
   down, so the resume frame cannot arrive, and the child waits in its own drain
   for ever (`server_checkpoint.cpp:277`; `README.md:95-98`).
2. `ShutdownCompletes`: a child waits for a broker reply while the parent waits
   for the child (`server.cpp:843`, `ipc.cpp:198`).
3. `CollectedComplete`: a copy another thread issues after the driver call has
   returned is collected before the device has completed it
   (`codegen/gen_cuda_server.cpp:3959`).
4. `EveryCallReturns`: an abort that answers 'A' is read before the thread that sent
   'A' sees the writer paused; that thread waits for ever and requests stay paused
   (`h2.cpp:1976`; `h2_test.cpp:2333`). A shutdown or a failure of the transport
   right after 'A' clears the flag in the same way; then the join in
   `lupine_client_transport_close` waits for it.

More behaviours that TLC finds and no configuration of this directory repeats:

- `RefusedOnlyWhenFull` (`ServerChild`, 3 streams, table of 2, no handoffs): lanes
  that finish while `accept` blocks still count as "active RPC lanes"
  (`server.cpp:298`).
- `TermStopsServer` (`ServerParent` with `FairSpec`, 1 connection, no broker):
  SIGTERM between the flag test and `poll()` is not noticed until another event
  (`server.cpp:760`).
- `CollectedComplete` (`DeferredCopies`, one thread, a non-blocking stream): a copy on
  the non-blocking stream and `cuStreamSynchronize(NULL)`, which does not wait for it
  and detaches it (`codegen/gen_cuda_server.cpp:3960`, `cuda_server.cpp:690-707`): the
  bytes may be early ones, and the stream's own synchronize brings no others. So
  `LandsAtSynchronize` claims complete copies for blocking streams only.
- The second half of `LandsAtSynchronize` and `StaleReleased` (`DeferredCopies`) are
  stated for programs with one thread (`Serial`). Without that condition both fail with the constants of
  `deferred_copies_torn`: of two threads that synchronize a stream, the second may
  return before the first has written the copies to memory
  (`cuda_client_memcpy.cpp:4582`); and a copy handed back before it is counted leaves
  the semaphore raised, and cached completions unused, for good
  (`cuda_client_memcpy.cpp:4440`).
- `GateServesAll` (`Handoff`) names `CaptureLeaked` as an exception: a
  `cuStreamEndCapture` that loses its connection does not report the end of the
  capture, and the gate is process-wide (`cuda_client.cpp:7956`).

All of these are behaviours of the models, derived from reading the code; none was
reproduced on a running server. Those of `DeferredCopies` need two application
threads on one stream, but for the one about a non-blocking stream.

## 5. Proofs

Each proof module extends its component's module. The invariants below are
inductive; the properties alone are not.

`AsyncOrderProofs` proves `AsyncOrderTypes`, `FencesHold`, `ServedPrefixIsExact` and
`MarkersNeverOverlap` for any set of lanes and any `MaxTickets`, assuming `NoLane
\notin Lanes` and the types of the bounds. They follow from `IInv` (theorem
`AsyncOrderInvariant`). `FenceRespected` alone is not inductive: it says nothing
about requests still on the wire. `WireInv` says that each of them is covered for
every ticket it must follow: the ticket has ended, or the worker or an earlier frame
of the same lane will wait for it. `PrefixInv` says the same of whatever the cached
lane writes next, which is what allows a marker to be omitted.

`CallGateProofs` proves `HeldGateIsQuiet` and `CallGateImplementsGate` for any
finite, disjoint sets of workers and drainers. `GateInv` (theorem
`CallGateInvariant`) says that `active_calls_` is the number of workers between
their increment and decrement, `drain_waiters_` the number of queued drains, that
one drain at most owns `draining_`, and that `pending_` is set just when some
drain is under way.

`HandoffProofs` first proves `CaptureGateImplementsGate` for any finite, disjoint sets
of captures and checkpoints. The gate decides by its counters, so `CaptureInv` says
what each of them counts, that at most one checkpoint owns `checkpoint_active_`, and
that it has been told so only when no capture was under way.

It then proves that every step of `Handoff` is a step of `CaptureGate` or
leaves it alone (`HandoffUsesGate`), hence `HandoffImplementsGate`, and
`PausedHandoffHasNoCaptures`. `HandoffInv` adds which threads have a capture's request
under way and that the gate stays granted from `checkpoint_begin()` to
`checkpoint_end()`. Assumed: the connection is one of the checkpoints, and callers
are neither captures nor checkpoints.

`HandoffBarrierProofs` proves `BarrierIsLast`, `NoRequestAtBarrier` and `SocketIdle` for
any threads and connections, assuming that threads are not named like frames.
None of the three is inductive: that nothing follows the 'A' rests on where the
supervisor is, and that on the commands between the two. `Protocol` (theorem
`HandoffInStep`) says that the frames are well formed, that no frame has gone to the
socket behind the barrier and that, as long as the transport has not failed, both
sides are in step (`Exchange`): no command is under way twice (`Once`); the place of
the checkpoint thread, the supervisor's state and the commands between them fit
together, an abort included (`Turns`); 'D' and 'A' are sent once, when they are expected,
and 'A' is what the writer stops behind (`Acks`); and what must have stopped by each
stage has (`Stopped`). Once the transport has failed nothing is claimed but
`FramesOK` and `~stray`, since failure may come at any step.

`EventCacheProofs` proves `QueryTruthful` for any threads, streams, events, slots and
workloads. A slot marked complete must be right about every record that has returned
(`TableInv`), and the answer to a query in flight about every slot that still holds
the record the query saw (`WatchOK`). That takes in that a stamp drawn and not yet
written to the table is nowhere else: no slot holds it and no query has seen it
(`TableInv`, `SeenOK`, `DistinctStamps`). `CacheInv` is inductive together with
`Types` (theorem `CacheInvariant`). The module also shows that `OwedInv` is kept: what a
stream synchronize owes was in front of its fence, so it had been executed when the
driver returned and left its queue with the response, at the latest.

`DeferredCopiesProofs` extends it and proves `TypeOK`, `InOnePlace`, `StaleCoversOwed`,
`LandsAtSynchronize` and `StaleReleased`, assuming in addition that the set of threads
is finite. `Rest` and `OwedInv` are added to the cache's invariant (theorem
`CopiesInvariant`). The first half of `LandsAtSynchronize`, for any number of threads,
is `OwedInv`; the rest follows from `Rest`:
`QueueInv` says what a queue holds, and that no copy queued before the latest record
of an event lacks that record's marker; `DeviceInv` that the device completes in the
order of submission; `PlaceInv` that a copy is queued for its own stream, in one
response or landed once; `CountInv` what the semaphore counts, threads between
writing and counting a copy included; `SerialInv` that, with one thread, what a call
owes is what the driver waits for, what is detached and what lands, and that only
copies of non-blocking streams are detached early. `QueueInv` and
`DeviceInv` are what makes `SerialInv` inductive: an event's marker is where the
driver's wait says it is.

`ServerChildProofs` proves `FinishAlone`, `TermCheckpointed` and `ThreadsBounded` for
any finite set of lanes and any `MaxLanes`. `FinishAlone` needs that the lane table
holds exactly the workers not joined, that only workers in a call are in the gate,
and that a stream is queued for accept once and without a worker (`ChildInv`).

`ServerParentProofs` proves `ChildrenAccounted`, `NoForgottenZombie` and
`TokensRedeemable` for any finite set of connections whose names are not among the
tags of the model's messages. `ParentInv` adds that a zombie has its SIGCHLD
outstanding, that routes and tracked children agree while the parent serves, and
that whoever asks for a token asks for one of the table.

Proved and not repeated in a run: the type invariants of `AsyncOrder`, `CallGate`,
`CaptureGate`, `ServerChild` and `ServerParent`; `HeldMeansQuiet`, which the
refinement of `GateSpec` contains; and `ThreadsBounded`, which two streams and a
table of two cannot put to the test.

Only model-checked: every liveness property (fairness and ENABLED are out of the
prover's reach); `H2Stream`, whose actions apply a recursive function (`Through`) to the
frames of a chunk and to the streams to flush, so that a proof of what a step does
needs an induction over data; and `RpcCalls`, whose properties are about the
entries of its tables, which TLC runs one by one.

## 6. Not modelled

- `H2Stream`: the handshake and its retry, the heartbeat, TLS, errors of nghttp2 and
  zstd, the maximal frame size, and that the end of the dispatch stream fails the
  transport.
- `Handoff`: the server's end, the supervisor and the restored process; the limit on
  outbound bytes; callbacks (requests nested in a response), which are exempt from the
  pause that `Enter` waits for (`h2.cpp:1916`, `rpc.cpp:909-911`).
- `ServerChild`: the detached threads of bulk connections, which `FinishAlone`
  does not cover; the provider's library. `Dispatch` takes the test of `conn.closed`
  and the read behind it as one step (`server.cpp:307-308`): a close between the two
  makes the read fail.
- `ServerParent`: failures of `accept()` and `poll()`. The broker's error replies, to
  a registration without a descriptor (`ipc.cpp:319-322`) and for a token that is not
  there, leave the table alone as a get does and are not told apart from it.
- `DeferredCopies`: graph launches, whose copies are not counted, stream capture,
  several contexts, the per-thread default streams of several threads,
  `cuStreamWaitEvent` and `cuCtxSynchronize`; a failing `cuStreamGetCtx`, after which
  the response carries no copies, and asynchronous errors, which turn success into
  failure although copies ride along (`codegen/gen_cuda_server.cpp:3959-3963`).
  `Execute` submits to the driver and queues in one step: a synchronize that meets a
  copy between the two leaves it queued, as one before both does. `EventQuery` loads
  the semaphore with the table (`events.cpp:45-48`). Without graph replays the check
  for owed copies in `handle_cuEventQuery` cannot be seen to matter: the semaphore
  masks it.
- `RpcCalls`: handwritten stubs and handlers; the contents of buffers; a write that
  finds no memory in the middle of a request (`rpc.cpp:340-344`).
- The other parts of section 1 and those listed in `PROJECT.json`: sequential tables
  and parsers, I/O, or code that rests on page protection and signal handlers.

## 7. Possible extensions

1. `VaArena` (disjoint claims by compare-and-swap), `AllocationCache`,
   `ManagedAdvice` (range operations against a per-page reference), `Routing`.
2. `RpcLocks` (nested requests and builder errors), `BulkCopy`, graph replays in
   `DeferredCopies`.
