# C-Two in TLA+

C-Two serves stateful resources to other processes. A *host* registers
resources under route names, a *client* calls their methods; between processes
of one machine a call travels over a local stream (Unix socket or named pipe)
and its payload, when large, through shared memory; between machines it goes
through an HTTP *relay*. This directory models the concurrent core of the Rust
implementation under `core/`: the loan protocol of a connection, the tasks that
drive it on both ends, the scheduling of calls, the life of a server, and the
shared memory the payloads live in.

Paths below are relative to the repository. `PROJECT.json` maps every
definition to the lines it models.

## 1. Inventory

### Modelled

| Part | Source | State | Operations | What makes it hard | What has to hold |
|---|---|---|---|---|---|
| Connection core | `core/protocol/c2-wire/src/connection/mod.rs` | loan book (prepared, published, settling), release queue, remote reads, control frames, writer state, end flags | prepare, publish, cancel, release record, admit and drop a remote loan, reserve and write a batch, deactivate, peer end, close | move-only tokens dropped in any order, by any thread, between two critical sections; writes that fail half-way | an allocation is in one place, is never reused while the peer may read it, nothing keeps a quiet connection open |
| Route scheduler and admission gate | `core/transport/c2-server/src/scheduler.rs`, `admission.rs` | per-scheduler counters and queue, gate phase and generation, each call's permits | reserve, wait, activate, commit, run, release, close, drain, terminate, restart | two schedulers acquired one after the other; cancellation at every await; one `Notify` for all waiters | exclusion of writers, no overtaking, no lost wake-up, a drained route is silent |
| Server connection driver | `core/transport/c2-server/src/connection.rs`, `writer.rs`, `handle_connection` in `server.rs` | in-flight counts, shutdown flags, one `Notify` shared by reader, writer and calls | read a frame, accept a call, reply, write a batch, flush, deactivate, stop reading, tear down | wake-ups that go to the wrong task, checks that are stale when acted on | the connection ends, releases are written, an accepted call keeps its writer |
| Client connection driver | `core/transport/c2-ipc/src/connection.rs`, call paths of `client.rs` | submission queue, send state of every call, pending map, DISCONNECT | submit, write, receive, time out, drop the caller, upload in chunks, deactivate | a call dropped at any await; the reader and the writer failing in either order | no call is retried that may have run, every call ends, DISCONNECT comes last |
| Server lifecycle and routes | `core/transport/c2-server/src/server.rs`, `dispatcher.rs`, `core/runtime/c2-core/src/host.rs` | lifecycle state, admission phase and generation, reservations, route table, connections | start, run, bind, accept, shut down, restart, reserve, commit, open, unregister, terminate | registration racing shutdown and restart; two removals of one name | no call accepted before shutdown is lost, nothing is left after it, a shutdown ends |
| Buddy allocator | `core/foundation/c2-mem/src/alloc/` | one bitmap of free blocks per level | alloc, free | long sequences of splits and merges | free and allocated blocks partition the segment, fully merged |
| Memory pool, budget, pressure | `core/foundation/c2-mem/src/pool.rs`, `budget.rs`, `pressure.rs` | segments, generations, idle times, dedicated backings, budget cells, pressure latch | allocate through four tiers, release, collect, prewarm, switch retention | a tier failing after it took a reservation; slots re-created under a new generation | budget exact, handles always backed, no generation used twice |
| Peer mapping cache | `core/foundation/c2-mem/src/peer.rs` | mapping, generation and read count per slot | admit, end of a read, collect idle views | the owner re-creates a slot between two publications | no admitted read sees another backing, no valid descriptor is refused |

### Interactions

The client's driver and the server's driver each own one connection core. A
request or a reply that is too large to be inlined is written into a block of
the sender's memory pool; the block becomes a *loan* in the sender's core, its
descriptor crosses the stream, the receiver admits a *remote loan* in its own
core and a read in its peer mapping cache, copies the bytes, ends the read and
queues a *release record*; the sender reclaims the block when the record
arrives, or when it has proof that the peer is gone. On the server an accepted
call passes the admission gate, the scheduler of its route and the execution
scheduler before its callback runs; the server's life opens and closes that
gate, and waits for the accepted calls of the routes it removes.

### Not modelled yet, or not at all

| Part | Why |
|---|---|
| Chunked requests: `chunk_ordering.rs`, `c2-wire/src/chunk/`, `assembler.rs` | next in the plan: one terminal outcome for the first chunk, the fences of the later ones, reassembly limits and expiry |
| Client pool, route directory, outcome of calls: `c2-ipc/src/pool.rs`, `client.rs`, `c2-core/src/client.rs`, `call_execution.rs` | planned: leases and replacement, stale cached routes, what a caller may conclude from an interrupted call |
| Handshake | planned: both ends agree on the negotiated capabilities |
| Endpoint leases and takeover: `c2-local` | planned: one owner of an endpoint, stale sockets |
| Runtime session and host: `c2-core` (beyond the starting thread) | planned |
| Relay and HTTP client: `c2-http` | planned: route authority, gossip, tombstones |
| Retention of held results: `retention.rs` | planned with the runtime session |
| Wire codecs, configuration, contracts, code generation, error registry | pure functions of their inputs: nothing here runs concurrently or keeps state |
| Windows pipes and ACLs, system queries of `spill.rs` | bindings to the operating system |
| SDKs, FFI, command line | glue over the crates above |

## 2. Modules

| Module | Models |
|---|---|
| `ConnectionCore` | one end of a connection; every action is one critical section of its mutex or one step between two |
| `ConnectionCoreProofs` | theorems about it |
| `Scheduler` | gate, route schedulers and execution scheduler, and each call's way through them |
| `Notify` | `tokio::sync::Notify`, a library, from how the drivers use it |
| `ServerDriver` | reader, writer and call tasks of an accepted connection |
| `ClientDriver` | reader, writer, calls and owner of a client connection |
| `ServerLifecycle` | starts, accept loop, shutdown, routes, calls |
| `Buddy` | the allocator as operators on a set of free blocks |
| `MemPool` | an owner's pool, its budget and its pressure engine |
| `SharedMemory` | extends `MemPool` with a connection and the peer's mapping cache: the composition of owner and reader |
| `MC*` | instances for TLC: constants, scenes, bounds, symmetry |

### Conventions

Definitions keep the names of the source. A part of the code that holds a lock
throughout is one action; where the code awaits, drops a lock or issues two
wake-ups, the action is cut, since others may run in between. `todo` holds the
parts of a function its task has still to run. Payloads, frame bytes, error
texts, logging and statistics are left out.

Several modules have a variable `scene`, chosen by `Init` from the constant
`Scenes` and never changed: it names the calls that are made and the events
(a failing write, the end of the peer, a dropped caller, a scarce system) that
may happen in the behaviour. One run then covers several circumstances at the
sum of their costs. A scene only restricts the environment, never the code.

Operators whose names begin with `Wrong_` stand before the definition they
alter the way a plausible mistake would: a forgotten check, a missing reset, an
off-by-one. With the altered definition in place the property named for it in
`PROJECT.json` fails, which shows that the property depends on that code.

### State and actions

**ConnectionCore.** `prepared`, `published`, `settling`, `releases`,
`remote_reads`, `writer` and the end flags are the fields of `State`; `tokens`,
`controls`, `carriers`, `reclaims` and `batch` are the move-only values callers
hold (`PreparedLoan`, `ControlFrame`, `RemoteLoan`, `Reclaims`, `WriteBatch`),
because their drops are what races; `confirmed`, `finished` and `submitted` are
history. The peer is the
environment: it sends release records, well formed or not, in any order, and
ends at any time. The driver calls a batch's methods in the order both drivers
do.

**Scheduler.** `pending`, `active_workers`, `active_readers`, `writer_active` and
`queue` are the `SchedulerState` of every scheduler, `phase` and `generation` the
admission gate; `pc`, `permit` and `guards` say where a call is and what it
holds. A waiting call arms its future, checks, and sleeps in three steps, and
`notified` records whether it was woken since it armed, so a release that
forgets to notify, or a check made before arming, would leave a call asleep.

**ServerDriver** and **ClientDriver.** One program counter per task. The server's
tasks share one `Notify`, so `Notify` is modelled with its permit, its queue and
the moment a future is first polled. The client's writer is the only one to
wait on its `Notify`, which is then just a permit. Each driver sees its
connection core as the few fields `try_close` and `begin_write` read.

**ServerLifecycle.** `lifecycle`, `phase`, `generation`, `pending` and the route
table, with one program counter for the starting thread, the accept loop, the
task that closes the routes, every removal and every call. The host thread
waits for the connections to settle before it starts the server again.

**Buddy, MemPool, SharedMemory.** A block is `<<level, index>>`. Splitting and
merging are written without recursion: the blocks a split adds are the right
siblings on the way down from the donor, and a freed block merges up to the
lowest level all of whose siblings on the way are free. `Attempt` is the
decision of one allocation that no mapped segment can serve: what the collector
retires, whether expansion or a dedicated backing passes pressure and budget,
and what the pressure latch becomes. `SharedMemory` adds the descriptors under
way, the peer's cache and what every `PeerRead` pins. Idle times are `none`,
`now` and `long`, and `decays` lets a window pass.

## 3. Runs

| Run | What it asks | Result | States |
|---|---|---|---|
| `core_safety` | loan book, confirmation before reuse, counters, reserved storage, order of release records, writer state, finality of ends | holds | 445 k |
| `core_live` | a deactivated connection whose loans are back closes | holds | 15 k |
| `sched_safety` | exclusion, counters, no overtaking, drained routes silent, drain keeps accepted work | holds | 374 k |
| `sched_live` | every call stops waiting, a closed route is seen drained | holds | 56 k |
| `sdrv_ends` | every way a server connection ends does end | holds | 196 k |
| `sdrv_release` | a finished remote read's release is written | **violated** (finding 1) | |
| `sdrv_admission` | a call accepted before a shutdown keeps its writer | **violated** (finding 2) | |
| `client_safety` | a retry cannot run a call twice, sent calls keep their reply, no early seal, nothing starts behind DISCONNECT | holds | 1.1 M |
| `client_live` | calls end, deactivation closes, releases are written | holds | 72 k |
| `client_disconnect` | DISCONNECT follows every reply | **violated** (finding 3) | |
| `server_life` | registration and removal of routes against start, shutdown, restart and calls; a shutdown ends | holds | 98 k |
| `shared_memory` | blocks partition segments, budget exact, handles backed, descriptors admissible, reads see the lent backing, generations advance | holds | 74 k |

Run one with `tlc -config MCConnectionCore_safety.cfg MCConnectionCore`, and
likewise for the others.

### Findings

1. *A release can stay queued.* `writer_wake` is one `Notify` for the reader, the
   writer and parked calls, and a wake-up is `notify_waiters` followed by
   `notify_one`. If a remote read ends after the writer found no release and
   before it polls its future, the reader's next future may take the stored
   permit; the writer sleeps with the release queued until something else wakes
   it. `writer.rs:216` says "A completed remote read wakes this task even when no
   RPC is queued."
2. *A shutdown can miss a call.* `try_close` and `notify_idle` read `is_idle`
   first and act on it later; a call accepted in between finds its writer sealed.
   `server.rs:2264` says "Reserve before any admission await or task submission so
   a concurrent shutdown cannot miss an already accepted call."
3. *DISCONNECT can overtake an upload.* Dropping the caller of a started upload
   takes it out of the pending map while its producer goes on sending.
   `c2-ipc/src/connection.rs:286` says DISCONNECT is sent "only after every
   dispatched request (including its continuation frames) has replied."

### Bounds, and why they are enough

- `ConnectionCore`: loans and borrows together at most three, release batches of
  two records. Two loans overlapping one borrow, or three borrows (one more than
  a batch holds), are the smallest cases in which books, queue and batch all
  disagree if one is wrong. `MaxLoanId` stands for the end of the u64 sequence,
  so exhaustion happens. The liveness run has one loan, one borrow, one control
  frame.
- `Scheduler`: one writer, one reader and one in-process reader on a route with
  two workers and room for two pending calls, and one execution worker. The
  third call meets a full queue; a writer waits behind a reader and a reader
  behind that writer. Liveness takes the pairs that exclude each other.
- `ServerDriver`, `ClientDriver`: one call or upload against each kind of failure,
  two calls where they compete (queue slot, idle check); a queue of one slot.
- `ServerLifecycle`: two starts, so one restart; two routes of one name with two
  removals, or two names under a limit of one route, or one call.
- `SharedMemory`: two segments of four smallest blocks (three levels), a
  dedicated slot, three handles; generations end at two, so slots retire; a
  budget that holds two segments and not a third backing beside them.

Symmetry is used for calls and handles that are only compared. Deadlock is
checked except where a behaviour may really be over (all calls done and the
connection closed).

### Fairness

- Tasks that can run are polled (tokio), so their steps are weakly fair; nothing
  is assumed of arrivals, of the host's decisions, of the peer's frames or of its
  end.
- An I/O attempt completes or fails: writes carry deadlines.
- Move-only values are dropped in the end: they belong to tasks that end.
- Strong fairness is used twice: `begin_io` (memory for a batch does not run out
  every time it is tried) and a route's admission of a waiting call (other calls
  take and leave the route, so it is free again and again; that the scheduler
  then lets the call in is what `sched_live` checks). A scene may take the latter
  away, for a route that never admits.

## 4. Proofs

`ConnectionCoreProofs` proves, for any number of loans, remote reads and control
frames and any batch capacity, under `CoreAssumption` only (the constants are
natural numbers, a batch holds at least one record):

| Theorem | States |
|---|---|
| `TypeCorrect` | `Spec => []TypeOK` |
| `LoanBookHolds` | `Spec => []LoanBook`: every loan id handed out is in exactly one place until its owner is back in the pool |
| `SingleOwnerRelease` | `Spec => []NoReuseBeforeConfirmation`: an exposed block is reclaimed only after the peer's release record or the peer's end |
| `PublicationSafe` | `Spec => []PublicationFindsOwner`: the `expect` in `begin_io` cannot fail |
| `EndsHold` | `Spec => EndsAreFinal`: a stopped, ended, closed or broken end never comes back, and a stopped one publishes nothing |
| `WriterHolds` | `Spec => []WriterOwnedByBatch`: the writer slot follows the batch in flight, and `flush_completed` finds the state it asserts |

The argument. `NoReuseBeforeConfirmation` is not inductive: it needs to know that
an id is not at once published and already taken out, which is `LoanBook`, and
that the token a cancel or a publication consumes belongs to an id that is still
prepared, which is `TokensMatchBook` (a token or a reserved batch's loan is
prepared unless the connection was stopped, in which case `begin_io` refuses).
Their conjunction `BookInv` is inductive together with `TypeOK`. `TypeStep` and
`BookStep` have one step per action; `TakeOutBook` and `StopBook` are what
`stop_locked` and every other way of taking owners out do to the book, and
`BookKept` covers the actions that leave the book alone.

`EndsHold` needs `BookInv`: only a business batch can hold loans, and a stopped
connection refuses its I/O. `WriterHolds` rests on `WriterInv`, which adds that a
reserved batch has at least one frame to write (so a fresh I/O attempt is
`InFrame`) and that a failed batch has broken the writer.

Only model-checked: everything else. Liveness under fairness is out of the
prover's reach and stays with TLC.

## 5. Plan

1. *Chunked requests.* `ChunkOrdering` (the admission gate of `chunk_ordering.rs`:
   one terminal outcome of a first chunk, fences of the later ones) and
   `ChunkRegistry` (slots, limits, expiry, the reassembly budget), composed with the
   server's dispatch of chunks.
2. *Client pool and route directory.* Leases, replacement, expiry, sealing; cached
   routes against re-registration; what an interrupted call reports.
3. *Two ends of a connection.* Two instances of `ConnectionCore` joined by FIFO
   streams, shown to implement an abstract life of a loan: lent, read, returned,
   free. `SharedMemory` then rests on that abstraction.
4. *Runtime session, host and retention; endpoint leases; handshake.*
5. *Relay.* Route authority, gossip and tombstones between relays, the client's
   resolution cache.
6. *More theorems.* `CountersExact`, `ClosedIsQuiet`, `ReleaseOrder` and
   `ReservedStorageSuffices` for `ConnectionCore`; exclusion and counters of `Scheduler`; the
   budget of `MemPool` and the reads of `SharedMemory`; the refinement of step 3.

Small questions about one component will share a run whose instance selects the
component initially, as the scenes do now.
