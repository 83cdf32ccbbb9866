# TLA+ models of the Envoy filter example

The repository adds two sample filters, the network filter `echo2` and an HTTP
decoder filter, to a copy of Envoy 1.20 (`envoy/`).  The filters are a few lines
each; what they promise depends on the machinery they run on: the connection
with its filter chain and file events, the HTTP filter chain, the pool of upstream
connections, the structures that worker threads share, the thread local storage
that carries configuration to them, and the start of the server.  This project
models that machinery, and the filters on top of it, in TLA+; TLC checks small
instances, TLAPS proves the main invariants for all of them.

All paths below are relative to the repository.  `PROJECT.json` gives the source
lines of every definition.

## 1. Inventory

| Component | State | Operations | Interacts with | What is hard | What makes it correct |
|---|---|---|---|---|---|
| Network connection (`envoy/source/common/network/connection_impl*.cc`) | read and write buffers, `read_disable_count_`, delayed close state and timer, end-of-stream flags, `dispatch_buffered_data_`, `transport_wants_read_` | `write`, `close`, `readDisable`, `onFileEvent`, `onReadReady`, `onWriteReady`, `raiseEvent`, timer | filters and connection callbacks call back into it from inside its handlers; file event; transport socket | re-entrancy, edge-triggered wakeups, several kinds of close at once | no wakeup lost, disables balance, events raised once and in order, closes end |
| Filter chain (`filter_manager_impl.cc`) | position, `initialized_` | `onContinueReading`, `continueReading` | connection | filters that close, stop, resume | no filter runs on a closed connection, the end of the stream is not repeated |
| Raw transport socket, watermark buffer, file event | shutdown flag; lengths and watermark flags; registered and injected events | `doRead`, `doWrite`; `checkHigh/LowWatermark`; `setEnabled`, `activate` | connection, kernel | yields at the limit; injected events dropped by `setEnabled` | part of the connection's properties |
| Echo2 filter (`echo2.cc`) | none | `onNewConnection`, `onData` | connection | data and FIN together, back pressure | echoes each byte once, in order |
| Local rate limiter (`extensions/filters/common/local_ratelimit`) | atomic token words, fill times | `requestAllowed` on workers, `onFillTimer` on the main thread | HTTP and network rate limit filters | races of CAS loops, late timers, wrap | no token lost or made up, the rate holds |
| Connection limit filter (`extensions/filters/network/connection_limit`) | atomic counter, gauge, runtime flag, delay timer | `onNewConnection`, `onEvent` | connections of all workers | CAS race, events of connections that were never counted | exact counter, limit kept |
| Thread local slots (`common/thread_local`) | owners and free list of indexes, data vectors, dispatcher queues, shutdown flag | `allocateSlot`, `set`, `runOnAllThreads`, `removeSlot`, shutdown | all workers, main thread | recycled indexes with old callbacks queued, destruction during a callback, shutdown order | no thread sees another slot's object, completions once and last, objects released |
| Upstream connection pool (`common/conn_pool`, `common/http/conn_pool_base.cc`) | pending streams; connecting, ready, busy, draining clients; capacities of pool and cluster | `newStream`, cancel, connection events, timeouts, GOAWAY, SETTINGS, drains | connection, users' callbacks, cluster manager | users that cancel and submit inside a failure, SETTINGS below the requests in flight, deletion from inside a handler | counters are the sums over the clients, streams answered and in order, a draining pool is deleted, and only when idle |
| Init manager (`common/init`) | count, target and watcher handles, state | `add`, `initialize`, `ready` | listeners, subscriptions, server | ready inside initialize, targets destroyed | exact count, watcher told once, after all targets |
| Server start and cluster initialization (`cluster_manager_impl.cc`, `cds_api_impl.cc`, `server.cc`) | init helper's maps and state, active and warming clusters, RTDS and CDS state | `addCluster`, `removeCluster`, `maybeFinishInitialize`, `addOrUpdateCluster`, `onClusterInit`, RunHelper | init manager, subscriptions, clusters | calls that complete at once and call back, names that are reused by updates, iterators held across calls | phases in order, nothing forgotten, no dangling pointer, the start and every warming end |
| Event dispatcher (`common/event/dispatcher_impl.cc`) | two deferred-delete lists, posted callbacks | `deferredDelete`, `clearDeferredDeleteList`, `post` | everything | destructors that defer | not modelled: the modules assume that a deferred object outlives the handler that defers it |
| HTTP filter manager (`common/http/filter_manager.cc`), sample HTTP filter | iteration state per filter, buffered data, end of stream and trailers flags | `decodeHeaders`, `decodeData`, `decodeTrailers`, `commonContinue`, `addDecoded*`, local replies | connection manager, codec, filters | continue or reply from inside a callback, one buffer for all filters, limits crossed during an iteration | each filter sees headers, data, trailers and the end once and in order, nothing lost, no callback after the response, the request is delivered |
| HTTP connection manager, router, TCP proxy, cluster manager, listeners, xDS, health checks, outlier detection, overload, hot restart | see `PROJECT.json` | | | | not modelled, reasons in `PROJECT.json` |

`PROJECT.json` lists the hazards of this code with their lines and with the
properties that watch them.

## 2. Modules

| Module | Role |
|---|---|
| `LocalRateLimiter` | the limiter; `TokenBucket` is its abstract specification |
| `LocalRateLimiterProofs` | proofs about it |
| `Connection` | connection, filter chain, raw socket, file event, watermark buffers, kernel and peer |
| `ConnectionProofs` | proofs about it: life cycle and counts; wakeups and the ends of the streams |
| `Echo2` | the filter on `Connection` (it extends it and replaces the arbitrary users by the filter); `EchoService` is its abstract specification |
| `Echo2Proofs` | proofs about it, the refinement included |
| `ConnectionLimit`, `ConnectionLimitProofs` | the connection limit filter and proofs |
| `ThreadLocal` | thread local slots; `SlotStore` is their abstract specification |
| `ThreadLocalProofs` | proofs about them, the refinement included |
| `ConnPool` | the upstream connection pool |
| `ConnPoolProofs` | proofs about it |
| `InitManager` | the init manager and its targets |
| `ServerInit` | the start of the server: it extends `InitManager` and adds clusters, CDS, RTDS and the workers |
| `ServerInitProofs` | proofs about the init manager, the clusters and the order of the start |
| `HttpFilterManager` | the decoder side of the HTTP filter manager |
| `HttpFilterManagerProofs` | proofs about its control flow, pauses, responses and the order of the data |
| `MC...` | values of the constants for TLC |

Definitions whose comment begins with "Mutant of" are faulty variants that no
specification uses: with one of them in place of the definition it names, the
property that `PROJECT.json` lists for it fails.  They show that each property
can tell right from wrong code.

### Local rate limiter

Shared state is the atomic word of each bucket, so the model has one step per
access to it.  `RequestLoad` is `requestAllowed` up to the load of
`requestAllowedHelper`, `RequestCas` one turn of its loop; `FillTimer`,
`FillCas`, `FillScan` and `FillRearm` are `onFillTimer` with both helpers.
Sums are taken modulo `WordSize` (2^32 in the code).  `admitted` and `credited`
are history variables: the requests allowed, and what each fill computed that
it added.  The constructor's checks of the fill intervals are assumptions.

### Connection

A connection lives on one dispatcher thread. A handler is interrupted only where
it calls filters or connection callbacks, and these may call anything the API
offers before they return. Hence `stack`, the frames of the handler that is
running: `onFileEvent` pushes the write and the read handler, they push
`onContinueReading`, that pushes `onNewConnection` and `onData`. While user code
is on top (`UserRuns`) it may write, close in three ways, read disable and
enable, drain the buffer and return either status; the same calls are possible
between events. `continueReading()` is called between events only. The methods
that others call (`ReadDisable`, `Close`, `Write`, `AppendRead`...) are
functions of the record `conn`, so an action composes them in the order of the
code, trailing calls included.

The kernel side is `sock` plus `conn.armed`: with edge triggers epoll reports
the fd when it is registered anew (`setEnabled`) or when its readiness changes,
and then not again.  `conn.injected` are the events of `activate()`, which
`setEnabled` drops.  Buffers are byte counts: they are queues, the n-th byte in
is the n-th byte out.  Errors that the client connection's constructor or
`connect()` met are configurations of `Init`.

### Echo2

`Echo2` keeps the handlers, the kernel and the peer of `Connection` and
replaces its users by `OnNewConnection`, `OnData` and a listener that closes the
connection.  `OnData` is `connection().write(data, false)`, which moves the whole
read buffer, so the low watermark callback of the read buffer runs inside it.

### Connection limit filter

Each connection may be on another thread; `pc` says where its filter is,
`seen` what it has loaded.  A compare-exchange may fail spuriously.
`SetRuntime` toggles the runtime flag at any time, and `ConnectionCloses` may
close a connection before `onNewConnection` of this filter was called, as a
filter before it can.  The close event decrements in all cases, as the code
does; `Missed` are the connections that closed without having been counted.  At
a counter of zero the code has `ASSERT(connections_ > 0)`, which a release build
leaves out: there the decrement wraps, and so it does in the model.

### Thread local slots

A main thread operation is one step: its effects on one worker's queue and on
the main thread's data do not depend on what another worker has already run.  A
worker takes two steps for a guarded callback, the check of
`still_alive_guard` and the call, because the main thread may destroy the slot
in between; the callback of `removeSlot` has no guard and takes one.  Indexes
start at 1.  A completion guard is released when no queue holds a callback that
refers to it.  Threads are registered before `Init`: the code registers the
workers before the first `set()`.

### Upstream connection pool

All pools of a thread live on one dispatcher, so a handler is one step, except
where it calls users that may call the pool again: when a connection goes down
its streams are reset and then the pending streams are failed, one callback
each. `closing` is the frame of that handler; between two of its steps only
users act (`newStream`, `onPendingStreamCancel`), and only inside a callback. A
nested close, as a cancel in a draining pool makes one, is part of the step that
causes it. `maybePreconnect` and `newStream` are calls of the load balancer,
which does not know removed hosts any more, and only their pools drain for
deletion (`cluster_manager_impl.cc:1257`, `:1381`, `:1445`); hence their guard
`~draining`. The methods of the pool are functions of the record `pool`,
composed in the order of the code, so that the counters can be compared with the
clients after every one of them. `full` says which circuit breaker other pools
have filled, `lost` which streams were destroyed without an answer. Clients are
HTTP/2 clients, the preconnect ratio is 1, and users do not call the pool from
`onPoolReady` or from an overflow failure.

### Init manager and server start

Everything runs on the main thread, and nearly every call may complete at once
and call back.  `stack` holds the functions that are in progress, the innermost
first; an action runs the innermost one up to its next call, `Calls` replaces it
by what it calls, and events of the main loop need an empty stack.  The loop of
`Init::ManagerImpl::initialize` and the targets' functions have `manager.next` and
`running` in the same role.  A cluster is an object per configuration version, so
that a callback or a map that still holds an old one is visible.  A cluster's own
initialization (discovery, health checks) is one step, inside `initialize()` or
later.  `startWorkers` is one step: it is called after all that matters here.

### HTTP filter manager

`stack` is used in the same way: `decodeHeaders`, `decodeData` and
`decodeTrailers` call one filter per step, and what the filter does inside (a
local reply, added data or trailers) and returns are choices within the contract
of `envoy/http/filter.h`. A filter that holds the request back lets it go by
`continueDecoding` from the main loop, or by returning Continue from a later
data or trailers callback, after which the manager calls `commonContinue`
inline; `continueDecoding` inside a callback is not modelled. `addDecodedData`
is modelled in `decodeHeaders` and `decodeTrailers` (cases 1 and 4 of its
comment, `filter.h:358-373`). What filters are given is numbered in the order in
which it belongs, so order is comparison of numbers, and the buffer is a
sequence of data frames. `StopIterationNoBuffer` is a filter that takes the data
(`taken`). `contended` records that a filter stopped the iteration while a later
one was holding the request back, too: they share the buffer, and what is then
promised is less (section 3).

`Mishandled` lists answers to data that `filter.h` allows and that the manager
gets wrong; the constant `Cautious` says that filters do not give them.  With
`Cautious` FALSE they are in the model, and the run `filters_trailers` shows one of
them.  Every clause is needed: without any one of them TLC finds a violation of
`DataIntact`, `StateAsAsserted` or `NoCallbackAfterResponse` (section 3).

## 3. Runs

### Passing runs

| Run | Instance | What it shows |
|---|---|---|
| `ratelimit` | 2 workers, default bucket (3, fill 2, interval 1), descriptor bucket (2, fill 1, interval 2), 3-bit words, clock to 4; 372,500 states | `TokensConserved`: no interleaving loses or makes up a token; `AdmissionRateBound`: burst plus fills per elapsed interval, also with late timers; `ImplementsTokenBucket` |
| `conn` | accepted connections and connections being established, failed ones too; 2 filters, limit 1 byte, 2 bytes in, 2 bytes out, 1 outstanding user disable, 1 byte in the kernel's queue; 3.7 million states | `NoWakeupLost`, for reads, writes and the dispatch of buffered data; `ReadDisableBalanced`, `FiltersOnlyWhileOpen`, `OneCloseEvent`, `DelayedCloseTimerRuns`; `EndOfStreamKept`: two filters see the end of the input once, the write side is shut down after the last byte; `ConnectedIsReal`; `ClosingIsWoken`: a close of an accepted connection that waits has a timer, or bytes to flush and the write event for them |
| `echo` | limit 2, kernel queue 2, 5 bytes; 7,378 states, with fairness | `ImplementsEchoService`, `EchoesInTheEnd` |
| `climit` | 4 connections, limit 2, 3-bit words, delay; 70,162 states, with fairness | `CountExact`, `LimitHolds`: as long as every connection that closed had been counted, the counter and the gauge are exact and the limit holds; `DecisionsEnd` |
| `tls` | 2 workers, 2 slots, 2 sets, 1 update; 386,466 states, with fairness | `SlotDataOwned` (one owner per index, and its object behind it), `CompletionIsLast`, `NoPostAfterExit`, `ImplementsSlotStore`, `ObjectsReleased`, `CompletionRuns` |
| `pool` | 2 clients, 3 streams, 3 requests per connection, 2 at a time, SETTINGS 0 at any time and 1 once, circuit breakers of 2 connections, 3 pending and 2 active requests; 646,320 states, with fairness | `CountersExact` at every call, `NoPendingWhileReady`, `DeletedPoolIsIdle`; `PendingStreamsKept`: attached in order of arrival, none dropped without an answer unless the pool drains for deletion; `PendingAnswered`, `DrainedPoolDeleted` |
| `serverinit` | an LDS and a listener target; a static and a CDS cluster of each phase, 3 CDS answers (2 later), 2 versions each; 279,120 states, with fairness | `TargetCountExact`, `NotifiedOnceAllReady`; `InitializationTracked`: the helper waits for exactly what is not initialized, and what is active is; `ReferencesValid`; `StartupOrder`: runtime, secondary clusters, all clusters, workers once; `StartupFinishes`, `WarmingEnds` |
| `filters` | 2 arbitrary filters and a terminal one, 3 data frames, buffer limit 2, answers within the contract but for those of `Mishandled`; 1.0 million states, with fairness | `DataIntact`: everything in order and once (without contention), the codec's data in order at the terminal filter and all there at the end; `PausedByAFilter`: the codec of a request still coming is not left paused; `StateAsAsserted`: the manager's ASSERTs, `:780`, `:508` and `:203` included; `NoCallbackAfterResponse`, also under contention; `RequestDelivered`, if not contended |

Several of these are conjunctions of parts with names of their own
(`NoWakeupLost` of `ReadWakeupPending`, `WriteWakeupPending` and `DispatchPending`,
say); `PROJECT.json` has a mutant for each part.

### Runs that exhibit a disagreement

Each of these checks what a comment, an assertion or a document says, and TLC
finds an execution of the code that contradicts it.

| Run | Statement | What happens |
|---|---|---|
| `echo_fin` | `EchoesBeforeClose`: all received data is echoed | data and FIN taken by one `doRead`: the socket closes before the write event |
| `serverinit_phase` | `InitEntriesAlive`: a replaced cluster is removed from the helper before it is destroyed | an update of a warming cluster that changes its initialization phase leaves the old object in the other map |
| `filters_trailers` | `TrailersOnce`: trailers added in the last `decodeData` are decoded once | a filter adds trailers and stops; `decodeData` sends them past it behind its loop, and the filter's own continuation sends them again |
| `climit_limit` | `LimitAsDocumented`: at most `max_connections` are admitted | a connection that was never counted closes and takes one from the counter; another is admitted above the limit |

### Other observations

Modelling met these too.  They are not runs; where a model leaves such a case
out, that is said.

* `local_ratelimit_impl.cc`: the `uint32_t` sum wraps when `max_tokens +
  tokens_per_fill` reaches 2^32, and a fill then takes tokens out of a full
  bucket.  The theorems about fills assume `NoWrap`.
* `connection_limit.cc:43`: with the counter at zero the same stray close
  contradicts `ASSERT(connections_ > 0)`.  In a release build the counter wraps
  and every later connection is rejected.  `DriftIsOnePerMissedClose` is proved
  about that: one per stray close, modulo the word.
* `connection_impl.cc:676`: `close(FlushWrite)` with buffered data before the
  connection is up, and without a delayed close timeout, does not end: the
  Connected event consumes the only write event.  Hence `ClosingIsWoken`
  speaks of accepted connections.
* `connection_impl.cc:572`: Closed and Read can be delivered together, against
  the assertion: `readDisable(false)` from 2 to 1 above the high watermark injects
  Read while Closed is enabled.
* `connection_impl.cc:327`: with half-close, data left in the read buffer at the
  end of the stream and then a read disable and enable make the connection read
  EOF again with data present, against the assertion in `onRead`.
* `connection_impl.cc:322`: "filter out the repeats so that filters don't have
  to handle repeats", but with three filters the last one can see the end of the
  stream twice. Filter 2 stops an iteration, filter 1 stops the next one, which
  has the end; both call `continueReading()` later, and each iteration reaches
  filter 3 with the end. The proof of "at most once" failed at this step and TLC
  gave the execution with `NumFilters = 3`. What holds, and is proved, is
  `EndStreamBounded`: the i-th filter sees it at most i - 1 times, the first one
  once.
* Connection pool: SETTINGS with a lower limit other than 0 may leave a client
  READY without room; it is given another stream beyond the limit, and the
  cluster's capacity drifts from the sum. Such SETTINGS are in the model and in
  the run (`lowered`); the capacity in `CountersExact` is claimed until the
  first one, everything else always. SETTINGS 0 drains an idle client without
  closing it: only its idle timeout does. `drain()` of a client without unused
  capacity leaves its `remaining_streams_` as it is.
* Connection pool: in a pool that drains for deletion, cancelling a stream from
  `onPoolFailure` closes other connecting clients, whose purge overwrites
  `pending_streams_to_purge_`; the streams there are destroyed without an answer
  (`PendingStreamsKept` says that it happens only then).  A stream submitted
  during a purge and cancelled before it ends is looked for in the wrong list.
* Init manager: a target other than a listener that is destroyed after its
  function was called never reports, and the start waits for ever.
  `StartupFinishes` excuses it (`Orphans`).
* HTTP filters: two filters that hold a request back at the same time share the
  buffer and the trailers flag, so the continuation of one releases what the
  other holds.  What the terminal filter gets stays in order and complete; for
  the others `DataIntact` speaks of requests without that (`contended`).
  With four filters and a limit of 0 that can also leave the codec paused
  although no filter holds anything, once the request is complete: the pause
  then stops nothing.  The proof failed there and TLC gave the execution;
  `PausedByAFilter` speaks of requests that are still coming.
* HTTP filters, the answers of `Mishandled`.  (a) A filter adds trailers in its
  last data and stops: `filter_manager.cc:708` breaks, `:718` sends the trailers past
  it, and when it continues later `doData` stops at `:660`, since the filters
  behind have had the end, so that the body it holds is lost.  (b) Trailers are
  added by a filter that was held back, or while `commonContinue` is in progress:
  they are sent by that and by `:718`.  (c) Filter 2 holds the headers, filter 1
  adds data in its trailers callback, filter 2 answers Continue to that data:
  `commonContinue(2)` decodes trailers inside filter 1's trailers callback, against
  the ASSERT at `:780`, and clears the flag, so that a local reply of filter 1
  afterwards does not mark the iteration as aborted and filter 2 is called
  after the response, against `filter.h:40-42`.  (d) A filter encodes a response
  itself in data that was added in an earlier filter's trailers callback: the
  loop of that filter goes on.  Each was found with TLC by leaving the clause out.
* HTTP filters: data added in `decodeHeaders` by a filter that returns a
  StopAll status is not delivered when it continues.  Filters of the model do
  not do that (`HeadersAnswers`); one that encodes a response or resets the
  stream itself stops the iteration (`StopsIfEnded`).

### Bounds, and why they are enough

* `WordSize` 8 leaves room for every sum in `ratelimit`: no run has the wrap, it is
  the subject of the theorem `Capacity`.  In `climit` it is larger than the number of
  connections, as 2^64 is, and small enough that a wrap below zero happens.
* Two workers (with the fill timer, three threads) give every pairwise race on
  a token word; one descriptor with twice the timer's interval is filled on
  some firings and not on others, and the clock bound 4 covers two of its
  intervals and late timers.
* A buffer limit of 1 byte has its low watermark at 0; with 2 bytes the high
  watermark is crossed, drained and the yield of `doRead` happens.  One
  outstanding user disable plus the watermark's makes the counts 0, 1 and 2
  that `filterChainWantsData` distinguishes.  One byte of kernel queue and two
  bytes to write fill it.  Two filters are enough for a stop, a continue and a
  close at any position.
* Four connections for two places: two admitted, one racing, one rejected, any
  of them never counted.
* Pool: two clients of at most two requests at a time, three requests in all and
  two at once by the circuit breaker: a client becomes busy by concurrency and
  by its lifetime, a stream has to wait while both connect, one connection
  fails while another is up, and a user submits a third stream inside a failure.
  One SETTINGS of 1 lowers a limit of 2 below the requests in flight.
* Server start: one cluster of every kind, each replaced once; three answers of
  CDS allow an update while warming, a removal and a late update.  Two targets:
  LDS, which adds the listener inside its function or later, and the listener,
  which may be destroyed at any time.
* HTTP filters: with three filters one is before and one behind the filter that
  stops; three data frames with a limit of two are below, at and above it.
* Two slots: the second takes the index of the first or a new one; two calls
  of `set` in total queue an old and a new object for the same index; the
  update has a completion or not.

`CHECK_DEADLOCK FALSE` is set where the system may come to rest: a closed
connection, closed connections only, an exited server, a started server with
no updates left, a request that has been answered.

### Fairness

Only weak fairness, of three kinds.  Event loops run what is ready, timers
fire, and handlers go on (`Fairness`): libevent does that as long as the thread
runs.  Callbacks return (`EchoFairness`): a filter that never returned would
stop its worker altogether.  In `echo` the peer reads what it is sent: the
property is about what the code does then.  Users are never obliged to call anything,
nobody has to close a connection.  In `climit` a `compare_exchange_weak` that
goes on being able to succeed succeeds in the end, as the C++ standard intends.
In `pool` handlers go on, connection attempts succeed, fail or time out, requests
end and idle clients that drain time out: the code has a timer for the first
and the last, and requests have the users' timeouts.  In `serverinit` functions
go on, clusters finish (discovery and health checks have timeouts), RTDS, CDS
and the targets' subscriptions answer or time out (`initial_fetch_timeout`); CDS
never has to send an update.  In `filters` functions go on and a filter that has
stopped the iteration continues or answers in the end, as `envoy/http/filter.h`
demands of filters.

## 4. Proofs

All theorems have the form `Spec => []P` or a refinement, for every value of the
constants that the named assumptions allow.

* `LocalRateLimiterProofs`, from `ConfigAssumption` (what the constructor
  accepts).  The inductive invariant is `TypeOK`, `CasHasToken`,
  `TokensConserved` and `NeverOverfilled`.  `CasHasToken` is needed because the
  CAS stores `expected - 1`: without it a successful CAS could leave the word.
  Theorems: `TypeCorrect`, `Conservation`, `Capacity`; and under `NoWrap` (the
  sum of `max_tokens` and `tokens_per_fill` fits the word) `Refinement`, that the
  CAS loops implement `TokenBucket`, and `FillsOnlyAdd`.  `RateIsKept` needs
  `RateInv` as well: a descriptor's fills are paid for by the time up to its
  fill time, the default bucket's by the timer, whose due time never runs ahead
  of the clock by more than an interval.  A late timer therefore only loses
  fills.
* `ConnectionProofs`, from `ConnectionAssumption`, for any number of filters, any
  limit and any traffic.  The invariant has three parts.  `ConnInv` is about
  the members: types, `Balanced` (the disable count), `TimerInv` (a delayed
  state with a timeout has a running timer, waiting implies a timeout), and
  `Quiet` (no events after the socket is closed).  `StackOK` is about the call
  stack: only frames that wait for a callee lie below the running one, and the
  filter loop runs only while the connection is open.  `EventsOK` ties the
  events raised so far to `open` and `connecting`.  Each method has a lemma
  saying what it keeps, each action a lemma made of those.  Theorems:
  `TypeCorrect` (so the unsigned `read_disable_count_` never wraps),
  `ReadDisablesBalance`, `ClosingIsTimed`, `FiltersStopAtClose`,
  `CloseEventsAreUnique`.
  What flows through the connection rests on that invariant.  `WakeInv` says of
  everything that can wait in an open connection which wakeup it has: an armed
  file event that is registered for it, an injected event, or a handler on the
  stack that will look at it.  The handler is the part that
  makes it inductive: inside a handler the edge has been consumed.
  `ConnectInv` says who may inject a write event before the kernel has answered,
  `OutputInv` that bytes written are in the write buffer or with the kernel.
  `EndInv` counts: a filter that has stopped the iteration, or that the loop has
  passed, can bring the end of the stream to the filters behind it once more, so
  what filter m has seen plus the number of those before it is at most m - 1.
  Theorems: `NoWakeupIsLost`, `ConnectedIsTrue`, `EndsOfStreamAreKept`.
* `Echo2Proofs`, from `EchoAssumption` besides.  The echo's steps keep the
  invariant of the connection, and while it is open what was received is in the
  read buffer or was written.  A step takes bytes from the kernel, moves them
  from one buffer to the other, or sends them; only the first and the last are
  steps of `EchoService`.  Theorems: `EchoIsFaithful`, the refinement, and
  `EchoIsWoken`.
* `ConnectionLimitProofs`, from `ConnectionLimitAssumption` (finitely many
  connections, fewer than the values of the word).  The invariant has the count
  and the limit off by one for each connection of `Missed`, modulo the word, and
  that a filter about to compare and exchange has
  seen a value below the limit.  The set lemmas say how the counted sets grow
  and shrink when one connection changes phase.  Theorems: `CountsAreExact`,
  `LimitIsKept`, which say that closes of connections that were never counted are
  the only way to a wrong count or above the documented limit, and
  `DriftIsOnePerMissedClose`, what each of them does in a release build.

* `ServerInitProofs`, from `TargetsAssumption` (finitely many targets), for any
  clusters, listeners and updates.  The invariant `ManagerInv` adds `HandlesWait` to
  the count and the notification: the handles that the loop of `initialize()` has
  not visited stand for different targets that have not been called.  Without it
  the loop could count off a target that has already reported.  `ReportKeeps` is
  the one lemma for all callers of `onTargetReady`; `WhoTouchesTheManager` reduces
  the server's steps to the manager's.  Theorems: `CountIsExact`,
  `WatcherToldOnce`, and `WorkersWaitForTargets`: the workers start at most once,
  when all targets are ready.

  The clusters need `InitAssumption` (no name is static and dynamic: CDS cannot
  change a static cluster) and the hypothesis `~PhaseMayChange`; with updates
  that change the phase the statements are false, as `serverinit_phase` shows.
  `ClusterInv` has five parts.  `TableInv`: the maps hold clusters under their
  names and in their phase, and what is initializing has not finished.
  `StateInv`: which states of the helper go with which states of CDS and RTDS.
  `StackInv`: `Shape` and `Fits` say of every function in progress what it may
  rely on, and `MayRunAbove` which functions may run inside which; without it
  the loop over the secondary clusters could meet an entry that a callee erased,
  or one that has been started.  `Holds`: the innermost function has a cluster
  that exists.  `EntryInv` goes both ways: the helper waits only for what is being
  brought up (`Expected`), and for all of it but the clusters it has not been
  told of and those that are being removed (`Tracked`).  Every action has a lemma.
  `ManagerLast` adds that the init manager starts after the clusters.  Theorems:
  `ClusterInvariant`, `ReferencesStayValid`, `InitializationIsTracked`,
  `ReplacedClustersAreForgotten`, and the action property `StartIsOrdered`.

* `ThreadLocalProofs`, from `ThreadLocalAssumption`, for any number of workers,
  slots and calls.  `IndexInv` relates the owners' vector, the free list and the
  indexes that slots remember; `DataInv` and `PostedInv` say that objects and
  callbacks carry the index of their slot.  The hard part is an index that is
  reused while callbacks of its former owner are queued: `FormerInv` says that
  these come before everything of the new owner, `SetsInv`, `UpdatesInv` and
  `CurrentInv` what a slot's object will be when a callback's turn comes
  (`Latest`).  `DoneInv` ties a completion to the callbacks that hold it.
  Theorems: `RecyclingIsSafe`, `CompletionComesLast`,
  `ExitedWorkersAreLeftAlone`, and `Refinement`: queues, indexes and guards
  implement `SlotStore`, where every thread has one object per slot (`ViewMap`).

* `HttpFilterManagerProofs`, from `FiltersAssumption`, for any number of filters,
  frames and limits, and for filters whose answers are within the contract and
  not among those of `Mishandled`: every theorem has the hypothesis `Cautious`.
  `ControlInv` says how far the headers
  have come: `Reach` has one filter h, the ones before it have let them pass,
  h has stopped them unless a function on the stack carries them on, and the
  ones behind have not been touched.  `FrameInv` says of every function in
  progress what it may rely on when its callee returns, `TopInv` what the
  innermost one may rely on now; both are needed because a continuation inside a
  callback changes the state under its callers.  `PauseInv`, `EndInv` and
  `ReleaseInv` relate the pause to the buffer and to whoever will empty it,
  `StartInv` is about the time before the headers.  `ResponseInv` is for
  responses and for `:780`: only a trailers callback goes on after an inner iteration
  without asking whether the response is out, so it is the innermost function or
  waits for the one frame of data that it has added, and the mark of the
  callback is there as long as it runs; no contention is excused.
  `OrderInv` follows the codec's data: the terminal filter has only
  data older than what is buffered, both are in order, a frame that carries new
  data carries the newest, and while it does it is the only function in progress.
  That is enough for the terminal filter, since whatever several filters release,
  there is one buffer and it is given away whole.  Theorems: `ControlInvariance`,
  `ManagerAsserts`, `PauseIsReleased`, `ResponseInvariance`, `ResponseIsFinal`,
  `OrderInvariance`, `TerminalOrder` (the second part of `DataIntact`).

* `ConnPoolProofs`, from `PoolAssumption`, for any finite number of clients and
  streams, any limits and breakers and any order of events.  The counters are sums
  over the clients, and removing from a list and the loop of `onUpstreamReady` are
  recursive functions.  What they compute is shown by induction: a set of numbers
  has a least element (`LeastNumber`), so a set that has 0 and every successor is
  `Nat` (`Induction`), and likewise for the subsets of a finite set
  (`SubsetInduction`); that each recursive function exists is proved in the same
  way.  `SumChangeOne` and `SumSplit` then say how the sums follow when one client
  changes or several go.  `PoolInv` is `Good` and `Held`.  `Core` in `Good` has the
  types, the lists and the counters, `Apart` that a stream waits or has a client,
  `Served` that none waits while a client is ready, `Rests` that a deleted pool is
  idle; every part of a handler keeps all of them, except that `Served` fails between
  a client's becoming ready and the loop.  `Held` is about the handler in which
  users call the pool: the client that goes down stays in its list until the
  handler is done, and while streams are purged it is spent, so that removing it
  changes no counter.  `Keeps` is what a part of a handler promises to the next.
  Theorems, without any hypothesis: `PoolInvariant`, `PoolCountersExact` (all
  counters of the pool, and that no unsigned one goes below zero),
  `ReadyClientsServe`, `DeletedPoolsRest` and the action property
  `PendingStreams`; and `ClusterStateCorrect`, that with any SETTINGS the cluster's
  capacity is exact too until a peer lowers its limit to a value other than 0.
  After that it is false of the code (section 3).

### Only model-checked

Liveness (`EchoesInTheEnd`, `DecisionsEnd`, `ObjectsReleased`, `CompletionRuns`,
`PendingAnswered`, `DrainedPoolDeleted`, `StartupFinishes`, `WarmingEnds`,
`RequestDelivered`), which needs fairness and `ENABLED`. The invariant
`ClosingIsWoken` of `Connection`. Two parts of `DataIntact` of
`HttpFilterManager`: `GivenInOrder`, whose inductive invariant would relate the
buffer and the data of every function in progress to what each filter has seen,
and `NothingLost`; the three filters of the run are what supports them. The
other way round, the type invariants of `Connection` and `LocalRateLimiter`,
`NeverOverfilled` and `FillNeverRemoves` are proved and have no run.

## 5. Not modelled

* Connection: bytes-sent callbacks, data injected by a filter
  (`injectReadDataToFilterChain`), `removeReadFilter`, `continueReading()` called
  inside a callback, re-entry from the write
  buffer's watermark callbacks, the transport connect timeout of server
  connections, socket options, stats, level and emulated edge triggers, the
  overflow watermark.  Write filters are present only by their outcome.
* Transport sockets other than the raw one: TLS is BoringSSL's.
* Thread local slots: the `dispatcher()` accessor, registration of threads
  after the first `set`, initializers that return no object.
* Connection pool: HTTP/1, TCP and mixed (ALPN) pools, preconnecting with a
  ratio above 1, connections that cannot be created at all
  (`FailedToCreateConnection`, `conn_pool_base.cc:144-148`, `:269-276`: HTTP/3
  only), users that call the pool from `onPoolReady`, the idle timeout of
  connections that do not drain.
* Init manager: shared targets, the destruction of the watcher, several managers
  inside each other; a cluster's own init manager is part of its one step.
* Server start: the thread local copies of clusters, merged host updates, ADS
  pausing; exceptions: of the creation of a cluster
  (`cluster_manager_impl.cc:751-770`, caught for each cluster of an update in
  `cds_api_helper.cc:52-54`) and of `onRuntimeReady`, which ends in `shutdown()`
  (`server.cc:665-670`). That an iterator of `absl::flat_hash_map` survives the
  erasure of other entries is assumed. CDS updates are bounded in number: with
  endless updates that keep replacing a warming cluster the start may not end.
* HTTP filter manager: the encoder side, metadata, 100-continue, upgrades,
  matching, `ContinueAndDontEndStream`, filters that destroy the stream,
  `continueDecoding` called inside a callback, `addDecodedData` in `decodeData`
  (`:738`) and outside callbacks (`:736`), cases 2 and 3 of its comment,
  `injectDecodedDataToFilterChain`, the runtime guards in their old setting. The
  codec may still send what was in flight when it is paused.
* The dispatcher's deferred deletion: an object is assumed to outlive the handler
  that defers its deletion.
* The memory orders of the atomics: the loops touch one word each, whose
  modification order is total whatever the order argument.
* Codecs, QUIC, formatting, generated API code; the components at the end of
  the table in section 1.

## 6. Plan

Done: the modules above.  Next, in this order:

1. Proofs: the rest of `DataIntact` of `HttpFilterManager`.  `ConnPool` with users
   that call the pool from `onPoolReady`, inside the loop of `onUpstreamReady`.
2. `HttpFilterManager`: the encoder side and local replies that go through it.
3. `Dispatcher`: deferred deletion with destructors that defer, and posted
   callbacks; the queue of `ThreadLocal` becomes its abstract view.
4. Router retries and timeouts on `ConnPool`; listener warming and draining;
   the health checkers' thresholds and timers.

## 7. Running

    tlc -config MCConnection.cfg MCConnection
    tlc -config MCServerInit.cfg MCServerInit
    tlapm ServerInitProofs.tla
