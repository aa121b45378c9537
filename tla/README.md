# fast_server: TLA+ verification project

fast_server holds three programs: `muduo`, a TCP server library (a main reactor
that accepts, sub-reactors that serve, one event loop and thread each) with a
second, single-header server (`muduo/server.hpp`) beside it; `ihs`, parts of a
trading system (lock-free rings, a pipeline of threads, two FIX clients, a
receiver of packets); and `obr`, the reconstruction of an order book.  This
project models the concurrent and stateful parts of all three.  Every definition
names the lines it stands for in `PROJECT.json` ("map"); definitions marked
external there are the kernel's, a library's or a peer's: epoll, pipes, eventfd,
timerfd, TCP, clients and counterparties.

## Inventory

| Component | State | Operations | Hard about it |
|---|---|---|---|
| SubReactor loop (`SubReactor.cpp`, `Reactor.hpp`, `Epoll.cpp`) | `isRunning_`, pipe, `newConnections_`, `sendQueue_`, `connectionMap_` | `start`, `stop`, `join`, `enqueueNewConnection`, `enqueueSend`, `handlePipe` | wakeups over an edge-triggered, bounded pipe; three kinds of threads |
| Spinlock (`Utils.hpp`) | one atomic flag | `lock`, `unlock` | contention; the vectors it protects are not atomic |
| SimpleBuffer | block, read and write position | `write`, `advance`, `compact`, `ensureCapacity` | offsets at the boundary, memory growth |
| Timers (`SubReactor.cpp` 223-364) | `timers_`, timerfd, ids | `registerTimer`, `cancelTimer`, `updateNextTimer`, `handleTimerEvents` | clock read outside the lock, callbacks outside the lock, one timerfd for all |
| Connections (`SubReactor.cpp` 104-210) | `connectionMap_`, epoll set, descriptors | `processNewConnections`, `handleEvent`, `handleRead`, `removeConnection` | edge triggering, FIN and RST at any moment, reuse of descriptors within a batch |
| Connection (`Connection.cpp`) | `sendBuffer_`, `sendMutex_`, `tryClose_`, `closed_` | `send`, `sendBufferedData`, `close`, `checkNeedClose` | full sockets, close with unsent data, unlocked reads |
| MainReactor | listening socket, `next_sub_idx_` | `bindAddress`, `handleAccept`, `run` | one accept for an edge, int overflow |
| Timer wheel of `server.hpp` (587-742) | `tick_`, `wheel_`, `timers_`, a timerfd | `AddTimerTask`, `RefreshTimerTask`, `CancelTimerTask`, `Step`, `Ontime` | a task fires in its destructor; refreshes leave pointers behind; ids of two counters share one map |
| Event loop, Epoller, Connection and TcpServer of `server.hpp` | `tasks_`, an eventfd, `channels_`, `conns_`, each connection's `statu_` and buffers | `RunInLoop`, `ExecTaskInQueue`, `EventHandler`, `Send`, `Shutdown`, `Release`, `NewConnection` | tasks bound to raw pointers, run after the batch of events; one connection ended by two causes; the order of tasks of three threads |
| Buffer of `server.hpp` (55-215) | a vector, reader and writer offset | `WriteAndPushOffSet`, `ReadAndPushOffSet`, `GetLine`, `Clear`, `EnsureWritableSpaceEnough` | head and tail room, growth |
| Loop threads of `server.hpp` | `loops_`, `next_index_`, each thread's `mutex_`, `cond_`, `loop_` | `Create`, `Loop`, `ThreadRoutine`, `NextLoop`, `Acceptor::ReadHandler` | a thread started before the members it uses are constructed |
| Example server (`example/main.cpp`) | `buffer_`, `timerId_` | `onAccepted`, `onMessage`, `onDisconnected`, `encoder`, `decode` | frames cut anywhere; state shared by all connections |
| Rings (`ihs/include`, and inside four programs) | two indices, slots, flags, cached indices | push, pop, enqueue, dequeue | indices about to wrap, full and empty, several producers |
| Trading pipeline (`trade.hpp`, `trade.cpp`) | `ConcurrentQueue`s, module threads, a pool, `running_` flags | `push`, `pop` with and without a timeout, `start`, `stop`, destructors | wakeups lost by a `stop` without the mutex; order of the shutdown |
| `FIX42Protocol` (`fix42.cpp`) | flags, sequence numbers, `mutex_`, three threads | `connect`, `logon`, orders, `logout`, `disconnect`, the loops | a join with the mutex held; framing; numbers taken by three threads |
| `FixSession` (`fix42_a.cpp`) | `state_`, `sockfd_`, `msgSeqNum_`, a message queue, three threads | `connect`, `logon`, `sendMessage`, `disconnect`, the loops | a thread that joins itself, a disconnect that wakes nobody |
| Packet receiver (`what.cpp`) | a pool of buffers, a queue for each worker | receive, dispatch, work, give back | buffers on error paths, full queues, an empty pool |
| FIX encoders and parsers | byte buffers | encode, decode | layout of the body length and checksum |
| Order book (`obr/src/full_order.cpp`) | price levels of both sides | `insertOrder`, `flushStatus` | auction price at ties, what is left of a level |

How they interact: the main thread's `handleAccept` pushes a descriptor into a
sub-reactor's mailbox and writes a byte to its pipe.  The sub-reactor's thread
turns descriptors into `Connection`s and calls the application (`TcpSpi`).  The
application calls `Connection::send` from any thread; it fills `sendBuffer_`
under `sendMutex_`, pushes the descriptor into `sendQueue_` and writes a byte.
The sub-reactor looks the descriptor up in `connectionMap_` and writes the buffer
to the socket.  Timers run in the sub-reactor's thread and may be registered and
cancelled from any thread.  In `server.hpp` the
base loop's `Acceptor` gives each connection to the `EventLoop` that `NextLoop`
names, and everything done to a connection is a task of that loop.  In the
pipeline of `ihs` quotes, order requests and responses pass from thread to thread
through `ConcurrentQueue`s; each FIX client has a thread that receives and one that
sends heartbeats or processes messages beside the caller's.

What makes each part correct: no wakeup, descriptor, byte or edge is lost; none
is used twice; map, epoll and descriptor table agree; the application hears of a
connection's end once, for the right connection, after all its data; buffers and
rings are queues; timers run when due, not more often, not after a cancel;
messages carry consecutive numbers; a buffer has one holder; the auction deals
as much as it can; and what has begun ends.

## Modules

**SubReactor** models the loop and the mailboxes step by step: a push and the byte
after it are two actions, as are the read of the pipe and the two moves of the
mailboxes; `handlePipe` is thus `handlePipeRead`, `processNewConnections`,
`CreateConnection`/`onAcceptedReturn` for each descriptor, `processSendQueue`,
`SwapSendQueue`, `handleWrite` for each descriptor and `handlePipeReturn`.  A
callback may call `send` from the reactor's own thread.  The kernel: the pipe has
a capacity and refuses a byte when full; a ready list receives an entry at an
edge and `epoll_wait` looks again whether an entry is still readable.  Which
writes are edges depends on the Linux version (`EdgeOnEveryWrite`); the
assumption `PipeAssumption` says what the code needs: every write is an edge, or
one read empties the pipe.  The code's 1024 against 64 KiB needs the former.

**Spinlock** models `exchange`, the spinning loads and the releasing store as
separate steps, and the vector as something read and written in two steps.  It
implements **Mailbox**, the atomic push and take that SubReactor uses.  Memory is
sequentially consistent in the model; the acquire and release on the only flag
justify that for data touched inside the lock.

**SimpleBuffer** models all methods on a block of bytes with offsets, junk
included, and implements **ByteQueue**.

**Timers** models the set of timers with its order by expiration only, the
timerfd (settime forgets unread expirations, zero disarms), the clock, and the
points where the code is outside `timers_mutex_`.  With `Lag` the clock may go on
at these points, with `LateCancel` a due timer may be cancelled.  `NextIsArmed`
says that nothing is wrong with timers in the future, `DueTimersRun` that a due one is
missed only when the timerfd was last set while one was due already (`Overlooked`).

**Connections** models the life of descriptors: accept with reuse of numbers,
EPOLL_CTL_ADD of a socket that may already be readable, the batch of events, the
read loop unit by unit, EPOLLIN with EPOLLHUP, the clearing of the event's flags
by `deleteEpollFd`, and `close(true)` in timer callbacks.

**Connection** models the send side of one connection with several senders, a
socket that takes only part of a write, and both forms of `close`.  `close` reads
the buffer's size without the lock: while a sender is inside `write` (and another
send may have returned) it sees the size before that write or after it, and with
`TornSize = TRUE` 0 as well, computed from a position before a move of the data and
one after it.  `checkNeedClose` has no caller and so no action.

**MainReactor** models the backlog, the edge-triggered listening socket, one
`accept` for each event, and the int index with its width.

**TimerWheel** models the wheel of `server.hpp` and its two users, the release of
inactive connections and `TcpServer::AddTimerTask`.  A slot is the set of tasks it
points to (how often does not matter), a task exists while a slot holds it, and
the destruction of the last pointer runs the callback and removes the id.  `mode`
says who shares the wheel: a loop of the pool has only connections (`sub`), the
base loop only the server's own timers (`base`), a server without a pool both
(`single`).

**Server** models the rest of `server.hpp` that changes state: three threads (the
base loop, one loop of the pool, the application), the loop's events and then
its tasks, the two halves of a channel's `EventHandler`, the task queue with its
eventfd, level-triggered epoll by descriptor, descriptors reused at once, and
the life of a `Connection` object from `accept` to its destructor.  A push and
the write of the eventfd are two actions.  Tasks hold raw pointers; `Alive` says
which `shared_ptr`s exist, and a task on a dead object sets `dead`.  A connection may
be ended for several reasons, at any moment and in any order: the peer finishes or
resets, its timer fires, the application's thread or a `message_callback_` calls
`Shutdown`, the latter also from within `ShutdownInLoop` (`nested`).  The constant
`Causes` says which of them a run allows for a connection; no handler is guarded by
what has ended the connection before, and `ends` records it.
`AnyHandler`'s refresh and the moment a timer fires belong to TimerWheel; here a
timer may fire at any tick.  Four constants open situations in which the code
breaks its promises: `ResetAnyTime`, `LateSend`, `EarlyDrop`, `StaleErrno`.

**LoopThreads** models how that server starts.  `thread_` is declared before `mutex_`
and `cond_`, so that the new thread may lock a mutex that is not constructed; its
memory then looks free (`none`) or held (`junk`), and the constructor forgets a
lock that was taken.  With `InOrder = TRUE` the members are the other way round
and `LoopsObtained` holds.  A connection may be accepted at any moment after the start.

**ServerBuffer** models the vector of `server.hpp`'s Buffer with its bytes and
offsets.  It implements ByteQueue, as SimpleBuffer does.

**CubeServer** models the application of `example/main.cpp` on top of the library:
one `buffer_` and one `timerId_` for all connections, pieces of frames as TCP cuts
them, and the decoder's loop one frame at a time.  `Orderly = TRUE` lets
connections follow one another, the only use in which the code is right.  A frame is
delivered when the first unit still on its way belongs to a later one (`whole`).

**Rings** models thirteen classes of ring queue.  All have a producer's index
(`in`), a consumer's (`out`) and slots; they differ in whether the indices wrap at
the capacity or run on, in how full and empty are told, in cached indices
and in flags or sequence numbers of slots.  Every atomic access is a step, and so is
the copy of an item.  All classes start at 0 and just before the wrap of their
indices.  Two of them, `MPSCQueue` and `SPSCQueue` of `kk.hpp`, run on and tell empty
by `>=` (lines 46 and 99): once the producer's index has wrapped and the consumer's
has not (`Hides`), they take what they hold for nothing, and `AllTaken` makes that
exception for them alone.  Memory is sequentially consistent, which the acquire and release of
the indices justify; where a class uses plain integers, program order is assumed.
The number of items put (`MaxItems`) bounds the claims of several producers too.

**PacketReceiver** models the receive loop of `what.cpp`, every path of it that takes
or gives back a buffer, its workers and its end.

**Trading** models the pipeline.  A `pop` that finds nothing goes on to wait, holding
the mutex until it does (`park`), then `parked`; a `push` takes the mutex, `stop()` does
not, and its flag and its notification are two steps.  The main thread follows
`Script`, from the start of the modules to the last destructor.

**Fix42** models `FIX42Protocol`.  Each send is three steps: flags, number (under
`mutex_`), socket.  The receive loop cuts at every SOH, the end of a field, where its
comment says it extracts a message: `Framing = "field"` is the code, and
`"message"` what the comment says, under which the handlers that the code never
reaches are exercised.  **FixSession** models the other client, with
`socketMutex_` held from the number to the end of `send`, a processing thread that may
call `disconnect` and so join itself, and the same choice of framing
(`WholeMessages`).

**OrderBook** models the opening auction of `full_order.cpp` as operators on the two
sides: a side is a function from prices to levels (`quantity`, `orders`), the order of
the map is a rank, and on it rest the prefix sums, the prices tried, the comparison of
candidates, the matching of orders in price-time order and the levels reported.  The
loops of `flushStatus` are recursive functions, one value for each pass.  Its
properties are reference definitions: the largest volume over ALL prices, what is left
of each side by counting.

`MC*` modules put several of these side by side in one run: `part` (or `phase`) is
chosen at the start, steps are those of that part, and the others stay as they
start.  They also give symmetry sets, constants that a cfg cannot write, and the
fairness.  `*_proofs` modules hold the theorems.  Modules that share a run have a
specification of their own without fairness (`ConnSpec`, `MainSpec`, `CubeSpec`,
`WheelSpec`, `ServerBufferSpec`, `RingSpec`, `LoopThreadsSpec`, `PacketSpec`, `FixSpec`,
`SessionSpec`), which the theorems are about.

## Runs

| Run | Bounds | Shows |
|---|---|---|
| `subreactor` | 2 descriptors, 1 sender besides the acceptor and the reactor's own callbacks, pipe of 2 read 1 byte at a time, 2 sends, 1 socket event | no lost wakeup, no stranded data; descriptors served, data flushed, `stop()` obeyed |
| `connection` | bytes: capacity 3, payloads of up to 3 bytes, 6 pending; sends: 2 senders, 4 sends, socket of 2, chunk of 2; accept: 3 sub-reactors, 4-bit int, 18 connections; example: 2 clients one after the other, 2 frames each, bodies of 1 and 2 | the buffer is a queue of bytes in bounded memory; order and completeness on the wire, graceful close, draining; round robin where the index wraps; each frame answered wherever it is cut |
| `structures` | mailbox: 2 pushers, 1 taker, 3 pushes; rings: capacity 2, indices of 8 values starting for every class at 0 and at 7, 2 producers where the class allows them, 3 items; buffer: initial size 2, writes of up to 2, 5 waiting; book: 4 prices, quantities 1 and 2, 5 orders, 2 levels shown | an atomic mailbox and progress; rings return what was put, in order and, but for `>=` at the wrap, all of it, no slot used by two; the second buffer is a queue too; maximal deal, right leftovers, sums that add up |
| `timers` | 2 timers, intervals 0 to 2, clock to 4, two callers, any delay between clock and lock, cancellations of due timers; wheel: 4 slots, idle timeout 3, server timeouts 1, 2, 4, 2 ids of each kind, 3 tasks, 2 expirations behind | the timerfd is armed for the next timer in the future, due timers run unless `updateNextTimer` came when one was due already, cancel and frequency as asked; wheel tasks fire on time after any refreshes, enabled connections are armed |
| `connections` | 3 connections, 2 descriptors, 2 units each, 1 timer event | no edge lost, ends of connections reported once, after the data |
| `server` | start: pool of 2, 2 connections; serve: 2 connections on 1 descriptor, 1 unit received, 2 sends, socket of 1, every reason to end for the first connection, a FIN for the second, which gets its descriptor | connections get loops that exist, in turn; no task overlooked, graceful shutdown, nothing left over, one release as long as there is one reason |
| `trading` | pipeline: 1 pool thread, 2 quotes of 3 kinds, 1 response; `fix42`: 2 calls, 1 heartbeat, 1 message received; `fix42_a`: 2 requests, 3 messages received; packets: 3 buffers, 2 workers, rings of 2, 2 datagrams waiting | the pipeline stops; numbers neither doubled nor forgotten, in order on the wire; a buffer has one holder and comes back |
| `connections_fin_with_data` (violation) | 2 connections, 1 unit each | an end that arrives with data is never noticed |
| `structures_mpsc` (violation) | the linked MPSC queue with 2 producers | both write one slot before the CAS; an item is lost |
| `trading_framing` (violation) | as `trading`, fields for messages | a logon that is accepted never logs the session on |
| `server_loop_start` (violation) | as `server`, the start | the mutex is used before it is constructed; the start hangs |
| `server_two_ends` (violation) | 1 connection without data, a FIN and the application's `Shutdown` | two handlers queue `Release`, it runs twice |

The bounds are the least at which the cases of interest happen: a full pipe with
bytes left after a read, a slide and a growth, two timers expiring in one call,
a descriptor used again by a third connection, an index that passes both places
where it jumps, a ring that is full, empty and wraps around the type, a wheel
that goes round, a descriptor closed and accepted again while tasks for its
former owner are queued, output that does not fit the socket, an exhausted pool
of buffers, an auction with a tie and a level filled in part.  The passing runs say
`CHECK_DEADLOCK FALSE`: a server whose clients and callers have nothing more to do
really waits for ever, and the bounds on calls and clocks stop the models for good.

Other disagreements between code and comments, or between the code and what its
callers need, have a configuration each; TLC finds its property violated:

- `Timers_recurring.cfg`: `timers_` orders by expiration only, so a recurring timer
  that comes to share its expiration is dropped; `RecurringStays` fails.
- `Timers_single.cfg`: one loop for connections and server timers; the ids of two
  counters share one map, a server timer takes over a connection's id and the
  connection is never released; `EnabledIsArmed` fails.
- `Connection_full_socket.cfg`: what is left after EAGAIN waits for the next `send`,
  as EPOLLOUT is never asked for; `BufferDrains` fails.
- `Connection_pending_close.cfg`: a close put off until the buffer is empty is never
  done, as `checkNeedClose` has no caller; `PendingCloseCompletes` fails.
- `Connection_burst.cfg`: one `accept` for an edge leaves the second of two
  connections in the backlog; `WaitingIsServed` fails.
- `Connection_shared_buffer.cfg`: the comment says "write connection's private buffer"
  (`example/main.cpp` 174), but all clients share one `buffer_`; with two of them at a time
  pieces of their frames are mixed and `FramesAnswered` fails.
- `Connection_shared_timer.cfg`: the example server keeps one `timerId_`; the end of
  the first of two connections cancels the heartbeat of the second; `OwnHeartbeat` fails.
- `Structures_single_slot.cfg`: the `static_assert` of `kk.hpp` 251 allows an `MPSCRing` of
  one slot, but the sequence of a filled slot (`current_tail + 1`, line 393) is then
  the index of the next push, whose test "检查槽位是否可用" (check whether the slot is
  available, lines 365-367) takes it for free and overwrites it; `TakenIsPrefix` fails.
- `Trading_pool.cfg`: `ConcurrentQueue::stop` sets its flag and notifies without the
  mutex; a worker between its test and its wait misses it and the pool's
  destructor joins for ever; `PoolEnds` fails.
- `Trading_logout.cfg`: the LOGOUT handler joins the heartbeat thread with `mutex_`
  held, which that thread needs for its number; `LogoutEnds` fails.
- `Trading_disconnect.cfg`: `FixSession::disconnect` wakes nobody; the processing thread
  waits on its condition for ever and the join with it; `DisconnectReturns` fails.

Others show up when a constant of a run is changed, or one of its properties replaced:

- `SubReactor.cfg` with `EarlyStop = TRUE`: a `stop()` before the new thread has
  set `isRunning_` (`SubReactor.cpp` 43) is overwritten and `StopStops` fails.
- `Timers.cfg` with `NoneOverlooked` for its properties: a thread waits between reading
  the clock and the lock, or `cancelTimer` removes a timer that is due and the next one is
  due as well; `updateNextTimer` then turns a time that is past into zero (line 287), which
  disarms the timerfd.  With `Lag = FALSE` and `LateCancel = FALSE` it never happens.
- `Connection.cfg` with `TornSize = TRUE`: `close` computes 0 from a position before and one
  after a sender's write has moved the data, and `GracefulCloseKeepsData` fails.
- `Structures.cfg` with `NothingHidden` for its properties: `dequeue` of `MPSCQueue` and
  `SPSCQueue` says "queue is empty" (`kk.hpp` 46-47, 99-100) of a ring whose producer's
  index has wrapped, and the items in it are never taken.  The index is a `size_t`: it takes
  2^64 items, or 2^32 where `size_t` has 32 bits, so that this is a limit rather than a fault.
- `Connections.cfg` with `CloseMidBatch = TRUE`: a timer callback closes a
  connection whose event waits in the same batch; `onDisconnected` is called
  with a null connection (line 171) or, after reuse of the descriptor, for a
  healthy one, and `DisconnectedOnce` fails.
- `Timers.cfg` with `ReEnable = TRUE`: enabling the release while the cancelled
  task is still in the wheel refreshes the cancelled task; `EnabledIsArmed` fails.
- `Timers.cfg` with 0 or 5 in `Timeouts`: a timeout of 0 fires after a whole
  round, one greater than `Capacity` a round early; `FiresOnTime` fails.
- `Server.cfg` with `ResetAnyTime = TRUE`: a reset of a connection without output is
  released by the read and by the error handler; `ReleasedOnceForOneReason` fails.
- `Server.cfg` with `LateSend = TRUE`: a `Send` after `Shutdown` monitors writes
  again and the connection is released twice; `ReleasedOnceForOneReason` fails.
- `Server.cfg` with `EarlyDrop = TRUE`: the application drops its last pointer while
  a call is queued, and the task runs on a destroyed object;
  `ReleasedOnceForOneReason` fails.
- module `Server` with `StaleErrno = TRUE`, one connection and every reason, `FairSpec` and
  `PROPERTY EndedGoes`: `Recv` takes the end of the data for "no data" and the
  loop spins for ever.  With `StaleErrno = FALSE` the property holds.

### Fairness

Liveness is stated under weak fairness of each thread's own steps: the operating
system schedules threads and nobody holds a lock for ever.  The formulas are in
the specifications of SubReactor, Connections and Server and, for modules that
share a run, in `MCConnection`, `MCStructures`, `MCTimers`, `MCServer` (`StartSpec`) and
`MCTrading`.  Strong fairness is assumed in three places.  `epoll_wait` takes its
ready list in order, so an entry is not passed over for ever (SubReactor,
Connections).  A thread that wants `sendMutex_` gets it if it is free again and
again: `std::mutex` on Linux does not promise this, but a call holds it for a
bounded time and the number of callers is finite (SubReactor's `handleWrite`,
Connection).  Nothing is assumed of callers, clients, counterparties, the user or
the application, except in module Connection that the peer reads, without which
a full socket proves nothing, and in Rings that a caller whose push or pop failed
tries again, as the busy-waiting forms and the callers' loops do.  `StopReturns`
needs the timeouts of the modules' `pop`s, which are steps of the waiting thread: the clock
goes on.  Module Server's run checks safety, and leftovers by `EndedIsForgotten`: no
state at rest has an ended connection left, unless a connection was touched after its release.  `AtRest` writes the guards out, so that
it can be proved about; on the run's states it equals "no step of the loops, no
notification and no read of a peer is enabled".

## Proofs

The theorems hold for every value of the constants: any number of threads,
connections, descriptors, timers, items, any sizes and bounds.  Each rests on an
inductive invariant that TLC checked first.  Where a theorem has hypotheses, they
exclude the situations in which the configurations and constants above show the
property to fail; for the rings, also several consumers, which none of the classes
supports, and an index that passes through all its values while a push waits.

| Module | Theorem | Hypotheses | Property |
|---|---|---|---|
| `SubReactor_proofs` | `TypeCorrect`, `NoLostAcceptHolds`, `NoLostSendHolds`, `PipeBytesCoveredHolds`, `NoStrandedDataHolds` | | wakeups and data to send |
| `SimpleBuffer_proofs` | `TypeCorrect`, `NoJunkSentHolds`, `WasteBoundedHolds`, `MemoryBoundedHolds`, `Refinement` | | bounded memory; implements ByteQueue |
| | `ServerBufferRefinement` | | implements ByteQueue |
| `Connection_proofs` | `ConnectionWireFollowsBuffer` | | order on the wire |
| | `ConnectionGracefulClose` | `~TornSize` | graceful close |
| | `MainReactorBalanced` | | round robin |
| | `CubeFramesAnswered` | `Orderly` | frames answered |
| `Connections_proofs` | `ConnectionsNoLostEdge`, `ConnectionsDisconnectedOnce`, `ConnectionsNothingLost` | `~CloseMidBatch` | edges, ends of connections |
| `Timers_proofs` | `TimersNextIsArmed` | | timerfd armed |
| | `TimersRunAsAsked` | | number of runs |
| | `WheelFiresOnTime` | timeouts fit the wheel | fires on time |
| | `WheelEnabledIsArmed` | as before, `~ReEnable`, one kind of user | armed while enabled |
| `Structures_proofs` | `MutualExclusionHolds`, `Refinement` | | implements Mailbox |
| | `RingTypeCorrect` | | types |
| | `RingTakesInOrder`, `RingSlotsApart` | `AsIntended` | a ring is a queue |
| | `AuctionDealsMost`, `TradesComeToTheDeal`, `ReportShowsWhatIsLeft` | | largest volume, its trades, what is left |
| `Server_proofs` | `PoolAlwaysServes`, `ServerTasksCovered`, `ServerGracefulShutdown`, `ServerEndedIsForgotten` | | loops in turn, tasks, shutdown, none left over |
| | `ServerReleasedOnceForOneReason` | `~ResetAnyTime`, `~LateSend`, `~EarlyDrop` | one release for one reason |
| `Trading_proofs` | `SessionWireInOrder`, `PacketOneHolder`, `FixNumbersAccounted` | | numbers, buffers |

**SubReactor.**  The inductive invariant `IInv` adds `LocalsInScope` (the loop's
local variables are empty where the code has none) and `OnlyShownIsDirty` to the
properties.  `PipeBytesCovered` is the heart: a full pipe refuses a byte without an
edge, and `NoLostAccept` survives that step only because a full pipe always has a
report or a read ahead of it.  Without `PipeAssumption` it is false.

**Buffers.**  `MemoryBounded` rests on `WasteBounded`: a block doubles only if less
than half of it is waste, hence more than half of the new block's lower bound is
pending.  The lemmas describe what `compact`, `grow` and `ensureCapacity` do to the
contents; for ServerBuffer, what a slide to the front and a growth of the vector do.

**Connection.**  `SendInv` adds to the order on the wire who holds `sendMutex_`
(`LockHeld`) and that units carry the numbers of their places, that of a send about to
return being the last and not among those returned (`Numbered`).  A `close` that sees 0
without the lock has then overlooked at most that one (`ReturnedIsWritten`).
**MainReactor**: `RoundRobin` says that since the last jump of the index the
loads are some base plus full rounds plus one for those already passed; at a jump
the loads become the base, whose spread has grown by one.

**CubeServer.**  `buffer_` followed by what is on its way is one line of frames
(`InLine`) that begins with the first frame without an answer: cutting the stream
elsewhere does not change it, a client's send puts a frame behind it (`AddFrame`), an
answer takes one from it (`TakeFrame`).  When `onMessage` has returned the buffer is
not complete, so the first unit still on its way belongs to the first frame
unanswered.  A connection that ends between frames leaves `buffer_` empty, which is
where `Orderly` is needed.

**Connections.**  The invariant ties the map, the epoll set and the descriptor table
of each connection, and says of each event left in a batch whose it is; without
`CloseMidBatch` no event outlives its connection.

**Timers.**  `NextIsArmed` is inductive with the types: whoever changes the earliest
timer calls `updateNextTimer`, which disarms only for a timer already due, and the
clock reaches the earliest timer and the timerfd's deadline together.  That due timers
then run is liveness, and true but for those that `Overlooked` describes.  For `RunsAsAsked` the runs of each timer are counted against its
place in set, `running` and reinsertion.  The wheel: a task is in slot
`(tick_ + timeout - age) % Capacity` and in no slot that comes later, so that its last
pointer goes when its timeout has passed.

**Spinlock.**  The flag is up while a thread is inside, and what it has read of the
vector is still true (`LockCovers`).  **Rings.**  `AsIntended` says: one consumer; one
producer, except for `MPSCRing`, which has at least two slots and passes fewer items
than its index has values.  `RingInv` counts the items put (`n`) and taken (`t`)
without wrapping; the indices are these counts modulo the capacity or the type,
a cached index is a count at most `t`, and a thread between its test and its store has
a slot outside the filled ones (`Single`).  For `MPSCRing` a sequence number tells for
which count its slot is free or filled (`Multi`).

**Order book.**  The inductive invariant `BookInv` is small: a level's quantity is what its
orders add up to, and the status is `flushStatus` of the book.  The work is in what
`flushStatus` computes, for any finite set of prices and any orders.  A price's rank
enumerates a side without gaps (`SortedFacts`), so the prefix sum at a rank is what the
better levels hold (`AheadFacts`).  *The price*: of the lowest price at which the sellers
offer enough and the highest at which they do not, one passes the search's test `ok` and no
price, with orders or without, deals more than it (`SomePriceIsBest`); the search tries it
and keeps a best one (`OptimalIsBest`).  *The trades*: the matching loop does not know that
price.  After each pass both sides have had the same volume V filled, and the trades are
counted by the volumes up to V at which an order is filled (`PassFacts`).  V never passes the
deal, since orders that meet could be dealt at the seller's price; below the deal the next
orders of both sides lie on either side of the price found, hence meet (`DealMatches`); so
the loop ends at the deal (`MatchedFacts`).  *The report*: the levels from the first order
left are those with something left (`RemainingFacts`, `SortedFrom`), and the deal splits only
the level at its own price (`DealSplits`, `LeftFacts`).  `RecursionExists` turns the
recursive functions into equations, and `InductionUpto` is the induction over the passes.

**Server.**  `PoolServes`: each loop has had the same number of rounds, plus its turn.
`TasksCovered` is inductive with the phases of the pushers.  The rest is built in three
layers, each an invariant of the specification.  `ServerInv`, which no reason to end
disturbs: types, the phases of the loop, and for each connection who has its descriptor
(`Descriptor`), that it stays in `conns_` or in `NewConnection` until its release (`Kept`),
that nobody knows it before `EstablishedInLoop` (`Young`), and that what is owed since
`Shutdown` is still in `obuffer`, a release being queued or done only when nothing is owed
or the connection broke (`Paid`).  `GracefulShutdown` follows.  `WatchInv`, as long as no
object was touched after its release (`Untouched`): an open connection has its channel,
epoll watches it for input always and for output exactly while there is some, and one that
is `DISCONNECTING` with nothing to write has a release queued (`Watched`).
`EndedIsForgotten` is about a state at rest, where nothing is queued and epoll has
nothing to report: an ended connection that is not forgotten would have one or the other.
`OnceInv`, as long as each connection has had one reason to end (`OneReason`): at most one
release is queued and a reason has caused it (`Reasoned`), what was reported is still so
when it is handled (`Heard`), which handlers may still run beside a queued release
(`Ordered`), and the application's Sends are ahead of its Shutdown (`SendsFirst`).  Then no
connection is released twice and `Untouched` holds, which is
`ReleasedOnceForOneReason`.  Two reasons are enough to refute `ReleasedOnce`: the run
`server_two_ends`.  None of it needs `errno` to be fresh.

**FIX and packets.**  `WireInOrder`: the number is taken and sent under one mutex, so
the wire holds the numbers up to the last and at most one is in flight.
`NumbersAccounted`: each number given is on the wire, in the hands of one thread, or
of a send that failed.  `OneHolder`: the pool, the queues, the workers and the receiver
partition the buffers.

Named assumptions, which TLC evaluates in every run: those on the kinds of the
constants; `PipeAssumption`; `WidthsAssumption` (the powers of two as numbers);
`NoTaskAssumption`, `NoneAssumption`, `ServerAssumption` and `ConnectionsAssumption` (a
value that stands for "nothing", or for a descriptor of the loop's own, is none of the
others); `OrderBookAssumption` (finitely many prices, prices and quantities positive).  Where an argument needs induction it is made in set form: the least
counterexample (`LeastExists`, from the library's theorem on well-founded orders).

Only model-checked: all liveness (`StopStops`, `ConnectionsServed`, `DataFlushed`,
`Progress`, `AllTaken`, `DueTimersRun`, `DrainsUnlessBlocked`, `BuffersReturn`,
`StopReturns`, and the liveness properties of the violations), since fairness is
out of the prover's reach.  Every safety invariant and action property of the passing
runs is stated by a theorem, some under the hypotheses of the table.

## Plan

1. Done: SubReactor, Spinlock, SimpleBuffer; Timers, Connections, Connection,
   MainReactor.
2. Done: TimerWheel, Server, LoopThreads and ServerBuffer (`server.hpp`); CubeServer;
   Rings, PacketReceiver, Trading, Fix42, FixSession (`ihs`); OrderBook (`obr`).
3. Done: a theorem for each safety invariant of the passing runs.
4. Done: OrderBook with ranks, prefix sums and recursive functions instead of RECURSIVE
   operators, and its three properties proved.
5. Left: liveness, for which the runs on small instances are all there is, and the
   parts named under "Not modelled".

Runs are few on purpose: small questions about related modules are asked in one
run.

## Not modelled

`TcpApi`, `TcpSpi`, `Signal` forward calls or declare an interface.  The clients, the
other examples, and `ana.cpp`, `analyze.cpp`, `buffer.cpp`, `encoder.cpp`, `parser.cpp`,
`fix42_b.cpp` format and parse text or compute on it in one thread: what they do is layout,
character by character, and a model of it would be the program again.  Of
`shm.cpp`, `my.cpp` and `system.cpp` the rings are in module Rings; the threads of
`system.cpp` never end and share a single-producer ring among several consumers.

Of `server.hpp`: `Socket` and `Any` (socket calls and a type-erased value), protocol
switching (`ProtocolSwitching`, which replaces callbacks), and `CloseHandler`, which
epoll as used never calls: EPOLLHUP comes with EPOLLERR or EPOLLOUT, handled before
it.  Logging, timing (`ScopedTimer`) and commented-out code are left out everywhere.
`close` from inside `onMessage` invalidates the iterator that `handleRead` goes on using
(`SubReactor.cpp` 196); what follows is undefined, and the models let only timer
callbacks close.  Weak memory is not modelled.

Some of the programs do not build or do not run as they are; the models are of
their logic as written: `trade.cpp` includes headers that are not in the repository
and names enumerators that do not exist, the `main` of `fix42_a.cpp` calls a constructor
with four arguments that does not exist, `what.cpp` lacks parentheses at lines 129
and 140, and the `main` of `example/main.cpp` returns before it runs the server.
