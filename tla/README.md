# acpp-network in TLA+

acpp-network is a C++ networking library: blocking sockets, callback-driven
asynchronous sockets on an event loop, streams built of layers, and a TLS layer
over OpenSSL. This directory models the parts whose correctness depends on
order, partial progress or lifetime, checks them with TLC, and proves the most
important results with TLAPS. Paths below are relative to `src/`.

## 1. The system

| Component | State | Operations | Talks to |
|---|---|---|---|
| io_context (`src/linux/socket_base.cpp`) | `run`, epoll descriptor, `pending_callbacks_` under `exec_mutex_`, an eventfd, a static counter | `exec`, `stop`, `wait_for_input` | handlers of sockets, timers and its own eventfd, through raw pointers in epoll events |
| async socket (same file, `socket_base_pimpl`) | descriptor, `connected_`, `listening_`, `write_enabled_`, `events_set_`, callbacks | `bind`, `listen`, `connect`, `write`, `close`, `handle_event` | the kernel; the application, through callbacks on the loop's thread |
| timers (same file, `timer_impl`) | a timerfd, registered for one report | constructor, `cancel`, destructor, `handle_event` | the loop |
| socket_stream, stream (`include/acpp-network/stream.h`) | an async socket, `pending_data_` | `connect`, `write`, `disconnect`; `on_connected`, `on_received`, `on_disconnected` upwards | async socket below, a layer or the application above |
| ssl::stream (`include/acpp-network/ssl/ssl.inl`) | `status_`, the SSL object, a pair of memory BIOs of 5 KB | `on_connected`, `on_received`, `write`, `disconnect`, `do_connect`, `do_shutdown` | OpenSSL, the layer below and the application above |
| buffered_writer (`src/detail/common.h`) | `buffer_`, its capacity | `write`, `add_to_buffer`, `write_buffered` | a writer that may take only part (only a test uses it at this commit) |
| layers, get_prev (`stream.h`) | pointers to the previous layer | forwarding in both directions | resolved mostly at compile time |
| sync sockets (`socket.h`, `socket.inl`) | a descriptor | `connect`, `bind`, `listen`, `accept`, `send`, `receive`, `send_to`, `recv_from`, move, `close` | the kernel, one blocking call each |
| addresses (`address.h`, `src/address.cpp`) | none | conversions to and from `sockaddr`, `resolve_host` | getaddrinfo |
| Windows loop and sockets (`src/windows/socket_base.cpp`) | a completion port that also carries the posted callbacks; per socket one accept, connect, read and write operation with its buffer, `in_use` | as on Linux; `start_read`, `start_accept`, `internal_write`, `on_timer` | the kernel, which holds the buffers of the operations in flight and completes them by queueing packets keyed by the socket's address; the system's timer queue |
| macOS loop and sockets (`src/macos/socket_base.cpp`) | a kqueue, `pending_callbacks_` under a mutex; per socket an EVFILT_READ edge and a one-shot EVFILT_WRITE | as on Linux | the kernel, through edges that are cleared when they are returned |
| ssl context, certificates, keys (`src/ssl/ssl.cpp`), logging | OpenSSL handles | wrappers | OpenSSL |

How they interact. An application thread calls `wait_for_input`; epoll hands it
a batch of events, each with a raw pointer to a handler; the handler calls the
application back, and the application may write, close, destroy the very object
whose handler is running, post callbacks, or stop the loop. Other threads may
call `exec` and `stop`. Above the sockets, a stack of layers passes `write` down
and `on_...` up; the layers keep what the one below did not take.

What is hard here:

- threads: `exec` against the loop's swap of the queue, the write of the eventfd after the unlock, `stop`;
- partial progress: short sends, EAGAIN, EPOLLOUT asked for and withdrawn around callbacks, edges that are raised while their handler still runs, one write in flight at a time, full BIOs, TLS records cut anywhere;
- lifetime: handlers destroyed inside callbacks, descriptor numbers reused, raw pointers in a batch or in a completion port, buffers that belong to the kernel, descriptors that change owner by moves and assignments;
- order: pending bytes against new ones, handshake against data, close_notify against data;
- end: a stop that has to be noticed, a shutdown that has to be answered, two ends that wait for each other.

`PROJECT.json` lists every such place with its line and the properties that
would catch it going wrong ("hazards").

What makes each component correct:

- io_context: callbacks run in the order they were handed over, once, are lost only to an exception, and never sleep in the queue without a wake-up; a posted stop ends the loop.
- async socket: interest in EPOLLOUT lasts as long as the kernel owes an answer; no byte is lost, repeated or reordered; no handler is used after its destruction.
- Windows and macOS: the same promises over completions and over edges: the queue of `exec`, the echo of a message larger than every buffer, no wake-up lost, nothing that points to a destroyed session.
- sockets as owners: every open descriptor is closed by exactly one object (on two platforms an assignment loses one: section 6).
- timers: a timer fires once and only after its expiry, or not at all when it is cancelled, whatever happens to the other timers.
- socket_stream: what is written arrives once and in order (it does not: section 6); what the socket does not take is kept and written later.
- ssl::stream: data arrives in order after on_connected, and on_disconnected means that both sides are done.
- buffered_writer: the writer is handed the caller's stream; the buffer keeps to its capacity.

## 2. Modules

| Module | Models |
|---|---|
| `CallbackQueue` | what `exec` promises: one queue |
| `ExecLoop` | io_context: `exec`, `stop`, `wait_for_input`, the eventfd's handler |
| `ExecLoopProofs` | theorems about `ExecLoop`: types, order, wake-ups, that it implements `CallbackQueue`, and what it may lose |
| `SequenceLemmas` | lemmas on sequences that several proof modules cite: a queue in two parts, pieces of a stream |
| `TcpLink` | the kernel's side of one TCP connection (external); shared by the three platforms |
| `EchoApp` | what the applications of the test `large_write_client_server` remember; shared by the three platforms |
| `AsyncSocket` | Linux `socket_base_pimpl` and its dispatch, on `TcpLink`; a library for the next two |
| `EchoSession` | `EchoApp` on `AsyncSocket`, with two loops |
| `EchoSessionProofs` | theorems about `EchoSession`: types, the echo, EPOLLOUT, destroyed sockets |
| `SocketStream` | `socket_stream` with the applications of the stream tests on `AsyncSocket`, on one loop |
| `IocpLoop` | the Windows io_context and its timers; a library for the next |
| `IocpSession` | the Windows socket with `EchoApp`, on `IocpLoop` and `TcpLink` |
| `KqueueLoop` | the macOS io_context and its timers; a library for the next |
| `KqueueSession` | the macOS socket with `EchoApp`, on `KqueueLoop` and `TcpLink` |
| `KqueueSessionProofs` | theorems about `KqueueSession`: it implements `CallbackQueue`, keeps every edge, and does not use the destroyed socket |
| `Descriptors` | which object owns which descriptor: synchronous and asynchronous sockets on the three platforms |
| `DescriptorsProofs` | theorem about `Descriptors` |
| `Timers` | `timer_impl`, the table of descriptors, EPOLLONESHOT and the batch |
| `TimersProofs` | theorems about `Timers`: types, one call, none after destruction or cancel |
| `BufferedWriter`, `BufferedWriterProofs` | `buffered_writer` and theorems about it |
| `SslStream` | `ssl::stream` at both ends, with OpenSSL, its BIOs and an ordered transport, queued or synchronous |
| `SslStreamProofs` | theorems about `SslStream`: types, input taken, order, on_connected, the close |
| `MC...` | values of the constants for TLC |

### ExecLoop

A step is a critical section, a system call or one callback. `exec` is three
steps (`Push` under the mutex, `Count`, `Trigger`), because the eventfd is
written after the unlock and with the value of a counter that other threads
increment. `TriggerThrows` is the EAGAIN of a full eventfd. `pc` follows the
loop: `Check` reads `run`, `Collect` is epoll_wait, `Swap` takes the queue under
the mutex, `RunPlain`, `RunStop`, `RunPost` and `RunThrow` invoke one callback.
Sockets and timers are "other" events that may stop the loop or throw. `efd` is
never read down, because no code reads the eventfd. `ran`, `lost`, `handed` and
`enters` are history.

`CallbackQueue` is the promise, and `ExecLoop` implements it with
`todo <- batch \o pending` (property `ExecIsAQueue`): the two queues, the
mutex, the swap and the exceptions look like one queue.

### AsyncSocket, EchoSession, SocketStream

Every system call is one step, so the kernel and the other loop may act between
any two. `sock[s]` holds the fields of a socket and its epoll interest
(`armed`), `net[s]` of TcpLink the kernel's buffers, end of stream, reset and
pending error. `at[l]` says where a loop's thread is in `wait_for_input` and
`handle_event`; a callback is running while it is `"cb"`, and `"send"` while
`so_write` loops. `HandleOut` withdraws EPOLLOUT, sets `connected_` and picks
on_connected or on_sent; the EPOLLIN part accepts, or receives at most
`RecvMax` bytes, once, as the code does. `Returned` ends a callback.

EchoSession adds the client and the server of the test, which keep what was not
taken themselves; what they remember is in EchoApp, when their callbacks run is
said here. SocketStream adds `write`, `on_sent` and `pending_data_`, and
a client that may write before it is connected, disconnect, or stop the loop.

### IocpLoop, IocpSession

`port[l]` is a loop's completion port: the packets of completed operations and
the callbacks of `exec` in one queue, which is why `exec` is a single step here
(`Exec`) and why an exception costs only the callback that throws. A loop's
thread is at `"check"` (it looks at `run`) or at `"wait"`
(GetQueuedCompletionStatus) and handles a packet in one step, since no call in a
handler waits. `timer[t]` follows a timer from `Expire` through `OnTimer`,
which runs on another thread and posts, to `RunTimer`.

`sock[s].read` and `.write` are WSARecv and WSASend in the kernel, `rbuf` and
`wbuf` their buffers, `in_use` the flag of `write_op`. `ReadDone`, `WriteDone`,
`AcceptDone` and `ConnectDone` are the kernel's completions, `Accepted`,
`Connected`, `...Received`, `...Sent`, `EndOfStream` and `Failed` the branches of
`handle_event`, each with the callback of the application in it and with what
follows the callback: `StartRead` after on_received, whatever the callback did.
A failing WSARecv or WSASend throws out of wait_for_input (`Handled(l, TRUE)`),
and a failing WSASend leaves `in_use` set.

### KqueueLoop, KqueueSession

`user` is the EVFILT_USER event, `batch[l]` the events that kevent returned and
that are not yet dealt with. `Collect` takes any of the ready events, up to
`MaxEvents`, and clears them, handled or not. `exec` is `Push` and `Trigger`, as
on Linux. `dropped` remembers the events that an exception has thrown away with
the rest of its batch.

`sock[s].edge` is EVFILT_READ, raised by `Arrives` in whatever step makes
something arrive, `.asked` the one-shot EVFILT_WRITE. `BeginRecv`,
`...Received` and `RecvFails` are the loop that receives until EAGAIN, `SendSome`
and `SendEnds` that of `so_write`.

### Descriptors

`holds[x]` is `fd_` of an object, `parent[a]` the back pointer of an asynchronous
socket's pimpl (`"nobody"`: it has been moved from). Constructors, `close`,
destructors, move construction, move assignment, the implicit `create_impl` of
connect, bind, send_to and recv_from, and `accept` are the actions; `platform`
chooses between the three copies of the classes where they differ. `forgotten`
collects descriptors whose owner was assigned over without closing them,
`unaccepted` those of connections that arrive while `on_accepted` is not set.

### Timers

`table` is the process's descriptor table, a new descriptor takes the lowest
free number, and closing a number closes whatever has it. `clock` is the
timerfd, `entry` its epoll registration, which one report disables. The
application constructs, cancels and destroys timers before the loop and inside
callbacks. `Close` is `timer_impl::cancel`: it does not reset `timer_fd_`.

### SslStream

OpenSSL is external: a record is a sequence of cells of which the last is
marked, and is usable once it is all there. `in` is what OpenSSL was given and
did not use, `unread` the part of it still in the BIO, `stuck` what did not fit
into the outgoing BIO. `wire[e]` is what end e wrote to the transport. The
handlers are split where they call the application (`at`): do_connect,
the SSL_read loop, the look at the shutdown state (`Check`), `Write`,
`Disconnect`, do_shutdown. The handshake is the one of TLS 1.3 with a flight of
the server and a session ticket; data, ticket and close_notify may share a piece of
the transport or be cut anywhere.

The transport is `queued`, as a socket_stream is, or `synchronous`, as the
`fake_endpoint` of `tests/stream_tests.cpp` is: there `write` calls `on_received`
of the peer before it returns. `stack` holds the handlers that were entered again
while they waited in a write, innermost first; only the innermost runs, once
nothing is on the wires (`Running`), and `HandlerReturns` takes up the one below.
do_connect looks at `status_` after its writes (`Announce`, likewise `Report` in
do_shutdown), when nested handlers may have changed it. Each transport has the BIOs of the
constructor it is used with (`ssl.inl:36`, `ssl.inl:74`).

### BufferedWriter

`write` either goes behind the buffered bytes or offers the bytes to the
writer, which takes any part, and buffers what is left. The stream of the caller
is 1, 2, 3, ..., so that order and loss are visible in the values.

## 3. What the runs check

| Run | Bounds | Shows | States |
|---|---|---|---|
| exec_loop | 2 posting threads, 3 callbacks, 2 calls of wait_for_input, eventfd limit 3 | types, `InOrder`, `OnlyThrowsLose`, `NoLostWakeup`, refinement of CallbackQueue, `CallbackGetsItsTurn`, `StopReturns` | 458 000 |
| echo | 7 bytes, send buffer 3, receive buffer 2, sends and receives of 2 | types, `EchoConserved`, `NoUseAfterDestroy`, `ClientNeverThrows`, `SessionCompletes` | 126 000 |
| stream | 3 bytes, buffers of 1, early write of 1 | `WriteInterest`, `EveryByteKept`, `PendingArmed`, `PendingDrains` | 105 000 |
| timers | 3 timers, 3 descriptors | `FiresOnce`, `SilentAfterCancel`, `NoUseAfterDestroy`, `TimersFire` | 642 000 |
| buffered_writer | capacity 3, offers up to 4, 9 bytes | `Fifo`, `ShortOnlyWhenFull`, capacity | 699 |
| ssl_stream | messages of 2, 1 and 1 bytes, BIO 2, record 3, pieces of 2; a synchronous transport with BIO 4; patient applications disconnect after the echo, impatient ones at any time | types, `InputTaken`, `DataInOrder`, `ConnectedFirst`, `CloseIsClean`, `EchoArrives`, `CloseAnswered` | 9 000 |
| iocp | 5 bytes, send buffer 2, receive buffer 1, operations of 2, 1 call of wait_for_input per loop; a second load with 1 byte, 1 post or stop and 1 timer | `NoUseAfterDestroy`, refinement of CallbackQueue, `SessionCompletes`, `TimersFire` | 177 000 |
| kqueue | 4 bytes, send buffer 1, receive buffer 2, sends and receives of 1, batches of 2; loads with 1 byte and 1 post and 1 timer, or 2 posts | `NoLostEdge`, `NoUseAfterDestroy`, refinement of CallbackQueue, `SessionCompletes` | 292 000 |
| descriptors | 2 synchronous and 2 asynchronous objects, 3 descriptors, 3 platforms | `SoleOwner`, and that some operation is always possible | 5 800 |
| stream_echo, ssl_large, timers_cancel | see section 6 | violated by the code | |

Why the bounds are enough. Two threads beside the loop are what it takes for a
push and a write to interleave with another pair and with the swap; three
callbacks put one in each of `ran`, `batch` and `pending`; the limit of the
eventfd is low enough for a write to fail and high enough for
`EventFdAssumption`. The echoed message is longer than a send and a receive
buffer together, so both ends block and both EAGAIN paths and the crossing of
data in both directions happen; longer messages repeat the same cycle. With
buffers of 1 and messages of 3 every write of SocketStream is partial. Three
timers make a batch in which the first callback acts on a second timer while a
third waits, and three descriptors are used up. In the SSL runs BioCap :
RecordMax : RecvMax keep the order of 5 KB : 16 KB : 4 KB, so that a piece of
the transport may fill the BIO and a record may exceed it. Over the
synchronous transport the BIO holds every record, as one of 50 KB does, and the
handlers nest at least five deep. In iocp the message
takes three operations and fills the kernel's buffers, so that writes are in
flight while reads complete; in kqueue the receive buffer is longer than a recv,
so the receive loop runs twice and an edge is raised under it, and three
events (READ, WRITE, USER or TIMER) compete for the two places of a batch. What may
happen at once is divided into loads, chosen in the initial state (`Loads` in
the MC modules): the full echo, a client that leaves after the first piece, a
short echo among callbacks and a timer. Crossing the full echo with posts only
multiplies the two, as they share the queue of events but no data. Two objects
of each kind are both sides of a move, and each of three descriptors can be
held, lost, and reused.

All runs but descriptors allow the system to stop (the application has finished, wait_for_input
has returned, a bound is reached), so deadlock is not checked; that
something which should go on does go on is what the liveness properties say.

## 4. Fairness

- ExecLoop: a thread inside `exec` finishes it; the loop's thread keeps running; a ready eventfd is not passed over for ever (strong fairness of `CollectExec`), which holds because the kernel requeues level-triggered descriptors at the tail of its ready list and epoll_wait takes up to 5 of them in turn. Nobody is obliged to call `exec`, `stop` or `wait_for_input`.
- EchoSession, SocketStream: the threads run, the kernel establishes the connection and moves bytes and ends of stream. `Refuse` is never obliged. The application's callbacks return, as those of the tests do.
- IocpSession: the loops' threads run, the kernel completes the operations it can complete and moves bytes, `on_timer` runs once the timer has expired, which may be before `wait_for_input` is entered; its packet stays in the port until then. Nobody is obliged to post, to stop, to cancel, and a connection may be refused. A packet cannot be overtaken for ever, because the port is a queue: weak fairness is enough.
- KqueueSession: the threads run, posters inside `exec` are not obliged to reach `Trigger` (no liveness property needs it), the kernel moves bytes. kevent may return the events in any order.
- Timers: the clock advances, the loop and the callbacks run. The application need not do anything.
- SslStream: the handlers run and the transport delivers. Nobody has to disconnect.

## 5. Proofs

TLAPS proves, for all values of the constants under the named assumptions:

- `ExecLoopProofs` (`LoopAssumption`, `BoundAssumption`, `EventFdAssumption`)
  - `TypeCorrect`: `Spec => []TypeOK`. It includes that the value a thread is about to write to the eventfd is positive (a write of 0 would wake nobody), which holds because the counter is incremented before it is read.
  - `CallbacksInOrder`: `Spec => []InOrder`. `InOrder` alone is not inductive: a push appends `handed + 1`, and nothing in it says that no identifier in the queues is larger. `Ordered` adds exactly that (`UpTo`). The lemmas on sequences (`AppendOrder`, `TailOrder`) reduce each step to a push, an invocation, the swap, or nothing.
  - `WakeupNeverLost`: `Spec => []NoLostWakeup`. The hard case is `TriggerThrows`: a thread leaves exec without writing. It is harmless because a write fails only on a counter that is not empty, and that needs the value about to be written to fit into an empty one: `Counters` bounds the static counter by what has been handed over less the threads that have yet to increment it, which `EventFdAssumption` keeps below the limit.
  - `ExecImplementsQueue`: `Spec => ExecIsAQueue`. The mapping is `todo <- batch \o pending`. A push appends to it, the swap leaves it alone because the batch is empty then, an invocation takes its head, and an exception throws away a prefix, the batch. The first two need `Drained`: the batch is empty except while it is drained. Its other half, that a callback inside exec is one that was invoked, serves the next theorem.
  - `NothingElseLoses`: `Spec => []OnlyThrowsLose`. The invariant adds to it `Drained` and the order of `Ordered`: a batch is lost only behind a callback that threw, or whose exec did, and every callback in `ran` is older than what is in the queues.
- `EchoSessionProofs` (`LinkAssumption`, `SocketAssumption`, `SizeAssumption`, `MessageAssumption`, and `LoopsAssumption`: the two ends have a loop each), for every message and every size of the kernel's buffers, of a send and of a recv
  - `Invariance`: `Spec => []IInv`, from which the other five follow: `TypeCorrect`, `WriteIsAsked` (`WriteInterest`), `NoneAfterDestroy`, `EchoIsConserved` (`EchoConserved`) and `ClientRunsOn` (`ClientNeverThrows`).
  - `IInv` has two parts. `LInv` is about the loops and needs only the types of the rest: the place of each thread fits its event, callback and write (`Stands`), a batch holds each of the loop's own sockets at most once (`Owned`), none of them destroyed (`Live`), and `WriteInterest` itself. `Owned` is why `on_disconnected` may erase the session: the socket it destroys is at the head of the batch and nowhere else. One lemma, `LoopBecomes`, says what a step of one loop has to leave behind; each step is an instance of it.
  - `DInv` is about the bytes: `EchoConserved`, and how the connection ends (`Endings`). Conservation is not inductive alone, because a close throws buffers away and turns a peer's unread data into a reset. `Endings` says that the client closes only when everything has come back, that the server follows, and that there is no reset; then conservation counts the bytes and finds every buffer empty when the first close happens (lemma `AtEnd`), so closing loses nothing. The two support each other and are proved together.
  - The two directions are sequences cut into pieces (`UpFlow`, `DownFlow`), and the lemmas `FlowCross`, `FlowRecv`, `FlowGot`, `FlowSend` and `FlowKeep` say what a transfer, a recv, a callback, a send and `pending_data` do to the pieces; each step of the system is one of them or moves no byte.
- `KqueueSessionProofs` (`KqueueAssumption`, `LinkAssumption`, `SessionAssumption`, `MessageAssumption`), for any number of posting threads, timers and loops, with sockets assigned to them in any way
  - `KqueueImplementsQueue`: `Spec => ExecIsAQueue`, with `todo <- tasks \o pending`. As on Linux the swap must find `tasks` empty; here that needs where the thread of each loop stands and what is at the head of its batch (`LInv`), because the queue is swapped inside the dispatch of a batch that goes on behind it.
  - `EdgesAreKept`: `Spec => []NoLostEdge`. An edge is cleared when kevent returns it, so it has to be remembered by the batch (`LoopTypes`, `Batched`) until its handler has received everything. The case that matters is a byte that arrives while the handler runs: it raises the edge again, so leaving the receive loop on EAGAIN forgets nothing.
  - `SocketNotUsedAfterDestroy`: `Spec => []NoUseAfterDestroy`. When `on_disconnected` erases the session, its READ event is at the head of the batch, and a WRITE event may stand behind it; the theorem says that it does not once the whole message is back. The argument counts bytes (`NoBytesMade`): what has come back, what the server keeps and what the kernel holds is at most what the client has written. A reset may drop bytes, so this is an inequality, and it is enough: with everything back the server keeps nothing. `AskedFor` ties that to the events: EVFILT_WRITE of the server is registered, or its event still waits, only while something is kept, and never both; `Single` says that no event is in a batch twice, so a WRITE event that is being handled has none behind it. If the session is erased while bytes are missing, the client has closed (`ClientLeft`), so it will never have them, and the promise asks nothing (`Destroyed`). `AcceptedOnce` keeps a second session from being opened in its place.
- `SslStreamProofs` (`SslAssumption`), for every list of messages (over a synchronous transport each fits into one record, as those of the tests do), every size of the BIOs, of a record and of a piece of the transport that fits into the BIO, both transports and both applications
  - `Invariance`: `Spec => [](IInv /\ Quiet)`, from which the other five follow: `TypeCorrect`, `InputAlwaysTaken` (`InputTaken`), `DataStaysInOrder` (`DataInOrder`), `ToldFirst` (`ConnectedFirst`) and `CloseStaysClean` (`CloseIsClean`).
  - What is on its way to an end is one sequence of cells, wherever it lies: in the incoming BIO, in the transport, or left in the peer's outgoing BIO. `Shape` says what it looks like, at most one record of the handshake, then data, then at most one close_notify; `Holds` adds that what was read, the data on the way and what will never come make up what the peer wrote. Each step takes a record from the front (`ShapeFirst`, `ShapeRest`) or puts one at the end (`ShapeData`, `ShapeClose`), so the order of the data, and that nothing lies behind a close_notify, come from one invariant, `Streams`. When OpenSSL has given up on data that came after the end's own disconnect (`Broken`), only the prefix is left to say.
  - `InputTaken` is about room in the BIO. `Consumed` says that OpenSSL has looked at everything that has left it, so that nothing unread is left when the next piece arrives: over a queued transport because every handler reads until OpenSSL wants more (`Queued`), over a synchronous one because whoever is entered again had stopped where it writes.
  - That last argument is `Synchronous`: the handlers below the running one are at a write (`Paused`), one record at most is under way and is read before the next is written (`OneRecord`), and the server tells its application first (`ServerFirst`), although `do_connect` of the client is still below it on the stack. `Ticket` follows the bytes that make this so.
  - `ConnectedFirst` needs where each handler stands (`Told`, `Announced`, `Silent`), `CloseIsClean` the sent and seen close_notify of both ends (`Closing`, `Ending`). `Quiet` says that nothing moves before the transport is connected. There is one lemma per action of `Next`.
- `TimersProofs` (`TimerAssumption`), for every finite set of timers and any number of descriptors
  - `TypeCorrect`, `EachFiresOnce` (`FiresOnce`), `DestroyedNeverCalled` (`NoUseAfterDestroy`), `CancelSilences` (`SilentAfterCancel`, an action property). They hold although a number may be closed twice and belong to another timer by then. `IInv` says why: a descriptor that a timer opened carries the number that this timer keeps, and its timer is alive and not cancelled (`OwnersAreLive`); a registration belongs to a timer that was not called and does not wait (`OneReport`); a timer in the batch is there once, was never called, lives, and was not cancelled before it was collected (`BatchIsOwed`). Closing another timer's number takes a registration away, which these allow, and never adds one. That a called timer had expired is a second invariant, `OnlyExpired`, proved on top of `IInv`: a clock is set only for a timer that was not constructed with 0, and whoever is in the batch or was called has an expired clock for as long as its descriptor is open.
- `BufferedWriterProofs` (`SizeAssumption`)
  - `BufferBounded`, `StreamPreserved`, `ShortMeansFull`: capacity, `Fifo` and the meaning of a short count, for every capacity, offer and partial write. `TypeOK /\ Fifo` is inductive; the work is in the lemmas on splitting and joining pieces of the stream.
- `DescriptorsProofs` (`DescriptorAssumption`)
  - `SoleOwnerHolds`: `Spec => []SoleOwner`, for any number of objects and descriptors and on each platform. `TypeOK /\ SoleOwner` is inductive: that no descriptor is shared needs that what is held is open (a new descriptor is one that is not open), that what is held is not lost, and that the pimpl points back to its holder. Every operation is one of three changes, which are the lemmas: an object gets a descriptor nobody holds (`NewDescriptor`), closes its own (`Closing`), or takes that of another (`Moving`).

The bounds (`MaxTasks`, `MaxEnters`, `MaxStream`) are constants of these
theorems, so they hold for every bound.

The assumptions on the constants say what the code fixes (a listener is not an
end of its connection, `accept` puts the new socket on the listener's loop,
there are finitely many timers) and what a model cannot do without (buffers and
calls that move at least one byte). Messages are not empty (the test's has
10 MB): of an empty one nothing would come back, and the client would never close.

Only model-checked:

- all liveness: ENABLED and fairness are out of the prover's reach.
- The refinement of CallbackQueue by IocpLoop: the mapping selects the callbacks among the packets of the port with `SelectSeq`, which is defined by recursion, and what a recursive definition computes for every input would need induction over data.
- `NoUseAfterDestroy` of IocpSession: it holds only because the echo is complete by then, so it needs a count of bytes as on macOS, with the overlapped operations in place of the events.
- SocketStream (`EveryByteKept`, `PendingArmed`, and `WriteInterest` on it: the theorem above is about EchoSession): not proved yet, see section 8.

## 6. Disagreements between code and tests

- `stream_echo`: after a partial write `socket_stream::write` queues the whole buffer again, so bytes are sent twice and later writes overtake pending ones; the echo of the tests would not come back as it was sent. The tests' messages fit into the send buffer.
- `ssl_large`: a record that does not fit into the BIO never leaves completely, and `write` returns the length as if it had. The tests' messages are short.
- `timers_cancel`: `cancel` closes the descriptor and the destructor closes the same number again, which by then may be that of another timer; that timer never fires.

The comment "Interval: Repeat every 3 seconds" at
`src/linux/socket_base.cpp:618` stands over an interval of 0: a timer fires once,
which is what `FiresOnce` checks.

Six properties say what the code promises with an exception named in them,
because without it the code does not keep the promise, and nothing in the
repository states the promise either:

- `SoleOwner` allows lost descriptors. Move assignment of an asynchronous socket on macOS and Windows (`src/macos/socket_base.cpp:286`) destroys the old pimpl without closing its descriptor, and so does that of a synchronous socket on Windows, which calls `close` on a socket; on Linux and macOS a connection that arrives while `on_accepted` is not set stays open.
- `NoUseAfterDestroy` of IocpSession and KqueueSession holds once the whole message has come back. When the client leaves early, a write may still be in flight on Windows when `on_disconnected` erases the session that owns its buffer, and on macOS both events of the socket may be in one batch.
- `NoLostEdge` exempts events that an exception drops with the rest of its batch: kevent has already cleared them.
- `SilentAfterCancel` exempts a timer whose expiry is in the batch already.
- `ConnectedFirst` and `CloseIsClean` say that `on_connected` and `on_disconnected` come at most once only of a queued transport. Over a synchronous one the do_connect that was suspended in its write finds `status_` connected by a handler nested in it, and announces it a second time; an application that writes in `on_connected`, as that of the tests does, writes again. do_shutdown repeats `on_disconnected` in the same way.

## 7. What the models leave out

Everywhere:

- `on_error` has no effect in the models: no user of the sockets does more in it than log. That it is given `errno` where `getsockopt` has read the error elsewhere is therefore not visible.
- `bind` of asynchronous sockets and the buffer-size options.
- `send` to a reset connection fails; the SIGPIPE that comes with it is taken to be ignored.
- Calls of `connect`, `listen` or `write` from another thread while the loop runs. The code does not protect them; the models call them before the loop or on its thread.
- A second connection to a listener. On Windows `start_accept` is called once, on macOS one connection is accepted per edge; the applications modelled have one client.
- The move constructor of timers, and timers of 0 ms, which on Linux disarm the timerfd.
- An application that destroys a timer whose expiry has already been collected (Linux, macOS) or posted (Windows): nothing in the code protects it, and the models' applications do not do it. A timer cancelled in that situation is modelled on Linux, and still fires.

On Windows: failures of PostQueuedCompletionStatus and GetQueuedCompletionStatus,
operations that fail before they start other than on a dead connection,
WSAStartup. On macOS: a failing kevent or accept. A write of no bytes is modelled
on Windows, where the client's on_sent issues one when all is written, and
nowhere else. A refused connect on macOS may have its error consumed by recv, after
which on_connected is called (`Connected` after `RecvFails`); no property speaks
of it.

Synchronous sockets: what send, receive, send_to and recv_from transfer. Each is
one blocking system call whose result is returned, with -1 cast to size_t when it
fails.

SslStream: certificates, verification and errors of the handshake; a transport
that loses its connection. The synchronous transport delivers what one call wrote
as a whole, which the code does in buffers of 20 KB, and its application does not
disconnect from outside while a handler runs.

Not modelled at all: addresses and `resolve_host` (conversions of values, and one
call of getaddrinfo), the layer chain (`get_prev` and `wrapper` are resolved at
compile time; SocketStream and SslStream go straight to the neighbour), ssl
context, certificates and keys (wrappers of OpenSSL handles), logging, build files
and test driver.

## 8. Plan

Done, in this order: ExecLoop with its promise and proofs, AsyncSocket with
EchoSession and SocketStream, BufferedWriter with proofs, SslStream, Timers; then
TcpLink and EchoApp taken out of them, IocpLoop and IocpSession, KqueueLoop and
KqueueSession, Descriptors with proofs; the synchronous transport of SslStream, and
the proofs of the refinement and of `OnlyThrowsLose`; the proofs about Timers,
KqueueSession, EchoSession and SslStream.

Next:

1. SslStream on SocketStream, and with it the layer chain; the transport's on_disconnected.
2. Callers of connect, listen and write on other threads.
3. Addresses: conversions, ports and families as operators checked against a reference.
4. Proofs: `NoUseAfterDestroy` of IocpSession, along that of KqueueSession; `PendingArmed`, `EveryByteKept` and `WriteInterest` of SocketStream, along `LoopBecomes` and the lemmas on flows of EchoSessionProofs.

## 9. Running

    tlc -config MCExecLoop.cfg MCExecLoop
    tlapm ExecLoopProofs.tla

The runs, with their modules and configurations, are listed in `PROJECT.json`,
as are the mutants: for each property of a passing run, a plausible mistake in the code
that the property catches.
