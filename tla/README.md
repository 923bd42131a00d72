# A verification development for Syinx

Syinx is a small game-server framework in C++ on top of libevent, whose source it carries: one
process, one event-loop thread that accepts clients and handles their bytes once a frame, an optional
pool of worker threads, an HTTP mode, and outgoing connections to other servers.  This directory holds
TLA+ models of its own code (`code/Syinx/`, about 2,500 lines) and of the parts of libevent
(`Shard/include/libevent-master/`) that every client's bytes pass through, TLC configurations that
check them on small instances, and TLAPS proofs of the properties that matter most.  Line numbers
refer to the files under `code/Syinx/Syinx/`, or to libevent's files, unless a path is given.

## 1. The system

| Part | State it keeps | Operations | Talks to |
|---|---|---|---|
| **SyinxKernel** (`Syinx.cpp`, `main.cpp`) | configuration, `m_nWorkStatus`, the event base, the listener or HTTP server, the resource manager, the list of outgoing connections | `Config`, `Initialize`, `TCPServer`/`HTTPServer`, `Run`, `Close`; `SIG_HANDLE` | everything; `Close` releases all the others |
| **SyinxAdapterResource** (`SyResAdapter.cpp`) | a queue of free channels, a list of channels in use | `Initialize`, `AllocationIChannel`, `SocketFdAdd`, `SocketFdDel`, `GameServerDoAction`, `Close` | called by the libevent callbacks and by the frame loop |
| **IChannel, CPlayer** (`SyTaskAdapter.cpp`, `Player/`) | status, the client's bufferevent, the bytes to handle, a player with `Login`/`Logout` hooks | `OnClientConnect`, `OnStatusDoAction`, `RecvClientPack`, `Clear`, `Close` | its client's bufferevent; with `SYINX_USE_PTHREAD`, the pool |
| **TCP callbacks** (`Syinx.cpp:157-294`) | none | `SyinxKernel_Listen_CB`, `_Recv_Cb`, `_Event_Cb` | run by `event_base_loop`, call the resource manager and the channels |
| **Frame loop** (`TCPRun`) | the time of the next frame | one pass: event loop, clock, frame or sleep | the operating system's clock |
| **SyinxPthreadPool** (`SyPthreadPool.cpp`) | a ring of tasks under a mutex and a condition variable, the threads | `Initialize`, the worker loop, `AddTaskFunc`, `Close` | created by `Initialize`, freed by `SyinxKernel::Close` |
| **SConnect** (`SConnect.cpp`) | a bufferevent, an evbuffer, a status | `Connect`, `Finish`, `DisConnect`, `Close` | enters and leaves the kernel's `m_AllConnect` |
| **Event base** (`event.c`, `evmap.c`) | queues of active callbacks by priority, a heap of timeouts, events by descriptor | `event_base_loop`, `event_add`, `event_del`, `event_active`, deferred callbacks, finalizers, `event_base_free` | the backend; runs all callbacks |
| **Bufferevents** (`bufferevent_sock.c`, `bufferevent.c`, `buffer.c`, `evutil.c`) | per connection: a read and a write event, two buffers, whether it is connecting | read, write and connect callbacks, enabling, disabling, freeing | the event base below, Syinx's callbacks above, the socket |
| **Configuration** (`SyinxKernel::Config`, `pkg/inih`) | `Config.ini` | read once | decides what `Initialize` makes |
| **SyMysqlConPool** (`SyMysqlConPool.cpp`) | a queue of database handles, the accumulated results | `Initialize`, `GetMysqlHandle`, `PutMysqlHandle`, queries | nobody: not in `CMakeLists.txt` |

What is hard in it:

* **Threads.** Workers and producers share the ring.  A thread that returns without unlocking, a
  wake-up that is lost, a ring that wraps, and `Close` freeing the pool under the workers are
  matters of interleaving.  With `SYINX_USE_PTHREAD` the workers also share the channels with the
  event loop, and no lock orders them.
* **Signals.** `SIG_HANDLE` runs `SyinxKernel::Close` on the interrupted thread, between any two
  statements, and `Close` ends in `exit(0)`: the interrupted code never goes on, and whatever it
  held half-moved, or locked, is what `Close` finds.
* **Blocking.** The one thread that serves everybody writes to sockets in blocking mode and polls until
  nothing is ready: a client that does not read, or one that never stops sending, is in the way of all.
* **Callbacks.** A callback may delete, re-add, activate or finalize events that are already
  queued behind it, its own among them.
* **Reuse.** A channel serves many clients in turn.  What one leaves behind (bytes, status, a
  pointer, a queued task) the next would inherit.
* **The network.** Reads and writes are short, socket buffers fill, writes block, peers end or reset
  in the middle, a connect is refused or not answered, and reading an error of a socket clears it.
* **Partial failure.** Every allocation in `Initialize`, `Connect` and the servers may fail, and
  each failure leaves a different set of objects.
* **Order of release.** libevent objects refer to the event base that `Close` frees before some of
  them.
* **Boundaries.** The ring at `queue_size`, the channels at `ConnectNum`, a pack at `BUFFSIZE`, the
  port in a `short`, a 32-bit clock.

`PROJECT.json` lists each of these at its line, with the properties that watch it.

## 2. The modules

| Module | Models | Abstract specification |
|---|---|---|
| `SyPthreadPool` | the thread pool, `SyPthreadPool.cpp` | `TaskPool`: a bounded first-in-first-out queue, each task run by one worker |
| `SyResAdapter` | channels, clients' callbacks and the shutdown of the channels in the default, single-threaded build | `ConnectionLimit`: at most `ConnectNum` clients at a time, one channel each, none turned away while one is free |
| `SyPthreadChannel` | the build with `SYINX_USE_PTHREAD`: the composition of `SyResAdapter` and `SyPthreadPool` | `SyPthreadPool` itself (`UsesPool`) |
| `SyinxKernel` | the life of the process, both servers, `SConnect`, `Close` and the signal | - |
| `FrameLoop` | the pacing of `TCPRun` | - |
| `EventBase` | libevent's event base, one thread | - |
| `BuffereventSock` | socket bufferevents between Syinx's callbacks, the frames of `TCPRun` and the sockets | `ByteStream`: what a connection promises to both of its ends |
| `Queues` | libevent's lists, for `EventBase` and `BuffereventSock` | - |
| `SyPthreadPoolProofs`, `SyResAdapterProofs`, `SyPthreadChannelProofs`, `SyinxKernelProofs`, `FrameLoopProofs`, `QueuesProofs`, `EventBaseProofs`, `BuffereventSockProofs` | the theorems | |
| `MC...` | instances for TLC | |

How they fit: `SyPthreadChannel` instantiates `SyResAdapter` and `SyPthreadPool` and uses their
actions.  The others are views of one process at different grain.  `EventBase` shows what a list of
callbacks is; `BuffereventSock` takes it for granted (a round is a sequence, a deleted event leaves it,
a finalizer goes to its end) and shows what a bufferevent is; `SyResAdapter` takes that for granted
(`Recv_Cb` is handed the bytes of a client in order, `Event_Cb` is called once) and shows what
channels are; `FrameLoop` gives the frames that `BuffereventSock` and `SyResAdapter` alternate with the
event loop; and `SyinxKernel` says which of all these exist, and when.

Operators named `X_Something` under a comment that begins with "Mutated:" are not part of a model.
They are wrong variants of `X`, kept beside it to show that a property would notice the mistake;
`PROJECT.json` pairs each with the property that must fail when it takes the place of `X`.

### SyPthreadPool

One action per critical section: taking `Pthlock` is a step (`WorkerLock`, `AddLock`, `CloseLock`),
and what a thread does while it holds the mutex, up to its unlock or its return, is the next.
`wpc` and `ppc` say where each worker and producer is.  The mutex is not recursive (default
attributes): a thread that keeps it and locks again waits for itself.  `WorkerContinue` is the
`continue` of lines 52-55 and `AddQueueIsMax` the return of lines 165-169; neither unlocks.
`Close` does not set `PthpoolClose`; nothing in the code does, but every branch that tests it is
modelled.  After `SyPthreadPool_free`, a thread that touches the pool becomes `"lost"`: what it does
then is undefined and not followed.  `accepted` and `done` are history.

### SyResAdapter

One thread runs everything, so a callback is one step, except where a signal would see a
difference: `AllocationIChannel`/`OnClientConnect`/`SocketFdAdd` (a channel popped, its player logged in,
not yet in the list), `SyinxKernel_Event_Cb`/`Clear`/`Logout`/`SocketFdDel` (removed, its bufferevent
freed, its player logged out, not yet pushed) and one step per channel of a frame.  `at` holds that
place; `SIG_HANDLE` is enabled in all of them.  Statements between two places change nothing that `Close`
reads of the channel: it is in neither container then.  `Writev` and `Flush` are the beginning and
the end of writing an output buffer to a socket that blocks; between them the thread stands, for ever if
the client does not read and its connection does not break.
A byte is the pair of its client and its number, so a property can tell whose byte reaches whom.
`RecvValuesFromString` takes everything it is given as one pack and `RecvClientPack` sends it back,
so the server is an echo of at most `BUFFSIZE` bytes per channel and frame.

### SyPthreadChannel

No build file defines `SYINX_USE_PTHREAD`; the code for it is there and this is its model.  The
event loop's thread is the pool's only producer.  The macro changes `OnStatusDoAction`, which queues a
task instead of handling the bytes, and so what `GameServerDoAction`, `SocketFdDel` and `Close` do;
every action that it does not change is `SyResAdapter`'s or `SyPthreadPool`'s own.  A task
(`PthreadFuncHandle`) is four steps: it begins, is in `evbuffer_remove`, has the bytes, is in
`bufferevent_write`.  `evbuffer_enable_locking(m_Inputevbuffer, NULL)` finds no lock functions, so
`evbuffer_lock` and `evbuffer_unlock` do nothing, and the early return of
`SyTaskAdapter.cpp:108-109` keeps nothing.  The event base has no lock either: it is made with
`EVENT_BASE_FLAG_NOLOCK` (`Syinx.cpp:404`), and `bufferevent_write` on a worker may add the write event to
it (`bufferevent_sock.c:136-142`).  So these are data races, which set `undefined`, and the model says
nothing of what follows: a second access to a channel's buffer while a worker is in `evbuffer_remove`
(the read callback, another worker, and the `evbuffer_get_length` of `SyTaskAdapter.cpp:211`,
`LengthRaces`); while a worker is in `bufferevent_write`, anything of the loop (`LoopRaces`), another
worker's `bufferevent_write` to whichever client (`TaskSends`), the freeing of a bufferevent (`Clear`,
`CloseChannel`) and `event_base_free` (`FreeRaces`); and any access to a deleted channel.  The channel's
`IChStatus` and `m_buffer`, single words a worker reads without a lock, are read as they are at the step.

### SyinxKernel

`at` is the statement `main` or `Close` has reached.  The three objects that `Close` releases through
pointers it tests and nulls are in `obj` and `ptr`: between `Release(h)` and `SetNull(h)` the pointer
dangles, and another signal may arrive.  `misused` records what was used after it was freed, or
used and never made.  Using the event base after `event_base_free` is undefined behaviour: the
process may go on or crash.  `con` is the one connection `OnStatusConnect` makes; its steps are in
`SConnect::Connect`'s order, each with the failure that deletes the object.  `Finish` and `DisConnect`
change the status first and the list in a step of its own (`ListenerConnect`, `RemoveConnect`);
`interrupted` remembers that a signal came between the two.

### FrameLoop

Time in milliseconds.  The clock is either set by hand (`Jumps`: `gettimeofday` is not monotonic) or
starts again at 0 when its `Range` is used up (`GetTickCount`); `NextMeslTime` is 64 bits wide.

### EventBase

The base as one thread drives it.  `flags` are the `EVLIST_` flags, `activequeues` and
`active_later_queue` the lists, `nio` and `interest` the evmap and what the backend watches.  The loop is
cut at every place where order matters: the beginning of a pass (`Top`), the poll (`Dispatch`), one
step per event that was reported (`evmap_io_active`, in the backend's order, which is any) and per
timeout that is due (`timeout_process`, in the heap's), the choice of the queue, and one step for the
beginning and one for the end of each callback (`RunPersistent`, `RunOnce`, `RunFinalizer`, `Return`).
While a callback runs, and between two calls of `event_base_loop`, any `Operation` may happen to
any event.  `event_add_nolock`, `event_del_nolock` and `event_active_nolock` are operators that the
handlers share, as in the code.  An object (a bufferevent) is a member of `Groups`: its events are
finalized together, and nothing of it is operated on afterwards, as its reference count is 0.

### BuffereventSock

Every callback of the loop is a step, except `writev`: the listener leaves the sockets it accepts in
blocking mode (`LEV_OPT_LEAVE_SOCKETS_BLOCKING`, `Syinx.h:51`), so a write to a full socket blocks the
whole server (`loop = "writev"`) until the peer reads or resets.  `Event_Cb` of a client's end clears
the channel, which echoes once more before the bufferevent is freed (`Ends`): these bytes are written
and never flushed.  A socket is `rx`, `fin`, `tx`,
`so_error`; whoever reads `so_error` clears it, which is why `readcb` leaves `connection_refused` for
`writecb`.  `PeerResets` is the answer of a kernel whose program has closed its socket to data that
still arrives: the next `writev` raises `SIGPIPE`.

## 3. What is checked

| Run | Instance | Shows |
|---|---|---|
| `pool_safety` | 2 workers, 2 producers, ring of 3, 6 tasks, fair | no wake-up is lost; the mutex is kept for good only when the ring is full; the pool implements `TaskPool`, also while it jams or is freed; accepted tasks are run if the ring never fills; `Close` returns if the pool is not jammed |
| `pool_full_queue` | 2 workers, ring of 2, 3 tasks, fair | *violated*: a ring that holds `queue_size` tasks is never served again |
| `channel_safety` | 2 channels, 3 clients, 2 bytes each, 1 byte per frame | every channel is in one place; channel and client point at each other; nothing is freed twice; hooks balance; the echo is in order; `ConnectionLimit` is implemented |
| `channel_liveness` | 2 channels, 2 clients, 2 bytes each, fair | bytes come back, in several frames, and a channel lets go of a client that left, unless a client that does not read holds the loop for good; a writev that breaks off gives the loop back |
| `channel_leftover` | 1 channel, 2 clients | *violated*: one client's bytes are sent to the next |
| `kernel_safety` | 5 ports, 3 thread numbers, every mode | nothing is freed twice; freed or missing things are used in two known ways only; a working server has all it needs and listens on its port, through the `short`; the list of connections agrees with their status, but where `Finish` or `DisConnect` is half done or was interrupted |
| `frame_pace` | period 4, loop up to 3, sleep up to 2, range 24, clock set by up to 5 | frames are neither too close nor too late, except across a change of the clock |
| `pthread_safety` | 1 channel, 2 clients, 2 bytes in all, 2 workers, ring of 2, 3 tasks | the server uses the pool as the pool's model says; until a data race no byte is handled twice, and order holds unless two workers had one channel at a time; strangers' bytes come only from clients that left; the mutex is kept for good for two reasons only |
| `event_base` | a read, a write and a deferred callback of one object and a timer, 2 priorities, 3 operations, fair | lists and evmap are consistent; a finalizer runs once and last, and it does run; a deleted event stays quiet; timeouts are kept; a better priority goes first; a call that does not block returns once the descriptors stay quiet |
| `bev_echo` | a client and an outgoing connection, 3 bytes from each peer, 2 per read, write and frame, a socket buffer of 1, fair | every connection is a `ByteStream`; all that is waited for is watched; freeing in a callback is safe; a connect is answered, unless the loop stands for a client that does not read, and truly, or the success comes in the round that told its end (`SuccessInTheRound`) |
| `bev_bystander` | 2 clients, 2 bytes each, 1 per read and frame, 2 per write, a socket buffer of 1, fair | of two clients one that stays and reads is answered, unless the loop stands for good in the writev to the other |
| `bev_sigpipe` | 1 client, 2 bytes | *violated*: echoing to a client that has closed ends the process |

Each module has one type invariant; in `SyPthreadChannel`, `EventBase` and `BuffereventSock` it is a conjunct
of `HeldOnce`, `AssertOk` and `OnlyTheFinalizer`.  All the safety properties of the passing runs, of
states and of steps, are theorems.

**Findings.**  The three violated runs each contradict a comment of the repository, quoted in
`PROJECT.json`: the full ring, the bytes left in a channel, and `SIGPIPE`, for which no handler is set
while `writev` cannot suppress it.

**Known divergences without a run of their own.**  The checked properties hold because they state
these exactly:

* `SyPthreadPool_free` runs under workers that still run, sleep or wait for the mutex, since nothing
  sets `PthpoolClose` or joins them (`SyPthreadPool.cpp:209-217`).
* `Close` logs out, and so calls the `Logout` hook of, channels that no client ever used
  (`SyResAdapter.cpp:115`); `HooksBalanced` counts them.
* `Close` closes the pool also when the configuration had none made (`Syinx.cpp:597`), and frees the
  event base before the HTTP server and the bufferevents of `m_AllConnect`; `MisuseExplained` names
  both.
* A 32-bit millisecond clock that starts again leaves `NextMeslTime` ahead of it for up to 49 days
  (`Syinx.cpp:509`); `NeverLate` excepts a clock that went back.
* `event2/event.h:797-799` says that `EVLOOP_NONBLOCK` runs the callbacks of the highest priority that is
  ready and returns.  The loop of `event.c:1974-2048` polls again until a poll finds nothing;
  `QuietReturns` says when it therefore returns; that a client that sends as fast as it is read keeps
  `TCPRun` from its frames is no property of a run, but the reason for the fairness stated below.
* `event_add` with a new timeout, given to an event that is active because its last timeout passed,
  takes it off the queue and does not put it back into the evmap, because it tests the active flag
  first (`event.c:2683`); the event waits for its timeout only, where `event2/event.h:1214-1216` says
  that it waits for both.  `TimedIsWatched` excepts it by the history variable `rearmed`.
* A signal between the removal of a channel from the list and its push onto the queue (or between its
  pop and its entry in the list) leaves that channel unclosed at exit: `ChannelsAccounted` has to allow
  for it with `InFlight`, and `HooksBalanced` for a player who was told of a login and is never told of
  the logout.
* A signal between the two statements of `Finish` or of `DisConnect` (`SConnect.cpp:136-137`, `:159-160`)
  leaves a connection that is up out of the list, so that `Close` passes it over, or one that has ended in it;
  `AllConnectUp` names both.
* In the multithreaded build two clients' workers change the unlocked event base at one time, or one does
  while the loop runs; `HeldOnce` and `OrderUnlessDoubled` speak of what holds until then.
* The listener's sockets block (`Syinx.cpp:419`, `Syinx.h:51`): a client that does not read stops the
  server for everybody.  `EchoArrives`, `ChannelComesBack`, `EchoComesBack` and `ConnectIsAnswered` name
  it as the one thing of another client that can be in the way.
* In the multithreaded build a signal inside `AddTaskFunc` runs `Close` on the thread that holds
  `Pthlock`, and the first task that `Close` queues waits for itself; `JamExplained` and `UsesPool`
  name it.
* A connection to another server that is not yet established when `Close` runs keeps its bufferevent,
  because only `Finish` puts it in `m_AllConnect`.  After a timed-out connect, or one whose connection
  ends at once, `readcb` tells of the end, and `writecb`, which finds no error left, of a success behind it,
  upon which the dead connection is listed as up.  `SuccessIsTrue` speaks of the first report for that
  reason, and `SuccessInTheRound` says how far the second may be from it: it comes in the same round, once.
* Port 65535 is refused by `Config`, since it converts to the -1 that stands for a missing setting;
  `WorkHasAll` says every other port number is bound as it was written.

**Why these bounds.** The ring of three is the smallest in which a ring can be empty, partly full
and full with head and tail apart, and six tasks take both indices around it twice; with two
workers one can sleep while the other runs, and both can race one wake-up.  Two channels and three
clients make the last channel free, taken and refused, and let a channel be used again; a
`BUFFSIZE` of one with two bytes makes the remainder appear that 4096 bytes hide.  In
`pthread_safety` two clients use one channel in turn, two workers can have tasks of it at one
time, and three tasks outnumber the ring.  The ports of `kernel_safety` are both ends of the
positive and the negative range of a `short` and the missing value.  In `frame_pace` the period is
longer than the loop or the sleep but shorter than both together, so a frame may be due before, during
or after a sleep.  In `event_base` the object's read event is persistent and the timer is in the worse of the two
priorities, so that what its callback activates goes before the rest of the round, and `FinalizerRuns` asks
nothing for a priority that a better one may starve; `MAX_DEFERREDS_QUEUED`
is 0, so that the later queue is used, and three operations are what it takes to add, fire, and then
delete, renew or finalize.  In `bev_echo` a socket buffer of one under writes of two makes every write of
two bytes block, and reads, writes and frames of two under three bytes leave remainders; the client can be
in the way of the connect.  `channel_liveness` and `bev_bystander` have two clients at a time, which is
what it takes for one to be in the way of another, and two bytes each under frames of one.

`MaxTasks`, `MaxSend`, `MaxBytes`, `MaxOps`, `MaxTime` and `Horizon` bound counters that the code does not
bound; they only stop producers, clients, operations or time, or saturate a history variable, and so cut
behaviours short without adding any.  `MaxRead`, `MaxWrite` and `SndBuf` stand for the 16 KB of one
read, the 16 KB of one write and the kernel's send buffer.  In `SyPthreadChannel` no handler that may
queue tasks starts without room for them under `MaxTasks` (`Budget`), so the bound never stops one
half-way.

**Fairness.** `SyPthreadPool!Fairness`: weak fairness for a thread that can run, strong fairness for one
that waits for the mutex, which a default pthread mutex under a preemptive scheduler gives in practice;
tasks return.  Nobody is obliged to call `AddTaskFunc` or `Close`, and neither spurious wake-ups nor
failures of `pthread_create` are promised.  `SyResAdapter!Fairness`: `event_base_loop` runs every ready
callback on each pass; strong fairness, because each is disabled while another is half done.  `TCPRun`
calls it and `GameServerDoAction` alternately, but the call returns only when it finds nothing ready: a
frame is owed only while no callback is (`Quiet`).  A writev that has begun owes nothing, except that it
fails when its connection breaks.  Clients and signals are free to do nothing, reading included; so
`EchoArrives` and `ChannelComesBack` except the client for which the loop stands for good (`StandsFor`).
They, and `FinalizerRuns`, say that again and again nothing is owed; as sending, leaving and giving up come
to an end, that is the same as that each one is served.
That no client sends more than `MaxSend` bytes is what makes the loop quiet in the end: of a client that
never stops sending nothing is said.  `EventBase!FairSpec`: the loop runs whenever it can, the server
calls it again and again (`TCPRun` and `HTTPRun` do nothing else), and `event_base_free` goes through.
Time, descriptors and operations owe nothing.  `BuffereventSock!FairSpec`: a callback that began ends,
unless it stands in a writev, and sockets are polled again and again (weak); frames come (strong, since
`event_base_loop` is called between them); a client that waits is accepted; and the system of a peer that
has closed answers data with a reset.  A peer need not send, read, close or answer a connect:
`EchoComesBack` and `ConnectIsAnswered` except the loop that stands for good in a writev to one that does
not read, and `EchoComesBack` the client that itself does not.  Here too `MaxSend` is what ends a stream.
`SyPthreadChannel` and `FrameLoop` are checked for safety only and state no fairness.

**Deadlock.** It is checked in `FrameLoop`.  In the other modules the program really stops: a jammed
pool, a freed pool, a freed base, a process that has exited or was killed.

## 4. What is proved

For every value of the constants, by TLAPS.  The assumptions are those the modules name:
`PoolAssumption` (finitely many workers, `Main` among the producers, sizes are naturals; a ring of size
0 included), `ResAssumption` (sizes are naturals, `NoClient` is no client), `ServerAssumption` (those of
both, with at least one byte per frame, and `Main` no worker), `KernelAssumption` (ports and thread
numbers are integers), `FrameAssumption` (times are naturals, the history saturates late enough) and
`EventBaseAssumption` (finitely many events, each of a descriptor, a priority of the base and some
conditions; a deferred callback has no conditions; a timeout is not 0, which stands for none) and
`BevAssumption` (finitely many connections, each a client's or SConnect's; sizes are not 0).

* **Thread pool** (`SyPthreadPoolProofs`).  The inductive invariant adds to the properties:
  `PthpoolClose` is never set (`NeverFlagged`), a thread in a critical section holds the mutex until the
  pool is freed (`Holder`), and a worker has a task just while it runs one (`TaskWhileRunning`).
  Without `Holder` two takes could overlap; without `TaskWhileRunning` a task in hand could be
  overwritten.  From it: `PoolTypeOK`, `PoolRing` (the ring holds just the backlog, in order),
  `PoolTakenOnce`, `PoolJams`, `PoolJamIsForever` and `PoolImplementsTaskPool`, the refinement of
  `TaskPool`.  `PoolNoLostWakeup` needs an argument of its own about cardinalities: a task added while
  somebody sleeps wakes somebody, and a worker falls asleep only when the ring is empty.
* **Channels** (`SyResAdapterProofs`).  The four properties about who owns what are not inductive
  by themselves, because a handler that is half done relies on what it found at its beginning.  The
  invariant adds `HandlerOK`, what each place of `at` may rely on while the server works, and
  `PointerOK`: a channel's pointer to its bufferevent is good, except in the handler that has just freed
  it.  From it: `ResTypeOK`, `ResChannelsAccounted`, `ResChannelOwnsClient`, `ResFreedOnce`,
  `ResHooksBalanced` and `ResImplementsConnectionLimit`, for any number of channels and clients and a
  signal at any place of `at`, those between a hook and the move of its channel included.
* **The echo** (the same module).  `EchoInOrder` speaks of what a client has been sent back, but is kept
  only because of what is still under way.  `LineInvariant` puts the way of a connected client's bytes
  into one sequence, its *line*: received, in its output buffer, in its channel, on the wire.  Of the
  client's own bytes the line holds the ones it sent, all and in order, behind the strangers' bytes it
  began with; sending appends to the line, and reading, handling and flushing move the cuts in it and
  change nothing.  From it: `ResEchoInOrder`, and `ResIsolatedIfSmall`: while no client has sent more
  than one frame takes, a channel is empty whenever it is let go, so a line begins with nothing.
* **Multithreaded build** (`SyPthreadChannelProofs`).  `ServerUsesPool`: each step of the composition is a
  step of `SyPthreadPool`, a stutter of it, or the one named exception of a signal inside `AddTaskFunc`.
  What is proved of the pool therefore holds in the server until such a signal, and the pool's lemmas are
  used again here through an instance of its proof module; `ServerJams` comes from that alone.
  `ServerInv` adds what the composition relies on: what each place of `Main` may assume (`MainOK`), where
  each channel is until the signal (`ListsOK`), and that a channel that is logged in has one connected
  client, and is the channel of every worker that writes (`OwnersOK`).  All properties of bytes rest on
  one lemma over it, that each step moves bytes in one of seven named ways (`BytesMove`); each then needs
  only those seven cases.  From it: `ServerStrangerHasLeft` (`BytesOK`: whose the bytes of each place may
  be), `ServerHoldsOnce` (`OnceOK`: no byte is in two places, and a client has counted each) and
  `ServerEchoesInOrder` (`OrderInv`: the way of a client's bytes now leads through the hand of a worker,
  and is one sequence as long as no two workers have bytes of one channel).  The last two hold until
  `undefined` is set: by a race on a channel's buffer, by one on the unlocked base, whoever the clients
  are, or by a use of a deleted channel.
* **Kernel** (`SyinxKernelProofs`).  The invariant says by place what exists: `Starts` (what has been made
  once the start has reached a place, and that only `Run` and the call of `Close` have the status
  `SYINX_LINK_WORK`), `Pointers` (a set pointer points at a live object except between a release and its
  null), `Connection`, `PortKept` and `Misuses`.  `Pointers` alone is not inductive: that a second signal
  does not start a second release rests on `Starts`, that an HTTP pointer is set only in HTTP mode is what
  makes `MisuseExplained` true.  From it: `KernelTypeOK`, `KernelReleasedOnce`, `KernelMisuse`,
  `KernelWorkHasAll`, which for the port rests on the lemma that converting a port number to `short` and
  back to an unsigned 16-bit number loses nothing (`ShortPort`), and `KernelAllConnectUp` (through the
  steps of `Finish` and `DisConnect` and a signal between them).
* **Frame loop** (`FrameLoopProofs`).  The invariant relates the clock to the time since the last frame
  from both sides (`NotBehind`, `NotAhead`) and bounds that time by where the loop is (`InTime`).  From it:
  `FrameTypeOK`, `FramesInTime` and `FramesApart`.
* **Event base** (`EventBaseProofs`).  `EventInv` has four parts.  The queues hold just the flagged
  events, each once and in the queue of its priority (`QueuesInv`), and the counts of the evmap are those
  of the inserted events (`EvmapInv`); both rest on lemmas over any queues (`QueuesProofs`) and any
  counts, about appending, taking the first, removing a set (`WithoutLists`) and putting the later queue
  behind the active one.  `PlaceOK`, `KindsOK` and `GroupsOK` say what the loop may rely on where it is,
  what a deferred callback never is, and which events are finalizing: without `KindsOK` a timeout could
  renew an event that has no delay, without `GroupsOK` an event of a given-up object could be added again.
  `DeletedOK` and `PriorityOK` say of the state what the action properties say of the step that begins a
  callback.  From it: `EventAssertOk`, `EventFinalizedOnce`, `EventTimeoutNotEarly`,
  `EventTimedIsWatched`, `EventDeletedStaysQuiet` and `EventPriorityFirst`, for any finite set of events,
  any grouping of them into objects and any order of operations.

* **Bufferevents** (`BuffereventSockProofs`).  `BevInv` says of the round that it holds each callback once
  (`RoundOK`), and of each connection six things.  `ListedOK`: a callback waits only with its event added,
  the finalizer just while the bufferevent is being freed.  `KindOK` and `NetworkOK`: only SConnect
  connects, and what a socket reports is true of its peer.  `ToldOK`: one end is told, nothing is read
  behind it, and a peer that is absent was told of or its error is still to be found, in the socket or in
  `connection_refused`; without it clearing `so_error` could lose a refusal.  `WatchedOK`.  And `BytesOK`, the
  core of the refinement: at each place are the bytes that follow those of the place behind it, by
  number, through what a blocked `writev` has copied and not yet drained (`Part`, `Rest`).  Each movement of
  bytes is a lemma over constants (`PlacedRead`, `PlacedCopied`, ...), each action one over `BevInv`.  From it:
  `BevTypeInvariant`, `BevWaitsAreWatched`, `BevOnlyTheFinalizer`, `BevSuccessIsTrue` and `BevIsByteStream`:
  each step is, for each connection, a step of `ByteStream` (`HandSteps`, `AnswerSteps`, `GiveSteps`, ...; the
  one that tells the end brings the last answer with it) or none, for any number of connections, any order
  of callbacks and any sizes of reads, writes, frames and socket buffers.  `BevSuccessInTheRound` needs one
  invariant more, `LateOK`: `writecb` of a connecting socket is still to come in the round in which `readcb`
  told its end, since one poll finds a refused socket ready for both and `be_socket_disable` leaves it there.

Only model-checked: all liveness (fairness and `ENABLED` are out of TLAPS's reach), and the violated
properties, which are refuted by a counterexample.

Some definitions are written for the sake of these proofs.  `Queues!Without` takes from a queue by rank
(the n-th place gets the n-th member that stays) instead of by a recursive filter; `Poll` in
`BuffereventSock` chooses a sequence of what fired that goes socket by socket, instead of concatenating
one list for each socket; and `SyResAdapter`, `SyPthreadChannel` and the properties of `BuffereventSock`
compare positions of sequences where a filter would be shorter to read.

## 5. What is not modelled

* **SyMysqlConPool**: not compiled by `CMakeLists.txt` and called by nobody.  Its queue of handles is
  changed without the mutex made for it, but no run of the program reaches that line.
* **The HTTP request handler**: it keeps no state.  The HTTP server itself appears in `SyinxKernel` as an
  object that is made, used and released.
* **`SendValuesToString`**: the framing that nothing calls; the echo uses `SendDataToClient`.
* **The rest of libevent**: HTTP, DNS, RPC, TLS, the Windows and other backends.  Of the event base:
  `EV_SIGNAL`, common timeouts, watchers, edge triggering, limits of a dispatch, `event_reinit` and locks.
  Of bufferevents: deferred callbacks, rate limits, timeouts, high watermarks, filters, pairs and name
  lookup.  The server uses none of these.  Nor is a `connect()` that succeeds or is refused at once
  (`bufferevent_sock.c:434-444`), of which `SConnect` would not be told, as its callbacks are set
  afterwards (`SConnect.cpp:115`): of a socket that does not block, TCP on Linux answers `EINPROGRESS`.
  The chains of an evbuffer are abstracted to the sequence of bytes they hold.
* **easylogging++, inih, the MySQL client**: third-party; they appear as the code uses them.  The
  parsing of `Config.ini` is not modelled, the checks of `SyinxKernel::Config` are.  A failing
  `event_config_new`, after which the code calls libevent with a null base, is left out.
* **Windows**: the signal handler runs on a thread of its own there; only the clock's 32 bits are
  modelled.  Signals are taken to be delivered to the main thread.
* **The multithreaded build without a pool**: `PTHREADFUNCADD` uses the pool whether or not it was
  made; `SyPthreadChannel` is of the configuration that has one.

Most of the repository's lines are libevent's and easylogging++'s, so the models stand for a small
part of all lines and for nearly all of Syinx's own that change state.

## 6. Plan

1. Done: the thread pool, the channels, their composition, the kernel, the frame loop, the event base,
   socket bufferevents; proofs of the safety of each.
2. The event base below the bufferevents: `BuffereventSock` with `EventBase`'s queues in place of its
   list of callbacks, as a refinement.
3. `Config` over `INIReader`: defaults, base and sign of numbers, a negative `ConnectNum`.
4. The codec of `SendValuesToString` against its definition, and shutdown with the Windows signal thread.
