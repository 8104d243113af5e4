# Verification of web-server-cpp

TLA+ modules, TLC configurations and TLAPS proofs for the epoll web server of
this repository (`include/web/`, `src/web/`), its demos (`demo/`), and the server
on cpp-httplib in `http_demo/`. The reference is the source: each
definition of a module stands for the lines `PROJECT.json` lists under `map`.

## 1. The system

| Part | State | Operations | Interacts with |
|---|---|---|---|
| `web::ThreadPool` (`include/web/thread_pool.h`) | `m_stop`, `m_jobs`, `m_mutex`, `m_condition`, `m_workers` | constructor, `enqueue`/`emplace`, `JobHandler` on each worker, destructor | called by the accept thread, runs handlers, destroyed by the owner |
| `AcceptLoop` (`include/web/http_server_impl.h:104`) | `epoll_fd_`, the event array, the local `ctx` | epoll_wait, accept, EPOLL_CTL_ADD, `add_ref`, `emplace` | kernel, pool, contexts |
| `HandleClientClient` (`:187`) | its `ConnectionContext` | read, parse, `on_message_`, EPOLL_CTL_DEL and close, EPOLL_CTL_MOD, `release` | kernel, contexts, callbacks |
| `ConnectionContext` (`include/web/connect_context.h`) | `fd`, `buffer`, `bytes_read`, `closed`, `ref_count` | `add_ref`, `release` | owned by nobody, counted |
| `web::Allocator` (`include/web/allocator.h`) | `freeStore`, the `next` fields, a chunk size | `allocate`, `deallocate` | `operator new` of every context, shared by the process |
| `HttpRequest::parse`, `build_response` | none that outlives a call | | called by the handler |
| `demo/test.cc` | a context per event, epoll's `data` | event loop, `handle_client_task` | its own pool and kernel objects |
| `demo/main.cpp` | a global pool, epoll, counted contexts | event loop in main, the same handler as `HandleClientClient` | its own pool and kernel objects |
| `httplib::ThreadPool` (`http_demo/httplib.h:9842`) | `jobs_`, `idle_thread_count_`, `shutdown_`, the lists `threads_`, `dynamic_threads_`, `finished_threads_` | `enqueue`, `shutdown`, `worker` | called by `listen_internal`, runs connections |
| `httplib::Server` as `http_demo/server.cpp` uses it (`:11361`) | `svr_sock_`, the listening socket; per connection a count and a `SocketStream` | `listen_internal`, `stop`, keep-alive loop, `process_request`, reply, close | kernel, pool, handlers |
| owner (`src/main.cpp`, `examples/src/my_web.cc`) | the server object | create, `Server(port)`, destroy | destructor of the pool |

One detached thread runs `AcceptLoop`; `THREAD_POOL_SIZE` workers run the
handlers. A connection travels: backlog -> accept -> armed in epoll -> event ->
accept thread -> pool queue -> worker, and from there back to "armed" (request
incomplete) or to "closed". Nothing but EPOLLONESHOT keeps two handlers from
using one context, and nothing but a counter keeps a context alive.

What makes it hard: every hand-over crosses threads without a lock on the
context; descriptor numbers are reused as soon as one worker closes one; the
handler re-arms *before* it gives its reference back, so the next event can
overtake it; notifications are sent outside the lock; the destructor races
with submissions; clients send, leave and reset at any moment. The list, by
line, is `hazards` in `PROJECT.json`.

What makes each part correct: the pool runs every job once, in order, loses no
wake-up and drains before it is destroyed; the server handles a connection in
one place at a time, forgets none, never touches a foreign descriptor or a
deleted context, answers once and closes; the allocator gives memory it owns to
one user at a time; parsing gives the request that was sent wherever its
segments were cut; a program that quits ends its threads before their data.
The httplib server holds a thread per connection for as long as the connection
lives: its threads come and go, every wait has a time limit, and what it promises
is that nobody is kept for ever, that replies keep step with requests, and that
`listen` returns with every thread joined.

Outside the project: the rest of the vendored `http_demo/httplib.h`, the earlier
copy of the protocol in `include/*.h`, logging and build files (see `components`
and section 5).

## 2. Modules

    TaskQueue            abstract: a FIFO queue, one task per worker
      ^ implemented by   ThreadPool      (MCThreadPool, ThreadPoolProofs)
      ^ implemented by   HttplibPool, which HttplibServer composes with the
                         connections     (MCHttplibServer, HttplibProofs)
      ^ used by          HttpServer      (MCHttpServer, HttpServerProofs
                                            <- HttpServerLife)
                         DemoServer      (MCDemoServer, DemoServerProofs)
    ThreadPool, used by  Lifecycle       (MCLifecycle, LifecycleProofs)
    ConnectionLife       abstract: what a client sees of its connection
      ^ implemented by   HttpServer      (HttpServerLife)
    RequestReader        (MCRequestReader, RequestReaderProofs), justifies
                         HttpServer's byte counts
    Allocator            (MCAllocator, AllocatorProofs)

**TaskQueue** is what the server relies on: `Submit`, `Take`, `Finish`, and
fairness for taking and finishing.

**ThreadPool** models `thread_pool.h`. A step is a critical section, a
notification, a wake-up, the end of a job, or a statement of the destructor.

| Code | Action |
|---|---|
| `emplace`/`enqueue`: lock and push; then notify_one | `Push`, `NotifyOne` (the submitter is between the two in `spc = "notify"`) |
| `m_condition.wait` finds the predicate false; wakes for no reason | `Wait`, `SpuriousWakeup` |
| predicate true: leave, or move the front out and pop | `Exit`, `TakeJob` |
| `job()` returns, or is caught | `JobReturns`, `JobThrows` |
| destructor | `SetStop`, `NotifyAll`, `Join` (worker by worker), `Destroy` |

`submitted`, `started`, `finished` are history variables. `Detached` is the set
of submitters that are not stopped before the destructor starts; the code's
accept thread is one.

**HttpServer** models `http_server_impl.h` with `connect_context.h`. A step is
one system call or one atomic operation; a worker's place in the handler is
`wpc[w]`. The pool is `TaskQueue`.

| Code | Action |
|---|---|
| epoll_wait, at most MAX_EVENTS, ONESHOT disarms | `EpollWait`, `SpuriousEvent` |
| accept, `new ConnectionContext` | `AcceptConn`, `AcceptFails` |
| EPOLL_CTL_ADD, or its error branch | `Register`, `RegisterFails` |
| `add_ref`, `emplace` | `AddRef`, `Emplace` |
| start of the handler | `TakeTask`, `CheckClosed` |
| `read` returns data / 0 or an error / EAGAIN | `ReadData` / `ReadEnds` / `ReadBlocks` |
| `parse` and what follows from it | `AfterParse` |
| `on_message_` returns, its write raises SIGPIPE, throws | `Message`, `BrokenPipe`, `MessageThrows` |
| `closed.exchange(true)`, DEL, close | `SetClosed`, `EpollDel`, `CloseFd` |
| second `closed` test, MOD and its error branch | `Recheck`, `EpollMod` |
| `release`, return to `JobHandler` | `Release` |

Abstractions. Bytes are counted: a request is a number of bytes
(`HeaderEnd[c]`), `parse` accepts a buffer that has reached it. A response is a
count (`replies`). `epoll` data pointers are connections, since a context
belongs to one connection and is never reused for another in the model.
Clients, sockets, descriptor table and epoll instance are external and modelled
as the code uses them: a number is free as soon as it is closed, closing
removes it from epoll, MOD and ADD arm it and report data that is already
there, data received before a reset can still be read. A response is written
as a whole or not at all: nothing reaches a client that has reset (its result is not
used, and the handler closes as if it had), and if that client had shut down its
side before, the write raises SIGPIPE, which nothing blocks or handles: `ProcessEnds`
then ends the program, and the kernel closes every socket.

**ConnectionLife** is the client's view: a connection is connected, accepted, taken
up or refused, answered, closed (`life`), with the sets of clients that have `asked`
for something that fits the buffer and of those that are `spent` (they have left, or
sent all the server can hold) and `lost` (they have reset). In `HttpServer` these are
`Stage` (the socket's state, "accepted" while the accept thread is about to register
it), `AllAsked`, `AllSpent` and `AllLost`. What it rules out: an answer before the
request is whole, two answers, a close while the request may still come, an answer
after the close. `End` is the one way out: the answer to a client that is lost may
end the process, and every connection with it.

**Lifecycle** models a program around the server: `program` is "web", an owner of
an `HttpServerImpl`, or "demo", `demo/main.cpp`, with a pool that lives from before
main until after it and an event loop in main. `mpc` is the stage main is in,
`lpc` the accept thread's; the pool's variables are `ThreadPool`'s, with the
accept thread as its only submitter, one that nobody stops.

| Code | Action |
|---|---|
| `Server(port)`: socket, bind, listen; their `exit(1)`; the detached thread | `Listen`, `SetUpFails`, `Detach` |
| `cin.get()` returns; `~WebSite` ends; the callbacks, `~ThreadPool`, operator delete; `return 0` | `Quit`, `EndDerived`, `DestroyCallbacks`, `DestroyPool`, `Free`, `Return` |
| `epoll_create1`; epoll_wait fails; accept with `on_connection_`; `emplace` | `CreateEpoll`, `PollFails`, `AcceptConn`, `Emplace` and `EmplaceNotifies` |
| `demo/main.cpp`: set-up and its `return 1`; the loop; behind it | `DemoSetUpFails`, `DemoListens`, `DemoReturns`, then `DestroyPool` |
| `JobHandler` up to the task; `on_message_`, or none; DEL, close and return | `Idle`, `OnMessage`, `NoMessage`, `HandlerReturns` |

Using a destroyed object is undefined: `Uses` lets the process crash or go on as
if the bytes were still there, and a submission to a destroyed pool then has no
effect. `served[c]` records who answered: the override, the inherited function,
or a callback that was destroyed.

**RequestReader** has the bytes `HttpServer` counts: `Read` appends a segment,
converts the buffer (`CString`), looks for the end of the header (`Complete`),
takes the words of the first line (`Parse`) and chooses the page (`Page`). The
reference, `HeaderEnd` and `WordOf`, is stated on positions in the whole stream
and shares no operator with the code's side. Characters are classes: CR, LF,
space, NUL and the rest; the paths are sequences of letters.

**DemoServer** models `demo/test.cc`, where a context is made for each event:
`AcceptConn`, `Dispatch` (`new` and `enqueue`), `TakeTask`, `ReadData`,
`ReadNothing` (end of stream, error or EAGAIN), `ReadBadFd` (EBADF), `Write`,
`Del`, `Close`, `Mod`. `data[f]` is which member of epoll's union was written;
`Reported` is what the loop makes of it. `contexts` counts the allocated ones. Its
clients shut down their side but do not reset: what a reset does to a write is the
same as in `HttpServer`, and modelled there.

**HttplibPool** and **HttplibServer** model `http_demo/`. The owner (the thread in
`listen_internal`) is at `opc`, each pool thread at `tpc`, the job of a connection
at `hpc`. A critical section is one step, except the one of `enqueue` that joins
finished threads with `mutex_` held ("cleanup"): nobody else gets the mutex then.
A dynamic thread is used again once it has been joined.

| Code | Action |
|---|---|
| accept and `enqueue` up to its unlock; clean-up and a new thread; notify_one | `Accept` with `Push`; `CleanUpAndSpawn`; `NotifyOne` |
| accept fails; `stop()`; the loop finds `svr_sock_` reset | `AcceptFails`, `Stop`, `LoopEnds` |
| `shutdown` | `SetShutdown`, `NotifyAll`, `JoinBase`, `JoinDynamic` |
| `worker`: wait, wake-up, time-out, job, after the job, return | `Wait`, `WakeUp`, `TimeOut`, `Take`, `Return`, `AfterJob`, `ShutDown`, `End` |
| `keep_alive` | `FirstEmpty`, `KeepAliveEnds` |
| `process_request`: request line, headers, content, a read that fails | `StartRequest`, `ReadHeaders`, `ReadContent`, `ReadFails` |
| the same on what is left of a refused request | `StartRequest` and `ReadAstray`, by `ParseLeftOver` |
| `write_response`, for a request read to its end or not; the client gone | `Respond`, `Refuse`, `WriteFails` |
| shutdown and close of the socket, end of the job | `CloseSocket` |

A request is two or three pieces (line, headers, body) that the client sends any
number of at a time; each is looked at as a whole. What it says (right or wrong
syntax, `Connection: close`, HTTP/1.0, a known path) is chosen when the server
looks at it. A stream reads ahead: `taken` is what it has, `parsed` what was used,
and what is left of it is lost with the stream, as in the code, which makes a new
`SocketStream` for each request. Reading may stop within a piece, the rest of which
is then next (`GetPart`). `process_request` cannot tell headers or a body that it
meets at its start from a request: `ParseLeftOver` lets them be anything, wrong, cut
off, or one or more whole requests that are served. Time limits are steps that may be
taken whenever there is nothing to read.

**Allocator** models `allocator.h` at the grain of one access to `freeStore` or
`next`. `Leftover` is what fresh memory may hold in the place of `next`: null, or
an address that is no block (`Wild`). The history variable `strayed` records that
`allocate` has handed out something malloc never returned; the properties are about
what happens up to then, and `OnlyRequestedMemory` (F4) says that it does not happen.

Operators marked "Mutant of X" belong to no specification: each is X with a
plausible mistake, and the property named with it in `PROJECT.json` fails when
X is replaced by it. They show that the property depends on that line.

## 3. Runs

| Run | Instance | Result |
|---|---|---|
| `pool` | 2 workers, 2 submitters, 4 jobs, fair | holds, 37,629 states |
| `server_safety` | 2 connections, 2 workers, 2 descriptors, buffer 4, batch of 2, ADD may fail, one callback may throw | holds, 677,601 states (modulo symmetry) |
| `server_live` | 2 connections, 2 workers, 1 descriptor, buffer 3, batch of 1, fair | holds, 68,358 states |
| `server_leak` | 1 connection | **violated**, F1 |
| `lifecycle` | both programs, 2 workers, 3 connections, an override, everything may fail, fair | holds, 155,604 states |
| `lifecycle_callbacks` | 2 workers, 2 connections | **violated**, F2 |
| `demo` | 2 connections, 2 workers, 2 descriptors, buffer 3, ADD may fail, fair | holds, 74,324 states |
| `demo_split` | 1 connection, 1 worker, fair | **violated**, F3 |
| `request_reader` | streams of up to 11 characters (up to 6, a header end, up to 1), buffer 10 | holds, 1,321,577 states |
| `allocator_safety` | 1 thread, 2 chunks of 3 blocks, memory as it comes | holds, 106,258 states |
| `allocator_leftover` | 1 thread, memory as it comes | **violated**, F4 |
| `httplib` | 1 base and 1 dynamic thread, 2 connections, a request of 3 pieces and the line of a second, keep-alive count 2, accept may fail, stop(), fair | holds, 342,228 states |

Why the bounds are enough. The pool needs two workers asleep, or one running and
one asleep, and two submitters in the middle of a submission to lose a wake-up;
more jobs than workers, so that a worker must survive a throwing job. Two
workers and four jobs have all of that, and the invariants are proved for any
number. In the server the interesting case is one connection with its previous
handler in `release` and its next event in flight, while another connection gets
a reused number: two connections, two workers and one or two descriptors have
it. The two requests differ (`MCHeaderEnd`): one that fits the buffer and needs
several reads, with a buffer that can also fill up before the end of the
request. In `Lifecycle` one task runs, one is queued and one connection is on
its way when the pool is told to stop. A first line of six characters holds two
words with room for spaces, NULs and line ends at any place; a header of ten
characters does not fit the buffer, one of nine does, and one more byte may
follow it. In `DemoServer` one request just fits the buffer and one does not.
`MAX_EVENTS` is 1 in the liveness run, so that the batch is smaller than what is
ready. Two chunks let blocks of both mix in the free list.
In `HttplibServer` one client only holds its connection and so a thread, the other
sends a request with a body and the line of another, so two replies, as many as the
count allows: the second connection makes the pool start its dynamic thread or finds
it leaving, and the second reply is about the second request, or about the rest of
the first when that was refused. The second request is never complete, which halves
the state space and keeps safety and liveness in one run; the order of replies is
proved for any requests. The bounds that are not the code's are `ClientBytes` (how
much a client sends), `MaxChunks`, and the number of connections, each of which
connects once.

Deadlock is checked in every run. In the server, `Quiescent` is the legal
state in which every thread waits for clients.

### Properties

*Pool.* `ExactlyOnce`, `WorkConserving` (no job waits while workers sleep and no
notification is on its way), `StopReachesWorkers`, `DrainedAtExit`;
`DestructorReturns`, and `ImplementsTaskQueue`: jobs start in the order of
submission, and every job runs, although some throw.

*Server.* `HandledOnce` (never in two of: armed, event, accept thread, queue,
worker), `NeverForgotten` (an open connection is in one of them),
`OwnDescriptor`, `RefBalance`, `NoDangling`, `NothingLost`;
`ImplementsConnectionLife`; `RequestAnswered`, `GoneClientClosed`,
`EventuallyAccepted`. A callback that throws leaves its connection open and
disarmed for ever: these are the members of `abandoned`, the one exception the
safety properties make. `RequestAnswered` is about a response that can be sent: a
client that has reset gets none, and a write that raises SIGPIPE takes all other
connections with it, answered or not. A client that only shuts down its side behind
its request is answered. `GoneClientClosed` holds without these exceptions: the
handler of a client that has reset closes the socket, and the end of the process does
so for everybody.

*Lifecycle.* `WorkersOutlived` (no worker is left when the pool's members go,
whatever the detached thread submits), `EarlyTasksEnd` (what was pushed before the
stop ends); `QuitEnds` (once the key is pressed, or the demo's loop has ended).

*DemoServer.* `OwnDescriptor`, `ContextsAccounted` (the leak is one
context per re-armed connection); `WholeRequestAnswered`.

*HttplibServer.* `ThreadsAccounted` (a dynamic thread is in exactly one list until
it is joined, whichever of time-out, last job, clean-up and shutdown comes first),
`NoJobAsleep`, `RepliesInStep` (the k-th reply of a client that waits for its replies
is about its k-th request until one is refused, and a refusal says `Connection: close`;
of the replies behind it, which may be about the rest of the refused request, nothing
is claimed), `ToldBeforeClosed` (a client knows from the reply, or from
its own HTTP/1.0, that the connection ends), `ImplementsTaskQueue`;
`EveryoneLetGo`, `ListenReturns`.

*RequestReader.* `AnsweredForItsRequest` (request and page are the whole
stream's, however it was cut), `DecidedAtHeaderEnd` (the offset `HttpServer`
calls `HeaderEnd` exists).

*Allocator.* Up to the first block that malloc never returned: `HandedOutOnce` (what
`allocate` returns is nobody's, or at that very point what the last block held) and
`Conserved` (the list is what nobody uses, in any order of returns, and ends).

### Fairness

Threads run when they can (weak fairness): each worker, each submitter between
push and notify, the destructor once started, the accept loop, each handler.
A job ends, by assumption: handlers contain no unbounded loop. Nothing is
assumed of clients. In `HttpServer` the pool is fair as `TaskQueue!FairSpec`
says, which `ThreadPool` is shown to implement, and each ready entry gets into
a batch infinitely often if it is ready infinitely often: the kernel's ready
list is a queue, so a bounded batch cannot starve an entry. This is assumed of the
kernel (strong fairness of `EpollWait`) and not shown by a run. `EventuallyAccepted`
holds only if no client stays silent for ever: the server has no timeout, and
the property says so in its premise. In `Lifecycle` main runs once the key is
pressed, and the workers and a submitter between push and notify run; nobody has
to press it or connect, and the accept loop need not make progress. `QuitEnds`
is about finitely many connections: under endless load the queue need never be
empty when a worker looks, and `join` waits for that. In `HttplibServer` each pool
thread and the owner run when they can, and a time limit that is waited for is
reached, since the code asks the clock; accept may always succeed, wake-ups for
no reason need not come, and nobody has to connect, send, leave or call `stop()`.

### What disagrees with the documents

* **F1** (`server_leak`) The comment at `http_server_impl.h:178` says the count
  of a closed connection reaches 0. It stays at 1: the creator's reference is
  never given back, and no context is ever deleted after a close.
* **F2** (`lifecycle_callbacks`) The callbacks are destroyed before the pool,
  whose destructor still runs the queued tasks: they call a destroyed
  `on_message_`, where `include/README.md:4` wants them completed. With a class
  that overrides `OnMessage` (`http_server_impl.h:88`) the requests of the stage
  before that reach the inherited function. Tasks that the detached thread
  pushes after the stop may not run at all, which is why `EarlyTasksEnd` is about
  the others and `DrainedBeforeDestroyed` assumes that submitters are stopped.
* **F3** (`demo_split`) `demo/test.cc:171` expects a request to be read in several
  goes; a connection is registered with `data.fd` and re-armed with `data.ptr`,
  the loop reads `data.fd` both times, and the rest of the request is never read.
* **F4** (`allocator_leftover`) The last block of a chunk is never linked: its
  `next` is what malloc left there.

Seen while modelling, without a document that says otherwise: an exception of
`on_message_` is caught in `JobHandler`, outside the handler, and the client waits
for ever on a descriptor that stays open and disarmed. In httplib, an error reply
says `Connection: close`, with the comment "Don't leave connections open after
errors" (`httplib.h:10875`), but the loop at `:5565` goes on unless the request asked
for the close as well, and reads what is left of the refused request as the next one:
it is refused in turn or, where it reads like a request, served, once for each
request it reads like; pipelined requests that were read ahead are lost with their
stream, unless more data comes; and `stop()` after a failed accept closes a number
that has been closed already (`:11405`, `:10781`).

## 4. Proofs

TLAPS checks them for every value of the constants, from the ASSUMEs of the modules:
sentinels are not members of the sets, sizes are positive (`BUFFER_SIZE >= 2`),
threads are finitely many, and httplib's pool has a base thread. Each inductive
invariant below is also an invariant TLC finds no counterexample to on the instance
of the run with its property (the allocator's, which speaks of lists of any length,
is proved only).

**ThreadPoolProofs.** `TypeInv` (types, and that a worker's job agrees with its
place) gives `TypeCorrect`. `FifoStart` is inductive with it. `WorkConserving`
is inductive: the number of jobs is at most the workers about to look plus the
notifications on their way, unless nobody sleeps. `OnceInv` adds that jobs are
submitted once and `started` lists them without repetition, from which
`RunsOnce`. `StopInv` says that with `m_stop` set a worker either will look
again or will be notified, from which `NobodySleepsThroughStop` and, without
detached submitters, `DrainedBeforeDestroyed`. `PoolIsTaskQueue` is the step
simulation: `TakeJob` is `Take`, `Push` is `Submit`, `JobReturns` and
`JobThrows` are `Finish`, everything else stutters.

**HttpServerProofs.** Neither `OwnDescriptor` nor `HandledOnce` is inductive.
The invariant has three parts. `Shape`: types, and that each thread's place
agrees with what it holds. `Tables`: a used descriptor's owner is open and
knows its number; an open connection is registered, about to be, or about to be
closed by the worker that removed it; whatever is in an event, the loop, the
queue or a busy worker is open; a connection marked closed is closed or has a
worker at DEL or close. `Places`: armed descriptors, events, the loop, the
queue and the busy workers hold different connections. `Tables` is needed for
`Places`: `EpollMod` must not arm a number that has become somebody else's, and
only an open, owned descriptor excludes that. The lemmas go action by action.
`OwnDescriptorAlways` and `HandledOnceAlways` follow.

*The life of a context.* Three more parts. `Located`: a connection is somewhere
(armed, event, loop, queue, busy worker) exactly when it is open and no
exception has lost it; with `HandledOnceAlways` this says it is in exactly one
place. `Alive`: an open connection, and a connection a worker still holds, have
a live context. `Counts`: the count of a live context is `Count(c)`, the sum
`RefBalance` spells out, with "at most once in the queue" (from `Places`)
instead of a cardinality. They need each other: `Release` does not delete the
context because the count is at least 2, which needs `Counts`; that the count
is about a live context needs `Alive`; that a thrown handler adds a new member
to `abandoned` needs `Located`. `TypeOKAlways`, `RefBalanceAlways`,
`NoDanglingAlways` and `NeverForgottenAlways` follow. Workers are assumed to be
finitely many here, to count them.

**HttpServerLife**, first part, adds `Buffers`: until a connection's request has been
decided on (`Handled`: a worker is past the parse, the socket is closed, or an
exception struck), its buffer is `Partial`: shorter than the request, with room
left and no reply written. One handler at a time (`Places`, `Located`) is what
keeps two workers' reads apart. `RoomToReadAlways`, `NothingLostAlways` and
`AnsweredOnceAlways` follow, so every invariant of `server_safety` is a theorem.

Its second part proves the refinement, `ServerIsConnectionLife`. It needs one
more invariant, `Justified`: a worker that closes has answered, or its client is
`spent` without having asked; a client that is spent stays so (`ClientSettled`),
which makes the worker's decision, taken earlier, still right when `close` comes.
`LifeClient`, `LifeAccepted`, `LifeMessage` and `LifeClose` map the steps that a
client can see to steps of `ConnectionLife`, `LifeQuiet` shows that all others
stutter: for `EpollMod` that needs `Tables` (it always finds its own descriptor
registered), for `Message` it needs `Buffers` (the request in the buffer is whole
and has not been answered). `BrokenPipe` is `End` (`LifeEnd`): the same needs, and
every connected socket closes at once.

**LifecycleProofs** uses the lemmas of `ThreadPoolProofs` through an instance:
`PoolStep` shows that each step of the program is a step of the pool or leaves it
alone, so `PoolInv` (types, order, once, stop) holds here as well, with the loop
as a submitter that nobody stops. `OwnInv` relates the stages of main to the
destructor's; `EarlyInv` says that a worker that has left has left no task that was
pushed before the stop in the queue (later ones may be there). From the three
`WorkersOutlivedAlways` and `EarlyTasksEndAlways`.

**HttplibProofs**, the pool. `Phases` relates `shutdown` to what the base threads
have done, `Lists` says that a dynamic thread exists exactly while one list has it
and that the finished ones do not come back, `IdleCounted` that
`idle_thread_count_` is the number of threads in `cond_`. `NoJobAsleep` is inductive
with these: a time-out is only taken with an empty queue, `enqueue` starts a thread
only if nobody is idle, and whoever goes to sleep has seen the queue empty.
`ServerStepsPool` shows that the server does nothing else to its pool, so all of it
is proved about `HttplibServer`; `PoolIsTaskQueue` is the simulation.

*The connections.* `Served`: an open connection is in the queue once or with one
thread, and no other connection is. `ConnInv(c)`, for each connection, relates the
pieces sent, taken by the stream and parsed, the count of the keep-alive loop, and
the list of replies. Its core is `Aligned`: as long as the client waits for its
replies and no request was given up (`Faultless`), the stream stands at the border of
a request between two replies (`AtBorder`), so that nothing is left that could be
taken for a request, and whatever comes next belongs to one without a reply. `Waits`
bounds it from above: the client has sent nothing beyond the next request. What
`ParseLeftOver` may serve is thus excluded up to the first refusal, and only so far.
That a client gets its requests in order rests on the shape of what it sends
(`PiecesAssumption`: line, headers, perhaps a body, then the next request).
`RepliesInStepAlways`, `ToldBeforeClosedAlways` (an action property), `ServedAlways`
and `NoneOpenBehindListen` follow.

**DemoServerProofs.** `OneHolder`: an open descriptor is with one event, one queued
context or one worker, and epoll holds `data.fd` for it until that worker removes or
re-arms it; a context that was read from `data.ptr` has no descriptor at all. This
gives `OwnDescriptorAlways`, and with it that EPOLL_CTL_MOD never fails
(`ModRearms`), which is why `ContextsAccountedAlways` has only one source of leaks.

**AllocatorProofs** is about one thread, which is all a process with one server has
(section 5), and any contents of fresh memory; `TypeOKAlways` is about any threads.
`Inv` says of each step of `allocate` and `deallocate`, until something has strayed,
that the free list is a list (`IsList`: the blocks nobody uses, each once, then null
or what the last block of a chunk held), or how far it is from being one; `ListPop`,
`ListPush` and `LinkedChunk` are what the code does to it. `AdvanceStep` is where it
can end: what stands behind the last block is handed out as if it were one, and with
that `strayed` is set for good (`StrayedStep`). `WalkAlong` shows by the least-number
principle that the recursive `Walk` follows that list, `ListLength` that it is no
longer than the memory, and `HandedOutOnceAlways` and `ConservedAlways` follow.

**RequestReaderProofs.** `Recognised` is why `HttpServer` may count bytes: the buffer
holds a request exactly when `HeaderEnd` bytes have arrived, because what
`std::string` keeps of it is the stream up to the first NUL or the end
(`CStringIs`), and a NUL once read does not go away. From it `HeaderInv`, which
`Read` and `ReadEnd` keep. The words: `FoldSteps` shows that the fold by which
`operator>>` is modelled is one step per character, and `RunsTo` says what it has
after k characters (the runs of other characters than spaces, and whether the last
may go on); `RunsSpace`, `RunsOn` and `RunsNew` are its three kinds of steps.
`FirstLineIs` says that getline finds the line feed in the buffer and not behind what
has arrived, `WordsNumbered` that the reference, which counts beginnings of words in
the whole stream, has the same words. From these `ParseIs`, and `TypeOKAlways`,
`AnsweredForItsRequestAlways` and `DecidedAtHeaderEndAlways` for any streams,
segments and size of the buffer.

Model-checked only: liveness and fairness, which are out of the prover's reach.
Induction over data (the fold, and the allocator's `Walk`) is possible where the
claim can be put as a set of numbers (`LeastNumber`, `AllNumbers`).

## 5. Not modelled

*In the web server.* Partial writes; callbacks replaced while the server runs; a null
return of malloc; fresh memory that holds the address of a block the list had before
(`Leftover` has addresses of no block only); allocation from several threads, which takes
two servers in one process (inside one only the accept thread allocates, and
because of F1 no worker ever gives a context back); the comparison of half a
pointer with `server_fd_` (`http_server_impl.h:127`: `data.fd` is read from an event
whose `data.ptr` was written), which goes wrong only for an address whose low half
is that number; the text of the pages.

*The demo `demo/main.cpp` and its copy `main.cc`.* Their handler and their use of
epoll are those of `HttpServerImpl`; `HttpServer` is not written a second time for
them. The same goes for the header-only version (`include/http_server.h`,
`include/thread_pool.h`, `include/connect_context.h`), which the library no longer
builds.

*httplib.* The file has 20,000 lines, most of them for things `http_demo/server.cpp`
never uses: clients, TLS, WebSocket, server-sent events, multipart and chunked
content, compression, ranges, static files, proxies. They are left out, which is why
the project stands for a small share of the repository's lines and for most of the
lines that run. Of the path that does run, these are left out: `bind` and its
failure, `is_decommissioned` and a second `listen`, `max_queued_requests` (0 here, so
that `enqueue` never refuses), accept without descriptors (it is tried again after a
microsecond), `Expect: 100-continue`, a POST without `Content-Length` (read until the
client leaves), a line cut off by the end of the stream that getline takes for a
whole one (a piece that was sent is there whole), and an exception of a handler (a
reply with status 500, like any other).

*`BlockedQueue`* does not compile when it is instantiated (`std::forword`, a capture
of a name that is not declared), so it has no behaviour to model. *File I/O*
(`include/io/file.cc`) and the logging macros are output.

## 6. Plan

Done: the pool and its abstract queue, the server and its abstract connection, the
allocator, the life of a program (the library's and the demo's), the reading of a
request, the demo server, the httplib server; and proofs of every invariant the
passing runs check; the response path for a client that resets. Next: partial writes.
