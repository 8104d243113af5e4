------------------------------ MODULE Lifecycle ------------------------------
(***************************************************************************)
(* The life of a program around the server.                                *)
(*                                                                         *)
(* "web" (src/main.cpp, examples/src/my_web.cc): main creates the server,  *)
(* Server(port) listens and detaches the thread of AcceptLoop, main waits  *)
(* for a key and destroys the server.  Members die in reverse order of     *)
(* declaration: on_message_, on_connection_, then thread_pool_, whose      *)
(* destructor drains the queue.                                            *)
(*                                                                         *)
(* "demo" (demo/main.cpp): the pool is a global, main runs the loop itself *)
(* and returns when the set-up or epoll_wait fails; the pool's destructor  *)
(* drains the queue after main.                                            *)
(*                                                                         *)
(* The pool is module ThreadPool with the loop's thread as its only        *)
(* submitter, one that nobody stops.  A connection brings one task; how a  *)
(* request is read in pieces is the subject of HttpServer.                 *)
(*                                                                         *)
(* Using an object after its destruction is undefined behaviour: either    *)
(* the process crashes, or the bytes are still there and serve once more.  *)
(***************************************************************************)
EXTENDS Naturals, SequencesExt

CONSTANTS
    Programs,     \* those considered, "web" and "demo"
    NumWorkers,   \* THREAD_POOL_SIZE
    Conns,
    NoConn,
    Derived,      \* the server is of a class that overrides OnMessage
    Throwing,     \* connections whose on_connection_ throws
    SetUpMayFail, \* whether socket, bind or listen may fail
    PollMayFail   \* whether epoll_wait may fail with an error but EINTR

ASSUME NumWorkersAssumption == NumWorkers \in Nat \ {0}
ASSUME NoConnAssumption     == NoConn \notin Conns

VARIABLES
    m_stop, m_jobs, wpc, job, spc, dpc, joined,   \* thread_pool_
    submitted, started, finished,                 \* its history
    program,
    process,   \* "running", "exited", "aborted", "crashed"
    mpc,       \* where main is, see Stages
    lpc,       \* where the loop is
    conn,      \* "away", "backlog", "armed", "tasked"
    served,    \* who has answered each connection
    before     \* history: the tasks pushed before the pool was told to stop

poolVars == <<m_stop, m_jobs, wpc, job, spc, dpc, joined, submitted, started,
              finished>>
ownVars  == <<program, process, mpc, lpc, conn, served, before>>
vars     == <<poolVars, ownVars>>

Pool == INSTANCE ThreadPool
        WITH Submitters <- {"loop"}, Detached <- {"loop"},
             Jobs <- Conns, NoJob <- NoConn
Workers == 1..NumWorkers

\* The stages of main: Server(port) up to listen, and up to detach; cin.get();
\* ~WebSite; the two callbacks; thread_pool_; operator delete; return 0.  In the
\* demo "wait" is the event loop, and the pool goes behind return.
Stages == <<"listen", "detach", "wait", "derived", "callbacks", "pool", "free",
            "return">>
Before(stage) == \E i, k \in DOMAIN Stages :
                     Stages[i] = mpc /\ Stages[k] = stage /\ i < k

\* on_message_ and on_connection_; the object still is a WebSite; its memory.
\* The demo has none of them to lose.
CallbacksAlive == program = "demo" \/ Before("pool")
OverrideActive == program = "demo" \/ Before("callbacks")
ServerAlive    == program = "demo" \/ Before("return")

\* From listen on, and for the demo until it closes listen_fd.
Listening == IF program = "web" THEN mpc # "listen" ELSE mpc = "wait"

TypeOK ==
    /\ Pool!TypeOK
    /\ program \in Programs
    /\ process \in {"running", "exited", "aborted", "crashed"}
    /\ mpc \in ToSet(Stages)
    /\ lpc \in {"none", "create", "poll", "ended"}
    /\ conn \in [Conns -> {"away", "backlog", "armed", "tasked"}]
    /\ served \in [Conns -> {"none", "site", "base", "dead", "closed"}]
    /\ before \subseteq Conns

\* The constructor has started the workers and set both callbacks; the demo's
\* workers are started before main.
Init ==
    /\ Pool!Init
    /\ program \in Programs
    /\ process = "running"
    /\ mpc = "listen"
    /\ lpc = "none"
    /\ conn = [c \in Conns |-> "away"]
    /\ served = [c \in Conns |-> "none"]
    /\ before = {}

Becomes(outcome) == process' = outcome

\* A step that uses what may have been destroyed.
Uses(alive) == IF alive THEN UNCHANGED process
               ELSE process' \in {"running", "crashed"}
GoTo(stage) == mpc' = stage
-----------------------------------------------------------------------------
(* main *)

\* socket, bind or listen fails: exit(1), without unwinding main's stack.
SetUpFails ==
    /\ program = "web" /\ mpc = "listen" /\ SetUpMayFail
    /\ Becomes("exited")
    /\ UNCHANGED <<poolVars, program, mpc, lpc, conn, served, before>>

\* From listen on, clients can connect.
Listen ==
    /\ program = "web" /\ mpc = "listen"
    /\ GoTo("detach")
    /\ UNCHANGED <<poolVars, program, process, lpc, conn, served, before>>

\* std::thread(&HttpServerImpl::AcceptLoop, this).detach(); Server returns.
Detach ==
    /\ mpc = "detach"
    /\ lpc' = "create"
    /\ GoTo("wait")
    /\ UNCHANGED <<poolVars, program, process, conn, served, before>>

\* cin.get() returns, main ends and unique_ptr deletes the server.
Quit ==
    /\ program = "web" /\ mpc = "wait"
    /\ GoTo(IF Derived THEN "derived" ELSE "callbacks")
    /\ UNCHANGED <<poolVars, program, process, lpc, conn, served, before>>

\* ~WebSite is done: virtual calls reach HttpServerImpl's functions now.
EndDerived ==
    /\ mpc = "derived"
    /\ GoTo("callbacks")
    /\ UNCHANGED <<poolVars, program, process, lpc, conn, served, before>>

\* ~HttpServerImpl: on_message_ and on_connection_ are destroyed.
DestroyCallbacks ==
    /\ mpc = "callbacks"
    /\ GoTo("pool")
    /\ UNCHANGED <<poolVars, program, process, lpc, conn, served, before>>

\* Mutant of DestroyPool: the workers are detached instead of joined.
DestroyPoolUnjoined ==
    /\ mpc = "pool"
    /\ \/ Pool!SetStop \/ Pool!NotifyAll
       \/ /\ dpc = "join" /\ dpc' = "destroyed"
          /\ UNCHANGED <<m_stop, m_jobs, wpc, job, spc, joined, submitted,
                         started, finished>>
    /\ before' = IF dpc = "alive" THEN ToSet(submitted)
                 ELSE before
    /\ GoTo(IF dpc' = "destroyed" THEN "free" ELSE "pool")
    /\ UNCHANGED <<program, process, lpc, conn, served>>

\* Mutant of DestroyPool: nobody is notified.
DestroyPoolSilently ==
    /\ mpc = "pool"
    /\ \/ Pool!SetStop \/ Pool!Join \/ Pool!Destroy
       \/ /\ dpc = "notify_all" /\ dpc' = "join"
          /\ UNCHANGED <<m_stop, m_jobs, wpc, job, spc, joined, submitted,
                         started, finished>>
    /\ before' = IF dpc = "alive" THEN ToSet(submitted)
                 ELSE before
    /\ GoTo(IF dpc' = "destroyed" THEN "free" ELSE "pool")
    /\ UNCHANGED <<program, process, lpc, conn, served>>

\* ~ThreadPool, statement by statement.
DestroyPool ==
    /\ mpc = "pool"
    /\ Pool!Destructor
    /\ before' = IF dpc = "alive" THEN ToSet(submitted)
                 ELSE before
    /\ GoTo(IF dpc' = "destroyed" THEN "free" ELSE "pool")
    /\ UNCHANGED <<program, process, lpc, conn, served>>

\* operator delete; for the demo, nothing.
Free ==
    /\ mpc = "free"
    /\ GoTo("return")
    /\ UNCHANGED <<poolVars, program, process, lpc, conn, served, before>>

\* return 0: the process ends, and with it the detached thread.
Return ==
    /\ mpc = "return"
    /\ Becomes("exited")
    /\ UNCHANGED <<poolVars, program, mpc, lpc, conn, served, before>>
-----------------------------------------------------------------------------
(* main of the demo *)

\* return 1: the pool's threads have been there since before main.
DemoSetUpFails ==
    /\ program = "demo" /\ mpc = "listen" /\ SetUpMayFail
    /\ GoTo("pool")
    /\ UNCHANGED <<poolVars, program, process, lpc, conn, served, before>>

DemoListens ==
    /\ program = "demo" /\ mpc = "listen"
    /\ GoTo("wait")
    /\ lpc' = "create"
    /\ UNCHANGED <<poolVars, program, process, conn, served, before>>

\* Behind the loop: close(listen_fd), close(epoll_fd), return 0.
DemoReturns ==
    /\ program = "demo" /\ mpc = "wait" /\ lpc = "ended"
    /\ GoTo("pool")
    /\ UNCHANGED <<poolVars, program, process, lpc, conn, served, before>>
-----------------------------------------------------------------------------
(* Clients, and the loop *)

Connect(c) ==
    /\ conn[c] = "away" /\ Listening
    /\ conn' = [conn EXCEPT ![c] = "backlog"]
    /\ UNCHANGED <<poolVars, program, process, mpc, lpc, served, before>>

\* epoll_create1, and the registration of server_fd_.
CreateEpoll ==
    /\ lpc = "create"
    /\ Uses(ServerAlive)
    /\ lpc' = "poll"
    /\ UNCHANGED <<poolVars, program, mpc, conn, served, before>>

\* epoll_wait fails: the loop ends, and with it the thread.
PollFails ==
    /\ lpc = "poll" /\ spc["loop"] = "idle" /\ PollMayFail
    /\ lpc' = "ended"
    /\ UNCHANGED <<poolVars, program, process, mpc, conn, served, before>>

\* The event of server_fd_: accept, on_connection_ unless it is the demo,
\* registration.  There is no catch on this thread.
AcceptConn(c) ==
    /\ lpc = "poll" /\ spc["loop"] = "idle"
    /\ conn[c] = "backlog"
    /\ IF program = "web" /\ c \in Throwing THEN Becomes("aborted")
                                            ELSE Uses(CallbacksAlive)
    /\ conn' = [conn EXCEPT ![c] = "armed"]
    /\ UNCHANGED <<poolVars, program, mpc, lpc, served, before>>

\* The event of a connection: thread_pool_.emplace, up to the unlock.
Emplace(c) ==
    /\ lpc = "poll" /\ spc["loop"] = "idle"
    /\ conn[c] = "armed"
    /\ Uses(dpc # "destroyed")
    /\ IF dpc = "destroyed" THEN UNCHANGED poolVars ELSE Pool!Push("loop", c)
    /\ conn' = [conn EXCEPT ![c] = "tasked"]
    /\ UNCHANGED <<program, mpc, lpc, served, before>>

\* thread_pool_.emplace, the notification.
EmplaceNotifies ==
    /\ spc["loop"] = "notify"
    /\ Uses(dpc # "destroyed")
    /\ Pool!NotifyOne("loop")
    /\ UNCHANGED <<program, mpc, lpc, conn, served, before>>
-----------------------------------------------------------------------------
(* The workers *)

\* Mutant of Idle: a worker leaves as soon as m_stop is set.
IdleLeavesAtOnce(w) ==
    /\ \/ Pool!Wait(w) \/ Pool!TakeJob(w) \/ Pool!SpuriousWakeup(w)
       \/ Pool!ExitAtOnce(w)
    /\ UNCHANGED ownVars

\* JobHandler up to job(), or out of the loop.
Idle(w) ==
    /\ Pool!Wait(w) \/ Pool!Exit(w) \/ Pool!TakeJob(w) \/ Pool!SpuriousWakeup(w)
    /\ UNCHANGED ownVars

\* The request is complete: on_message_(ctx->fd, ctx->request), which calls the
\* virtual OnMessage.
OnMessage(w) ==
    /\ wpc[w] = "running" /\ served[job[w]] = "none"
    /\ Uses(CallbacksAlive)
    /\ served' = [served EXCEPT ![job[w]] =
                      CASE ~CallbacksAlive -> "dead"
                        [] CallbacksAlive /\ Derived /\ ~OverrideActive -> "base"
                        [] OTHER -> "site"]
    /\ UNCHANGED <<poolVars, program, mpc, lpc, conn, before>>

\* The client has left, or the request does not fit: no callback.
NoMessage(w) ==
    /\ wpc[w] = "running" /\ served[job[w]] = "none"
    /\ served' = [served EXCEPT ![job[w]] = "closed"]
    /\ UNCHANGED <<poolVars, program, process, mpc, lpc, conn, before>>

\* Mutant of HandlerReturns: the local job is run although none was taken.
HandlerReturnsUnasked(w) ==
    /\ wpc[w] \in {"locking", "running"}
    /\ finished' = finished \cup {job[w]}
    /\ wpc' = [wpc EXCEPT ![w] = "locking"]
    /\ UNCHANGED <<m_stop, m_jobs, job, spc, dpc, joined, submitted, started,
                   ownVars>>

\* EPOLL_CTL_DEL, close, release; the handler returns.
HandlerReturns(w) ==
    /\ wpc[w] = "running" /\ served[job[w]] # "none"
    /\ Pool!JobReturns(w)
    /\ UNCHANGED ownVars
-----------------------------------------------------------------------------

Main == \/ SetUpFails \/ Listen \/ Detach \/ Quit \/ EndDerived \/ DestroyCallbacks
        \/ DemoSetUpFails \/ DemoListens \/ DemoReturns
        \/ DestroyPool \/ Free \/ Return

AcceptLoop == \/ CreateEpoll \/ PollFails
              \/ \E c \in Conns : AcceptConn(c) \/ Emplace(c)
              \/ EmplaceNotifies

Worker(w) == Idle(w) \/ OnMessage(w) \/ NoMessage(w) \/ HandlerReturns(w)

\* The process is over, and all its threads.
Over == process # "running" /\ UNCHANGED vars

Next == \/ /\ process = "running"
           /\ \/ Main
              \/ \E c \in Conns : Connect(c)
              \/ AcceptLoop
              \/ \E w \in Workers : Worker(w)
        \/ Over

Spec == Init /\ [][Next]_vars

\* The threads run when they can; nobody has to press the key or connect.
Fairness ==
    /\ WF_vars(/\ process = "running"
               /\ \/ Detach \/ EndDerived \/ DestroyCallbacks \/ DemoReturns
                  \/ DestroyPool \/ Free \/ Return)
    /\ WF_vars(process = "running" /\ EmplaceNotifies)
    /\ \A w \in Workers :
          WF_vars(/\ process = "running"
                  /\ \/ (Pool!Exit(w) \/ Pool!TakeJob(w)) /\ UNCHANGED ownVars
                     \/ OnMessage(w) \/ NoMessage(w) \/ HandlerReturns(w))

FairSpec == Spec /\ Fairness
-----------------------------------------------------------------------------
(* Properties *)

\* Whatever the detached thread goes on submitting, no worker is still inside the
\* pool or the server when the pool's members and the server's memory go.
WorkersOutlived ==
    ~Before("free") => \A w \in Workers : wpc[w] = "exited"

\* A task pushed before the pool was told to stop has ended when its destructor
\* returns, also if later ones are left behind.
EarlyTasksEnd == ~Before("free") => before \subseteq finished

\* Once the key is pressed, or the demo's loop or set-up has failed, the process
\* ends, if only so many clients connect.
QuitEnds == (~Before("derived") \/ (program = "demo" /\ lpc = "ended"))
                ~> (process # "running")

\* include/README.md:4, before the pool exits its tasks must be completed: no
\* task finds its callback destroyed or, in a server whose class overrides
\* OnMessage (http_server_impl.h:88), reaches the inherited function instead.
TasksKeepCallbacks == \A c \in Conns : served[c] \notin {"dead", "base"}
=============================================================================
