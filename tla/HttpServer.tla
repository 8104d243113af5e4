----------------------------- MODULE HttpServer -----------------------------
(***************************************************************************)
(* web::HttpServerImpl of include/web/http_server_impl.h: one thread runs  *)
(* AcceptLoop (epoll_wait, accept, register, hand the ready connections to *)
(* the pool), the pool's workers run HandleClientClient, and a reference-  *)
(* counted ConnectionContext travels between epoll, the loop and the       *)
(* workers.  Two workers never handle one connection at a time because its *)
(* descriptor is registered with EPOLLONESHOT and re-armed by the handler. *)
(*                                                                         *)
(* The pool is used through TaskQueue, which ThreadPool implements.        *)
(*                                                                         *)
(* Grain.  A system call, and an atomic operation on the context, is one   *)
(* step.  A handler's locals between two of them are its program counter.  *)
(*                                                                         *)
(* Data.  A connection's bytes are counted, not stored: HeaderEnd[c] is    *)
(* the offset just after the blank line that ends c's request, so parse()  *)
(* accepts a buffer of n bytes iff n >= HeaderEnd[c].                      *)
(*                                                                         *)
(* The clients, the sockets and the epoll instance are external: they are  *)
(* modelled from the way the code uses them.                               *)
(***************************************************************************)
EXTENDS Integers, Sequences, FiniteSets

CONSTANTS
    Conns,        \* connections; each has its own context object
    Workers,      \* the pool's threads, THREAD_POOL_SIZE of them
    FDs,          \* descriptors the process may still open
    Listen,       \* server_fd_, as epoll_wait reports it
    NoConn,
    NoFd,
    BUFFER_SIZE,
    MAX_EVENTS,
    HeaderEnd,    \* where each client's request ends
    ClientBytes,  \* how much each client sends at most
    Throwing,     \* connections whose on_message_ may throw
    AddMayFail    \* whether EPOLL_CTL_ADD may fail (ENOMEM, ENOSPC)

ASSUME SentinelAssumption ==
    NoConn \notin Conns /\ Listen \notin Conns /\ NoFd \notin FDs
ASSUME WorkersAssumption == IsFiniteSet(Workers)
ASSUME SizeAssumption ==
    /\ BUFFER_SIZE \in Nat /\ BUFFER_SIZE >= 2
    /\ MAX_EVENTS \in Nat \ {0}
ASSUME RequestAssumption ==
    /\ HeaderEnd \in [Conns -> Nat \ {0}]
    /\ ClientBytes \in [Conns -> Nat]
    /\ Throwing \subseteq Conns
    /\ AddMayFail \in BOOLEAN

VARIABLES
    \* clients and sockets
    sock,       \* "none", "backlog", "open" in the server, "closed" by it
    sent,       \* bytes the client has sent
    unread,     \* bytes waiting in the server's receive buffer
    eof,        \* the client's FIN has arrived
    err,        \* the client's RST has arrived
    \* kernel tables
    owner,      \* the connection an open descriptor refers to
    interest,   \* data.ptr of each descriptor registered with epoll_fd_
    armed,      \* registered descriptors that ONESHOT has not disabled
    \* AcceptLoop
    events,     \* reported by epoll_wait and not processed yet
    apc,        \* "loop", "register", "submit"; "ended" with the process
    cur,        \* the loop body's ctx
    \* thread_pool_
    queue,
    running,
    wpc,        \* where each worker is in HandleClientClient
    \* ConnectionContext
    ctx,        \* "none", "live", "freed"
    fd,
    bytes_read,
    closed,
    ref_count,
    \* history
    replies,    \* responses written to each connection
    abandoned   \* connections whose handler was unwound by an exception

clientVars  == <<sent, eof>>
socketVars  == <<sock, sent, unread, eof, err>>
kernelVars  == <<owner, interest, armed>>
loopVars    == <<events, apc, cur>>
poolVars    == <<queue, running>>
contextVars == <<ctx, fd, bytes_read, closed, ref_count>>
historyVars == <<replies, abandoned>>

vars == <<socketVars, kernelVars, loopVars, poolVars, wpc, contextVars,
          historyVars>>

Pool == INSTANCE TaskQueue WITH Tasks <- Conns, NoTask <- NoConn

TypeOK ==
    /\ sock \in [Conns -> {"none", "backlog", "open", "closed"}]
    /\ sent \in [Conns -> Nat] /\ unread \in [Conns -> Nat]
    /\ eof \in [Conns -> BOOLEAN] /\ err \in [Conns -> BOOLEAN]
    /\ owner \in [FDs -> Conns \cup {NoConn}]
    /\ interest \in [FDs -> Conns \cup {NoConn}]
    /\ armed \subseteq FDs
    /\ events \subseteq Conns \cup {Listen}
    /\ apc \in {"loop", "register", "submit", "ended"}
    /\ cur \in Conns \cup {NoConn}
    /\ queue \in Seq(Conns)
    /\ running \in [Workers -> Conns \cup {NoConn}]
    /\ wpc \in [Workers -> {"idle", "check", "read", "message", "close",
                            "del", "closefd", "readd", "mod", "release"}]
    /\ ctx \in [Conns -> {"none", "live", "freed"}]
    /\ fd \in [Conns -> FDs \cup {NoFd}]
    /\ bytes_read \in [Conns -> 0..BUFFER_SIZE - 1]
    /\ closed \in [Conns -> BOOLEAN]
    /\ ref_count \in [Conns -> Nat]
    /\ replies \in [Conns -> Nat]
    /\ abandoned \subseteq Conns

Backlog == {c \in Conns : sock[c] = "backlog"}
FreeFDs == {f \in FDs : owner[f] = NoConn}

\* A registered descriptor that read would not block on.
Readable(f) ==
    /\ owner[f] # NoConn
    /\ LET s == owner[f] IN unread[s] > 0 \/ eof[s] \/ err[s]

\* What epoll_wait has to report.
Ready == {interest[f] : f \in {f \in armed : Readable(f)}}
             \cup (IF Backlog = {} THEN {} ELSE {Listen})

Init ==
    /\ sock = [c \in Conns |-> "none"]
    /\ sent = [c \in Conns |-> 0] /\ unread = [c \in Conns |-> 0]
    /\ eof = [c \in Conns |-> FALSE] /\ err = [c \in Conns |-> FALSE]
    /\ owner = [f \in FDs |-> NoConn]
    /\ interest = [f \in FDs |-> NoConn]
    /\ armed = {}
    /\ events = {} /\ apc = "loop" /\ cur = NoConn
    /\ Pool!Init
    /\ wpc = [w \in Workers |-> "idle"]
    /\ ctx = [c \in Conns |-> "none"]
    /\ fd = [c \in Conns |-> NoFd]
    /\ bytes_read = [c \in Conns |-> 0]
    /\ closed = [c \in Conns |-> FALSE]
    /\ ref_count = [c \in Conns |-> 0]
    /\ replies = [c \in Conns |-> 0]
    /\ abandoned = {}

-----------------------------------------------------------------------------
(* Clients *)

Connected(c) == sock[c] \in {"backlog", "open"}

Connect(c) ==
    /\ sock[c] = "none" /\ apc # "ended"
    /\ sock' = [sock EXCEPT ![c] = "backlog"]
    /\ UNCHANGED <<clientVars, unread, err, kernelVars, loopVars, poolVars,
                   wpc, contextVars, historyVars>>

\* A segment of any size arrives, before or after the connection is accepted.
Send(c) ==
    /\ Connected(c) /\ ~eof[c] /\ ~err[c]
    /\ \E k \in 1..ClientBytes[c] - sent[c] :
          /\ sent' = [sent EXCEPT ![c] = @ + k]
          /\ unread' = [unread EXCEPT ![c] = @ + k]
    /\ UNCHANGED <<sock, eof, err, kernelVars, loopVars, poolVars, wpc,
                   contextVars, historyVars>>

Shutdown(c) ==
    /\ Connected(c) /\ ~eof[c] /\ ~err[c]
    /\ eof' = [eof EXCEPT ![c] = TRUE]
    /\ UNCHANGED <<sock, sent, unread, err, kernelVars, loopVars, poolVars,
                   wpc, contextVars, historyVars>>

Reset(c) ==
    /\ Connected(c) /\ ~err[c]
    /\ err' = [err EXCEPT ![c] = TRUE]
    /\ UNCHANGED <<sock, sent, unread, eof, kernelVars, loopVars, poolVars,
                   wpc, contextVars, historyVars>>

-----------------------------------------------------------------------------
(* System calls *)

\* close(f): the socket is gone, epoll forgets it, the number can be reused.
CloseDescriptor(f) ==
    /\ owner' = [owner EXCEPT ![f] = NoConn]
    /\ interest' = [interest EXCEPT ![f] = NoConn]
    /\ armed' = armed \ {f}
    /\ sock' = [c \in Conns |-> IF c = owner[f] THEN "closed" ELSE sock[c]]

\* epoll_ctl with EPOLL_CTL_ADD or EPOLL_CTL_MOD and EPOLLONESHOT.
Arm(f, c) ==
    /\ interest' = [interest EXCEPT ![f] = c]
    /\ armed' = armed \cup {f}

-----------------------------------------------------------------------------
(* AcceptLoop *)

\* Mutant of EpollWait: the connections are registered without EPOLLONESHOT.
EpollWaitNoOneshot ==
    /\ apc = "loop" /\ events = {}
    /\ Ready # {}
    /\ \E batch \in SUBSET Ready :
          /\ Cardinality(batch) \in 1..MAX_EVENTS
          /\ events' = batch
    /\ UNCHANGED <<socketVars, kernelVars, apc, cur, poolVars, wpc,
                   contextVars, historyVars>>

\* epoll_wait: as many of the ready entries as the array holds.  The reported
\* connections are disabled by EPOLLONESHOT, the listening socket is not.
EpollWait ==
    /\ apc = "loop" /\ events = {}
    /\ Ready # {}
    /\ \E batch \in SUBSET Ready :
          /\ IF Cardinality(Ready) <= MAX_EVENTS
             THEN batch = Ready
             ELSE Cardinality(batch) = MAX_EVENTS
          /\ events' = batch
          /\ armed' = {f \in armed : interest[f] \notin batch}
    /\ UNCHANGED <<socketVars, owner, interest, apc, cur, poolVars, wpc,
                   contextVars, historyVars>>

\* epoll_wait may report a descriptor on which read then finds nothing.
SpuriousEvent(f) ==
    /\ apc = "loop" /\ events = {}
    /\ f \in armed /\ ~Readable(f)
    /\ events' = {interest[f]}
    /\ armed' = armed \ {f}
    /\ UNCHANGED <<socketVars, owner, interest, apc, cur, poolVars, wpc,
                   contextVars, historyVars>>

\* accept, set_nonblocking, on_connection_, new ConnectionContext.
AcceptConn ==
    /\ apc = "loop" /\ Listen \in events
    /\ \E c \in Backlog, f \in FreeFDs :
          /\ sock' = [sock EXCEPT ![c] = "open"]
          /\ owner' = [owner EXCEPT ![f] = c]
          /\ fd' = [fd EXCEPT ![c] = f]
          /\ ctx' = [ctx EXCEPT ![c] = "live"]
          /\ ref_count' = [ref_count EXCEPT ![c] = 1]
          /\ cur' = c
    /\ events' = events \ {Listen}
    /\ apc' = "register"
    /\ UNCHANGED <<clientVars, unread, err, interest, armed, poolVars, wpc,
                   bytes_read, closed, historyVars>>

\* accept fails: no descriptor is left (EMFILE), or nobody is waiting (EAGAIN).
AcceptFails ==
    /\ apc = "loop" /\ Listen \in events
    /\ Backlog = {} \/ FreeFDs = {}
    /\ events' = events \ {Listen}
    /\ UNCHANGED <<socketVars, kernelVars, apc, cur, poolVars, wpc,
                   contextVars, historyVars>>

\* epoll_ctl(epoll_fd_, EPOLL_CTL_ADD, conn_fd, &ev)
Register ==
    /\ apc = "register"
    /\ Arm(fd[cur], cur)
    /\ apc' = "loop" /\ cur' = NoConn
    /\ UNCHANGED <<socketVars, owner, events, poolVars, wpc, contextVars,
                   historyVars>>

\* EPOLL_CTL_ADD fails: delete ctx; close(conn_fd)
RegisterFails ==
    /\ AddMayFail
    /\ apc = "register"
    /\ ctx' = [ctx EXCEPT ![cur] = "freed"]
    /\ CloseDescriptor(fd[cur])
    /\ apc' = "loop" /\ cur' = NoConn
    /\ UNCHANGED <<clientVars, unread, err, events, poolVars, wpc, fd,
                   bytes_read, closed, ref_count, historyVars>>

\* Mutant of AddRef: the task is submitted without a reference of its own.
AddRefForgotten(c) ==
    /\ apc = "loop" /\ c \in events
    /\ events' = events \ {c}
    /\ apc' = "submit" /\ cur' = c
    /\ UNCHANGED <<socketVars, kernelVars, poolVars, wpc, contextVars,
                   historyVars>>

\* The event of a connection: take a reference for the task to come.
AddRef(c) ==
    /\ apc = "loop" /\ c \in events
    /\ ref_count' = [ref_count EXCEPT ![c] = @ + 1]
    /\ events' = events \ {c}
    /\ apc' = "submit" /\ cur' = c
    /\ UNCHANGED <<socketVars, kernelVars, poolVars, wpc, ctx, fd, bytes_read,
                   closed, historyVars>>

\* thread_pool_.emplace(&HttpServerImpl::HandleClientClient, this, ctx)
Emplace ==
    /\ apc = "submit"
    /\ Pool!Submit(cur)
    /\ apc' = "loop" /\ cur' = NoConn
    /\ UNCHANGED <<socketVars, kernelVars, events, wpc, contextVars,
                   historyVars>>

-----------------------------------------------------------------------------
(* HandleClientClient *)

Goto(w, step) == wpc' = [wpc EXCEPT ![w] = step]

TakeTask(w) ==
    /\ Pool!Take(w)
    /\ Goto(w, "check")
    /\ UNCHANGED <<socketVars, kernelVars, loopVars, contextVars, historyVars>>

\* if (ctx->closed.load()), at the start of the handler.
CheckClosed(w) ==
    /\ wpc[w] = "check"
    /\ Goto(w, IF closed[running[w]] THEN "release" ELSE "read")
    /\ UNCHANGED <<socketVars, kernelVars, loopVars, poolVars, contextVars,
                   historyVars>>

\* Mutant of Room: no byte is kept for the terminator.
RoomForTerminatorForgotten(c) == BUFFER_SIZE - bytes_read[c]

\* The socket behind ctx->fd, and the third argument of read.
Socket(c) == owner[fd[c]]
Room(c) == BUFFER_SIZE - bytes_read[c] - 1
Lesser(m, n) == IF m <= n THEN m ELSE n

\* Mutant of AfterParse: need_readd is not set.
AfterParseForgetsReadd(c, n) ==
    IF n >= HeaderEnd[c] THEN "message"
    ELSE IF n >= BUFFER_SIZE - 1 THEN "close"
    ELSE "release"

\* What the handler does next with n bytes in the buffer.
AfterParse(c, n) ==
    IF n >= HeaderEnd[c] THEN "message"
    ELSE IF n >= BUFFER_SIZE - 1 THEN "close"
    ELSE "readd"

\* Mutant of ReadData: read(ctx->fd, ctx->buffer, ...) starts over each time.
ReadDataOverwrites(w) ==
    LET c == running[w]
        s == Socket(c)
    IN  /\ wpc[w] = "read"
        /\ s # NoConn /\ unread[s] > 0 /\ Room(c) > 0
        /\ LET n == Lesser(unread[s], Room(c))
           IN  /\ bytes_read' = [bytes_read EXCEPT ![c] = n]
               /\ unread' = [unread EXCEPT ![s] = @ - n]
               /\ Goto(w, AfterParse(c, n))
        /\ UNCHANGED <<sock, clientVars, err, kernelVars, loopVars, poolVars,
                       ctx, fd, closed, ref_count, historyVars>>

\* read returns n > 0 bytes; they are parsed.
ReadData(w) ==
    LET c == running[w]
        s == Socket(c)
    IN  /\ wpc[w] = "read"
        /\ s # NoConn /\ unread[s] > 0 /\ Room(c) > 0
        /\ LET n == Lesser(unread[s], Room(c))
           IN  /\ bytes_read' = [bytes_read EXCEPT ![c] = @ + n]
               /\ unread' = [unread EXCEPT ![s] = @ - n]
               /\ Goto(w, AfterParse(c, bytes_read[c] + n))
        /\ UNCHANGED <<sock, clientVars, err, kernelVars, loopVars, poolVars,
                       ctx, fd, closed, ref_count, historyVars>>

\* Mutant of ReadEnds: the end of the stream is taken for "nothing yet".
ReadEndsRearms(w) ==
    LET c == running[w]
        s == Socket(c)
    IN  /\ wpc[w] = "read"
        /\ \/ s = NoConn
           \/ Room(c) = 0
           \/ unread[s] = 0 /\ (eof[s] \/ err[s])
        /\ Goto(w, "readd")
        /\ UNCHANGED <<socketVars, kernelVars, loopVars, poolVars, contextVars,
                       historyVars>>

\* read returns 0 (end of stream, or no room asked for) or an error.
ReadEnds(w) ==
    LET c == running[w]
        s == Socket(c)
    IN  /\ wpc[w] = "read"
        /\ \/ s = NoConn
           \/ Room(c) = 0
           \/ unread[s] = 0 /\ (eof[s] \/ err[s])
        /\ IF s = NoConn   \* EBADF
           THEN /\ closed' = [closed EXCEPT ![c] = TRUE]
                /\ Goto(w, "release")
           ELSE /\ Goto(w, "close")
                /\ UNCHANGED closed
        /\ UNCHANGED <<socketVars, kernelVars, loopVars, poolVars, ctx, fd,
                       bytes_read, ref_count, historyVars>>

\* Mutant of ReadBlocks: EAGAIN is an error like the others.
ReadBlocksCloses(w) ==
    LET s == Socket(running[w])
    IN  /\ wpc[w] = "read"
        /\ s # NoConn /\ Room(running[w]) > 0
        /\ unread[s] = 0 /\ ~eof[s] /\ ~err[s]
        /\ Goto(w, "close")
        /\ UNCHANGED <<socketVars, kernelVars, loopVars, poolVars,
                       contextVars, historyVars>>

\* read returns -1 with EAGAIN.
ReadBlocks(w) ==
    LET s == Socket(running[w])
    IN  /\ wpc[w] = "read"
        /\ s # NoConn /\ Room(running[w]) > 0
        /\ unread[s] = 0 /\ ~eof[s] /\ ~err[s]
        /\ Goto(w, "readd")
        /\ UNCHANGED <<socketVars, kernelVars, loopVars, poolVars,
                       contextVars, historyVars>>

\* Mutant of Message: the response is not written to a client that has shut
\* down its side.
MessageSkipsShutDown(w) ==
    LET s == Socket(running[w])
    IN  /\ wpc[w] = "message"
        /\ ~(s # NoConn /\ eof[s] /\ err[s])
        /\ replies' = [c \in Conns |-> IF c = s /\ ~err[c] /\ ~eof[c]
                                       THEN replies[c] + 1 ELSE replies[c]]
        /\ Goto(w, "close")
        /\ UNCHANGED <<socketVars, kernelVars, loopVars, poolVars,
                       contextVars, abandoned>>

\* on_message_ writes one response to the descriptor; its result is not used.
\* Nothing is sent to a client that has reset (ECONNRESET).
Message(w) ==
    LET s == Socket(running[w])
    IN  /\ wpc[w] = "message"
        /\ ~(s # NoConn /\ eof[s] /\ err[s])
        /\ replies' = [c \in Conns |-> IF c = s /\ ~err[c]
                                       THEN replies[c] + 1 ELSE replies[c]]
        /\ Goto(w, "close")
        /\ UNCHANGED <<socketVars, kernelVars, loopVars, poolVars,
                       contextVars, abandoned>>

\* The memory and the threads are gone, and the kernel closes every socket.
ProcessEnds ==
    /\ sock' = [c \in Conns |-> IF Connected(c) THEN "closed" ELSE sock[c]]
    /\ owner' = [f \in FDs |-> NoConn]
    /\ interest' = [f \in FDs |-> NoConn]
    /\ armed' = {}
    /\ events' = {} /\ apc' = "ended" /\ cur' = NoConn
    /\ queue' = <<>> /\ running' = [w \in Workers |-> NoConn]
    /\ wpc' = [w \in Workers |-> "idle"]
    /\ ctx' = [c \in Conns |-> "none"]
    /\ ref_count' = [c \in Conns |-> 0]

\* The client had shut down its side and then reset: the write raises SIGPIPE,
\* which nothing in the program blocks or handles.
BrokenPipe(w) ==
    LET s == Socket(running[w])
    IN  /\ wpc[w] = "message"
        /\ s # NoConn /\ eof[s] /\ err[s]
        /\ ProcessEnds
        /\ UNCHANGED <<clientVars, unread, err, fd, bytes_read, closed,
                       historyVars>>

\* on_message_ throws: JobHandler catches it outside the handler, so neither
\* the close branch nor release() is reached.
MessageThrows(w) ==
    /\ wpc[w] = "message"
    /\ running[w] \in Throwing
    /\ abandoned' = abandoned \cup {running[w]}
    /\ Pool!Finish(w)
    /\ Goto(w, "idle")
    /\ UNCHANGED <<socketVars, kernelVars, loopVars, contextVars, replies>>

\* ctx->closed.exchange(true)
SetClosed(w) ==
    /\ wpc[w] = "close"
    /\ Goto(w, IF closed[running[w]] THEN "release" ELSE "del")
    /\ closed' = [closed EXCEPT ![running[w]] = TRUE]
    /\ UNCHANGED <<socketVars, kernelVars, loopVars, poolVars, ctx, fd,
                   bytes_read, ref_count, historyVars>>

\* Mutant of EpollDel: the descriptor is closed here and once more afterwards.
EpollDelCloses(w) ==
    /\ wpc[w] = "del"
    /\ CloseDescriptor(fd[running[w]])
    /\ Goto(w, "closefd")
    /\ UNCHANGED <<clientVars, unread, err, loopVars, poolVars, contextVars,
                   historyVars>>

\* epoll_ctl(epoll_fd_, EPOLL_CTL_DEL, ctx->fd, nullptr)
EpollDel(w) ==
    /\ wpc[w] = "del"
    /\ LET f == fd[running[w]]
       IN  /\ interest' = [interest EXCEPT ![f] = NoConn]
           /\ armed' = armed \ {f}
    /\ Goto(w, "closefd")
    /\ UNCHANGED <<socketVars, owner, loopVars, poolVars, contextVars,
                   historyVars>>

\* Mutant of CloseFd: the descriptor is taken out of epoll and left open.
CloseFdForgotten(w) ==
    /\ wpc[w] = "closefd"
    /\ Goto(w, "release")
    /\ UNCHANGED <<socketVars, kernelVars, loopVars, poolVars, contextVars,
                   historyVars>>

\* close(ctx->fd)
CloseFd(w) ==
    /\ wpc[w] = "closefd"
    /\ CloseDescriptor(fd[running[w]])
    /\ Goto(w, "release")
    /\ UNCHANGED <<clientVars, unread, err, loopVars, poolVars, contextVars,
                   historyVars>>

\* if (ctx->closed.load()), before re-arming.
Recheck(w) ==
    /\ wpc[w] = "readd"
    /\ Goto(w, IF closed[running[w]] THEN "release" ELSE "mod")
    /\ UNCHANGED <<socketVars, kernelVars, loopVars, poolVars, contextVars,
                   historyVars>>

\* epoll_ctl(epoll_fd_, EPOLL_CTL_MOD, ctx->fd, &ev), which fails when the
\* descriptor is not registered: then closed.store(true); close(ctx->fd)
EpollMod(w) ==
    LET c == running[w]
    IN  /\ wpc[w] = "mod"
        /\ IF interest[fd[c]] # NoConn
           THEN /\ Arm(fd[c], c)
                /\ UNCHANGED <<sock, owner, closed>>
           ELSE /\ CloseDescriptor(fd[c])
                /\ closed' = [closed EXCEPT ![c] = TRUE]
        /\ Goto(w, "release")
        /\ UNCHANGED <<clientVars, unread, err, loopVars, poolVars, ctx, fd,
                       bytes_read, ref_count, historyVars>>

\* Mutant of Release: the last task deletes the context, though epoll has it.
ReleaseDeletesEarly(w) ==
    LET c == running[w]
    IN  /\ wpc[w] = "release"
        /\ ref_count' = [ref_count EXCEPT ![c] = @ - 1]
        /\ ctx' = [ctx EXCEPT ![c] = IF ref_count[c] <= 2 THEN "freed" ELSE @]
        /\ Pool!Finish(w)
        /\ Goto(w, "idle")
        /\ UNCHANGED <<socketVars, kernelVars, loopVars, fd, bytes_read,
                       closed, historyVars>>

\* ctx->release(), and the handler returns to JobHandler.
Release(w) ==
    LET c == running[w]
    IN  /\ wpc[w] = "release"
        /\ ref_count' = [ref_count EXCEPT ![c] = @ - 1]
        /\ ctx' = [ctx EXCEPT ![c] = IF ref_count[c] = 1 THEN "freed" ELSE @]
        /\ Pool!Finish(w)
        /\ Goto(w, "idle")
        /\ UNCHANGED <<socketVars, kernelVars, loopVars, fd, bytes_read,
                       closed, historyVars>>

-----------------------------------------------------------------------------

Client(c) == Connect(c) \/ Send(c) \/ Shutdown(c) \/ Reset(c)

AcceptLoop ==
    \/ EpollWait
    \/ AcceptConn \/ AcceptFails \/ Register \/ RegisterFails
    \/ \E c \in Conns : AddRef(c)
    \/ Emplace

HandleClientClient(w) ==
    \/ CheckClosed(w)
    \/ ReadData(w) \/ ReadEnds(w) \/ ReadBlocks(w)
    \/ Message(w) \/ BrokenPipe(w) \/ MessageThrows(w)
    \/ SetClosed(w) \/ EpollDel(w) \/ CloseFd(w)
    \/ Recheck(w) \/ EpollMod(w)
    \/ Release(w)

\* Every thread waits for the clients, and nothing waits for the threads; or the
\* process has ended.
Quiescent ==
    /\ apc \in {"loop", "ended"} /\ events = {} /\ Ready = {}
    /\ queue = <<>>
    /\ \A w \in Workers : wpc[w] = "idle"
    /\ UNCHANGED vars

Next ==
    \/ \E c \in Conns : Client(c)
    \/ AcceptLoop
    \/ \E f \in FDs : SpuriousEvent(f)
    \/ \E w \in Workers : TakeTask(w) \/ HandleClientClient(w)
    \/ Quiescent

Spec == Init /\ [][Next]_vars

(***************************************************************************)
(* The accept thread and every handler run when they can, the pool hands   *)
(* out its queue (TaskQueue!FairSpec), and the kernel's ready list is a    *)
(* queue: an entry that stays ready, or is ready again and again, gets     *)
(* into a batch.  Nothing makes a client connect, send or leave.           *)
(***************************************************************************)
Fairness ==
    /\ WF_vars(AcceptLoop)
    /\ \A e \in Conns \cup {Listen} : SF_vars(EpollWait /\ e \in events')
    /\ WF_vars(\E w \in Workers : TakeTask(w))
    /\ \A w \in Workers : WF_vars(HandleClientClient(w))

FairSpec == Spec /\ Fairness

-----------------------------------------------------------------------------
(* Properties *)

\* Every place from which connection c can still be handled: its armed
\* descriptor, a reported event, the accept thread's hands, the pool's queue,
\* a worker that has not passed it on yet.
Whereabouts(c) ==
    {<<"armed", f>> : f \in {f \in armed : interest[f] = c}}
    \cup {<<"event", e>> : e \in events \cap {c}}
    \cup {<<"loop", x>> : x \in {cur} \cap {c}}
    \cup {<<"queued", i>> : i \in {i \in DOMAIN queue : queue[i] = c}}
    \cup {<<"worker", w>> :
             w \in {w \in Workers : running[w] = c /\ wpc[w] # "release"}}

\* include/README.md:14, EPOLLONESHOT and EPOLL_CTL_MOD exclude each other
\* naturally: a connection is never in two places, so no two handlers ever
\* share its buffer, although no lock protects it.
HandledOnce == \A c \in Conns : Cardinality(Whereabouts(c)) <= 1

\* An open connection is always in one of those places: whatever arrives between
\* a read and the re-arming, a handler will come back for it.
NeverForgotten ==
    \A c \in Conns : sock[c] = "open" /\ c \notin abandoned
                         => Whereabouts(c) # {}

\* A handler only ever uses a descriptor that still is its own connection's,
\* although numbers are reused as soon as another handler closes one: no stale
\* read, write, DEL, MOD or double close hits a newer connection.
OwnDescriptor ==
    /\ \A w \in Workers :
          wpc[w] \in {"check", "read", "message", "close", "del", "closefd",
                      "readd", "mod"} => Socket(running[w]) = running[w]
    /\ \A f \in FDs : interest[f] # NoConn => owner[f] = interest[f]

\* The reference count is one for the creator, plus one for every task that is
\* being submitted, queued or run, plus one for a handler lost to an exception.
\* The next event may overtake the release of the previous task.
RefBalance ==
    \A c \in Conns : ctx[c] = "live" =>
        ref_count[c] = 1
            + (IF apc = "submit" /\ cur = c THEN 1 ELSE 0)
            + Cardinality({i \in DOMAIN queue : queue[i] = c})
            + Cardinality({w \in Workers : running[w] = c})
            + (IF c \in abandoned THEN 1 ELSE 0)

\* Nothing that can still be dereferenced points to a deleted context: neither
\* epoll's data.ptr nor an event, a queued task or a running handler.
NoDangling ==
    \A c \in Conns : ctx[c] # "live" =>
        /\ c # cur /\ c \notin events
        /\ \A f \in FDs : interest[f] # c
        /\ \A i \in DOMAIN queue : queue[i] # c
        /\ \A w \in Workers : running[w] # c

\* A handler never asks read for zero bytes: the 0 it would get is taken for the
\* end of the stream, and a complete request could be dropped unanswered.
RoomToRead ==
    \A w \in Workers : wpc[w] \in {"check", "read"} => Room(running[w]) > 0

\* Across any segmentation and any sequence of handlers, the buffer of an open
\* connection holds exactly what its client has sent and the kernel has not
\* kept.
NothingLost ==
    \A c \in Conns : sock[c] = "open" => bytes_read[c] + unread[c] = sent[c]

\* A client gets at most one response, and only for a whole request of its own.
AnsweredOnce ==
    \A c \in Conns : /\ replies[c] <= 1
                     /\ replies[c] = 1 => bytes_read[c] >= HeaderEnd[c]

\* A connection as its client knows it: ConnectionLife, where an accepted one is
\* taken up when it is registered.
WholeRequest(c) == sent[c] >= HeaderEnd[c] /\ HeaderEnd[c] <= BUFFER_SIZE - 1
Spent(c) == eof[c] \/ err[c] \/ sent[c] >= BUFFER_SIZE - 1

Stage == [c \in Conns |-> IF apc = "register" /\ cur = c THEN "accepted"
                          ELSE sock[c]]
AllAsked == {c \in Conns : WholeRequest(c)}
AllSpent == {c \in Conns : Spent(c)}
AllLost == {c \in Conns : err[c]}

Life == INSTANCE ConnectionLife
        WITH life <- Stage, asked <- AllAsked, spent <- AllSpent,
             lost <- AllLost, MayRefuse <- AddMayFail

\* Through every interleaving of the loop, the handlers and the clients: a client
\* gets at most one response and only for a whole request of its own, and is
\* never cut off while an answer could still be given.  All are cut off at once
\* when a response meets a client that shut down its side and then reset.
ImplementsConnectionLife == Life!Spec

\* A request that fits the buffer is answered once it has arrived, in however
\* many segments, also when the client shuts down its side right behind it.  Two
\* things excuse the server: the client has reset, so that no answer reaches it,
\* or writing to some other client has ended the process (SIGPIPE).
RequestAnswered ==
    \A c \in Conns :
        (sock[c] = "open" /\ WholeRequest(c))
            ~> (replies[c] = 1 \/ err[c] \/ apc = "ended")

\* A client that has left, and one that has filled the buffer, is closed: by its
\* handler, whether its response could be sent or not, or with the process.
GoneClientClosed ==
    \A c \in Conns :
        (sock[c] = "open" /\ Spent(c)) ~> (sock[c] = "closed")

\* Nobody stays in the backlog when descriptors run out, as long as the clients
\* that hold one do not stay silent for ever: the server has no timeout.  The end
\* of the process, too, empties the backlog.
EventuallyAccepted ==
    (\A c \in Conns : []<>(sock[c] # "open" \/ eof[c] \/ err[c]))
        => \A c \in Conns : (sock[c] = "backlog") ~> (sock[c] # "backlog")

\* http_server_impl.h:178, when the task is done the count is back to 1, or to 0
\* if the connection was closed: the context of a closed connection that nobody
\* works on any more has been deleted.
ReclaimedWhenClosed ==
    \A c \in Conns :
        sock[c] = "closed" /\ Whereabouts(c) = {} /\ (\A w \in Workers : running[w] # c)
            => ctx[c] # "live"
=============================================================================
