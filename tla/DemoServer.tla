----------------------------- MODULE DemoServer -----------------------------
(***************************************************************************)
(* The server of demo/test.cc, an older protocol than HttpServer's: main   *)
(* makes a new context for every event, hands it to the pool, and whoever  *)
(* has it last deletes it; nothing is counted.                             *)
(*                                                                         *)
(* A descriptor is registered with data.fd and re-armed with data.ptr, and *)
(* main reads data.fd of every event.  data is a union: from a pointer it  *)
(* reads half of an address, Garbage, which is taken for no open           *)
(* descriptor.  A context is thus read into once, and its bytes_read is    *)
(* what that read returned.                                                *)
(*                                                                         *)
(* Bytes are counted and the pool is TaskQueue, as in HttpServer.  Clients *)
(* and the kernel are external.                                            *)
(***************************************************************************)
EXTENDS Integers, Sequences, FiniteSets

CONSTANTS
    Conns,
    Workers,
    FDs,          \* descriptors the process may still open
    Listen,       \* listen_fd, as epoll_wait reports it
    Garbage,      \* data.fd of an event whose data.ptr was written
    NoConn,
    NoTask,
    BUFFER_SIZE,
    MAX_EVENTS,
    HeaderEnd,    \* where each client's request ends
    ClientBytes,  \* how much each client sends at most
    AddMayFail    \* whether EPOLL_CTL_ADD may fail

ASSUME DemoAssumption ==
    /\ NoConn \notin Conns /\ Garbage \notin FDs
    /\ IsFiniteSet(Conns) /\ IsFiniteSet(Workers) /\ IsFiniteSet(FDs)
    /\ BUFFER_SIZE \in Nat \ {0, 1} /\ MAX_EVENTS \in Nat \ {0}
    /\ HeaderEnd \in [Conns -> Nat \ {0}] /\ ClientBytes \in [Conns -> Nat]

VARIABLES
    sock,      \* "none", "backlog", "open" in the server, "closed" by it
    sent,      \* bytes each client has sent
    unread,    \* bytes waiting in the server's receive buffer
    gone,      \* the clients that have shut down their side; none resets here
    owner,     \* the connection an open descriptor refers to
    data,      \* what epoll keeps for each descriptor: "none", "fd", "ptr"
    armed,     \* registered descriptors that ONESHOT has not disabled
    events,    \* reported by epoll_wait and not processed yet
    queue,
    running,
    wpc,       \* where each worker is in handle_client_task
    contexts,  \* how many contexts are allocated
    replies    \* responses written to each connection

clientVars == <<sent, gone>>
socketVars == <<sock, sent, unread, gone>>
kernelVars == <<owner, data, armed>>
poolVars   == <<queue, running>>
vars == <<socketVars, kernelVars, events, poolVars, wpc, contexts, replies>>

\* A context: its fd, and (history) the connection whose event it was made for.
Tasks == [fd : FDs \cup {Garbage}, conn : Conns]
Pool == INSTANCE TaskQueue

ASSUME NoTaskAssumption == NoTask \notin Tasks

Busy == {w \in Workers : running[w] # NoTask}

TypeOK ==
    /\ sock \in [Conns -> {"none", "backlog", "open", "closed"}]
    /\ sent \in [Conns -> Nat] /\ unread \in [Conns -> Nat]
    /\ gone \subseteq Conns
    /\ owner \in [FDs -> Conns \cup {NoConn}]
    /\ data \in [FDs -> {"none", "fd", "ptr"}]
    /\ armed \subseteq FDs
    /\ events \subseteq Tasks \cup {Listen}
    /\ queue \in Seq(Tasks)
    /\ running \in [Workers -> Tasks \cup {NoTask}]
    /\ wpc \in [Workers -> {"idle", "read", "write", "del", "close", "mod"}]
    /\ contexts \in Nat
    /\ replies \in [Conns -> Nat]

Init ==
    /\ sock = [c \in Conns |-> "none"]
    /\ sent = [c \in Conns |-> 0] /\ unread = [c \in Conns |-> 0]
    /\ gone = {}
    /\ owner = [f \in FDs |-> NoConn]
    /\ data = [f \in FDs |-> "none"]
    /\ armed = {} /\ events = {}
    /\ Pool!Init
    /\ wpc = [w \in Workers |-> "idle"]
    /\ contexts = 0
    /\ replies = [c \in Conns |-> 0]

Backlog == {c \in Conns : sock[c] = "backlog"}
FreeFDs == {f \in FDs : owner[f] = NoConn}
Readable(f) == owner[f] # NoConn /\ (unread[owner[f]] > 0 \/ owner[f] \in gone)

\* What main finds in events[i].data.fd for descriptor f.
Reported(f) == [fd |-> IF data[f] = "fd" THEN f ELSE Garbage, conn |-> owner[f]]

ReadyFDs == {f \in armed : Readable(f)}
Ready == {Reported(f) : f \in ReadyFDs} \cup (IF Backlog = {} THEN {} ELSE {Listen})
-----------------------------------------------------------------------------
(* Clients *)

Connect(c) ==
    /\ sock[c] = "none"
    /\ sock' = [sock EXCEPT ![c] = "backlog"]
    /\ UNCHANGED <<clientVars, unread, kernelVars, events, poolVars, wpc,
                   contexts, replies>>

Send(c) ==
    /\ sock[c] \in {"backlog", "open"} /\ c \notin gone
    /\ \E k \in 1..ClientBytes[c] - sent[c] :
          /\ sent' = [sent EXCEPT ![c] = @ + k]
          /\ unread' = [unread EXCEPT ![c] = @ + k]
    /\ UNCHANGED <<sock, gone, kernelVars, events, poolVars, wpc, contexts,
                   replies>>

Leave(c) ==
    /\ sock[c] \in {"backlog", "open"} /\ c \notin gone
    /\ gone' = gone \cup {c}
    /\ UNCHANGED <<sock, sent, unread, kernelVars, events, poolVars, wpc,
                   contexts, replies>>
-----------------------------------------------------------------------------
(* main, the event loop *)

\* epoll_wait: as many of the ready entries as the array holds.
EpollWait ==
    /\ events = {} /\ Ready # {}
    /\ \E batch \in SUBSET Ready :
          /\ IF Cardinality(Ready) <= MAX_EVENTS
             THEN batch = Ready ELSE Cardinality(batch) = MAX_EVENTS
          /\ events' = batch
          /\ armed' = {f \in armed : Reported(f) \notin batch}
    /\ UNCHANGED <<socketVars, owner, data, poolVars, wpc, contexts, replies>>

\* An event with nothing to read behind it.
SpuriousEvent(f) ==
    /\ events = {} /\ f \in armed /\ ~Readable(f)
    /\ events' = {Reported(f)}
    /\ armed' = armed \ {f}
    /\ UNCHANGED <<socketVars, owner, data, poolVars, wpc, contexts, replies>>

\* accept, and EPOLL_CTL_ADD with data.fd; its result is not looked at.
AcceptConn ==
    /\ Listen \in events
    /\ \E c \in Backlog, f \in FreeFDs, added \in {TRUE, ~AddMayFail} :
          /\ sock' = [sock EXCEPT ![c] = "open"]
          /\ owner' = [owner EXCEPT ![f] = c]
          /\ data' = [data EXCEPT ![f] = IF added THEN "fd" ELSE "none"]
          /\ armed' = IF added THEN armed \cup {f} ELSE armed
    /\ events' = events \ {Listen}
    /\ UNCHANGED <<clientVars, unread, poolVars, wpc, contexts, replies>>

\* accept fails: for want of a descriptor, of memory or of a client.
AcceptFails ==
    /\ Listen \in events
    /\ events' = events \ {Listen}
    /\ UNCHANGED <<socketVars, kernelVars, poolVars, wpc, contexts, replies>>

\* new ConnectionContext(fd); pool.enqueue(...)
Dispatch(e) ==
    /\ e \in events \ {Listen}
    /\ Pool!Submit(e)
    /\ contexts' = contexts + 1
    /\ events' = events \ {e}
    /\ UNCHANGED <<socketVars, kernelVars, wpc, replies>>
-----------------------------------------------------------------------------
(* handle_client_task *)

Goto(w, step) == wpc' = [wpc EXCEPT ![w] = step]
Return(w) == Pool!Finish(w) /\ Goto(w, "idle")
DeleteContext == contexts' = contexts - 1
FdOf(w) == running[w].fd
Socket(w) == IF FdOf(w) = Garbage THEN NoConn ELSE owner[FdOf(w)]
Room == BUFFER_SIZE - 1   \* bytes_read is 0 in a new context
Lesser(m, n) == IF m <= n THEN m ELSE n

TakeTask(w) ==
    /\ Pool!Take(w)
    /\ Goto(w, "read")
    /\ UNCHANGED <<socketVars, kernelVars, events, contexts, replies>>

\* HttpRequest::parse finds the end of the header.
Complete(c, n) == n >= HeaderEnd[c]

\* Mutant of AfterRead: the buffer is found full before it is parsed.
AfterReadFullFirst(c, n) == IF n >= Room THEN "del"
                            ELSE IF Complete(c, n) THEN "write" ELSE "mod"

\* should_close and should_read after n bytes.
AfterRead(c, n) == IF Complete(c, n) THEN "write"
                   ELSE IF n >= Room THEN "del" ELSE "mod"

ReadData(w) ==
    LET c == Socket(w)
        n == Lesser(unread[c], Room)
    IN  /\ wpc[w] = "read"
        /\ c # NoConn /\ unread[c] > 0
        /\ unread' = [unread EXCEPT ![c] = @ - n]
        /\ Goto(w, AfterRead(c, n))
        /\ UNCHANGED <<sock, clientVars, kernelVars, events, poolVars,
                       contexts, replies>>

\* read returns 0 or an error, or EAGAIN.
ReadNothing(w) ==
    LET c == Socket(w)
    IN  /\ wpc[w] = "read"
        /\ c # NoConn /\ unread[c] = 0
        /\ Goto(w, IF c \in gone THEN "del" ELSE "mod")
        /\ UNCHANGED <<socketVars, kernelVars, events, poolVars, contexts,
                       replies>>

\* Mutant of ReadBadFd: the context is not deleted.
ReadBadFdKeeps(w) ==
    /\ wpc[w] = "read" /\ Socket(w) = NoConn
    /\ Return(w)
    /\ UNCHANGED <<socketVars, kernelVars, events, contexts, replies>>

\* EBADF: delete ctx; return
ReadBadFd(w) ==
    /\ wpc[w] = "read" /\ Socket(w) = NoConn
    /\ DeleteContext
    /\ Return(w)
    /\ UNCHANGED <<socketVars, kernelVars, events, replies>>

\* build_response, write; should_close
Write(w) ==
    /\ wpc[w] = "write"
    /\ replies' = [c \in Conns |-> IF c = Socket(w) THEN replies[c] + 1
                                   ELSE replies[c]]
    /\ Goto(w, "del")
    /\ UNCHANGED <<socketVars, kernelVars, events, poolVars, contexts>>

\* Mutants of Del: the descriptor, or the context, is given up here as well.
DelCloses(w) ==
    LET f == FdOf(w)
    IN  /\ wpc[w] = "del"
        /\ owner' = [owner EXCEPT ![f] = NoConn]
        /\ data' = [data EXCEPT ![f] = "none"] /\ armed' = armed \ {f}
        /\ Goto(w, "close")
        /\ UNCHANGED <<socketVars, events, poolVars, contexts, replies>>

DelDeletes(w) ==
    LET f == FdOf(w)
    IN  /\ wpc[w] = "del"
        /\ data' = [data EXCEPT ![f] = "none"] /\ armed' = armed \ {f}
        /\ DeleteContext
        /\ Goto(w, "close")
        /\ UNCHANGED <<socketVars, owner, events, poolVars, replies>>

\* EPOLL_CTL_DEL
Del(w) ==
    LET f == FdOf(w)
    IN  /\ wpc[w] = "del"
        /\ data' = [data EXCEPT ![f] = "none"] /\ armed' = armed \ {f}
        /\ Goto(w, "close")
        /\ UNCHANGED <<socketVars, owner, events, poolVars, contexts, replies>>

\* close(ctx->fd); delete ctx
Close(w) ==
    LET f == FdOf(w)
    IN  /\ wpc[w] = "close"
        /\ sock' = [c \in Conns |-> IF c = owner[f] THEN "closed" ELSE sock[c]]
        /\ owner' = [owner EXCEPT ![f] = NoConn]
        /\ data' = [data EXCEPT ![f] = "none"] /\ armed' = armed \ {f}
        /\ DeleteContext
        /\ Return(w)
        /\ UNCHANGED <<clientVars, unread, events, replies>>

\* EPOLL_CTL_MOD with data.ptr; the context is deleted only if that fails.
Mod(w) ==
    LET f == FdOf(w)
    IN  /\ wpc[w] = "mod"
        /\ IF data[f] = "none"
           THEN DeleteContext /\ UNCHANGED <<data, armed>>
           ELSE /\ data' = [data EXCEPT ![f] = "ptr"]
                /\ armed' = armed \cup {f}
                /\ UNCHANGED contexts
        /\ Return(w)
        /\ UNCHANGED <<socketVars, owner, events, replies>>
-----------------------------------------------------------------------------

Main == \/ EpollWait \/ AcceptConn \/ AcceptFails
        \/ \E e \in Tasks : Dispatch(e)

HandleClientTask(w) ==
    \/ ReadData(w) \/ ReadNothing(w) \/ ReadBadFd(w)
    \/ Write(w) \/ Del(w) \/ Close(w) \/ Mod(w)

\* Every thread waits for the clients.
Quiescent == /\ events = {} /\ Ready = {} /\ queue = <<>> /\ Busy = {}
             /\ UNCHANGED vars

Next == \/ \E c \in Conns : Connect(c) \/ Send(c) \/ Leave(c)
        \/ Main
        \/ \E f \in FDs : SpuriousEvent(f)
        \/ \E w \in Workers : TakeTask(w) \/ HandleClientTask(w)
        \/ Quiescent

Spec == Init /\ [][Next]_vars

\* As in HttpServer: the threads run, and the kernel's ready list is a queue.
Fairness ==
    /\ WF_vars(Main)
    /\ SF_vars(EpollWait /\ Listen \in events')
    /\ \A f \in FDs : SF_vars(EpollWait /\ f \in armed \ armed')
    /\ WF_vars(\E w \in Workers : TakeTask(w))
    /\ \A w \in Workers : WF_vars(HandleClientTask(w))

FairSpec == Spec /\ Fairness
-----------------------------------------------------------------------------
(* Properties *)

Pending == events \ {Listen}

\* Although contexts are not counted and numbers are reused, a descriptor in a
\* context that is still to be handled is its own connection's until it is closed.
OwnDescriptor ==
    /\ \A e \in Pending : e.fd # Garbage => owner[e.fd] = e.conn
    /\ \A i \in DOMAIN queue :
          queue[i].fd # Garbage => owner[queue[i].fd] = queue[i].conn
    /\ \A w \in Busy :
          FdOf(w) # Garbage => owner[FdOf(w)] = running[w].conn

\* Contexts are deleted once: the allocated ones are those queued, those being
\* handled, and those epoll was given, one for each connection that is re-armed.
\* The leak is as large as the number of those connections and no larger.
ContextsAccounted ==
    contexts = Len(queue) + Cardinality(Busy)
                   + Cardinality({f \in FDs : data[f] = "ptr"})

Whole(c) == HeaderEnd[c] <= Room /\ unread[c] >= HeaderEnd[c]

\* A request that has arrived as a whole when its first event is due is
\* answered, and its connection closed.
WholeRequestAnswered ==
    \A c \in Conns :
        (\E f \in armed : owner[f] = c /\ data[f] = "fd" /\ Whole(c))
            ~> (replies[c] = 1 /\ sock[c] = "closed")

\* demo/test.cc:171, go on reading, since one read may not get everything: a request
\* that arrives in pieces is answered when it is complete.
SplitRequestAnswered ==
    \A c \in Conns :
        ((\E f \in armed : owner[f] = c)
         /\ sent[c] >= HeaderEnd[c] /\ HeaderEnd[c] <= Room)
            ~> (replies[c] = 1)
=============================================================================
