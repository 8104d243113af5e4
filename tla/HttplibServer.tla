---------------------------- MODULE HttplibServer ----------------------------
(***************************************************************************)
(* The server of http_demo/server.cpp: httplib::Server::listen_internal    *)
(* accepts connections and hands each one to the pool as one job, which    *)
(* serves the connection's requests one after the other, keep-alive, until *)
(* the client leaves, a time limit passes, the count of requests is used   *)
(* up, or a reply ends it, and then closes the socket.                     *)
(*                                                                         *)
(* A request is two or three pieces: its line, its headers up to the blank *)
(* line, its body, each looked at as a whole, in one read or several; the  *)
(* client sends any number of them at a time.  A SocketStream              *)
(* reads ahead, so pieces may be in its buffer (taken, not yet parsed);    *)
(* the stream lives for one request, and what it still holds then is lost. *)
(* What it leaves in the socket is where the next one starts reading: this *)
(* may be the rest of a request that was refused, which then is read as if *)
(* it were a request, and says whatever its bytes happen to say.           *)
(*                                                                         *)
(* Time passes: each time limit is a step that may be taken whenever there *)
(* is nothing to read.                                                     *)
(***************************************************************************)
EXTENDS Naturals, FiniteSets, SequencesExt

CONSTANTS
    Base, Dynamic,      \* the pool's threads
    Conns, NoConn,
    Pieces,             \* what each client is going to send, see Follows
    KEEP_ALIVE_MAX,     \* keep_alive_max_count_
    AcceptMayFail,      \* accept may fail for good (ECONNABORTED, ENFILE, ...)
    MayStop             \* some thread may call stop()

\* Of a request only its pieces are fixed, the last of them marked.  What they say
\* is settled when the server looks at them, since nothing depends on it before.
Piece == [part : {"line", "headers", "body"}, of : Nat \ {0}, last : BOOLEAN]

Follows(p, q) ==
    IF p.last
    THEN q.part = "line" /\ q.of = p.of + 1 /\ ~q.last
    ELSE /\ q.of = p.of
         /\ \/ p.part = "line" /\ q.part = "headers"
            \/ p.part = "headers" /\ q.part = "body" /\ q.last

\* Requests in the order they are sent, counted from 1.
ASSUME PiecesAssumption ==
    /\ Pieces \in [Conns -> Seq(Piece)]
    /\ \A c \in Conns : \A i \in DOMAIN Pieces[c] :
          IF i = 1 THEN Follows([part |-> "body", of |-> 0, last |-> TRUE], Pieces[c][i])
                   ELSE Follows(Pieces[c][i - 1], Pieces[c][i])
ASSUME ThreadsAssumption ==
    /\ Base \cap Dynamic = {} /\ NoConn \notin Conns
    /\ Base # {} /\ IsFiniteSet(Base) /\ IsFiniteSet(Dynamic)
ASSUME LimitsAssumption ==
    /\ KEEP_ALIVE_MAX \in Nat \ {0}
    /\ AcceptMayFail \in BOOLEAN /\ MayStop \in BOOLEAN

VARIABLES
    \* the pool, see HttplibPool
    jobs_, idle_thread_count_, shutdown_, dynamic_threads_, finished_threads_,
    remaining, tpc, job, opc,
    \* clients and sockets
    sock,       \* "none", "backlog", "open", "closed", "refused"
    sent,       \* pieces the client has sent
    fin,        \* the client has shut down or closed its side
    \* listen_internal
    svr_sock_,  \* "set", or "invalid" after stop()
    lsock,      \* the listening socket itself: "open", "closed"
    \* process_server_socket_core and process_request
    hpc,        \* where the job of each connection is
    count,      \* requests it may still serve
    taken,      \* pieces received from the socket
    parsed,     \* pieces the current stream has given out
    \* history
    replies,    \* what each client was sent: the request it is about, whether
                \* the server takes what it read for a whole request, and
                \* whether the client knows that it is the last reply
    told,       \* clients that know from the reply to their last request, or
                \* from its version, that the connection ends
    ahead       \* clients that sent of a request without having as many replies
                \* as there are earlier ones

poolVars    == <<jobs_, idle_thread_count_, shutdown_, dynamic_threads_,
                 finished_threads_, remaining, tpc, job, opc>>
clientVars  == <<sent, fin>>
listenVars  == <<svr_sock_, lsock>>
handlerVars == <<hpc, count, taken, parsed>>
historyVars == <<replies, told, ahead>>

vars == <<poolVars, sock, clientVars, listenVars, handlerVars, historyVars>>

Pool == INSTANCE HttplibPool WITH Tasks <- Conns, NoTask <- NoConn
Threads == Base \cup Dynamic

\* "refuse": a reply without a look at the headers; "cut": one for a request whose
\* headers were read but that cannot be served, its body for one reason; "astray":
\* within what the rest of an earlier request is taken for.
HandlerStates == {"none", "first", "poll", "headers", "body", "astray", "refuse",
                  "cut", "respond", "close"}

TypeOK ==
    /\ Pool!TypeOK
    /\ sock \in [Conns -> {"none", "backlog", "open", "closed", "refused"}]
    /\ fin \in [Conns -> BOOLEAN]
    /\ \A c \in Conns : /\ sent[c] \in 0..Len(Pieces[c])
                        /\ parsed[c] <= taken[c] /\ taken[c] <= sent[c]
                        /\ count[c] \in 0..KEEP_ALIVE_MAX
                        /\ Len(replies[c]) <= KEEP_ALIVE_MAX
    /\ svr_sock_ \in {"set", "invalid"} /\ lsock \in {"open", "closed"}
    /\ hpc \in [Conns -> HandlerStates]
    /\ told \subseteq Conns /\ ahead \subseteq Conns

\* listen_internal has just made the pool.
Init ==
    /\ Pool!Init
    /\ sock = [c \in Conns |-> "none"]
    /\ sent = [c \in Conns |-> 0] /\ fin = [c \in Conns |-> FALSE]
    /\ svr_sock_ = "set" /\ lsock = "open"
    /\ hpc = [c \in Conns |-> "none"]
    /\ count = [c \in Conns |-> KEEP_ALIVE_MAX]
    /\ taken = [c \in Conns |-> 0] /\ parsed = [c \in Conns |-> 0]
    /\ replies = [c \in Conns |-> <<>>] /\ told = {} /\ ahead = {}

-----------------------------------------------------------------------------
(* Clients *)

Connected(c) == sock[c] \in {"backlog", "open"}

Connect(c) ==
    /\ sock[c] = "none" /\ lsock = "open"
    /\ sock' = [sock EXCEPT ![c] = "backlog"]
    /\ UNCHANGED <<poolVars, clientVars, listenVars, handlerVars, historyVars>>

\* Any number of pieces in one segment.
Send(c) ==
    /\ Connected(c) /\ ~fin[c]
    /\ \E n \in sent[c] + 1..Len(Pieces[c]) :
          /\ sent' = [sent EXCEPT ![c] = n]
          /\ ahead' = IF Pieces[c][n].of > Len(replies[c]) + 1
                      THEN ahead \cup {c} ELSE ahead
    /\ UNCHANGED <<poolVars, sock, fin, listenVars, handlerVars, replies, told>>

Leave(c) ==
    /\ Connected(c) /\ ~fin[c]
    /\ fin' = [fin EXCEPT ![c] = TRUE]
    /\ UNCHANGED <<poolVars, sock, sent, listenVars, handlerVars, historyVars>>

-----------------------------------------------------------------------------
(* listen_internal, and stop() *)

OpenSocks == {c \in Conns : sock[c] = "open"}

\* The listening socket is gone: nobody in its backlog is ever accepted.
CloseListening ==
    /\ lsock' = "closed"
    /\ sock' = [c \in Conns |-> IF sock[c] = "backlog" THEN "refused" ELSE sock[c]]

\* accept4, and enqueue up to its unlock: nothing can come between them.  (Without
\* a descriptor, accept is tried again after a short sleep: no step here.)
Accept ==
    /\ svr_sock_ = "set" /\ lsock = "open"
    /\ \E c \in Conns :
          /\ sock[c] = "backlog"
          /\ sock' = [sock EXCEPT ![c] = "open"]
          /\ Pool!Push(c)
    /\ UNCHANGED <<clientVars, listenVars, handlerVars, historyVars>>

\* Any error but EMFILE, EINTR and EAGAIN: the socket is closed, svr_sock_ keeps
\* its number, and the pool is shut down.
AcceptFails ==
    /\ AcceptMayFail
    /\ svr_sock_ = "set"
    /\ CloseListening
    /\ Pool!SetShutdown
    /\ UNCHANGED <<clientVars, svr_sock_, handlerVars, historyVars>>

\* stop(), from any thread.  accept then fails, or the loop finds svr_sock_ reset.
Stop ==
    /\ MayStop
    /\ svr_sock_ = "set" /\ opc # "done"
    /\ svr_sock_' = "invalid"
    /\ CloseListening
    /\ UNCHANGED <<poolVars, clientVars, handlerVars, historyVars>>

LoopEnds ==
    /\ svr_sock_ = "invalid"
    /\ Pool!SetShutdown
    /\ UNCHANGED <<sock, clientVars, listenVars, handlerVars, historyVars>>

\* The rest of enqueue, and of shutdown.
OwnerInPool ==
    /\ Pool!CleanUpAndSpawn \/ Pool!NotifyOne \/ Pool!RestOfShutdown
    /\ UNCHANGED <<sock, clientVars, listenVars, handlerVars, historyVars>>

-----------------------------------------------------------------------------
(* A pool thread outside its job *)

PoolThread(t) ==
    /\ Pool!Wait(t) \/ Pool!ShutDown(t) \/ Pool!TimeOut(t) \/ Pool!AfterJob(t)
       \/ Pool!End(t)
    /\ UNCHANGED <<sock, clientVars, listenVars, handlerVars, historyVars>>

WakeUp(t) ==
    /\ Pool!WakeUp(t)
    /\ UNCHANGED <<sock, clientVars, listenVars, handlerVars, historyVars>>

\* process_and_close_socket begins.
TakeJob(t) ==
    /\ Pool!Take(t)
    /\ hpc' = [hpc EXCEPT ![Head(jobs_)] = "first"]
    /\ UNCHANGED <<sock, clientVars, listenVars, count, taken, parsed, historyVars>>

-----------------------------------------------------------------------------
(* process_server_socket_core: the keep-alive loop of connection c *)

\* select_read has something to report: data, or the end of the stream.
Readable(c) == taken[c] < sent[c] \/ fin[c]

Goto(c, step) == hpc' = [hpc EXCEPT ![c] = step]
ConnectionOnly == UNCHANGED <<poolVars, clientVars, listenVars>>

\* keep_alive: the first select_read comes back empty; svr_sock_ is looked at
\* before the next one.
FirstEmpty(c) ==
    /\ hpc[c] = "first" /\ ~Readable(c)
    /\ Goto(c, IF svr_sock_ = "set" THEN "poll" ELSE "close")
    /\ ConnectionOnly
    /\ UNCHANGED <<sock, count, taken, parsed, historyVars>>

\* Mutant of KeepAliveEnds: there is no limit on the time between requests.
KeepAliveForever(c) ==
    /\ hpc[c] = "poll"
    /\ svr_sock_ = "invalid"
    /\ Goto(c, "close")
    /\ ConnectionOnly
    /\ UNCHANGED <<sock, count, taken, parsed, historyVars>>

\* keep_alive returns false: the server is stopped, or the time is up.
KeepAliveEnds(c) ==
    /\ hpc[c] = "poll"
    /\ svr_sock_ = "invalid" \/ ~Readable(c)
    /\ Goto(c, "close")
    /\ ConnectionOnly
    /\ UNCHANGED <<sock, count, taken, parsed, historyVars>>

-----------------------------------------------------------------------------
(* process_request *)

Available(c) == parsed[c] < sent[c]
NextPiece(c) == Pieces[c][parsed[c] + 1]

\* SocketStream::read when its buffer is empty: what the socket has, or as much of
\* it as fits.
GetPiece(c) ==
    /\ Available(c)
    /\ IF parsed[c] = taken[c]
       THEN \E n \in parsed[c] + 1..sent[c] : taken' = [taken EXCEPT ![c] = n]
       ELSE UNCHANGED taken
    /\ parsed' = [parsed EXCEPT ![c] = @ + 1]

\* Reading stops within the piece: what the stream has not got stays in the socket.
GetPart(c) ==
    \/ GetPiece(c)
    \/ Available(c) /\ parsed[c] = taken[c] /\ UNCHANGED <<taken, parsed>>

\* The line of a request: good, wrong, or too long for getline.
ParseRequestLine(c) ==
    /\ NextPiece(c).part = "line" /\ GetPiece(c)
    /\ Goto(c, "headers") \/ Goto(c, "refuse") \/ Goto(c, "close")

\* Headers or a body in the place of a request: process_request cannot tell, and
\* they may be anything, down to a whole request or more than one.
ParseLeftOver(c) ==
    /\ GetPart(c)
    /\ \E step \in {"astray", "refuse", "cut", "respond", "close"} : Goto(c, step)

\* keep_alive: ready for read.  A SocketStream with an empty buffer, and
\* process_request up to its first decision.  The end of the stream ends the
\* connection.
StartRequest(c) ==
    /\ hpc[c] \in {"first", "poll"} /\ Readable(c)
    /\ \/ Available(c) /\ ParseRequestLine(c)
       \/ Available(c) /\ NextPiece(c).part # "line" /\ ParseLeftOver(c)
       \/ ~Available(c) /\ Goto(c, "close") /\ UNCHANGED <<taken, parsed>>
    /\ ConnectionOnly
    /\ told' = told \ {c}
    /\ UNCHANGED <<sock, count, replies, ahead>>

\* The same further on, when what began like this needs more to be complete.
ReadAstray(c) ==
    /\ hpc[c] = "astray" /\ ParseLeftOver(c)
    /\ ConnectionOnly
    /\ UNCHANGED <<sock, count, historyVars>>

\* read_headers up to the blank line, which refuses wrong ones, and the headers
\* process_request looks into.
ReadHeaders(c) ==
    /\ hpc[c] = "headers"
    /\ \/ GetPiece(c) /\ Goto(c, IF NextPiece(c).last THEN "respond" ELSE "body")
       \/ GetPart(c) /\ Goto(c, "refuse")
       \/ GetPiece(c) /\ Goto(c, "cut")
    /\ ConnectionOnly
    /\ UNCHANGED <<sock, count, historyVars>>

\* routing, when the request has content: as much of it as the headers state, or
\* up to where it is found wrong.
ReadContent(c) ==
    /\ hpc[c] = "body"
    /\ \/ GetPiece(c) /\ Goto(c, "respond")
       \/ GetPart(c) /\ Goto(c, "cut")
    /\ ConnectionOnly
    /\ UNCHANGED <<sock, count, historyVars>>

\* Mutant of ReadFails: the headers that did arrive are taken for all of them.
ReadFailsGoesOn(c) ==
    /\ hpc[c] \in {"headers", "body", "astray"} /\ ~Available(c)
    /\ Goto(c, "respond")
    /\ ConnectionOnly
    /\ UNCHANGED <<sock, count, taken, parsed, historyVars>>

\* The time limit of a read, or the end of the stream, within a request.
ReadFails(c) ==
    /\ ~Available(c)
    /\ \/ hpc[c] = "headers" /\ Goto(c, "refuse")
       \/ hpc[c] = "body" /\ Goto(c, "cut")
       \/ /\ hpc[c] = "astray"
          /\ Goto(c, "refuse") \/ Goto(c, "cut") \/ Goto(c, "close")
    /\ ConnectionOnly
    /\ UNCHANGED <<sock, count, taken, parsed, historyVars>>

\* Mutant of CloseConnection: the last request is counted from zero.
CloseConnectionLate(c) == count[c] = 0

\* process_server_socket_core: this is the last request of the connection.
CloseConnection(c) == count[c] = 1

\* write_response_core: what the Connection header says.
SaysClose(c, asked, status) == CloseConnection(c) \/ asked \/ status >= 400

Reply(c, whole, last) ==
    /\ replies' = [replies EXCEPT ![c] =
                      Append(@, [of |-> Pieces[c][parsed[c]].of, whole |-> whole,
                                 last |-> last])]
    /\ told' = IF last THEN told \cup {c} ELSE told
    /\ UNCHANGED ahead

\* Back in the loop: if (!ret || connection_closed) break; count--.  The stream
\* has gone, with what it had read ahead.
Continue(c, connection_closed) ==
    /\ parsed' = [parsed EXCEPT ![c] = taken[c]]
    /\ count' = [count EXCEPT ![c] = IF connection_closed THEN @ ELSE @ - 1]
    /\ Goto(c, IF connection_closed \/ count[c] = 1 THEN "close" ELSE "first")

\* A whole request: 200, or 404 without a handler for it.  connection_closed is
\* set when the request asks for it (Connection: close) or is of HTTP/1.0.
Respond(c) ==
    /\ hpc[c] = "respond"
    /\ \E status \in {200, 404}, asked \in BOOLEAN, http10 \in BOOLEAN :
          /\ Reply(c, TRUE, http10 \/ SaysClose(c, asked, status))
          /\ Continue(c, asked \/ http10)
    /\ ConnectionOnly
    /\ UNCHANGED <<sock, taken>>

\* A request that could not be read: 400.  The loop goes on, although the reply
\* says Connection: close, unless the request had asked for it as well.
Refuse(c) ==
    /\ hpc[c] \in {"refuse", "cut"}
    /\ \E asked \in {FALSE, hpc[c] = "cut"} :
          /\ Reply(c, FALSE, SaysClose(c, asked, 400))
          /\ Continue(c, asked)
    /\ ConnectionOnly
    /\ UNCHANGED <<sock, taken>>

\* The client has gone: write_data fails, process_request returns false.
WriteFails(c) ==
    /\ hpc[c] \in {"respond", "refuse", "cut"} /\ fin[c]
    /\ Goto(c, "close")
    /\ ConnectionOnly
    /\ UNCHANGED <<sock, count, taken, parsed, historyVars>>

\* The locals of the job die with it; nor does anybody look at the rest again.
Forget(c) ==
    /\ sent' = [sent EXCEPT ![c] = 0] /\ fin' = [fin EXCEPT ![c] = FALSE]
    /\ hpc' = [hpc EXCEPT ![c] = "none"]
    /\ count' = [count EXCEPT ![c] = KEEP_ALIVE_MAX]
    /\ taken' = [taken EXCEPT ![c] = 0] /\ parsed' = [parsed EXCEPT ![c] = 0]
    /\ replies' = [replies EXCEPT ![c] = <<>>]
    /\ told' = told \ {c} /\ ahead' = ahead \ {c}

\* shutdown_socket, close_socket; the job returns to the pool.
CloseSocket(t) ==
    /\ tpc[t] = "running" /\ hpc[job[t]] = "close"
    /\ sock' = [sock EXCEPT ![job[t]] = "closed"]
    /\ Forget(job[t])
    /\ Pool!Return(t)
    /\ UNCHANGED listenVars

-----------------------------------------------------------------------------

Client(c) == Connect(c) \/ Send(c) \/ Leave(c)

ListenInternal == Accept \/ AcceptFails \/ LoopEnds \/ OwnerInPool

\* The job of connection c, but for its last step.
ProcessSocket(c) ==
    \/ StartRequest(c) \/ FirstEmpty(c) \/ KeepAliveEnds(c)
    \/ ReadHeaders(c) \/ ReadContent(c) \/ ReadAstray(c) \/ ReadFails(c)
    \/ Respond(c) \/ Refuse(c) \/ WriteFails(c)

\* listen has returned, or everybody waits for the clients.
Rest ==
    /\ \/ opc = "done"
       \/ /\ opc = "out" /\ lsock = "open" /\ \A c \in Conns : sock[c] # "backlog"
          /\ \A t \in Threads : tpc[t] \in {"none", "waiting", "ended"}
    /\ UNCHANGED vars

Next ==
    \/ \E c \in Conns : Client(c)
    \/ ListenInternal
    \/ Stop
    \/ \E t \in Threads : PoolThread(t) \/ WakeUp(t) \/ TakeJob(t) \/ CloseSocket(t)
    \/ \E c \in Conns : ProcessSocket(c)
    \/ Rest

Spec == Init /\ [][Next]_vars

\* Each thread runs when it can, and time passes: a limit that is waited for is
\* reached.  accept may always succeed, nobody has to connect, send or stop.
Fairness ==
    /\ WF_vars(Accept \/ LoopEnds \/ OwnerInPool)
    /\ \A t \in Threads :
          WF_vars(\/ PoolThread(t) \/ TakeJob(t) \/ CloseSocket(t)
                  \/ tpc[t] = "running" /\ ProcessSocket(job[t]))

FairSpec == Spec /\ Fairness
-----------------------------------------------------------------------------
(* Properties *)

\* Every list of httplib.h's pool, also while connections hold its threads.
ThreadsAccounted == Pool!ThreadsAccounted
NoJobAsleep == Pool!NoJobAsleep
ImplementsTaskQueue == Pool!ImplementsTaskQueue

\* For a client that waits for its replies, the k-th reply is about the k-th
\* request, however they are cut into segments, until the server gives one up.  The
\* reply that does so says that it is the last: the loop goes on all the same, and
\* behind it the rest of that request may be served as if it were another one.
RepliesInStep ==
    \A c \in Conns : \A i \in DOMAIN replies[c] :
        /\ ~replies[c][i].whole => replies[c][i].last
        /\ c \notin ahead
           /\ (\A k \in 1..i - 1 : replies[c][k].whole)
               => replies[c][i].of = i

\* A client is told before the server ends a connection after a reply, so that it
\* does not lose its next request: what ends the loop and what sets the header are
\* decided in different functions.
ToldBeforeClosed ==
    [][\A c \in Conns :
          hpc[c] \in {"respond", "refuse", "cut"} /\ hpc'[c] = "close"
              /\ replies'[c] # replies[c]
          => c \in told']_vars

\* Nobody who connects is kept for ever, silent clients and those cut short
\* included: there are time limits on everything the server waits for.  (Each
\* client connects once, so in the end none is left.)
EveryoneLetGo == <>[](\A c \in Conns : ~Connected(c))

\* When accept fails or stop() is called, listen returns, with every thread joined
\* and every connection closed, also while clients go on.  (The listening socket
\* stays closed.)
ListenReturns == <>[](lsock = "closed" => opc = "done" /\ OpenSocks = {})
=============================================================================
