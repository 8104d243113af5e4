-------------------------- MODULE DemoServerProofs --------------------------
(***************************************************************************)
(* Proofs about DemoServer, for any set of connections, descriptors and    *)
(* workers, any batch size and any buffer: a number in a context that is   *)
(* still to be handled is its own connection's, and how many contexts are  *)
(* allocated.                                                              *)
(***************************************************************************)
EXTENDS DemoServer, SequenceTheorems, FiniteSetTheorems, TLAPS

(***************************************************************************)
(* The inductive invariant                                                 *)
(***************************************************************************)

\* The types, and a worker in a socket call of handle_client_task has a descriptor.
Shape ==
    /\ sock \in [Conns -> {"none", "backlog", "open", "closed"}]
    /\ sent \in [Conns -> Nat] /\ unread \in [Conns -> Nat]
    /\ gone \subseteq Conns
    /\ owner \in [FDs -> Conns \cup {NoConn}]
    /\ data \in [FDs -> {"none", "fd", "ptr"}]
    /\ armed \subseteq FDs
    /\ events \subseteq Tasks \cup {Listen}
    /\ queue \in Seq(Tasks)
    /\ running \in [Workers -> Tasks \cup {NoTask}]
    /\ wpc \in [Workers -> {"idle", "read", "write", "del", "close", "mod"}]
    /\ replies \in [Conns -> Nat]
    /\ \A w \in Workers :
          /\ wpc[w] = "idle" <=> running[w] = NoTask
          /\ wpc[w] \notin {"idle", "read"} => FdOf(w) # Garbage

\* What epoll has is open.
Registered ==
    \A f \in FDs : /\ f \in armed => data[f] # "none"
                   /\ data[f] # "none" => owner[f] # NoConn

\* Of a context that is not handled yet: its descriptor is open, registered with
\* data.fd and disabled.
Fresh(e) ==
    e.fd # Garbage =>
        owner[e.fd] = e.conn /\ data[e.fd] = "fd" /\ e.fd \notin armed

SameFd(d, e) == d.fd = e.fd /\ d.fd # Garbage

\* An open descriptor is with one event, one queued context or one worker, and
\* epoll keeps data.fd for it until that worker removes or re-arms it.
OneHolder ==
    /\ \A e \in Pending : Fresh(e)
    /\ \A i \in 1..Len(queue) : Fresh(queue[i])
    /\ \A w \in Busy : FdOf(w) # Garbage =>
          /\ owner[FdOf(w)] = running[w].conn
          /\ data[FdOf(w)] = IF wpc[w] = "close" THEN "none" ELSE "fd"
          /\ FdOf(w) \notin armed
    /\ \A e \in Pending :
          /\ \A i \in 1..Len(queue) : ~SameFd(e, queue[i])
          /\ \A w \in Busy : ~SameFd(e, running[w])
    /\ \A i \in 1..Len(queue) :
          /\ \A k \in 1..Len(queue) : SameFd(queue[i], queue[k]) => i = k
          /\ \A w \in Busy : ~SameFd(queue[i], running[w])
    /\ \A w, v \in Busy : SameFd(running[w], running[v]) => w = v

Inv == Shape /\ Registered /\ OneHolder

\* The tasks of the queue and of the workers.
LEMMA TaskTypes ==
    ASSUME Shape
    PROVE  /\ Len(queue) \in Nat
           /\ \A i \in 1..Len(queue) : queue[i] \in Tasks
           /\ \A w \in Busy : running[w] \in Tasks /\ w \in Workers
           /\ \A w \in Workers : w \in Busy <=> wpc[w] # "idle"
           /\ \A e \in Tasks : e.fd \in FDs \cup {Garbage} /\ e.conn \in Conns
           /\ \A e \in Pending : e \in Tasks
           /\ DOMAIN queue = 1..Len(queue)
<1>1. /\ queue \in Seq(Tasks)
      /\ running \in [Workers -> Tasks \cup {NoTask}]
      /\ events \subseteq Tasks \cup {Listen}
      /\ \A w \in Workers : wpc[w] = "idle" <=> running[w] = NoTask
    BY DEF Shape
<1>2. /\ Len(queue) \in Nat /\ DOMAIN queue = 1..Len(queue)
      /\ \A i \in 1..Len(queue) : queue[i] \in Tasks
    BY <1>1, LenProperties, ElementOfSeq
<1>3. \A e \in Tasks : e.fd \in FDs \cup {Garbage} /\ e.conn \in Conns
    BY DEF Tasks
<1> QED
    BY <1>1, <1>2, <1>3 DEF Busy, Pending

\* A worker at a socket call has its own open descriptor.
LEMMA WorkerFd ==
    ASSUME Inv, NEW w \in Workers, wpc[w] \notin {"idle", "read"}
    PROVE  /\ FdOf(w) \in FDs /\ w \in Busy
           /\ owner[FdOf(w)] \in Conns /\ owner[FdOf(w)] # NoConn
           /\ running[w] # NoTask
<1>1. /\ w \in Busy /\ running[w] \in Tasks
      /\ FdOf(w) # Garbage /\ FdOf(w) \in FDs /\ running[w].conn \in Conns
    BY TaskTypes DEF Inv, Shape, FdOf
<1>2. owner[FdOf(w)] = running[w].conn
    BY <1>1 DEF Inv, OneHolder
<1> QED
    BY <1>1, <1>2, DemoAssumption, NoTaskAssumption

LEMMA InvInit == Init => Inv
<1> SUFFICES ASSUME Init PROVE Inv
    OBVIOUS
<1>1. Len(queue) = 0 /\ queue \in Seq(Tasks)
    BY EmptySeq DEF Init, Pool!Init
<1>2. Busy = {} /\ Pending = {}
    BY DEF Init, Pool!Init, Busy, Pending
<1>3. Shape
    BY <1>1 DEF Init, Pool!Init, Shape
<1>4. Registered
    BY DEF Init, Registered
<1> QED
    BY <1>1, <1>2, <1>3, <1>4 DEF Inv, OneHolder

(***************************************************************************)
(* Types                                                                   *)
(***************************************************************************)

\* What a task that is taken or given back does to the workers.
LEMMA TakeBusy ==
    ASSUME Shape, NEW w \in Workers, TakeTask(w)
    PROVE  /\ Head(queue) \in Tasks /\ queue' = Tail(queue) /\ queue # <<>>
           /\ running' = [running EXCEPT ![w] = Head(queue)]
           /\ wpc' = [wpc EXCEPT ![w] = "read"]
           /\ w \notin Busy /\ Busy' = Busy \cup {w}
<1>1. /\ running \in [Workers -> Tasks \cup {NoTask}]
      /\ queue \in Seq(Tasks) /\ queue # <<>> /\ queue' = Tail(queue)
      /\ running[w] = NoTask
      /\ running' = [running EXCEPT ![w] = Head(queue)]
      /\ wpc' = [wpc EXCEPT ![w] = "read"]
    BY DEF Shape, TakeTask, Goto, Pool!Take
<1>2. Head(queue) \in Tasks
    BY <1>1, HeadTailProperties
<1> QED
    BY <1>1, <1>2, NoTaskAssumption DEF Busy

LEMMA ReturnBusy ==
    ASSUME Shape, NEW w \in Workers, Return(w)
    PROVE  /\ running' = [running EXCEPT ![w] = NoTask] /\ queue' = queue
           /\ wpc' = [wpc EXCEPT ![w] = "idle"]
           /\ w \in Busy /\ Busy' = Busy \ {w}
BY DEF Shape, Return, Goto, Pool!Finish, Busy

LEMMA ReturnShape ==
    ASSUME Shape, NEW w \in Workers, Return(w)
    PROVE  /\ queue' \in Seq(Tasks)
           /\ running' \in [Workers -> Tasks \cup {NoTask}]
           /\ wpc' \in [Workers -> {"idle", "read", "write", "del", "close", "mod"}]
           /\ \A v \in Workers :
                 /\ wpc'[v] = "idle" <=> running'[v] = NoTask
                 /\ wpc'[v] \notin {"idle", "read"} => running'[v].fd # Garbage
<1>1. /\ running' = [running EXCEPT ![w] = NoTask] /\ queue' = queue
      /\ wpc' = [wpc EXCEPT ![w] = "idle"]
    BY ReturnBusy
<1>2. /\ queue' \in Seq(Tasks)
      /\ running' \in [Workers -> Tasks \cup {NoTask}]
      /\ wpc' \in [Workers -> {"idle", "read", "write", "del", "close", "mod"}]
    BY <1>1 DEF Shape
<1>3. ASSUME NEW v \in Workers
      PROVE  /\ wpc'[v] = "idle" <=> running'[v] = NoTask
             /\ wpc'[v] \notin {"idle", "read"} => running'[v].fd # Garbage
    <2>1. CASE v = w
        <3>1. wpc'[w] = "idle" /\ running'[w] = NoTask
            BY <1>1 DEF Shape
        <3> QED
            BY <2>1, <3>1
    <2>2. CASE v # w
        <3>1. wpc'[v] = wpc[v] /\ running'[v] = running[v]
            BY <1>1, <2>2 DEF Shape
        <3>2. /\ wpc[v] = "idle" <=> running[v] = NoTask
              /\ wpc[v] \notin {"idle", "read"} => running[v].fd # Garbage
            BY DEF Shape, FdOf
        <3> QED
            BY <3>1, <3>2
    <2> QED
        BY <2>1, <2>2
<1> QED
    BY <1>2, <1>3

\* Where a context is re-armed, the descriptor is still registered: EPOLL_CTL_MOD
\* does not fail there.
LEMMA ModRearms ==
    ASSUME Inv, NEW w \in Workers, Mod(w)
    PROVE  /\ data[FdOf(w)] = "fd" /\ data' = [data EXCEPT ![FdOf(w)] = "ptr"]
           /\ armed' = armed \cup {FdOf(w)}
           /\ Return(w)
           /\ UNCHANGED <<sock, sent, unread, gone, owner, events, replies, contexts>>
<1>1. wpc[w] = "mod" /\ w \in Busy /\ FdOf(w) # Garbage
    BY WorkerFd DEF Mod, Inv, Shape
<1>2. data[FdOf(w)] = "fd"
    BY <1>1 DEF Inv, OneHolder
<1> QED
    BY <1>2 DEF Mod, socketVars

LEMMA ReportedTask ==
    ASSUME Shape, NEW f \in FDs, owner[f] # NoConn
    PROVE  /\ Reported(f) \in Tasks
           /\ Reported(f).fd # Garbage =>
                 Reported(f).fd = f /\ Reported(f).conn = owner[f] /\ data[f] = "fd"
BY DEF Shape, Reported, Tasks

LEMMA ShapeStep == Inv /\ [Next]_vars => Shape'
<1> SUFFICES ASSUME Inv, [Next]_vars PROVE Shape'
    OBVIOUS
<1> USE DEF clientVars, socketVars, kernelVars, poolVars
<1>1. Shape /\ Registered /\ OneHolder
    BY DEF Inv
<1>2. ASSUME NEW c \in Conns, Connect(c) \/ Leave(c)
      PROVE  Shape'
    BY <1>1, <1>2 DEF Connect, Leave, Shape, FdOf
<1>3. ASSUME NEW c \in Conns, Send(c)
      PROVE  Shape'
    <2>1. PICK k \in 1..ClientBytes[c] - sent[c] :
              /\ sent' = [sent EXCEPT ![c] = @ + k]
              /\ unread' = [unread EXCEPT ![c] = @ + k]
        BY <1>3 DEF Send
    <2>2. k \in Nat /\ sent[c] + k \in Nat /\ unread[c] + k \in Nat
        BY <1>1, DemoAssumption DEF Shape
    <2> QED
        BY <1>1, <1>3, <2>1, <2>2 DEF Send, Shape, FdOf
<1>4. CASE EpollWait
    <2>1. /\ events' \subseteq Ready /\ armed' \subseteq armed
          /\ UNCHANGED <<socketVars, owner, data, poolVars, wpc, replies>>
        BY <1>4 DEF EpollWait
    <2>2. Ready \subseteq Tasks \cup {Listen}
        BY <1>1, ReportedTask DEF Ready, ReadyFDs, Readable, Shape
    <2> QED
        BY <1>1, <2>1, <2>2 DEF Shape, FdOf
<1>5. ASSUME NEW f \in FDs, SpuriousEvent(f)
      PROVE  Shape'
    <2>1. Reported(f) \in Tasks
        BY <1>1, <1>5, ReportedTask DEF SpuriousEvent, Registered
    <2> QED
        BY <1>1, <1>5, <2>1 DEF SpuriousEvent, Shape, FdOf
<1>6. CASE AcceptConn
    BY <1>1, <1>6 DEF AcceptConn, Backlog, FreeFDs, Shape, FdOf
<1>7. CASE AcceptFails
    BY <1>1, <1>7 DEF AcceptFails, Shape, FdOf
<1>8. ASSUME NEW e \in Tasks, Dispatch(e)
      PROVE  Shape'
    BY <1>1, <1>8, AppendProperties DEF Dispatch, Pool!Submit, Shape, FdOf
<1>9. ASSUME NEW w \in Workers, TakeTask(w)
      PROVE  Shape'
    <2>1. queue' \in Seq(Tasks)
        <3>1. queue # <<>> /\ queue' = Tail(queue) /\ queue \in Seq(Tasks)
            BY <1>1, <1>9, TakeBusy DEF Shape
        <3> QED
            BY <3>1, HeadTailProperties
    <2>2. /\ Head(queue) \in Tasks /\ Head(queue) # NoTask
          /\ running' = [running EXCEPT ![w] = Head(queue)]
          /\ wpc' = [wpc EXCEPT ![w] = "read"]
        BY <1>1, <1>9, TakeBusy, NoTaskAssumption
    <2>3. UNCHANGED <<socketVars, kernelVars, events, replies>>
        BY <1>9 DEF TakeTask
    <2> QED
        BY <1>1, <2>1, <2>2, <2>3 DEF Shape, FdOf
<1>10. ASSUME NEW w \in Workers, ReadData(w)
       PROVE  Shape'
    <2> DEFINE c == Socket(w)
               n == Lesser(unread[c], Room)
    <2>1. /\ wpc[w] = "read" /\ c # NoConn
          /\ unread' = [unread EXCEPT ![c] = @ - n]
          /\ wpc' = [wpc EXCEPT ![w] = AfterRead(c, n)]
          /\ UNCHANGED <<sock, clientVars, kernelVars, events, poolVars, replies>>
        BY <1>10 DEF ReadData, Goto
    <2>2. FdOf(w) # Garbage /\ c \in Conns
        BY <1>1, <2>1, TaskTypes DEF Socket, Shape, FdOf
    <2>3. unread[c] - n \in Nat
        BY <1>1, <2>2, DemoAssumption DEF Shape, Lesser, Room
    <2>4. AfterRead(c, n) \in {"write", "del", "mod"}
        BY DEF AfterRead
    <2> HIDE DEF c, n
    <2> QED
        BY <1>1, <2>1, <2>2, <2>3, <2>4 DEF Shape, FdOf
<1>11. ASSUME NEW w \in Workers, ReadNothing(w)
       PROVE  Shape'
    <2>1. PICK step \in {"del", "mod"} : wpc' = [wpc EXCEPT ![w] = step]
        BY <1>11 DEF ReadNothing, Goto
    <2>2. wpc[w] = "read" /\ FdOf(w) # Garbage
        BY <1>11 DEF ReadNothing, Socket
    <2> QED
        BY <1>1, <1>11, <2>1, <2>2 DEF ReadNothing, Shape, FdOf
<1>12. ASSUME NEW w \in Workers, ReadBadFd(w)
       PROVE  Shape'
    <2>1. Return(w)
        BY <1>12 DEF ReadBadFd
    <2>2. UNCHANGED <<socketVars, kernelVars, events, replies>>
        BY <1>12 DEF ReadBadFd
    <2> QED
        BY <1>1, <2>1, <2>2, ReturnShape DEF Shape, FdOf
<1>13. ASSUME NEW w \in Workers, Write(w)
       PROVE  Shape'
    BY <1>1, <1>13 DEF Write, Goto, Shape, FdOf
<1>14. ASSUME NEW w \in Workers, Del(w)
       PROVE  Shape'
    BY <1>1, <1>14 DEF Del, Goto, Shape, FdOf
<1>15. ASSUME NEW w \in Workers, Close(w)
       PROVE  Shape'
    <2>1. Return(w)
        BY <1>15 DEF Close
    <2>2. /\ sock' \in [Conns -> {"none", "backlog", "open", "closed"}]
          /\ owner' \in [FDs -> Conns \cup {NoConn}]
          /\ data' \in [FDs -> {"none", "fd", "ptr"}] /\ armed' \subseteq FDs
        <3>1. /\ sock' = [c \in Conns |-> IF c = owner[FdOf(w)] THEN "closed" ELSE sock[c]]
              /\ owner' = [owner EXCEPT ![FdOf(w)] = NoConn]
              /\ data' = [data EXCEPT ![FdOf(w)] = "none"] /\ armed' \subseteq armed
            BY <1>15 DEF Close
        <3>2. sock' \in [Conns -> {"none", "backlog", "open", "closed"}]
            BY <1>1, <3>1 DEF Shape
        <3>3. owner' \in [FDs -> Conns \cup {NoConn}]
            BY <1>1, <3>1 DEF Shape
        <3>4. data' \in [FDs -> {"none", "fd", "ptr"}] /\ armed' \subseteq FDs
            BY <1>1, <3>1 DEF Shape
        <3> QED
            BY <3>2, <3>3, <3>4
    <2>3. UNCHANGED <<clientVars, unread, events, replies>>
        BY <1>15 DEF Close
    <2> QED
        BY <1>1, <2>1, <2>2, <2>3, ReturnShape DEF Shape, FdOf
<1>16. ASSUME NEW w \in Workers, Mod(w)
       PROVE  Shape'
    <2>1. FdOf(w) \in FDs
        BY <1>16, WorkerFd DEF Mod
    <2> QED
        <3>1. /\ data' \in [FDs -> {"none", "fd", "ptr"}]
              /\ armed' \subseteq FDs
              /\ UNCHANGED <<socketVars, owner, events, replies>>
            <4>1. /\ data' = [data EXCEPT ![FdOf(w)] = "ptr"]
                  /\ armed' = armed \cup {FdOf(w)}
                  /\ UNCHANGED <<sock, sent, unread, gone, owner, events, replies>>
                BY <1>16, ModRearms
            <4>2. data' \in [FDs -> {"none", "fd", "ptr"}]
                BY <1>1, <2>1, <4>1 DEF Shape
            <4>3. armed' \subseteq FDs
                BY <1>1, <2>1, <4>1 DEF Shape
            <4> QED
                BY <4>1, <4>2, <4>3
        <3>2. /\ running' = [running EXCEPT ![w] = NoTask] /\ queue' = queue
              /\ wpc' = [wpc EXCEPT ![w] = "idle"]
            BY <1>1, <1>16, ModRearms, ReturnBusy
        <3> QED
            BY <1>1, <3>1, <3>2 DEF Shape, FdOf
<1>17. CASE Quiescent \/ UNCHANGED vars
    BY <1>1, <1>17 DEF Quiescent, vars, Shape, FdOf
<1> QED
    BY <1>2, <1>3, <1>4, <1>5, <1>6, <1>7, <1>8, <1>9, <1>10, <1>11, <1>12, <1>13,
       <1>14, <1>15, <1>16, <1>17
    DEF Next, Main, HandleClientTask

(***************************************************************************)
(* Descriptors                                                             *)
(***************************************************************************)

LEMMA RegisteredStep == Inv /\ [Next]_vars => Registered'
<1> SUFFICES ASSUME Inv, [Next]_vars PROVE Registered'
    OBVIOUS
<1> USE DEF clientVars, socketVars, kernelVars, poolVars
<1>1. Shape /\ Registered
    BY DEF Inv
<1>2. ASSUME armed' \subseteq armed, UNCHANGED <<owner, data>>
      PROVE  Registered'
    BY <1>1, <1>2 DEF Registered
<1>3. ASSUME NEW c \in Conns, Connect(c) \/ Send(c) \/ Leave(c)
      PROVE  Registered'
    BY <1>2, <1>3 DEF Connect, Send, Leave
<1>4. CASE EpollWait \/ AcceptFails
    BY <1>2, <1>4 DEF EpollWait, AcceptFails
<1>5. ASSUME NEW f \in FDs, SpuriousEvent(f)
      PROVE  Registered'
    BY <1>2, <1>5 DEF SpuriousEvent
<1>6. CASE AcceptConn
    BY <1>1, <1>6, DemoAssumption DEF AcceptConn, Backlog, FreeFDs, Registered, Shape
<1>7. ASSUME NEW e \in Tasks, Dispatch(e)
      PROVE  Registered'
    BY <1>2, <1>7 DEF Dispatch
<1>8. ASSUME NEW w \in Workers,
             TakeTask(w) \/ ReadData(w) \/ ReadNothing(w) \/ ReadBadFd(w) \/ Write(w)
      PROVE  Registered'
    BY <1>2, <1>8 DEF TakeTask, ReadData, ReadNothing, ReadBadFd, Write
<1>9. ASSUME NEW w \in Workers, Del(w) \/ Close(w)
      PROVE  Registered'
    BY <1>1, <1>9 DEF Del, Close, Registered, Shape
<1>10. ASSUME NEW w \in Workers, Mod(w)
       PROVE  Registered'
    <2>1. owner[FdOf(w)] # NoConn
        BY <1>10, WorkerFd DEF Mod
    <2> QED
        BY <1>1, <1>10, <2>1, ModRearms DEF Registered, Shape
<1>11. CASE Quiescent \/ UNCHANGED vars
    BY <1>2, <1>11 DEF Quiescent, vars
<1> QED
    BY <1>3, <1>4, <1>5, <1>6, <1>7, <1>8, <1>9, <1>10, <1>11
    DEF Next, Main, HandleClientTask

\* Events join the pending ones when their descriptors are disabled.
LEMMA NewEvents ==
    ASSUME Inv, EpollWait \/ \E f \in FDs : SpuriousEvent(f)
    PROVE  /\ UNCHANGED <<owner, data, queue, running, wpc, contexts>>
           /\ armed' \subseteq armed /\ Pending = {}
           /\ \A e \in Pending' : e.fd # Garbage =>
                 /\ e.fd \in armed /\ e.fd \notin armed'
                 /\ owner[e.fd] = e.conn /\ data[e.fd] = "fd"
<1> USE DEF Pending, poolVars
<1>1. CASE EpollWait
    <2>1. /\ events' \subseteq Ready /\ events = {}
          /\ armed' = {f \in armed : Reported(f) \notin events'}
          /\ UNCHANGED <<owner, data, queue, running, wpc, contexts>>
        BY <1>1 DEF EpollWait
    <2>2. ASSUME NEW e \in events' \ {Listen}, e.fd # Garbage
          PROVE  /\ e.fd \in armed /\ e.fd \notin armed'
                 /\ owner[e.fd] = e.conn /\ data[e.fd] = "fd"
        <3>1. PICK f \in armed : e = Reported(f) /\ Readable(f)
            BY <2>1 DEF Ready, ReadyFDs
        <3>2. e.fd = f /\ e.conn = owner[f] /\ data[f] = "fd"
            BY <2>2, <3>1 DEF Reported
        <3> QED
            BY <2>1, <2>2, <3>1, <3>2
    <2> QED
        BY <2>1, <2>2
<1>2. ASSUME NEW f \in FDs, SpuriousEvent(f)
      PROVE  /\ UNCHANGED <<owner, data, queue, running, wpc, contexts>>
             /\ armed' \subseteq armed /\ Pending = {}
             /\ \A e \in Pending' : e.fd # Garbage =>
                   /\ e.fd \in armed /\ e.fd \notin armed'
                   /\ owner[e.fd] = e.conn /\ data[e.fd] = "fd"
    BY <1>2 DEF SpuriousEvent, Reported
<1> QED
    BY <1>1, <1>2

\* Two steps with which a number goes from one holder to the next.
LEMMA DispatchHolder ==
    ASSUME Inv, NEW e \in Tasks, Dispatch(e)
    PROVE  OneHolder'
<1>1. Shape /\ OneHolder
    BY DEF Inv
<1>2. /\ e \in Pending /\ Pending' = Pending \ {e}
      /\ queue' = Append(queue, e)
      /\ UNCHANGED <<owner, data, armed, running, wpc>>
    BY DEF Dispatch, Pool!Submit, Pending, kernelVars
<1>3. /\ Len(queue) \in Nat /\ Len(queue') = Len(queue) + 1
      /\ \A i \in 1..Len(queue) : queue'[i] = queue[i]
      /\ queue'[Len(queue) + 1] = e
    <2>1. queue \in Seq(Tasks)
        BY <1>1 DEF Shape
    <2> QED
        BY <1>2, <2>1, AppendProperties, LenProperties
<1>4. Busy' = Busy
    BY <1>2 DEF Busy
<1>5. ASSUME NEW d \in Pending'
      PROVE  d \in Pending /\ d # e /\ ~SameFd(d, e)
    BY <1>1, <1>2, <1>5, TaskTypes DEF OneHolder, Fresh, SameFd, Tasks
<1>6. ASSUME NEW i \in 1..Len(queue')
      PROVE  \/ i \in 1..Len(queue) /\ queue'[i] = queue[i]
             \/ i = Len(queue) + 1 /\ queue'[i] = e
    BY <1>3
<1>7. \A i \in 1..Len(queue) : ~SameFd(queue[i], e)
    BY <1>1, <1>2 DEF OneHolder, SameFd
<1> QED
    BY <1>1, <1>2, <1>4, <1>5, <1>6, <1>7 DEF OneHolder, Fresh, SameFd, FdOf

LEMMA TakeHolder ==
    ASSUME Inv, NEW w \in Workers, TakeTask(w)
    PROVE  OneHolder'
<1>1. Shape /\ OneHolder
    BY DEF Inv
<1>2. /\ Head(queue) \in Tasks /\ queue' = Tail(queue) /\ queue # <<>>
      /\ running' = [running EXCEPT ![w] = Head(queue)]
      /\ wpc' = [wpc EXCEPT ![w] = "read"]
      /\ w \notin Busy /\ Busy' = Busy \cup {w}
    BY <1>1, TakeBusy
<1>3. UNCHANGED <<owner, data, armed>> /\ Pending' = Pending
    BY DEF TakeTask, kernelVars, Pending
<1>4. /\ Len(queue) \in Nat \ {0} /\ Head(queue) = queue[1]
      /\ Len(queue') = Len(queue) - 1
      /\ \A i \in 1..Len(queue') : queue'[i] = queue[i + 1]
    <2>1. queue \in Seq(Tasks)
        BY <1>1 DEF Shape
    <2> QED
        BY <1>2, <2>1, HeadTailProperties, LenProperties, EmptySeq
<1>5. \A i \in 1..Len(queue') :
          i + 1 \in 1..Len(queue) /\ i + 1 # 1 /\ queue'[i] = queue[i + 1]
    BY <1>4
<1>6. /\ 1 \in 1..Len(queue)
      /\ \A v \in Busy : running'[v] = running[v] /\ wpc'[v] = wpc[v]
      /\ running'[w] = queue[1] /\ wpc'[w] = "read"
    BY <1>1, <1>2, <1>4 DEF Shape, Busy
<1>7. \A i \in 1..Len(queue') : Fresh(queue[i])'
    BY <1>1, <1>3, <1>5 DEF OneHolder, Fresh
<1>8. \A v \in Busy' : FdOf(v)' # Garbage =>
          /\ owner'[FdOf(v)'] = running'[v].conn
          /\ data'[FdOf(v)'] = IF wpc'[v] = "close" THEN "none" ELSE "fd"
          /\ FdOf(v)' \notin armed'
    BY <1>1, <1>2, <1>3, <1>6 DEF OneHolder, Fresh, FdOf
<1>9. ASSUME NEW i \in 1..Len(queue'), NEW k \in 1..Len(queue'),
             SameFd(queue'[i], queue'[k])
      PROVE  i = k
    <2>1. i + 1 = k + 1
        BY <1>1, <1>5, <1>9 DEF OneHolder
    <2> QED
        BY <2>1
<1>10. \A i \in 1..Len(queue'), v \in Busy' : ~SameFd(queue'[i], running'[v])
    BY <1>1, <1>2, <1>5, <1>6 DEF OneHolder
<1>11. \A e \in Pending' :
           /\ Fresh(e)'
           /\ \A i \in 1..Len(queue') : ~SameFd(e, queue'[i])
           /\ \A v \in Busy' : ~SameFd(e, running'[v])
    BY <1>1, <1>2, <1>3, <1>5, <1>6 DEF OneHolder, Fresh
<1>12. \A u, v \in Busy' : SameFd(running'[u], running'[v]) => u = v
    BY <1>1, <1>2, <1>6 DEF OneHolder, SameFd
<1> QED
    BY <1>7, <1>8, <1>9, <1>10, <1>11, <1>12 DEF OneHolder, SameFd

\* A worker that holds descriptor f gives it up, for ever or to epoll, or only takes
\* it out of epoll: nobody else has it.
LEMMA LastHolder ==
    ASSUME Inv, NEW w \in Workers, wpc[w] \in {"del", "close", "mod"},
           UNCHANGED <<events, queue>>,
           \A f \in FDs \ {FdOf(w)} :
              owner'[f] = owner[f] /\ data'[f] = data[f] /\ (f \in armed' <=> f \in armed),
           \/ Busy' = Busy \ {w} /\ \A v \in Busy \ {w} :
                 running'[v] = running[v] /\ wpc'[v] = wpc[v]
           \/ /\ UNCHANGED <<running, owner>>
              /\ wpc' = [wpc EXCEPT ![w] = "close"]
              /\ data'[FdOf(w)] = "none" /\ FdOf(w) \notin armed'
    PROVE  OneHolder'
<1>1. Shape /\ OneHolder
    BY DEF Inv
<1>2. FdOf(w) \in FDs /\ w \in Busy /\ FdOf(w) # Garbage
    BY <1>1, WorkerFd DEF Shape
<1>3. /\ \A v \in Busy' : v \in Busy /\ running'[v] = running[v]
      /\ \A v \in Busy' \ {w} : wpc'[v] = wpc[v]
      /\ w \in Busy' => /\ wpc'[w] = "close" /\ owner' = owner
                        /\ data'[FdOf(w)] = "none" /\ FdOf(w) \notin armed'
    BY <1>1 DEF Shape, Busy
<1>4. ASSUME NEW e \in Tasks, e.fd # FdOf(w), Fresh(e)
      PROVE  Fresh(e)'
    BY <1>4 DEF Fresh, Tasks
<1>5. /\ Pending' = Pending
      /\ \A e \in Pending : e.fd # FdOf(w)
      /\ \A i \in 1..Len(queue) : queue[i].fd # FdOf(w)
      /\ \A v \in Busy \ {w} : running[v].fd # FdOf(w)
    BY <1>1, <1>2 DEF OneHolder, SameFd, FdOf, Pending
<1>6. \A v \in Busy' : FdOf(v)' # Garbage =>
          /\ owner'[FdOf(v)'] = running'[v].conn
          /\ data'[FdOf(v)'] = IF wpc'[v] = "close" THEN "none" ELSE "fd"
          /\ FdOf(v)' \notin armed'
    <2> SUFFICES ASSUME NEW v \in Busy', FdOf(v)' # Garbage
                 PROVE  /\ owner'[FdOf(v)'] = running'[v].conn
                        /\ data'[FdOf(v)'] = IF wpc'[v] = "close" THEN "none" ELSE "fd"
                        /\ FdOf(v)' \notin armed'
        OBVIOUS
    <2>1. /\ v \in Busy /\ FdOf(v)' = FdOf(v) /\ running'[v] = running[v]
          /\ FdOf(v) \in FDs
        BY <1>1, <1>3, TaskTypes DEF FdOf
    <2>2. /\ owner[FdOf(v)] = running[v].conn
          /\ data[FdOf(v)] = IF wpc[v] = "close" THEN "none" ELSE "fd"
          /\ FdOf(v) \notin armed
        BY <1>1, <2>1 DEF OneHolder
    <2>3. CASE v = w
        BY <1>3, <2>1, <2>2, <2>3
    <2>4. CASE v # w
        <3>1. FdOf(v) \in FDs \ {FdOf(w)} /\ wpc'[v] = wpc[v]
            BY <1>3, <1>5, <2>1, <2>4 DEF FdOf
        <3> QED
            BY <2>1, <2>2, <3>1
    <2> QED
        BY <2>3, <2>4
<1>7. (\A e \in Pending : Fresh(e)') /\ (\A i \in 1..Len(queue) : Fresh(queue[i])')
    BY <1>1, <1>4, <1>5, TaskTypes DEF OneHolder
<1> QED
    BY <1>1, <1>3, <1>5, <1>6, <1>7 DEF OneHolder, SameFd, Fresh

LEMMA OneHolderStep == Inv /\ [Next]_vars => OneHolder'
<1> SUFFICES ASSUME Inv, [Next]_vars PROVE OneHolder'
    OBVIOUS
<1> USE DEF clientVars, socketVars, kernelVars, poolVars
<1>1. Shape /\ Registered /\ OneHolder
    BY DEF Inv
\* Steps that do not touch descriptors or tasks, and of a worker none that would
\* be its last with them.
<1>2. ASSUME UNCHANGED <<owner, data, armed, queue, running>>, Pending' = Pending,
             \A w \in Busy : wpc'[w] = "close" <=> wpc[w] = "close"
      PROVE  OneHolder'
    BY <1>1, <1>2 DEF OneHolder, Fresh, Busy, FdOf
<1>3. ASSUME NEW c \in Conns, Connect(c) \/ Send(c) \/ Leave(c)
      PROVE  OneHolder'
    BY <1>2, <1>3 DEF Connect, Send, Leave, Pending
<1>4. CASE EpollWait \/ \E f \in FDs : SpuriousEvent(f)
    <2>1. /\ UNCHANGED <<owner, data, queue, running, wpc>>
          /\ armed' \subseteq armed
          /\ \A e \in Pending' : e.fd # Garbage =>
                /\ e.fd \in armed /\ e.fd \notin armed'
                /\ owner[e.fd] = e.conn /\ data[e.fd] = "fd"
        BY <1>4, NewEvents
    <2> QED
        BY <1>1, <2>1 DEF OneHolder, Fresh, SameFd, Busy, FdOf
\* A free descriptor is in no context.
<1>5. CASE AcceptConn
    <2>1. /\ UNCHANGED <<queue, running, wpc>> /\ Pending' = Pending
          /\ \A f \in FDs : owner[f] # NoConn =>
                owner'[f] = owner[f] /\ data'[f] = data[f] /\ (f \in armed' <=> f \in armed)
        BY <1>1, <1>5 DEF AcceptConn, FreeFDs, Backlog, Shape, Pending
    <2>2. ASSUME NEW e \in Tasks, e.fd # Garbage, owner[e.fd] = e.conn
          PROVE  e.fd \in FDs /\ owner[e.fd] # NoConn
        BY <2>2, DemoAssumption DEF Tasks
    <2>3. ASSUME NEW e \in Tasks, Fresh(e)
          PROVE  Fresh(e)'
        BY <2>1, <2>2, <2>3 DEF Fresh
    <2>4. ASSUME NEW w \in Busy, FdOf(w) # Garbage
          PROVE  /\ owner'[FdOf(w)] = owner[FdOf(w)]
                 /\ data'[FdOf(w)] = data[FdOf(w)]
                 /\ FdOf(w) \in armed' <=> FdOf(w) \in armed
        BY <1>1, <2>1, <2>2, <2>4, TaskTypes DEF OneHolder, FdOf
    <2>5. (\A e \in Pending : Fresh(e)') /\ (\A i \in 1..Len(queue) : Fresh(queue[i])')
        BY <1>1, <2>1, <2>3, TaskTypes DEF OneHolder
    <2> QED
        BY <1>1, <2>1, <2>4, <2>5 DEF OneHolder, Fresh, SameFd, Busy, FdOf
<1>6. CASE AcceptFails
    BY <1>2, <1>6 DEF AcceptFails, Pending
<1>7. ASSUME NEW w \in Workers, ReadData(w) \/ ReadNothing(w) \/ Write(w)
      PROVE  OneHolder'
    <2>1. /\ wpc[w] \in {"read", "write"}
          /\ \E step \in {"write", "del", "mod"} : wpc' = [wpc EXCEPT ![w] = step]
        BY <1>7 DEF ReadData, ReadNothing, Write, Goto, AfterRead
    <2>2. UNCHANGED <<owner, data, armed, queue, running, events>>
        BY <1>7 DEF ReadData, ReadNothing, Write
    <2> QED
        BY <1>1, <1>2, <2>1, <2>2 DEF Shape, Pending, Busy
<1>8. ASSUME NEW w \in Workers, ReadBadFd(w)
      PROVE  OneHolder'
    <2>1. /\ UNCHANGED <<owner, data, armed, queue>> /\ Pending' = Pending
          /\ Busy' = Busy \ {w}
          /\ \A v \in Busy \ {w} : running'[v] = running[v] /\ wpc'[v] = wpc[v]
        BY <1>1, <1>8, ReturnBusy DEF ReadBadFd, Pending, Shape, Busy
    <2> QED
        BY <1>1, <2>1 DEF OneHolder, Fresh, FdOf
<1>9. ASSUME NEW w \in Workers, Del(w)
      PROVE  OneHolder'
    <2>1. FdOf(w) \in FDs
        BY <1>9, WorkerFd DEF Del
    <2>2. /\ wpc[w] = "del" /\ UNCHANGED <<events, queue, running, owner>>
          /\ data' = [data EXCEPT ![FdOf(w)] = "none"] /\ armed' = armed \ {FdOf(w)}
          /\ wpc' = [wpc EXCEPT ![w] = "close"]
        BY <1>9 DEF Del, Goto
    <2> QED
        BY <1>1, <2>1, <2>2, LastHolder DEF Shape
<1>10. ASSUME NEW w \in Workers, Close(w)
       PROVE  OneHolder'
    <2>1. FdOf(w) \in FDs
        BY <1>10, WorkerFd DEF Close
    <2>2. /\ wpc[w] = "close" /\ UNCHANGED <<events, queue>>
          /\ owner' = [owner EXCEPT ![FdOf(w)] = NoConn]
          /\ data' = [data EXCEPT ![FdOf(w)] = "none"] /\ armed' = armed \ {FdOf(w)}
          /\ Return(w)
        BY <1>1, <1>10, ReturnBusy DEF Close
    <2>3. /\ Busy' = Busy \ {w}
          /\ \A v \in Busy \ {w} : running'[v] = running[v] /\ wpc'[v] = wpc[v]
        BY <1>1, <2>2, ReturnBusy DEF Shape, Busy
    <2>4. \A f \in FDs \ {FdOf(w)} :
              owner'[f] = owner[f] /\ data'[f] = data[f] /\ (f \in armed' <=> f \in armed)
        BY <1>1, <2>1, <2>2 DEF Shape
    <2> QED
        BY <2>2, <2>3, <2>4, LastHolder
<1>11. ASSUME NEW w \in Workers, Mod(w)
       PROVE  OneHolder'
    <2>1. wpc[w] = "mod" /\ FdOf(w) \in FDs
        BY <1>11, WorkerFd DEF Mod
    <2>2. /\ data' = [data EXCEPT ![FdOf(w)] = "ptr"]
          /\ armed' = armed \cup {FdOf(w)}
          /\ UNCHANGED <<owner, events>>
          /\ Return(w)
        BY <1>11, ModRearms
    <2>3. /\ Busy' = Busy \ {w} /\ queue' = queue
          /\ \A v \in Busy \ {w} : running'[v] = running[v] /\ wpc'[v] = wpc[v]
        BY <1>1, <2>2, ReturnBusy DEF Shape, Busy
    <2>4. \A f \in FDs \ {FdOf(w)} :
              owner'[f] = owner[f] /\ data'[f] = data[f] /\ (f \in armed' <=> f \in armed)
        BY <1>1, <2>1, <2>2 DEF Shape
    <2> QED
        BY <2>1, <2>2, <2>3, <2>4, LastHolder
<1>12. CASE Quiescent \/ UNCHANGED vars
    BY <1>2, <1>12 DEF Quiescent, vars, Pending
<1> QED
    BY <1>3, <1>4, <1>5, <1>6, <1>7, <1>8, <1>9, <1>10, <1>11, <1>12, DispatchHolder,
       TakeHolder
    DEF Next, Main, HandleClientTask

LEMMA InvStep == Inv /\ [Next]_vars => Inv'
BY ShapeStep, RegisteredStep, OneHolderStep DEF Inv

LEMMA InvAlways == Spec => []Inv
BY InvInit, InvStep, PTL DEF Spec

\* Nothing is counted and numbers are reused, and still a descriptor in a context
\* that is to be handled is its own connection's, because ONESHOT leaves at most one
\* of them for each open descriptor.
THEOREM OwnDescriptorAlways == Spec => []OwnDescriptor
<1>1. Inv => OwnDescriptor
    BY TaskTypes DEF Inv, OneHolder, Fresh, OwnDescriptor, FdOf
<1> QED
    BY <1>1, InvAlways, PTL

(***************************************************************************)
(* Contexts                                                                *)
(***************************************************************************)

Rearmed == {f \in FDs : data[f] = "ptr"}

LEMMA Finite ==
    /\ IsFiniteSet(Busy) /\ Cardinality(Busy) \in Nat
    /\ IsFiniteSet(Rearmed) /\ Cardinality(Rearmed) \in Nat
<1>1. Busy \subseteq Workers /\ Rearmed \subseteq FDs
    BY DEF Busy, Rearmed
<1> QED
    BY <1>1, DemoAssumption, FS_Subset, FS_CardinalityType

LEMMA ContextsStep == Inv /\ ContextsAccounted /\ [Next]_vars => ContextsAccounted'
<1> SUFFICES ASSUME Inv, ContextsAccounted, [Next]_vars PROVE ContextsAccounted'
    OBVIOUS
<1> USE DEF clientVars, socketVars, kernelVars, poolVars
<1>1. /\ Shape /\ Registered /\ OneHolder
      /\ contexts = Len(queue) + Cardinality(Busy) + Cardinality(Rearmed)
      /\ Len(queue) \in Nat
    BY TaskTypes DEF Inv, ContextsAccounted, Rearmed
<1>2. ASSUME contexts' = Len(queue') + Cardinality(Busy') + Cardinality(Rearmed')
      PROVE  ContextsAccounted'
    BY <1>2 DEF ContextsAccounted, Rearmed
<1>3. ASSUME UNCHANGED <<contexts, queue, running, data>>
      PROVE  ContextsAccounted'
    BY <1>3 DEF ContextsAccounted, Busy
<1>4. ASSUME NEW c \in Conns, Connect(c) \/ Send(c) \/ Leave(c)
      PROVE  ContextsAccounted'
    BY <1>3, <1>4 DEF Connect, Send, Leave
<1>5. CASE EpollWait \/ AcceptFails \/ \E f \in FDs : SpuriousEvent(f)
    BY <1>3, <1>5 DEF EpollWait, AcceptFails, SpuriousEvent
\* A free descriptor is not re-armed, before and after.
<1>6. CASE AcceptConn
    <2>1. Rearmed' = Rearmed
        BY <1>1, <1>6 DEF AcceptConn, FreeFDs, Registered, Shape, Rearmed
    <2> QED
        BY <1>1, <1>2, <1>6, <2>1 DEF AcceptConn, Busy
<1>7. ASSUME NEW e \in Tasks, Dispatch(e)
      PROVE  ContextsAccounted'
    <2>1. Len(queue') = Len(queue) + 1
        BY <1>1, <1>7, AppendProperties DEF Dispatch, Pool!Submit, Shape
    <2>2. contexts' = contexts + 1 /\ Busy' = Busy /\ Rearmed' = Rearmed
        BY <1>7 DEF Dispatch, Pool!Submit, Busy, Rearmed
    <2> QED
        BY <1>1, <1>2, <2>1, <2>2, Finite
<1>8. ASSUME NEW w \in Workers, TakeTask(w)
      PROVE  ContextsAccounted'
    <2>1. Busy' = Busy \cup {w} /\ w \notin Busy /\ queue # <<>> /\ queue' = Tail(queue)
        BY <1>1, <1>8, TakeBusy
    <2>2. Len(queue') = Len(queue) - 1
        BY <1>1, <2>1, HeadTailProperties DEF Shape
    <2>3. Cardinality(Busy') = Cardinality(Busy) + 1
        BY <2>1, Finite, FS_AddElement
    <2>4. contexts' = contexts /\ Rearmed' = Rearmed
        BY <1>8 DEF TakeTask, Rearmed
    <2> QED
        BY <1>1, <1>2, <2>2, <2>3, <2>4, Finite
<1>9. ASSUME NEW w \in Workers, ReadData(w) \/ ReadNothing(w) \/ Write(w)
      PROVE  ContextsAccounted'
    BY <1>3, <1>9 DEF ReadData, ReadNothing, Write
<1>10. ASSUME NEW w \in Workers, Return(w), DeleteContext, Rearmed' = Rearmed
       PROVE  ContextsAccounted'
    <2>1. Busy' = Busy \ {w} /\ w \in Busy /\ queue' = queue
        BY <1>1, <1>10, ReturnBusy
    <2>2. Cardinality(Busy') = Cardinality(Busy) - 1
        BY <2>1, Finite, FS_RemoveElement
    <2> QED
        BY <1>1, <1>2, <1>10, <2>1, <2>2, Finite DEF DeleteContext
<1>11. ASSUME NEW w \in Workers, ReadBadFd(w)
       PROVE  ContextsAccounted'
    BY <1>10, <1>11 DEF ReadBadFd, Rearmed
\* The descriptor of this worker is registered with data.fd, or with nothing.
<1>12. ASSUME NEW w \in Workers, Del(w) \/ Close(w)
       PROVE  ContextsAccounted'
    <2>1. FdOf(w) \in FDs /\ w \in Busy /\ FdOf(w) # Garbage
        BY <1>1, <1>12, WorkerFd DEF Del, Close, Shape
    <2>2. data[FdOf(w)] # "ptr"
        BY <1>1, <2>1 DEF OneHolder
    <2>3. Rearmed' = Rearmed
        BY <1>1, <1>12, <2>1, <2>2 DEF Del, Close, Shape, Rearmed
    <2> QED
        BY <1>1, <1>2, <1>10, <1>12, <2>3 DEF Del, Close, Busy
<1>13. ASSUME NEW w \in Workers, Mod(w)
       PROVE  ContextsAccounted'
    <2>1. FdOf(w) \in FDs
        BY <1>13, WorkerFd DEF Mod
    <2>2. /\ data[FdOf(w)] = "fd" /\ data' = [data EXCEPT ![FdOf(w)] = "ptr"]
          /\ contexts' = contexts /\ Return(w)
        BY <1>13, ModRearms
    <2>3. Rearmed' = Rearmed \cup {FdOf(w)} /\ FdOf(w) \notin Rearmed
        BY <1>1, <2>1, <2>2 DEF Shape, Rearmed
    <2>4. Cardinality(Rearmed') = Cardinality(Rearmed) + 1
        BY <2>3, Finite, FS_AddElement
    <2>5. Busy' = Busy \ {w} /\ w \in Busy /\ queue' = queue
        BY <1>1, <2>2, ReturnBusy
    <2>6. Cardinality(Busy') = Cardinality(Busy) - 1
        BY <2>5, Finite, FS_RemoveElement
    <2> QED
        BY <1>1, <1>2, <2>2, <2>4, <2>5, <2>6, Finite
<1>14. CASE Quiescent \/ UNCHANGED vars
    BY <1>3, <1>14 DEF Quiescent, vars
<1> QED
    BY <1>4, <1>5, <1>6, <1>7, <1>8, <1>9, <1>11, <1>12, <1>13, <1>14
    DEF Next, Main, HandleClientTask

LEMMA ContextsInit == Init => ContextsAccounted
<1> SUFFICES ASSUME Init PROVE ContextsAccounted
    OBVIOUS
<1>1. Len(queue) = 0 /\ Busy = {} /\ Rearmed = {} /\ contexts = 0
    BY EmptySeq DEF Init, Pool!Init, Busy, Rearmed
<1> QED
    BY <1>1, FS_EmptySet DEF ContextsAccounted, Rearmed

\* Each context is deleted once, and what is never deleted is one for each connection
\* that is re-armed, the one epoll was given: the leak has no other source.
THEOREM ContextsAccountedAlways == Spec => []ContextsAccounted
BY ContextsInit, ContextsStep, InvAlways, PTL DEF Spec

\* All state has its type; the number of contexts never goes below zero.
THEOREM TypeOKAlways == Spec => []TypeOK
<1>1. Inv /\ ContextsAccounted => TypeOK
    BY TaskTypes, Finite DEF Inv, Shape, ContextsAccounted, Rearmed, TypeOK
<1> QED
    BY <1>1, InvAlways, ContextsAccountedAlways, PTL
=============================================================================
