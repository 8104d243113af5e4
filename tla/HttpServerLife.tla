--------------------------- MODULE HttpServerLife ---------------------------
(***************************************************************************)
(* Proofs about what a client of HttpServer gets: none of its bytes is     *)
(* lost or read twice between one handler and the next, it is answered     *)
(* once, for a whole request, and what it sees of its connection follows   *)
(* the life described in ConnectionLife, whatever the event loop, the pool *)
(* and the other clients do.                                               *)
(***************************************************************************)
EXTENDS HttpServerProofs

(***************************************************************************)
(* The bytes of a connection: the inductive invariant                      *)
(***************************************************************************)

\* The request of c has been decided on: answered, refused or given up.
Handled(c) ==
    \/ sock[c] = "closed"
    \/ c \in abandoned
    \/ \E w \in Workers :
          running[w] = c /\ wpc[w] \in {"message", "close", "del", "closefd"}

\* Until then the buffer holds part of a request and has room for more.
Partial(c) ==
    /\ bytes_read[c] < BUFFER_SIZE - 1
    /\ bytes_read[c] < HeaderEnd[c]
    /\ replies[c] = 0

Buffers ==
    /\ \A c \in Conns : sock[c] # "closed" => bytes_read[c] + unread[c] = sent[c]
    /\ \A c \in Conns : ~Handled(c) => Partial(c)
    /\ \A w \in Workers : wpc[w] = "message" =>
          /\ replies[running[w]] = 0
          /\ bytes_read[running[w]] >= HeaderEnd[running[w]]
    /\ AnsweredOnce

\* A step that moves no byte and takes back no decision.
LEMMA BuffersSame ==
    ASSUME Buffers,
           UNCHANGED <<sent, unread, bytes_read, replies>>,
           \A c \in Conns : sock[c] = "closed" => sock'[c] = "closed",
           \A c \in Conns : Handled(c) => Handled(c)',
           \A w \in Workers : wpc'[w] = "message" =>
                 wpc[w] = "message" /\ running'[w] = running[w]
    PROVE  Buffers'
<1>1. \A c \in Conns : Partial(c) => Partial(c)'
    BY DEF Partial
<1>2. AnsweredOnce'
    BY DEF Buffers, AnsweredOnce
<1> QED
    BY <1>1, <1>2 DEF Buffers

\* A handler's connection, until a decision is taken.
LEMMA StillReading ==
    ASSUME Shape, Tables, Places, Located, Buffers,
           NEW w \in Workers, wpc[w] \in {"check", "read", "readd", "mod"}
    PROVE  LET c == running[w] IN c \in Conns /\ ~Handled(c) /\ Partial(c)
<1> DEFINE c == running[w]
<1>1. w \in Busy
    BY DEF Busy
<1>2. /\ c \in Conns /\ sock[c] = "open"
      /\ \A v \in Busy : running[v] = c => v = w
    BY <1>1, HandlerFacts
<1>3. c \notin abandoned
    BY <1>1, <1>2 DEF Located, At
<1>4. \A v \in Workers : running[v] = c =>
          wpc[v] \notin {"message", "close", "del", "closefd"}
    BY <1>2 DEF Busy
<1>5. ~Handled(c)
    BY <1>2, <1>3, <1>4 DEF Handled
<1> QED
    BY <1>2, <1>5 DEF Buffers

LEMMA BuffersClient ==
    ASSUME Shape, Buffers, NEW c \in Conns, Client(c)
    PROVE  Buffers'
<1>1. UNCHANGED <<bytes_read, replies, wpc, running, abandoned>>
    BY DEF Client, Connect, Send, Shutdown, Reset, clientVars, poolVars,
           contextVars, historyVars
<1>2. CASE Send(c)
    <2>1. PICK k \in 1..ClientBytes[c] - sent[c] :
             /\ sent' = [sent EXCEPT ![c] = @ + k]
             /\ unread' = [unread EXCEPT ![c] = @ + k]
             /\ sock' = sock
        BY <1>2 DEF Send
    <2>2. k \in Nat
        BY <2>1, RequestAssumption DEF Shape
    <2>3. \A d \in Conns :
              /\ sent[d] \in Nat /\ unread[d] \in Nat
              /\ bytes_read[d] \in 0..BUFFER_SIZE - 1
              /\ sent'[d] = IF d = c THEN sent[d] + k ELSE sent[d]
              /\ unread'[d] = IF d = c THEN unread[d] + k ELSE unread[d]
        BY <2>1 DEF Shape
    <2>4. \A d \in Conns :
              sock'[d] # "closed" => bytes_read'[d] + unread'[d] = sent'[d]
        BY <1>1, <2>1, <2>2, <2>3, SizeAssumption DEF Buffers
    <2>5. \A d \in Conns : /\ Handled(d)' <=> Handled(d)
                           /\ Partial(d)' <=> Partial(d)
        BY <1>1, <2>1 DEF Handled, Partial
    <2>6. AnsweredOnce'
        BY <1>1 DEF Buffers, AnsweredOnce
    <2> QED
        BY <1>1, <2>4, <2>5, <2>6 DEF Buffers
<1>3. CASE Connect(c) \/ Shutdown(c) \/ Reset(c)
    <2>1. UNCHANGED <<sent, unread>>
        BY <1>3 DEF Connect, Shutdown, Reset, clientVars
    <2>2. \A d \in Conns : sock[d] = "closed" => sock'[d] = "closed"
        BY <1>3 DEF Connect, Shutdown, Reset, Shape
    <2>3. \A d \in Conns : Handled(d) => Handled(d)'
        BY <1>1, <2>2 DEF Handled
    <2> QED
        BY <1>1, <2>1, <2>2, <2>3, BuffersSame
<1> QED
    BY <1>2, <1>3 DEF Client

\* The accept thread and the hand-over to a worker.
LEMMA BuffersLoop ==
    ASSUME Shape, Tables, Places, Buffers,
           \/ AcceptLoop
           \/ \E f \in FDs : SpuriousEvent(f)
           \/ \E w \in Workers : TakeTask(w)
    PROVE  Buffers'
<1> USE DEF clientVars, socketVars, kernelVars, loopVars, poolVars,
            contextVars, historyVars
<1>1. UNCHANGED <<sent, unread, bytes_read, replies, abandoned>>
    BY DEF AcceptLoop, EpollWait, AcceptConn, AcceptFails, Register,
           RegisterFails, AddRef, Emplace, SpuriousEvent, TakeTask
<1>2. \A d \in Conns : sock[d] = "closed" => sock'[d] = "closed"
    <2>1. CASE AcceptConn
        <3>1. PICK c \in Backlog : sock' = [sock EXCEPT ![c] = "open"]
            BY <2>1 DEF AcceptConn
        <3> QED
            BY <3>1 DEF Backlog, Shape
    <2>2. CASE RegisterFails
        BY <2>2 DEF RegisterFails, CloseDescriptor
    <2>3. CASE ~AcceptConn /\ ~RegisterFails
        BY <2>3
        DEF AcceptLoop, EpollWait, AcceptFails, Register, AddRef, Emplace,
            SpuriousEvent, TakeTask
    <2> QED
        BY <2>1, <2>2, <2>3
<1>3. \A w \in Workers : wpc[w] # "idle" =>
          wpc'[w] = wpc[w] /\ running'[w] = running[w]
    <2>1. CASE \E w \in Workers : TakeTask(w)
        BY <2>1 DEF TakeTask, Pool!Take, Goto, Shape
    <2>2. CASE ~(\E w \in Workers : TakeTask(w))
        <3>1. UNCHANGED <<wpc, running>>
            BY <2>2
            DEF AcceptLoop, EpollWait, AcceptConn, AcceptFails, Register,
                RegisterFails, AddRef, Emplace, Pool!Submit, SpuriousEvent
        <3> QED
            BY <3>1
    <2> QED
        BY <2>1, <2>2
<1>4. \A w \in Workers : wpc'[w] = "message" => wpc[w] = "message"
    <2>1. CASE \E w \in Workers : TakeTask(w)
        BY <2>1 DEF TakeTask, Goto, Shape
    <2>2. CASE ~(\E w \in Workers : TakeTask(w))
        BY <2>2
        DEF AcceptLoop, EpollWait, AcceptConn, AcceptFails, Register,
            RegisterFails, AddRef, Emplace, SpuriousEvent
    <2> QED
        BY <2>1, <2>2
<1>5. \A d \in Conns : Handled(d) => Handled(d)'
    BY <1>1, <1>2, <1>3 DEF Handled
<1> QED
    BY <1>1, <1>2, <1>3, <1>4, <1>5, BuffersSame

LEMMA BuffersRead ==
    ASSUME Shape, Tables, Places, Located, Buffers,
           NEW w \in Workers, ReadData(w)
    PROVE  Buffers'
<1>1. PICK c : c = running[w]
    OBVIOUS
<1>2. wpc[w] = "read" /\ w \in Busy
    BY DEF ReadData, Busy
<1>3. /\ c \in Conns /\ Socket(c) = c
      /\ \A v \in Busy : running[v] = c => v = w
      /\ ~Handled(c) /\ Partial(c)
    BY <1>1, <1>2, HandlerFacts, StillReading
<1>4. PICK n : n = Lesser(unread[c], Room(c))
    OBVIOUS
<1>5. /\ unread[c] > 0 /\ Room(c) > 0
      /\ bytes_read' = [bytes_read EXCEPT ![c] = @ + n]
      /\ unread' = [unread EXCEPT ![c] = @ - n]
      /\ wpc' = [wpc EXCEPT ![w] = AfterParse(c, bytes_read[c] + n)]
      /\ UNCHANGED <<sock, sent, running, replies, abandoned>>
    BY <1>1, <1>3, <1>4
    DEF ReadData, Goto, clientVars, poolVars, historyVars
<1>6. n \in Nat
    <2>1. /\ unread[c] \in Nat \ {0}
          /\ bytes_read[c] \in 0..BUFFER_SIZE - 1
          /\ BUFFER_SIZE - bytes_read[c] - 1 > 0
          /\ n = Lesser(unread[c], BUFFER_SIZE - bytes_read[c] - 1)
        BY <1>3, <1>4, <1>5 DEF Room, Shape
    <2> QED
        BY <2>1, ReadFits
<1>7. \A d \in Conns :
          /\ bytes_read[d] \in Nat /\ unread[d] \in Nat /\ sent[d] \in Nat
          /\ bytes_read'[d] = IF d = c THEN bytes_read[d] + n ELSE bytes_read[d]
          /\ unread'[d] = IF d = c THEN unread[d] - n ELSE unread[d]
    <2>1. /\ bytes_read \in [Conns -> 0..BUFFER_SIZE - 1]
          /\ unread \in [Conns -> Nat] /\ sent \in [Conns -> Nat]
        BY DEF Shape
    <2>2. 0..BUFFER_SIZE - 1 \subseteq Nat
        BY SizeAssumption
    <2> QED
        BY <1>5, <2>1, <2>2
<1>8. PICK step : step = AfterParse(c, bytes_read[c] + n)
    OBVIOUS
<1>9. /\ step = "message" => bytes_read'[c] >= HeaderEnd[c]
      /\ step \notin {"message", "close"} =>
            ~(bytes_read'[c] >= HeaderEnd[c]) /\ ~(bytes_read'[c] >= BUFFER_SIZE - 1)
    BY <1>3, <1>7, <1>8 DEF AfterParse
<1>10. \A v \in Workers : wpc'[v] = IF v = w THEN step ELSE wpc[v]
    BY <1>5, <1>8 DEF Shape
<1>11. \A d \in Conns :
           sock'[d] # "closed" => bytes_read'[d] + unread'[d] = sent'[d]
    BY <1>5, <1>6, <1>7 DEF Buffers
<1>12. ASSUME NEW d \in Conns, ~Handled(d)' PROVE Partial(d)'
    <2>1. CASE d = c
        <3>1. step \notin {"message", "close"}
            BY <1>1, <1>5, <1>10, <1>12, <2>1 DEF Handled
        <3>2. /\ bytes_read'[c] \in Nat
              /\ HeaderEnd[c] \in Nat
              /\ BUFFER_SIZE - 1 \in Nat
            BY <1>3, <1>6, <1>7, SizeAssumption, RequestAssumption
        <3>3. bytes_read'[c] < HeaderEnd[c] /\ bytes_read'[c] < BUFFER_SIZE - 1
            BY <1>9, <3>1, <3>2
        <3> QED
            BY <1>3, <1>5, <2>1, <3>3 DEF Partial
    <2>2. CASE d # c
        <3>1. ~Handled(d)
            BY <1>1, <1>5, <1>10, <1>12, <2>2 DEF Handled
        <3> QED
            BY <1>5, <1>7, <2>2, <3>1 DEF Partial, Buffers
    <2> QED
        BY <2>1, <2>2
<1>13. ASSUME NEW v \in Workers, wpc'[v] = "message"
       PROVE  /\ replies'[running'[v]] = 0
              /\ bytes_read'[running'[v]] >= HeaderEnd[running'[v]]
    <2>1. CASE v = w
        BY <1>1, <1>3, <1>5, <1>9, <1>10, <1>13, <2>1 DEF Partial
    <2>2. CASE v # w
        <3>1. wpc[v] = "message" /\ v \in Busy
            BY <1>10, <1>13, <2>2 DEF Busy
        <3>2. running[v] # c /\ running[v] \in Conns
            BY <1>3, <2>2, <3>1, HandlerFacts
        <3> QED
            BY <1>5, <1>7, <3>1, <3>2 DEF Buffers
    <2> QED
        BY <2>1, <2>2
<1>14. AnsweredOnce'
    BY <1>3, <1>5, <1>7 DEF Buffers, AnsweredOnce, Partial
<1> QED
    BY <1>11, <1>12, <1>13, <1>14 DEF Buffers

LEMMA BuffersMessage ==
    ASSUME Shape, Tables, Places, Buffers, NEW w \in Workers, Message(w)
    PROVE  Buffers'
<1>1. PICK c : c = running[w]
    OBVIOUS
<1>2. wpc[w] = "message" /\ w \in Busy
    BY DEF Message, Busy
<1>3. /\ c \in Conns /\ Socket(c) = c
      /\ \A v \in Busy : running[v] = c => v = w
    BY <1>1, <1>2, HandlerFacts
<1>4. replies[c] = 0 /\ bytes_read[c] >= HeaderEnd[c]
    BY <1>1, <1>2 DEF Buffers
<1>5. /\ \A d \in Conns : replies'[d] = IF d = c /\ ~err[d] THEN replies[d] + 1
                                        ELSE replies[d]
      /\ \A v \in Workers : wpc'[v] = IF v = w THEN "close" ELSE wpc[v]
      /\ UNCHANGED <<sock, sent, unread, bytes_read, running, abandoned>>
    BY <1>1, <1>3
    DEF Message, Goto, Shape, socketVars, poolVars, contextVars
<1>6. \A d \in Conns : Handled(d)' <=> Handled(d)
    BY <1>2, <1>5 DEF Handled
<1>7. Handled(c)
    BY <1>1, <1>2 DEF Handled
<1>8. \A d \in Conns : ~Handled(d)' => Partial(d)'
    BY <1>5, <1>6, <1>7 DEF Buffers, Partial
<1>9. ASSUME NEW v \in Workers, wpc'[v] = "message"
      PROVE  /\ replies'[running'[v]] = 0
             /\ bytes_read'[running'[v]] >= HeaderEnd[running'[v]]
    <2>1. v # w /\ wpc[v] = "message" /\ v \in Busy
        BY <1>5, <1>9 DEF Busy
    <2>2. running[v] # c /\ running[v] \in Conns
        BY <1>3, <2>1, HandlerFacts
    <2> QED
        BY <1>5, <2>1, <2>2 DEF Buffers
<1>10. AnsweredOnce'
    BY <1>4, <1>5 DEF Buffers, AnsweredOnce
<1> QED
    BY <1>5, <1>8, <1>9, <1>10 DEF Buffers

LEMMA BuffersHandler ==
    ASSUME Shape, Tables, Places, Located, Buffers,
           NEW w \in Workers, HandleClientClient(w),
           ~ReadData(w), ~Message(w), ~BrokenPipe(w)
    PROVE  Buffers'
<1> USE DEF clientVars, socketVars, kernelVars, loopVars, poolVars,
            contextVars, historyVars
<1>1. PICK c : c = running[w]
    OBVIOUS
<1>2. UNCHANGED <<sent, unread, bytes_read, replies>>
    BY DEF HandleClientClient, CheckClosed, ReadEnds, ReadBlocks,
           MessageThrows, SetClosed, EpollDel, CloseFd, Recheck, EpollMod,
           Release
<1>3. \A d \in Conns : sock[d] = "closed" => sock'[d] = "closed"
    BY DEF HandleClientClient, CheckClosed, ReadEnds, ReadBlocks,
           MessageThrows, SetClosed, EpollDel, CloseFd, Recheck, EpollMod,
           Release, CloseDescriptor
<1>4. abandoned \subseteq abandoned'
    BY DEF HandleClientClient, CheckClosed, ReadEnds, ReadBlocks,
           MessageThrows, SetClosed, EpollDel, CloseFd, Recheck, EpollMod,
           Release
<1>5. /\ \A v \in Workers \ {w} : wpc'[v] = wpc[v] /\ running'[v] = running[v]
      /\ wpc'[w] # "message"
    BY DEF HandleClientClient, CheckClosed, ReadEnds, ReadBlocks,
           MessageThrows, SetClosed, EpollDel, CloseFd, Recheck, EpollMod,
           Release, Goto, Pool!Finish, Shape
<1>6. ASSUME wpc[w] \in {"message", "close", "del", "closefd"}
      PROVE  Handled(c)'
    <2>1. w \in Busy
        BY <1>6 DEF Busy
    <2>2. /\ c \in Conns /\ fd[c] \in FDs /\ owner[fd[c]] = c
          /\ wpc[w] = "close" => ~closed[c]
        BY <1>1, <2>1, HandlerFacts
    <2>3. CASE MessageThrows(w)
        BY <1>1, <2>3 DEF MessageThrows, Handled
    <2>4. CASE SetClosed(w) \/ EpollDel(w)
        <3>1. /\ wpc'[w] \in {"del", "closefd"}
              /\ running' = running
            BY <1>1, <2>2, <2>4 DEF SetClosed, EpollDel, Goto, Shape
        <3> QED
            BY <1>1, <3>1 DEF Handled
    <2>5. CASE CloseFd(w)
        <3>1. sock'[c] = "closed"
            BY <1>1, <2>2, <2>5 DEF CloseFd, CloseDescriptor
        <3> QED
            BY <3>1 DEF Handled
    <2> QED
        BY <1>6, <2>3, <2>4, <2>5
        DEF HandleClientClient, CheckClosed, ReadEnds, ReadBlocks, Recheck,
            EpollMod, Release
<1>7. \A d \in Conns : Handled(d) => Handled(d)'
    <2> SUFFICES ASSUME NEW d \in Conns, Handled(d) PROVE Handled(d)'
        OBVIOUS
    <2>1. CASE sock[d] = "closed" \/ d \in abandoned
        BY <1>3, <1>4, <2>1 DEF Handled
    <2>2. CASE \E v \in Workers \ {w} :
              running[v] = d /\ wpc[v] \in {"message", "close", "del", "closefd"}
        BY <1>5, <2>2 DEF Handled
    <2>3. CASE running[w] = d /\ wpc[w] \in {"message", "close", "del", "closefd"}
        BY <1>1, <1>6, <2>3
    <2> QED
        BY <2>1, <2>2, <2>3 DEF Handled
<1> QED
    BY <1>2, <1>3, <1>5, <1>7, BuffersSame

\* Every request is decided on when the process ends.
LEMMA BuffersEnd ==
    ASSUME Shape, Tables, Buffers, NEW w \in Workers, BrokenPipe(w)
    PROVE  Buffers'
<1>1. /\ UNCHANGED <<sent, unread, bytes_read, replies, abandoned>>
      /\ \A v \in Workers : wpc'[v] = "idle"
      /\ \A d \in Conns : sock'[d] = IF sock[d] \in {"backlog", "open"}
                                     THEN "closed" ELSE sock[d]
    BY NothingLeft DEF BrokenPipe, ProcessEnds, clientVars, historyVars
<1>2. ASSUME NEW d \in Conns, Handled(d)
      PROVE  Handled(d)'
    <2>1. CASE sock[d] = "closed" \/ d \in abandoned
        BY <1>1, <2>1 DEF Handled
    <2>2. CASE ~(sock[d] = "closed" \/ d \in abandoned)
        <3>1. sock[d] # "none"
            BY <1>2, <2>2, SentinelAssumption DEF Handled, Tables
        <3> QED
            BY <1>1, <3>1 DEF Handled, Shape
    <2> QED
        BY <2>1, <2>2
<1> QED
    BY <1>1, <1>2, BuffersSame

LEMMA BuffersStep ==
    ASSUME Shape, Tables, Places, Located, Buffers, [Next]_vars
    PROVE  Buffers'
<1>1. CASE UNCHANGED vars
    <2>1. UNCHANGED <<sock, sent, unread, bytes_read, replies, abandoned, wpc,
                      running>>
        BY <1>1 DEF vars, socketVars, poolVars, contextVars, historyVars
    <2>2. \A d \in Conns : Handled(d) => Handled(d)'
        BY <2>1 DEF Handled
    <2> QED
        BY <2>1, <2>2, BuffersSame
<1>2. ASSUME NEW c \in Conns, Client(c)
      PROVE  Buffers'
    BY <1>2, BuffersClient
<1>3. CASE \/ AcceptLoop
           \/ \E f \in FDs : SpuriousEvent(f)
           \/ \E w \in Workers : TakeTask(w)
    BY <1>3, BuffersLoop
<1>4. ASSUME NEW w \in Workers, HandleClientClient(w)
      PROVE  Buffers'
    BY <1>4, BuffersRead, BuffersMessage, BuffersHandler, BuffersEnd
<1> QED
    BY <1>1, <1>2, <1>3, <1>4 DEF Next, Quiescent

LEMMA BuffersInit == Init => Buffers
<1> SUFFICES ASSUME Init PROVE Buffers
    OBVIOUS
<1>1. \A c \in Conns : /\ sent[c] = 0 /\ unread[c] = 0 /\ bytes_read[c] = 0
                       /\ replies[c] = 0
    BY DEF Init
<1>2. \A w \in Workers : wpc[w] = "idle"
    BY DEF Init
<1>3. \A c \in Conns : Partial(c)
    BY <1>1, SizeAssumption, RequestAssumption DEF Partial
<1> QED
    BY <1>1, <1>2, <1>3 DEF Buffers, AnsweredOnce

LEMMA BuffersInvariance == Spec => [](WholeInvariant /\ Buffers)
<1>1. WholeInvariant /\ Buffers /\ [Next]_vars => Buffers'
    BY BuffersStep DEF WholeInvariant
<1> QED
    BY <1>1, BuffersInit, WholeInvariance, PTL DEF Spec

(***************************************************************************)
(* Theorems                                                                *)
(***************************************************************************)

\* read is never called with a length of zero, whose 0 would be taken for the
\* end of the stream.
THEOREM RoomToReadAlways == Spec => []RoomToRead
<1>1. WholeInvariant /\ Buffers => RoomToRead
    <2> SUFFICES ASSUME WholeInvariant, Buffers,
                        NEW w \in Workers, wpc[w] \in {"check", "read"}
                 PROVE  Room(running[w]) > 0
        BY DEF RoomToRead
    <2>1. running[w] \in Conns /\ Partial(running[w])
        BY StillReading DEF WholeInvariant
    <2>2. bytes_read[running[w]] \in Int /\ BUFFER_SIZE \in Int
        BY <2>1, SizeAssumption DEF WholeInvariant, Shape
    <2> QED
        BY <2>1, <2>2 DEF Partial, Room
<1> QED
    BY <1>1, BuffersInvariance, PTL

\* What a client has sent is in its context's buffer or still in the kernel,
\* across any number of handlers on any workers.
THEOREM NothingLostAlways == Spec => []NothingLost
<1>1. Buffers => NothingLost
    BY DEF Buffers, NothingLost
<1> QED
    BY <1>1, BuffersInvariance, PTL

\* A client is answered at most once, and for a whole request only.
THEOREM AnsweredOnceAlways == Spec => []AnsweredOnce
<1>1. Buffers => AnsweredOnce
    BY DEF Buffers
<1> QED
    BY <1>1, BuffersInvariance, PTL

(***************************************************************************)
(* The refinement of ConnectionLife                                        *)
(***************************************************************************)

\* A handler only closes behind the answer, or when none can be given.
Justified ==
    \A w \in Workers : wpc[w] \in {"close", "del", "closefd"} =>
        \/ replies[running[w]] = 1
        \/ err[running[w]]
        \/ Spent(running[w]) /\ ~WholeRequest(running[w])

LEMMA SizesAreNumbers ==
    ASSUME Shape, NEW c \in Conns
    PROVE  /\ BUFFER_SIZE - 1 \in Nat /\ HeaderEnd[c] \in Nat
           /\ sent[c] \in Nat /\ unread[c] \in Nat /\ bytes_read[c] \in Nat
           /\ bytes_read[c] <= BUFFER_SIZE - 1
<1>1. bytes_read[c] \in 0..BUFFER_SIZE - 1
    BY DEF Shape
<1> QED
    BY <1>1, SizeAssumption, RequestAssumption DEF Shape

(***************************************************************************)
(* Justified is an invariant                                               *)
(***************************************************************************)

\* A step that ends no reading and changes nothing a decision rests on.
LEMMA JustifiedSame ==
    ASSUME Justified, UNCHANGED <<sent, eof, err, replies>>,
           \A w \in Workers : wpc'[w] \in {"close", "del", "closefd"} =>
                 /\ wpc[w] \in {"close", "del", "closefd"}
                 /\ running'[w] = running[w]
    PROVE  Justified'
<1>1. \A c : (Spent(c) <=> Spent(c)') /\ (WholeRequest(c) <=> WholeRequest(c)')
    BY DEF Spent, WholeRequest
<1> QED
    BY <1>1 DEF Justified

\* A client that is spent stays so, and asks no more.
LEMMA ClientSettled ==
    ASSUME Shape, NEW c \in Conns, Client(c)
    PROVE  \A d \in Conns : /\ Spent(d) => Spent(d)'
                            /\ WholeRequest(d) => WholeRequest(d)'
                            /\ Spent(d) \/ d # c =>
                                  (WholeRequest(d)' => WholeRequest(d))
                            /\ d # c => (Spent(d)' => Spent(d))
                            /\ err[d] => err'[d]
                            /\ d # c => (err'[d] => err[d])
<1>1. CASE Send(c)
    <2>1. PICK k \in 1..ClientBytes[c] - sent[c] :
             sent' = [sent EXCEPT ![c] = @ + k]
        BY <1>1 DEF Send
    <2>2. /\ ~eof[c] /\ ~err[c] /\ UNCHANGED <<eof, err>>
          /\ k \in Nat
        BY <1>1, <2>1, RequestAssumption DEF Send, Shape
    <2>3. ASSUME NEW d \in Conns
          PROVE  /\ sent[d] \in Nat /\ HeaderEnd[d] \in Nat
                 /\ BUFFER_SIZE - 1 \in Nat
                 /\ sent'[d] = IF d = c THEN sent[d] + k ELSE sent[d]
        BY <2>1, SizesAreNumbers DEF Shape
    <2>4. ASSUME NEW d \in Conns, d # c
          PROVE  sent'[d] = sent[d]
        BY <2>3, <2>4
    <2>5. sent'[c] = sent[c] + k
        BY <2>3
    <2>6. sent'[c] \in Nat /\ sent'[c] >= sent[c]
        BY <2>2, <2>3, <2>5
    <2>7. /\ Spent(c) => Spent(c)'
          /\ WholeRequest(c) => WholeRequest(c)'
          /\ Spent(c) => (WholeRequest(c)' => WholeRequest(c))
        BY <2>2, <2>3, <2>6 DEF Spent, WholeRequest
    <2>8. ASSUME NEW d \in Conns, d # c
          PROVE  (Spent(d) <=> Spent(d)') /\ (WholeRequest(d) <=> WholeRequest(d)')
        BY <2>2, <2>4, <2>8 DEF Spent, WholeRequest
    <2> QED
        BY <2>2, <2>7, <2>8
<1>2. CASE Connect(c) \/ Shutdown(c) \/ Reset(c)
    <2>1. /\ UNCHANGED sent
          /\ \A d \in Conns : /\ eof[d] => eof'[d]
                              /\ err[d] => err'[d]
                              /\ d # c => eof'[d] = eof[d] /\ err'[d] = err[d]
        BY <1>2, SMTT(30) DEF Connect, Shutdown, Reset, clientVars, Shape
    <2> QED
        BY <2>1 DEF Spent, WholeRequest
<1> QED
    BY <1>1, <1>2 DEF Client

LEMMA JustifiedClient ==
    ASSUME Shape, Justified, NEW c \in Conns, Client(c)
    PROVE  Justified'
<1>1. UNCHANGED <<wpc, running, replies>>
    BY DEF Client, Connect, Send, Shutdown, Reset, poolVars, historyVars
<1>2. \A w \in Workers : wpc[w] \in {"close", "del", "closefd"} =>
          running[w] \in Conns
    BY DEF Shape
<1>3. \A d \in Conns : /\ Spent(d) /\ ~WholeRequest(d) =>
                             Spent(d)' /\ ~WholeRequest(d)'
                       /\ err[d] => err'[d]
    BY ClientSettled
<1> QED
    BY <1>1, <1>2, <1>3 DEF Justified

\* The accept thread, and the hand-over to a worker.
LEMMA JustifiedLoop ==
    ASSUME Shape, Justified,
           \/ AcceptLoop
           \/ \E f \in FDs : SpuriousEvent(f)
           \/ \E w \in Workers : TakeTask(w)
    PROVE  Justified'
<1> USE DEF clientVars, socketVars, kernelVars, loopVars, poolVars,
            contextVars, historyVars
<1>1. UNCHANGED <<sent, eof, err, replies>>
    BY DEF AcceptLoop, EpollWait, AcceptConn, AcceptFails, Register,
           RegisterFails, AddRef, Emplace, SpuriousEvent, TakeTask
<1>2. ASSUME NEW v \in Workers, wpc'[v] \in {"close", "del", "closefd"}
      PROVE  wpc[v] \in {"close", "del", "closefd"} /\ running'[v] = running[v]
    <2>1. CASE \E w \in Workers : TakeTask(w)
        <3>1. PICK w \in Workers : TakeTask(w)
            BY <2>1
        <3>2. /\ wpc' = [wpc EXCEPT ![w] = "check"]
              /\ \E c : running' = [running EXCEPT ![w] = c]
            BY <3>1 DEF TakeTask, Pool!Take, Goto
        <3>3. v # w
            BY <1>2, <3>2 DEF Shape
        <3> QED
            BY <1>2, <3>2, <3>3 DEF Shape
    <2>2. CASE ~(\E w \in Workers : TakeTask(w))
        <3>1. UNCHANGED <<wpc, running>>
            BY <2>2
            DEF AcceptLoop, EpollWait, AcceptConn, AcceptFails, Register,
                RegisterFails, AddRef, Emplace, Pool!Submit, SpuriousEvent
        <3> QED
            BY <1>2, <3>1
    <2> QED
        BY <2>1, <2>2
<1> QED
    BY <1>1, <1>2, JustifiedSame

\* A handler that decides to close without an answer has read all there is of a
\* request that is cut short, or as much as the buffer holds of one too long.
LEMMA JustifiedRead ==
    ASSUME Shape, Tables, Places, Located, Buffers, Justified,
           NEW w \in Workers, ReadData(w) \/ ReadEnds(w)
    PROVE  Justified'
<1>1. PICK c : c = running[w]
    OBVIOUS
<1>2. wpc[w] = "read" /\ w \in Busy
    BY DEF ReadData, ReadEnds, Busy
<1>3. /\ c \in Conns /\ Socket(c) = c /\ sock[c] = "open" /\ Partial(c)
      /\ c # NoConn
    BY <1>1, <1>2, HandlerFacts, StillReading
<1>4. /\ BUFFER_SIZE - 1 \in Nat /\ HeaderEnd[c] \in Nat
      /\ sent[c] \in Nat /\ unread[c] \in Nat /\ bytes_read[c] \in Nat
      /\ bytes_read[c] + unread[c] = sent[c]
      /\ bytes_read[c] < BUFFER_SIZE - 1 /\ bytes_read[c] < HeaderEnd[c]
    BY <1>3, SizesAreNumbers DEF Buffers, Partial
<1>5. PICK step \in {"message", "close", "readd"} :
          /\ wpc' = [wpc EXCEPT ![w] = step]
          /\ step = "close" => Spent(c) /\ ~WholeRequest(c)
    <2>1. CASE ReadData(w)
        <3>1. PICK n : n = Lesser(unread[c], Room(c))
            OBVIOUS
        <3>2. /\ wpc' = [wpc EXCEPT ![w] = AfterParse(c, bytes_read[c] + n)]
              /\ unread[c] > 0 /\ Room(c) > 0
            BY <1>1, <1>3, <2>1, <3>1 DEF ReadData, Goto
        <3>3. n \in Nat /\ n <= unread[c]
            <4>1. Room(c) \in Nat
                BY <1>4, <3>2, SizeAssumption DEF Room
            <4> QED
                BY <1>4, <3>1, <4>1 DEF Lesser
        <3>4. PICK step : step = AfterParse(c, bytes_read[c] + n)
            OBVIOUS
        <3>5. step \in {"message", "close", "readd"}
            BY <3>4 DEF AfterParse
        <3>6. ASSUME step = "close"
              PROVE  Spent(c) /\ ~WholeRequest(c)
            <4>1. /\ ~(bytes_read[c] + n >= HeaderEnd[c])
                  /\ bytes_read[c] + n >= BUFFER_SIZE - 1
                BY <3>4, <3>6 DEF AfterParse
            <4>2. sent[c] >= BUFFER_SIZE - 1 /\ ~(HeaderEnd[c] <= BUFFER_SIZE - 1)
                BY <1>4, <3>3, <4>1
            <4> QED
                BY <4>2 DEF Spent, WholeRequest
        <3> QED
            BY <3>2, <3>4, <3>5, <3>6
    <2>2. CASE ReadEnds(w)
        <3>1. Room(c) # 0
            BY <1>4, SizeAssumption DEF Room
        <3>2. /\ unread[c] = 0 /\ (eof[c] \/ err[c])
              /\ wpc' = [wpc EXCEPT ![w] = "close"]
            BY <1>1, <1>3, <2>2, <3>1 DEF ReadEnds, Goto
        <3>3. ~(sent[c] >= HeaderEnd[c])
            BY <1>4, <3>2
        <3>4. Spent(c) /\ ~WholeRequest(c)
            BY <3>2, <3>3 DEF Spent, WholeRequest
        <3> QED
            BY <3>2, <3>4
    <2> QED
        BY <2>1, <2>2
<1>6. UNCHANGED <<sent, eof, err, replies, running>>
    BY DEF ReadData, ReadEnds, clientVars, socketVars, poolVars, historyVars
<1>7. \A d : (Spent(d) <=> Spent(d)') /\ (WholeRequest(d) <=> WholeRequest(d)')
    BY <1>6 DEF Spent, WholeRequest
<1>8. \A v \in Workers : wpc'[v] = IF v = w THEN step ELSE wpc[v]
    BY <1>5 DEF Shape
<1> QED
    BY <1>1, <1>5, <1>6, <1>7, <1>8 DEF Justified

LEMMA JustifiedMessage ==
    ASSUME Shape, Tables, Places, Buffers, Justified,
           NEW w \in Workers, Message(w)
    PROVE  Justified'
<1>1. PICK c : c = running[w]
    OBVIOUS
<1>2. wpc[w] = "message" /\ w \in Busy
    BY DEF Message, Busy
<1>3. /\ c \in Conns /\ Socket(c) = c
      /\ \A v \in Busy : running[v] = c => v = w
    BY <1>1, <1>2, HandlerFacts
<1>4. /\ replies[c] = 0
      /\ \A d \in Conns : replies'[d] = IF d = c /\ ~err[d] THEN replies[d] + 1
                                        ELSE replies[d]
      /\ \A v \in Workers : wpc'[v] = IF v = w THEN "close" ELSE wpc[v]
      /\ UNCHANGED <<sent, eof, err, running>>
    BY <1>1, <1>2, <1>3 DEF Message, Goto, Shape, Buffers, socketVars, poolVars
<1>5. \A d : (Spent(d) <=> Spent(d)') /\ (WholeRequest(d) <=> WholeRequest(d)')
    BY <1>4 DEF Spent, WholeRequest
<1>6. replies'[c] = 1 \/ err[c]
    BY <1>3, <1>4
<1>7. ASSUME NEW v \in Workers, v # w, wpc[v] \in {"close", "del", "closefd"}
      PROVE  running[v] \in Conns /\ running[v] # c
    BY <1>3, <1>7, HandlerFacts DEF Busy
<1> QED
    BY <1>1, <1>4, <1>5, <1>6, <1>7 DEF Justified

LEMMA JustifiedEnd ==
    ASSUME Shape, NEW w \in Workers, BrokenPipe(w)
    PROVE  Justified'
<1>1. \A v \in Workers : wpc'[v] = "idle"
    BY DEF BrokenPipe, ProcessEnds
<1> QED
    BY <1>1 DEF Justified

LEMMA JustifiedHandler ==
    ASSUME Shape, Justified, NEW w \in Workers,
           \/ CheckClosed(w) \/ ReadBlocks(w) \/ MessageThrows(w) \/ SetClosed(w)
           \/ EpollDel(w) \/ CloseFd(w) \/ Recheck(w) \/ EpollMod(w)
           \/ Release(w)
    PROVE  Justified'
<1> USE DEF clientVars, socketVars, kernelVars, loopVars, poolVars,
            contextVars, historyVars
<1>1. UNCHANGED <<sent, eof, err, replies>>
    BY DEF CheckClosed, ReadBlocks, MessageThrows, SetClosed, EpollDel, CloseFd,
           Recheck, EpollMod, Release
<1>2. \A v \in Workers \ {w} : wpc'[v] = wpc[v] /\ running'[v] = running[v]
    BY DEF CheckClosed, ReadBlocks, MessageThrows, SetClosed, EpollDel, CloseFd,
           Recheck, EpollMod, Release, Goto, Pool!Finish, Shape
<1>3. wpc'[w] \in {"close", "del", "closefd"} =>
          /\ wpc[w] \in {"close", "del", "closefd"}
          /\ running'[w] = running[w]
    BY DEF CheckClosed, ReadBlocks, MessageThrows, SetClosed, EpollDel, CloseFd,
           Recheck, EpollMod, Release, Goto, Shape
<1> QED
    BY <1>1, <1>2, <1>3, JustifiedSame

LEMMA JustifiedStep ==
    ASSUME WholeInvariant, Buffers, Justified, [Next]_vars
    PROVE  Justified'
<1> USE DEF WholeInvariant
<1>1. CASE UNCHANGED vars
    BY <1>1, JustifiedSame DEF vars, socketVars, poolVars, historyVars
<1>2. ASSUME NEW c \in Conns, Client(c) PROVE Justified'
    BY <1>2, JustifiedClient
<1>3. CASE \/ AcceptLoop
           \/ \E f \in FDs : SpuriousEvent(f)
           \/ \E w \in Workers : TakeTask(w)
    BY <1>3, JustifiedLoop
<1>4. ASSUME NEW w \in Workers, HandleClientClient(w) PROVE Justified'
    BY <1>4, JustifiedRead, JustifiedMessage, JustifiedEnd, JustifiedHandler
    DEF HandleClientClient
<1> QED
    BY <1>1, <1>2, <1>3, <1>4 DEF Next, Quiescent

(***************************************************************************)
(* Every step is a step of ConnectionLife, or a stutter                    *)
(***************************************************************************)

LEMMA LifeStutters ==
    ASSUME UNCHANGED <<sock, sent, eof, err, replies>>,
           apc = "register" \/ apc' = "register" => UNCHANGED <<apc, cur>>
    PROVE  UNCHANGED Life!vars
<1>1. Stage' = Stage
    BY DEF Stage
<1>2. \A c : (Spent(c) <=> Spent(c)') /\ (WholeRequest(c) <=> WholeRequest(c)')
    BY DEF Spent, WholeRequest
<1>3. AllAsked' = AllAsked /\ AllSpent' = AllSpent /\ AllLost' = AllLost
    BY <1>2 DEF AllAsked, AllSpent, AllLost
<1> QED
    BY <1>1, <1>3 DEF Life!vars

LEMMA GrowsByOne ==
    ASSUME NEW S, NEW T, NEW c, S \subseteq T, T \subseteq S \cup {c}
    PROVE  T \in {S, S \cup {c}}
    OBVIOUS

LEMMA LifeClient ==
    ASSUME Shape, Tables, NEW c \in Conns, Client(c)
    PROVE  Life!Next
<1>1. UNCHANGED <<apc, cur, replies>>
    BY DEF Client, Connect, Send, Shutdown, Reset, loopVars, historyVars
<1>2. CASE Connect(c)
    <2>1. /\ sock[c] = "none"
          /\ sock' = [sock EXCEPT ![c] = "backlog"]
          /\ UNCHANGED <<sent, eof, err>>
        BY <1>2 DEF Connect, clientVars
    <2>2. ~(apc = "register" /\ cur = c)
        BY <2>1, SentinelAssumption DEF Tables
    <2>3. /\ Stage[c] = "none"
          /\ Stage' = [Stage EXCEPT ![c] = "backlog"]
        BY <1>1, <2>1, <2>2 DEF Stage, Shape
    <2>4. AllAsked' = AllAsked /\ AllSpent' = AllSpent /\ AllLost' = AllLost
        BY <2>1 DEF AllAsked, AllSpent, AllLost, Spent, WholeRequest
    <2> QED
        BY <1>1, <2>3, <2>4 DEF Life!Next, Life!Connect, Life!Becomes
<1>3. CASE Send(c) \/ Shutdown(c) \/ Reset(c)
    <2>1. Connected(c) /\ UNCHANGED sock
        BY <1>3 DEF Send, Shutdown, Reset
    <2>2. Stage[c] \in {"backlog", "accepted", "open"} /\ Stage' = Stage
        BY <1>1, <2>1 DEF Stage, Connected
    <2>3. \A d \in Conns : /\ Spent(d) => Spent(d)'
                           /\ WholeRequest(d) => WholeRequest(d)'
                           /\ Spent(d) \/ d # c =>
                                 (WholeRequest(d)' => WholeRequest(d))
                           /\ d # c => (Spent(d)' => Spent(d))
                           /\ err[d] => err'[d]
                           /\ d # c => (err'[d] => err[d])
        BY ClientSettled
    <2>4. AllAsked' \in {AllAsked, AllAsked \cup {c}}
        <3>1. ASSUME NEW d \in AllAsked
              PROVE  d \in AllAsked'
            <4>1. d \in Conns /\ WholeRequest(d)
                BY DEF AllAsked
            <4>2. WholeRequest(d)'
                BY <2>3, <4>1
            <4> QED
                BY <4>1, <4>2 DEF AllAsked
        <3>2. ASSUME NEW d \in AllAsked', d # c
              PROVE  d \in AllAsked
            <4>1. d \in Conns /\ WholeRequest(d)'
                BY DEF AllAsked
            <4>2. WholeRequest(d)
                BY <2>3, <3>2, <4>1
            <4> QED
                BY <4>1, <4>2 DEF AllAsked
        <3> QED
            BY <3>1, <3>2, GrowsByOne
    <2>5. AllSpent' \in {AllSpent, AllSpent \cup {c}}
        <3>1. ASSUME NEW d \in AllSpent
              PROVE  d \in AllSpent'
            <4>1. d \in Conns /\ Spent(d)
                BY DEF AllSpent
            <4>2. Spent(d)'
                BY <2>3, <4>1
            <4> QED
                BY <4>1, <4>2 DEF AllSpent
        <3>2. ASSUME NEW d \in AllSpent', d # c
              PROVE  d \in AllSpent
            <4>1. d \in Conns /\ Spent(d)'
                BY DEF AllSpent
            <4>2. Spent(d)
                BY <2>3, <3>2, <4>1
            <4> QED
                BY <4>1, <4>2 DEF AllSpent
        <3> QED
            BY <3>1, <3>2, GrowsByOne
    <2>6. c \in AllSpent => AllAsked' = AllAsked
        <3> SUFFICES ASSUME c \in AllSpent
                     PROVE  ~WholeRequest(c) => c \notin AllAsked'
            BY <2>4 DEF AllAsked
        <3>1. Spent(c)
            BY DEF AllSpent
        <3>2. WholeRequest(c)' => WholeRequest(c)
            BY <2>3, <3>1
        <3> QED
            BY <3>2 DEF AllAsked
    <2>7. AllLost' \in {AllLost, AllLost \cup {c}}
        <3>1. AllLost \subseteq AllLost' /\ AllLost' \subseteq AllLost \cup {c}
            BY <2>3 DEF AllLost
        <3> QED
            BY <3>1, GrowsByOne
    <2> QED
        BY <1>1, <2>2, <2>4, <2>5, <2>6, <2>7 DEF Life!Next, Life!Move
<1> QED
    BY <1>2, <1>3 DEF Client

\* Accepted, and then either registered and taken up or refused.
LEMMA LifeAccepted ==
    ASSUME Shape, Tables, AcceptConn \/ Register \/ RegisterFails
    PROVE  Life!Next
<1> USE DEF clientVars, socketVars, kernelVars, historyVars
<1>1. /\ UNCHANGED <<sent, eof, err, replies>>
      /\ AllAsked' = AllAsked /\ AllSpent' = AllSpent /\ AllLost' = AllLost
    <2>1. UNCHANGED <<sent, eof, err, replies>>
        BY DEF AcceptConn, Register, RegisterFails
    <2> QED
        BY <2>1 DEF AllAsked, AllSpent, AllLost, Spent, WholeRequest
<1>2. CASE AcceptConn
    <2>1. PICK c \in Backlog : /\ sock' = [sock EXCEPT ![c] = "open"]
                               /\ apc' = "register" /\ cur' = c
                               /\ apc = "loop"
        BY <1>2 DEF AcceptConn
    <2>2. c \in Conns /\ sock[c] = "backlog"
        BY <2>1 DEF Backlog
    <2>3. /\ Stage[c] = "backlog"
          /\ Stage' = [Stage EXCEPT ![c] = "accepted"]
        BY <2>1, <2>2 DEF Stage, Shape
    <2> QED
        BY <1>1, <2>2, <2>3 DEF Life!Next, Life!Accept, Life!Becomes
<1>3. CASE Register \/ RegisterFails
    <2>1. apc = "register" /\ apc' = "loop"
        BY <1>3 DEF Register, RegisterFails
    <2>2. cur \in Conns /\ sock[cur] = "open" /\ owner[fd[cur]] = cur
        BY <2>1 DEF Shape, Tables
    <2>3. Stage[cur] = "accepted"
        BY <2>1, <2>2 DEF Stage
    <2>4. CASE Register
        <3>1. Stage' = [Stage EXCEPT ![cur] = "open"]
            BY <2>1, <2>2, <2>4 DEF Register, Stage, Shape
        <3> QED
            BY <1>1, <2>2, <2>3, <3>1 DEF Life!Next, Life!TakeUp, Life!Becomes
    <2>5. CASE RegisterFails
        <3>1. sock' = [c \in Conns |-> IF c = cur THEN "closed" ELSE sock[c]]
            BY <2>2, <2>5 DEF RegisterFails, CloseDescriptor
        <3>2. Stage' = [Stage EXCEPT ![cur] = "closed"] /\ AddMayFail
            BY <2>1, <2>2, <2>5, <3>1 DEF Stage, RegisterFails
        <3> QED
            BY <1>1, <2>2, <2>3, <3>2 DEF Life!Next, Life!Refuse, Life!Becomes
    <2> QED
        BY <1>3, <2>4, <2>5
<1> QED
    BY <1>2, <1>3

LEMMA LifeQuiet ==
    ASSUME Shape, Tables, Places,
           \/ EpollWait \/ AcceptFails \/ Emplace
           \/ \E c \in Conns : AddRef(c)
           \/ \E f \in FDs : SpuriousEvent(f)
           \/ \E w \in Workers :
                 \/ TakeTask(w) \/ CheckClosed(w) \/ ReadData(w) \/ ReadEnds(w)
                 \/ ReadBlocks(w) \/ MessageThrows(w) \/ SetClosed(w)
                 \/ EpollDel(w) \/ Recheck(w) \/ EpollMod(w) \/ Release(w)
    PROVE  UNCHANGED Life!vars
<1> USE DEF clientVars, socketVars, kernelVars, loopVars, poolVars,
            contextVars, historyVars
<1>1. ASSUME NEW w \in Workers, EpollMod(w)
      PROVE  UNCHANGED sock
    <2>1. w \in Busy /\ wpc[w] = "mod"
        BY <1>1 DEF EpollMod, Busy
    <2>2. interest[fd[running[w]]] # NoConn
        BY <2>1, HandlerFacts
    <2> QED
        BY <1>1, <2>2 DEF EpollMod
<1>2. UNCHANGED <<sock, sent, eof, err, replies>>
    BY <1>1
    DEF EpollWait, AcceptFails, AddRef, Emplace, SpuriousEvent, TakeTask,
        CheckClosed, ReadData, ReadEnds, ReadBlocks, MessageThrows, SetClosed,
        EpollDel, Recheck, EpollMod, Release
<1>3. apc = "register" \/ apc' = "register" => UNCHANGED <<apc, cur>>
    BY DEF EpollWait, AcceptFails, AddRef, Emplace, SpuriousEvent, TakeTask,
           CheckClosed, ReadData, ReadEnds, ReadBlocks, MessageThrows,
           SetClosed, EpollDel, Recheck, EpollMod, Release
<1> QED
    BY <1>2, <1>3, LifeStutters

\* A handler about to answer: an open connection, a whole request, no answer yet.
LEMMA ToAnswer ==
    ASSUME Shape, Tables, Places, Buffers, NEW w \in Workers, wpc[w] = "message"
    PROVE  LET c == running[w]
           IN  /\ c \in Conns /\ Socket(c) = c /\ sock[c] = "open" /\ c # cur
               /\ c # NoConn
               /\ replies[c] = 0 /\ WholeRequest(c)
               /\ Stage[c] = "open" /\ c \in AllAsked
<1>1. PICK c : c = running[w]
    OBVIOUS
<1>2. w \in Busy
    BY DEF Busy
<1>3. /\ c \in Conns /\ Socket(c) = c /\ sock[c] = "open" /\ c # cur
      /\ c # NoConn
    BY <1>1, <1>2, HandlerFacts
<1>4. replies[c] = 0 /\ bytes_read[c] >= HeaderEnd[c]
    BY <1>1 DEF Buffers
<1>5. WholeRequest(c)
    <2>1. /\ bytes_read[c] + unread[c] = sent[c]
          /\ bytes_read[c] <= BUFFER_SIZE - 1
          /\ BUFFER_SIZE - 1 \in Nat /\ HeaderEnd[c] \in Nat
          /\ unread[c] \in Nat /\ bytes_read[c] \in Nat
        BY <1>3, SizesAreNumbers DEF Buffers
    <2>2. sent[c] >= HeaderEnd[c] /\ HeaderEnd[c] <= BUFFER_SIZE - 1
        BY <1>4, <2>1
    <2> QED
        BY <2>2 DEF WholeRequest
<1>6. Stage[c] = "open" /\ c \in AllAsked
    BY <1>3, <1>5 DEF Stage, AllAsked
<1> QED
    BY <1>1, <1>3, <1>4, <1>5, <1>6

\* The response is an answer, or nobody notices it.
LEMMA LifeMessage ==
    ASSUME Shape, Tables, Places, Buffers, NEW w \in Workers, Message(w)
    PROVE  [Life!Next]_Life!vars
<1>1. PICK c : c = running[w]
    OBVIOUS
<1>2. wpc[w] = "message"
    BY DEF Message
<1>3. /\ c \in Conns /\ Socket(c) = c /\ replies[c] = 0
      /\ Stage[c] = "open" /\ c \in AllAsked
    BY <1>1, <1>2, ToAnswer
<1>4. /\ replies' = [d \in Conns |-> IF d = c /\ ~err[d] THEN replies[d] + 1
                                    ELSE replies[d]]
      /\ replies = [d \in Conns |-> replies[d]]
      /\ UNCHANGED <<sock, sent, eof, err, apc, cur>>
    BY <1>1, <1>3 DEF Message, Shape, socketVars, loopVars
<1>5. CASE err[c]
    <2>1. replies' = replies
        BY <1>4, <1>5
    <2> QED
        BY <1>4, <2>1, LifeStutters
<1>6. CASE ~err[c]
    <2>1. replies' = [replies EXCEPT ![c] = 1]
        <3>1. replies[c] + 1 = 1
            BY <1>3
        <3> QED
            BY <1>3, <1>4, <1>6, <3>1
    <2>2. /\ Stage' = Stage /\ c \notin AllLost
          /\ AllAsked' = AllAsked /\ AllSpent' = AllSpent /\ AllLost' = AllLost
        BY <1>4, <1>6 DEF Stage, AllAsked, AllSpent, AllLost, Spent, WholeRequest
    <2> QED
        BY <1>3, <2>1, <2>2 DEF Life!Next, Life!Answer
<1> QED
    BY <1>5, <1>6

\* The response that ends the process is the answer to a client that is lost.
LEMMA LifeEnd ==
    ASSUME Shape, Tables, Places, Buffers, NEW w \in Workers, BrokenPipe(w)
    PROVE  Life!Next
<1>1. PICK c : c = running[w]
    OBVIOUS
<1>2. wpc[w] = "message" /\ ProcessEnds /\ apc' = "ended"
    BY DEF BrokenPipe, ProcessEnds
<1>3. /\ c \in Conns /\ Socket(c) = c /\ replies[c] = 0
      /\ Stage[c] = "open" /\ c \in AllAsked
    BY <1>1, <1>2, ToAnswer
<1>4. c \in AllLost
    BY <1>1, <1>3 DEF BrokenPipe, AllLost
<1>5. UNCHANGED <<sent, eof, err, replies>>
    BY DEF BrokenPipe, clientVars, historyVars
<1>6. AllAsked' = AllAsked /\ AllSpent' = AllSpent /\ AllLost' = AllLost
    BY <1>5 DEF AllAsked, AllSpent, AllLost, Spent, WholeRequest
<1>7. Stage' = [d \in Conns |-> IF Stage[d] = "none" THEN "none" ELSE "closed"]
    <2>1. ASSUME NEW d \in Conns
          PROVE  sock'[d] = IF Stage[d] = "none" THEN "none" ELSE "closed"
        <3>1. sock'[d] = IF sock[d] \in {"backlog", "open"} THEN "closed"
                         ELSE sock[d]
            BY <1>2, NothingLeft
        <3>2. sock[d] \in {"none", "backlog", "open", "closed"}
            BY DEF Shape
        <3>3. CASE apc = "register" /\ cur = d
            <4>1. sock[d] = "open" /\ Stage[d] = "accepted"
                BY <3>3, SentinelAssumption DEF Tables, Stage
            <4> QED
                BY <3>1, <4>1
        <3>4. CASE ~(apc = "register" /\ cur = d)
            <4>1. Stage[d] = sock[d]
                BY <3>4 DEF Stage
            <4> QED
                BY <3>1, <3>2, <4>1
        <3> QED
            BY <3>3, <3>4
    <2>2. Stage' = [d \in Conns |-> sock'[d]]
        BY <1>2 DEF Stage
    <2> QED
        BY <2>1, <2>2
<1> QED
    BY <1>3, <1>4, <1>5, <1>6, <1>7 DEF Life!Next, Life!End

\* close(ctx->fd), the only place where a connection that was taken up ends.
LEMMA LifeClose ==
    ASSUME Shape, Tables, Places, Justified, NEW w \in Workers, CloseFd(w)
    PROVE  Life!Next
<1>1. PICK c : c = running[w]
    OBVIOUS
<1>2. wpc[w] = "closefd" /\ w \in Busy
    BY DEF CloseFd, Busy
<1>3. c \in Conns /\ owner[fd[c]] = c /\ sock[c] = "open" /\ c # cur
    BY <1>1, <1>2, HandlerFacts
<1>4. /\ sock' = [d \in Conns |-> IF d = c THEN "closed" ELSE sock[d]]
      /\ UNCHANGED <<sent, eof, err, replies, apc, cur>>
    BY <1>1, <1>3
    DEF CloseFd, CloseDescriptor, clientVars, loopVars, historyVars
<1>5. /\ Stage[c] = "open"
      /\ Stage' = [Stage EXCEPT ![c] = "closed"]
    <2>1. \A d \in Conns :
             Stage'[d] = IF d = c THEN "closed" ELSE Stage[d]
        BY <1>3, <1>4 DEF Stage
    <2>2. Stage[c] = "open"
        BY <1>3 DEF Stage
    <2> QED
        BY <1>3, <2>1, <2>2 DEF Stage
<1>6. /\ replies[c] = 1 \/ c \in AllLost \/ c \in AllSpent \ AllAsked
      /\ AllAsked' = AllAsked /\ AllSpent' = AllSpent /\ AllLost' = AllLost
    BY <1>1, <1>2, <1>3, <1>4
    DEF Justified, AllAsked, AllSpent, AllLost, Spent, WholeRequest
<1> QED
    BY <1>3, <1>4, <1>5, <1>6 DEF Life!Next, Life!Close, Life!Becomes

LEMMA LifeStep ==
    ASSUME WholeInvariant, Buffers, Justified, [Next]_vars
    PROVE  [Life!Next]_Life!vars
<1> USE DEF WholeInvariant
<1>1. CASE UNCHANGED vars
    BY <1>1, LifeStutters
    DEF vars, socketVars, loopVars, historyVars
<1>2. ASSUME NEW c \in Conns, Client(c) PROVE Life!Next
    BY <1>2, LifeClient
<1>3. CASE AcceptLoop \/ \E f \in FDs : SpuriousEvent(f)
    BY <1>3, LifeAccepted, LifeQuiet DEF AcceptLoop
<1>4. ASSUME NEW w \in Workers, TakeTask(w) \/ HandleClientClient(w)
      PROVE  [Life!Next]_Life!vars
    BY <1>4, LifeQuiet, LifeMessage, LifeEnd, LifeClose DEF HandleClientClient
<1> QED
    BY <1>1, <1>2, <1>3, <1>4 DEF Next, Quiescent

LEMMA LifeInit == Init => Life!Init /\ Justified
<1> SUFFICES ASSUME Init PROVE Life!Init /\ Justified
    OBVIOUS
<1>1. \A c \in Conns : /\ sent[c] = 0 /\ ~eof[c] /\ ~err[c]
                       /\ HeaderEnd[c] \in Nat \ {0}
    BY RequestAssumption DEF Init
<1>2. AllAsked = {} /\ AllSpent = {} /\ AllLost = {}
    BY <1>1, SizeAssumption DEF AllAsked, AllSpent, AllLost, Spent, WholeRequest
<1>3. Stage = [c \in Conns |-> "none"]
    BY DEF Init, Stage
<1> QED
    BY <1>2, <1>3 DEF Init, Life!Init, Justified

(***************************************************************************)
(* Theorem                                                                 *)
(***************************************************************************)

\* A client sees its connection accepted or refused, answered at most once and
\* only for a whole request, and closed only behind the answer, when none can be
\* given, or with the process: AcceptLoop and HandleClientClient, by any number of
\* workers.
THEOREM ServerIsConnectionLife == Spec => ImplementsConnectionLife
<1>1. WholeInvariant /\ Buffers /\ Justified /\ [Next]_vars => Justified'
    BY JustifiedStep
<1>2. WholeInvariant /\ Buffers /\ Justified /\ [Next]_vars
          => [Life!Next]_Life!vars
    BY LifeStep
<1> QED
    BY <1>1, <1>2, LifeInit, BuffersInvariance, PTL
    DEF Spec, ImplementsConnectionLife, Life!Spec
=============================================================================
