--------------------------- MODULE HttpServerProofs ---------------------------
(***************************************************************************)
(* Proofs about HttpServer, for any set of connections, workers and        *)
(* descriptors and any buffer and batch size.                              *)
(***************************************************************************)
EXTENDS HttpServer, SequenceTheorems, FiniteSetTheorems, TLAPS

(***************************************************************************)
(* The inductive invariant: types, tables, places                          *)
(***************************************************************************)

\* Types, and the control state the handlers' locals depend on.  ref_count is
\* only an integer here: Counts below says what it counts.
Shape ==
    /\ sock \in [Conns -> {"none", "backlog", "open", "closed"}]
    /\ sent \in [Conns -> Nat] /\ unread \in [Conns -> Nat]
    /\ eof \in [Conns -> BOOLEAN] /\ err \in [Conns -> BOOLEAN]
    /\ owner \in [FDs -> Conns \cup {NoConn}]
    /\ interest \in [FDs -> Conns \cup {NoConn}]
    /\ armed \subseteq FDs
    /\ events \subseteq Conns \cup {Listen}
    /\ apc \in {"loop", "register", "submit", "ended"}
    /\ cur \in Conns \cup {NoConn}
    /\ queue \in Seq(Conns)
    /\ running \in [Workers -> Conns \cup {NoConn}]
    /\ wpc \in [Workers -> {"idle", "check", "read", "message", "close",
                            "del", "closefd", "readd", "mod", "release"}]
    /\ ctx \in [Conns -> {"none", "live", "freed"}]
    /\ fd \in [Conns -> FDs \cup {NoFd}]
    /\ bytes_read \in [Conns -> 0..BUFFER_SIZE - 1]
    /\ closed \in [Conns -> BOOLEAN]
    /\ ref_count \in [Conns -> Int]
    /\ replies \in [Conns -> Nat]
    /\ abandoned \subseteq Conns
    /\ apc \in {"loop", "ended"} <=> cur = NoConn
    /\ \A w \in Workers : wpc[w] = "idle" <=> running[w] = NoConn
    /\ \A f \in armed : interest[f] # NoConn

Queued(c) == \E i \in 1..Len(queue) : queue[i] = c

\* The workers that have not passed their connection on yet.
Busy == {w \in Workers : wpc[w] \notin {"idle", "release"}}

\* Descriptors, sockets and registrations agree, and whoever may still touch a
\* connection finds its socket open.
Tables ==
    /\ \A f \in FDs : interest[f] # NoConn => owner[f] = interest[f]
    /\ \A f \in FDs : owner[f] # NoConn =>
           sock[owner[f]] = "open" /\ fd[owner[f]] = f
    /\ \A c \in Conns : sock[c] = "open" => fd[c] \in FDs /\ owner[fd[c]] = c
    /\ \A c \in Conns : sock[c] = "open" =>
           \/ interest[fd[c]] = c
           \/ apc = "register" /\ cur = c
           \/ \E w \in Workers : running[w] = c /\ wpc[w] = "closefd"
    /\ \A c \in events \cap Conns : sock[c] = "open"
    /\ cur # NoConn => sock[cur] = "open"
    /\ \A c \in Conns : Queued(c) => sock[c] = "open"
    /\ \A w \in Busy : sock[running[w]] = "open"
    /\ \A w \in Workers : running[w] # NoConn =>
           sock[running[w]] \in {"open", "closed"}
    /\ \A c \in Conns : closed[c] =>
           \/ sock[c] = "closed"
           \/ \E w \in Workers : running[w] = c /\ wpc[w] \in {"del", "closefd"}

\* A connection is in one place at most.
Places ==
    /\ \A f \in armed : /\ interest[f] \notin events
                        /\ interest[f] # cur
                        /\ ~Queued(interest[f])
                        /\ \A w \in Busy : running[w] # interest[f]
    /\ \A c \in events \cap Conns : /\ c # cur
                                    /\ ~Queued(c)
                                    /\ \A w \in Busy : running[w] # c
    /\ cur # NoConn => /\ ~Queued(cur)
                       /\ \A w \in Busy : running[w] # cur
    /\ apc = "register" => \A w \in Workers : running[w] # cur
    /\ \A i, k \in 1..Len(queue) : queue[i] = queue[k] => i = k
    /\ \A w \in Busy : ~Queued(running[w])
    /\ \A w1, w2 \in Busy : running[w1] = running[w2] => w1 = w2

(***************************************************************************)
(* Facts about the pool's queue                                            *)
(***************************************************************************)

LEMMA QueueAfterSubmit ==
    ASSUME queue \in Seq(Conns), NEW c \in Conns, queue' = Append(queue, c)
    PROVE  /\ queue' \in Seq(Conns)
           /\ Len(queue) \in Nat
           /\ Len(queue') = Len(queue) + 1
           /\ \A i \in 1..Len(queue) : queue'[i] = queue[i]
           /\ queue'[Len(queue) + 1] = c
           /\ \A d : Queued(d)' <=> Queued(d) \/ d = c
<1>1. /\ queue' \in Seq(Conns)
      /\ Len(queue) \in Nat
      /\ Len(queue') = Len(queue) + 1
      /\ \A i \in 1..Len(queue) : queue'[i] = queue[i]
      /\ queue'[Len(queue) + 1] = c
    BY AppendProperties, LenProperties
<1>2. \A i : i \in 1..Len(queue) + 1 <=> i \in 1..Len(queue) \/ i = Len(queue) + 1
    BY <1>1
<1> QED
    BY <1>1, <1>2 DEF Queued

LEMMA QueueAfterTake ==
    ASSUME queue \in Seq(Conns), queue # <<>>, queue' = Tail(queue)
    PROVE  /\ queue' \in Seq(Conns)
           /\ Len(queue) \in Nat \ {0}
           /\ Len(queue') = Len(queue) - 1
           /\ Head(queue) \in Conns
           /\ Head(queue) = queue[1]
           /\ \A i \in 1..Len(queue') : queue'[i] = queue[i + 1]
           /\ \A d : Queued(d) <=> Queued(d)' \/ d = Head(queue)
<1>1. /\ queue' \in Seq(Conns)
      /\ Len(queue) \in Nat \ {0}
      /\ Len(queue') = Len(queue) - 1
      /\ Head(queue) \in Conns
      /\ Head(queue) = queue[1]
      /\ \A i \in 1..Len(queue') : queue'[i] = queue[i + 1]
    BY HeadTailProperties, LenProperties, EmptySeq
<1>2. ASSUME NEW d, Queued(d)
      PROVE  Queued(d)' \/ d = Head(queue)
    <2>1. PICK i \in 1..Len(queue) : queue[i] = d
        BY <1>2 DEF Queued
    <2>2. CASE i = 1
        BY <1>1, <2>1, <2>2
    <2>3. CASE i # 1
        <3>1. /\ i - 1 \in 1..Len(queue')
              /\ (i - 1) + 1 = i
            BY <1>1, <2>3
        <3>2. queue'[i - 1] = d
            BY <1>1, <2>1, <3>1
        <3> QED
            BY <3>1, <3>2 DEF Queued
    <2> QED
        BY <2>2, <2>3
<1>3. ASSUME NEW d, Queued(d)' \/ d = Head(queue)
      PROVE  Queued(d)
    <2>1. 1 \in 1..Len(queue)
        BY <1>1
    <2>2. \A i \in 1..Len(queue') : i + 1 \in 1..Len(queue)
        BY <1>1
    <2> QED
        BY <1>1, <1>3, <2>1, <2>2 DEF Queued
<1> QED
    BY <1>1, <1>2, <1>3

(***************************************************************************)
(* What read may return                                                    *)
(***************************************************************************)

\* read takes at least a byte, no more than there are, and leaves room for the
\* terminator.
LEMMA ReadFits ==
    ASSUME NEW u \in Nat \ {0}, NEW b \in 0..BUFFER_SIZE - 1,
           BUFFER_SIZE - b - 1 > 0,
           NEW n, n = Lesser(u, BUFFER_SIZE - b - 1)
    PROVE  /\ n \in Nat \ {0}
           /\ u - n \in Nat
           /\ b + n \in 0..BUFFER_SIZE - 1
BY SizeAssumption DEF Lesser

(***************************************************************************)
(* Shape                                                                   *)
(***************************************************************************)

LEMMA ShapeInit == Init => Shape
<1> SUFFICES ASSUME Init PROVE Shape
    OBVIOUS
<1>1. <<>> \in Seq(Conns)
    BY EmptySeq
<1>2. 0 \in 0..BUFFER_SIZE - 1
    BY SizeAssumption
<1> QED
    BY <1>1, <1>2 DEF Init, Shape, Pool!Init

LEMMA ShapeStep == Shape /\ Tables /\ [Next]_vars => Shape'
<1> SUFFICES ASSUME Shape, Tables, [Next]_vars
             PROVE  Shape'
    OBVIOUS
<1> USE DEF Shape, clientVars, socketVars, kernelVars, loopVars, poolVars,
            contextVars, historyVars
<1>1. ASSUME NEW c \in Conns, Client(c)
      PROVE  Shape'
    <2>1. CASE Connect(c)
        BY <2>1 DEF Connect
    <2>2. CASE Send(c)
        <3>1. PICK k \in 1..ClientBytes[c] - sent[c] :
                 /\ sent' = [sent EXCEPT ![c] = @ + k]
                 /\ unread' = [unread EXCEPT ![c] = @ + k]
            BY <2>2 DEF Send
        <3>2. k \in Nat /\ sent \in [Conns -> Nat] /\ unread \in [Conns -> Nat]
            OBVIOUS
        <3>3. /\ sent' \in [Conns -> Nat]
              /\ unread' \in [Conns -> Nat]
            <4> HIDE DEF Shape
            <4>1. sent[c] + k \in Nat /\ unread[c] + k \in Nat
                BY <3>2
            <4> QED
                BY <3>1, <3>2, <4>1
        <3> QED
            BY <2>2, <3>3 DEF Send
    <2>3. CASE Shutdown(c)
        BY <2>3 DEF Shutdown
    <2>4. CASE Reset(c)
        BY <2>4 DEF Reset
    <2> QED
        BY <1>1, <2>1, <2>2, <2>3, <2>4 DEF Client
<1>2. CASE EpollWait
    <2>1. Ready \subseteq Conns \cup {Listen}
        BY DEF Ready
    <2> QED
        BY <1>2, <2>1 DEF EpollWait
<1>3. ASSUME NEW f \in FDs, SpuriousEvent(f)
      PROVE  Shape'
    BY <1>3 DEF SpuriousEvent
<1>4. CASE AcceptConn
    <2>1. PICK c \in Backlog, f \in FreeFDs :
             /\ sock' = [sock EXCEPT ![c] = "open"]
             /\ owner' = [owner EXCEPT ![f] = c]
             /\ fd' = [fd EXCEPT ![c] = f]
             /\ ctx' = [ctx EXCEPT ![c] = "live"]
             /\ ref_count' = [ref_count EXCEPT ![c] = 1]
             /\ cur' = c
        BY <1>4 DEF AcceptConn
    <2>2. c \in Conns /\ f \in FDs /\ c # NoConn
        BY SentinelAssumption DEF Backlog, FreeFDs
    <2> QED
        BY <1>4, <2>1, <2>2 DEF AcceptConn
<1>5. CASE AcceptFails
    BY <1>5 DEF AcceptFails
<1>6. CASE Register
    <2>1. cur \in Conns /\ fd[cur] \in FDs
        BY <1>6 DEF Register, Tables
    <2>2. /\ interest' = [interest EXCEPT ![fd[cur]] = cur]
          /\ armed' = armed \cup {fd[cur]}
          /\ apc' = "loop" /\ cur' = NoConn
          /\ UNCHANGED <<sock, sent, unread, eof, err, owner, events, queue,
                         running, wpc, ctx, fd, bytes_read, closed, ref_count,
                         replies, abandoned>>
        BY <1>6 DEF Register, Arm
    <2>3. /\ interest' \in [FDs -> Conns \cup {NoConn}]
          /\ armed' \subseteq FDs
          /\ \A f \in armed' : interest'[f] # NoConn
        BY <2>1, <2>2, SentinelAssumption
    <2> QED
        BY <2>2, <2>3
<1>7. CASE RegisterFails
    BY <1>7, SentinelAssumption DEF RegisterFails, CloseDescriptor
<1>8. ASSUME NEW c \in Conns, AddRef(c)
      PROVE  Shape'
    BY <1>8, SentinelAssumption, SMTT(30) DEF AddRef
<1>9. CASE Emplace
    <2>1. cur \in Conns
        BY <1>9 DEF Emplace
    <2> QED
        BY <1>9, <2>1, QueueAfterSubmit DEF Emplace, Pool!Submit
<1>10. ASSUME NEW w \in Workers, TakeTask(w)
       PROVE  Shape'
    <2>1. /\ Head(queue) \in Conns
          /\ queue' \in Seq(Conns)
        BY <1>10, QueueAfterTake DEF TakeTask, Pool!Take
    <2> QED
        BY <1>10, <2>1, SentinelAssumption DEF TakeTask, Pool!Take, Goto
<1>11. ASSUME NEW w \in Workers, HandleClientClient(w)
       PROVE  Shape'
    <2> DEFINE c == running[w]
    <2>1. wpc[w] # "idle" /\ c \in Conns
        BY <1>11
        DEF HandleClientClient, CheckClosed, ReadData, ReadEnds, ReadBlocks,
            Message, BrokenPipe, MessageThrows, SetClosed, EpollDel, CloseFd,
            Recheck, EpollMod, Release
    <2>2. CASE CheckClosed(w)
        BY <2>1, <2>2 DEF CheckClosed, Goto
    <2>3. CASE ReadData(w)
        <3> DEFINE s == Socket(c)
                   n == Lesser(unread[s], Room(c))
        <3>1. /\ s # NoConn /\ unread[s] > 0 /\ Room(c) > 0
              /\ bytes_read' = [bytes_read EXCEPT ![c] = @ + n]
              /\ unread' = [unread EXCEPT ![s] = @ - n]
              /\ Goto(w, AfterParse(c, bytes_read[c] + n))
            BY <2>3 DEF ReadData
        <3>2. s \in Conns
            <4>1. sock[c] = "open"
                BY <2>1, <2>3 DEF ReadData, Tables, Busy
            <4>2. fd[c] \in FDs
                BY <2>1, <4>1 DEF Tables
            <4> QED
                BY <3>1, <4>2 DEF Socket
        <3>3. /\ unread[s] - n \in Nat
              /\ bytes_read[c] + n \in 0..BUFFER_SIZE - 1
            <4>1. /\ unread[s] \in Nat \ {0}
                  /\ bytes_read[c] \in 0..BUFFER_SIZE - 1
                  /\ BUFFER_SIZE - bytes_read[c] - 1 > 0
                BY <2>1, <3>1, <3>2 DEF Room
            <4>2. n = Lesser(unread[s], BUFFER_SIZE - bytes_read[c] - 1)
                BY DEF Room
            <4> HIDE DEF n, s, c
            <4> QED
                BY <4>1, <4>2, ReadFits
        <3>4. AfterParse(c, bytes_read[c] + n) \in {"message", "close", "readd"}
            BY DEF AfterParse
        <3>5. UNCHANGED <<sock, clientVars, err, kernelVars, loopVars, poolVars,
                          ctx, fd, closed, ref_count, historyVars>>
            BY <2>3 DEF ReadData
        <3>6. /\ bytes_read \in [Conns -> 0..BUFFER_SIZE - 1]
              /\ unread \in [Conns -> Nat]
            OBVIOUS
        <3> HIDE DEF n, s
        <3>7. /\ bytes_read' \in [Conns -> 0..BUFFER_SIZE - 1]
              /\ unread' \in [Conns -> Nat]
            <4> HIDE DEF Shape
            <4> QED
                BY <2>1, <3>1, <3>2, <3>3, <3>6
        <3>8. PICK step \in {"message", "close", "readd"} :
                 wpc' = [wpc EXCEPT ![w] = step]
            BY <3>1, <3>4 DEF Goto
        <3>9. /\ wpc' \in [Workers -> {"idle", "check", "read", "message", "close",
                                    "del", "closefd", "readd", "mod", "release"}]
              /\ \A v \in Workers : wpc'[v] = "idle" <=> running'[v] = NoConn
            BY <2>1, <3>5, <3>8
        <3>10. UNCHANGED <<sock, sent, eof, err, owner, interest, armed, events,
                           apc, cur, queue, running, ctx, fd, closed, ref_count,
                           replies, abandoned>>
            BY <3>5
        <3> QED
            BY <3>7, <3>9, <3>10
    <2>4. CASE ReadEnds(w)
        <3>1. PICK step \in {"release", "close"} :
                 wpc' = [wpc EXCEPT ![w] = step]
            BY <2>4 DEF ReadEnds, Goto
        <3>2. closed' = [closed EXCEPT ![c] = TRUE] \/ closed' = closed
            BY <2>4 DEF ReadEnds
        <3>3. UNCHANGED <<sock, sent, unread, eof, err, owner, interest, armed,
                          events, apc, cur, queue, running, ctx, fd, bytes_read,
                          ref_count, replies, abandoned>>
            BY <2>4 DEF ReadEnds
        <3>4. /\ wpc' \in [Workers -> {"idle", "check", "read", "message", "close",
                                    "del", "closefd", "readd", "mod", "release"}]
              /\ \A v \in Workers : wpc'[v] = "idle" <=> running'[v] = NoConn
            BY <2>1, <3>1, <3>3
        <3>5. closed' \in [Conns -> BOOLEAN]
            BY <2>1, <3>2
        <3> QED
            BY <3>3, <3>4, <3>5
    <2>5. CASE ReadBlocks(w)
        BY <2>1, <2>5 DEF ReadBlocks, Goto
    <2>6. CASE Message(w)
        <3>1. replies' \in [Conns -> Nat]
            BY <2>6 DEF Message
        <3> QED
            BY <2>1, <2>6, <3>1 DEF Message, Goto
    <2>7. CASE MessageThrows(w)
        BY <2>1, <2>7 DEF MessageThrows, Pool!Finish, Goto
    <2>8. CASE SetClosed(w)
        BY <2>1, <2>8 DEF SetClosed, Goto
    <2>9. CASE EpollDel(w)
        BY <2>1, <2>9 DEF EpollDel, Goto
    <2>10. CASE CloseFd(w)
        BY <2>1, <2>10 DEF CloseFd, CloseDescriptor, Goto
    <2>11. CASE Recheck(w)
        BY <2>1, <2>11 DEF Recheck, Goto
    <2>12. CASE EpollMod(w)
        <3>1. fd[c] \in FDs
            BY <2>1, <2>12 DEF EpollMod, Tables, Busy
        <3>2. /\ interest' \in [FDs -> Conns \cup {NoConn}]
              /\ armed' \subseteq FDs
              /\ \A f \in armed' : interest'[f] # NoConn
              /\ sock' \in [Conns -> {"none", "backlog", "open", "closed"}]
              /\ owner' \in [FDs -> Conns \cup {NoConn}]
              /\ closed' \in [Conns -> BOOLEAN]
            <4>1. CASE interest[fd[c]] # NoConn
                <5>1. /\ interest' = [interest EXCEPT ![fd[c]] = c]
                      /\ armed' = armed \cup {fd[c]}
                      /\ UNCHANGED <<sock, owner, closed>>
                    BY <2>12, <4>1 DEF EpollMod, Arm
                <5> QED
                    BY <2>1, <3>1, <5>1, SentinelAssumption
            <4>2. CASE interest[fd[c]] = NoConn
                <5>1. /\ CloseDescriptor(fd[c])
                      /\ closed' = [closed EXCEPT ![c] = TRUE]
                    BY <2>12, <4>2 DEF EpollMod
                <5> QED
                    BY <2>1, <3>1, <5>1 DEF CloseDescriptor
            <4> QED
                BY <4>1, <4>2
        <3>3. UNCHANGED <<clientVars, unread, err, loopVars, poolVars, ctx, fd,
                          bytes_read, ref_count, historyVars>>
            BY <2>12 DEF EpollMod
        <3>4. /\ wpc' = [wpc EXCEPT ![w] = "release"]
              /\ wpc[w] # "idle"
            BY <2>1, <2>12 DEF EpollMod, Goto
        <3> QED
            BY <3>2, <3>3, <3>4
    <2>13. CASE Release(w)
        BY <2>1, <2>13 DEF Release, Pool!Finish, Goto
    <2>14. CASE BrokenPipe(w)
        <3>1. <<>> \in Seq(Conns)
            BY EmptySeq
        <3>2. /\ sock' = [d \in Conns |-> IF Connected(d) THEN "closed"
                                          ELSE sock[d]]
              /\ owner' = [f \in FDs |-> NoConn]
              /\ interest' = [f \in FDs |-> NoConn]
              /\ armed' = {}
              /\ events' = {} /\ apc' = "ended" /\ cur' = NoConn
              /\ queue' = <<>> /\ running' = [v \in Workers |-> NoConn]
              /\ wpc' = [v \in Workers |-> "idle"]
              /\ ctx' = [d \in Conns |-> "none"]
              /\ ref_count' = [d \in Conns |-> 0]
              /\ UNCHANGED <<sent, unread, eof, err, fd, bytes_read, closed,
                             replies, abandoned>>
            BY <2>14 DEF BrokenPipe, ProcessEnds
        <3>3. sock' \in [Conns -> {"none", "backlog", "open", "closed"}]
            BY <3>2
        <3> QED
            BY <3>1, <3>2, <3>3
    <2> QED
        BY <1>11, <2>2, <2>3, <2>4, <2>5, <2>6, <2>7, <2>8, <2>9, <2>10,
           <2>11, <2>12, <2>13, <2>14
        DEF HandleClientClient
<1>12. CASE UNCHANGED vars
    BY <1>12 DEF vars
<1> QED
    BY <1>1, <1>2, <1>3, <1>4, <1>5, <1>6, <1>7, <1>8, <1>9, <1>10, <1>11,
       <1>12
    DEF Next, AcceptLoop, Quiescent

(***************************************************************************)
(* Tables and Places                                                       *)
(***************************************************************************)

\* What a handler that has not passed its connection on can rely on.  The three
\* defensive branches of the code (EBADF, closed already set, MOD failing) are
\* dead because of it.
LEMMA HandlerFacts ==
    ASSUME Shape, Tables, Places, NEW w \in Busy
    PROVE  LET c == running[w]
           IN  /\ w \in Workers /\ c \in Conns /\ c # NoConn
               /\ sock[c] = "open"
               /\ fd[c] \in FDs /\ owner[fd[c]] = c /\ Socket(c) = c
               /\ wpc[w] \notin {"del", "closefd"} => ~closed[c]
               /\ wpc[w] # "closefd" => interest[fd[c]] = c
               /\ c # cur /\ c \notin events /\ ~Queued(c)
               /\ fd[c] \notin armed
               /\ \A v \in Busy : running[v] = c => v = w
<1> DEFINE c == running[w]
<1>1. w \in Workers /\ c \in Conns /\ c # NoConn
    BY SentinelAssumption DEF Busy, Shape
<1>2. sock[c] = "open"
    BY DEF Tables
<1>3. fd[c] \in FDs /\ owner[fd[c]] = c /\ Socket(c) = c
    BY <1>1, <1>2 DEF Tables, Socket
<1>4. \A v \in Busy : running[v] = c => v = w
    BY DEF Places
<1>5. c # cur /\ c \notin events /\ ~Queued(c)
    BY <1>1 DEF Places
<1>6. ASSUME wpc[w] \notin {"del", "closefd"} PROVE ~closed[c]
    BY <1>1, <1>2, <1>4, <1>6 DEF Tables, Busy
<1>7. ASSUME wpc[w] # "closefd" PROVE interest[fd[c]] = c
    BY <1>1, <1>2, <1>4, <1>5, <1>7 DEF Tables, Busy
<1>8. fd[c] \notin armed
    <2> SUFFICES ASSUME fd[c] \in armed PROVE FALSE
        OBVIOUS
    <2>1. interest[fd[c]] # NoConn
        BY DEF Shape
    <2>2. interest[fd[c]] = c
        BY <1>3, <2>1 DEF Tables
    <2> QED
        BY <2>2 DEF Places
<1> QED
    BY <1>1, <1>2, <1>3, <1>4, <1>5, <1>6, <1>7, <1>8

\* The part of the state Tables and Places are about.
placeVars == <<sock, owner, interest, armed, fd, events, apc, cur, queue,
               running, closed>>

\* A step of a handler between two of its own system calls.
LEMMA QuietStep ==
    ASSUME Shape, Tables, Places, UNCHANGED placeVars,
           NEW w \in Busy, NEW step, Goto(w, step),
           wpc[w] \notin {"del", "closefd"},
           step \notin {"idle", "del", "closefd"}
    PROVE  Tables' /\ Places'
<1>1. /\ wpc \in [Workers -> {"idle", "check", "read", "message", "close",
                              "del", "closefd", "readd", "mod", "release"}]
      /\ w \in Workers
      /\ wpc' = [wpc EXCEPT ![w] = step]
    BY DEF Shape, Busy, Goto
<1>2. Busy' \subseteq Busy
    BY <1>1 DEF Busy
<1>3. \A v \in Workers, q \in {"del", "closefd"} : wpc'[v] = q <=> wpc[v] = q
    BY <1>1
<1>4. \A d : Queued(d)' <=> Queued(d)
    BY DEF Queued, placeVars
<1>5. Tables'
    BY <1>2, <1>3, <1>4 DEF Tables, placeVars
<1>6. Places'
    BY <1>2, <1>4 DEF Places, placeVars
<1> QED
    BY <1>5, <1>6

\* When the process ends, no connection is anywhere.
LEMMA NothingLeft ==
    ASSUME Shape, ProcessEnds
    PROVE  /\ Busy' = {} /\ \A d : ~Queued(d)'
           /\ \A c \in Conns : sock'[c] = IF sock[c] \in {"backlog", "open"}
                                         THEN "closed" ELSE sock[c]
           /\ \A c \in Conns : sock'[c] \in {"none", "closed"}
           /\ \A w \in Workers : running'[w] = NoConn
           /\ \A f \in FDs : interest'[f] = NoConn /\ owner'[f] = NoConn
<1>1. /\ sock \in [Conns -> {"none", "backlog", "open", "closed"}]
      /\ sock' = [c \in Conns |-> IF Connected(c) THEN "closed" ELSE sock[c]]
      /\ owner' = [f \in FDs |-> NoConn]
      /\ interest' = [f \in FDs |-> NoConn]
      /\ queue' = <<>>
      /\ running' = [w \in Workers |-> NoConn]
      /\ wpc' = [w \in Workers |-> "idle"]
    BY DEF Shape, ProcessEnds
<1>2. \A d : ~Queued(d)'
    <2>1. Len(queue') = 0
        BY <1>1, EmptySeq
    <2> QED
        BY <2>1 DEF Queued
<1>3. Busy' = {}
    BY <1>1 DEF Busy
<1>4. \A c \in Conns : sock'[c] = IF sock[c] \in {"backlog", "open"}
                                 THEN "closed" ELSE sock[c]
    BY <1>1 DEF Connected
<1>5. \A c \in Conns : sock'[c] \in {"none", "closed"}
    BY <1>1, <1>4
<1> QED
    BY <1>1, <1>2, <1>3, <1>4, <1>5

LEMMA EndStep ==
    ASSUME Shape, Tables, NEW w \in Workers, BrokenPipe(w)
    PROVE  Tables' /\ Places'
<1>1. /\ ProcessEnds
      /\ events' = {} /\ armed' = {} /\ cur' = NoConn /\ apc' = "ended"
      /\ queue' = <<>> /\ closed' = closed
    BY DEF BrokenPipe, ProcessEnds
<1>2. Len(queue') = 0
    BY <1>1, EmptySeq
<1>3. ASSUME NEW c \in Conns, closed[c]
      PROVE  sock'[c] = "closed"
    <2>1. sock[c] \in {"open", "closed"}
        BY <1>3, SentinelAssumption DEF Tables
    <2> QED
        BY <1>1, <2>1, NothingLeft
<1>4. Tables'
    BY <1>1, <1>3, NothingLeft DEF Tables
<1>5. Places'
    BY <1>1, <1>2, NothingLeft DEF Places
<1> QED
    BY <1>4, <1>5

LEMMA HandlerStep ==
    ASSUME Shape, Tables, Places,
           NEW w \in Workers, HandleClientClient(w)
    PROVE  Tables' /\ Places'
<1> DEFINE c == running[w]
<1>1. w \in Busy \/ wpc[w] = "release"
    BY DEF HandleClientClient, CheckClosed, ReadData, ReadEnds, ReadBlocks,
           Message, BrokenPipe, MessageThrows, SetClosed, EpollDel, CloseFd,
           Recheck, EpollMod, Release, Busy
<1> USE DEF clientVars, socketVars, kernelVars, loopVars, poolVars,
            contextVars, historyVars
<1>2. CASE CheckClosed(w)
    <2>1. /\ w \in Busy
          /\ Goto(w, IF closed[c] THEN "release" ELSE "read")
          /\ wpc[w] = "check"
          /\ UNCHANGED placeVars
        BY <1>2 DEF CheckClosed, Busy, placeVars
    <2> QED
        BY <2>1, QuietStep
<1>3. CASE ReadData(w)
    <2>1. PICK step \in {"message", "close", "readd"} : Goto(w, step)
        BY <1>3 DEF ReadData, AfterParse
    <2>2. /\ w \in Busy
          /\ wpc[w] = "read"
          /\ UNCHANGED placeVars
        BY <1>3 DEF ReadData, Busy, placeVars
    <2> QED
        BY <2>1, <2>2, QuietStep
<1>4. CASE ReadEnds(w)
    <2>1. w \in Busy /\ wpc[w] = "read"
        BY <1>4 DEF ReadEnds, Busy
    <2>2. Socket(c) # NoConn
        BY <2>1, HandlerFacts
    <2>3. Goto(w, "close") /\ UNCHANGED placeVars
        BY <1>4, <2>2 DEF ReadEnds, placeVars
    <2> QED
        BY <2>1, <2>3, QuietStep
<1>5. CASE ReadBlocks(w)
    <2>1. /\ w \in Busy
          /\ wpc[w] = "read"
          /\ Goto(w, "readd")
          /\ UNCHANGED placeVars
        BY <1>5 DEF ReadBlocks, Busy, placeVars
    <2> QED
        BY <2>1, QuietStep
<1>6. CASE Message(w)
    <2>1. /\ w \in Busy
          /\ wpc[w] = "message"
          /\ Goto(w, "close")
          /\ UNCHANGED placeVars
        BY <1>6 DEF Message, Busy, placeVars
    <2> QED
        BY <2>1, QuietStep
<1>7. CASE Recheck(w)
    <2>1. /\ w \in Busy
          /\ wpc[w] = "readd"
          /\ Goto(w, IF closed[c] THEN "release" ELSE "mod")
          /\ UNCHANGED placeVars
        BY <1>7 DEF Recheck, Busy, placeVars
    <2> QED
        BY <2>1, QuietStep
<1>8. CASE MessageThrows(w) \/ Release(w)
    <2>1. /\ wpc \in [Workers -> {"idle", "check", "read", "message", "close",
                                  "del", "closefd", "readd", "mod", "release"}]
          /\ running \in [Workers -> Conns \cup {NoConn}]
        BY DEF Shape
    <2>2. /\ running' = [running EXCEPT ![w] = NoConn]
          /\ wpc' = [wpc EXCEPT ![w] = "idle"]
          /\ wpc[w] \in {"message", "release"}
          /\ UNCHANGED <<sock, owner, interest, armed, fd, events, apc, cur,
                         queue, closed>>
        BY <1>8 DEF MessageThrows, Release, Pool!Finish, Goto
    <2>3. /\ Busy' = Busy \ {w}
          /\ \A v \in Busy' : running'[v] = running[v]
          /\ \A v \in Workers : running'[v] # NoConn => running'[v] = running[v]
        BY <2>1, <2>2 DEF Busy
    <2>4. \A d : Queued(d)' <=> Queued(d)
        BY <2>2 DEF Queued
    <2>5. \A v \in Workers : wpc'[v] \in {"del", "closefd"} <=>
                             wpc[v] \in {"del", "closefd"}
        BY <2>1, <2>2
    <2>6. \A v \in Workers : wpc[v] \in {"del", "closefd"} =>
              running'[v] = running[v] /\ wpc'[v] = wpc[v]
        BY <2>1, <2>2
    <2>7. Tables'
        BY <2>2, <2>3, <2>4, <2>5, <2>6 DEF Tables
    <2>8. Places'
        BY <2>1, <2>2, <2>3, <2>4, SentinelAssumption DEF Places, Shape
    <2> QED
        BY <2>7, <2>8
<1>9. CASE SetClosed(w)
    <2>1. w \in Busy /\ wpc[w] = "close"
        BY <1>9 DEF SetClosed, Busy
    <2>2. c \in Conns /\ ~closed[c] /\ interest[fd[c]] = c
        BY <2>1, HandlerFacts
    <2>3. /\ wpc' = [wpc EXCEPT ![w] = "del"]
          /\ closed' = [closed EXCEPT ![c] = TRUE]
          /\ UNCHANGED <<sock, owner, interest, armed, fd, events, apc, cur,
                         queue, running>>
        BY <1>9, <2>2 DEF SetClosed, Goto
    <2>4. /\ wpc \in [Workers -> {"idle", "check", "read", "message", "close",
                                  "del", "closefd", "readd", "mod", "release"}]
          /\ closed \in [Conns -> BOOLEAN]
        BY DEF Shape
    <2>5. /\ Busy' = Busy
          /\ wpc'[w] = "del"
          /\ \A v \in Workers : wpc[v] \in {"del", "closefd"} => wpc'[v] = wpc[v]
        BY <2>1, <2>3, <2>4 DEF Busy
    <2>6. \A d : Queued(d)' <=> Queued(d)
        BY <2>3 DEF Queued
    <2>7. \A d \in Conns : closed'[d] => closed[d] \/ d = c
        BY <2>2, <2>3, <2>4
    <2>8. Tables'
        BY <2>3, <2>5, <2>6, <2>7 DEF Tables
    <2>9. Places'
        BY <2>3, <2>5, <2>6 DEF Places
    <2> QED
        BY <2>8, <2>9
<1>10. CASE EpollDel(w)
    <2>1. w \in Busy /\ wpc[w] = "del"
        BY <1>10 DEF EpollDel, Busy
    <2>2. c \in Conns /\ fd[c] \in FDs /\ owner[fd[c]] = c
        BY <2>1, HandlerFacts
    <2>3. /\ wpc' = [wpc EXCEPT ![w] = "closefd"]
          /\ interest' = [interest EXCEPT ![fd[c]] = NoConn]
          /\ armed' = armed \ {fd[c]}
          /\ UNCHANGED <<sock, owner, fd, events, apc, cur, queue, running,
                         closed>>
        BY <1>10 DEF EpollDel, Goto
    <2>4. /\ wpc \in [Workers -> {"idle", "check", "read", "message", "close",
                                  "del", "closefd", "readd", "mod", "release"}]
          /\ interest \in [FDs -> Conns \cup {NoConn}]
          /\ armed \subseteq FDs
        BY DEF Shape
    <2>5. /\ Busy' = Busy
          /\ wpc'[w] = "closefd"
          /\ \A v \in Workers \ {w} : wpc'[v] = wpc[v]
        BY <2>1, <2>3, <2>4 DEF Busy
    <2>6. \A d : Queued(d)' <=> Queued(d)
        BY <2>3 DEF Queued
    <2>7. \A f \in FDs : interest'[f] = IF f = fd[c] THEN NoConn ELSE interest[f]
        BY <2>2, <2>3, <2>4
    <2>8. \A d \in Conns : sock[d] = "open" /\ d # c => fd[d] # fd[c]
        BY <2>2 DEF Tables
    <2>9. Tables'
        <3>1. \A d \in Conns : sock[d] = "open" =>
                 \/ interest'[fd[d]] = d
                 \/ apc = "register" /\ cur = d
                 \/ \E v \in Workers : running[v] = d /\ wpc'[v] = "closefd"
            <4> TAKE d \in Conns
            <4> HAVE sock[d] = "open"
            <4>1. CASE d = c
                BY <2>5, <4>1
            <4>2. CASE d # c
                <5>1. fd[d] # fd[c] /\ fd[d] \in FDs
                    BY <2>8, <4>2 DEF Tables
                <5>2. interest'[fd[d]] = interest[fd[d]]
                    BY <2>7, <5>1
                <5>3. \A v \in Workers : running[v] = d => v # w
                    BY <4>2
                <5> QED
                    BY <2>5, <5>2, <5>3 DEF Tables
            <4> QED
                BY <4>1, <4>2
        <3>2. \A d \in Conns : closed[d] =>
                 \/ sock[d] = "closed"
                 \/ \E v \in Workers :
                       running[v] = d /\ wpc'[v] \in {"del", "closefd"}
            BY <2>5 DEF Tables
        <3> QED
            BY <2>3, <2>5, <2>6, <2>7, <3>1, <3>2 DEF Tables
    <2>10. Places'
        BY <2>2, <2>3, <2>4, <2>5, <2>6, <2>7 DEF Places
    <2> QED
        BY <2>9, <2>10
<1>11. CASE CloseFd(w)
    <2>1. w \in Busy /\ wpc[w] = "closefd"
        BY <1>11 DEF CloseFd, Busy
    <2>2. /\ c \in Conns /\ fd[c] \in FDs /\ owner[fd[c]] = c /\ c # NoConn
          /\ c # cur /\ c \notin events /\ ~Queued(c)
          /\ \A v \in Busy : running[v] = c => v = w
        BY <2>1, HandlerFacts
    <2>3. /\ wpc' = [wpc EXCEPT ![w] = "release"]
          /\ interest' = [interest EXCEPT ![fd[c]] = NoConn]
          /\ owner' = [owner EXCEPT ![fd[c]] = NoConn]
          /\ armed' = armed \ {fd[c]}
          /\ sock' = [d \in Conns |-> IF d = c THEN "closed" ELSE sock[d]]
          /\ UNCHANGED <<fd, events, apc, cur, queue, running, closed>>
        BY <1>11, <2>2 DEF CloseFd, CloseDescriptor, Goto
    <2>4. /\ wpc \in [Workers -> {"idle", "check", "read", "message", "close",
                                  "del", "closefd", "readd", "mod", "release"}]
          /\ interest \in [FDs -> Conns \cup {NoConn}]
          /\ owner \in [FDs -> Conns \cup {NoConn}]
          /\ armed \subseteq FDs
          /\ running \in [Workers -> Conns \cup {NoConn}]
          /\ cur \in Conns \cup {NoConn}
        BY DEF Shape
    <2>5. /\ Busy' = Busy \ {w}
          /\ \A v \in Workers \ {w} : wpc'[v] = wpc[v]
        BY <2>1, <2>3, <2>4 DEF Busy
    <2>6. \A d : Queued(d)' <=> Queued(d)
        BY <2>3 DEF Queued
    <2>7. \A f \in FDs :
             /\ interest'[f] = IF f = fd[c] THEN NoConn ELSE interest[f]
             /\ owner'[f] = IF f = fd[c] THEN NoConn ELSE owner[f]
        BY <2>2, <2>3, <2>4
    <2>8. \A f \in FDs : f # fd[c] => owner[f] # c
        BY <2>2 DEF Tables
    <2>9. \A d \in Conns : d # c => sock'[d] = sock[d]
        BY <2>3
    <2>10. Tables'
        <3>1. \A f \in FDs : interest'[f] # NoConn => owner'[f] = interest'[f]
            BY <2>7 DEF Tables
        <3>2. \A f \in FDs : owner'[f] # NoConn =>
                 sock'[owner'[f]] = "open" /\ fd[owner'[f]] = f
            BY <2>4, <2>7, <2>8, <2>9 DEF Tables
        <3>3. \A d \in Conns : sock'[d] = "open" =>
                 /\ d # c /\ sock[d] = "open"
                 /\ fd[d] \in FDs /\ fd[d] # fd[c]
            BY <2>2, <2>3 DEF Tables
        <3>4. \A d \in Conns : sock'[d] = "open" =>
                 fd[d] \in FDs /\ owner'[fd[d]] = d
            BY <2>7, <3>3 DEF Tables
        <3>5. \A d \in Conns : sock'[d] = "open" =>
                 \/ interest'[fd[d]] = d
                 \/ apc = "register" /\ cur = d
                 \/ \E v \in Workers : running[v] = d /\ wpc'[v] = "closefd"
            <4> TAKE d \in Conns
            <4> HAVE sock'[d] = "open"
            <4>1. interest'[fd[d]] = interest[fd[d]]
                BY <2>7, <3>3
            <4>2. \A v \in Workers : running[v] = d => v # w
                BY <3>3
            <4> QED
                BY <2>5, <3>3, <4>1, <4>2 DEF Tables
        <3>6. \A d \in events \cap Conns : sock'[d] = "open"
            BY <2>2, <2>9 DEF Tables
        <3>7. cur # NoConn => sock'[cur] = "open"
            BY <2>2, <2>4, <2>9 DEF Tables
        <3>8. \A d \in Conns : Queued(d) => sock'[d] = "open"
            BY <2>2, <2>9 DEF Tables
        <3>9. \A v \in Busy' : sock'[running[v]] = "open"
            <4> TAKE v \in Busy'
            <4>1. v \in Busy /\ v # w
                BY <2>5
            <4>2. running[v] # c /\ running[v] \in Conns
                BY <2>2, <4>1, HandlerFacts
            <4> QED
                BY <2>9, <4>1, <4>2 DEF Tables
        <3>10. \A v \in Workers : running[v] # NoConn =>
                  sock'[running[v]] \in {"open", "closed"}
            BY <2>3, <2>4 DEF Tables
        <3>11. \A d \in Conns : closed[d] =>
                 \/ sock'[d] = "closed"
                 \/ \E v \in Workers :
                       running[v] = d /\ wpc'[v] \in {"del", "closefd"}
            BY <2>3, <2>5, <2>9 DEF Tables
        <3> QED
            BY <2>3, <2>6, <3>1, <3>2, <3>4, <3>5, <3>6, <3>7, <3>8, <3>9,
               <3>10, <3>11
            DEF Tables
    <2>11. Places'
        BY <2>2, <2>3, <2>4, <2>5, <2>6, <2>7 DEF Places
    <2> QED
        BY <2>10, <2>11
<1>12. CASE EpollMod(w)
    <2>1. w \in Busy /\ wpc[w] = "mod"
        BY <1>12 DEF EpollMod, Busy
    <2>2. /\ c \in Conns /\ fd[c] \in FDs /\ owner[fd[c]] = c /\ c # NoConn
          /\ interest[fd[c]] = c
          /\ c # cur /\ c \notin events /\ ~Queued(c)
          /\ \A v \in Busy : running[v] = c => v = w
        BY <2>1, HandlerFacts
    <2>3. /\ wpc' = [wpc EXCEPT ![w] = "release"]
          /\ interest' = [interest EXCEPT ![fd[c]] = c]
          /\ armed' = armed \cup {fd[c]}
          /\ UNCHANGED <<sock, owner, fd, events, apc, cur, queue, running,
                         closed>>
        BY <1>12, <2>2 DEF EpollMod, Arm, Goto
    <2>4. /\ wpc \in [Workers -> {"idle", "check", "read", "message", "close",
                                  "del", "closefd", "readd", "mod", "release"}]
          /\ interest \in [FDs -> Conns \cup {NoConn}]
        BY DEF Shape
    <2>5. /\ Busy' = Busy \ {w}
          /\ \A v \in Workers : wpc'[v] \in {"del", "closefd"} <=>
                                wpc[v] \in {"del", "closefd"}
          /\ \A v \in Workers : wpc'[v] = "closefd" <=> wpc[v] = "closefd"
          /\ interest' = interest
        BY <2>1, <2>2, <2>3, <2>4 DEF Busy
    <2>6. \A d : Queued(d)' <=> Queued(d)
        BY <2>3 DEF Queued
    <2>7. Tables'
        BY <2>3, <2>5, <2>6 DEF Tables
    <2>8. Places'
        BY <2>2, <2>3, <2>5, <2>6 DEF Places
    <2> QED
        BY <2>7, <2>8
<1> QED
    BY <1>2, <1>3, <1>4, <1>5, <1>6, <1>7, <1>8, <1>9, <1>10, <1>11, <1>12,
       EndStep
    DEF HandleClientClient

\* The client, and a step of the accept thread that only drops an event, move
\* no connection.
LEMMA ClientStep ==
    ASSUME Shape, Tables, Places,
           (\E c \in Conns : Client(c)) \/ AcceptFails \/ UNCHANGED vars
    PROVE  Tables' /\ Places'
<1> USE DEF clientVars, socketVars, kernelVars, loopVars, poolVars,
            contextVars, historyVars, vars
<1>1. /\ UNCHANGED <<owner, interest, armed, fd, apc, cur, queue, running,
                     closed, wpc>>
      /\ events' \subseteq events
      /\ \A d \in Conns : sock[d] \in {"open", "closed"} => sock'[d] = sock[d]
      /\ \A d \in Conns : sock'[d] = "open" => sock[d] = "open"
    BY DEF Client, Connect, Send, Shutdown, Reset, AcceptFails, Shape
<1>2. \A d : Queued(d)' <=> Queued(d)
    BY <1>1 DEF Queued
<1>3. Busy' = Busy
    BY <1>1 DEF Busy
<1>4. /\ \A f \in FDs : owner[f] \in Conns \cup {NoConn}
      /\ \A v \in Workers : running[v] \in Conns \cup {NoConn}
      /\ \A v \in Busy : running[v] \in Conns
      /\ cur \in Conns \cup {NoConn}
    BY DEF Shape, Busy
<1>5. Tables'
    BY <1>1, <1>2, <1>3, <1>4 DEF Tables
<1>6. Places'
    BY <1>1, <1>2, <1>3 DEF Places
<1> QED
    BY <1>5, <1>6

LEMMA PollStep ==
    ASSUME Shape, Tables, Places,
           EpollWait \/ \E f \in FDs : SpuriousEvent(f)
    PROVE  Tables' /\ Places'
<1>1. /\ cur = NoConn
      /\ UNCHANGED <<sock, owner, interest, fd, apc, cur, queue, running,
                     closed, wpc>>
    BY DEF EpollWait, SpuriousEvent, Shape, socketVars, poolVars, contextVars
<1>2. \A f, g \in armed : interest[f] = interest[g] => f = g
    BY DEF Shape, Tables
<1>3. /\ \A c \in events' \cap Conns : \E f \in armed : interest[f] = c
      /\ armed' \subseteq armed
      /\ \A f \in armed' : interest[f] \notin events'
    <2>1. CASE EpollWait
        BY <2>1, SentinelAssumption DEF EpollWait, Ready
    <2>2. CASE \E f \in FDs : SpuriousEvent(f)
        BY <1>2, <2>2 DEF SpuriousEvent
    <2> QED
        BY <2>1, <2>2
<1>4. \A f \in armed : f \in FDs /\ interest[f] # NoConn
    BY DEF Shape
<1>5. \A d : Queued(d)' <=> Queued(d)
    BY <1>1 DEF Queued
<1>6. Busy' = Busy
    BY <1>1 DEF Busy
<1>7. \A c \in events' \cap Conns : sock[c] = "open"
    BY <1>3, <1>4 DEF Tables
<1>8. Tables'
    BY <1>1, <1>5, <1>6, <1>7 DEF Tables
<1>9. \A c \in events' \cap Conns : /\ c # cur
                                    /\ ~Queued(c)
                                    /\ \A w \in Busy : running[w] # c
    BY <1>3 DEF Places
<1>10. Places'
    BY <1>1, <1>3, <1>5, <1>6, <1>9 DEF Places
<1> QED
    BY <1>8, <1>10

LEMMA AcceptStep ==
    ASSUME Shape, Tables, Places, AcceptConn
    PROVE  Tables' /\ Places'
<1>1. PICK c \in Conns, f \in FDs :
         /\ sock[c] = "backlog" /\ owner[f] = NoConn
         /\ sock' = [sock EXCEPT ![c] = "open"]
         /\ owner' = [owner EXCEPT ![f] = c]
         /\ fd' = [fd EXCEPT ![c] = f]
         /\ cur' = c
    BY DEF AcceptConn, Backlog, FreeFDs
<1>2. /\ cur = NoConn /\ c # NoConn
      /\ apc' = "register"
      /\ events' \subseteq events
      /\ UNCHANGED <<interest, armed, queue, running, wpc, closed>>
    BY SentinelAssumption DEF AcceptConn, Shape, poolVars
<1>3. /\ \A d \in Conns : sock'[d] = IF d = c THEN "open" ELSE sock[d]
      /\ \A d \in Conns : fd'[d] = IF d = c THEN f ELSE fd[d]
      /\ \A g \in FDs : owner'[g] = IF g = f THEN c ELSE owner[g]
    BY <1>1 DEF Shape
<1>4. /\ \A g \in FDs : owner[g] # c /\ interest[g] # c
      /\ interest[f] = NoConn
      /\ c \notin events
      /\ ~Queued(c)
      /\ \A v \in Workers : running[v] # c
      /\ ~closed[c]
    <2>1. \A v \in Workers : running[v] # c
        BY <1>1, <1>2 DEF Tables
    <2>2. /\ \A g \in FDs : owner[g] # c /\ interest[g] # c
          /\ interest[f] = NoConn
        BY <1>1, <1>2 DEF Tables
    <2> QED
        BY <1>1, <2>1, <2>2 DEF Tables
<1>5. \A d : Queued(d)' <=> Queued(d)
    BY <1>2 DEF Queued
<1>6. Busy' = Busy /\ Busy \subseteq Workers
    BY <1>2 DEF Busy
<1>7. \A v \in Workers : running[v] \in Conns \cup {NoConn}
    BY DEF Shape
<1>8. Tables'
    <2>1. \A g \in FDs : interest'[g] # NoConn => owner'[g] = interest'[g]
        BY <1>2, <1>3, <1>4 DEF Tables
    <2>2. \A g \in FDs : owner'[g] # NoConn =>
             sock'[owner'[g]] = "open" /\ fd'[owner'[g]] = g
        <3> TAKE g \in FDs
        <3>1. owner[g] \in Conns \cup {NoConn} /\ owner[g] # c
            BY <1>4 DEF Shape
        <3>2. owner[g] # NoConn => sock[owner[g]] = "open" /\ fd[owner[g]] = g
            BY DEF Tables
        <3>3. CASE g = f
            BY <1>3, <3>3
        <3>4. CASE g # f
            BY <1>3, <3>1, <3>2, <3>4
        <3> QED
            BY <3>3, <3>4
    <2>3. \A d \in Conns : sock'[d] = "open" => fd'[d] \in FDs /\ owner'[fd'[d]] = d
        <3> TAKE d \in Conns
        <3> HAVE sock'[d] = "open"
        <3>1. CASE d = c
            BY <1>3, <3>1
        <3>2. CASE d # c
            <4>1. fd[d] \in FDs /\ owner[fd[d]] = d /\ d # NoConn
                BY <1>3, <3>2, SentinelAssumption DEF Tables
            <4>2. fd[d] # f
                BY <1>1, <4>1
            <4> QED
                BY <1>3, <3>2, <4>1, <4>2
        <3> QED
            BY <3>1, <3>2
    <2>4. \A d \in Conns : sock'[d] = "open" =>
             \/ interest'[fd'[d]] = d
             \/ apc' = "register" /\ cur' = d
             \/ \E v \in Workers : running'[v] = d /\ wpc'[v] = "closefd"
        BY <1>1, <1>2, <1>3 DEF Tables
    <2>5. /\ \A d \in events' \cap Conns : sock'[d] = "open"
          /\ cur' # NoConn => sock'[cur'] = "open"
          /\ \A d \in Conns : Queued(d) => sock'[d] = "open"
        BY <1>1, <1>2, <1>3, <1>4 DEF Tables
    <2>6. /\ \A v \in Busy : sock'[running[v]] = "open"
          /\ \A v \in Workers : running[v] # NoConn =>
                sock'[running[v]] \in {"open", "closed"}
        <3>1. \A v \in Busy : running[v] \in Conns
            BY DEF Shape, Busy
        <3> QED
            BY <1>3, <1>4, <1>6, <1>7, <3>1 DEF Tables
    <2>7. \A d \in Conns : closed[d] =>
             \/ sock'[d] = "closed"
             \/ \E v \in Workers : running[v] = d /\ wpc[v] \in {"del", "closefd"}
        BY <1>3, <1>4 DEF Tables
    <2> QED
        BY <1>2, <1>5, <1>6, <2>1, <2>2, <2>3, <2>4, <2>5, <2>6, <2>7 DEF Tables
<1>9. Places'
    BY <1>1, <1>2, <1>4, <1>5, <1>6 DEF Places, Shape
<1> QED
    BY <1>8, <1>9

LEMMA RegisterStep ==
    ASSUME Shape, Tables, Places, Register
    PROVE  Tables' /\ Places'
<1>1. /\ apc = "register"
      /\ cur \in Conns /\ cur # NoConn
      /\ sock[cur] = "open" /\ fd[cur] \in FDs /\ owner[fd[cur]] = cur
    BY DEF Register, Shape, Tables
<1>2. /\ interest' = [interest EXCEPT ![fd[cur]] = cur]
      /\ armed' = armed \cup {fd[cur]}
      /\ apc' = "loop" /\ cur' = NoConn
      /\ UNCHANGED <<sock, owner, fd, events, queue, running, wpc, closed>>
    BY DEF Register, Arm, socketVars, poolVars, contextVars
<1>3. \A f \in FDs : interest'[f] = IF f = fd[cur] THEN cur ELSE interest[f]
    BY <1>1, <1>2 DEF Shape
<1>4. \A d : Queued(d)' <=> Queued(d)
    BY <1>2 DEF Queued
<1>5. Busy' = Busy
    BY <1>2 DEF Busy
<1>6. \A d \in Conns : sock[d] = "open" /\ d # cur => fd[d] # fd[cur]
    BY <1>1 DEF Tables
<1>7. Tables'
    <2>1. \A d \in Conns : sock[d] = "open" =>
             \/ interest'[fd[d]] = d
             \/ \E v \in Workers : running[v] = d /\ wpc[v] = "closefd"
        BY <1>1, <1>3, <1>6 DEF Tables
    <2> QED
        BY <1>1, <1>2, <1>3, <1>4, <1>5, <2>1 DEF Tables
<1>8. Places'
    <2>1. armed \subseteq FDs
        BY DEF Shape
    <2>2. \A f \in armed' : /\ interest'[f] \notin events
                            /\ interest'[f] # NoConn
                            /\ ~Queued(interest'[f])
                            /\ \A w \in Busy : running[w] # interest'[f]
        <3> TAKE f \in armed'
        <3>1. CASE f = fd[cur]
            BY <1>1, <1>3, <3>1 DEF Places
        <3>2. CASE f # fd[cur]
            BY <1>2, <1>3, <2>1, <3>2 DEF Places, Shape
        <3> QED
            BY <3>1, <3>2
    <2>3. \A c \in events \cap Conns : c # NoConn
        BY SentinelAssumption
    <2> QED
        BY <1>2, <1>4, <1>5, <2>2, <2>3 DEF Places
<1> QED
    BY <1>7, <1>8

LEMMA RegisterFailsStep ==
    ASSUME Shape, Tables, Places, RegisterFails
    PROVE  Tables' /\ Places'
<1> DEFINE f == fd[cur]
<1>1. /\ apc = "register"
      /\ cur \in Conns /\ cur # NoConn
      /\ sock[cur] = "open" /\ f \in FDs /\ owner[f] = cur
      /\ cur \notin events /\ ~Queued(cur)
      /\ \A v \in Workers : running[v] # cur
    BY DEF RegisterFails, Shape, Tables, Places
<1>2. /\ interest' = [interest EXCEPT ![f] = NoConn]
      /\ owner' = [owner EXCEPT ![f] = NoConn]
      /\ armed' = armed \ {f}
      /\ sock' = [d \in Conns |-> IF d = cur THEN "closed" ELSE sock[d]]
      /\ apc' = "loop" /\ cur' = NoConn
      /\ UNCHANGED <<fd, events, queue, running, wpc, closed>>
    BY <1>1 DEF RegisterFails, CloseDescriptor, poolVars, contextVars
<1>3. /\ \A g \in FDs :
            /\ interest'[g] = IF g = f THEN NoConn ELSE interest[g]
            /\ owner'[g] = IF g = f THEN NoConn ELSE owner[g]
      /\ \A d \in Conns : sock'[d] = IF d = cur THEN "closed" ELSE sock[d]
    BY <1>1, <1>2 DEF Shape
<1>4. /\ \A g \in FDs : owner[g] \in Conns \cup {NoConn}
      /\ \A g \in FDs : g # f => owner[g] # cur
      /\ \A v \in Workers : running[v] \in Conns \cup {NoConn}
      /\ \A v \in Busy : v \in Workers /\ running[v] \in Conns
      /\ armed \subseteq FDs
    BY <1>1 DEF Shape, Tables, Busy
<1> HIDE DEF f
<1>5. \A d : Queued(d)' <=> Queued(d)
    BY <1>2 DEF Queued
<1>6. Busy' = Busy
    BY <1>2 DEF Busy
<1>7. Tables'
    <2>1. \A g \in FDs : interest'[g] # NoConn => owner'[g] = interest'[g]
        BY <1>3 DEF Tables
    <2>2. \A g \in FDs : owner'[g] # NoConn =>
             sock'[owner'[g]] = "open" /\ fd[owner'[g]] = g
        BY <1>3, <1>4 DEF Tables
    <2>3. \A d \in Conns : sock'[d] = "open" =>
             /\ sock[d] = "open" /\ d # cur
             /\ fd[d] \in FDs /\ fd[d] # f /\ owner[fd[d]] = d
        BY <1>1, <1>3 DEF Tables
    <2>4. \A d \in Conns : sock'[d] = "open" =>
             /\ owner'[fd[d]] = d
             /\ \/ interest'[fd[d]] = d
                \/ \E v \in Workers : running[v] = d /\ wpc[v] = "closefd"
        BY <1>3, <2>3 DEF Tables
    <2>5. \A d \in events \cap Conns : sock'[d] = "open"
        BY <1>1, <1>3 DEF Tables
    <2>6. \A d \in Conns : Queued(d) => sock'[d] = "open"
        BY <1>1, <1>3 DEF Tables
    <2>7. /\ \A v \in Busy : sock'[running[v]] = "open"
          /\ \A v \in Workers : running[v] # NoConn =>
                sock'[running[v]] \in {"open", "closed"}
        BY <1>1, <1>3, <1>4 DEF Tables
    <2>8. \A d \in Conns : closed[d] =>
             \/ sock'[d] = "closed"
             \/ \E v \in Workers : running[v] = d /\ wpc[v] \in {"del", "closefd"}
        BY <1>3 DEF Tables
    <2> QED
        BY <1>2, <1>5, <1>6, <2>1, <2>2, <2>3, <2>4, <2>5, <2>6, <2>7, <2>8
        DEF Tables
<1>8. Places'
    <2>1. \A g \in armed' : g \in armed /\ interest'[g] = interest[g]
        BY <1>2, <1>3, <1>4
    <2>2. /\ \A g \in armed : interest[g] # NoConn
          /\ \A c \in events \cap Conns : c # NoConn
        BY SentinelAssumption DEF Shape
    <2> QED
        BY <1>2, <1>5, <1>6, <2>1, <2>2 DEF Places
<1> QED
    BY <1>7, <1>8

LEMMA AddRefStep ==
    ASSUME Shape, Tables, Places, NEW c \in Conns, AddRef(c)
    PROVE  Tables' /\ Places'
<1>1. /\ cur = NoConn /\ c # NoConn /\ c \in events
      /\ events' = events \ {c}
      /\ apc' = "submit" /\ cur' = c
      /\ UNCHANGED <<sock, owner, interest, armed, fd, queue, running, wpc,
                     closed>>
    BY SentinelAssumption
    DEF AddRef, Shape, socketVars, kernelVars, poolVars
<1>2. \A d : Queued(d)' <=> Queued(d)
    BY <1>1 DEF Queued
<1>3. Busy' = Busy
    BY <1>1 DEF Busy
<1>4. apc = "loop"
    BY DEF AddRef
<1>5. Tables'
    BY <1>1, <1>2, <1>3, <1>4 DEF Tables
<1>6. Places'
    BY <1>1, <1>2, <1>3 DEF Places
<1> QED
    BY <1>5, <1>6

LEMMA EmplaceStep ==
    ASSUME Shape, Tables, Places, Emplace
    PROVE  Tables' /\ Places'
<1>1. /\ apc = "submit"
      /\ cur \in Conns /\ cur # NoConn
      /\ queue \in Seq(Conns)
      /\ queue' = Append(queue, cur)
      /\ apc' = "loop" /\ cur' = NoConn
      /\ UNCHANGED <<sock, owner, interest, armed, fd, events, running, wpc,
                     closed>>
    BY DEF Emplace, Shape, Pool!Submit, socketVars, kernelVars, contextVars
<1>2. /\ Len(queue) \in Nat
      /\ Len(queue') = Len(queue) + 1
      /\ \A i \in 1..Len(queue) : queue'[i] = queue[i]
      /\ queue'[Len(queue) + 1] = cur
      /\ \A d : Queued(d)' <=> Queued(d) \/ d = cur
    BY <1>1, QueueAfterSubmit
<1>3. Busy' = Busy
    BY <1>1 DEF Busy
<1>4. Tables'
    BY <1>1, <1>2, <1>3 DEF Tables
<1>5. \A i, k \in 1..Len(queue') : queue'[i] = queue'[k] => i = k
    <2>1. \A i \in 1..Len(queue') : i \in 1..Len(queue) \/ i = Len(queue) + 1
        BY <1>2
    <2>2. \A i \in 1..Len(queue) : queue[i] # cur
        BY <1>1 DEF Places, Queued
    <2> QED
        BY <1>2, <2>1, <2>2 DEF Places
<1>6. /\ \A f \in armed : interest[f] # NoConn
      /\ \A c \in events \cap Conns : c # NoConn
    BY SentinelAssumption DEF Shape
<1>7. Places'
    BY <1>1, <1>2, <1>3, <1>5, <1>6 DEF Places
<1> QED
    BY <1>4, <1>7

LEMMA TakeTaskStep ==
    ASSUME Shape, Tables, Places, NEW w \in Workers, TakeTask(w)
    PROVE  Tables' /\ Places'
<1> DEFINE h == Head(queue)
<1>1. /\ running[w] = NoConn /\ wpc[w] = "idle"
      /\ queue \in Seq(Conns) /\ queue # <<>>
      /\ queue' = Tail(queue)
      /\ running' = [running EXCEPT ![w] = h]
      /\ wpc' = [wpc EXCEPT ![w] = "check"]
      /\ UNCHANGED <<sock, owner, interest, armed, fd, events, apc, cur,
                     closed>>
    BY DEF TakeTask, Goto, Shape, Pool!Take, socketVars, kernelVars, loopVars,
           contextVars
<1>2. /\ Len(queue) \in Nat \ {0}
      /\ Len(queue') = Len(queue) - 1
      /\ h \in Conns
      /\ h = queue[1]
      /\ \A i \in 1..Len(queue') : queue'[i] = queue[i + 1]
      /\ \A d : Queued(d) <=> Queued(d)' \/ d = h
    BY <1>1, QueueAfterTake
<1> HIDE DEF h
<1>3. /\ Busy' = Busy \cup {w} /\ w \notin Busy
      /\ \A v \in Workers \ {w} : running'[v] = running[v] /\ wpc'[v] = wpc[v]
      /\ running'[w] = h /\ wpc'[w] = "check"
    BY <1>1 DEF Busy, Shape
<1>4. /\ \A i \in 1..Len(queue') : i + 1 \in 1..Len(queue)
      /\ 1 \in 1..Len(queue)
      /\ \A i \in 1..Len(queue') : i + 1 # 1
    BY <1>2
<1>5. \A i \in 1..Len(queue') : queue'[i] # h
    BY <1>2, <1>4 DEF Places
<1>6. \A i, k \in 1..Len(queue') : queue'[i] = queue'[k] => i = k
    <2>1. \A i, k \in 1..Len(queue') : i + 1 = k + 1 => i = k
        BY <1>2
    <2> QED
        BY <1>2, <1>4, <2>1 DEF Places
<1>7. /\ Queued(h)
      /\ sock[h] = "open"
    BY <1>2 DEF Tables
<1>8. Tables'
    <2>1. \A d \in Conns : sock[d] = "open" =>
             \/ interest[fd[d]] = d
             \/ apc = "register" /\ cur = d
             \/ \E v \in Workers : running'[v] = d /\ wpc'[v] = "closefd"
        BY <1>1, <1>3 DEF Tables
    <2>2. \A d \in Conns : closed[d] =>
             \/ sock[d] = "closed"
             \/ \E v \in Workers :
                   running'[v] = d /\ wpc'[v] \in {"del", "closefd"}
        BY <1>1, <1>3 DEF Tables
    <2>3. /\ \A v \in Busy' : sock[running'[v]] = "open"
          /\ \A v \in Workers : running'[v] # NoConn =>
                sock[running'[v]] \in {"open", "closed"}
        BY <1>3, <1>7 DEF Tables, Busy
    <2> QED
        BY <1>1, <1>2, <2>1, <2>2, <2>3 DEF Tables
<1>9. Places'
    <2>1. Busy \subseteq Workers \ {w}
        BY <1>3 DEF Busy
    <2>2. \A v \in Busy' : v = w \/ (v \in Busy /\ running'[v] = running[v])
        BY <1>3, <2>1
    <2>3. \A v \in Busy : running[v] # h
        BY <1>7 DEF Places
    <2>4. \A d : Queued(d)' => Queued(d)
        BY <1>2
    <2>5. \A f \in armed : interest[f] # h
        BY <1>7 DEF Places
    <2>6. \A c \in events \cap Conns : c # h
        BY <1>7 DEF Places
    <2>7. cur # NoConn => cur # h
        BY <1>7 DEF Places
    <2>8. apc = "register" => \A v \in Workers : running'[v] # cur
        BY <1>3, <2>7 DEF Places, Shape
    <2>9. \A v \in Busy' : \A i \in 1..Len(queue') : queue'[i] # running'[v]
        <3> SUFFICES ASSUME NEW v \in Busy', NEW i \in 1..Len(queue')
                     PROVE  queue'[i] # running'[v]
            OBVIOUS
        <3>1. CASE v = w
            BY <3>1, <1>3, <1>5
        <3>2. CASE v # w
            BY <3>2, <2>2, <1>2, <1>4 DEF Places, Queued
        <3> QED
            BY <3>1, <3>2
    <2>10. \A v1, v2 \in Busy' : running'[v1] = running'[v2] => v1 = v2
        BY <1>3, <2>2, <2>3 DEF Places
    <2>11. /\ \A f \in armed : \A i \in 1..Len(queue') : queue'[i] # interest[f]
           /\ \A c \in events \cap Conns : \A i \in 1..Len(queue') : queue'[i] # c
           /\ cur # NoConn => \A i \in 1..Len(queue') : queue'[i] # cur
        BY <1>2, <1>4 DEF Places, Queued
    <2>12. /\ \A f \in armed : \A v \in Busy' : running'[v] # interest[f]
           /\ \A c \in events \cap Conns : \A v \in Busy' : running'[v] # c
           /\ cur # NoConn => \A v \in Busy' : running'[v] # cur
        BY <1>3, <2>2, <2>5, <2>6, <2>7 DEF Places
    <2> QED
        BY <1>1, <1>6, <2>8, <2>9, <2>10, <2>11, <2>12 DEF Places, Queued
<1> QED
    BY <1>8, <1>9

LEMMA TablesPlacesStep ==
    Shape /\ Tables /\ Places /\ [Next]_vars => Tables' /\ Places'
BY ClientStep, PollStep, AcceptStep, RegisterStep, RegisterFailsStep,
   AddRefStep, EmplaceStep, TakeTaskStep, HandlerStep
DEF Next, AcceptLoop, Quiescent

LEMMA TablesPlacesInit == Init => Tables /\ Places
<1> SUFFICES ASSUME Init PROVE Tables /\ Places
    OBVIOUS
<1>1. Len(queue) = 0
    BY EmptySeq DEF Init, Pool!Init
<1>2. \A d : ~Queued(d)
    BY <1>1 DEF Queued
<1>3. Busy = {} /\ events = {} /\ armed = {} /\ cur = NoConn
    BY DEF Init, Busy
<1>4. Tables
    BY <1>2, <1>3 DEF Init, Tables, Pool!Init
<1>5. Places
    BY <1>1, <1>2, <1>3 DEF Init, Places
<1> QED
    BY <1>4, <1>5

(***************************************************************************)
(* Theorems                                                                *)
(***************************************************************************)

LEMMA Invariance == Spec => [](Shape /\ Tables /\ Places)
<1>1. Init => Shape /\ Tables /\ Places
    BY ShapeInit, TablesPlacesInit
<1>2. Shape /\ Tables /\ Places /\ [Next]_vars => (Shape /\ Tables /\ Places)'
    BY ShapeStep, TablesPlacesStep
<1> QED
    BY <1>1, <1>2, PTL DEF Spec

\* A descriptor that a handler uses, or that epoll reports, is its own
\* connection's, for any number of connections, workers and descriptors.
THEOREM OwnDescriptorAlways == Spec => []OwnDescriptor
<1>1. Shape /\ Tables => OwnDescriptor
    <2> SUFFICES ASSUME Shape, Tables PROVE OwnDescriptor
        OBVIOUS
    <2>1. \A w \in Busy : running[w] \in Conns
        BY DEF Shape, Busy
    <2>2. \A w \in Busy : Socket(running[w]) = running[w]
        BY <2>1 DEF Tables, Socket
    <2>3. \A w \in Workers :
             wpc[w] \in {"check", "read", "message", "close", "del", "closefd",
                         "readd", "mod"} => w \in Busy
        BY DEF Busy
    <2> QED
        BY <2>2, <2>3 DEF Tables, OwnDescriptor
<1> QED
    BY <1>1, Invariance, PTL

\* A connection is never in two of the places from which it can be handled, so
\* no two handlers share its buffer, for any number of connections and workers.
THEOREM HandledOnceAlways == Spec => []HandledOnce
<1>1. Shape /\ Tables /\ Places => HandledOnce
    <2> SUFFICES ASSUME Shape, Tables, Places, NEW c \in Conns
                 PROVE  Cardinality(Whereabouts(c)) <= 1
        BY DEF HandledOnce
    <2>1. c # NoConn
        BY SentinelAssumption
    <2>2. \A w \in Workers : running[w] = c /\ wpc[w] # "release" => w \in Busy
        BY <2>1 DEF Shape, Busy
    <2>3. DOMAIN queue = 1..Len(queue)
        BY LenProperties DEF Shape
    <2>4. \A f, g \in armed : interest[f] = c /\ interest[g] = c => f = g
        BY <2>1 DEF Shape, Tables
    <2>5. \A f \in armed : interest[f] = c =>
             /\ c \notin events /\ c # cur
             /\ \A i \in DOMAIN queue : queue[i] # c
             /\ \A w \in Busy : running[w] # c
        BY <2>3 DEF Places, Queued
    <2>6. c \in events => /\ c # cur
                          /\ \A i \in DOMAIN queue : queue[i] # c
                          /\ \A w \in Busy : running[w] # c
        BY <2>3 DEF Places, Queued
    <2>7. c = cur => /\ \A i \in DOMAIN queue : queue[i] # c
                     /\ \A w \in Busy : running[w] # c
        BY <2>1, <2>3 DEF Places, Queued
    <2>8. /\ \A i, k \in DOMAIN queue : queue[i] = c /\ queue[k] = c => i = k
          /\ \A i \in DOMAIN queue : \A w \in Busy :
                ~ (queue[i] = c /\ running[w] = c)
          /\ \A v, w \in Busy : running[v] = c /\ running[w] = c => v = w
        BY <2>3 DEF Places, Queued
    <2> DEFINE In(x) == \/ \E f \in armed : interest[f] = c /\ x = <<"armed", f>>
                        \/ c \in events /\ x = <<"event", c>>
                        \/ c = cur /\ x = <<"loop", c>>
                        \/ \E i \in DOMAIN queue :
                              queue[i] = c /\ x = <<"queued", i>>
                        \/ \E w \in Busy : running[w] = c /\ x = <<"worker", w>>
    <2>9. \A x \in Whereabouts(c) : In(x)
        BY <2>2 DEF Whereabouts
    <2>10. \A x, y : In(x) /\ In(y) => x = y
        BY <2>4, <2>5, <2>6, <2>7, <2>8
    <2>11. \A x, y \in Whereabouts(c) : x = y
        BY <2>9, <2>10
    <2>12. CASE Whereabouts(c) = {}
        BY <2>12, FS_EmptySet
    <2>13. CASE Whereabouts(c) # {}
        <3>1. PICK x : x \in Whereabouts(c)
            BY <2>13
        <3>2. Whereabouts(c) = {x}
            BY <2>11, <3>1
        <3>3. Cardinality({x}) = 1
            BY FS_Singleton
        <3> QED
            BY <3>2, <3>3
    <2> QED
        BY <2>12, <2>13
<1> QED
    BY <1>1, Invariance, PTL

(***************************************************************************)
(* The life of a ConnectionContext: where its connection is, what its      *)
(* reference count counts, and that nobody holds a pointer to it once it   *)
(* is deleted.  The rest of the inductive invariant.                       *)
(***************************************************************************)

\* c can still be handled from somewhere.
At(c) ==
    \/ \E f \in armed : interest[f] = c
    \/ c \in events
    \/ c = cur
    \/ Queued(c)
    \/ \E w \in Busy : running[w] = c

\* An open connection is somewhere unless an exception has lost it, and nothing
\* else is anywhere.
Located ==
    \A c \in Conns : At(c) <=> sock[c] = "open" /\ c \notin abandoned

\* The context exists as long as somebody may use it.
Alive ==
    /\ \A c \in Conns : sock[c] = "open" => ctx[c] = "live"
    /\ \A c \in Conns : sock[c] \in {"none", "backlog"} => ctx[c] = "none"
    /\ \A w \in Workers : running[w] # NoConn => ctx[running[w]] = "live"
    /\ \A c \in abandoned : sock[c] \in {"open", "closed"}

Handlers(c) == {w \in Workers : running[w] = c}
One(condition) == IF condition THEN 1 ELSE 0

\* What the count of a live context counts.
Count(c) ==
    1 + One(apc = "submit" /\ cur = c) + One(Queued(c)) + Cardinality(Handlers(c))
      + One(c \in abandoned)

Counts ==
    \A c \in Conns : /\ ctx[c] = "live" => ref_count[c] = Count(c)
                     /\ ctx[c] = "none" => ref_count[c] = 0
                     /\ ctx[c] = "freed" => ref_count[c] = 1

(***************************************************************************)
(* Located                                                                 *)
(***************************************************************************)

LEMMA SamePlaces ==
    ASSUME UNCHANGED <<armed, interest, events, cur, queue, running>>,
           Busy' = Busy
    PROVE  \A d : At(d)' <=> At(d)
BY DEF At, Queued

\* A step that changes neither the places nor what is open or lost.
LEMMA LocatedSame ==
    ASSUME Located, UNCHANGED abandoned,
           \A d \in Conns : At(d)' <=> At(d),
           \A d \in Conns : sock'[d] = "open" <=> sock[d] = "open"
    PROVE  Located'
BY DEF Located

\* A step that loses, or closes, c.
LEMMA LocatedLess ==
    ASSUME Located, NEW c \in Conns,
           \A d \in Conns : At(d)' <=> At(d) /\ d # c,
           \A d \in Conns \ {c} : sock'[d] = "open" <=> sock[d] = "open",
           \A d \in Conns \ {c} : d \in abandoned' <=> d \in abandoned,
           sock'[c] # "open" \/ c \in abandoned'
    PROVE  Located'
BY DEF Located

\* The connection of a busy worker is nowhere else.
LEMMA OnlyHere ==
    ASSUME Shape, Tables, Places, NEW w \in Busy
    PROVE  LET c == running[w]
           IN  /\ c \notin events /\ c # cur /\ ~Queued(c)
               /\ \A f \in armed : interest[f] # c
               /\ \A v \in Busy \ {w} : running[v] # c
<1>1. running[w] # cur /\ running[w] \notin events /\ ~Queued(running[w])
    BY HandlerFacts
<1> QED
    BY <1>1 DEF Places

LEMMA BusyStays ==
    ASSUME Shape, NEW w \in Busy, NEW step, Goto(w, step),
           step \notin {"idle", "release"}
    PROVE  Busy' = Busy
<1>1. w \in Workers /\ wpc' = [wpc EXCEPT ![w] = step]
    BY DEF Busy, Goto
<1>2. \A v \in Workers : wpc'[v] = IF v = w THEN step ELSE wpc[v]
    BY <1>1 DEF Shape
<1> QED
    BY <1>2 DEF Busy

LEMMA BusyEnds ==
    ASSUME Shape, NEW w \in Workers, NEW step \in {"idle", "release"},
           Goto(w, step)
    PROVE  Busy' = Busy \ {w}
<1>1. wpc' = [wpc EXCEPT ![w] = step]
    BY DEF Goto
<1>2. \A v \in Workers : wpc'[v] = IF v = w THEN step ELSE wpc[v]
    BY <1>1 DEF Shape
<1> QED
    BY <1>2 DEF Busy

LEMMA LocatedHandler ==
    ASSUME Shape, Tables, Places, Located,
           NEW w \in Workers, HandleClientClient(w)
    PROVE  Located'
<1> DEFINE c == running[w]
<1>1. \/ w \in Busy
      \/ w \notin Busy /\ wpc[w] = "release"
    BY DEF HandleClientClient, CheckClosed, ReadData, ReadEnds, ReadBlocks,
           Message, BrokenPipe, MessageThrows, SetClosed, EpollDel, CloseFd,
           Recheck, EpollMod, Release, Busy
<1> USE DEF clientVars, socketVars, kernelVars, loopVars, poolVars,
            contextVars, historyVars
\* The steps after which the worker goes on with the connection.
<1>2. ASSUME NEW step \in {"read", "message", "close", "readd", "del", "mod"},
             w \in Busy, Goto(w, step),
             UNCHANGED <<sock, armed, interest, events, cur, queue, running,
                         abandoned>>
      PROVE  Located'
    <2>1. Busy' = Busy
        BY <1>2, BusyStays
    <2>2. \A d : At(d)' <=> At(d)
        BY <1>2, <2>1, SamePlaces
    <2> QED
        BY <1>2, <2>2, LocatedSame
<1>3. CASE CheckClosed(w)
    <2>1. w \in Busy /\ wpc[w] = "check"
        BY <1>3 DEF CheckClosed, Busy
    <2>2. ~closed[c]
        BY <2>1, HandlerFacts
    <2>3. /\ Goto(w, "read")
          /\ UNCHANGED <<sock, armed, interest, events, cur, queue, running,
                         abandoned>>
        BY <1>3, <2>2 DEF CheckClosed
    <2> QED
        BY <1>2, <2>1, <2>3
<1>4. CASE ReadData(w)
    <2>1. PICK step \in {"message", "close", "readd"} : Goto(w, step)
        BY <1>4 DEF ReadData, AfterParse
    <2>2. /\ w \in Busy
          /\ UNCHANGED <<sock, armed, interest, events, cur, queue, running,
                         abandoned>>
        BY <1>4 DEF ReadData, Busy
    <2> QED
        BY <1>2, <2>1, <2>2
<1>5. CASE ReadEnds(w)
    <2>1. w \in Busy /\ wpc[w] = "read"
        BY <1>5 DEF ReadEnds, Busy
    <2>2. Socket(c) # NoConn
        BY <2>1, HandlerFacts
    <2>3. /\ Goto(w, "close")
          /\ UNCHANGED <<sock, armed, interest, events, cur, queue, running,
                         abandoned>>
        BY <1>5, <2>2 DEF ReadEnds
    <2> QED
        BY <1>2, <2>1, <2>3
<1>6. CASE ReadBlocks(w)
    <2>1. /\ w \in Busy
          /\ Goto(w, "readd")
          /\ UNCHANGED <<sock, armed, interest, events, cur, queue, running,
                         abandoned>>
        BY <1>6 DEF ReadBlocks, Busy
    <2> QED
        BY <1>2, <2>1
<1>7. CASE Message(w)
    <2>1. /\ w \in Busy
          /\ Goto(w, "close")
          /\ UNCHANGED <<sock, armed, interest, events, cur, queue, running,
                         abandoned>>
        BY <1>7 DEF Message, Busy
    <2> QED
        BY <1>2, <2>1
<1>8. CASE SetClosed(w)
    <2>1. w \in Busy /\ wpc[w] = "close"
        BY <1>8 DEF SetClosed, Busy
    <2>2. ~closed[c]
        BY <2>1, HandlerFacts
    <2>3. /\ Goto(w, "del")
          /\ UNCHANGED <<sock, armed, interest, events, cur, queue, running,
                         abandoned>>
        BY <1>8, <2>2 DEF SetClosed
    <2> QED
        BY <1>2, <2>1, <2>3
<1>9. CASE Recheck(w)
    <2>1. w \in Busy /\ wpc[w] = "readd"
        BY <1>9 DEF Recheck, Busy
    <2>2. ~closed[c]
        BY <2>1, HandlerFacts
    <2>3. /\ Goto(w, "mod")
          /\ UNCHANGED <<sock, armed, interest, events, cur, queue, running,
                         abandoned>>
        BY <1>9, <2>2 DEF Recheck
    <2> QED
        BY <1>2, <2>1, <2>3
<1>10. CASE MessageThrows(w)
    <2>1. w \in Busy /\ wpc[w] = "message"
        BY <1>10 DEF MessageThrows, Busy
    <2>2. /\ running' = [running EXCEPT ![w] = NoConn]
          /\ abandoned' = abandoned \cup {c}
          /\ UNCHANGED <<sock, armed, interest, events, cur, queue>>
        BY <1>10 DEF MessageThrows, Pool!Finish
    <2>3. Busy' = Busy \ {w}
        BY <1>10, BusyEnds DEF MessageThrows
    <2>4. \A v \in Busy' : running'[v] = running[v]
        BY <2>2, <2>3 DEF Shape, Busy
    <2>5. c \in Conns
        BY <2>1, HandlerFacts
    <2>6. \A d : At(d)' <=> At(d) /\ d # c
        BY <2>1, <2>2, <2>3, <2>4, OnlyHere DEF At, Queued
    <2> QED
        BY <2>2, <2>5, <2>6, LocatedLess
<1>11. CASE Release(w)
    <2>1. /\ running' = [running EXCEPT ![w] = NoConn]
          /\ w \notin Busy
          /\ UNCHANGED <<sock, armed, interest, events, cur, queue, abandoned>>
        BY <1>11 DEF Release, Pool!Finish, Busy
    <2>2. Busy' = Busy
        BY <1>11, <2>1, BusyEnds DEF Release
    <2>3. \A v \in Busy : running'[v] = running[v]
        BY <2>1 DEF Shape, Busy
    <2>4. \A d : At(d)' <=> At(d)
        BY <2>1, <2>2, <2>3 DEF At, Queued
    <2> QED
        BY <2>1, <2>4, LocatedSame
<1>12. CASE EpollDel(w)
    <2>1. w \in Busy
        BY <1>12 DEF EpollDel, Busy
    <2>2. fd[c] \notin armed
        BY <2>1, HandlerFacts
    <2>3. /\ interest' = [interest EXCEPT ![fd[c]] = NoConn]
          /\ armed' = armed
          /\ Goto(w, "closefd")
          /\ UNCHANGED <<sock, events, cur, queue, running, abandoned>>
        BY <1>12, <2>2 DEF EpollDel
    <2>4. \A f \in armed : interest'[f] = interest[f]
        BY <2>2, <2>3 DEF Shape
    <2>5. Busy' = Busy
        BY <2>1, <2>3, BusyStays
    <2>6. \A d : At(d)' <=> At(d)
        BY <2>3, <2>4, <2>5 DEF At, Queued
    <2> QED
        BY <2>3, <2>6, LocatedSame
<1>13. CASE CloseFd(w)
    <2>1. w \in Busy
        BY <1>13 DEF CloseFd, Busy
    <2>2. fd[c] \notin armed /\ owner[fd[c]] = c /\ c \in Conns
        BY <2>1, HandlerFacts
    <2>3. /\ interest' = [interest EXCEPT ![fd[c]] = NoConn]
          /\ armed' = armed
          /\ sock' = [d \in Conns |-> IF d = c THEN "closed" ELSE sock[d]]
          /\ Goto(w, "release")
          /\ UNCHANGED <<events, cur, queue, running, abandoned>>
        BY <1>13, <2>2 DEF CloseFd, CloseDescriptor
    <2>4. \A f \in armed : interest'[f] = interest[f]
        BY <2>2, <2>3 DEF Shape
    <2>5. Busy' = Busy \ {w}
        BY <2>3, BusyEnds
    <2>6. \A d : At(d)' <=> At(d) /\ d # c
        BY <2>1, <2>3, <2>4, <2>5, OnlyHere DEF At, Queued
    <2> QED
        BY <2>2, <2>3, <2>6, LocatedLess
<1>14. CASE EpollMod(w)
    <2>1. w \in Busy /\ wpc[w] = "mod"
        BY <1>14 DEF EpollMod, Busy
    <2>2. fd[c] \in FDs /\ interest[fd[c]] = c /\ c # NoConn
        BY <2>1, HandlerFacts
    <2>3. /\ interest' = [interest EXCEPT ![fd[c]] = c]
          /\ armed' = armed \cup {fd[c]}
          /\ Goto(w, "release")
          /\ UNCHANGED <<sock, events, cur, queue, running, abandoned>>
        BY <1>14, <2>2 DEF EpollMod, Arm
    <2>4. \A f \in FDs : interest'[f] = interest[f]
        BY <2>2, <2>3 DEF Shape
    <2>5. Busy' = Busy \ {w}
        BY <2>3, BusyEnds
    <2>6. armed \subseteq FDs
        BY DEF Shape
    <2>7. \A d : (\E f \in armed' : interest'[f] = d)
                    <=> (\E f \in armed : interest[f] = d) \/ d = c
        BY <2>2, <2>3, <2>4, <2>6
    <2>8. \A d : (\E v \in Busy : running[v] = d)
                    <=> (\E v \in Busy' : running'[v] = d) \/ d = c
        BY <2>1, <2>3, <2>5
    <2>9. \A d : At(d)' <=> At(d)
        BY <2>3, <2>7, <2>8 DEF At, Queued
    <2> QED
        BY <2>3, <2>9, LocatedSame
<1>15. CASE BrokenPipe(w)
    <2>1. /\ ProcessEnds
          /\ events' = {} /\ armed' = {} /\ cur' = NoConn
        BY <1>15 DEF BrokenPipe, ProcessEnds
    <2>2. \A d \in Conns : ~At(d)' /\ sock'[d] # "open"
        BY <2>1, NothingLeft, SentinelAssumption DEF At
    <2> QED
        BY <2>2 DEF Located
<1> QED
    BY <1>3, <1>4, <1>5, <1>6, <1>7, <1>8, <1>9, <1>10, <1>11, <1>12, <1>13,
       <1>14, <1>15
    DEF HandleClientClient

LEMMA LocatedClient ==
    ASSUME Shape, Located, NEW c \in Conns, Client(c)
    PROVE  Located'
<1>1. /\ UNCHANGED <<armed, interest, events, cur, queue, running, wpc, abandoned>>
      /\ \/ sock' = sock
         \/ sock[c] = "none" /\ sock' = [sock EXCEPT ![c] = "backlog"]
    BY DEF Client, Connect, Send, Shutdown, Reset, clientVars, kernelVars,
           loopVars, poolVars, historyVars
<1>2. Busy' = Busy
    BY <1>1 DEF Busy
<1>3. \A d : At(d)' <=> At(d)
    BY <1>1, <1>2, SamePlaces
<1>4. \A d \in Conns : sock'[d] = "open" <=> sock[d] = "open"
    BY <1>1 DEF Shape
<1> QED
    BY <1>1, <1>3, <1>4, LocatedSame

LEMMA LocatedPoll ==
    ASSUME Shape, Located,
           \/ EpollWait
           \/ AcceptFails
           \/ \E f \in FDs : SpuriousEvent(f)
    PROVE  Located'
<1>1. /\ UNCHANGED <<sock, interest, cur, queue, running, wpc, abandoned>>
      /\ Listen \notin Conns
    BY SentinelAssumption
    DEF EpollWait, AcceptFails, SpuriousEvent, socketVars, kernelVars,
        poolVars, historyVars
<1>2. Busy' = Busy
    BY <1>1 DEF Busy
<1>3. \A d \in Conns :
         (\E f \in armed' : interest[f] = d) \/ d \in events'
             <=> (\E f \in armed : interest[f] = d) \/ d \in events
    <2>1. CASE EpollWait
        <3>1. PICK batch \in SUBSET Ready :
                 /\ events' = batch
                 /\ armed' = {f \in armed : interest[f] \notin batch}
                 /\ events = {}
            BY <2>1 DEF EpollWait
        <3>2. \A d \in batch \cap Conns : \E f \in armed : interest[f] = d
            BY <1>1 DEF Ready
        <3> QED
            BY <3>1, <3>2
    <2>2. CASE AcceptFails
        BY <1>1, <2>2 DEF AcceptFails, kernelVars
    <2>3. CASE \E f \in FDs : SpuriousEvent(f)
        <3>1. PICK f \in FDs : SpuriousEvent(f)
            BY <2>3
        <3>2. /\ events = {} /\ events' = {interest[f]}
              /\ armed' = armed \ {f} /\ f \in armed
            BY <3>1 DEF SpuriousEvent
        <3> QED
            BY <3>2
    <2> QED
        BY <2>1, <2>2, <2>3
<1>4. \A d \in Conns : At(d)' <=> At(d)
    BY <1>1, <1>2, <1>3 DEF At, Queued
<1> QED
    BY <1>1, <1>4, LocatedSame

LEMMA LocatedAccept ==
    ASSUME Shape, Tables, Alive, Located, AcceptConn
    PROVE  Located'
<1>1. PICK c \in Backlog, f \in FreeFDs :
         /\ sock' = [sock EXCEPT ![c] = "open"]
         /\ cur' = c
    BY DEF AcceptConn
<1>2. /\ c \in Conns /\ sock[c] = "backlog"
      /\ cur = NoConn /\ Listen \notin Conns /\ NoConn \notin Conns
      /\ events' = events \ {Listen}
      /\ UNCHANGED <<armed, interest, queue, running, wpc, abandoned>>
    BY SentinelAssumption
    DEF AcceptConn, Backlog, Shape, clientVars, poolVars, historyVars
<1>3. Busy' = Busy
    BY <1>2 DEF Busy
<1>4. \A d \in Conns : At(d)' <=> At(d) \/ d = c
    BY <1>1, <1>2, <1>3 DEF At, Queued
<1>5. c \notin abandoned
    BY <1>2 DEF Alive
<1>6. \A d \in Conns : sock'[d] = IF d = c THEN "open" ELSE sock[d]
    BY <1>1 DEF Shape
<1> QED
    BY <1>2, <1>4, <1>5, <1>6 DEF Located

LEMMA LocatedRegister ==
    ASSUME Shape, Tables, Places, Located, Register
    PROVE  Located'
<1>1. /\ cur \in Conns /\ fd[cur] \in FDs /\ owner[fd[cur]] = cur
    BY DEF Register, Shape, Tables
<1>2. /\ interest' = [interest EXCEPT ![fd[cur]] = cur]
      /\ armed' = armed \cup {fd[cur]}
      /\ cur' = NoConn
      /\ UNCHANGED <<sock, events, queue, running, wpc, abandoned>>
    BY DEF Register, Arm, socketVars, poolVars, historyVars
<1>3. Busy' = Busy
    BY <1>2 DEF Busy
<1>4. \A f \in FDs : interest'[f] = IF f = fd[cur] THEN cur ELSE interest[f]
    BY <1>2 DEF Shape
<1>5. \A f \in armed : f \in FDs /\ (f = fd[cur] => interest[f] = cur)
    BY <1>1 DEF Shape, Tables
<1>6. \A d : (\E f \in armed' : interest'[f] = d)
                <=> (\E f \in armed : interest[f] = d) \/ d = cur
    BY <1>1, <1>2, <1>4, <1>5
<1>7. \A d \in Conns : At(d)' <=> At(d)
    BY <1>2, <1>3, <1>6, SentinelAssumption DEF At, Queued
<1> QED
    BY <1>2, <1>7, LocatedSame

LEMMA LocatedRegisterFails ==
    ASSUME Shape, Tables, Places, Located, RegisterFails
    PROVE  Located'
<1>1. /\ cur \in Conns /\ cur # NoConn
      /\ fd[cur] \in FDs /\ owner[fd[cur]] = cur
    BY SentinelAssumption DEF RegisterFails, Shape, Tables
<1>2. /\ interest' = [interest EXCEPT ![fd[cur]] = NoConn]
      /\ armed' = armed \ {fd[cur]}
      /\ sock' = [d \in Conns |-> IF d = cur THEN "closed" ELSE sock[d]]
      /\ cur' = NoConn
      /\ UNCHANGED <<events, queue, running, wpc, abandoned>>
    BY <1>1 DEF RegisterFails, CloseDescriptor, poolVars, historyVars
<1>3. Busy' = Busy
    BY <1>2 DEF Busy
<1>4. \A f \in FDs : interest'[f] = IF f = fd[cur] THEN NoConn ELSE interest[f]
    BY <1>2 DEF Shape
<1>5. \A f \in armed : f \in FDs /\ interest[f] # cur /\ f # fd[cur]
    BY <1>1 DEF Shape, Tables, Places
<1>6. \A d : (\E f \in armed' : interest'[f] = d)
                <=> (\E f \in armed : interest[f] = d)
    BY <1>2, <1>4, <1>5
<1>7. /\ cur \notin events /\ ~Queued(cur)
      /\ \A w \in Busy : running[w] # cur
    BY <1>1 DEF Places
<1>8. \A d \in Conns : At(d)' <=> At(d) /\ d # cur
    BY <1>1, <1>2, <1>3, <1>5, <1>6, <1>7, SentinelAssumption DEF At, Queued
<1> DEFINE c == cur
<1>9. /\ c \in Conns
      /\ \A d \in Conns : At(d)' <=> At(d) /\ d # c
      /\ \A d \in Conns : sock'[d] = IF d = c THEN "closed" ELSE sock[d]
    BY <1>1, <1>2, <1>8
<1> QED
    BY <1>2, <1>9 DEF Located

LEMMA LocatedHandOver ==
    ASSUME Shape, Tables, Located,
           \/ \E c \in Conns : AddRef(c)
           \/ Emplace
           \/ \E w \in Workers : TakeTask(w)
    PROVE  Located'
<1>1. UNCHANGED <<sock, armed, interest, abandoned>>
    BY DEF AddRef, Emplace, TakeTask, socketVars, kernelVars, historyVars
<1>2. \A d \in Conns : At(d)' <=> At(d)
    <2>1. CASE \E c \in Conns : AddRef(c)
        <3>1. PICK c \in Conns : AddRef(c)
            BY <2>1
        <3>2. /\ cur = NoConn /\ c \in events
              /\ events' = events \ {c} /\ cur' = c
              /\ UNCHANGED <<queue, running, wpc>>
            BY <3>1 DEF AddRef, Shape, poolVars
        <3>3. Busy' = Busy
            BY <3>2 DEF Busy
        <3> QED
            BY <1>1, <3>2, <3>3, SentinelAssumption DEF At, Queued
    <2>2. CASE Emplace
        <3>1. /\ cur \in Conns /\ cur' = NoConn
              /\ queue' = Append(queue, cur)
              /\ UNCHANGED <<events, running, wpc>>
            BY <2>2 DEF Emplace, Pool!Submit, Shape
        <3>2. \A d : Queued(d)' <=> Queued(d) \/ d = cur
            BY <3>1, QueueAfterSubmit DEF Shape
        <3>3. Busy' = Busy
            BY <3>1 DEF Busy
        <3> QED
            BY <1>1, <3>1, <3>2, <3>3, SentinelAssumption DEF At
    <2>3. CASE \E w \in Workers : TakeTask(w)
        <3>1. PICK w \in Workers : TakeTask(w)
            BY <2>3
        <3> DEFINE h == Head(queue)
        <3>2. /\ running[w] = NoConn /\ wpc[w] = "idle"
              /\ queue \in Seq(Conns) /\ queue # <<>>
              /\ queue' = Tail(queue)
              /\ running' = [running EXCEPT ![w] = h]
              /\ wpc' = [wpc EXCEPT ![w] = "check"]
              /\ UNCHANGED <<events, cur>>
            BY <3>1 DEF TakeTask, Goto, Shape, Pool!Take, loopVars
        <3>3. \A d : Queued(d) <=> Queued(d)' \/ d = h
            BY <3>2, QueueAfterTake
        <3> HIDE DEF h
        <3>4. /\ Busy' = Busy \cup {w} /\ w \notin Busy
              /\ running'[w] = h
              /\ \A v \in Busy : running'[v] = running[v]
            BY <3>2, SMTT(30) DEF Busy, Shape
        <3>5. \A d : (\E v \in Busy' : running'[v] = d)
                        <=> (\E v \in Busy : running[v] = d) \/ d = h
            BY <3>4
        <3> QED
            BY <1>1, <3>2, <3>3, <3>5 DEF At
    <2> QED
        BY <2>1, <2>2, <2>3
<1> QED
    BY <1>1, <1>2, LocatedSame

LEMMA LocatedStep ==
    Shape /\ Tables /\ Places /\ Alive /\ Located /\ [Next]_vars => Located'
<1> SUFFICES ASSUME Shape, Tables, Places, Alive, Located, [Next]_vars
             PROVE  Located'
    OBVIOUS
<1>1. CASE UNCHANGED vars
    <2>1. UNCHANGED <<sock, armed, interest, events, cur, queue, running, wpc,
                      abandoned>>
        BY <1>1 DEF vars, socketVars, kernelVars, loopVars, poolVars,
                    historyVars
    <2>2. Busy' = Busy
        BY <2>1 DEF Busy
    <2> QED
        BY <2>1, <2>2, SamePlaces, LocatedSame
<1> QED
    BY <1>1, LocatedClient, LocatedPoll, LocatedAccept, LocatedRegister,
       LocatedRegisterFails, LocatedHandOver, LocatedHandler
    DEF Next, AcceptLoop, Quiescent

LEMMA LocatedInit == Init => Located
<1> SUFFICES ASSUME Init PROVE Located
    OBVIOUS
<1>1. Len(queue) = 0
    BY EmptySeq DEF Init, Pool!Init
<1>2. \A d : ~Queued(d)
    BY <1>1 DEF Queued
<1>3. Busy = {} /\ events = {} /\ armed = {} /\ cur = NoConn
    BY DEF Init, Busy
<1> QED
    BY <1>2, <1>3, SentinelAssumption DEF Init, At, Located

(***************************************************************************)
(* Counts                                                                  *)
(***************************************************************************)

LEMMA HandlersFinite ==
    ASSUME NEW c
    PROVE  IsFiniteSet(Handlers(c)) /\ Cardinality(Handlers(c)) \in Nat
<1>1. Handlers(c) \subseteq Workers
    BY DEF Handlers
<1>2. IsFiniteSet(Handlers(c))
    BY <1>1, WorkersAssumption, FS_Subset
<1> QED
    BY <1>2, FS_CardinalityType

LEMMA CountPositive ==
    ASSUME NEW c
    PROVE  Count(c) \in Nat /\ Count(c) >= 1 + Cardinality(Handlers(c))
BY HandlersFinite DEF Count, One

LEMMA HandlerCounted ==
    ASSUME Counts, Alive, Shape, NEW w \in Workers, running[w] # NoConn
    PROVE  LET c == running[w]
           IN  /\ c \in Conns /\ ctx[c] = "live"
               /\ Cardinality(Handlers(c)) >= 1
               /\ ref_count[c] = Count(c) /\ ref_count[c] >= 2
<1> DEFINE c == running[w]
<1>1. c \in Conns /\ ctx[c] = "live"
    BY DEF Shape, Alive
<1>2. w \in Handlers(c)
    BY DEF Handlers
<1>3. Cardinality(Handlers(c)) # 0 /\ Cardinality(Handlers(c)) \in Nat
    BY <1>2, HandlersFinite, FS_EmptySet
<1>4. ref_count[c] = Count(c)
    BY <1>1 DEF Counts
<1> HIDE DEF c
<1>5. ref_count[c] >= 2
    BY <1>3, <1>4, CountPositive
<1> QED
    BY <1>1, <1>3, <1>4, <1>5 DEF c

\* A worker takes, or is done with, c.
LEMMA HandlersGrow ==
    ASSUME Shape, NEW w \in Workers, NEW c \in Conns, running[w] = NoConn,
           running' = [running EXCEPT ![w] = c]
    PROVE  /\ Cardinality(Handlers(c)') = Cardinality(Handlers(c)) + 1
           /\ \A d \in Conns \ {c} : Handlers(d)' = Handlers(d)
<1>1. \A v \in Workers : running'[v] = IF v = w THEN c ELSE running[v]
    BY DEF Shape
<1>2. NoConn \notin Conns
    BY SentinelAssumption
<1>3. /\ Handlers(c)' = Handlers(c) \cup {w}
      /\ w \notin Handlers(c)
    BY <1>1, <1>2 DEF Handlers
<1>4. \A d \in Conns \ {c} : Handlers(d)' = Handlers(d)
    BY <1>1, <1>2 DEF Handlers
<1> QED
    BY <1>3, <1>4, HandlersFinite, FS_AddElement

LEMMA HandlersShrink ==
    ASSUME Shape, NEW w \in Workers, running[w] # NoConn,
           running' = [running EXCEPT ![w] = NoConn]
    PROVE  /\ Cardinality(Handlers(running[w])) >= 1
           /\ \A d \in Conns : Cardinality(Handlers(d)') =
                 IF d = running[w] THEN Cardinality(Handlers(d)) - 1
                 ELSE Cardinality(Handlers(d))
<1> DEFINE c == running[w]
<1>1. \A v \in Workers : running'[v] = IF v = w THEN NoConn ELSE running[v]
    BY DEF Shape
<1>2. NoConn \notin Conns
    BY SentinelAssumption
<1>3. w \in Handlers(c)
    BY DEF Handlers
<1>4. \A d \in Conns : Handlers(d)' = IF d = c THEN Handlers(d) \ {w} ELSE Handlers(d)
    BY <1>1, <1>2 DEF Handlers
<1>5. /\ Cardinality(Handlers(c)) \in Nat /\ Cardinality(Handlers(c)) # 0
      /\ Cardinality(Handlers(c) \ {w}) = Cardinality(Handlers(c)) - 1
    BY <1>3, HandlersFinite, FS_EmptySet, FS_RemoveElement
<1> HIDE DEF c
<1>6. /\ Cardinality(Handlers(c)) >= 1
      /\ \A d \in Conns : Cardinality(Handlers(d)') =
             IF d = c THEN Cardinality(Handlers(d)) - 1
             ELSE Cardinality(Handlers(d))
    BY <1>4, <1>5
<1> QED
    BY <1>6 DEF c

\* The part of the state Count and Alive are about.
countVars == <<ctx, ref_count, apc, cur, queue, running, abandoned>>

LEMMA CountsSame ==
    ASSUME Counts, UNCHANGED countVars
    PROVE  Counts'
<1>1. \A c : Handlers(c)' = Handlers(c) /\ (Queued(c)' <=> Queued(c))
    BY DEF countVars, Handlers, Queued
<1>2. \A c : Count(c)' = Count(c)
    BY <1>1 DEF countVars, Count, One
<1> QED
    BY <1>2 DEF Counts, countVars

LEMMA AliveSame ==
    ASSUME Alive, UNCHANGED <<ctx, running, abandoned>>,
           \A d \in Conns : \/ sock'[d] = sock[d]
                            \/ sock[d] = "none" /\ sock'[d] = "backlog"
                            \/ sock[d] = "open" /\ sock'[d] = "closed",
           Shape
    PROVE  Alive'
BY DEF Alive, Shape

\* The steps of HandleClientClient before the last one.
LEMMA CountsHandler ==
    ASSUME Shape, Tables, Places, Alive, Counts,
           NEW w \in Workers, HandleClientClient(w),
           ~BrokenPipe(w), ~MessageThrows(w), ~Release(w)
    PROVE  Alive' /\ Counts'
<1> DEFINE c == running[w]
<1> USE DEF clientVars, socketVars, kernelVars, loopVars, poolVars,
            contextVars, historyVars
<1>1. UNCHANGED countVars
    BY DEF HandleClientClient, CheckClosed, ReadData, ReadEnds, ReadBlocks,
           Message, SetClosed, EpollDel, CloseFd, Recheck, EpollMod, countVars
<1>2. \A d \in Conns : \/ sock'[d] = sock[d]
                       \/ sock[d] = "open" /\ sock'[d] = "closed"
    <2>1. CASE CloseFd(w)
        <3>1. w \in Busy
            BY <2>1 DEF CloseFd, Busy
        <3>2. owner[fd[c]] = c /\ sock[c] = "open"
            BY <3>1, HandlerFacts
        <3>3. sock' = [d \in Conns |-> IF d = c THEN "closed" ELSE sock[d]]
            BY <2>1, <3>2 DEF CloseFd, CloseDescriptor
        <3> QED
            BY <3>2, <3>3
    <2>2. CASE EpollMod(w)
        <3>1. w \in Busy /\ wpc[w] = "mod"
            BY <2>2 DEF EpollMod, Busy
        <3>2. interest[fd[c]] = c /\ c # NoConn
            BY <3>1, HandlerFacts
        <3> QED
            BY <2>2, <3>2 DEF EpollMod
    <2>3. CASE ~CloseFd(w) /\ ~EpollMod(w)
        BY <2>3
        DEF HandleClientClient, CheckClosed, ReadData, ReadEnds, ReadBlocks,
            Message, SetClosed, EpollDel, Recheck
    <2> QED
        BY <2>1, <2>2, <2>3
<1>3. Counts'
    BY <1>1, CountsSame
<1>4. Alive'
    BY <1>1, <1>2, AliveSame DEF countVars
<1> QED
    BY <1>3, <1>4

LEMMA CountsEnd ==
    ASSUME Shape, Alive, NEW w \in Workers, BrokenPipe(w)
    PROVE  Alive' /\ Counts'
<1>1. /\ ProcessEnds
      /\ ctx' = [c \in Conns |-> "none"]
      /\ ref_count' = [c \in Conns |-> 0]
      /\ abandoned' = abandoned
    BY DEF BrokenPipe, ProcessEnds, historyVars
<1>2. \A c \in abandoned : c \in Conns /\ sock'[c] = "closed"
    BY <1>1, NothingLeft DEF Alive, Shape
<1>3. Alive'
    BY <1>1, <1>2, NothingLeft DEF Alive
<1>4. Counts'
    BY <1>1 DEF Counts
<1> QED
    BY <1>3, <1>4

LEMMA CountsThrow ==
    ASSUME Shape, Tables, Places, Located, Alive, Counts,
           NEW w \in Workers, MessageThrows(w)
    PROVE  Alive' /\ Counts'
<1> DEFINE c == running[w]
<1>1. w \in Busy /\ running[w] # NoConn
    BY DEF MessageThrows, Busy, Shape
<1>2. c \in Conns /\ sock[c] = "open"
    BY <1>1, HandlerFacts
<1>3. c \notin abandoned
    BY <1>1, <1>2 DEF Located, At
<1>4. /\ running' = [running EXCEPT ![w] = NoConn]
      /\ abandoned' = abandoned \cup {c}
      /\ UNCHANGED <<sock, ctx, ref_count, apc, cur, queue>>
    BY DEF MessageThrows, Pool!Finish, socketVars, loopVars, contextVars
<1>5. \A d \in Conns : Cardinality(Handlers(d)') =
          IF d = c THEN Cardinality(Handlers(d)) - 1 ELSE Cardinality(Handlers(d))
    BY <1>1, <1>4, HandlersShrink
<1>6. \A d \in Conns : Cardinality(Handlers(d)) \in Nat
    BY HandlersFinite
<1>7. \A v \in Workers : running'[v] = IF v = w THEN NoConn ELSE running[v]
    BY <1>4 DEF Shape
<1>8. Alive'
    BY <1>2, <1>4, <1>7 DEF Alive
<1> HIDE DEF c
<1>9. \A d \in Conns : Queued(d)' <=> Queued(d)
    BY <1>4 DEF Queued
<1>10. \A d \in Conns : Count(d)' = Count(d)
    <2> SUFFICES ASSUME NEW d \in Conns PROVE Count(d)' = Count(d)
        OBVIOUS
    <2>1. One(d \in abandoned)' = IF d = c THEN 1 ELSE One(d \in abandoned)
        BY <1>4 DEF One
    <2>2. d = c => One(d \in abandoned) = 0
        BY <1>3 DEF One
    <2>3. /\ One(apc = "submit" /\ cur = d)' = One(apc = "submit" /\ cur = d)
          /\ One(Queued(d))' = One(Queued(d))
        BY <1>4, <1>9 DEF One
    <2>4. One(apc = "submit" /\ cur = d) \in Nat /\ One(Queued(d)) \in Nat
        BY DEF One
    <2>5. Cardinality(Handlers(d))' =
              IF d = c THEN Cardinality(Handlers(d)) - 1
              ELSE Cardinality(Handlers(d))
        BY <1>5
    <2> QED
        BY <1>6, <2>1, <2>2, <2>3, <2>4, <2>5 DEF Count
<1>11. Counts'
    BY <1>4, <1>10 DEF Counts
<1> QED
    BY <1>8, <1>11

LEMMA CountsRelease ==
    ASSUME Shape, Alive, Counts, NEW w \in Workers, Release(w)
    PROVE  Alive' /\ Counts'
<1> DEFINE c == running[w]
<1>1. running[w] # NoConn
    BY DEF Release, Shape
<1>2. /\ c \in Conns /\ ctx[c] = "live" /\ ref_count[c] = Count(c)
      /\ ref_count[c] >= 2
    BY <1>1, HandlerCounted
<1>3. /\ running' = [running EXCEPT ![w] = NoConn]
      /\ ref_count' = [ref_count EXCEPT ![c] = @ - 1]
      /\ ctx' = [ctx EXCEPT ![c] = IF ref_count[c] = 1 THEN "freed" ELSE @]
      /\ UNCHANGED <<sock, apc, cur, queue, abandoned>>
    BY DEF Release, Pool!Finish, socketVars, loopVars, historyVars
<1>4. ctx' = ctx
    BY <1>2, <1>3 DEF Shape
<1>5. \A d \in Conns : Cardinality(Handlers(d)') =
          IF d = c THEN Cardinality(Handlers(d)) - 1 ELSE Cardinality(Handlers(d))
    BY <1>1, <1>3, HandlersShrink
<1>6. \A d \in Conns : Cardinality(Handlers(d)) \in Nat
    BY HandlersFinite
<1>7. \A v \in Workers : running'[v] = IF v = w THEN NoConn ELSE running[v]
    BY <1>3 DEF Shape
<1>8. \A d \in Conns :
          /\ ref_count[d] \in Int
          /\ ref_count'[d] = IF d = c THEN ref_count[d] - 1 ELSE ref_count[d]
    BY <1>3 DEF Shape
<1>9. Alive'
    BY <1>3, <1>4, <1>7 DEF Alive
<1> HIDE DEF c
<1>10. \A d \in Conns : Count(d)' = IF d = c THEN Count(d) - 1 ELSE Count(d)
    <2> SUFFICES ASSUME NEW d \in Conns
                 PROVE  Count(d)' = IF d = c THEN Count(d) - 1 ELSE Count(d)
        OBVIOUS
    <2>1. /\ One(apc = "submit" /\ cur = d)' = One(apc = "submit" /\ cur = d)
          /\ One(Queued(d))' = One(Queued(d))
          /\ One(d \in abandoned)' = One(d \in abandoned)
        BY <1>3 DEF One, Queued
    <2>2. /\ One(apc = "submit" /\ cur = d) \in Nat
          /\ One(Queued(d)) \in Nat
          /\ One(d \in abandoned) \in Nat
        BY DEF One
    <2>3. Cardinality(Handlers(d))' =
              IF d = c THEN Cardinality(Handlers(d)) - 1
              ELSE Cardinality(Handlers(d))
        BY <1>5
    <2> QED
        BY <1>6, <2>1, <2>2, <2>3 DEF Count
<1>11. Counts'
    BY <1>2, <1>4, <1>8, <1>10 DEF Counts
<1> QED
    BY <1>9, <1>11

LEMMA CountsQuiet ==
    ASSUME Shape, Alive, Counts,
           \/ \E c \in Conns : Client(c)
           \/ EpollWait
           \/ AcceptFails
           \/ \E f \in FDs : SpuriousEvent(f)
    PROVE  Alive' /\ Counts'
<1> USE DEF clientVars, socketVars, kernelVars, loopVars, poolVars,
            contextVars, historyVars
<1>1. UNCHANGED countVars
    BY DEF Client, Connect, Send, Shutdown, Reset, EpollWait, AcceptFails,
           SpuriousEvent, countVars
<1>2. \A d \in Conns : \/ sock'[d] = sock[d]
                       \/ sock[d] = "none" /\ sock'[d] = "backlog"
    BY DEF Client, Connect, Send, Shutdown, Reset, EpollWait, AcceptFails,
           SpuriousEvent, Shape
<1>3. Alive'
    BY <1>1, <1>2, AliveSame DEF countVars
<1> QED
    BY <1>1, <1>3, CountsSame

LEMMA CountsAccept ==
    ASSUME Shape, Tables, Alive, Counts, AcceptConn
    PROVE  Alive' /\ Counts'
<1>1. PICK c \in Backlog, f \in FreeFDs :
         /\ sock' = [sock EXCEPT ![c] = "open"]
         /\ ctx' = [ctx EXCEPT ![c] = "live"]
         /\ ref_count' = [ref_count EXCEPT ![c] = 1]
         /\ cur' = c
    BY DEF AcceptConn
<1>2. /\ c \in Conns /\ sock[c] = "backlog"
      /\ apc = "loop" /\ apc' = "register"
      /\ UNCHANGED <<queue, running, abandoned>>
    BY DEF AcceptConn, Backlog, poolVars, historyVars
<1>3. /\ ~Queued(c)
      /\ c \notin abandoned
      /\ \A w \in Workers : running[w] # c
    BY <1>2, SentinelAssumption DEF Tables, Alive
<1>4. \A d \in Conns :
          /\ sock'[d] = IF d = c THEN "open" ELSE sock[d]
          /\ ctx'[d] = IF d = c THEN "live" ELSE ctx[d]
          /\ ref_count'[d] = IF d = c THEN 1 ELSE ref_count[d]
    BY <1>1 DEF Shape
<1>5. Alive'
    <2>1. \A w \in Workers :
              /\ running'[w] = running[w]
              /\ running[w] # NoConn => running[w] \in Conns \ {c}
        BY <1>2, <1>3 DEF Shape
    <2>2. \A w \in Workers : running'[w] # NoConn => ctx'[running'[w]] = "live"
        BY <1>4, <2>1 DEF Alive
    <2>3. \A d \in abandoned' : sock'[d] \in {"open", "closed"}
        BY <1>2, <1>4 DEF Alive, Shape
    <2>4. \A d \in Conns : /\ sock'[d] = "open" => ctx'[d] = "live"
                           /\ sock'[d] \in {"none", "backlog"} => ctx'[d] = "none"
        BY <1>4 DEF Alive
    <2> QED
        BY <2>2, <2>3, <2>4 DEF Alive
<1>6. \A d \in Conns :
          /\ One(apc = "submit" /\ cur = d)' = 0
          /\ One(apc = "submit" /\ cur = d) = 0
          /\ One(Queued(d))' = One(Queued(d))
          /\ One(d \in abandoned)' = One(d \in abandoned)
          /\ Handlers(d)' = Handlers(d)
    BY <1>2 DEF One, Queued, Handlers
<1>7. \A d \in Conns : Count(d)' = Count(d)
    BY <1>6 DEF Count
<1>8. Count(c) = 1
    <2>1. Handlers(c) = {}
        BY <1>3 DEF Handlers
    <2>2. Cardinality(Handlers(c)) = 0
        BY <2>1, FS_EmptySet
    <2>3. One(Queued(c)) = 0 /\ One(c \in abandoned) = 0
        BY <1>3 DEF One
    <2> QED
        BY <1>2, <1>6, <2>2, <2>3 DEF Count
<1>9. Counts'
    BY <1>4, <1>7, <1>8 DEF Counts
<1> QED
    BY <1>5, <1>9

LEMMA CountsRegister ==
    ASSUME Shape, Tables, Places, Located, Alive, Counts,
           Register \/ RegisterFails
    PROVE  Alive' /\ Counts'
<1> DEFINE c == cur
<1>1. /\ c \in Conns /\ c # NoConn /\ sock[c] = "open"
      /\ apc = "register" /\ apc' = "loop" /\ cur' = NoConn
      /\ fd[c] \in FDs /\ owner[fd[c]] = c
      /\ UNCHANGED <<ref_count, queue, running, abandoned>>
    BY SentinelAssumption
    DEF Register, RegisterFails, Shape, Tables, poolVars, contextVars,
        historyVars
<1>2. /\ ~Queued(c)
      /\ \A w \in Workers : running[w] # c
    BY <1>1 DEF Places
<1>3. c \notin abandoned
    BY <1>1 DEF Located, At
<1>4. /\ \A d \in Conns : d # c => sock'[d] = sock[d] /\ ctx'[d] = ctx[d]
      /\ \/ sock'[c] = "open" /\ ctx'[c] = "live"
         \/ sock'[c] = "closed" /\ ctx'[c] = "freed"
    <2>1. CASE Register
        BY <1>1, <2>1 DEF Register, socketVars, contextVars, Alive
    <2>2. CASE RegisterFails
        BY <1>1, <2>2 DEF RegisterFails, CloseDescriptor, Shape
    <2> QED
        BY <2>1, <2>2
<1>5. \A d \in Conns :
          /\ One(apc = "submit" /\ cur = d)' = 0
          /\ One(apc = "submit" /\ cur = d) = 0
          /\ One(Queued(d))' = One(Queued(d))
          /\ One(d \in abandoned)' = One(d \in abandoned)
          /\ Handlers(d)' = Handlers(d)
    BY <1>1 DEF One, Queued, Handlers
<1>6. \A d \in Conns : Count(d)' = Count(d)
    BY <1>5 DEF Count
<1> HIDE DEF c
<1>7. Alive'
    <2>1. \A w \in Workers :
              /\ running'[w] = running[w]
              /\ running[w] # NoConn => running[w] \in Conns \ {c}
        BY <1>1, <1>2 DEF Shape
    <2>2. \A w \in Workers : running'[w] # NoConn => ctx'[running'[w]] = "live"
        BY <1>4, <2>1 DEF Alive
    <2>3. \A d \in abandoned' : d \in Conns /\ d # c /\ d \in abandoned
        BY <1>1, <1>3 DEF Shape
    <2>4. \A d \in abandoned' : sock'[d] \in {"open", "closed"}
        BY <1>4, <2>3 DEF Alive
    <2>5. \A d \in Conns : /\ sock'[d] = "open" => ctx'[d] = "live"
                           /\ sock'[d] \in {"none", "backlog"} => ctx'[d] = "none"
        BY <1>4 DEF Alive
    <2> QED
        BY <2>2, <2>4, <2>5 DEF Alive
<1>8. Count(c) = 1
    <2>1. Handlers(c) = {}
        BY <1>2 DEF Handlers
    <2>2. Cardinality(Handlers(c)) = 0
        BY <2>1, FS_EmptySet
    <2>3. One(Queued(c)) = 0 /\ One(c \in abandoned) = 0
        BY <1>2, <1>3 DEF One
    <2> QED
        BY <1>1, <1>5, <2>2, <2>3 DEF Count
<1>9. ref_count[c] = 1
    BY <1>1, <1>8 DEF Counts, Alive
<1>10. Counts'
    BY <1>1, <1>4, <1>6, <1>8, <1>9 DEF Counts
<1> QED
    BY <1>7, <1>10

LEMMA CountsAddRef ==
    ASSUME Shape, Tables, Places, Alive, Counts, NEW c \in Conns, AddRef(c)
    PROVE  Alive' /\ Counts'
<1>1. /\ c \in events /\ apc = "loop" /\ cur = NoConn
      /\ apc' = "submit" /\ cur' = c
      /\ ref_count' = [ref_count EXCEPT ![c] = @ + 1]
      /\ UNCHANGED <<sock, ctx, queue, running, abandoned>>
    BY DEF AddRef, Shape, socketVars, poolVars, historyVars
<1>2. ctx[c] = "live"
    BY <1>1 DEF Tables, Alive
<1>3. Alive'
    BY <1>1, AliveSame
<1>4. \A d \in Conns :
          /\ One(apc = "submit" /\ cur = d) = 0
          /\ One(apc = "submit" /\ cur = d)' = IF d = c THEN 1 ELSE 0
          /\ One(Queued(d))' = One(Queued(d))
          /\ One(d \in abandoned)' = One(d \in abandoned)
          /\ Handlers(d)' = Handlers(d)
          /\ One(Queued(d)) \in Nat
          /\ One(d \in abandoned) \in Nat
    BY <1>1 DEF One, Queued, Handlers
<1>5. \A d \in Conns : Count(d)' = IF d = c THEN Count(d) + 1 ELSE Count(d)
    <2> SUFFICES ASSUME NEW d \in Conns
                 PROVE  Count(d)' = IF d = c THEN Count(d) + 1 ELSE Count(d)
        OBVIOUS
    <2>1. Cardinality(Handlers(d)) \in Nat
        BY HandlersFinite
    <2>2. Cardinality(Handlers(d))' = Cardinality(Handlers(d))
        BY <1>4
    <2> QED
        BY <1>4, <2>1, <2>2 DEF Count
<1>6. \A d \in Conns :
          /\ ref_count[d] \in Int
          /\ ref_count'[d] = IF d = c THEN ref_count[d] + 1 ELSE ref_count[d]
    BY <1>1 DEF Shape
<1>7. Counts'
    BY <1>1, <1>2, <1>5, <1>6 DEF Counts
<1> QED
    BY <1>3, <1>7

\* The task inherits the reference taken for it, first in the queue, ...
LEMMA CountsEmplace ==
    ASSUME Shape, Tables, Places, Alive, Counts, Emplace
    PROVE  Alive' /\ Counts'
<1>1. PICK c \in Conns : c = cur
    BY DEF Emplace, Shape
<1>2. /\ c # NoConn /\ apc = "submit" /\ apc' = "loop" /\ cur' = NoConn
      /\ queue \in Seq(Conns) /\ queue' = Append(queue, c)
      /\ UNCHANGED <<sock, ctx, ref_count, running, abandoned>>
    BY <1>1, SentinelAssumption
    DEF Emplace, Shape, Pool!Submit, socketVars, contextVars, historyVars
<1>3. Alive'
    BY <1>2, AliveSame
<1>4. ~Queued(c)
    BY <1>1, <1>2 DEF Places
<1>5. \A d : Queued(d)' <=> Queued(d) \/ d = c
    BY <1>2, QueueAfterSubmit
<1>6. \A d \in Conns :
          /\ One(apc = "submit" /\ cur = d) = IF d = c THEN 1 ELSE 0
          /\ One(apc = "submit" /\ cur = d)' = 0
          /\ One(Queued(d))' = IF d = c THEN 1 ELSE One(Queued(d))
          /\ d = c => One(Queued(d)) = 0
          /\ One(d \in abandoned)' = One(d \in abandoned)
          /\ Handlers(d)' = Handlers(d)
          /\ One(Queued(d)) \in Nat
          /\ One(d \in abandoned) \in Nat
    BY <1>1, <1>2, <1>4, <1>5 DEF One, Handlers
<1>7. \A d \in Conns : Count(d)' = Count(d)
    <2> SUFFICES ASSUME NEW d \in Conns PROVE Count(d)' = Count(d)
        OBVIOUS
    <2>1. Cardinality(Handlers(d)) \in Nat
        BY HandlersFinite
    <2>2. Cardinality(Handlers(d))' = Cardinality(Handlers(d))
        BY <1>6
    <2> QED
        BY <1>6, <2>1, <2>2 DEF Count
<1>8. Counts'
    BY <1>2, <1>7 DEF Counts
<1> QED
    BY <1>3, <1>8

\* ... then in the hands of the worker that takes it.
LEMMA CountsTakeTask ==
    ASSUME Shape, Tables, Places, Alive, Counts, NEW w \in Workers, TakeTask(w)
    PROVE  Alive' /\ Counts'
<1>1. PICK h : h = Head(queue)
    OBVIOUS
<1>2. /\ running[w] = NoConn
      /\ queue \in Seq(Conns) /\ queue # <<>> /\ queue' = Tail(queue)
      /\ running' = [running EXCEPT ![w] = h]
      /\ UNCHANGED <<sock, ctx, ref_count, apc, cur, abandoned>>
    BY <1>1
    DEF TakeTask, Shape, Pool!Take, socketVars, loopVars, contextVars,
        historyVars
<1>3. /\ Len(queue) \in Nat \ {0}
      /\ Len(queue') = Len(queue) - 1
      /\ h \in Conns
      /\ h = queue[1]
      /\ \A i \in 1..Len(queue') : queue'[i] = queue[i + 1]
      /\ \A d : Queued(d) <=> Queued(d)' \/ d = h
    BY <1>1, <1>2, QueueAfterTake
<1>4. Queued(h) /\ ~Queued(h)'
    <2>1. /\ \A i \in 1..Len(queue') : i + 1 \in 1..Len(queue) /\ i + 1 # 1
          /\ 1 \in 1..Len(queue)
        BY <1>3
    <2>2. \A i \in 1..Len(queue') : queue'[i] # h
        BY <1>3, <2>1 DEF Places
    <2> QED
        BY <1>3, <2>2 DEF Queued
<1>5. ctx[h] = "live"
    BY <1>3, <1>4 DEF Tables, Alive
<1>6. \A v \in Workers : running'[v] = IF v = w THEN h ELSE running[v]
    BY <1>2 DEF Shape
<1>7. Alive'
    BY <1>2, <1>5, <1>6 DEF Alive
<1>8. /\ Cardinality(Handlers(h)') = Cardinality(Handlers(h)) + 1
      /\ \A d \in Conns \ {h} : Handlers(d)' = Handlers(d)
    BY <1>2, <1>3, HandlersGrow
<1>9. \A d \in Conns :
          /\ One(apc = "submit" /\ cur = d)' = One(apc = "submit" /\ cur = d)
          /\ One(Queued(d))' = IF d = h THEN 0 ELSE One(Queued(d))
          /\ d = h => One(Queued(d)) = 1
          /\ One(d \in abandoned)' = One(d \in abandoned)
          /\ One(apc = "submit" /\ cur = d) \in Nat
          /\ One(Queued(d)) \in Nat
          /\ One(d \in abandoned) \in Nat
    BY <1>2, <1>3, <1>4 DEF One
<1>10. \A d \in Conns : Count(d)' = Count(d)
    <2> SUFFICES ASSUME NEW d \in Conns PROVE Count(d)' = Count(d)
        OBVIOUS
    <2>1. Cardinality(Handlers(d)) \in Nat
        BY HandlersFinite
    <2>2. Cardinality(Handlers(d))' =
              IF d = h THEN Cardinality(Handlers(d)) + 1
              ELSE Cardinality(Handlers(d))
        BY <1>8
    <2> QED
        BY <1>9, <2>1, <2>2 DEF Count
<1>11. Counts'
    BY <1>2, <1>10 DEF Counts
<1> QED
    BY <1>7, <1>11

LEMMA AliveCountsStep ==
    ASSUME Shape, Tables, Places, Located, Alive, Counts, [Next]_vars
    PROVE  Alive' /\ Counts'
<1>1. CASE UNCHANGED vars
    <2>1. UNCHANGED countVars /\ UNCHANGED sock
        BY <1>1 DEF vars, countVars, socketVars, loopVars, poolVars,
                    contextVars, historyVars
    <2>2. Alive'
        BY <2>1, AliveSame DEF countVars
    <2> QED
        BY <2>1, <2>2, CountsSame
<1>2. CASE AcceptLoop
    BY <1>2, CountsQuiet, CountsAccept, CountsRegister, CountsAddRef,
       CountsEmplace
    DEF AcceptLoop
<1>3. ASSUME NEW w \in Workers, HandleClientClient(w)
      PROVE  Alive' /\ Counts'
    BY <1>3, CountsHandler, CountsEnd, CountsThrow, CountsRelease
<1>4. ASSUME NEW w \in Workers, TakeTask(w)
      PROVE  Alive' /\ Counts'
    BY <1>4, CountsTakeTask
<1>5. CASE \/ \E c \in Conns : Client(c)
           \/ \E f \in FDs : SpuriousEvent(f)
    BY <1>5, CountsQuiet
<1> QED
    BY <1>1, <1>2, <1>3, <1>4, <1>5 DEF Next, Quiescent

LEMMA AliveCountsInit == Init => Alive /\ Counts
<1> SUFFICES ASSUME Init PROVE Alive /\ Counts
    OBVIOUS
<1>1. /\ sock = [c \in Conns |-> "none"]
      /\ ctx = [c \in Conns |-> "none"]
      /\ ref_count = [c \in Conns |-> 0]
      /\ running = [w \in Workers |-> NoConn]
      /\ abandoned = {}
    BY DEF Init, Pool!Init
<1> QED
    BY <1>1 DEF Alive, Counts

(***************************************************************************)
(* Theorems                                                                *)
(***************************************************************************)

WholeInvariant == Shape /\ Tables /\ Places /\ Located /\ Alive /\ Counts

LEMMA WholeInvariance == Spec => []WholeInvariant
<1>1. Init => WholeInvariant
    BY ShapeInit, TablesPlacesInit, LocatedInit, AliveCountsInit
    DEF WholeInvariant
<1>2. WholeInvariant /\ [Next]_vars => WholeInvariant'
    <2> SUFFICES ASSUME WholeInvariant, [Next]_vars PROVE WholeInvariant'
        OBVIOUS
    <2>1. Shape' /\ Tables' /\ Places'
        BY ShapeStep, TablesPlacesStep DEF WholeInvariant
    <2>2. Located'
        BY LocatedStep DEF WholeInvariant
    <2>3. Alive' /\ Counts'
        BY AliveCountsStep DEF WholeInvariant
    <2> QED
        BY <2>1, <2>2, <2>3 DEF WholeInvariant
<1> QED
    BY <1>1, <1>2, PTL DEF Spec

\* Every variable has its type; that a reference count never drops below zero
\* takes the whole invariant.
THEOREM TypeOKAlways == Spec => []TypeOK
<1>1. WholeInvariant => TypeOK
    <2> SUFFICES ASSUME WholeInvariant PROVE TypeOK
        OBVIOUS
    <2>1. \A c \in Conns : ref_count[c] \in Nat
        <3> SUFFICES ASSUME NEW c \in Conns PROVE ref_count[c] \in Nat
            OBVIOUS
        <3>1. ctx[c] \in {"none", "live", "freed"}
            BY DEF WholeInvariant, Shape
        <3> QED
            BY <3>1, CountPositive DEF WholeInvariant, Counts
    <2>2. ref_count \in [Conns -> Nat]
        BY <2>1 DEF WholeInvariant, Shape
    <2> QED
        BY <2>2 DEF WholeInvariant, Shape, TypeOK
<1> QED
    BY <1>1, WholeInvariance, PTL

\* The count of a live context is exactly one for the creator, one for each task
\* submitted, queued or run and one for a handler lost to an exception.
THEOREM RefBalanceAlways == Spec => []RefBalance
<1>1. WholeInvariant => RefBalance
    <2> SUFFICES ASSUME WholeInvariant, NEW c \in Conns, ctx[c] = "live"
                 PROVE  ref_count[c] = 1
                            + One(apc = "submit" /\ cur = c)
                            + Cardinality({i \in DOMAIN queue : queue[i] = c})
                            + Cardinality({w \in Workers : running[w] = c})
                            + One(c \in abandoned)
        BY DEF RefBalance, One
    <2> DEFINE places == {i \in DOMAIN queue : queue[i] = c}
    <2>1. DOMAIN queue = 1..Len(queue)
        BY LenProperties DEF WholeInvariant, Shape
    <2>2. ASSUME Queued(c) PROVE Cardinality(places) = One(Queued(c))
        <3>1. PICK i \in 1..Len(queue) : queue[i] = c
            BY <2>2 DEF Queued
        <3>2. places = {i}
            BY <2>1, <3>1 DEF WholeInvariant, Places
        <3>3. Cardinality({i}) = 1
            BY FS_Singleton
        <3> QED
            BY <2>2, <3>2, <3>3 DEF One
    <2>3. ASSUME ~Queued(c) PROVE Cardinality(places) = One(Queued(c))
        <3>1. places = {}
            BY <2>1, <2>3 DEF Queued
        <3> QED
            BY <2>3, <3>1, FS_EmptySet DEF One
    <2>4. Cardinality(places) = One(Queued(c))
        BY <2>2, <2>3
    <2>5. ref_count[c] = Count(c)
        BY DEF WholeInvariant, Counts
    <2> QED
        BY <2>4, <2>5, HandlersFinite DEF Count, Handlers
<1> QED
    BY <1>1, WholeInvariance, PTL

\* No event, queued task, handler or registration points to a context that has
\* been deleted, or that does not exist yet.
THEOREM NoDanglingAlways == Spec => []NoDangling
<1>1. WholeInvariant => NoDangling
    <2> SUFFICES ASSUME WholeInvariant, NEW c \in Conns, ctx[c] # "live"
                 PROVE  /\ c # cur /\ c \notin events
                        /\ \A f \in FDs : interest[f] # c
                        /\ \A i \in DOMAIN queue : queue[i] # c
                        /\ \A w \in Workers : running[w] # c
        BY DEF NoDangling
    <2>1. c # NoConn
        BY SentinelAssumption
    <2>2. sock[c] # "open"
        BY DEF WholeInvariant, Alive
    <2>3. ~At(c)
        BY <2>2 DEF WholeInvariant, Located
    <2>4. DOMAIN queue = 1..Len(queue)
        BY LenProperties DEF WholeInvariant, Shape
    <2>5. \A f \in FDs : interest[f] # c
        BY <2>1, <2>2 DEF WholeInvariant, Tables
    <2>6. \A w \in Workers : running[w] # c
        BY <2>1 DEF WholeInvariant, Alive
    <2> QED
        BY <2>3, <2>4, <2>5, <2>6 DEF At, Queued
<1> QED
    BY <1>1, WholeInvariance, PTL

\* An open connection can always still be handled from somewhere, unless an
\* exception has unwound its handler.
THEOREM NeverForgottenAlways == Spec => []NeverForgotten
<1>1. WholeInvariant => NeverForgotten
    <2> SUFFICES ASSUME WholeInvariant, NEW c \in Conns, sock[c] = "open",
                        c \notin abandoned
                 PROVE  \E x : x \in Whereabouts(c)
        BY DEF NeverForgotten
    <2>1. At(c)
        BY DEF WholeInvariant, Located
    <2>2. DOMAIN queue = 1..Len(queue)
        BY LenProperties DEF WholeInvariant, Shape
    <2>3. CASE \E f \in armed : interest[f] = c
        BY <2>3 DEF Whereabouts
    <2>4. CASE c \in events
        BY <2>4 DEF Whereabouts
    <2>5. CASE c = cur
        BY <2>5 DEF Whereabouts
    <2>6. CASE Queued(c)
        BY <2>2, <2>6 DEF Whereabouts, Queued
    <2>7. CASE \E w \in Busy : running[w] = c
        BY <2>7 DEF Whereabouts, Busy
    <2> QED
        BY <2>1, <2>3, <2>4, <2>5, <2>6, <2>7 DEF At
<1> QED
    BY <1>1, WholeInvariance, PTL
=============================================================================
