--------------------------- MODULE LifecycleProofs ---------------------------
(***************************************************************************)
(* Proofs about Lifecycle, for any number of workers and connections and   *)
(* for each program: nobody is inside the pool when it goes, and what was  *)
(* pushed in time has ended by then.                                       *)
(*                                                                         *)
(* Every step of the program is a step of the pool or leaves it alone, so  *)
(* the invariants of ThreadPoolProofs hold here too.                       *)
(***************************************************************************)
EXTENDS Lifecycle, FiniteSetTheorems, SequenceTheorems, TLAPS

Proved == INSTANCE ThreadPoolProofs
          WITH Submitters <- {"loop"}, Detached <- {"loop"},
               Jobs <- Conns, NoJob <- NoConn

(***************************************************************************)
(* The inductive invariant                                                 *)
(***************************************************************************)

PoolInv ==
    /\ Proved!TypeInv
    /\ Proved!FifoStart
    /\ Proved!OnceInv
    /\ Proved!StopInv

\* The program's own variables; what of the pool is left at each stage of main.
OwnInv ==
    /\ program \in Programs
    /\ process \in {"running", "exited", "aborted", "crashed"}
    /\ mpc \in {"listen", "detach", "wait", "derived", "callbacks", "pool", "free",
                "return"}
    /\ lpc \in {"none", "create", "poll", "ended"}
    /\ conn \in [Conns -> {"away", "backlog", "armed", "tasked"}]
    /\ served \in [Conns -> {"none", "site", "base", "dead", "closed"}]
    /\ CASE mpc = "pool"              -> dpc # "destroyed"
         [] mpc \in {"free", "return"} -> dpc = "destroyed"
         [] OTHER                      -> dpc = "alive"

\* A worker only leaves when the pool has been told to stop and the queue is empty.
\* Later tasks may come then, but none that was pushed before.
EarlyInv ==
    /\ before \subseteq Conns
    /\ before \subseteq ToSet(submitted)
    /\ (\E w \in Workers : wpc[w] = "exited") =>
          dpc # "alive" /\ before \cap ToSet(m_jobs) = {}

Inv == PoolInv /\ OwnInv /\ EarlyInv

(***************************************************************************)
(* The pool inside the program                                             *)
(***************************************************************************)

\* What ThreadPoolProofs assumes.
LEMMA PoolAssumptions ==
    /\ NumWorkers \in Nat \ {0}
    /\ NoConn \notin Conns
    /\ Proved!IsFiniteSet({"loop"})
    /\ {"loop"} \subseteq {"loop"}
<1>1. IsFiniteSet({"loop"})
    BY FS_Singleton
<1> QED
    BY <1>1, NumWorkersAssumption, NoConnAssumption
    DEF Proved!IsFiniteSet, IsFiniteSet

LEMMA PoolInvInit == Init => PoolInv
<1>1. Init => Proved!Init
    BY DEF Init, Pool!Init, Proved!Init, Pool!Workers, Proved!Workers
<1>2. Proved!Init => PoolInv
    BY PoolAssumptions, Proved!TypeInvInit, Proved!FifoInit, Proved!OnceInvInit,
       Proved!StopInvInit
    DEF PoolInv
<1> QED
    BY <1>1, <1>2

\* Every step of the program is one of the pool, or none.
LEMMA PoolStep == [Next]_vars => [Proved!Next]_(Proved!vars)
<1> SUFFICES ASSUME [Next]_vars PROVE Proved!Next \/ UNCHANGED Proved!vars
    OBVIOUS
<1> USE DEF Pool!poolVars, Pool!historyVars, Pool!ownerVars, Proved!poolVars,
            Proved!historyVars, Proved!ownerVars, Pool!Waiting, Proved!Waiting,
            Pool!Workers, Proved!Workers, Workers
<1>1. CASE UNCHANGED poolVars
    BY <1>1 DEF poolVars, Proved!vars
<1>2. ASSUME NEW c \in Conns, Pool!Push("loop", c)
      PROVE  Proved!Next
    BY <1>2 DEF Pool!Push, Proved!Push, Proved!Next, Proved!Submitter, Pool!ToSet,
                Proved!ToSet
<1>3. CASE Pool!NotifyOne("loop")
    BY <1>3 DEF Pool!NotifyOne, Proved!NotifyOne, Proved!Next, Proved!Submitter
<1>4. ASSUME NEW w \in Workers,
             \/ Pool!Wait(w) \/ Pool!Exit(w) \/ Pool!TakeJob(w)
             \/ Pool!SpuriousWakeup(w) \/ Pool!JobReturns(w)
      PROVE  Proved!Next
    BY <1>4 DEF Pool!Wait, Pool!Exit, Pool!TakeJob, Pool!SpuriousWakeup,
                Pool!JobReturns, Proved!Wait, Proved!Exit, Proved!TakeJob,
                Proved!SpuriousWakeup, Proved!JobReturns, Proved!Worker, Proved!Next
<1>5. CASE Pool!Destructor
    BY <1>5 DEF Pool!Destructor, Pool!SetStop, Pool!NotifyAll, Pool!Join,
                Pool!Destroy, Proved!Destructor, Proved!SetStop, Proved!NotifyAll,
                Proved!Join, Proved!Destroy, Proved!Next
<1>6. CASE Main
    BY <1>1, <1>5, <1>6
    DEF Main, SetUpFails, Listen, Detach, Quit, EndDerived, DestroyCallbacks,
        DemoSetUpFails, DemoListens, DemoReturns, DestroyPool, Free, Return
<1>7. CASE AcceptLoop
    BY <1>1, <1>2, <1>3, <1>7
    DEF AcceptLoop, CreateEpoll, PollFails, AcceptConn, Emplace, EmplaceNotifies
<1>8. ASSUME NEW w \in Workers, Worker(w)
      PROVE  Proved!Next \/ UNCHANGED poolVars
    BY <1>4, <1>8 DEF Worker, Idle, OnMessage, NoMessage, HandlerReturns
<1>9. ASSUME NEW c \in Conns, Connect(c)
      PROVE  UNCHANGED poolVars
    BY <1>9 DEF Connect
<1>10. CASE Over \/ UNCHANGED vars
    BY <1>1, <1>10 DEF Over, vars
<1> QED
    BY <1>1, <1>6, <1>7, <1>8, <1>9, <1>10 DEF Next

LEMMA PoolInvStep == PoolInv /\ [Next]_vars => PoolInv'
<1> SUFFICES ASSUME PoolInv, [Next]_vars PROVE PoolInv'
    OBVIOUS
<1>1. [Proved!Next]_(Proved!vars)
    BY PoolStep
<1>2. Proved!TypeInv'
    BY <1>1, PoolAssumptions, Proved!TypeInvStep DEF PoolInv
<1>3. Proved!FifoStart'
    BY <1>1, PoolAssumptions, Proved!FifoStep DEF PoolInv
<1>4. Proved!OnceInv'
    BY <1>1, PoolAssumptions, Proved!OnceInvStep DEF PoolInv
<1>5. Proved!StopInv'
    BY <1>1, PoolAssumptions, Proved!StopInvStep DEF PoolInv
<1> QED
    BY <1>2, <1>3, <1>4, <1>5 DEF PoolInv

\* What is used of the pool below, in this module's words.
LEMMA PoolFacts ==
    ASSUME PoolInv
    PROVE  /\ Pool!TypeOK
           /\ m_jobs \in Seq(Conns) /\ submitted \in Seq(Conns) /\ started \in Seq(Conns)
           /\ wpc \in [Workers -> {"locking", "waiting", "running", "exited"}]
           /\ started \o m_jobs = submitted
           /\ \A w \in Workers : wpc[w] = "running" => job[w] \in Conns
           /\ dpc = "destroyed" => \A w \in Workers : wpc[w] = "exited"
           /\ \A c \in ToSet(started) \ finished : \E w \in Workers : wpc[w] = "running"
           /\ m_stop <=> dpc # "alive"
<1> USE DEF PoolInv, Workers, Proved!Workers, Pool!Workers
<1>1. Pool!TypeOK
    BY DEF Proved!TypeInv, Proved!TypeOK, Pool!TypeOK
<1>2. started \o m_jobs = submitted
    BY DEF Proved!FifoStart
<1>3. dpc = "destroyed" => \A w \in Workers : wpc[w] = "exited"
    BY DEF Proved!StopInv
<1>4. \A c \in ToSet(started) \ finished : \E w \in Workers : wpc[w] = "running"
    BY DEF Proved!OnceInv, Proved!ToSet, ToSet
<1>5. \A w \in Workers : wpc[w] = "running" => job[w] \in Conns
    BY DEF Proved!TypeInv
<1>6. m_stop <=> dpc # "alive"
    BY DEF Proved!StopInv
<1> QED
    BY <1>1, <1>2, <1>3, <1>4, <1>5, <1>6 DEF Pool!TypeOK

(***************************************************************************)
(* The invariant holds                                                     *)
(***************************************************************************)

LEMMA InvInit == Init => Inv
<1> SUFFICES ASSUME Init PROVE Inv
    OBVIOUS
<1>1. PoolInv
    BY PoolInvInit
<1>2. OwnInv
    BY DEF Init, Pool!Init, OwnInv
<1>3. EarlyInv
    BY DEF Init, Pool!Init, Pool!Workers, Workers, EarlyInv
<1> QED
    BY <1>1, <1>2, <1>3 DEF Inv

\* main only goes behind ~ThreadPool when that has returned.
LEMMA MainStep == Inv /\ Main => OwnInv'
<1> SUFFICES ASSUME Inv, Main PROVE OwnInv'
    OBVIOUS
<1> USE DEF Inv, OwnInv, GoTo, Becomes
<1>1. CASE DestroyPool
    <2>1. CASE Pool!SetStop
        BY <1>1, <2>1 DEF DestroyPool, Pool!SetStop
    <2>2. CASE Pool!NotifyAll
        BY <1>1, <2>2 DEF DestroyPool, Pool!NotifyAll
    <2>3. CASE Pool!Join
        BY <1>1, <2>3 DEF DestroyPool, Pool!Join
    <2>4. CASE Pool!Destroy
        BY <1>1, <2>4 DEF DestroyPool, Pool!Destroy
    <2> QED
        BY <1>1, <2>1, <2>2, <2>3, <2>4 DEF DestroyPool, Pool!Destructor
<1>2. CASE SetUpFails \/ Listen \/ Detach \/ Quit \/ EndDerived \/ DestroyCallbacks
    BY <1>2 DEF SetUpFails, Listen, Detach, Quit, EndDerived, DestroyCallbacks, poolVars
<1>3. CASE DemoSetUpFails \/ DemoListens \/ DemoReturns \/ Free \/ Return
    BY <1>3 DEF DemoSetUpFails, DemoListens, DemoReturns, Free, Return, poolVars
<1> QED
    BY <1>1, <1>2, <1>3 DEF Main

LEMMA OwnInvStep == Inv /\ [Next]_vars => OwnInv'
<1> SUFFICES ASSUME Inv, [Next]_vars PROVE OwnInv'
    OBVIOUS
<1>1. \A w \in Workers : wpc[w] = "running" => job[w] \in Conns
    BY PoolFacts DEF Inv
<1> USE DEF Inv, OwnInv, Becomes
<1>2. ASSUME UNCHANGED <<dpc, program, mpc>>,
             process' \in {"running", "exited", "aborted", "crashed"},
             lpc' \in {"none", "create", "poll", "ended"},
             conn' \in [Conns -> {"away", "backlog", "armed", "tasked"}],
             served' \in [Conns -> {"none", "site", "base", "dead", "closed"}]
      PROVE  OwnInv'
    BY <1>2
<1>3. ASSUME NEW alive, Uses(alive)
      PROVE  process' \in {"running", "exited", "aborted", "crashed"}
    BY <1>3 DEF Uses
<1>4. ASSUME NEW c \in Conns, Connect(c)
      PROVE  OwnInv'
    BY <1>2, <1>4 DEF Connect, poolVars
<1>5. CASE CreateEpoll
    <2>1. UNCHANGED <<dpc, program, mpc, conn, served>> /\ lpc' = "poll"
        BY <1>5 DEF CreateEpoll, poolVars
    <2>2. process' \in {"running", "exited", "aborted", "crashed"}
        BY <1>3, <1>5 DEF CreateEpoll
    <2> QED
        BY <1>2, <2>1, <2>2
<1>6. CASE PollFails
    BY <1>2, <1>6 DEF PollFails, poolVars
<1>7. ASSUME NEW c \in Conns, AcceptConn(c)
      PROVE  OwnInv'
    <2>1. /\ UNCHANGED <<dpc, program, mpc, lpc, served>>
          /\ conn' = [conn EXCEPT ![c] = "armed"]
        BY <1>7 DEF AcceptConn, poolVars
    <2>2. process' \in {"running", "exited", "aborted", "crashed"}
        BY <1>3, <1>7 DEF AcceptConn
    <2> QED
        BY <1>2, <2>1, <2>2
<1>8. ASSUME NEW c \in Conns, Emplace(c)
      PROVE  OwnInv'
    <2>1. /\ UNCHANGED <<dpc, program, mpc, lpc, served>>
          /\ conn' = [conn EXCEPT ![c] = "tasked"]
        BY <1>8 DEF Emplace, poolVars, Pool!Push, Pool!ownerVars
    <2>2. process' \in {"running", "exited", "aborted", "crashed"}
        BY <1>3, <1>8 DEF Emplace
    <2> QED
        BY <1>2, <2>1, <2>2
<1>9. CASE EmplaceNotifies
    <2>1. UNCHANGED <<dpc, program, mpc, lpc, conn, served>>
        BY <1>9 DEF EmplaceNotifies, Pool!NotifyOne, Pool!ownerVars
    <2>2. process' \in {"running", "exited", "aborted", "crashed"}
        BY <1>3, <1>9 DEF EmplaceNotifies
    <2> QED
        BY <1>2, <2>1, <2>2
<1>10. ASSUME NEW w \in Workers, Idle(w) \/ HandlerReturns(w)
       PROVE  OwnInv'
    <2>1. UNCHANGED <<dpc, ownVars>>
        BY <1>10 DEF Idle, HandlerReturns, Pool!Wait, Pool!Exit, Pool!TakeJob,
                    Pool!SpuriousWakeup, Pool!JobReturns, Pool!ownerVars
    <2> QED
        BY <1>2, <2>1 DEF ownVars
<1>11. ASSUME NEW w \in Workers, OnMessage(w) \/ NoMessage(w)
       PROVE  OwnInv'
    <2>1. /\ UNCHANGED <<dpc, program, mpc, lpc, conn>>
          /\ job[w] \in Conns
          /\ \E r \in {"site", "base", "dead", "closed"} :
                served' = [served EXCEPT ![job[w]] = r]
        BY <1>1, <1>11 DEF OnMessage, NoMessage, poolVars
    <2>2. process' \in {"running", "exited", "aborted", "crashed"}
        BY <1>3, <1>11 DEF OnMessage, NoMessage
    <2> QED
        BY <1>2, <2>1, <2>2
<1>12. CASE Over \/ UNCHANGED vars
    BY <1>12 DEF Over, vars, poolVars, ownVars
<1> QED
    BY <1>4, <1>5, <1>6, <1>7, <1>8, <1>9, <1>10, <1>11, <1>12, MainStep
    DEF Next, AcceptLoop, Worker

(***************************************************************************)
(* The tasks that came in time                                             *)
(***************************************************************************)

\* The elements of a queue after a push and after a pop.
LEMMA QueueElements ==
    ASSUME NEW S, NEW q \in Seq(S)
    PROVE  /\ ToSet(<<>>) = {}
           /\ ToSet(q) \subseteq S
           /\ \A e \in S : ToSet(Append(q, e)) = ToSet(q) \cup {e}
           /\ q # <<>> => ToSet(Tail(q)) \subseteq ToSet(q)
<1>1. /\ Len(q) \in Nat /\ DOMAIN q = 1..Len(q)
      /\ \A i \in 1..Len(q) : q[i] \in S
    BY LenProperties, ElementOfSeq
<1>2. ASSUME NEW e \in S
      PROVE  ToSet(Append(q, e)) = ToSet(q) \cup {e}
    <2>1. /\ Append(q, e) \in Seq(S)
          /\ Len(Append(q, e)) = Len(q) + 1
          /\ \A i \in 1..Len(q) : Append(q, e)[i] = q[i]
          /\ Append(q, e)[Len(q) + 1] = e
        BY AppendProperties
    <2>2. DOMAIN Append(q, e) = 1..Len(q) + 1
        BY <2>1, LenProperties
    <2> QED
        BY <1>1, <2>1, <2>2 DEF ToSet
<1>3. ASSUME q # <<>>
      PROVE  ToSet(Tail(q)) \subseteq ToSet(q)
    <2>1. /\ Tail(q) \in Seq(S) /\ Len(Tail(q)) = Len(q) - 1
          /\ \A i \in 1..Len(Tail(q)) : Tail(q)[i] = q[i + 1]
        BY <1>3, HeadTailProperties
    <2>2. DOMAIN Tail(q) = 1..Len(q) - 1
        BY <2>1, LenProperties
    <2>3. \A i \in 1..Len(q) - 1 : i + 1 \in 1..Len(q)
        BY <1>1
    <2> QED
        BY <1>1, <2>1, <2>2, <2>3 DEF ToSet
<1> QED
    BY <1>1, <1>2, <1>3 DEF ToSet

\* The elements of two queues, one behind the other.
LEMMA ConcatElements ==
    ASSUME NEW S, NEW q \in Seq(S), NEW r \in Seq(S)
    PROVE  ToSet(q \o r) \subseteq ToSet(q) \cup ToSet(r)
<1>1. /\ Len(q) \in Nat /\ DOMAIN q = 1..Len(q)
      /\ Len(r) \in Nat /\ DOMAIN r = 1..Len(r)
    BY LenProperties
<1>2. /\ q \o r \in Seq(S) /\ Len(q \o r) = Len(q) + Len(r)
      /\ \A i \in 1..Len(q) + Len(r) :
            (q \o r)[i] = IF i <= Len(q) THEN q[i] ELSE r[i - Len(q)]
    BY ConcatProperties
<1>3. DOMAIN (q \o r) = 1..Len(q) + Len(r)
    BY <1>2, LenProperties
<1>4. ASSUME NEW i \in 1..Len(q) + Len(r)
      PROVE  (q \o r)[i] \in ToSet(q) \cup ToSet(r)
    <2>1. CASE i <= Len(q)
        BY <1>1, <1>2, <2>1 DEF ToSet
    <2>2. CASE ~(i <= Len(q))
        <3>1. i - Len(q) \in 1..Len(r)
            BY <1>1, <2>2
        <3> QED
            BY <1>1, <1>2, <2>2, <3>1 DEF ToSet
    <2> QED
        BY <2>1, <2>2
<1> QED
    BY <1>3, <1>4 DEF ToSet

LEMMA EarlyStop == Inv /\ DestroyPool => EarlyInv'
<1> SUFFICES ASSUME Inv, DestroyPool PROVE EarlyInv'
    OBVIOUS
<1>1. EarlyInv /\ PoolInv
    BY DEF Inv
<1>2. CASE Pool!SetStop
    <2>1. /\ dpc = "alive" /\ dpc' = "notify_all" /\ before' = ToSet(submitted)
          /\ UNCHANGED <<m_jobs, wpc, submitted>>
        BY <1>2 DEF DestroyPool, Pool!SetStop, Pool!historyVars
    <2>2. ToSet(submitted) \subseteq Conns
        BY <1>1, PoolFacts, QueueElements
    <2> QED
        BY <1>1, <2>1, <2>2 DEF EarlyInv
<1>3. CASE Pool!NotifyAll \/ Pool!Join \/ Pool!Destroy
    <2>1. /\ dpc # "alive" /\ dpc' # "alive" /\ before' = before
          /\ UNCHANGED <<m_jobs, submitted>>
        BY <1>3 DEF DestroyPool, Pool!NotifyAll, Pool!Join, Pool!Destroy,
                    Pool!historyVars, Pool!poolVars
    <2>2. \A w \in Workers : wpc'[w] = "exited" => wpc[w] = "exited"
        BY <1>1, <1>3, PoolFacts
        DEF Pool!NotifyAll, Pool!Join, Pool!Destroy, Pool!Workers, Workers
    <2> QED
        BY <1>1, <2>1, <2>2 DEF EarlyInv
<1> QED
    BY <1>2, <1>3 DEF DestroyPool, Pool!Destructor

\* A later task is none of the early ones, and a worker only leaves an empty queue.
LEMMA EarlyInvStep == Inv /\ [Next]_vars => EarlyInv'
<1> SUFFICES ASSUME Inv, [Next]_vars PROVE EarlyInv'
    OBVIOUS
<1>1. EarlyInv /\ PoolInv
    BY DEF Inv
<1>2. /\ m_jobs \in Seq(Conns) /\ submitted \in Seq(Conns)
      /\ wpc \in [Workers -> {"locking", "waiting", "running", "exited"}]
      /\ m_stop <=> dpc # "alive"
    BY <1>1, PoolFacts
<1>3. ASSUME UNCHANGED <<before, submitted, dpc>>, ToSet(m_jobs)' \subseteq ToSet(m_jobs),
             \A w \in Workers : wpc'[w] = "exited" => wpc[w] = "exited"
      PROVE  EarlyInv'
    BY <1>1, <1>3 DEF EarlyInv
<1>4. CASE UNCHANGED <<poolVars, before>>
    BY <1>3, <1>4 DEF poolVars
<1>5. ASSUME NEW c \in Conns, Pool!Push("loop", c), before' = before
      PROVE  EarlyInv'
    <2>1. /\ c \notin ToSet(submitted)
          /\ m_jobs' = Append(m_jobs, c) /\ submitted' = Append(submitted, c)
          /\ UNCHANGED <<wpc, dpc>>
        BY <1>5 DEF Pool!Push, Pool!ownerVars, Pool!ToSet, ToSet
    <2>2. /\ ToSet(m_jobs)' = ToSet(m_jobs) \cup {c}
          /\ ToSet(submitted)' = ToSet(submitted) \cup {c}
        BY <1>2, <2>1, QueueElements
    <2>3. c \notin before
        BY <1>1, <2>1 DEF EarlyInv
    <2> QED
        BY <1>1, <1>5, <2>1, <2>2, <2>3 DEF EarlyInv
<1>6. ASSUME Pool!NotifyOne("loop"), before' = before
      PROVE  EarlyInv'
    <2>1. /\ UNCHANGED <<m_jobs, submitted, dpc>>
          /\ \A w \in Workers : wpc'[w] = "exited" => wpc[w] = "exited"
        BY <1>2, <1>6 DEF Pool!NotifyOne, Pool!poolVars, Pool!historyVars, Pool!ownerVars,
                          Pool!Waiting, Pool!Workers, Workers
    <2> QED
        BY <1>3, <1>6, <2>1
<1>7. ASSUME NEW w \in Workers, before' = before,
             Pool!Wait(w) \/ Pool!SpuriousWakeup(w) \/ Pool!JobReturns(w)
      PROVE  EarlyInv'
    <2>1. /\ UNCHANGED <<m_jobs, submitted, dpc>>
          /\ \A v \in Workers : wpc'[v] = "exited" => wpc[v] = "exited"
        BY <1>2, <1>7 DEF Pool!Wait, Pool!SpuriousWakeup, Pool!JobReturns, Pool!poolVars,
                          Pool!historyVars, Pool!ownerVars
    <2> QED
        BY <1>3, <1>7, <2>1
<1>8. ASSUME NEW w \in Workers, before' = before, Pool!TakeJob(w)
      PROVE  EarlyInv'
    <2>1. /\ UNCHANGED <<submitted, dpc>> /\ m_jobs # <<>> /\ m_jobs' = Tail(m_jobs)
          /\ \A v \in Workers : wpc'[v] = "exited" => wpc[v] = "exited"
        BY <1>2, <1>8 DEF Pool!TakeJob, Pool!ownerVars
    <2>2. ToSet(m_jobs)' \subseteq ToSet(m_jobs)
        BY <1>2, <2>1, QueueElements
    <2> QED
        BY <1>3, <1>8, <2>1, <2>2
<1>9. ASSUME NEW w \in Workers, before' = before, Pool!Exit(w)
      PROVE  EarlyInv'
    <2>1. UNCHANGED <<m_jobs, submitted, dpc>> /\ m_stop /\ m_jobs = <<>>
        BY <1>9 DEF Pool!Exit, Pool!poolVars, Pool!historyVars, Pool!ownerVars
    <2>2. ToSet(m_jobs)' = {}
        BY <1>2, <2>1, QueueElements
    <2> QED
        BY <1>1, <1>2, <1>9, <2>1, <2>2 DEF EarlyInv
<1>10. CASE Main
    BY <1>4, <1>10, EarlyStop
    DEF Main, SetUpFails, Listen, Detach, Quit, EndDerived, DestroyCallbacks,
        DemoSetUpFails, DemoListens, DemoReturns, Free, Return
<1>11. CASE AcceptLoop
    BY <1>4, <1>5, <1>6, <1>11
    DEF AcceptLoop, CreateEpoll, PollFails, AcceptConn, Emplace, EmplaceNotifies
<1>12. ASSUME NEW w \in Workers, Worker(w)
       PROVE  EarlyInv'
    BY <1>4, <1>7, <1>8, <1>9, <1>12
    DEF Worker, Idle, OnMessage, NoMessage, HandlerReturns, ownVars
<1>13. ASSUME NEW c \in Conns, Connect(c)
       PROVE  EarlyInv'
    BY <1>4, <1>13 DEF Connect
<1>14. CASE Over \/ UNCHANGED vars
    BY <1>4, <1>14 DEF Over, vars, ownVars
<1> QED
    BY <1>10, <1>11, <1>12, <1>13, <1>14 DEF Next

LEMMA InvAlways == Spec => []Inv
<1>1. Inv /\ [Next]_vars => Inv'
    BY PoolInvStep, OwnInvStep, EarlyInvStep DEF Inv
<1> QED
    BY <1>1, InvInit, PTL DEF Spec

(***************************************************************************)
(* Theorems                                                                *)
(***************************************************************************)

LEMMA StageSet ==
    /\ ToSet(Stages) = {"listen", "detach", "wait", "derived", "callbacks", "pool",
                        "free", "return"}
    /\ ~Before("free") /\ mpc \in ToSet(Stages) => mpc \in {"free", "return"}
<1>1. DOMAIN Stages = 1..8
    BY DEF Stages
<1>2. /\ Stages[1] = "listen" /\ Stages[2] = "detach" /\ Stages[3] = "wait"
      /\ Stages[4] = "derived" /\ Stages[5] = "callbacks" /\ Stages[6] = "pool"
      /\ Stages[7] = "free" /\ Stages[8] = "return"
    BY DEF Stages
<1>3. \A i \in 1..8 : i \in {1, 2, 3, 4, 5, 6, 7, 8}
    OBVIOUS
<1> HIDE DEF Stages
<1>4. ToSet(Stages) = {Stages[i] : i \in 1..8}
    BY <1>1 DEF ToSet
<1>5. ToSet(Stages) = {"listen", "detach", "wait", "derived", "callbacks", "pool",
                       "free", "return"}
    BY <1>2, <1>3, <1>4
<1>6. \A i \in 1..6 : Stages[i] = mpc => Before("free")
    BY <1>1, <1>2 DEF Before
<1> QED
    BY <1>2, <1>5, <1>6

\* All state has its type, the pool's with it.
THEOREM TypeOKAlways == Spec => []TypeOK
<1>1. Inv => TypeOK
    BY PoolFacts, StageSet DEF Inv, OwnInv, EarlyInv, TypeOK
<1> QED
    BY <1>1, InvAlways, PTL

\* When the pool's members go, and behind them the server's memory, each worker
\* has left JobHandler: whatever the detached loop has pushed meanwhile.
THEOREM WorkersOutlivedAlways == Spec => []WorkersOutlived
<1>1. Inv => WorkersOutlived
    <2> SUFFICES ASSUME Inv, ~Before("free")
                 PROVE  \A w \in Workers : wpc[w] = "exited"
        BY DEF WorkersOutlived
    <2>1. mpc \in {"free", "return"}
        BY StageSet DEF Inv, OwnInv
    <2>2. dpc = "destroyed"
        BY <2>1 DEF Inv, OwnInv
    <2> QED
        BY <2>2, PoolFacts DEF Inv
<1> QED
    BY <1>1, InvAlways, PTL

\* Each task pushed before the pool was told to stop has ended when ~ThreadPool
\* returns, although the loop may push others that nobody runs.
THEOREM EarlyTasksEndAlways == Spec => []EarlyTasksEnd
<1>1. Inv => EarlyTasksEnd
    <2> SUFFICES ASSUME Inv, ~Before("free")
                 PROVE  before \subseteq finished
        BY DEF EarlyTasksEnd
    <2>1. mpc \in {"free", "return"}
        BY StageSet DEF Inv, OwnInv
    <2>2. dpc = "destroyed"
        BY <2>1 DEF Inv, OwnInv
    <2>3. \A w \in Workers : wpc[w] = "exited"
        BY <2>2, PoolFacts DEF Inv
    <2>4. 1 \in Workers
        BY NumWorkersAssumption DEF Workers
    <2>5. before \subseteq ToSet(submitted) /\ before \cap ToSet(m_jobs) = {}
        BY <2>3, <2>4 DEF Inv, EarlyInv
    <2>6. ToSet(submitted) \subseteq ToSet(started) \cup ToSet(m_jobs)
        BY PoolFacts, ConcatElements DEF Inv
    <2>7. ToSet(started) \subseteq finished
        BY <2>3, PoolFacts DEF Inv
    <2> QED
        BY <2>5, <2>6, <2>7
<1> QED
    BY <1>1, InvAlways, PTL
=============================================================================
