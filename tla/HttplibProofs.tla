---------------------------- MODULE HttplibProofs ----------------------------
(***************************************************************************)
(* Proofs about HttplibServer, for any number of threads, connections and  *)
(* requests: the pool's lists and wake-ups, that it is a task queue, that  *)
(* a connection is served by one thread, and what its client is told.      *)
(***************************************************************************)
EXTENDS HttplibServer, SequenceTheorems, FiniteSetTheorems,
        WellFoundedInduction, TLAPS

(***************************************************************************)
(* The pool: its inductive invariant                                       *)
(***************************************************************************)

\* The types, and a thread has a job exactly while it runs one.
PoolShape ==
    /\ jobs_ \in Seq(Conns)
    /\ shutdown_ \in BOOLEAN
    /\ tpc \in [Threads -> Pool!ThreadStates]
    /\ job \in [Threads -> Conns \cup {NoConn}]
    /\ opc \in Pool!OwnerStates
    /\ \A t \in Threads : job[t] = NoConn <=> tpc[t] # "running"

\* Where shutdown() is, and what the base threads have done by then.
Phases ==
    /\ shutdown_ <=> opc \in {"notify_all", "joinbase", "joindynamic", "done"}
    /\ opc # "joindynamic" => remaining = {}
    /\ opc \in {"joindynamic", "done"} =>
          dynamic_threads_ = {} /\ (\A t \in Base : tpc[t] = "ended")
    /\ \A t \in Base :
          /\ tpc[t] \notin {"none", "after", "leaving"}
          /\ tpc[t] = "ended" => shutdown_ /\ jobs_ = <<>>

\* A dynamic thread exists exactly while one list, and only one, has it; the
\* finished ones never touch the pool again.
Lists ==
    /\ dynamic_threads_ \subseteq Dynamic
    /\ finished_threads_ \subseteq Dynamic
    /\ remaining \subseteq Dynamic
    /\ dynamic_threads_ \cap finished_threads_ = {}
    /\ dynamic_threads_ \cap remaining = {}
    /\ finished_threads_ \cap remaining = {}
    /\ \A t \in Dynamic :
          tpc[t] = "none" <=>
              t \notin dynamic_threads_ \cup finished_threads_ \cup remaining
    /\ \A t \in finished_threads_ : tpc[t] \in {"leaving", "ended"}

Idle == {t \in Threads : tpc[t] \in {"waiting", "woken"}}
IdleCounted == idle_thread_count_ = Cardinality(Idle)

PoolInv == PoolShape /\ Phases /\ Lists /\ IdleCounted /\ Pool!NoJobAsleep

\* The steps of the pool, as the server takes them.
PoolNext ==
    \/ \E c \in Conns : Pool!Push(c)
    \/ Pool!CleanUpAndSpawn \/ Pool!NotifyOne
    \/ Pool!SetShutdown \/ Pool!NotifyAll \/ Pool!JoinBase \/ Pool!JoinDynamic
    \/ \E t \in Threads :
          \/ Pool!Wait(t) \/ Pool!WakeUp(t) \/ Pool!Take(t) \/ Pool!ShutDown(t)
          \/ Pool!TimeOut(t) \/ Pool!Return(t) \/ Pool!AfterJob(t) \/ Pool!End(t)
    \/ UNCHANGED poolVars

\* Whatever the server does, it does nothing else to its pool.
LEMMA ServerStepsPool == [Next]_vars => PoolNext
<1> SUFFICES ASSUME [Next]_vars PROVE PoolNext
    OBVIOUS
<1>1. ASSUME NEW c \in Conns, Client(c)
      PROVE  PoolNext
    BY <1>1 DEF Client, Connect, Send, Leave, PoolNext
<1>2. CASE ListenInternal
    BY <1>2 DEF ListenInternal, Accept, AcceptFails, LoopEnds, OwnerInPool,
                Pool!RestOfShutdown, PoolNext
<1>3. CASE Stop
    BY <1>3 DEF Stop, PoolNext
<1>4. ASSUME NEW t \in Threads,
             PoolThread(t) \/ WakeUp(t) \/ TakeJob(t) \/ CloseSocket(t)
      PROVE  PoolNext
    BY <1>4 DEF PoolThread, WakeUp, TakeJob, CloseSocket, PoolNext
<1>5. ASSUME NEW c \in Conns, ProcessSocket(c)
      PROVE  PoolNext
    BY <1>5
    DEF ProcessSocket, StartRequest, FirstEmpty, KeepAliveEnds, ReadHeaders,
        ReadContent, ReadAstray, ReadFails, Respond, Refuse, WriteFails, ConnectionOnly,
        PoolNext
<1>6. CASE Rest \/ UNCHANGED vars
    BY <1>6 DEF Rest, vars, PoolNext
<1> QED
    BY <1>1, <1>2, <1>3, <1>4, <1>5, <1>6 DEF Next

LEMMA PoolShapeStep == PoolShape /\ Phases /\ Lists /\ PoolNext => PoolShape'
<1> SUFFICES ASSUME PoolShape, Phases, Lists, PoolNext
             PROVE  PoolShape'
    OBVIOUS
<1> USE DEF PoolShape, Pool!ThreadStates, Pool!OwnerStates, Pool!Threads, Threads
<1>1. ASSUME NEW c \in Conns, Pool!Push(c)
      PROVE  PoolShape'
    BY <1>1, AppendProperties DEF Pool!Push
<1>2. CASE Pool!CleanUpAndSpawn
    BY <1>2 DEF Pool!CleanUpAndSpawn, Pool!Ended, Phases, Lists
<1>3. CASE Pool!NotifyOne
    BY <1>3 DEF Pool!NotifyOne, Pool!Asleep
<1>4. CASE Pool!SetShutdown
    BY <1>4 DEF Pool!SetShutdown
<1>5. CASE Pool!NotifyAll
    BY <1>5 DEF Pool!NotifyAll
<1>6. CASE Pool!JoinBase
    BY <1>6 DEF Pool!JoinBase
<1>7. CASE Pool!JoinDynamic
    BY <1>7 DEF Pool!JoinDynamic, Pool!Ended
<1>8. ASSUME NEW t \in Threads,
             Pool!Wait(t) \/ Pool!WakeUp(t) \/ Pool!ShutDown(t) \/ Pool!End(t)
      PROVE  PoolShape'
    BY <1>8 DEF Pool!Wait, Pool!WakeUp, Pool!ShutDown, Pool!End
<1>9. ASSUME NEW t \in Threads, Pool!Take(t)
      PROVE  PoolShape'
    <2>1. /\ Head(jobs_) \in Conns
          /\ Tail(jobs_) \in Seq(Conns)
        BY <1>9, HeadTailProperties DEF Pool!Take
    <2> QED
        BY <1>9, <2>1, ThreadsAssumption DEF Pool!Take
<1>10. ASSUME NEW t \in Threads, Pool!TimeOut(t) \/ Pool!AfterJob(t)
       PROVE  PoolShape'
    BY <1>10 DEF Pool!TimeOut, Pool!AfterJob
<1>11. ASSUME NEW t \in Threads, Pool!Return(t)
       PROVE  PoolShape'
    BY <1>11 DEF Pool!Return
<1>12. CASE UNCHANGED poolVars
    BY <1>12 DEF poolVars
<1> QED
    BY <1>1, <1>2, <1>3, <1>4, <1>5, <1>6, <1>7, <1>8, <1>9, <1>10, <1>11,
       <1>12
    DEF PoolNext

LEMMA PhasesStep == PoolShape /\ Phases /\ Lists /\ PoolNext => Phases'
<1> SUFFICES ASSUME PoolShape, Phases, Lists, PoolNext
             PROVE  Phases'
    OBVIOUS
<1> USE ThreadsAssumption
    DEF PoolShape, Phases, Pool!ThreadStates, Pool!OwnerStates, Pool!Threads, Threads
<1>1. ASSUME NEW c \in Conns, Pool!Push(c)
      PROVE  Phases'
    BY <1>1 DEF Pool!Push
<1>2. CASE Pool!CleanUpAndSpawn
    BY <1>2 DEF Pool!CleanUpAndSpawn, Lists
<1>3. CASE Pool!NotifyOne
    BY <1>3 DEF Pool!NotifyOne, Pool!Asleep
<1>4. CASE Pool!SetShutdown
    BY <1>4 DEF Pool!SetShutdown
<1>5. CASE Pool!NotifyAll
    BY <1>5 DEF Pool!NotifyAll
<1>6. CASE Pool!JoinBase
    BY <1>6 DEF Pool!JoinBase, Pool!Ended
<1>7. CASE Pool!JoinDynamic
    BY <1>7 DEF Pool!JoinDynamic, Lists
<1>8. ASSUME NEW t \in Threads, Pool!Wait(t) \/ Pool!WakeUp(t)
      PROVE  Phases'
    BY <1>8 DEF Pool!Wait, Pool!WakeUp
<1>9. ASSUME NEW t \in Threads, Pool!ShutDown(t) \/ Pool!End(t)
      PROVE  Phases'
    BY <1>9 DEF Pool!ShutDown, Pool!End
<1>10. ASSUME NEW t \in Threads, Pool!Take(t)
       PROVE  Phases'
    BY <1>10 DEF Pool!Take
<1>11. ASSUME NEW t \in Threads, Pool!TimeOut(t) \/ Pool!AfterJob(t)
       PROVE  Phases'
    BY <1>11 DEF Pool!TimeOut, Pool!AfterJob, Pool!MoveToFinished
<1>12. ASSUME NEW t \in Threads, Pool!Return(t)
       PROVE  Phases'
    BY <1>12 DEF Pool!Return
<1>13. CASE UNCHANGED poolVars
    BY <1>13 DEF poolVars
<1> QED
    BY <1>1, <1>2, <1>3, <1>4, <1>5, <1>6, <1>7, <1>8, <1>9, <1>10, <1>11,
       <1>12, <1>13
    DEF PoolNext

LEMMA ListsStep == PoolShape /\ Phases /\ Lists /\ PoolNext => Lists'
<1> SUFFICES ASSUME PoolShape, Phases, Lists, PoolNext
             PROVE  Lists'
    OBVIOUS
<1> USE ThreadsAssumption DEF PoolShape, Lists, Pool!ThreadStates, Pool!Threads, Threads
<1>1. ASSUME NEW c \in Conns, Pool!Push(c)
      PROVE  Lists'
    BY <1>1 DEF Pool!Push
<1>2. CASE Pool!CleanUpAndSpawn
    BY <1>2 DEF Pool!CleanUpAndSpawn, Phases
<1>3. CASE Pool!NotifyOne
    BY <1>3 DEF Pool!NotifyOne, Pool!Asleep
<1>4. CASE Pool!SetShutdown
    BY <1>4 DEF Pool!SetShutdown
<1>5. CASE Pool!NotifyAll
    BY <1>5 DEF Pool!NotifyAll
<1>6. CASE Pool!JoinBase
    BY <1>6 DEF Pool!JoinBase, Phases
<1>7. CASE Pool!JoinDynamic
    BY <1>7 DEF Pool!JoinDynamic, Phases
<1>8. ASSUME NEW t \in Threads, Pool!Wait(t) \/ Pool!WakeUp(t)
      PROVE  Lists'
    BY <1>8 DEF Pool!Wait, Pool!WakeUp
<1>9. ASSUME NEW t \in Threads, Pool!ShutDown(t) \/ Pool!End(t)
      PROVE  Lists'
    BY <1>9 DEF Pool!ShutDown, Pool!End
<1>10. ASSUME NEW t \in Threads, Pool!Take(t)
       PROVE  Lists'
    BY <1>10 DEF Pool!Take
<1>11. ASSUME NEW t \in Threads, Pool!TimeOut(t) \/ Pool!AfterJob(t)
       PROVE  Lists'
    BY <1>11 DEF Pool!TimeOut, Pool!AfterJob, Pool!MoveToFinished
<1>12. ASSUME NEW t \in Threads, Pool!Return(t)
       PROVE  Lists'
    BY <1>12 DEF Pool!Return
<1>13. CASE UNCHANGED poolVars
    BY <1>13 DEF poolVars
<1> QED
    BY <1>1, <1>2, <1>3, <1>4, <1>5, <1>6, <1>7, <1>8, <1>9, <1>10, <1>11,
       <1>12, <1>13
    DEF PoolNext

(***************************************************************************)
(* Counting threads                                                        *)
(***************************************************************************)

LEMMA ThreadsFinite ==
    \A S \in SUBSET Threads : IsFiniteSet(S) /\ Cardinality(S) \in Nat
<1>1. IsFiniteSet(Threads)
    BY ThreadsAssumption, FS_Union DEF Threads
<1> QED
    BY <1>1, FS_Subset, FS_CardinalityType

\* The Cardinality of HttplibPool is the one of FiniteSets.
LEMMA PoolCardinality == \A S : Pool!Cardinality(S) = Cardinality(S)
BY DEF Cardinality, Pool!Cardinality

LEMMA IdleCountedStep ==
    PoolShape /\ Phases /\ Lists /\ IdleCounted /\ PoolNext => IdleCounted'
<1> SUFFICES ASSUME PoolShape, Phases, Lists, IdleCounted, PoolNext
             PROVE  IdleCounted'
    OBVIOUS
<1> USE DEF Pool!ThreadStates
<1>1. /\ tpc \in [Threads -> Pool!ThreadStates]
      /\ idle_thread_count_ = Cardinality(Idle)
      /\ IsFiniteSet(Idle) /\ Cardinality(Idle) \in Nat
      /\ Pool!Threads = Threads
    BY ThreadsFinite DEF PoolShape, IdleCounted, Idle, Pool!Threads, Threads
<1>2. ASSUME idle_thread_count_' = idle_thread_count_, Idle' = Idle
      PROVE  IdleCounted'
    BY <1>1, <1>2 DEF IdleCounted
<1>3. ASSUME NEW t \in Threads, Idle' = Idle \cup {t}, t \notin Idle,
             idle_thread_count_' = idle_thread_count_ + 1
      PROVE  IdleCounted'
    BY <1>1, <1>3, FS_AddElement DEF IdleCounted
<1>4. ASSUME NEW t \in Threads, Idle' = Idle \ {t}, t \in Idle,
             idle_thread_count_' = idle_thread_count_ - 1
      PROVE  IdleCounted'
    BY <1>1, <1>4, FS_RemoveElement DEF IdleCounted
<1>5. CASE UNCHANGED <<idle_thread_count_, tpc>>
    BY <1>2, <1>5 DEF Idle
<1>6. CASE Pool!CleanUpAndSpawn
    BY <1>1, <1>2, <1>6
    DEF Pool!CleanUpAndSpawn, Pool!Ended, Idle, Phases, Lists, Threads
<1>7. CASE Pool!NotifyOne \/ Pool!NotifyAll
    BY <1>1, <1>2, <1>7 DEF Pool!NotifyOne, Pool!NotifyAll, Pool!Asleep, Idle
<1>8. CASE Pool!JoinDynamic
    BY <1>1, <1>2, <1>8 DEF Pool!JoinDynamic, Pool!Ended, Idle
<1>9. ASSUME NEW t \in Threads, Pool!Wait(t)
      PROVE  IdleCounted'
    <2>1. CASE tpc[t] = "start"
        BY <1>1, <1>3, <1>9, <2>1 DEF Pool!Wait, Idle
    <2>2. CASE tpc[t] = "woken"
        BY <1>1, <1>2, <1>9, <2>2 DEF Pool!Wait, Idle
    <2> QED
        BY <1>9, <2>1, <2>2 DEF Pool!Wait
<1>10. ASSUME NEW t \in Threads,
              Pool!Take(t) \/ Pool!ShutDown(t) \/ Pool!TimeOut(t)
       PROVE  IdleCounted'
    <2>1. CASE tpc[t] = "start"
        BY <1>1, <1>2, <1>10, <2>1
        DEF Pool!Take, Pool!ShutDown, Pool!TimeOut, Pool!LeaveIdle, Idle
    <2>2. CASE tpc[t] = "woken"
        BY <1>1, <1>4, <1>10, <2>2
        DEF Pool!Take, Pool!ShutDown, Pool!TimeOut, Pool!LeaveIdle, Idle
    <2> QED
        BY <1>10, <2>1, <2>2 DEF Pool!Take, Pool!ShutDown, Pool!TimeOut
<1>11. ASSUME NEW t \in Threads,
              Pool!WakeUp(t) \/ Pool!Return(t) \/ Pool!AfterJob(t) \/ Pool!End(t)
       PROVE  IdleCounted'
    BY <1>1, <1>2, <1>11
    DEF Pool!WakeUp, Pool!Return, Pool!AfterJob, Pool!End, Idle
<1> QED
    BY <1>5, <1>6, <1>7, <1>8, <1>9, <1>10, <1>11
    DEF PoolNext, Pool!Push, Pool!SetShutdown, Pool!JoinBase, poolVars

LEMMA NoJobAsleepStep ==
    PoolShape /\ Phases /\ Lists /\ Pool!NoJobAsleep /\ PoolNext => Pool!NoJobAsleep'
<1> SUFFICES ASSUME PoolShape, Phases, Lists, Pool!NoJobAsleep, PoolNext
             PROVE  Pool!NoJobAsleep'
    OBVIOUS
<1> DEFINE Asleep   == Pool!Asleep
           OnTheWay == Pool!OnTheWay
           awake    == Cardinality(OnTheWay)
           coming   == IF opc \in {"cleanup", "notify"} THEN 1 ELSE 0
<1>1. /\ tpc \in [Threads -> Pool!ThreadStates]
      /\ jobs_ \in Seq(Conns) /\ Len(jobs_) \in Nat
      /\ opc \in Pool!OwnerStates
      /\ IsFiniteSet(OnTheWay) /\ awake \in Nat
      /\ IsFiniteSet(OnTheWay') /\ awake' \in Nat
      /\ Pool!Threads = Threads
    BY ThreadsFinite, LenProperties
    DEF PoolShape, Pool!OnTheWay, Pool!Threads, Threads
<1>2. Asleep # {} => (shutdown_ => opc = "notify_all") /\ Len(jobs_) <= awake + coming
    BY PoolCardinality DEF Pool!NoJobAsleep
<1> USE DEF Pool!ThreadStates, Pool!OwnerStates
\* The new job comes with a notification.
<1>3. ASSUME NEW c \in Conns, Pool!Push(c)
      PROVE  Pool!NoJobAsleep'
    <2>1. Asleep' = Asleep /\ OnTheWay' = OnTheWay
        BY <1>3 DEF Pool!Push, Pool!Asleep, Pool!OnTheWay
    <2>2. /\ Len(jobs_') = Len(jobs_) + 1
          /\ coming = 0 /\ coming' = 1
          /\ ~shutdown_'
        BY <1>1, <1>3, AppendProperties DEF Pool!Push, Phases
    <2> QED
        BY <1>1, <1>2, <2>1, <2>2, PoolCardinality DEF Pool!NoJobAsleep
<1>4. CASE Pool!CleanUpAndSpawn
    <2>1. Asleep' \subseteq Asleep /\ OnTheWay \subseteq OnTheWay'
        BY <1>1, <1>4
        DEF Pool!CleanUpAndSpawn, Pool!Ended, Pool!Asleep, Pool!OnTheWay, Phases,
            Lists
    <2>2. awake <= awake'
        BY <1>1, <2>1, FS_Subset
    <2>3. /\ jobs_' = jobs_
          /\ coming = 1 /\ coming' = 1
          /\ ~shutdown_'
        BY <1>4 DEF Pool!CleanUpAndSpawn, Phases
    <2> QED
        BY <1>1, <1>2, <2>1, <2>2, <2>3, PoolCardinality DEF Pool!NoJobAsleep
\* The notification reaches a sleeping thread if there is one.
<1>5. CASE Pool!NotifyOne
    <2>1. CASE Asleep = {}
        BY <1>5, <2>1 DEF Pool!NotifyOne, Pool!Asleep, Pool!NoJobAsleep
    <2>2. CASE Asleep # {}
        <3>1. PICK t \in Asleep : tpc' = [tpc EXCEPT ![t] = "woken"]
            BY <1>5, <2>2 DEF Pool!NotifyOne
        <3>2. OnTheWay' = OnTheWay \cup {t} /\ t \notin OnTheWay
            BY <1>1, <3>1 DEF Pool!Asleep, Pool!OnTheWay
        <3>3. awake' = awake + 1
            BY <1>1, <3>2, FS_AddElement
        <3>4. /\ jobs_' = jobs_
              /\ coming = 1 /\ coming' = 0
              /\ ~shutdown_'
            BY <1>5 DEF Pool!NotifyOne, Phases
        <3> QED
            BY <1>1, <1>2, <2>2, <3>3, <3>4, PoolCardinality DEF Pool!NoJobAsleep
    <2> QED
        BY <2>1, <2>2
<1>6. CASE Pool!SetShutdown
    BY <1>6 DEF Pool!SetShutdown, Pool!NoJobAsleep, Pool!Asleep, Pool!OnTheWay
<1>7. CASE Pool!NotifyAll
    BY <1>1, <1>7 DEF Pool!NotifyAll, Pool!NoJobAsleep, Pool!Asleep
\* Behind NotifyAll nobody is asleep any more.
<1>8. CASE Pool!JoinBase \/ Pool!JoinDynamic
    <2>1. Asleep = {}
        BY <1>2, <1>8 DEF Pool!JoinBase, Pool!JoinDynamic, Phases
    <2>2. Asleep' = {}
        BY <1>1, <1>8, <2>1 DEF Pool!JoinBase, Pool!JoinDynamic, Pool!Asleep
    <2> QED
        BY <2>2 DEF Pool!NoJobAsleep
\* These steps need an empty queue, and no thread falls asleep behind shutdown_.
<1>9. ASSUME NEW t \in Threads,
             Pool!Wait(t) \/ Pool!ShutDown(t) \/ Pool!TimeOut(t)
      PROVE  Pool!NoJobAsleep'
    <2>1. /\ jobs_' = <<>> /\ shutdown_' = shutdown_ /\ opc' = opc
          /\ Asleep' \subseteq Asleep \/ ~shutdown_
        BY <1>1, <1>9
        DEF Pool!Wait, Pool!ShutDown, Pool!TimeOut, Pool!HasWork, Pool!Asleep
    <2>2. Len(jobs_') = 0
        BY <2>1, EmptySeq
    <2> QED
        BY <1>1, <1>2, <2>1, <2>2, PoolCardinality DEF Pool!NoJobAsleep
<1>10. ASSUME NEW t \in Threads, Pool!Take(t)
       PROVE  Pool!NoJobAsleep'
    <2>1. /\ OnTheWay' = OnTheWay \ {t} /\ t \in OnTheWay
          /\ Asleep' = Asleep
        BY <1>1, <1>10 DEF Pool!Take, Pool!Asleep, Pool!OnTheWay
    <2>2. awake' = awake - 1
        BY <1>1, <2>1, FS_RemoveElement
    <2>3. /\ Len(jobs_') = Len(jobs_) - 1
          /\ shutdown_' = shutdown_ /\ opc' = opc
        BY <1>1, <1>10, HeadTailProperties DEF Pool!Take
    <2> QED
        BY <1>1, <1>2, <2>1, <2>2, <2>3, PoolCardinality DEF Pool!NoJobAsleep
<1>11. ASSUME NEW t \in Threads, Pool!WakeUp(t) \/ Pool!Return(t)
       PROVE  Pool!NoJobAsleep'
    <2>1. /\ OnTheWay \subseteq OnTheWay'
          /\ Asleep' \subseteq Asleep
          /\ UNCHANGED <<jobs_, shutdown_, opc>>
        BY <1>1, <1>11 DEF Pool!WakeUp, Pool!Return, Pool!Asleep, Pool!OnTheWay
    <2>2. awake <= awake'
        BY <1>1, <2>1, FS_Subset
    <2> QED
        BY <1>1, <1>2, <2>1, <2>2, PoolCardinality DEF Pool!NoJobAsleep
<1>12. ASSUME NEW t \in Threads, Pool!AfterJob(t) \/ Pool!End(t)
       PROVE  Pool!NoJobAsleep'
    <2>1. /\ Asleep' = Asleep
          /\ UNCHANGED <<jobs_, shutdown_, opc>>
          /\ OnTheWay' = OnTheWay \/ jobs_ = <<>>
        BY <1>1, <1>12 DEF Pool!AfterJob, Pool!End, Pool!Asleep, Pool!OnTheWay
    <2>2. Len(jobs_) <= awake' + coming \/ Asleep = {}
        BY <1>1, <1>2, <2>1, EmptySeq
    <2> QED
        BY <1>1, <1>2, <2>1, <2>2, PoolCardinality DEF Pool!NoJobAsleep
<1>13. CASE UNCHANGED poolVars
    BY <1>13 DEF poolVars, Pool!NoJobAsleep, Pool!Asleep, Pool!OnTheWay
<1> QED
    BY <1>3, <1>4, <1>5, <1>6, <1>7, <1>8, <1>9, <1>10, <1>11, <1>12, <1>13
    DEF PoolNext

(***************************************************************************)
(* The pool: theorems                                                      *)
(***************************************************************************)

LEMMA PoolInvInit == Init => PoolInv
<1> SUFFICES ASSUME Init PROVE PoolInv
    OBVIOUS
<1> USE DEF Init, Pool!Init, Pool!Threads, Threads
<1>1. PoolShape
    BY EmptySeq, ThreadsAssumption DEF PoolShape, Pool!ThreadStates, Pool!OwnerStates
<1>2. Phases /\ Lists
    BY ThreadsAssumption DEF Phases, Lists
<1>3. Idle = {} /\ Pool!Asleep = {}
    BY DEF Idle, Pool!Asleep
<1> QED
    BY <1>1, <1>2, <1>3, FS_EmptySet DEF PoolInv, IdleCounted, Pool!NoJobAsleep

LEMMA PoolInvStep == PoolInv /\ [Next]_vars => PoolInv'
BY ServerStepsPool, PoolShapeStep, PhasesStep, ListsStep, IdleCountedStep,
   NoJobAsleepStep
DEF PoolInv

LEMMA PoolInvAlways == Spec => []PoolInv
BY PoolInvInit, PoolInvStep, PTL DEF Spec

\* Each wake-up counts: while a thread sleeps, every queued job has a thread on
\* its way to the queue or its notification still to come, and shutdown() leaves
\* nobody asleep, for any number of base and dynamic threads.
THEOREM NoJobAsleepAlways == Spec => []NoJobAsleep
<1>1. PoolInv => NoJobAsleep
    BY DEF PoolInv, NoJobAsleep
<1> QED
    BY <1>1, PoolInvAlways, PTL

\* Every dynamic thread that exists is in one list and is joined from there once,
\* and when the pool goes its queue is empty and no thread is left.
THEOREM ThreadsAccountedAlways == Spec => []ThreadsAccounted
<1>1. PoolInv => ThreadsAccounted
    <2> SUFFICES ASSUME PoolInv PROVE Pool!ThreadsAccounted
        BY DEF ThreadsAccounted
    <2>1. opc = "done" => jobs_ = <<>> /\ Pool!Ended(Base)
        BY ThreadsAssumption DEF PoolInv, Phases, Pool!Ended
    <2> QED
        BY <2>1 DEF PoolInv, Lists, Pool!ThreadsAccounted
<1> QED
    BY <1>1, PoolInvAlways, PTL

\* Seen from the server, the pool is the queue of tasks that TaskQueue describes:
\* first in, first out, each job taken once, by a thread that has no other.
THEOREM PoolIsTaskQueue == Spec => ImplementsTaskQueue
<1>1. Init => Pool!Queue!Init
    BY DEF Init, Pool!Init, Pool!Queue!Init, Pool!Threads
<1>2. PoolInv /\ [Next]_vars => [Pool!Queue!Next]_Pool!Queue!vars
    <2> SUFFICES ASSUME PoolShape, PoolNext
                 PROVE  [Pool!Queue!Next]_Pool!Queue!vars
        BY ServerStepsPool DEF PoolInv
    <2>1. /\ tpc \in [Threads -> Pool!ThreadStates]
          /\ job \in [Threads -> Conns \cup {NoConn}]
          /\ \A t \in Threads : job[t] = NoConn <=> tpc[t] # "running"
          /\ Pool!Threads = Threads
        BY DEF PoolShape, Pool!Threads, Threads
    <2>2. ASSUME NEW c \in Conns, Pool!Push(c)
          PROVE  Pool!Queue!Submit(c)
        BY <2>2 DEF Pool!Push, Pool!Queue!Submit
    <2>3. ASSUME NEW t \in Threads, Pool!Take(t)
          PROVE  Pool!Queue!Take(t)
        BY <2>1, <2>3 DEF Pool!Take, Pool!Queue!Take
    <2>4. ASSUME NEW t \in Threads, Pool!Return(t)
          PROVE  Pool!Queue!Finish(t)
        BY <2>1, <2>4 DEF Pool!Return, Pool!Queue!Finish
    <2>5. CASE UNCHANGED <<jobs_, job>>
        BY <2>5 DEF Pool!Queue!vars
    <2> QED
        BY <2>1, <2>2, <2>3, <2>4, <2>5
        DEF PoolNext, Pool!Queue!Next, Pool!CleanUpAndSpawn, Pool!NotifyOne,
            Pool!SetShutdown, Pool!NotifyAll, Pool!JoinBase, Pool!JoinDynamic,
            Pool!Wait, Pool!WakeUp, Pool!ShutDown, Pool!TimeOut, Pool!AfterJob,
            Pool!End, poolVars
<1> QED
    BY <1>1, <1>2, PoolInvAlways, PTL
    DEF Spec, ImplementsTaskQueue, Pool!ImplementsTaskQueue, Pool!Queue!Spec

(***************************************************************************)
(* The pieces of a client's requests                                       *)
(***************************************************************************)

LEMMA LeastNumber ==
    ASSUME NEW S \in SUBSET Nat, S # {}
    PROVE  \E n \in S : \A m \in S : n <= m
<1> DEFINE R == OpToRel(<, Nat)
<1>1. IsWellFoundedOn(R, Nat)
    BY NatLessThanWellFounded
<1>2. ASSUME NEW m \in Nat, NEW n \in Nat, <<m, n>> \notin R
      PROVE  n <= m
    BY <1>2 DEF OpToRel
<1> HIDE DEF R
<1>3. PICK n \in S : \A m \in S : <<m, n>> \notin R
    BY <1>1, WFMin
<1>4. ASSUME NEW m \in S PROVE n <= m
    BY <1>2, <1>3
<1> QED
    BY <1>4

Total(c) == Len(Pieces[c])

\* Each piece, and what comes behind it.
LEMMA PieceTypes ==
    ASSUME NEW c \in Conns
    PROVE  /\ Total(c) \in Nat
           /\ \A i \in 1..Total(c) :
                 /\ Pieces[c][i] \in Piece
                 /\ Pieces[c][i].of \in Nat /\ Pieces[c][i].of >= 1
                 /\ Pieces[c][i].last \in BOOLEAN
                 /\ Pieces[c][i].part = "line" => ~Pieces[c][i].last
                 /\ i = 1 => Pieces[c][i].part = "line"
           /\ \A i \in 1..Total(c) :
                 i + 1 <= Total(c) => Follows(Pieces[c][i], Pieces[c][i + 1])
<1>1. /\ Pieces[c] \in Seq(Piece)
      /\ Total(c) \in Nat /\ DOMAIN Pieces[c] = 1..Total(c)
      /\ \A i \in 1..Total(c) : Pieces[c][i] \in Piece
    BY PiecesAssumption, LenProperties, ElementOfSeq DEF Total
<1>2. ASSUME NEW i \in 1..Total(c), i + 1 <= Total(c)
      PROVE  Follows(Pieces[c][i], Pieces[c][i + 1])
    <2>1. i + 1 \in DOMAIN Pieces[c] /\ i + 1 # 1 /\ (i + 1) - 1 = i
        BY <1>1, <1>2
    <2> QED
        BY <2>1, PiecesAssumption
<1>3. ASSUME NEW i \in 1..Total(c)
      PROVE  /\ Pieces[c][i].part = "line" => ~Pieces[c][i].last
             /\ i = 1 => Pieces[c][i].part = "line"
    <2>1. CASE i = 1
        <3>1. Follows([part |-> "body", of |-> 0, last |-> TRUE], Pieces[c][i])
            BY <1>1, <2>1, PiecesAssumption
        <3> QED
            BY <3>1 DEF Follows
    <2>2. CASE i # 1
        <3>1. Follows(Pieces[c][i - 1], Pieces[c][i])
            BY <1>1, <2>2, PiecesAssumption
        <3> QED
            BY <2>2, <3>1 DEF Follows
    <2> QED
        BY <2>1, <2>2
<1> QED
    BY <1>1, <1>2, <1>3 DEF Piece

\* Later pieces are of later requests, or of the same one if it goes on.
LEMMA PiecesInOrder ==
    ASSUME NEW c \in Conns, NEW i \in 1..Total(c), NEW k \in i..Total(c)
    PROVE  /\ Pieces[c][i].of <= Pieces[c][k].of
           /\ Pieces[c][i].last /\ i < k => Pieces[c][i].of < Pieces[c][k].of
<1> DEFINE P == Pieces[c]
           Good(m) == /\ P[i].of <= P[m].of
                      /\ P[i].last /\ i < m => P[i].of < P[m].of
           Bad == {m \in i..Total(c) : ~Good(m)}
<1>1. /\ Total(c) \in Nat
      /\ \A m \in 1..Total(c) : P[m].of \in Nat /\ P[m].last \in BOOLEAN
      /\ \A m \in 1..Total(c) : m + 1 <= Total(c) => Follows(P[m], P[m + 1])
    BY PieceTypes
<1> HIDE DEF P
<1>2. ASSUME Bad # {}
      PROVE  FALSE
    <2>1. Bad \in SUBSET Nat
        BY <1>1
    <2>2. PICK m \in Bad : \A n \in Bad : m <= n
        BY <1>2, <2>1, LeastNumber
    <2>3. m # i
        BY <1>1, <2>2
    <2>4. m - 1 \in i..Total(c) /\ Good(m - 1)
        BY <1>1, <2>2, <2>3
    <2>5. Follows(P[m - 1], P[m])
        BY <1>1, <2>4
    <2>6. /\ P[m - 1].of \in Nat /\ P[m].of \in Nat /\ P[i].of \in Nat
          /\ P[m - 1].of <= P[m].of
          /\ P[m - 1].last => P[m - 1].of < P[m].of
        BY <1>1, <2>4, <2>5 DEF Follows
    <2>7. P[i].of <= P[m - 1].of
        BY <2>4
    <2>8. CASE i < m - 1
        BY <2>2, <2>4, <2>6, <2>8
    <2>9. CASE i = m - 1
        BY <2>2, <2>4, <2>6, <2>9
    <2> QED
        BY <2>4, <2>8, <2>9
<1> QED
    BY <1>2 DEF P

(***************************************************************************)
(* Connections: one thread each                                            *)
(***************************************************************************)

ReplyTo == [of : Nat, whole : BOOLEAN, last : BOOLEAN]

ConnShape ==
    /\ sock \in [Conns -> {"none", "backlog", "open", "closed", "refused"}]
    /\ sent \in [Conns -> Nat] /\ fin \in [Conns -> BOOLEAN]
    /\ svr_sock_ \in {"set", "invalid"} /\ lsock \in {"open", "closed"}
    /\ hpc \in [Conns -> HandlerStates]
    /\ count \in [Conns -> Nat]
    /\ taken \in [Conns -> Nat] /\ parsed \in [Conns -> Nat]
    /\ replies \in [Conns -> Seq(ReplyTo)]
    /\ told \subseteq Conns /\ ahead \subseteq Conns

Queued(c) == \E i \in 1..Len(jobs_) : jobs_[i] = c

\* An open connection is in the queue or with one thread, once, and no other
\* connection is.
Served ==
    /\ \A c \in Conns :
          /\ Queued(c) => sock[c] = "open" /\ hpc[c] = "none"
          /\ hpc[c] # "none" => sock[c] = "open" /\ (\E t \in Threads : job[t] = c)
          /\ sock[c] = "open" => Queued(c) \/ hpc[c] # "none"
    /\ \A i, k \in 1..Len(jobs_) : jobs_[i] = jobs_[k] => i = k
    /\ \A t \in Threads : job[t] # NoConn => hpc[job[t]] # "none"
    /\ \A t, u \in Threads : job[t] = job[u] /\ job[t] # NoConn => t = u

\* A step of the job of c before its last one.
LEMMA ProcessSocketOnly ==
    ASSUME ConnShape, NEW c \in Conns, ProcessSocket(c)
    PROVE  /\ hpc[c] \notin {"none", "close"}
           /\ \E place \in HandlerStates \ {"none"} :
                 hpc' = [hpc EXCEPT ![c] = place]
           /\ UNCHANGED <<poolVars, clientVars, listenVars, sock>>
BY DEF ConnShape, ProcessSocket, StartRequest, FirstEmpty, KeepAliveEnds, ReadHeaders,
       ReadContent, ReadAstray, ReadFails, Respond, Refuse, WriteFails, ConnectionOnly,
       Goto, Continue, ParseRequestLine, ParseLeftOver, HandlerStates, historyVars

\* The elements of the queue behind a push, and behind a take.
LEMMA PushQueued ==
    ASSUME jobs_ \in Seq(Conns), NEW c \in Conns, jobs_' = Append(jobs_, c)
    PROVE  /\ Len(jobs_') = Len(jobs_) + 1 /\ Len(jobs_) \in Nat
           /\ \A i \in 1..Len(jobs_) : jobs_'[i] = jobs_[i]
           /\ jobs_'[Len(jobs_) + 1] = c
           /\ \A d : Queued(d)' <=> Queued(d) \/ d = c
<1>1. /\ Len(jobs_') = Len(jobs_) + 1 /\ Len(jobs_) \in Nat
      /\ \A i \in 1..Len(jobs_) : jobs_'[i] = jobs_[i]
      /\ jobs_'[Len(jobs_) + 1] = c
    BY AppendProperties, LenProperties
<1> QED
    BY <1>1 DEF Queued

LEMMA TakeQueued ==
    ASSUME jobs_ \in Seq(Conns), jobs_ # <<>>, jobs_' = Tail(jobs_),
           \A i, k \in 1..Len(jobs_) : jobs_[i] = jobs_[k] => i = k
    PROVE  /\ Head(jobs_) \in Conns /\ Queued(Head(jobs_))
           /\ \A i, k \in 1..Len(jobs_') : jobs_'[i] = jobs_'[k] => i = k
           /\ \A d : Queued(d)' <=> Queued(d) /\ d # Head(jobs_)
<1>1. /\ Head(jobs_) \in Conns /\ Head(jobs_) = jobs_[1]
      /\ Len(jobs_) \in Nat \ {0} /\ Len(jobs_') = Len(jobs_) - 1
      /\ \A i \in 1..Len(jobs_') : jobs_'[i] = jobs_[i + 1]
    BY HeadTailProperties, EmptySeq, LenProperties
<1>2. Queued(Head(jobs_))
    BY <1>1 DEF Queued
<1>3. ASSUME NEW i \in 1..Len(jobs_'), NEW k \in 1..Len(jobs_'), jobs_'[i] = jobs_'[k]
      PROVE  i = k
    <2>1. i + 1 \in 1..Len(jobs_) /\ k + 1 \in 1..Len(jobs_)
        BY <1>1
    <2>2. jobs_[i + 1] = jobs_[k + 1]
        BY <1>1, <1>3
    <2>3. i + 1 = k + 1
        BY <2>1, <2>2
    <2> QED
        BY <2>3
<1>4. ASSUME NEW d, Queued(d)'
      PROVE  Queued(d) /\ d # Head(jobs_)
    <2>1. PICK i \in 1..Len(jobs_') : jobs_'[i] = d
        BY <1>4 DEF Queued
    <2>2. i + 1 \in 1..Len(jobs_) /\ jobs_[i + 1] = d /\ 1 \in 1..Len(jobs_)
        BY <1>1, <2>1
    <2>3. i + 1 # 1
        BY <1>1, <2>1
    <2> QED
        BY <1>1, <2>2, <2>3 DEF Queued
<1>5. ASSUME NEW d, Queued(d), d # Head(jobs_)
      PROVE  Queued(d)'
    <2>1. PICK i \in 1..Len(jobs_) : jobs_[i] = d
        BY <1>5 DEF Queued
    <2>2. i # 1
        BY <1>1, <1>5, <2>1
    <2>3. i - 1 \in 1..Len(jobs_') /\ (i - 1) + 1 = i
        BY <1>1, <2>2
    <2>4. jobs_'[i - 1] = d
        BY <1>1, <2>1, <2>3
    <2> QED
        BY <2>3, <2>4 DEF Queued
<1> QED
    BY <1>1, <1>2, <1>3, <1>4, <1>5

LEMMA ServedStep ==
    PoolShape /\ ConnShape /\ Served /\ [Next]_vars => Served'
<1> SUFFICES ASSUME PoolShape, ConnShape, Served, [Next]_vars
             PROVE  Served'
    OBVIOUS
<1>1. /\ jobs_ \in Seq(Conns)
      /\ tpc \in [Threads -> Pool!ThreadStates]
      /\ job \in [Threads -> Conns \cup {NoConn}]
      /\ \A t \in Threads : job[t] = NoConn <=> tpc[t] # "running"
      /\ hpc \in [Conns -> HandlerStates]
      /\ sock \in [Conns -> {"none", "backlog", "open", "closed", "refused"}]
      /\ NoConn \notin Conns
    BY ThreadsAssumption DEF PoolShape, ConnShape
\* Most steps neither open nor close a connection, nor move a job.
<1>2. ASSUME UNCHANGED <<jobs_, job, hpc>>,
             \A c \in Conns : sock'[c] = "open" <=> sock[c] = "open"
      PROVE  Served'
    BY <1>1, <1>2 DEF Served, Queued
<1>3. ASSUME NEW c \in Conns, Client(c)
      PROVE  Served'
    BY <1>1, <1>2, <1>3 DEF Client, Connect, Send, Leave, poolVars, handlerVars
<1>4. CASE Accept
    <2>1. PICK c \in Conns : /\ sock[c] = "backlog"
                             /\ sock' = [sock EXCEPT ![c] = "open"]
                             /\ Pool!Push(c)
        BY <1>4 DEF Accept
    <2>2. /\ Len(jobs_') = Len(jobs_) + 1 /\ Len(jobs_) \in Nat
          /\ \A i \in 1..Len(jobs_) : jobs_'[i] = jobs_[i]
          /\ jobs_'[Len(jobs_) + 1] = c
          /\ \A d : Queued(d)' <=> Queued(d) \/ d = c
        BY <1>1, <2>1, PushQueued DEF Pool!Push
    <2>3. ~Queued(c) /\ hpc[c] = "none"
        BY <2>1 DEF Served
    <2>4. UNCHANGED <<job, hpc>>
        BY <1>4, <2>1 DEF Accept, Pool!Push, handlerVars
    <2>5. \A i, k \in 1..Len(jobs_') : jobs_'[i] = jobs_'[k] => i = k
        BY <2>2, <2>3 DEF Served, Queued
    <2> QED
        BY <1>1, <2>1, <2>2, <2>3, <2>4, <2>5 DEF Served
<1>5. CASE AcceptFails \/ LoopEnds \/ Stop
    BY <1>1, <1>2, <1>5
    DEF AcceptFails, LoopEnds, Stop, CloseListening, Pool!SetShutdown, poolVars,
        handlerVars
<1>6. CASE OwnerInPool
    BY <1>2, <1>6
    DEF OwnerInPool, Pool!CleanUpAndSpawn, Pool!NotifyOne, Pool!RestOfShutdown,
        Pool!NotifyAll, Pool!JoinBase, Pool!JoinDynamic, handlerVars
<1>7. ASSUME NEW t \in Threads, PoolThread(t) \/ WakeUp(t)
      PROVE  Served'
    BY <1>2, <1>7
    DEF PoolThread, WakeUp, Pool!Wait, Pool!ShutDown, Pool!TimeOut, Pool!AfterJob,
        Pool!End, Pool!WakeUp, handlerVars
<1>8. ASSUME NEW t \in Threads, TakeJob(t)
      PROVE  Served'
    <2> DEFINE c == Head(jobs_)
    <2>1. /\ jobs_ # <<>> /\ jobs_' = Tail(jobs_)
          /\ job' = [job EXCEPT ![t] = c] /\ job[t] = NoConn
          /\ hpc' = [hpc EXCEPT ![c] = "first"]
          /\ sock' = sock
        BY <1>1, <1>8 DEF TakeJob, Pool!Take
    <2>2. /\ c \in Conns /\ Queued(c)
          /\ \A i, k \in 1..Len(jobs_') : jobs_'[i] = jobs_'[k] => i = k
          /\ \A d : Queued(d)' <=> Queued(d) /\ d # c
        BY <1>1, <2>1, TakeQueued DEF Served
    <2> HIDE DEF c
    <2>3. \A u \in Threads : job[u] # c
        BY <1>1, <2>2 DEF Served
    <2> QED
        BY <1>1, <2>1, <2>2, <2>3 DEF Served
<1>9. ASSUME NEW t \in Threads, CloseSocket(t)
      PROVE  Served'
    <2> DEFINE c == job[t]
    <2>1. /\ c \in Conns
          /\ job' = [job EXCEPT ![t] = NoConn]
          /\ hpc' = [hpc EXCEPT ![c] = "none"]
          /\ sock' = [sock EXCEPT ![c] = "closed"]
          /\ jobs_' = jobs_
        BY <1>1, <1>9 DEF CloseSocket, Forget, Pool!Return
    <2>2. ~Queued(c) /\ (\A u \in Threads : job[u] = c => u = t)
        BY <1>1, <2>1 DEF Served
    <2>3. \A d : Queued(d)' <=> Queued(d)
        BY <2>1 DEF Queued
    <2> QED
        BY <1>1, <2>1, <2>2, <2>3 DEF Served
<1>10. ASSUME NEW c \in Conns, ProcessSocket(c)
       PROVE  Served'
    <2>1. PICK place \in HandlerStates \ {"none"} : hpc' = [hpc EXCEPT ![c] = place]
        BY <1>10, ProcessSocketOnly
    <2>2. hpc[c] # "none" /\ UNCHANGED <<jobs_, job, sock>>
        BY <1>10, ProcessSocketOnly DEF poolVars
    <2> QED
        BY <1>1, <2>1, <2>2 DEF Served, Queued
<1>11. CASE Rest \/ UNCHANGED vars
    BY <1>2, <1>11 DEF Rest, vars, poolVars, handlerVars
<1> QED
    BY <1>3, <1>4, <1>5, <1>6, <1>7, <1>8, <1>9, <1>10, <1>11
    DEF Next, ListenInternal

(***************************************************************************)
(* Connections: the requests of one client                                 *)
(***************************************************************************)

InRequest(c) == hpc[c] \in {"headers", "body", "astray", "refuse", "cut", "respond"}

\* What the stream has given out of a request.
Progress(c) ==
    /\ parsed[c] <= taken[c] /\ taken[c] <= sent[c] /\ sent[c] <= Total(c)
    /\ InRequest(c) => parsed[c] >= 1
    /\ hpc[c] = "headers" => Pieces[c][parsed[c]].part = "line"
    /\ hpc[c] = "body" => /\ Pieces[c][parsed[c]].part = "headers"
                          /\ ~Pieces[c][parsed[c]].last

\* The count of requests left and the replies sent add up until the loop ends.
Counted(c) ==
    /\ hpc[c] = "none" => count[c] = KEEP_ALIVE_MAX /\ replies[c] = <<>>
    /\ hpc[c] \notin {"none", "close"} =>
          count[c] >= 1 /\ Len(replies[c]) + count[c] = KEEP_ALIVE_MAX
    /\ count[c] <= KEEP_ALIVE_MAX /\ Len(replies[c]) <= KEEP_ALIVE_MAX

\* The first piece that the next reply may be about.
Floor(c) == IF InRequest(c) THEN parsed[c] ELSE parsed[c] + 1

\* The client waits for its replies, and none of its requests was given up.
Faultless(c) == c \notin ahead /\ \A k \in 1..Len(replies[c]) : replies[c][k].whole

\* Between requests, and behind one, the stream stops where one ends.
AtBorder(c) ==
    /\ hpc[c] # "astray"
    /\ hpc[c] \in {"none", "first", "poll"} =>
          parsed[c] = 0 \/ Pieces[c][parsed[c]].last
    /\ hpc[c] = "respond" => Pieces[c][parsed[c]].last

\* Then nothing of a request that has its reply is left.
Aligned(c) ==
    Faultless(c) =>
        /\ AtBorder(c)
        /\ \A q \in Floor(c)..Total(c) : Len(replies[c]) < Pieces[c][q].of

\* A client that waits for its replies has sent nothing beyond the next request.
Waits(c) ==
    c \notin ahead => \A q \in 1..sent[c] : Pieces[c][q].of <= Len(replies[c]) + 1

InStep(c) ==
    \A i \in 1..Len(replies[c]) :
        /\ ~replies[c][i].whole => replies[c][i].last
        /\ c \notin ahead /\ (\A k \in 1..i - 1 : replies[c][k].whole)
               => replies[c][i].of = i

ConnInv(c) == Progress(c) /\ Counted(c) /\ Aligned(c) /\ Waits(c) /\ InStep(c)

ServerInv ==
    PoolInv /\ ConnShape /\ Served /\ (\A c \in Conns : ConnInv(c))

\* A step that is about another connection.
Same(c) ==
    /\ sent'[c] = sent[c] /\ hpc'[c] = hpc[c] /\ count'[c] = count[c]
    /\ taken'[c] = taken[c] /\ parsed'[c] = parsed[c] /\ replies'[c] = replies[c]
    /\ c \in ahead' <=> c \in ahead

LEMMA ConnInvSame ==
    ASSUME NEW c \in Conns, ConnInv(c), Same(c)
    PROVE  ConnInv(c)'
BY DEF ConnInv, Same, Progress, Counted, Aligned, Waits, InStep, InRequest, Floor,
       Faultless, AtBorder, Total

LEMMA ConnNumbers ==
    ASSUME ConnShape, NEW c \in Conns, Progress(c)
    PROVE  /\ sent[c] \in Nat /\ taken[c] \in Nat /\ parsed[c] \in Nat
           /\ count[c] \in Nat /\ KEEP_ALIVE_MAX \in Nat \ {0}
           /\ Total(c) \in Nat
           /\ replies[c] \in Seq(ReplyTo) /\ Len(replies[c]) \in Nat
           /\ DOMAIN replies[c] = 1..Len(replies[c])
           /\ InRequest(c) => parsed[c] \in 1..Total(c)
           /\ \A k \in 1..Len(replies[c]) : /\ replies[c][k].of \in Nat
                                            /\ replies[c][k].whole \in BOOLEAN
                                            /\ replies[c][k].last \in BOOLEAN
<1>1. /\ sent[c] \in Nat /\ taken[c] \in Nat /\ parsed[c] \in Nat
      /\ count[c] \in Nat /\ KEEP_ALIVE_MAX \in Nat \ {0}
      /\ Total(c) \in Nat
      /\ replies[c] \in Seq(ReplyTo)
    BY PieceTypes, LimitsAssumption DEF ConnShape
<1>2. /\ Len(replies[c]) \in Nat
      /\ DOMAIN replies[c] = 1..Len(replies[c])
      /\ \A k \in 1..Len(replies[c]) : replies[c][k] \in ReplyTo
    BY <1>1, LenProperties, ElementOfSeq
<1>3. InRequest(c) => parsed[c] \in 1..Total(c)
    BY <1>1 DEF Progress
<1> QED
    BY <1>1, <1>2, <1>3 DEF ReplyTo

\* The next piece of a stream, and where its job goes from there.
LEMMA GetPieceStep ==
    ASSUME ConnShape, NEW c \in Conns, Progress(c), GetPiece(c)
    PROVE  /\ parsed'[c] = parsed[c] + 1 /\ parsed'[c] \in 1..sent[c]
           /\ parsed'[c] <= taken'[c] /\ taken'[c] <= sent[c]
           /\ NextPiece(c) = Pieces[c][parsed'[c]]
           /\ parsed[c] >= 1 => Follows(Pieces[c][parsed[c]], NextPiece(c))
<1>1. /\ sent[c] \in Nat /\ taken[c] \in Nat /\ parsed[c] \in Nat
      /\ Total(c) \in Nat /\ sent[c] <= Total(c)
      /\ parsed[c] <= taken[c] /\ taken[c] <= sent[c]
    BY ConnNumbers DEF Progress
<1>2. /\ parsed[c] < sent[c]
      /\ parsed'[c] = parsed[c] + 1
    BY DEF GetPiece, Available, ConnShape
<1>3. IF parsed[c] = taken[c] THEN taken'[c] \in parsed[c] + 1..sent[c]
                              ELSE taken'[c] = taken[c]
    BY DEF GetPiece, ConnShape
<1>4. parsed[c] >= 1 => Follows(Pieces[c][parsed[c]], Pieces[c][parsed[c] + 1])
    BY <1>1, <1>2, PieceTypes
<1> QED
    BY <1>1, <1>2, <1>3, <1>4 DEF NextPiece

LEMMA GetPartStep ==
    ASSUME ConnShape, NEW c \in Conns, Progress(c), GetPart(c)
    PROVE  /\ parsed'[c] = parsed[c] \/ parsed'[c] = parsed[c] + 1
           /\ parsed'[c] <= taken'[c] /\ taken'[c] <= sent[c]
<1>1. CASE GetPiece(c)
    BY <1>1, GetPieceStep
<1>2. CASE UNCHANGED <<taken, parsed>>
    BY <1>2 DEF Progress
<1> QED
    BY <1>1, <1>2 DEF GetPart

\* Steps between two replies only need to keep to the stream.
LEMMA MoveOn ==
    ASSUME ConnShape, NEW c \in Conns, ConnInv(c), Progress(c)',
           UNCHANGED <<sent, count, replies, ahead>>,
           Faultless(c) => AtBorder(c)' /\ Floor(c) <= Floor(c)',
           Floor(c) \in Nat, Floor(c)' \in Nat,
           hpc[c] \notin {"none", "close"}, hpc'[c] # "none"
    PROVE  ConnInv(c)'
<1>1. Total(c) \in Nat /\ Total(c)' = Total(c)
    BY ConnNumbers DEF ConnInv, Total
<1>2. Counted(c)'
    BY DEF ConnInv, Counted
<1>3. Aligned(c)'
    <2> SUFFICES ASSUME Faultless(c)'
                 PROVE  /\ AtBorder(c)'
                        /\ \A q \in Floor(c)'..Total(c) : Len(replies[c]) < Pieces[c][q].of
        BY <1>1 DEF Aligned
    <2>1. Faultless(c)
        BY DEF Faultless
    <2>2. Floor(c)'..Total(c) \subseteq Floor(c)..Total(c)
        BY <1>1, <2>1
    <2> QED
        BY <2>1, <2>2 DEF ConnInv, Aligned
<1>4. Waits(c)' /\ InStep(c)'
    BY DEF ConnInv, Waits, InStep
<1> QED
    BY <1>2, <1>3, <1>4 DEF ConnInv

LEMMA ReadingStep ==
    ASSUME ConnShape, NEW c \in Conns, ConnInv(c),
           \/ StartRequest(c) \/ FirstEmpty(c) \/ KeepAliveEnds(c) \/ ReadHeaders(c)
           \/ ReadContent(c) \/ ReadAstray(c) \/ ReadFails(c) \/ WriteFails(c)
    PROVE  ConnInv(c)'
<1> USE DEF Goto, ConnectionOnly, clientVars, historyVars
<1>1. /\ sent[c] \in Nat /\ taken[c] \in Nat /\ parsed[c] \in Nat
      /\ hpc \in [Conns -> HandlerStates]
      /\ Total(c) \in Nat
      /\ parsed[c] <= taken[c] /\ taken[c] <= sent[c] /\ sent[c] <= Total(c)
      /\ Progress(c)
    BY ConnNumbers DEF ConnInv, Progress, ConnShape
<1>2. Faultless(c) => AtBorder(c)
    BY DEF ConnInv, Aligned
<1>3. CASE StartRequest(c)
    <2>1. /\ hpc[c] \in {"first", "poll"}
          /\ UNCHANGED <<sent, count, replies, ahead>>
        BY <1>3 DEF StartRequest
    <2>2. Floor(c) = parsed[c] + 1
        BY <2>1 DEF Floor, InRequest
    <2>3. CASE Available(c) /\ ParseRequestLine(c)
        <3>1. /\ parsed'[c] = parsed[c] + 1
              /\ parsed'[c] <= taken'[c] /\ taken'[c] <= sent[c]
              /\ Pieces[c][parsed'[c]].part = "line"
            BY <1>1, <2>3, GetPieceStep DEF ParseRequestLine
        <3>2. hpc'[c] \in {"headers", "refuse", "close"}
            BY <1>1, <2>3 DEF ParseRequestLine
        <3>3. Progress(c)' /\ AtBorder(c)'
            BY <1>1, <2>1, <3>1, <3>2 DEF Progress, InRequest, AtBorder, Total
        <3>4. Floor(c)' = parsed[c] + 1 \/ Floor(c)' = parsed[c] + 2
            BY <1>1, <3>1, <3>2 DEF Floor, InRequest
        <3> QED
            BY <1>1, <2>1, <2>2, <3>2, <3>3, <3>4, MoveOn
\* The rest of a request lies behind no border.
    <2>4. CASE Available(c) /\ NextPiece(c).part # "line" /\ ParseLeftOver(c)
        <3>1. /\ parsed'[c] = parsed[c] \/ parsed'[c] = parsed[c] + 1
              /\ parsed'[c] <= taken'[c] /\ taken'[c] <= sent[c]
            BY <1>1, <2>4, GetPartStep DEF ParseLeftOver
        <3>2. hpc'[c] \in {"astray", "refuse", "cut", "respond", "close"}
            BY <1>1, <2>4 DEF ParseLeftOver
        <3>3. /\ parsed[c] + 1 \in 1..Total(c)
              /\ Pieces[c][parsed[c] + 1].part # "line"
            BY <1>1, <2>4 DEF Available, NextPiece
        <3>4. parsed[c] >= 1
            BY <1>1, <3>3, PieceTypes
        <3>5. ~Pieces[c][parsed[c]].last
            BY <1>1, <3>3, <3>4, PieceTypes DEF Follows
        <3>6. ~Faultless(c)
            BY <1>1, <1>2, <2>1, <3>4, <3>5 DEF AtBorder
        <3>7. Progress(c)'
            BY <1>1, <2>1, <3>1, <3>2, <3>4 DEF Progress, InRequest, Total
        <3>8. Floor(c)' \in Nat
            BY <1>1, <3>1 DEF Floor
        <3> QED
            BY <1>1, <2>1, <2>2, <3>2, <3>6, <3>7, <3>8, MoveOn
    <2>5. CASE Goto(c, "close") /\ UNCHANGED <<taken, parsed>>
        <3>1. hpc'[c] = "close" /\ parsed' = parsed /\ taken' = taken
            BY <1>1, <2>5
        <3>2. Progress(c)' /\ AtBorder(c)'
            BY <1>1, <2>1, <3>1 DEF Progress, InRequest, AtBorder, Total
        <3>3. Floor(c)' = parsed[c] + 1
            BY <3>1 DEF Floor, InRequest
        <3> QED
            BY <1>1, <2>1, <2>2, <3>1, <3>2, <3>3, MoveOn
    <2> QED
        BY <1>3, <2>3, <2>4, <2>5 DEF StartRequest
<1>4. CASE FirstEmpty(c) \/ KeepAliveEnds(c)
    <2>1. /\ hpc[c] \in {"first", "poll"} /\ hpc'[c] \in {"poll", "close"}
          /\ UNCHANGED <<sent, taken, parsed, count, replies, ahead>>
        BY <1>1, <1>4 DEF FirstEmpty, KeepAliveEnds
    <2>2. Progress(c)' /\ (AtBorder(c) => AtBorder(c)')
        BY <1>1, <2>1 DEF Progress, InRequest, AtBorder, Total
    <2>3. Floor(c) = parsed[c] + 1 /\ Floor(c)' = parsed[c] + 1
        BY <2>1 DEF Floor, InRequest
    <2> QED
        BY <1>1, <1>2, <2>1, <2>2, <2>3, MoveOn
<1>5. CASE ReadHeaders(c) \/ ReadContent(c)
    <2>1. /\ hpc[c] \in {"headers", "body"} /\ InRequest(c)
          /\ UNCHANGED <<sent, count, replies, ahead>>
        BY <1>5 DEF ReadHeaders, ReadContent, InRequest
    <2>2. parsed[c] >= 1 /\ Floor(c) = parsed[c]
        BY <1>1, <2>1 DEF Progress, Floor
    <2>3. CASE GetPiece(c) /\ hpc'[c] \in {"respond", "body"}
        <3>1. /\ parsed'[c] = parsed[c] + 1 /\ parsed'[c] \in 1..sent[c]
              /\ parsed'[c] <= taken'[c] /\ taken'[c] <= sent[c]
              /\ NextPiece(c) = Pieces[c][parsed'[c]]
              /\ Follows(Pieces[c][parsed[c]], NextPiece(c))
            BY <1>1, <2>2, <2>3, GetPieceStep
        <3>2. Pieces[c][parsed[c]].part = "line" => ~Pieces[c][parsed[c]].last
            BY <1>1, <2>2, PieceTypes
        <3>3. /\ hpc[c] = "headers" => NextPiece(c).part = "headers"
              /\ hpc[c] = "body" => NextPiece(c).last
            BY <1>1, <2>1, <3>1, <3>2 DEF Progress, Follows
        <3>4. \/ hpc'[c] = "respond" /\ NextPiece(c).last
              \/ hpc'[c] = "body" /\ NextPiece(c).part = "headers" /\ ~NextPiece(c).last
            BY <1>1, <1>5, <2>3, <3>3 DEF ReadHeaders, ReadContent
        <3>5. Progress(c)' /\ AtBorder(c)'
            BY <1>1, <2>1, <3>1, <3>4 DEF Progress, InRequest, AtBorder, Total
        <3>6. Floor(c)' = parsed[c] + 1
            BY <3>1, <3>4 DEF Floor, InRequest
        <3> QED
            BY <1>1, <2>1, <2>2, <3>4, <3>5, <3>6, MoveOn
    <2>4. CASE GetPart(c) /\ hpc'[c] \in {"refuse", "cut"}
        <3>1. /\ parsed'[c] = parsed[c] \/ parsed'[c] = parsed[c] + 1
              /\ parsed'[c] <= taken'[c] /\ taken'[c] <= sent[c]
            BY <1>1, <2>4, GetPartStep
        <3>2. Progress(c)' /\ AtBorder(c)'
            BY <1>1, <2>1, <2>2, <2>4, <3>1 DEF Progress, InRequest, AtBorder, Total
        <3>3. Floor(c)' = parsed'[c]
            BY <2>4 DEF Floor, InRequest
        <3> QED
            BY <1>1, <2>1, <2>2, <2>4, <3>1, <3>2, <3>3, MoveOn
    <2>5. \/ GetPiece(c) /\ hpc'[c] \in {"respond", "body"}
          \/ GetPart(c) /\ hpc'[c] \in {"refuse", "cut"}
        BY <1>1, <1>5 DEF ReadHeaders, ReadContent, GetPart
    <2> QED
        BY <2>3, <2>4, <2>5
<1>6. CASE ReadAstray(c)
    <2>1. /\ hpc[c] = "astray" /\ InRequest(c) /\ ParseLeftOver(c)
          /\ UNCHANGED <<sent, count, replies, ahead>>
        BY <1>6 DEF ReadAstray, InRequest
    <2>2. ~Faultless(c)
        BY <1>2, <2>1 DEF AtBorder
    <2>3. /\ parsed'[c] = parsed[c] \/ parsed'[c] = parsed[c] + 1
          /\ parsed'[c] <= taken'[c] /\ taken'[c] <= sent[c]
        BY <1>1, <2>1, GetPartStep DEF ParseLeftOver
    <2>4. hpc'[c] \in {"astray", "refuse", "cut", "respond", "close"}
        BY <1>1, <2>1 DEF ParseLeftOver
    <2>5. Progress(c)'
        BY <1>1, <2>1, <2>3, <2>4 DEF Progress, InRequest, Total
    <2>6. Floor(c) \in Nat /\ Floor(c)' \in Nat
        BY <1>1, <2>3 DEF Floor
    <2> QED
        BY <1>1, <2>1, <2>2, <2>4, <2>5, <2>6, MoveOn
<1>7. CASE ReadFails(c) \/ WriteFails(c)
    <2>1. /\ InRequest(c) /\ hpc'[c] \in {"refuse", "cut", "close"}
          /\ UNCHANGED <<sent, taken, parsed, count, replies, ahead>>
        BY <1>1, <1>7 DEF ReadFails, WriteFails, InRequest
    <2>2. Progress(c)' /\ AtBorder(c)'
        BY <1>1, <2>1 DEF Progress, InRequest, AtBorder, Total
    <2>3. /\ Floor(c) = parsed[c]
          /\ Floor(c)' = parsed[c] \/ Floor(c)' = parsed[c] + 1
        BY <2>1 DEF Floor, InRequest
    <2> QED
        BY <1>1, <2>1, <2>2, <2>3, MoveOn DEF InRequest
<1> QED
    BY <1>3, <1>4, <1>5, <1>6, <1>7

\* The two ways to reply, seen from the loop.
LEMMA RespondOrRefuse ==
    ASSUME NEW c \in Conns, Respond(c) \/ Refuse(c)
    PROVE  \E last \in BOOLEAN, closed \in BOOLEAN :
               /\ Reply(c, hpc[c] = "respond", last)
               /\ closed \/ count[c] = 1 \/ hpc[c] # "respond" => last
               /\ Continue(c, closed)
               /\ UNCHANGED <<sent, fin, taken>>
<1>1. CASE Respond(c)
    <2>1. PICK status \in {200, 404}, asked \in BOOLEAN, http10 \in BOOLEAN :
              /\ Reply(c, TRUE, http10 \/ SaysClose(c, asked, status))
              /\ Continue(c, asked \/ http10)
        BY <1>1 DEF Respond
    <2>2. /\ hpc[c] = "respond"
          /\ UNCHANGED <<sent, fin, taken>>
        BY <1>1 DEF Respond, ConnectionOnly, clientVars
    <2> DEFINE last == http10 \/ SaysClose(c, asked, status)
               closed == asked \/ http10
    <2>3. /\ last \in BOOLEAN /\ closed \in BOOLEAN
          /\ closed \/ count[c] = 1 => last
        BY DEF SaysClose, CloseConnection
    <2>4. Reply(c, hpc[c] = "respond", last) /\ Continue(c, closed)
        BY <2>1, <2>2 DEF Reply
    <2> HIDE DEF last, closed
    <2> QED
        BY <2>2, <2>3, <2>4
<1>2. CASE Refuse(c)
    <2>1. PICK asked \in {FALSE, hpc[c] = "cut"} :
              /\ Reply(c, FALSE, SaysClose(c, asked, 400))
              /\ Continue(c, asked)
        BY <1>2 DEF Refuse
    <2>2. /\ hpc[c] # "respond"
          /\ UNCHANGED <<sent, fin, taken>>
        BY <1>2 DEF Refuse, ConnectionOnly, clientVars
    <2>3. asked \in BOOLEAN
        BY <2>1
    <2>4. SaysClose(c, asked, 400)
        BY DEF SaysClose
    <2>5. Reply(c, hpc[c] = "respond", TRUE)
        BY <2>1, <2>2, <2>4 DEF Reply
    <2> QED
        BY <2>1, <2>2, <2>3, <2>5
<1> QED
    BY <1>1, <1>2

\* A reply, and the way back into the loop: what it needs of the request is that
\* a whole one has no pieces left.
LEMMA ReplyStep ==
    ASSUME ConnShape, NEW c \in Conns, ConnInv(c), Respond(c) \/ Refuse(c)
    PROVE  ConnInv(c)'
<1> DEFINE r == replies[c]
           n == Len(r)
           p == parsed[c]
<1>1. /\ sent[c] \in Nat /\ taken[c] \in Nat /\ p \in Nat /\ count[c] \in Nat
      /\ KEEP_ALIVE_MAX \in Nat \ {0} /\ Total(c) \in Nat
      /\ r \in Seq(ReplyTo) /\ n \in Nat
      /\ p <= taken[c] /\ taken[c] <= sent[c] /\ sent[c] <= Total(c)
    BY ConnNumbers DEF ConnInv, Progress
<1>2. InRequest(c) /\ hpc[c] \in {"respond", "refuse", "cut"}
    BY DEF Respond, Refuse, InRequest
<1>3. /\ p \in 1..Total(c) /\ p \in 1..sent[c]
      /\ Pieces[c][p].of \in Nat /\ Pieces[c][p].of >= 1
    BY <1>1, <1>2, PieceTypes DEF ConnInv, Progress
<1>4. \E e \in ReplyTo :
          /\ e.of = Pieces[c][p].of
          /\ e.whole <=> hpc[c] = "respond"
          /\ ~e.whole => e.last
          /\ replies' = [replies EXCEPT ![c] = Append(@, e)]
    <2>1. PICK last \in BOOLEAN, closed \in BOOLEAN :
              /\ Reply(c, hpc[c] = "respond", last)
              /\ hpc[c] # "respond" => last
        BY RespondOrRefuse
    <2> DEFINE e == [of |-> Pieces[c][p].of, whole |-> hpc[c] = "respond",
                     last |-> last]
    <2>2. e \in ReplyTo
        BY <1>3 DEF ReplyTo
    <2>3. replies' = [replies EXCEPT ![c] = Append(@, e)]
        BY <2>1 DEF Reply
    <2>4. e.of = Pieces[c][p].of /\ (e.whole <=> hpc[c] = "respond") /\ e.last = last
        OBVIOUS
    <2> HIDE DEF e
    <2> QED
        BY <2>1, <2>2, <2>3, <2>4
<1>5. /\ UNCHANGED <<sent, taken, ahead>>
      /\ parsed'[c] = taken[c]
      /\ \/ hpc'[c] = "close" /\ count'[c] \in {count[c], count[c] - 1}
         \/ hpc'[c] = "first" /\ count'[c] = count[c] - 1 /\ count[c] # 1
    <2>1. PICK last \in BOOLEAN, closed \in BOOLEAN :
              /\ Reply(c, hpc[c] = "respond", last)
              /\ Continue(c, closed)
              /\ UNCHANGED <<sent, taken>>
        BY RespondOrRefuse
    <2> QED
        BY <2>1 DEF Reply, Continue, Goto, ConnShape
<1>6. PICK e \in ReplyTo :
          /\ e.of = Pieces[c][p].of
          /\ e.whole <=> hpc[c] = "respond"
          /\ ~e.whole => e.last
          /\ replies' = [replies EXCEPT ![c] = Append(@, e)]
    BY <1>4
<1>7. /\ Len(replies'[c]) = n + 1
      /\ \A k \in 1..n : replies'[c][k] = r[k]
      /\ replies'[c][n + 1] = e
    <2>1. replies'[c] = Append(r, e)
        BY <1>6 DEF ConnShape
    <2> QED
        BY <1>1, <2>1, AppendProperties
<1>8. Progress(c)'
    BY <1>1, <1>5 DEF Progress, InRequest, Total
<1>9. Counted(c)'
    <2>1. count[c] >= 1 /\ n + count[c] = KEEP_ALIVE_MAX
        BY <1>2 DEF ConnInv, Counted
    <2> QED
        BY <1>1, <1>5, <1>7, <2>1 DEF Counted
\* Who waits for the replies has sent nothing beyond the request of this one.
<1>10. Waits(c)'
    <2>1. ASSUME c \notin ahead, NEW q \in 1..sent[c]
          PROVE  Pieces[c][q].of <= n + 2
        <3>1. Pieces[c][q].of <= n + 1
            BY <2>1 DEF ConnInv, Waits
        <3>2. q \in 1..Total(c)
            BY <1>1
        <3>3. Pieces[c][q].of \in Nat
            BY <3>2, PieceTypes
        <3> QED
            BY <1>1, <3>1, <3>3
    <2> QED
        BY <1>1, <1>5, <1>7, <2>1 DEF Waits
<1>11. ASSUME Faultless(c)
       PROVE  e.of = n + 1
    <2>1. Floor(c) = p /\ c \notin ahead
        BY <1>2, <1>11 DEF Floor, Faultless
    <2>2. n < Pieces[c][p].of
        BY <1>1, <1>3, <1>11, <2>1 DEF ConnInv, Aligned
    <2>3. Pieces[c][p].of <= n + 1
        BY <1>3, <2>1 DEF ConnInv, Waits
    <2> QED
        BY <1>1, <1>3, <1>6, <2>2, <2>3
\* So behind a whole one the stream has taken exactly what belongs to it.
<1>12. Aligned(c)'
    <2> SUFFICES ASSUME Faultless(c)'
                 PROVE  /\ AtBorder(c)'
                        /\ \A q \in Floor(c)'..Total(c) : n + 1 < Pieces[c][q].of
        BY <1>7 DEF Aligned, Total
    <2>1. Faultless(c) /\ hpc[c] = "respond"
        <3>1. c \notin ahead /\ \A k \in 1..n + 1 : replies'[c][k].whole
            BY <1>5, <1>7 DEF Faultless
        <3>2. e.whole
            BY <1>1, <1>7, <3>1
        <3>3. ASSUME NEW k \in 1..n
              PROVE  r[k].whole
            <4>1. k \in 1..n + 1
                BY <1>1
            <4> QED
                BY <1>7, <3>1, <4>1
        <3> QED
            BY <1>6, <3>1, <3>2, <3>3 DEF Faultless
    <2>2. /\ Pieces[c][p].last /\ Pieces[c][p].of = n + 1
          /\ c \notin ahead
        BY <1>6, <1>11, <2>1 DEF ConnInv, Aligned, AtBorder, Faultless
    <2>3. \A q \in p + 1..Total(c) : n + 1 < Pieces[c][q].of
        <3>1. ASSUME NEW q \in p + 1..Total(c)
              PROVE  n + 1 < Pieces[c][q].of
            <4>1. q \in p..Total(c) /\ p < q
                BY <1>1
            <4> QED
                BY <1>3, <2>2, <4>1, PiecesInOrder
        <3> QED
            BY <3>1
    <2>4. taken[c] = p
        <3>1. ASSUME p < taken[c]
              PROVE  FALSE
            <4>1. /\ taken[c] \in p + 1..Total(c) /\ taken[c] \in 1..sent[c]
                  /\ taken[c] \in 1..Total(c)
                BY <1>1, <3>1
            <4>2. Pieces[c][taken[c]].of <= n + 1 /\ Pieces[c][taken[c]].of \in Nat
                BY <2>2, <4>1, PieceTypes DEF ConnInv, Waits
            <4> QED
                BY <1>1, <2>3, <4>1, <4>2
        <3> QED
            BY <1>1, <3>1
    <2>5. AtBorder(c)'
        BY <1>5, <2>2, <2>4 DEF AtBorder
    <2>6. Floor(c)' = p + 1
        BY <1>5, <2>4 DEF Floor, InRequest
    <2> QED
        BY <2>3, <2>5, <2>6
<1>13. InStep(c)'
    <2>1. ASSUME NEW i \in 1..n + 1
          PROVE  /\ ~replies'[c][i].whole => replies'[c][i].last
                 /\ c \notin ahead' /\ (\A k \in 1..i - 1 : replies'[c][k].whole)
                       => replies'[c][i].of = i
        <3>1. \A k \in 1..i - 1 : k \in 1..n /\ replies'[c][k] = r[k]
            BY <1>1, <1>7
        <3>2. CASE i \in 1..n
            <4>1. /\ ~r[i].whole => r[i].last
                  /\ c \notin ahead /\ (\A k \in 1..i - 1 : r[k].whole) => r[i].of = i
                BY <3>2 DEF ConnInv, InStep
            <4>2. replies'[c][i] = r[i] /\ ahead' = ahead
                BY <1>5, <1>7, <3>2
            <4> QED
                BY <3>1, <4>1, <4>2
        <3>3. CASE i = n + 1
            <4>1. 1..i - 1 = 1..n
                BY <1>1, <3>3
            <4> QED
                BY <1>5, <1>6, <1>7, <1>11, <3>1, <3>3, <4>1 DEF Faultless
        <3> QED
            BY <1>1, <3>2, <3>3
    <2> QED
        BY <1>7, <2>1 DEF InStep
<1> QED
    BY <1>8, <1>9, <1>10, <1>12, <1>13 DEF ConnInv

\* A stream only moves on by a piece.
LEMMA StreamSteps ==
    ASSUME NEW c \in Conns,
           StartRequest(c) \/ ReadHeaders(c) \/ ReadContent(c) \/ ReadAstray(c)
    PROVE  UNCHANGED <<taken, parsed>> \/ GetPiece(c)
BY DEF StartRequest, ReadHeaders, ReadContent, ReadAstray, ParseRequestLine,
       ParseLeftOver, GetPart

LEMMA ProcessSocketStep ==
    ASSUME ConnShape, \A d \in Conns : ConnInv(d), NEW c \in Conns, ProcessSocket(c)
    PROVE  \A d \in Conns : ConnInv(d)'
<1>1. ConnInv(c)'
    BY ReadingStep, ReplyStep DEF ProcessSocket
<1>2. ASSUME NEW d \in Conns, d # c
      PROVE  Same(d)
    <2>1. hpc'[d] = hpc[d] /\ sent' = sent
        <3>1. PICK place : hpc' = [hpc EXCEPT ![c] = place]
            BY ProcessSocketOnly
        <3>2. sent' = sent
            BY ProcessSocketOnly DEF clientVars
        <3> QED
            BY <1>2, <3>1, <3>2 DEF ConnShape
    <2>2. CASE StartRequest(c) \/ ReadHeaders(c) \/ ReadContent(c) \/ ReadAstray(c)
        <3>1. UNCHANGED <<taken, parsed>> \/ GetPiece(c)
            BY <2>2, StreamSteps
        <3>2. taken'[d] = taken[d] /\ parsed'[d] = parsed[d]
            BY <1>2, <3>1 DEF GetPiece, ConnShape
        <3> QED
            BY <2>1, <2>2, <3>2
            DEF StartRequest, ReadHeaders, ReadContent, ReadAstray, historyVars, Same
    <2>3. CASE FirstEmpty(c) \/ KeepAliveEnds(c) \/ ReadFails(c) \/ WriteFails(c)
        BY <2>1, <2>3
        DEF FirstEmpty, KeepAliveEnds, ReadFails, WriteFails, historyVars, Same
    <2>4. CASE Respond(c) \/ Refuse(c)
        <3>1. PICK whole \in BOOLEAN, last \in BOOLEAN, closed \in BOOLEAN :
                  /\ Reply(c, whole, last)
                  /\ Continue(c, closed)
                  /\ taken' = taken
            BY <2>4, RespondOrRefuse
        <3>2. count'[d] = count[d] /\ parsed'[d] = parsed[d]
            BY <1>2, <3>1 DEF Continue, ConnShape
        <3>3. replies'[d] = replies[d] /\ ahead' = ahead
            BY <1>2, <3>1 DEF Reply, ConnShape
        <3> QED
            BY <2>1, <3>1, <3>2, <3>3 DEF Same
    <2> QED
        BY <2>2, <2>3, <2>4 DEF ProcessSocket
<1> QED
    BY <1>1, <1>2, ConnInvSame

LEMMA ClientStep ==
    ASSUME ConnShape, \A d \in Conns : ConnInv(d), NEW c \in Conns, Client(c)
    PROVE  \A d \in Conns : ConnInv(d)'
<1>1. CASE Connect(c) \/ Leave(c)
    BY <1>1, ConnInvSame
    DEF Connect, Leave, clientVars, handlerVars, historyVars, Same
<1>2. CASE Send(c)
    <2>1. PICK n \in sent[c] + 1..Total(c) :
              /\ sent' = [sent EXCEPT ![c] = n]
              /\ ahead' = IF Pieces[c][n].of > Len(replies[c]) + 1
                          THEN ahead \cup {c} ELSE ahead
        BY <1>2 DEF Send, Total
    <2>2. UNCHANGED <<hpc, count, taken, parsed, replies>>
        BY <1>2 DEF Send, handlerVars
    <2>3. /\ sent[c] \in Nat /\ taken[c] \in Nat /\ parsed[c] \in Nat
          /\ Total(c) \in Nat /\ n \in 1..Total(c) /\ sent[c] < n
          /\ Len(replies[c]) \in Nat
          /\ sent'[c] = n
        BY <2>1, ConnNumbers DEF ConnInv, ConnShape
    <2>4. Progress(c)'
        BY <2>2, <2>3 DEF ConnInv, Progress, InRequest, Total
    <2>5. ASSUME c \notin ahead', NEW q \in 1..n
          PROVE  c \notin ahead /\ Pieces[c][q].of <= Len(replies[c]) + 1
        <3>1. c \notin ahead /\ ~(Pieces[c][n].of > Len(replies[c]) + 1)
            BY <2>1, <2>5
        <3>2. q \in 1..Total(c) /\ n \in q..Total(c)
            BY <2>3
        <3>3. /\ Pieces[c][q].of \in Nat /\ Pieces[c][n].of \in Nat
              /\ Pieces[c][q].of <= Pieces[c][n].of
            BY <2>3, <3>2, PieceTypes, PiecesInOrder
        <3> QED
            BY <2>3, <3>1, <3>3, SMTT(30)
    <2>6. Waits(c)' /\ Aligned(c)'
        <3>1. Waits(c)'
            BY <2>2, <2>3, <2>5 DEF Waits
        <3>2. Faultless(c)' => Faultless(c)
            BY <2>1, <2>2 DEF Faultless
        <3> QED
            BY <2>2, <3>1, <3>2
            DEF ConnInv, Aligned, AtBorder, Floor, InRequest, Total
    <2>7. Counted(c)'
        BY <2>2 DEF ConnInv, Counted
    <2>8. InStep(c)'
        BY <2>1, <2>2 DEF ConnInv, InStep
    <2>9. ASSUME NEW d \in Conns, d # c
          PROVE  Same(d)
        BY <2>1, <2>2, <2>9 DEF Same, ConnShape
    <2> QED
        BY <2>4, <2>6, <2>7, <2>8, <2>9, ConnInvSame DEF ConnInv
<1> QED
    BY <1>1, <1>2 DEF Client

LEMMA TakeJobStep ==
    ASSUME PoolShape, ConnShape, Served, \A d \in Conns : ConnInv(d),
           NEW t \in Threads, TakeJob(t)
    PROVE  \A d \in Conns : ConnInv(d)'
<1>1. /\ Head(jobs_) \in Conns /\ Head(jobs_) = jobs_[1]
      /\ Len(jobs_) \in Nat \ {0}
    BY HeadTailProperties, EmptySeq, LenProperties DEF PoolShape, TakeJob, Pool!Take
<1>2. PICK c \in Conns : c = Head(jobs_)
    BY <1>1
<1>3. /\ hpc' = [hpc EXCEPT ![c] = "first"]
      /\ UNCHANGED <<sent, count, taken, parsed, replies, ahead>>
    BY <1>2 DEF TakeJob, clientVars, historyVars
<1>4. hpc[c] = "none" /\ hpc'[c] = "first"
    BY <1>1, <1>2, <1>3 DEF Served, Queued, ConnShape
<1>5. ConnInv(c)'
    <2>1. /\ ConnInv(c) /\ KEEP_ALIVE_MAX \in Nat \ {0}
          /\ Len(replies[c]) = 0 /\ count[c] = KEEP_ALIVE_MAX
        BY <1>4, LimitsAssumption, EmptySeq DEF ConnInv, Counted
    <2>2. Progress(c)' /\ Counted(c)'
        BY <1>3, <1>4, <2>1 DEF ConnInv, Progress, Counted, InRequest, Total
    <2>3. Waits(c)' /\ InStep(c)'
        BY <1>3, <1>4, <2>1 DEF ConnInv, Waits, InStep
    <2>4. Aligned(c)'
        BY <1>3, <1>4, <2>1
        DEF ConnInv, Aligned, AtBorder, Faultless, Floor, InRequest, Total
    <2> QED
        BY <2>2, <2>3, <2>4 DEF ConnInv
<1>6. ASSUME NEW d \in Conns, d # c
      PROVE  Same(d)
    BY <1>3, <1>6 DEF Same, ConnShape
<1> QED
    BY <1>5, <1>6, ConnInvSame

LEMMA CloseSocketStep ==
    ASSUME PoolShape, ConnShape, \A d \in Conns : ConnInv(d),
           NEW t \in Threads, CloseSocket(t)
    PROVE  \A d \in Conns : ConnInv(d)'
<1>1. PICK c \in Conns : Forget(c)
    BY DEF CloseSocket, PoolShape
<1>2. /\ sent'[c] = 0 /\ taken'[c] = 0 /\ parsed'[c] = 0 /\ hpc'[c] = "none"
      /\ count'[c] = KEEP_ALIVE_MAX /\ replies'[c] = <<>>
    BY <1>1 DEF Forget, ConnShape
<1>3. Len(replies'[c]) = 0 /\ Total(c) \in Nat /\ KEEP_ALIVE_MAX \in Nat
    BY <1>2, PieceTypes, LimitsAssumption, EmptySeq
<1>4. ConnInv(c)'
    <2>1. \A q \in 1..Total(c) : Pieces[c][q].of >= 1 /\ Pieces[c][q].of \in Nat
        BY PieceTypes
    <2>2. Floor(c)' = 1 /\ Total(c)' = Total(c)
        BY <1>2 DEF Floor, InRequest, Total
    <2>3. Aligned(c)'
        BY <1>2, <1>3, <2>1, <2>2 DEF Aligned, AtBorder
    <2> QED
        BY <1>2, <1>3, <2>3
        DEF ConnInv, Progress, Counted, Waits, InStep, InRequest, Total
<1>5. ASSUME NEW d \in Conns, d # c
      PROVE  Same(d)
    BY <1>1, <1>5 DEF Forget, Same, ConnShape
<1> QED
    BY <1>4, <1>5, ConnInvSame

LEMMA ConnInvStep ==
    PoolShape /\ ConnShape /\ Served /\ (\A c \in Conns : ConnInv(c)) /\ [Next]_vars
        => \A c \in Conns : ConnInv(c)'
<1> SUFFICES ASSUME PoolShape, ConnShape, Served, \A c \in Conns : ConnInv(c),
                    [Next]_vars
             PROVE  \A c \in Conns : ConnInv(c)'
    OBVIOUS
<1>1. ASSUME UNCHANGED <<clientVars, handlerVars, historyVars>>
      PROVE  \A c \in Conns : ConnInv(c)'
    BY <1>1, ConnInvSame DEF Same, clientVars, handlerVars, historyVars
<1>2. CASE ListenInternal \/ Stop
    BY <1>1, <1>2
    DEF ListenInternal, Accept, AcceptFails, LoopEnds, OwnerInPool, Stop
<1>3. ASSUME NEW t \in Threads, PoolThread(t) \/ WakeUp(t)
      PROVE  \A c \in Conns : ConnInv(c)'
    BY <1>1, <1>3 DEF PoolThread, WakeUp
<1>4. CASE Rest \/ UNCHANGED vars
    BY <1>1, <1>4 DEF Rest, vars
<1> QED
    BY <1>2, <1>3, <1>4, ClientStep, TakeJobStep, CloseSocketStep, ProcessSocketStep
    DEF Next

(***************************************************************************)
(* The server: its inductive invariant, and theorems                       *)
(***************************************************************************)

LEMMA ConnShapeStep ==
    PoolShape /\ ConnShape /\ (\A c \in Conns : ConnInv(c)) /\ [Next]_vars
        => ConnShape'
<1> SUFFICES ASSUME PoolShape, ConnShape, \A c \in Conns : ConnInv(c), [Next]_vars
             PROVE  ConnShape'
    OBVIOUS
<1>1. ASSUME NEW c \in Conns
      PROVE  /\ sent[c] \in Nat /\ taken[c] \in Nat /\ parsed[c] \in Nat
             /\ count[c] \in Nat /\ Total(c) \in Nat /\ KEEP_ALIVE_MAX \in Nat
             /\ replies[c] \in Seq(ReplyTo)
             /\ taken[c] <= sent[c] /\ sent[c] <= Total(c) /\ Progress(c)
    BY ConnNumbers DEF ConnInv, Progress
<1>2. ASSUME UNCHANGED <<sock, clientVars, listenVars, handlerVars, historyVars>>
      PROVE  ConnShape'
    BY <1>2 DEF ConnShape, clientVars, listenVars, handlerVars, historyVars
<1>3. ASSUME NEW c \in Conns, Client(c)
      PROVE  ConnShape'
    <2>1. CASE Connect(c) \/ Leave(c)
        BY <2>1
        DEF Connect, Leave, ConnShape, clientVars, listenVars, handlerVars, historyVars
    <2>2. CASE Send(c)
        <3>1. PICK n \in sent[c] + 1..Total(c) :
                  /\ sent' = [sent EXCEPT ![c] = n]
                  /\ ahead' \in {ahead, ahead \cup {c}}
            BY <2>2 DEF Send, Total
        <3>2. n \in Nat
            BY <1>1
        <3> QED
            BY <2>2, <3>1, <3>2 DEF Send, ConnShape, listenVars, handlerVars
    <2> QED
        BY <1>3, <2>1, <2>2 DEF Client
<1>4. CASE ListenInternal \/ Stop
    BY <1>2, <1>4
    DEF ListenInternal, Accept, AcceptFails, LoopEnds, OwnerInPool, Stop,
        CloseListening, ConnShape, clientVars, listenVars, handlerVars, historyVars
<1>5. ASSUME NEW t \in Threads, PoolThread(t) \/ WakeUp(t)
      PROVE  ConnShape'
    BY <1>2, <1>5 DEF PoolThread, WakeUp
<1>6. ASSUME NEW t \in Threads, TakeJob(t)
      PROVE  ConnShape'
    BY <1>6
    DEF TakeJob, ConnShape, HandlerStates, clientVars, listenVars, historyVars
<1>7. ASSUME NEW t \in Threads, CloseSocket(t)
      PROVE  ConnShape'
    BY <1>7, LimitsAssumption, EmptySeq
    DEF CloseSocket, Forget, ConnShape, HandlerStates, listenVars
<1>8. ASSUME NEW c \in Conns, ProcessSocket(c)
      PROVE  ConnShape'
    <2>1. /\ hpc' \in [Conns -> HandlerStates]
          /\ UNCHANGED <<clientVars, listenVars, sock>>
        BY <1>8, ProcessSocketOnly DEF ConnShape
    <2>2. CASE StartRequest(c) \/ ReadHeaders(c) \/ ReadContent(c) \/ ReadAstray(c)
        <3>1. UNCHANGED <<taken, parsed>> \/ GetPiece(c)
            BY <2>2, StreamSteps
        <3>2. parsed' \in [Conns -> Nat]
            <4>1. parsed[c] + 1 \in Nat
                BY <1>1
            <4> QED
                BY <3>1, <4>1 DEF GetPiece, ConnShape
        <3>3. taken' \in [Conns -> Nat]
            <4>1. \A n \in parsed[c] + 1..sent[c] : n \in Nat
                BY <1>1
            <4> QED
                BY <3>1, <4>1, ZenonT(30) DEF GetPiece, ConnShape
        <3>4. UNCHANGED <<count, replies, ahead>> /\ told' \subseteq told
            BY <2>2 DEF StartRequest, ReadHeaders, ReadContent, ReadAstray, historyVars
        <3> QED
            BY <2>1, <3>2, <3>3, <3>4 DEF ConnShape, clientVars, listenVars
    <2>3. CASE FirstEmpty(c) \/ KeepAliveEnds(c) \/ ReadFails(c) \/ WriteFails(c)
        BY <2>1, <2>3
        DEF FirstEmpty, KeepAliveEnds, ReadFails, WriteFails, ConnShape, clientVars,
            listenVars, historyVars
    <2>4. CASE Respond(c) \/ Refuse(c)
        <3>1. /\ Pieces[c][parsed[c]].of \in Nat
              /\ count[c] - 1 \in Nat
            <4>1. InRequest(c) /\ hpc[c] \notin {"none", "close"}
                BY <2>4 DEF Respond, Refuse, InRequest
            <4>2. parsed[c] \in 1..Total(c) /\ count[c] >= 1
                BY <1>1, <4>1 DEF ConnInv, Counted, Progress
            <4> QED
                BY <1>1, <4>2, PieceTypes
        <3>2. PICK whole \in BOOLEAN, last \in BOOLEAN, closed \in BOOLEAN :
                  /\ Reply(c, whole, last)
                  /\ Continue(c, closed)
                  /\ taken' = taken
            BY <2>4, RespondOrRefuse
        <3>3. replies' \in [Conns -> Seq(ReplyTo)]
            <4>1. [of |-> Pieces[c][parsed[c]].of, whole |-> whole, last |-> last]
                      \in ReplyTo
                BY <3>1 DEF ReplyTo
            <4> QED
                BY <1>1, <3>2, <4>1, AppendProperties DEF Reply, ConnShape
        <3>4. /\ count' \in [Conns -> Nat]
              /\ parsed' \in [Conns -> Nat]
            BY <1>1, <3>1, <3>2 DEF Continue, ConnShape
        <3>5. told' \subseteq Conns /\ ahead' = ahead
            BY <3>2 DEF Reply, ConnShape
        <3> QED
            BY <2>1, <3>2, <3>3, <3>4, <3>5 DEF ConnShape, clientVars, listenVars
    <2> QED
        BY <1>8, <2>2, <2>3, <2>4 DEF ProcessSocket
<1>9. CASE Rest \/ UNCHANGED vars
    BY <1>2, <1>9 DEF Rest, vars
<1> QED
    BY <1>3, <1>4, <1>5, <1>6, <1>7, <1>8, <1>9 DEF Next

LEMMA ServerInvInit == Init => ServerInv
<1> SUFFICES ASSUME Init PROVE ServerInv
    OBVIOUS
<1>1. PoolInv
    BY PoolInvInit
<1>2. ConnShape
    BY LimitsAssumption, EmptySeq DEF Init, ConnShape, HandlerStates
<1>3. Served
    BY EmptySeq DEF Init, Pool!Init, Served, Queued, Pool!Threads, Threads
<1>4. ASSUME NEW c \in Conns
      PROVE  ConnInv(c)
    <2>1. /\ sent[c] = 0 /\ taken[c] = 0 /\ parsed[c] = 0 /\ hpc[c] = "none"
          /\ count[c] = KEEP_ALIVE_MAX /\ replies[c] = <<>> /\ Len(replies[c]) = 0
          /\ Total(c) \in Nat /\ KEEP_ALIVE_MAX \in Nat
          /\ \A q \in 1..Total(c) : Pieces[c][q].of >= 1 /\ Pieces[c][q].of \in Nat
        BY PieceTypes, LimitsAssumption, EmptySeq DEF Init
    <2> QED
        BY <2>1
        DEF ConnInv, Progress, Counted, Aligned, AtBorder, Waits, InStep, Floor,
            InRequest
<1> QED
    BY <1>1, <1>2, <1>3, <1>4 DEF ServerInv

LEMMA ServerInvStep == ServerInv /\ [Next]_vars => ServerInv'
<1>1. PoolInv => PoolShape
    BY DEF PoolInv
<1> QED
    BY <1>1, PoolInvStep, ConnShapeStep, ServedStep, ConnInvStep DEF ServerInv

LEMMA ServerInvAlways == Spec => []ServerInv
BY ServerInvInit, ServerInvStep, PTL DEF Spec

\* All state of pool and connections has its type, and the count of idle threads
\* is the number of threads in cond_.
THEOREM TypeOKAlways == Spec => []TypeOK
<1>1. ServerInv => TypeOK
    <2> SUFFICES ASSUME ServerInv PROVE TypeOK
        OBVIOUS
    <2>1. Pool!TypeOK
        BY PoolCardinality
        DEF ServerInv, PoolInv, PoolShape, Lists, IdleCounted, Idle, Pool!TypeOK,
            Pool!Threads, Threads
    <2>2. ASSUME NEW c \in Conns
          PROVE  /\ sent[c] \in 0..Len(Pieces[c])
                 /\ parsed[c] <= taken[c] /\ taken[c] <= sent[c]
                 /\ count[c] \in 0..KEEP_ALIVE_MAX
                 /\ Len(replies[c]) <= KEEP_ALIVE_MAX
        BY ConnNumbers DEF ServerInv, ConnInv, Progress, Counted, Total
    <2> QED
        BY <2>1, <2>2 DEF TypeOK, ServerInv, ConnShape
<1> QED
    BY <1>1, ServerInvAlways, PTL

\* A client that waits for its replies gets the k-th one about its k-th request,
\* however they are cut into segments, until the server gives one up, and that
\* reply says that it is the last.
THEOREM RepliesInStepAlways == Spec => []RepliesInStep
<1>1. ServerInv => RepliesInStep
    <2> SUFFICES ASSUME ServerInv, NEW c \in Conns, NEW i \in DOMAIN replies[c]
                 PROVE  /\ ~replies[c][i].whole => replies[c][i].last
                        /\ c \notin ahead
                           /\ (\A k \in 1..i - 1 : replies[c][k].whole)
                               => replies[c][i].of = i
        BY DEF RepliesInStep
    <2>1. DOMAIN replies[c] = 1..Len(replies[c])
        BY ConnNumbers DEF ServerInv, ConnInv
    <2> QED
        BY <2>1 DEF ServerInv, ConnInv, InStep
<1> QED
    BY <1>1, ServerInvAlways, PTL

\* A reply behind which the connection ends says so: the end of the loop, decided
\* in process_server_socket_core, and the header, set in write_response_core, agree.
THEOREM ToldBeforeClosedAlways == Spec => ToldBeforeClosed
<1> DEFINE Told == \A c \in Conns :
               hpc[c] \in {"respond", "refuse", "cut"} /\ hpc'[c] = "close"
                   /\ replies'[c] # replies[c]
               => c \in told'
<1>1. ServerInv /\ [Next]_vars => [Told]_vars
    <2> SUFFICES ASSUME ServerInv, Next, NEW c \in Conns,
                        hpc[c] \in {"respond", "refuse", "cut"}, hpc'[c] = "close",
                        replies'[c] # replies[c]
                 PROVE  c \in told'
        OBVIOUS
    <2>1. PICK d \in Conns : Respond(d) \/ Refuse(d)
        <3>1. ASSUME NEW t \in Threads, CloseSocket(t)
              PROVE  FALSE
            BY <3>1
            DEF CloseSocket, Forget, ServerInv, PoolInv, PoolShape, ConnShape
        <3> QED
            BY <3>1
            DEF Next, Client, Connect, Send, Leave, ListenInternal, Accept,
                AcceptFails, LoopEnds, OwnerInPool, Stop, PoolThread, WakeUp, TakeJob,
                ProcessSocket, StartRequest, FirstEmpty, KeepAliveEnds, ReadHeaders,
                ReadContent, ReadAstray, ReadFails, WriteFails, Rest, vars, historyVars
    <2>2. d = c
        BY <2>1, ZenonT(30) DEF Respond, Refuse, Reply, ServerInv, ConnShape
    <2>3. PICK last \in BOOLEAN, closed \in BOOLEAN :
              /\ Reply(c, hpc[c] = "respond", last)
              /\ closed \/ count[c] = 1 => last
              /\ Continue(c, closed)
        BY <2>1, <2>2, RespondOrRefuse
    <2>4. closed \/ count[c] = 1
        BY <2>3 DEF Continue, Goto, ServerInv, ConnShape
    <2> QED
        BY <2>3, <2>4 DEF Reply
<1>2. Told <=> \A c \in Conns :
               hpc[c] \in {"respond", "refuse", "cut"} /\ hpc'[c] = "close"
                   /\ replies'[c] # replies[c]
               => c \in told'
    OBVIOUS
<1> HIDE DEF Told
<1> QED
    BY <1>1, ServerInvAlways, PTL DEF Spec, ToldBeforeClosed, Told

\* A connection that was accepted is in the queue once or with one thread, and
\* only there, until that thread has closed it: it is served by one thread at a
\* time and closed once.
THEOREM ServedAlways == Spec => []Served
<1>1. ServerInv => Served
    BY DEF ServerInv
<1> QED
    BY <1>1, ServerInvAlways, PTL

\* When listen returns, no connection is open any more, whichever way it ended and
\* whatever was in the queue then.
THEOREM NoneOpenBehindListen == Spec => [](opc = "done" => OpenSocks = {})
<1>1. ServerInv => (opc = "done" => OpenSocks = {})
    <2> SUFFICES ASSUME ServerInv, opc = "done", NEW c \in Conns, sock[c] = "open"
                 PROVE  FALSE
        BY DEF OpenSocks
    <2>1. jobs_ = <<>>
        BY ThreadsAssumption DEF ServerInv, PoolInv, Phases
    <2>2. PICK t \in Threads : job[t] = c
        BY <2>1, EmptySeq DEF ServerInv, Served, Queued
    <2>3. tpc[t] = "running"
        BY <2>2, ThreadsAssumption DEF ServerInv, PoolInv, PoolShape
    <2>4. t \in Dynamic /\ t \in finished_threads_
        BY <2>3 DEF ServerInv, PoolInv, Phases, Lists, Threads
    <2> QED
        BY <2>3, <2>4 DEF ServerInv, PoolInv, Lists
<1> QED
    BY <1>1, ServerInvAlways, PTL
=============================================================================
