--------------------------- MODULE ThreadPoolProofs ---------------------------
(***************************************************************************)
(* Proofs about ThreadPool, for any number of workers, submitters and      *)
(* jobs: the types, the order in which jobs start, that nobody sleeps      *)
(* through the destructor, and that the destructor leaves no job behind.   *)
(***************************************************************************)
EXTENDS ThreadPool, SequenceTheorems, FiniteSetTheorems, TLAPS

(***************************************************************************)
(* Facts about sequences                                                   *)
(***************************************************************************)

\* Pushing on the second of two adjoining queues pushes on the whole.
LEMMA PushLast ==
    ASSUME NEW S, NEW s \in Seq(S), NEW t \in Seq(S), NEW e \in S
    PROVE  s \o Append(t, e) = Append(s \o t, e)
<1>1. /\ <<e>> \in Seq(S)
      /\ s \o t \in Seq(S)
    BY ConcatProperties
<1>2. Append(t, e) = t \o <<e>>
    BY AppendIsConcat
<1>3. Append(s \o t, e) = (s \o t) \o <<e>>
    BY <1>1, AppendIsConcat
<1> QED
    BY <1>1, <1>2, <1>3, ConcatAssociative

\* Moving the head of the second queue to the end of the first changes nothing.
LEMMA MoveHead ==
    ASSUME NEW S, NEW s \in Seq(S), NEW t \in Seq(S), t # <<>>
    PROVE  Append(s, Head(t)) \o Tail(t) = s \o t
<1> DEFINE a == Append(s, Head(t))
<1>1. /\ Head(t) \in S /\ Head(t) = t[1]
      /\ Tail(t) \in Seq(S)
      /\ Len(Tail(t)) = Len(t) - 1
      /\ \A i \in 1..Len(Tail(t)) : Tail(t)[i] = t[i+1]
      /\ Len(s) \in Nat /\ Len(t) \in Nat \ {0}
    BY HeadTailProperties, EmptySeq, LenProperties
<1>2. /\ a \in Seq(S)
      /\ Len(a) = Len(s) + 1
      /\ \A i \in 1..Len(s) : a[i] = s[i]
      /\ a[Len(s) + 1] = t[1]
    BY <1>1, AppendProperties
<1> HIDE DEF a
<1>3. /\ a \o Tail(t) \in Seq(S)
      /\ Len(a \o Tail(t)) = Len(a) + Len(Tail(t))
      /\ \A i \in 1..Len(a) + Len(Tail(t)) :
            (a \o Tail(t))[i] = IF i <= Len(a) THEN a[i] ELSE Tail(t)[i - Len(a)]
    BY <1>1, <1>2, ConcatProperties
<1>4. /\ s \o t \in Seq(S)
      /\ Len(s \o t) = Len(s) + Len(t)
      /\ \A i \in 1..Len(s) + Len(t) :
            (s \o t)[i] = IF i <= Len(s) THEN s[i] ELSE t[i - Len(s)]
    BY ConcatProperties
<1>5. Len(a \o Tail(t)) = Len(s \o t)
    BY <1>1, <1>2, <1>3, <1>4
<1>6. ASSUME NEW i \in 1..Len(s) + Len(t)
      PROVE  (a \o Tail(t))[i] = (s \o t)[i]
    <2>1. CASE i <= Len(s)
        BY <2>1, <1>1, <1>2, <1>3, <1>4
    <2>2. CASE i = Len(s) + 1
        BY <2>2, <1>1, <1>2, <1>3, <1>4
    <2>3. CASE i > Len(s) + 1
        <3>1. /\ i - Len(a) \in 1..Len(Tail(t))
              /\ (i - Len(a)) + 1 = i - Len(s)
            BY <2>3, <1>1, <1>2
        <3>2. Tail(t)[i - Len(a)] = t[i - Len(s)]
            BY <3>1, <1>1
        <3> QED
            BY <2>3, <3>2, <1>1, <1>2, <1>3, <1>4
    <2>4. i \in Nat /\ Len(s) \in Nat
        BY <1>1
    <2>5. i <= Len(s) \/ i = Len(s) + 1 \/ i > Len(s) + 1
        BY <2>4
    <2> QED
        BY <2>1, <2>2, <2>3, <2>5
<1>7. a \o Tail(t) = s \o t
    BY <1>3, <1>4, <1>5, <1>6, SeqEqual
<1> QED
    BY <1>7 DEF a

\* The elements of a queue after a push, and of the empty queue.
LEMMA ToSetAppend ==
    ASSUME NEW S, NEW s \in Seq(S), NEW e \in S
    PROVE  /\ ToSet(Append(s, e)) = ToSet(s) \cup {e}
           /\ ToSet(<<>>) = {}
<1>1. /\ Append(s, e) \in Seq(S)
      /\ Len(Append(s, e)) = Len(s) + 1
      /\ \A i \in 1..Len(s) : Append(s, e)[i] = s[i]
      /\ Append(s, e)[Len(s) + 1] = e
      /\ Len(s) \in Nat /\ DOMAIN s = 1..Len(s)
      /\ DOMAIN Append(s, e) = 1..Len(s) + 1
    BY AppendProperties, LenProperties
<1> QED
    BY <1>1 DEF ToSet

(***************************************************************************)
(* Types                                                                   *)
(***************************************************************************)

\* TypeOK alone is not inductive: finished only receives jobs because a worker
\* that runs has taken one.
TypeInv ==
    /\ TypeOK
    /\ \A w \in Workers : wpc[w] = "running" => job[w] \in Jobs

LEMMA TypeInvInit == Init => TypeInv
<1> SUFFICES ASSUME Init PROVE TypeInv
    OBVIOUS
<1>1. <<>> \in Seq(Jobs)
    BY EmptySeq
<1>2. 0 \in 0..NumWorkers
    BY NumWorkersAssumption
<1> QED
    BY <1>1, <1>2 DEF Init, TypeInv, TypeOK

LEMMA TypeInvStep == TypeInv /\ [Next]_vars => TypeInv'
<1> SUFFICES ASSUME TypeInv, [Next]_vars
             PROVE  TypeInv'
    OBVIOUS
<1> USE DEF TypeInv, TypeOK, poolVars, historyVars, ownerVars
<1>1. ASSUME NEW s \in Submitters, NEW j \in Jobs, Push(s, j)
      PROVE  TypeInv'
    <2>1. /\ Append(m_jobs, j) \in Seq(Jobs)
          /\ Append(submitted, j) \in Seq(Jobs)
        BY AppendProperties
    <2> QED
        BY <1>1, <2>1 DEF Push
<1>2. ASSUME NEW s \in Submitters, NotifyOne(s)
      PROVE  TypeInv'
    BY <1>2 DEF NotifyOne, Waiting
<1>3. ASSUME NEW w \in Workers, Wait(w)
      PROVE  TypeInv'
    BY <1>3 DEF Wait
<1>4. ASSUME NEW w \in Workers, SpuriousWakeup(w)
      PROVE  TypeInv'
    BY <1>4 DEF SpuriousWakeup
<1>5. ASSUME NEW w \in Workers, Exit(w)
      PROVE  TypeInv'
    BY <1>5 DEF Exit
<1>6. ASSUME NEW w \in Workers, TakeJob(w)
      PROVE  TypeInv'
    <2>1. /\ Head(m_jobs) \in Jobs
          /\ Tail(m_jobs) \in Seq(Jobs)
        BY <1>6, HeadTailProperties DEF TakeJob
    <2>2. Append(started, Head(m_jobs)) \in Seq(Jobs)
        BY <2>1, AppendProperties
    <2> QED
        BY <1>6, <2>1, <2>2 DEF TakeJob
<1>7. ASSUME NEW w \in Workers, JobReturns(w) \/ JobThrows(w)
      PROVE  TypeInv'
    <2>1. job[w] \in Jobs \cup {NoJob}
        OBVIOUS
    <2> QED
        BY <1>7, <2>1 DEF JobReturns, JobThrows
<1>8. CASE SetStop
    BY <1>8 DEF SetStop
<1>9. CASE NotifyAll
    BY <1>9 DEF NotifyAll, Waiting
<1>10. CASE Join
    BY <1>10, NumWorkersAssumption DEF Join
<1>11. CASE Destroy
    BY <1>11 DEF Destroy
<1>12. CASE UNCHANGED vars
    BY <1>12 DEF vars
<1> QED
    BY <1>1, <1>2, <1>3, <1>4, <1>5, <1>6, <1>7, <1>8, <1>9, <1>10,
       <1>11, <1>12
    DEF Next, Submitter, Worker, Destructor, Terminated

\* Every variable keeps its type, whatever the sizes of the constants; in
\* particular the destructor never joins past the last worker and only whole
\* jobs end.
THEOREM TypeCorrect == Spec => []TypeOK
<1>1. TypeInv => TypeOK
    BY DEF TypeInv
<1> QED
    BY <1>1, TypeInvInit, TypeInvStep, PTL DEF Spec

(***************************************************************************)
(* Order                                                                   *)
(***************************************************************************)

LEMMA FifoInit == Init => FifoStart
<1>1. <<>> \in Seq(Jobs)
    BY EmptySeq
<1> QED
    BY <1>1, ConcatEmptySeq DEF Init, FifoStart

LEMMA FifoStep == TypeInv /\ FifoStart /\ [Next]_vars => FifoStart'
<1> SUFFICES ASSUME TypeInv, FifoStart, [Next]_vars
             PROVE  FifoStart'
    OBVIOUS
<1>1. /\ m_jobs \in Seq(Jobs)
      /\ started \in Seq(Jobs)
    BY DEF TypeInv, TypeOK
<1>2. ASSUME NEW s \in Submitters, NEW j \in Jobs, Push(s, j)
      PROVE  FifoStart'
    <2>1. started \o Append(m_jobs, j) = Append(started \o m_jobs, j)
        BY <1>1, PushLast
    <2> QED
        BY <1>2, <2>1 DEF Push, FifoStart
<1>3. ASSUME NEW w \in Workers, TakeJob(w)
      PROVE  FifoStart'
    <2>1. Append(started, Head(m_jobs)) \o Tail(m_jobs) = started \o m_jobs
        BY <1>1, <1>3, MoveHead DEF TakeJob
    <2> QED
        BY <1>3, <2>1 DEF TakeJob, FifoStart
<1>4. CASE UNCHANGED <<m_jobs, started, submitted>>
    BY <1>4 DEF FifoStart
<1> QED
    BY <1>2, <1>3, <1>4
    DEF Next, Submitter, Worker, Destructor, Terminated, NotifyOne, Wait,
        SpuriousWakeup, Exit, JobReturns, JobThrows, SetStop, NotifyAll,
        Join, Destroy, poolVars, historyVars, vars

\* Jobs start in the order in which they were pushed, and the jobs pushed are
\* exactly those started and those still queued.
THEOREM StartsInOrder == Spec => []FifoStart
BY TypeInvInit, TypeInvStep, FifoInit, FifoStep, PTL DEF Spec

(***************************************************************************)
(* No lost wakeup                                                          *)
(***************************************************************************)

LEMMA WorkersFinite ==
    /\ IsFiniteSet(Workers)
    /\ \A S \in SUBSET Workers : IsFiniteSet(S) /\ Cardinality(S) \in Nat
    /\ \A S \in SUBSET Submitters : IsFiniteSet(S) /\ Cardinality(S) \in Nat
<1>1. IsFiniteSet(Workers)
    BY NumWorkersAssumption, FS_Interval DEF Workers
<1> QED
    BY <1>1, SubmittersAssumption, FS_Subset, FS_CardinalityType

LEMMA WorkConservingStep ==
    TypeInv /\ WorkConserving /\ [Next]_vars => WorkConserving'
<1> SUFFICES ASSUME TypeInv, WorkConserving, [Next]_vars
             PROVE  WorkConserving'
    OBVIOUS
<1> DEFINE demand == Len(m_jobs)
           awake  == Cardinality(Locking)
           coming == Cardinality(Notifying)
<1>1. /\ m_jobs \in Seq(Jobs)
      /\ wpc \in [Workers -> {"locking", "waiting", "running", "exited"}]
      /\ spc \in [Submitters -> {"idle", "notify"}]
    BY DEF TypeInv, TypeOK
<1>2. /\ Locking \in SUBSET Workers
      /\ Notifying \in SUBSET Submitters
    BY DEF Locking, Notifying
<1>3. /\ demand \in Nat /\ awake \in Nat /\ coming \in Nat
      /\ IsFiniteSet(Locking) /\ IsFiniteSet(Notifying)
    BY <1>1, <1>2, WorkersFinite, LenProperties
<1>4. Waiting = {} \/ demand <= awake + coming
    BY DEF WorkConserving
<1>5. ASSUME NEW s \in Submitters, NEW j \in Jobs, Push(s, j)
      PROVE  WorkConserving'
    <2>1. /\ Notifying' = Notifying \cup {s}
          /\ s \notin Notifying
          /\ Locking' = Locking
          /\ Waiting' = Waiting
        BY <1>1, <1>5 DEF Push, Notifying, Locking, Waiting
    <2>2. Cardinality(Notifying') = coming + 1
        BY <1>3, <2>1, FS_AddElement
    <2>3. Len(m_jobs') = demand + 1
        BY <1>1, <1>5, AppendProperties DEF Push
    <2> QED
        BY <1>3, <1>4, <2>1, <2>2, <2>3 DEF WorkConserving
<1>6. ASSUME NEW s \in Submitters, NotifyOne(s)
      PROVE  WorkConserving'
    <2>1. /\ Notifying' = Notifying \ {s}
          /\ s \in Notifying
          /\ m_jobs' = m_jobs
        BY <1>1, <1>6 DEF NotifyOne, Notifying, poolVars
    <2>2. CASE Waiting = {}
        BY <1>6, <2>2 DEF NotifyOne, Waiting, WorkConserving
    <2>3. CASE Waiting # {}
        <3>1. PICK w \in Waiting : wpc' = [wpc EXCEPT ![w] = "locking"]
            BY <1>6, <2>3 DEF NotifyOne
        <3>2. /\ Locking' = Locking \cup {w}
              /\ w \notin Locking
            BY <1>1, <3>1 DEF Locking, Waiting
        <3>3. /\ Cardinality(Locking') = awake + 1
              /\ Cardinality(Notifying') = coming - 1
            BY <1>3, <2>1, <3>2, FS_AddElement, FS_RemoveElement
        <3> QED
            BY <1>3, <1>4, <2>1, <2>3, <3>3 DEF WorkConserving
    <2> QED
        BY <2>2, <2>3
<1>7. ASSUME NEW w \in Workers, TakeJob(w)
      PROVE  WorkConserving'
    <2>1. /\ Locking' = Locking \ {w}
          /\ w \in Locking
          /\ Notifying' = Notifying
          /\ Waiting' = Waiting
        BY <1>1, <1>7 DEF TakeJob, Locking, Notifying, Waiting
    <2>2. Cardinality(Locking') = awake - 1
        BY <1>3, <2>1, FS_RemoveElement
    <2>3. Len(m_jobs') = demand - 1
        BY <1>1, <1>7, HeadTailProperties DEF TakeJob
    <2> QED
        BY <1>3, <1>4, <2>1, <2>2, <2>3 DEF WorkConserving
<1>8. ASSUME NEW w \in Workers, Wait(w) \/ Exit(w)
      PROVE  WorkConserving'
    <2>1. Len(m_jobs') = 0
        BY <1>8, EmptySeq DEF Wait, Exit, poolVars
    <2>2. /\ Locking' \in SUBSET Workers
          /\ Notifying' \in SUBSET Submitters
        BY DEF Locking, Notifying
    <2>3. Cardinality(Locking') \in Nat /\ Cardinality(Notifying') \in Nat
        BY <2>2, WorkersFinite
    <2> QED
        BY <2>1, <2>3 DEF WorkConserving
<1>9. ASSUME NEW w \in Workers,
             SpuriousWakeup(w) \/ JobReturns(w) \/ JobThrows(w)
      PROVE  WorkConserving'
    <2>1. /\ Locking' = Locking \cup {w}
          /\ Notifying' = Notifying
          /\ Waiting' \subseteq Waiting
          /\ m_jobs' = m_jobs
        BY <1>1, <1>9
        DEF SpuriousWakeup, JobReturns, JobThrows, Locking, Notifying,
            Waiting, poolVars
    <2>2. Cardinality(Locking \cup {w}) = IF w \in Locking THEN awake ELSE awake + 1
        BY <1>3, FS_AddElement
    <2>3. Cardinality(Locking') = IF w \in Locking THEN awake ELSE awake + 1
        BY <2>1, <2>2
    <2> QED
        BY <1>3, <1>4, <2>1, <2>3 DEF WorkConserving
<1>10. CASE NotifyAll
    BY <1>1, <1>10 DEF NotifyAll, Waiting, WorkConserving
<1>11. CASE UNCHANGED <<m_jobs, wpc, spc>>
    BY <1>11 DEF WorkConserving, Waiting, Locking, Notifying
<1> QED
    BY <1>5, <1>6, <1>7, <1>8, <1>9, <1>10, <1>11
    DEF Next, Submitter, Worker, Destructor, Terminated, SetStop, Join,
        Destroy, poolVars, vars

\* While a worker sleeps, every queued job has a worker on its way to the mutex
\* or a notification still to come: no wakeup is lost.
THEOREM NoLostWakeup == Spec => []WorkConserving
<1>1. Init => WorkConserving
    BY DEF Init, WorkConserving, Waiting
<1> QED
    BY <1>1, TypeInvInit, TypeInvStep, WorkConservingStep, PTL DEF Spec

(***************************************************************************)
(* Every job is run once                                                   *)
(***************************************************************************)

\* What ExactlyOnce needs to be inductive: no job is pushed twice, a job ends
\* only after it started, and between the two exactly one worker has it.
Distinct(s) == \A i, k \in 1..Len(s) : s[i] = s[k] => i = k

OnceInv ==
    /\ Distinct(submitted)
    /\ finished \subseteq ToSet(started)
    /\ \A w \in Workers :
          wpc[w] = "running" => job[w] \in ToSet(started) \ finished
    /\ \A w1, w2 \in Workers :
          wpc[w1] = "running" /\ wpc[w2] = "running" /\ job[w1] = job[w2]
              => w1 = w2
    /\ \A j \in ToSet(started) \ finished :
          \E w \in Workers : wpc[w] = "running" /\ job[w] = j

LEMMA OnceInvInit == Init => OnceInv
<1> SUFFICES ASSUME Init PROVE OnceInv
    OBVIOUS
<1>1. /\ ToSet(started) = {}
      /\ Len(submitted) = 0
    BY EmptySeq, ToSetAppend DEF Init
<1>2. Distinct(submitted)
    BY <1>1 DEF Distinct
<1> QED
    BY <1>1, <1>2 DEF Init, OnceInv

\* The job a worker takes is new: it comes after all the started ones in the
\* order of submission.
LEMMA TakenJobIsNew ==
    ASSUME TypeInv, FifoStart, OnceInv, m_jobs # <<>>
    PROVE  /\ Head(m_jobs) \in Jobs
           /\ Head(m_jobs) \notin ToSet(started)
<1>1. /\ m_jobs \in Seq(Jobs)
      /\ started \in Seq(Jobs)
      /\ started \o m_jobs = submitted
    BY DEF TypeInv, TypeOK, FifoStart
<1>2. /\ Head(m_jobs) \in Jobs /\ Head(m_jobs) = m_jobs[1]
      /\ Len(started) \in Nat /\ Len(m_jobs) \in Nat \ {0}
      /\ DOMAIN started = 1..Len(started)
    BY <1>1, HeadTailProperties, EmptySeq, LenProperties
<1>3. /\ Len(submitted) = Len(started) + Len(m_jobs)
      /\ \A i \in 1..Len(started) + Len(m_jobs) :
            submitted[i] = IF i <= Len(started) THEN started[i]
                                                ELSE m_jobs[i - Len(started)]
    BY <1>1, ConcatProperties
<1>4. /\ Len(started) + 1 \in 1..Len(submitted)
      /\ submitted[Len(started) + 1] = Head(m_jobs)
    BY <1>2, <1>3
<1>5. ASSUME NEW i \in 1..Len(started), started[i] = Head(m_jobs)
      PROVE  FALSE
    <2>1. i \in 1..Len(submitted) /\ submitted[i] = submitted[Len(started) + 1]
        BY <1>2, <1>3, <1>4, <1>5
    <2>2. i = Len(started) + 1
        BY <2>1, <1>4 DEF OnceInv, Distinct
    <2> QED
        BY <2>2, <1>2
<1> QED
    BY <1>2, <1>5 DEF ToSet

LEMMA OnceInvStep == TypeInv /\ FifoStart /\ OnceInv /\ [Next]_vars => OnceInv'
<1> SUFFICES ASSUME TypeInv, FifoStart, OnceInv, [Next]_vars
             PROVE  OnceInv'
    OBVIOUS
<1>1. /\ started \in Seq(Jobs)
      /\ submitted \in Seq(Jobs)
      /\ job \in [Workers -> Jobs \cup {NoJob}]
      /\ wpc \in [Workers -> {"locking", "waiting", "running", "exited"}]
    BY DEF TypeInv, TypeOK
<1>2. ASSUME NEW s \in Submitters, NEW j \in Jobs, Push(s, j)
      PROVE  OnceInv'
    <2>1. Distinct(submitted')
        <3>1. /\ submitted' = Append(submitted, j)
              /\ \A i \in 1..Len(submitted) : submitted[i] # j
            BY <1>1, <1>2, LenProperties DEF Push, ToSet
        <3>2. /\ Len(submitted') = Len(submitted) + 1
              /\ Len(submitted) \in Nat
              /\ \A i \in 1..Len(submitted) : submitted'[i] = submitted[i]
              /\ submitted'[Len(submitted) + 1] = j
            BY <1>1, <3>1, AppendProperties, LenProperties
        <3>3. \A i, k \in 1..Len(submitted) :
                  submitted[i] = submitted[k] => i = k
            BY DEF OnceInv, Distinct
        <3> QED
            BY <3>1, <3>2, <3>3 DEF Distinct
    <2> QED
        BY <1>2, <2>1 DEF Push, OnceInv
<1>3. ASSUME NEW w \in Workers, TakeJob(w)
      PROVE  OnceInv'
    <2> DEFINE h == Head(m_jobs)
    <2>1. /\ h \in Jobs
          /\ h \notin ToSet(started)
          /\ ToSet(started') = ToSet(started) \cup {h}
        BY <1>1, <1>3, TakenJobIsNew, ToSetAppend DEF TakeJob
    <2>2. /\ job' = [job EXCEPT ![w] = h]
          /\ wpc' = [wpc EXCEPT ![w] = "running"]
          /\ wpc[w] = "locking"
          /\ UNCHANGED <<submitted, finished>>
        BY <1>3 DEF TakeJob
    <2> HIDE DEF h
    <2> QED
        BY <1>1, <2>1, <2>2 DEF OnceInv
<1>4. ASSUME NEW w \in Workers, JobReturns(w) \/ JobThrows(w)
      PROVE  OnceInv'
    BY <1>1, <1>4 DEF JobReturns, JobThrows, OnceInv, poolVars
<1>5. ASSUME UNCHANGED <<submitted, started, finished, job>>,
             \A w \in Workers : wpc'[w] = "running" <=> wpc[w] = "running"
      PROVE  OnceInv'
    BY <1>5 DEF OnceInv
<1>6. ASSUME NEW w \in Workers, Wait(w) \/ SpuriousWakeup(w) \/ Exit(w)
      PROVE  OnceInv'
    BY <1>1, <1>5, <1>6 DEF Wait, SpuriousWakeup, Exit, historyVars
<1>7. ASSUME NEW s \in Submitters, NotifyOne(s)
      PROVE  OnceInv'
    BY <1>1, <1>5, <1>7 DEF NotifyOne, historyVars, Waiting
<1>8. CASE NotifyAll
    BY <1>1, <1>5, <1>8 DEF NotifyAll, historyVars, Waiting
<1>9. CASE SetStop \/ Join \/ Destroy \/ UNCHANGED vars
    BY <1>5, <1>9 DEF SetStop, Join, Destroy, historyVars, vars
<1> QED
    BY <1>2, <1>3, <1>4, <1>6, <1>7, <1>8, <1>9
    DEF Next, Submitter, Worker, Destructor, Terminated

\* A job that was taken is run by one worker until it ends, and a job that was
\* not taken, or has ended, by none.
THEOREM RunsOnce == Spec => []ExactlyOnce
<1>1. TypeInv /\ OnceInv => ExactlyOnce
    <2> SUFFICES ASSUME TypeInv, OnceInv
                 PROVE  ExactlyOnce
        OBVIOUS
    <2>1. ASSUME NEW j \in Jobs, j \in ToSet(started) \ finished
          PROVE  Cardinality(Running(j)) = 1
        <3>1. PICK w \in Workers : wpc[w] = "running" /\ job[w] = j
            BY <2>1 DEF OnceInv
        <3>2. Running(j) = {w}
            BY <3>1 DEF OnceInv, Running
        <3> QED
            BY <3>2, FS_Singleton
    <2>2. ASSUME NEW j \in Jobs, j \notin ToSet(started) \ finished
          PROVE  Cardinality(Running(j)) = 0
        <3>1. Running(j) = {}
            BY <2>2 DEF OnceInv, Running
        <3> QED
            BY <3>1, FS_EmptySet
    <2> QED
        BY <2>1, <2>2 DEF ExactlyOnce, OnceInv
<1> QED
    BY <1>1, TypeInvInit, TypeInvStep, FifoInit, FifoStep, OnceInvInit,
       OnceInvStep, PTL DEF Spec

(***************************************************************************)
(* The destructor                                                          *)
(***************************************************************************)

\* How far ~ThreadPool is, and what the workers have done by then.
StopInv ==
    /\ m_stop <=> dpc # "alive"
    /\ StopReachesWorkers
    /\ \A w \in 1..joined : wpc[w] = "exited"
    /\ dpc = "destroyed" => joined = NumWorkers
    /\ Detached = {} /\ (\E w \in Workers : wpc[w] = "exited")
           => m_stop /\ m_jobs = <<>>

LEMMA StopInvInit == Init => StopInv
<1> SUFFICES ASSUME Init PROVE StopInv
    OBVIOUS
<1>1. 1..joined = {}
    BY DEF Init
<1> QED
    BY <1>1 DEF Init, StopInv, StopReachesWorkers

LEMMA StopInvStep == TypeInv /\ StopInv /\ [Next]_vars => StopInv'
<1> SUFFICES ASSUME TypeInv, StopInv, [Next]_vars
             PROVE  StopInv'
    OBVIOUS
<1>1. /\ wpc \in [Workers -> {"locking", "waiting", "running", "exited"}]
      /\ joined \in 0..NumWorkers
      /\ m_stop \in BOOLEAN
      /\ 1..joined \subseteq Workers
    BY NumWorkersAssumption DEF TypeInv, TypeOK, Workers
<1> USE DEF StopInv, StopReachesWorkers, Waiting, poolVars, historyVars, ownerVars
<1>2. ASSUME NEW s \in Submitters, NEW j \in Jobs, Push(s, j)
      PROVE  StopInv'
    BY <1>1, <1>2 DEF Push
<1>3. ASSUME NEW s \in Submitters, NotifyOne(s)
      PROVE  StopInv'
    BY <1>1, <1>3 DEF NotifyOne
<1>4. ASSUME NEW w \in Workers, Wait(w) \/ SpuriousWakeup(w)
      PROVE  StopInv'
    BY <1>1, <1>4 DEF Wait, SpuriousWakeup
<1>5. ASSUME NEW w \in Workers, Exit(w)
      PROVE  StopInv'
    BY <1>1, <1>5 DEF Exit
<1>6. ASSUME NEW w \in Workers, TakeJob(w)
      PROVE  StopInv'
    BY <1>1, <1>6 DEF TakeJob
<1>7. ASSUME NEW w \in Workers, JobReturns(w) \/ JobThrows(w)
      PROVE  StopInv'
    BY <1>1, <1>7 DEF JobReturns, JobThrows
<1>8. CASE SetStop
    BY <1>1, <1>8 DEF SetStop
<1>9. CASE NotifyAll
    BY <1>1, <1>9 DEF NotifyAll
<1>10. CASE Join
    <2>1. \A w \in 1..joined' : w \in 1..joined \/ w = joined + 1
        BY <1>1, <1>10 DEF Join
    <2> QED
        BY <1>1, <1>10, <2>1 DEF Join
<1>11. CASE Destroy
    BY <1>1, <1>11 DEF Destroy
<1>12. CASE UNCHANGED vars
    BY <1>12 DEF vars
<1> QED
    BY <1>2, <1>3, <1>4, <1>5, <1>6, <1>7, <1>8, <1>9, <1>10, <1>11, <1>12
    DEF Next, Submitter, Worker, Destructor, Terminated

\* Once the destructor joins, no worker sleeps any more: no join can hang on a
\* worker that tested the predicate just before m_stop was set.
THEOREM NobodySleepsThroughStop == Spec => []StopReachesWorkers
<1>1. StopInv => StopReachesWorkers
    BY DEF StopInv
<1> QED
    BY <1>1, TypeInvInit, TypeInvStep, StopInvInit, StopInvStep, PTL DEF Spec

\* When no submitter outlives the owner's decision to destroy the pool,
\* ~ThreadPool returns only after every job ever pushed has ended.
THEOREM DrainedBeforeDestroyed == Detached = {} => (Spec => []DrainedAtExit)
<1> SUFFICES ASSUME Detached = {}
             PROVE  Spec => []DrainedAtExit
    OBVIOUS
<1>1. TypeInv /\ FifoStart /\ OnceInv /\ StopInv => DrainedAtExit
    <2> SUFFICES ASSUME TypeInv, FifoStart, OnceInv, StopInv, dpc = "destroyed"
                 PROVE  m_jobs = <<>> /\ finished = ToSet(submitted)
        BY DEF DrainedAtExit
    <2>1. \A w \in Workers : wpc[w] = "exited"
        BY DEF StopInv, Workers
    <2>2. 1 \in Workers
        BY NumWorkersAssumption DEF Workers
    <2>3. m_jobs = <<>>
        BY <2>1, <2>2 DEF StopInv
    <2>4. started = submitted
        BY <2>3, ConcatEmptySeq DEF FifoStart, TypeInv, TypeOK
    <2>5. finished = ToSet(started)
        BY <2>1 DEF OnceInv
    <2> QED
        BY <2>3, <2>4, <2>5
<1> QED
    BY <1>1, TypeInvInit, TypeInvStep, FifoInit, FifoStep, OnceInvInit,
       OnceInvStep, StopInvInit, StopInvStep, PTL DEF Spec

(***************************************************************************)
(* The pool is a task queue                                                *)
(***************************************************************************)

\* The state of ThreadPool, with the lock, the wakeups and the destructor
\* hidden, behaves as module TaskQueue says: a push is a Submit, taking the
\* front job a Take, the end of job() a Finish, and every other step a stutter.
THEOREM PoolIsTaskQueue == Spec => Queue!Spec
<1> USE DEF RunningNow
<1>1. Init => Queue!Init
    BY DEF Init, Queue!Init
<1>2. TypeInv /\ [Next]_vars => [Queue!Next]_Queue!vars
    <2> SUFFICES ASSUME TypeInv, [Next]_vars
                 PROVE  [Queue!Next]_Queue!vars
        OBVIOUS
    <2>1. /\ wpc \in [Workers -> {"locking", "waiting", "running", "exited"}]
          /\ job \in [Workers -> Jobs \cup {NoJob}]
          /\ m_jobs \in Seq(Jobs)
          /\ \A w \in Workers : wpc[w] = "running" => job[w] \in Jobs
        BY DEF TypeInv, TypeOK
    <2>2. ASSUME NEW s \in Submitters, NEW j \in Jobs, Push(s, j)
          PROVE  Queue!Submit(j)
        BY <2>2 DEF Push, Queue!Submit
    <2>3. ASSUME NEW w \in Workers, TakeJob(w)
          PROVE  Queue!Take(w)
        BY <2>1, <2>3 DEF TakeJob, Queue!Take
    <2>4. ASSUME NEW w \in Workers, JobReturns(w) \/ JobThrows(w)
          PROVE  Queue!Finish(w)
        BY <2>1, <2>4, NoJobAssumption
        DEF JobReturns, JobThrows, Queue!Finish, poolVars
    <2>5. ASSUME NEW w \in Workers, Wait(w) \/ SpuriousWakeup(w) \/ Exit(w)
          PROVE  UNCHANGED Queue!vars
        BY <2>1, <2>5
        DEF Wait, SpuriousWakeup, Exit, Queue!vars, poolVars
    <2>6. ASSUME NEW s \in Submitters, NotifyOne(s)
          PROVE  UNCHANGED Queue!vars
        BY <2>1, <2>6 DEF NotifyOne, Waiting, Queue!vars, poolVars
    <2>7. CASE NotifyAll
        BY <2>1, <2>7 DEF NotifyAll, Waiting, Queue!vars, poolVars
    <2>8. CASE SetStop \/ Join \/ Destroy \/ UNCHANGED vars
        BY <2>8 DEF SetStop, Join, Destroy, Queue!vars, poolVars, vars
    <2> QED
        BY <2>2, <2>3, <2>4, <2>5, <2>6, <2>7, <2>8
        DEF Next, Submitter, Worker, Destructor, Terminated, Queue!Next
<1> QED
    BY <1>1, <1>2, TypeInvInit, TypeInvStep, PTL DEF Spec, Queue!Spec

=============================================================================
