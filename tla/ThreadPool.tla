------------------------------ MODULE ThreadPool ------------------------------
(***************************************************************************)
(* web::ThreadPool of include/web/thread_pool.h: a queue of jobs guarded   *)
(* by a mutex and a condition variable, worker threads running JobHandler, *)
(* submitters calling enqueue/emplace, and the destructor, which sets      *)
(* m_stop, wakes everyone and joins the workers one after the other.       *)
(*                                                                         *)
(* Grain.  m_jobs and m_stop are only touched with m_mutex held, so each   *)
(* critical section is one step.  notify_one and notify_all are called     *)
(* after the mutex is released and are steps of their own, so a worker     *)
(* can test the predicate between the push and the notification.           *)
(*                                                                         *)
(* A job is the std::function object of one enqueue call; no two calls     *)
(* make the same object.                                                   *)
(***************************************************************************)
EXTENDS Naturals, FiniteSets, SequencesExt

CONSTANTS
    NumWorkers,  \* constructor argument num_workers
    Submitters,  \* threads that call enqueue or emplace
    Detached,    \* the submitters nobody stops before ~ThreadPool runs
    Jobs,        \* the job objects, each enqueued at most once
    NoJob        \* Job job{nullptr}

ASSUME NumWorkersAssumption == NumWorkers \in Nat \ {0}
ASSUME SubmittersAssumption == IsFiniteSet(Submitters)
ASSUME DetachedAssumption   == Detached \subseteq Submitters
ASSUME NoJobAssumption      == NoJob \notin Jobs

Workers == 1..NumWorkers   \* indices in m_workers

VARIABLES
    m_stop,     \* the pool is being destroyed
    m_jobs,     \* std::queue<Job>
    wpc,        \* where each worker is in JobHandler
    job,        \* JobHandler's local variable
    spc,        \* where each submitter is in enqueue
    dpc,        \* where the owner is in ~ThreadPool
    joined,     \* how many workers the destructor has joined
    submitted,  \* history: the jobs in the order they were pushed
    started,    \* history: the jobs in the order they were taken
    finished    \* history: the jobs that returned or threw

vars == <<m_stop, m_jobs, wpc, job, spc, dpc, joined,
          submitted, started, finished>>

poolVars    == <<m_stop, m_jobs>>
historyVars == <<submitted, started, finished>>
ownerVars   == <<dpc, joined>>

Waiting == {w \in Workers : wpc[w] = "waiting"}
Locking == {w \in Workers : wpc[w] = "locking"}

\* Submitters that have pushed and not yet called notify_one.
Notifying == {s \in Submitters : spc[s] = "notify"}

TypeOK ==
    /\ m_stop \in BOOLEAN
    /\ m_jobs \in Seq(Jobs)
    /\ wpc \in [Workers -> {"locking", "waiting", "running", "exited"}]
    /\ job \in [Workers -> Jobs \cup {NoJob}]
    /\ spc \in [Submitters -> {"idle", "notify"}]
    /\ dpc \in {"alive", "notify_all", "join", "destroyed"}
    /\ joined \in 0..NumWorkers
    /\ submitted \in Seq(Jobs)
    /\ started \in Seq(Jobs)
    /\ finished \subseteq Jobs

\* The constructor has started the workers; none has taken the mutex yet.
Init ==
    /\ m_stop = FALSE
    /\ m_jobs = <<>>
    /\ wpc = [w \in Workers |-> "locking"]
    /\ job = [w \in Workers |-> NoJob]
    /\ spc = [s \in Submitters |-> "idle"]
    /\ dpc = "alive"
    /\ joined = 0
    /\ submitted = <<>>
    /\ started = <<>>
    /\ finished = {}

-----------------------------------------------------------------------------
(* enqueue and emplace *)

\* The critical section: push the job.  A submitter the owner controls is
\* quiet once ~ThreadPool has begun; a detached one is not.
Push(s, j) ==
    /\ spc[s] = "idle"
    /\ dpc = "alive" \/ (s \in Detached /\ dpc # "destroyed")
    /\ j \notin ToSet(submitted)
    /\ m_jobs' = Append(m_jobs, j)
    /\ submitted' = Append(submitted, j)
    /\ spc' = [spc EXCEPT ![s] = "notify"]
    /\ UNCHANGED <<m_stop, wpc, job, ownerVars, started, finished>>

\* Mutant of NotifyOne: the notification is forgotten.
NotifyNobody(s) ==
    /\ spc[s] = "notify"
    /\ spc' = [spc EXCEPT ![s] = "idle"]
    /\ UNCHANGED <<poolVars, wpc, job, ownerVars, historyVars>>

\* m_condition.notify_one(), outside the lock: one waiting thread, if any.
NotifyOne(s) ==
    /\ spc[s] = "notify"
    /\ spc' = [spc EXCEPT ![s] = "idle"]
    /\ IF Waiting = {}
       THEN UNCHANGED wpc
       ELSE \E w \in Waiting : wpc' = [wpc EXCEPT ![w] = "locking"]
    /\ UNCHANGED <<poolVars, job, ownerVars, historyVars>>

-----------------------------------------------------------------------------
(* JobHandler *)

\* The wait predicate is false: release the mutex and sleep.
Wait(w) ==
    /\ wpc[w] = "locking"
    /\ m_jobs = <<>> /\ ~m_stop
    /\ wpc' = [wpc EXCEPT ![w] = "waiting"]
    /\ UNCHANGED <<poolVars, job, spc, ownerVars, historyVars>>

\* std::condition_variable may wake a thread without a notification.
SpuriousWakeup(w) ==
    /\ wpc[w] = "waiting"
    /\ wpc' = [wpc EXCEPT ![w] = "locking"]
    /\ UNCHANGED <<poolVars, job, spc, ownerVars, historyVars>>

\* Mutant of Exit: the line commented out above the test, if (m_stop) return;
ExitAtOnce(w) ==
    /\ wpc[w] = "locking"
    /\ m_stop
    /\ wpc' = [wpc EXCEPT ![w] = "exited"]
    /\ UNCHANGED <<poolVars, job, spc, ownerVars, historyVars>>

\* if (m_stop && m_jobs.empty()) return;
Exit(w) ==
    /\ wpc[w] = "locking"
    /\ m_stop /\ m_jobs = <<>>
    /\ wpc' = [wpc EXCEPT ![w] = "exited"]
    /\ UNCHANGED <<poolVars, job, spc, ownerVars, historyVars>>

\* Mutant of TakeJob: the job is moved out and m_jobs.pop() is forgotten.
TakeWithoutPop(w) ==
    /\ wpc[w] = "locking"
    /\ m_jobs # <<>>
    /\ job' = [job EXCEPT ![w] = Head(m_jobs)]
    /\ wpc' = [wpc EXCEPT ![w] = "running"]
    /\ started' = Append(started, Head(m_jobs))
    /\ UNCHANGED <<poolVars, spc, ownerVars, submitted, finished>>

\* Move the front job out of the queue and release the mutex.
TakeJob(w) ==
    /\ wpc[w] = "locking"
    /\ m_jobs # <<>>
    /\ job' = [job EXCEPT ![w] = Head(m_jobs)]
    /\ m_jobs' = Tail(m_jobs)
    /\ wpc' = [wpc EXCEPT ![w] = "running"]
    /\ started' = Append(started, Head(m_jobs))
    /\ UNCHANGED <<m_stop, spc, ownerVars, submitted, finished>>

\* job() returns; the loop goes back for the mutex.
JobReturns(w) ==
    /\ wpc[w] = "running"
    /\ wpc' = [wpc EXCEPT ![w] = "locking"]
    /\ finished' = finished \cup {job[w]}
    /\ UNCHANGED <<poolVars, job, spc, ownerVars, submitted, started>>

\* Mutant of JobThrows: the exception ends the worker instead of the job.
ThrowKillsWorker(w) ==
    /\ wpc[w] = "running"
    /\ wpc' = [wpc EXCEPT ![w] = "exited"]
    /\ finished' = finished \cup {job[w]}
    /\ UNCHANGED <<poolVars, job, spc, ownerVars, submitted, started>>

\* job() throws; both catch clauses log and the loop goes on.
JobThrows(w) ==
    /\ wpc[w] = "running"
    /\ wpc' = [wpc EXCEPT ![w] = "locking"]
    /\ finished' = finished \cup {job[w]}
    /\ UNCHANGED <<poolVars, job, spc, ownerVars, submitted, started>>

-----------------------------------------------------------------------------
(* ~ThreadPool *)

\* The owner stops the submitters it controls, then sets m_stop.
SetStop ==
    /\ dpc = "alive"
    /\ \A s \in Submitters \ Detached : spc[s] = "idle"
    /\ m_stop' = TRUE
    /\ dpc' = "notify_all"
    /\ UNCHANGED <<m_jobs, wpc, job, spc, joined, historyVars>>

\* Mutant of NotifyAll: the destructor calls notify_one.
NotifyOnlyOne ==
    /\ dpc = "notify_all"
    /\ IF Waiting = {}
       THEN UNCHANGED wpc
       ELSE \E w \in Waiting : wpc' = [wpc EXCEPT ![w] = "locking"]
    /\ dpc' = "join"
    /\ UNCHANGED <<poolVars, job, spc, joined, historyVars>>

\* m_condition.notify_all(), outside the lock.
NotifyAll ==
    /\ dpc = "notify_all"
    /\ wpc' = [w \in Workers |-> IF w \in Waiting THEN "locking" ELSE wpc[w]]
    /\ dpc' = "join"
    /\ UNCHANGED <<poolVars, job, spc, joined, historyVars>>

\* Mutant of Join: the loop runs one index too far.
JoinTooFar ==
    /\ dpc = "join"
    /\ joined > 0 => wpc[joined] = "exited"
    /\ joined' = joined + 1
    /\ UNCHANGED <<poolVars, wpc, job, spc, dpc, historyVars>>

\* worker.join(), in the order of m_workers.
Join ==
    /\ dpc = "join"
    /\ joined < NumWorkers
    /\ wpc[joined + 1] = "exited"
    /\ joined' = joined + 1
    /\ UNCHANGED <<poolVars, wpc, job, spc, dpc, historyVars>>

\* Every worker is joined: the destructor returns and the members die.
Destroy ==
    /\ dpc = "join"
    /\ joined = NumWorkers
    /\ dpc' = "destroyed"
    /\ UNCHANGED <<poolVars, wpc, job, spc, joined, historyVars>>

\* The pool is gone and nobody is inside it: the system has stopped.
Terminated ==
    /\ dpc = "destroyed"
    /\ Notifying = {}
    /\ UNCHANGED vars

-----------------------------------------------------------------------------

Submitter(s) == NotifyOne(s) \/ \E j \in Jobs : Push(s, j)

Worker(w) == Wait(w) \/ Exit(w) \/ TakeJob(w) \/ JobReturns(w) \/ JobThrows(w)

Destructor == SetStop \/ NotifyAll \/ Join \/ Destroy

Next ==
    \/ \E s \in Submitters : Submitter(s)
    \/ \E w \in Workers : Worker(w) \/ SpuriousWakeup(w)
    \/ Destructor
    \/ Terminated

Spec == Init /\ [][Next]_vars

(***************************************************************************)
(* A thread that can run does run: the scheduler is fair, the mutex is     *)
(* only held for a few instructions, jobs end.  Nothing forces a submitter *)
(* to submit or the owner to destroy the pool.                             *)
(***************************************************************************)
Fairness ==
    /\ \A s \in Submitters : WF_vars(NotifyOne(s))
    /\ \A w \in Workers : WF_vars(Worker(w))
    /\ WF_vars(NotifyAll \/ Join \/ Destroy)

FairSpec == Spec /\ Fairness

-----------------------------------------------------------------------------
(* Properties *)

\* The workers executing job j.
Running(j) == {w \in Workers : wpc[w] = "running" /\ job[w] = j}

\* Jobs start in the order they were pushed, and none is lost or invented
\* between the queue and the workers, whatever the interleaving of several
\* submitters and workers: std::queue with front/pop under one lock.
FifoStart == started \o m_jobs = submitted

\* A job that has been taken is run by exactly one worker until it ends, and by
\* none before and after: moving the front out and popping it are one section.
ExactlyOnce ==
    /\ finished \subseteq ToSet(started)
    /\ \A j \in Jobs :
          Cardinality(Running(j)) =
              IF j \in ToSet(started) \ finished THEN 1 ELSE 0

\* No lost wakeup, although notify_one is called after the unlock: while a
\* worker sleeps, every queued job has a worker on its way to the mutex or a
\* notify_one still to come.
WorkConserving ==
    \/ Waiting = {}
    \/ Len(m_jobs) <= Cardinality(Locking) + Cardinality(Notifying)

\* Once the destructor joins, no worker sleeps or will ever sleep again, even
\* one that tested the predicate just before m_stop was set.
StopReachesWorkers == dpc \in {"join", "destroyed"} => Waiting = {}

\* include/README.md:4, before the pool exits all tasks must be completed: when
\* ~ThreadPool has returned, every job ever pushed has ended.
DrainedAtExit ==
    dpc = "destroyed" => m_jobs = <<>> /\ finished = ToSet(submitted)

\* ~ThreadPool returns: no join waits for a worker that sleeps forever.
DestructorReturns == (dpc # "alive") ~> (dpc = "destroyed")

\* The tasks being run, as TaskQueue sees them: JobHandler's local variable only
\* counts between the pop and the end of job().
RunningNow == [w \in Workers |-> IF wpc[w] = "running" THEN job[w] ELSE NoJob]

Queue == INSTANCE TaskQueue
         WITH Tasks <- Jobs, NoTask <- NoJob, queue <- m_jobs, running <- RunningNow

\* The pool implements the queue it promises, its fairness included.
ImplementsTaskQueue == Queue!FairSpec
=============================================================================
