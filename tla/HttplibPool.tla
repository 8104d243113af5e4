----------------------------- MODULE HttplibPool -----------------------------
(***************************************************************************)
(* httplib::ThreadPool of http_demo/httplib.h, the pool of the demo in     *)
(* http_demo/server.cpp: a fixed set of base threads and, when none of     *)
(* them is idle, dynamic threads that leave again after an idle time-out.  *)
(* A thread object is always in one of the lists threads_ (Base),          *)
(* dynamic_threads_ and finished_threads_, or in shutdown()'s local list.  *)
(*                                                                         *)
(* One thread, the owner, calls enqueue and shutdown.  A critical section  *)
(* is one step, except the one of enqueue that joins finished threads with *)
(* mutex_ held: it may wait, and everybody else with it.                   *)
(***************************************************************************)
EXTENDS Naturals, Sequences, FiniteSets, SequencesExt

CONSTANTS
    Base,      \* base threads, base_thread_count_ of them; none is in Dynamic
    Dynamic,   \* dynamic threads that may exist at a time; a thread is used
               \* again once it has been joined
    Tasks,
    NoTask     \* not a task

VARIABLES
    jobs_,
    idle_thread_count_,
    shutdown_,
    dynamic_threads_,
    finished_threads_,
    remaining,   \* shutdown()'s remaining_dynamic
    tpc,         \* where each thread is in worker()
    job,         \* the fn it executes
    opc          \* where the owner is in enqueue or shutdown

Threads == Base \cup Dynamic
vars == <<jobs_, idle_thread_count_, shutdown_, dynamic_threads_,
          finished_threads_, remaining, tpc, job, opc>>

\* "start": about to lock mutex_ at the top of the loop; "waiting": in cond_;
\* "woken": out of it and about to lock mutex_ again; "after": a dynamic thread
\* behind its job; "leaving": in the list of the finished, not ended yet.
ThreadStates == {"none", "start", "waiting", "woken", "running", "after",
                 "leaving", "ended"}
OwnerStates == {"out", "cleanup", "notify", "notify_all", "joinbase", "joindynamic",
                "done"}

TypeOK ==
    /\ jobs_ \in Seq(Tasks)
    /\ idle_thread_count_ =
           Cardinality({t \in Threads : tpc[t] \in {"waiting", "woken"}})
    /\ shutdown_ \in BOOLEAN
    /\ dynamic_threads_ \subseteq Dynamic
    /\ finished_threads_ \subseteq Dynamic
    /\ remaining \subseteq Dynamic
    /\ tpc \in [Threads -> ThreadStates]
    /\ job \in [Threads -> Tasks \cup {NoTask}]
    /\ opc \in OwnerStates

\* The constructor has started the base threads.
Init ==
    /\ jobs_ = <<>>
    /\ idle_thread_count_ = 0
    /\ shutdown_ = FALSE
    /\ dynamic_threads_ = {} /\ finished_threads_ = {} /\ remaining = {}
    /\ tpc = [t \in Threads |-> IF t \in Base THEN "start" ELSE "none"]
    /\ job = [t \in Threads |-> NoTask]
    /\ opc = "out"

MutexFree == opc # "cleanup"
Asleep == {t \in Threads : tpc[t] = "waiting"}
Ended(ts) == \A t \in ts : tpc[t] = "ended"
-----------------------------------------------------------------------------
(* The owner: enqueue(fn) *)

\* No thread is idle and another one may be started.
WantsThread ==
    /\ idle_thread_count_ = 0
    /\ Cardinality(dynamic_threads_) < Cardinality(Dynamic)

\* Push the job; with WantsThread the lock is kept for the clean-up.
Push(fn) ==
    /\ opc = "out"
    /\ jobs_' = Append(jobs_, fn)
    /\ opc' = IF WantsThread THEN "cleanup" ELSE "notify"
    /\ UNCHANGED <<idle_thread_count_, shutdown_, dynamic_threads_,
                   finished_threads_, remaining, tpc, job>>

\* cleanup_finished_threads joins, then one dynamic thread is started.
CleanUpAndSpawn ==
    /\ opc = "cleanup"
    /\ Ended(finished_threads_)
    /\ \E t \in Dynamic \ dynamic_threads_ :
          /\ dynamic_threads_' = dynamic_threads_ \cup {t}
          /\ tpc' = [u \in Threads |-> IF u = t THEN "start"
                                       ELSE IF u \in finished_threads_ THEN "none"
                                       ELSE tpc[u]]
    /\ finished_threads_' = {}
    /\ opc' = "notify"
    /\ UNCHANGED <<jobs_, idle_thread_count_, shutdown_, remaining, job>>

\* cond_.notify_one(), after the unlock.
NotifyOne ==
    /\ opc = "notify"
    /\ \/ Asleep = {} /\ UNCHANGED tpc
       \/ \E t \in Asleep : tpc' = [tpc EXCEPT ![t] = "woken"]
    /\ opc' = "out"
    /\ UNCHANGED <<jobs_, idle_thread_count_, shutdown_, dynamic_threads_,
                   finished_threads_, remaining, job>>

-----------------------------------------------------------------------------
(* The owner: shutdown() *)

SetShutdown ==
    /\ opc = "out"
    /\ shutdown_' = TRUE
    /\ opc' = "notify_all"
    /\ UNCHANGED <<jobs_, idle_thread_count_, dynamic_threads_,
                   finished_threads_, remaining, tpc, job>>

\* Mutant of NotifyAll: the flag is set and nobody is told.
NotifyAllForgotten ==
    /\ opc = "notify_all"
    /\ opc' = "joinbase"
    /\ UNCHANGED <<jobs_, idle_thread_count_, shutdown_, dynamic_threads_,
                   finished_threads_, remaining, tpc, job>>

NotifyAll ==
    /\ opc = "notify_all"
    /\ tpc' = [t \in Threads |-> IF tpc[t] = "waiting" THEN "woken" ELSE tpc[t]]
    /\ opc' = "joinbase"
    /\ UNCHANGED <<jobs_, idle_thread_count_, shutdown_, dynamic_threads_,
                   finished_threads_, remaining, job>>

\* Mutant of JoinBase: the list of dynamic threads is copied, not moved.
JoinBaseCopies ==
    /\ opc = "joinbase"
    /\ Ended(Base)
    /\ remaining' = dynamic_threads_
    /\ opc' = "joindynamic"
    /\ UNCHANGED <<jobs_, idle_thread_count_, shutdown_, dynamic_threads_,
                   finished_threads_, tpc, job>>

\* The base threads are joined; then, under the lock, remaining_dynamic =
\* std::move(dynamic_threads_).
JoinBase ==
    /\ opc = "joinbase"
    /\ Ended(Base)
    /\ remaining' = dynamic_threads_ /\ dynamic_threads_' = {}
    /\ opc' = "joindynamic"
    /\ UNCHANGED <<jobs_, idle_thread_count_, shutdown_, finished_threads_,
                   tpc, job>>

\* Those threads are joined, the finished ones cleaned up, and the pool goes.
JoinDynamic ==
    /\ opc = "joindynamic"
    /\ Ended(remaining \cup finished_threads_)
    /\ finished_threads_' = {} /\ remaining' = {}
    /\ tpc' = [t \in Threads |-> IF t \in finished_threads_ \cup remaining
                                 THEN "none" ELSE tpc[t]]
    /\ opc' = "done"
    /\ UNCHANGED <<jobs_, idle_thread_count_, shutdown_, dynamic_threads_, job>>

-----------------------------------------------------------------------------
(* worker(is_dynamic) *)

HasWork == jobs_ # <<>> \/ shutdown_

\* The predicate does not hold: wait, with or without a time limit.
Wait(t) ==
    /\ tpc[t] \in {"start", "woken"} /\ MutexFree /\ ~HasWork
    /\ tpc' = [tpc EXCEPT ![t] = "waiting"]
    /\ idle_thread_count_' = idle_thread_count_
                                 + (IF tpc[t] = "start" THEN 1 ELSE 0)
    /\ UNCHANGED <<jobs_, shutdown_, dynamic_threads_, finished_threads_,
                   remaining, job, opc>>

\* A thread wakes up for no reason, or because its time is up.
WakeUp(t) ==
    /\ tpc[t] = "waiting"
    /\ tpc' = [tpc EXCEPT ![t] = "woken"]
    /\ UNCHANGED <<jobs_, idle_thread_count_, shutdown_, dynamic_threads_,
                   finished_threads_, remaining, job, opc>>

\* Mutant of LeaveIdle: the count is not taken back behind the wait.
LeaveIdleForgotten(t) == idle_thread_count_' = idle_thread_count_

\* idle_thread_count_++ at the top of the loop, and -- behind the wait.
LeaveIdle(t) ==
    idle_thread_count_' = IF tpc[t] = "start" THEN idle_thread_count_
                          ELSE idle_thread_count_ - 1

\* Mutant of Take: the newest job is taken.
TakeNewest(t) ==
    /\ tpc[t] \in {"start", "woken"} /\ MutexFree
    /\ jobs_ # <<>>
    /\ job' = [job EXCEPT ![t] = Last(jobs_)]
    /\ jobs_' = Front(jobs_)
    /\ tpc' = [tpc EXCEPT ![t] = "running"]
    /\ LeaveIdle(t)
    /\ UNCHANGED <<shutdown_, dynamic_threads_, finished_threads_, remaining,
                   opc>>

\* The oldest job is moved out of the queue, to be run without the lock.
Take(t) ==
    /\ tpc[t] \in {"start", "woken"} /\ MutexFree
    /\ jobs_ # <<>>
    /\ job' = [job EXCEPT ![t] = Head(jobs_)]
    /\ jobs_' = Tail(jobs_)
    /\ tpc' = [tpc EXCEPT ![t] = "running"]
    /\ LeaveIdle(t)
    /\ UNCHANGED <<shutdown_, dynamic_threads_, finished_threads_, remaining,
                   opc>>

\* if (shutdown_ && jobs_.empty()) break: the thread stays in its list, and ends
\* without another look at the pool.
ShutDown(t) ==
    /\ tpc[t] \in {"start", "woken"} /\ MutexFree
    /\ shutdown_ /\ jobs_ = <<>>
    /\ tpc' = [tpc EXCEPT ![t] = "ended"]
    /\ LeaveIdle(t)
    /\ UNCHANGED <<jobs_, shutdown_, dynamic_threads_, finished_threads_,
                   remaining, job, opc>>

\* move_to_finished(id): nothing happens if shutdown() has taken the list.
MoveToFinished(t) ==
    /\ finished_threads_' = finished_threads_ \cup ({t} \cap dynamic_threads_)
    /\ dynamic_threads_' = dynamic_threads_ \ {t}

\* Mutant of TimeOut: it leaves without looking at the predicate again.
TimeOutUnchecked(t) ==
    /\ t \in Dynamic /\ tpc[t] = "woken" /\ MutexFree
    /\ MoveToFinished(t)
    /\ tpc' = [tpc EXCEPT ![t] = "leaving"]
    /\ LeaveIdle(t)
    /\ UNCHANGED <<jobs_, shutdown_, remaining, job, opc>>

\* The time is up and wait_for returns the predicate, still false: a dynamic
\* thread leaves.
TimeOut(t) ==
    /\ t \in Dynamic /\ tpc[t] = "woken" /\ MutexFree /\ ~HasWork
    /\ MoveToFinished(t)
    /\ tpc' = [tpc EXCEPT ![t] = "leaving"]
    /\ LeaveIdle(t)
    /\ UNCHANGED <<jobs_, shutdown_, remaining, job, opc>>

\* fn() returns.
Return(t) ==
    /\ tpc[t] = "running"
    /\ job' = [job EXCEPT ![t] = NoTask]
    /\ tpc' = [tpc EXCEPT ![t] = IF t \in Dynamic THEN "after" ELSE "start"]
    /\ UNCHANGED <<jobs_, idle_thread_count_, shutdown_, dynamic_threads_,
                   finished_threads_, remaining, opc>>

\* A dynamic thread leaves when it finds the queue empty after its job.
AfterJob(t) ==
    /\ tpc[t] = "after" /\ MutexFree
    /\ IF jobs_ = <<>>
       THEN /\ MoveToFinished(t)
            /\ tpc' = [tpc EXCEPT ![t] = "leaving"]
       ELSE /\ tpc' = [tpc EXCEPT ![t] = "start"]
            /\ UNCHANGED <<dynamic_threads_, finished_threads_>>
    /\ UNCHANGED <<jobs_, idle_thread_count_, shutdown_, remaining, job, opc>>

\* The thread function returns; from here on join does.
End(t) ==
    /\ tpc[t] = "leaving"
    /\ tpc' = [tpc EXCEPT ![t] = "ended"]
    /\ UNCHANGED <<jobs_, idle_thread_count_, shutdown_, dynamic_threads_,
                   finished_threads_, remaining, job, opc>>

RestOfShutdown == NotifyAll \/ JoinBase \/ JoinDynamic

-----------------------------------------------------------------------------
(* Properties *)

\* Whichever of time-out, last job, clean-up and shutdown() comes first: a
\* dynamic thread that has been started is in exactly one list until it has been
\* joined, so no std::thread is destroyed while it is joinable, none is joined
\* twice, and none outlives the pool.
ThreadsAccounted ==
    /\ dynamic_threads_ \cup finished_threads_ \cup remaining
           = {t \in Dynamic : tpc[t] # "none"}
    /\ dynamic_threads_ \cap finished_threads_ = {}
    /\ (dynamic_threads_ \cup finished_threads_) \cap remaining = {}
    /\ opc = "done" => jobs_ = <<>> /\ Ended(Base)

\* Those that will look at the queue without being told to.
OnTheWay == {t \in Threads : tpc[t] \in {"start", "woken", "after"}}

\* A wake-up is not lost between notify_one, spurious wake-ups, time-outs and
\* threads that leave: a thread sleeps in cond_ only while each queued job has a
\* thread on its way to the queue, or its notification still to come, and no
\* thread sleeps through shutdown().
NoJobAsleep ==
    Asleep # {} =>
        /\ shutdown_ => opc = "notify_all"
        /\ Len(jobs_) <= Cardinality(OnTheWay)
                         + (IF opc \in {"cleanup", "notify"} THEN 1 ELSE 0)

\* The pool promises the server what web::ThreadPool does (TaskQueue).
Queue == INSTANCE TaskQueue
         WITH Workers <- Threads, queue <- jobs_, running <- job
ImplementsTaskQueue == Queue!Spec
=============================================================================
