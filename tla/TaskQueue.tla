------------------------------ MODULE TaskQueue ------------------------------
(***************************************************************************)
(* What web::ThreadPool promises to the code that hands it tasks: tasks    *)
(* wait in one FIFO queue, every worker runs one task at a time, and a     *)
(* task leaves the queue exactly when one worker takes it.  The mutex, the *)
(* condition variable, the notifications and the destructor of             *)
(* include/web/thread_pool.h are hidden; module ThreadPool has them and    *)
(* implements this module, and module HttpServer is built on this one.     *)
(***************************************************************************)
EXTENDS Sequences

CONSTANTS
    Workers,  \* the worker threads, m_workers
    Tasks,    \* what can be submitted
    NoTask    \* what an idle worker runs, not a task

VARIABLES
    queue,    \* m_jobs, front first
    running   \* the task each worker is executing

vars == <<queue, running>>

Init == /\ queue = <<>>
        /\ running = [w \in Workers |-> NoTask]

\* emplace(task): any thread, at any time.
Submit(t) == /\ queue' = Append(queue, t)
             /\ UNCHANGED running

\* An idle worker takes the oldest task.
Take(w) == /\ running[w] = NoTask
           /\ queue # <<>>
           /\ running' = [running EXCEPT ![w] = Head(queue)]
           /\ queue' = Tail(queue)

\* The task returns, or throws and is caught: the worker is free again.
Finish(w) == /\ running[w] # NoTask
             /\ running' = [running EXCEPT ![w] = NoTask]
             /\ UNCHANGED queue

Next == \/ \E t \in Tasks : Submit(t)
        \/ \E w \in Workers : Take(w) \/ Finish(w)

Spec == Init /\ [][Next]_vars

\* No queued task is left while there is an idle worker, and tasks end.
FairSpec == /\ Spec
            /\ WF_vars(\E w \in Workers : Take(w))
            /\ \A w \in Workers : WF_vars(Finish(w))
=============================================================================
