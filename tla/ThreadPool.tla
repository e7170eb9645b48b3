----------------------------- MODULE ThreadPool ------------------------------
(***************************************************************************)
(* The thread pool of MessageQueueServer: BS::thread_pool, a library that  *)
(* is not in src/, as server.cc uses it.  detach_task puts a task at the   *)
(* end of one queue, a worker that is free takes the first one, and an     *)
(* exception that leaves a task leaves the thread: std::terminate.         *)
(***************************************************************************)
EXTENDS Naturals, Sequences

CONSTANTS
  Workers,  \* the threads of the pool, pool_size_ of them
  None      \* no task

VARIABLES
  tasks,    \* the queue
  job       \* the task each worker is on, or None

poolVars == <<tasks, job>>

PoolInit == tasks = <<>> /\ job = [w \in Workers |-> None]

Detach(t) == tasks' = Append(tasks, t) /\ UNCHANGED job

Take(w) ==
  /\ job[w] = None
  /\ tasks # <<>>
  /\ job' = [job EXCEPT ![w] = Head(tasks)]
  /\ tasks' = Tail(tasks)

Done(w) == job' = [job EXCEPT ![w] = None] /\ UNCHANGED tasks

\* How often a task waits in the queue or is being worked on.
InPool(t) == {i \in DOMAIN tasks : tasks[i] = t}
OnWorkers(t) == {w \in Workers : job[w] = t}
==============================================================================
