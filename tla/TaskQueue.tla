------------------------------ MODULE TaskQueue ------------------------------
(***************************************************************************)
(* What the thread pool of src/src/vol-rest/src/thread_pool.c promises the *)
(* caller of threadpool_add: a bounded FIFO queue of tasks.  A task that   *)
(* was accepted is started at most once, in the order of acceptance, by at *)
(* most Concurrency tasks at a time, and the queue is only closed once it  *)
(* has been drained.  Nothing is said of threads, locks or wakeups: this   *)
(* is the abstract specification that ThreadPool implements.               *)
(***************************************************************************)
EXTENDS Naturals, Sequences, FiniteSets

CONSTANTS Jobs,         \* the tasks that may ever be submitted
          Capacity,     \* how many may be queued (queue_size)
          Concurrency   \* how many may run at a time (thread_count)

VARIABLES queue,        \* accepted and not yet started, oldest first
          inProgress,   \* started and not yet finished
          done,         \* finished
          closed        \* the pool has been destroyed

tqVars == <<queue, inProgress, done, closed>>

Queued == {queue[i] : i \in 1..Len(queue)}

TQInit == /\ queue = <<>>
          /\ inProgress = {}
          /\ done = {}
          /\ closed = FALSE

Submit(j) == /\ ~closed
             /\ Len(queue) < Capacity
             /\ j \notin Queued \cup inProgress \cup done
             /\ queue' = Append(queue, j)
             /\ UNCHANGED <<inProgress, done, closed>>

\* Only the oldest queued task may start.
Start == /\ queue # <<>>
         /\ Cardinality(inProgress) < Concurrency
         /\ inProgress' = inProgress \cup {Head(queue)}
         /\ queue' = Tail(queue)
         /\ UNCHANGED <<done, closed>>

Finish(j) == /\ j \in inProgress
             /\ inProgress' = inProgress \ {j}
             /\ done' = done \cup {j}
             /\ UNCHANGED <<queue, closed>>

Close == /\ ~closed
         /\ queue = <<>>
         /\ inProgress = {}
         /\ closed' = TRUE
         /\ UNCHANGED <<queue, inProgress, done>>

TQNext == \/ \E j \in Jobs : Submit(j) \/ Finish(j)
          \/ Start
          \/ Close

TQSpec == TQInit /\ [][TQNext]_tqVars

\* Every started task is carried through, and a task never waits for ever
\* at the head of the queue.
TQFairness == /\ \A j \in Jobs : WF_tqVars(Finish(j))
              /\ WF_tqVars(Start)

TQFairSpec == TQSpec /\ TQFairness
=============================================================================
