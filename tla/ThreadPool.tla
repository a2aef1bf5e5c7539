----------------------------- MODULE ThreadPool -----------------------------
(***************************************************************************)
(* The worker pool of src/src/vol-rest/src/thread_pool.c: a mutex, ONE     *)
(* condition variable (notify), a ring buffer of tasks and thread_count    *)
(* workers.  Everything the code does while it holds pool->lock is one     *)
(* atomic step; what it does outside the lock is a step of its own.        *)
(*                                                                         *)
(* pthread_cond_wait is the set waitset: a thread that waits is a member,  *)
(* pthread_cond_signal removes any one member, broadcast removes all, and  *)
(* a removed thread re-acquires the lock and re-tests its condition in its *)
(* next step.  POSIX also lets a wait return spuriously.                   *)
(*                                                                         *)
(* The caller of create, add and destroy is the application thread Main.   *)
(* It never waits on notify in this module; ParallelRead adds the reader   *)
(* that does.                                                              *)
(***************************************************************************)
EXTENDS Integers, Sequences, FiniteSets

CONSTANTS ThreadCount,   \* threadpool_create's thread_count
          QueueSize,     \* threadpool_create's queue_size
          Tasks,         \* the (function, argument) pairs ever submitted
          NoTask         \* an uninitialised task slot

ASSUME ThreadCountAssumption == ThreadCount \in Nat \ {0}
ASSUME QueueSizeAssumption   == QueueSize \in Nat \ {0}
ASSUME TasksAssumption       == IsFiniteSet(Tasks) /\ NoTask \notin Tasks

Workers == 0..(ThreadCount - 1)
Slots   == 0..(QueueSize - 1)
Main    == -1

VARIABLES task_queue, head, tail, count, shutdown, started,  \* threadpool_t
          waitset,     \* the threads blocked in pthread_cond_wait on notify
          wpc,         \* where each worker is
          task,        \* each worker's local variable task
          mpc, mi,     \* where Main is, and its loop index i
          err,         \* threadpool_destroy's err
          finished     \* history: the tasks whose function has returned

poolVars   == <<task_queue, head, tail, count>>
workerVars == <<wpc, task, started>>
mainVars   == <<mpc, mi, err>>
tpVars == <<task_queue, head, tail, count, shutdown, started, waitset, wpc,
            task, mpc, mi, err, finished>>

\* "none"    pthread_create has not made this thread;
\* "ready"   about to (re-)acquire the lock and test the loop condition,
\*           which includes being blocked in cond_wait (member of waitset);
\* "running" outside the lock, in (*(task.function))(task.argument);
\* "exited"  has left threadpool_thread.
WorkerStates == {"none", "ready", "running", "exited"}

\* "creating" in threadpool_create's loop, "counting" behind a successful
\* pthread_create of it;                  "open" the pool is in use;
\* "joining"  in threadpool_destroy's loop; "freed" destroy returned 0;
\* "leaked"   destroy returned -1 and kept the pool's memory;
\* "crashed"  pthread_join dereferenced a pthread_t nobody initialised.
MainStates == {"creating", "counting", "open", "joining", "freed", "leaked",
               "crashed"}

TPTypeOK == /\ task_queue \in [Slots -> Tasks \cup {NoTask}]
            /\ head \in Slots /\ tail \in Slots
            /\ count \in 0..QueueSize
            /\ shutdown \in BOOLEAN
            /\ started \in 0..ThreadCount
            /\ waitset \subseteq Workers \cup {Main}
            /\ wpc \in [Workers -> WorkerStates]
            /\ task \in [Workers -> Tasks \cup {NoTask}]
            /\ mpc \in MainStates
            /\ mi \in 0..ThreadCount
            /\ err \in {0, -1}
            /\ finished \subseteq Tasks

(***************************************************************************)
(* The condition variable (pthread library).                               *)
(***************************************************************************)

\* pthread_cond_signal: one waiter, any waiter, stops waiting.
cond_signal == \/ /\ waitset = {}
                  /\ waitset' = {}
               \/ \E t \in waitset : waitset' = waitset \ {t}

cond_broadcast == waitset' = {}

cond_wait(t) == waitset' = waitset \cup {t}

\* pthread_cond_wait may return although nobody signalled.
SpuriousWakeup(t) == /\ t \in waitset
                     /\ waitset' = waitset \ {t}
                     /\ UNCHANGED <<poolVars, shutdown, workerVars, mainVars,
                                    finished>>

(***************************************************************************)
(* threadpool_create                                                       *)
(***************************************************************************)
TPInit == /\ task_queue = [s \in Slots |-> NoTask]
          /\ head = 0 /\ tail = 0 /\ count = 0
          /\ shutdown = FALSE
          /\ started = 0
          /\ waitset = {}
          /\ wpc = [w \in Workers |-> "none"]
          /\ task = [w \in Workers |-> NoTask]
          /\ mpc = "creating" /\ mi = 0 /\ err = 0
          /\ finished = {}

\* One turn of the loop that starts the workers: pthread_create, and the new
\* worker runs ...
CreateThread == /\ mpc = "creating"
                /\ mi < ThreadCount
                /\ wpc' = [wpc EXCEPT ![mi] = "ready"]
                /\ mpc' = "counting"
                /\ UNCHANGED <<poolVars, shutdown, started, waitset, task, mi,
                               err, finished>>

\* ... before pool->started, which is not protected by the lock, counts it.
CountThread == /\ mpc = "counting"
               /\ started' = started + 1
               /\ mi' = mi + 1
               /\ mpc' = "creating"
               /\ UNCHANGED <<poolVars, shutdown, waitset, wpc, task, err,
                              finished>>

CreateReturn == /\ mpc = "creating"
                /\ mi = ThreadCount
                /\ mpc' = "open"
                /\ UNCHANGED <<poolVars, shutdown, waitset, workerVars, mi,
                               err, finished>>

(***************************************************************************)
(* threadpool_destroy: the locked part, then one join per worker.          *)
(***************************************************************************)
\* Faulty variant: wake one sleeping worker instead of all of them.
BeginDestroySignalsOne == /\ shutdown' = TRUE
                          /\ cond_signal
                          /\ mpc' = "joining" /\ mi' = 0 /\ err' = 0
                          /\ UNCHANGED <<poolVars, workerVars, finished>>

BeginDestroy == /\ shutdown' = TRUE
                /\ cond_broadcast
                /\ mpc' = "joining" /\ mi' = 0 /\ err' = 0
                /\ UNCHANGED <<poolVars, workerVars, finished>>

\* pthread_create failed: threadpool_create tears the pool down.
CreateFails == /\ mpc = "creating"
               /\ mi < ThreadCount
               /\ BeginDestroy

threadpool_destroy == /\ mpc = "open"
                      /\ BeginDestroy

\* pthread_join blocks until the worker is gone.  A worker that was never
\* created leaves threads[i] uninitialised: the join reports an error or
\* takes the process down.
JoinThread ==
    /\ mpc = "joining"
    /\ mi < ThreadCount
    /\ \/ /\ wpc[mi] = "exited"
          /\ mi' = mi + 1
          /\ UNCHANGED <<mpc, err>>
       \/ /\ wpc[mi] = "none"
          /\ mi' = mi + 1
          /\ err' = -1
          /\ UNCHANGED mpc
       \/ /\ wpc[mi] = "none"
          /\ mpc' = "crashed"
          /\ UNCHANGED <<mi, err>>
    /\ UNCHANGED <<poolVars, shutdown, waitset, workerVars, finished>>

\* Faulty variant: free the pool whatever the joins returned.
DestroyFreesAlways == /\ mpc = "joining"
                      /\ mi = ThreadCount
                      /\ mpc' = "freed"
                      /\ UNCHANGED <<poolVars, shutdown, waitset, workerVars,
                                     mi, err, finished>>

\* The pool is freed only when every join succeeded.
DestroyReturn == /\ mpc = "joining"
                 /\ mi = ThreadCount
                 /\ mpc' = IF err = 0 THEN "freed" ELSE "leaked"
                 /\ UNCHANGED <<poolVars, shutdown, waitset, workerVars, mi,
                                err, finished>>

(***************************************************************************)
(* threadpool_add                                                          *)
(***************************************************************************)

\* Faulty variant: the index does not wrap.
RingNextUnwrapped(i) == i + 1

RingNext(i) == (i + 1) % QueueSize

\* The ring buffer is full: threadpool_add returns -1 and does nothing.
AddRefused == count = QueueSize

\* Faulty variant: nobody is signalled.
EnqueueSilently(t) == /\ ~ AddRefused
                      /\ task_queue' = [task_queue EXCEPT ![tail] = t]
                      /\ tail' = RingNext(tail)
                      /\ count' = count + 1
                      /\ UNCHANGED <<head, shutdown, waitset, workerVars,
                                     finished>>

\* What threadpool_add does to the pool when it accepts t.
Enqueue(t) == /\ ~ AddRefused
              /\ task_queue' = [task_queue EXCEPT ![tail] = t]
              /\ tail' = RingNext(tail)
              /\ count' = count + 1
              /\ cond_signal
              /\ UNCHANGED <<head, shutdown, workerVars, finished>>

\* A task is submitted once: its argument is allocated for this one call.
Submitted == {task_queue[(head + k) % QueueSize] : k \in 0..(count - 1)}
                \cup {task[w] : w \in {v \in Workers : wpc[v] = "running"}}
                \cup finished

threadpool_add(t) == /\ mpc = "open"
                     /\ t \notin Submitted
                     /\ Enqueue(t)
                     /\ UNCHANGED mainVars

(***************************************************************************)
(* threadpool_thread                                                       *)
(***************************************************************************)
Runnable(w) == wpc[w] = "ready" /\ w \notin waitset

\* Faulty variant: wait before looking at the queue.
WaitUnconditionally(w) == /\ Runnable(w)
                          /\ ~ shutdown
                          /\ cond_wait(w)
                          /\ UNCHANGED <<poolVars, shutdown, workerVars,
                                         mainVars, finished>>

\* The loop condition held: block on notify and release the lock.
WorkerWait(w) == /\ Runnable(w)
                 /\ count = 0 /\ ~ shutdown
                 /\ cond_wait(w)
                 /\ UNCHANGED <<poolVars, shutdown, workerVars, mainVars,
                                finished>>

\* Faulty variant: the head index is advanced before the task is read.
TakeAfterAdvance(w) == /\ Runnable(w)
                       /\ count > 0
                       /\ task' = [task EXCEPT ![w] = task_queue[RingNext(head)]]
                       /\ head' = RingNext(head)
                       /\ count' = count - 1
                       /\ wpc' = [wpc EXCEPT ![w] = "running"]
                       /\ UNCHANGED <<task_queue, tail, shutdown, started,
                                      waitset, mainVars, finished>>

WorkerTake(w) == /\ Runnable(w)
                 /\ count > 0
                 /\ task' = [task EXCEPT ![w] = task_queue[head]]
                 /\ head' = RingNext(head)
                 /\ count' = count - 1
                 /\ wpc' = [wpc EXCEPT ![w] = "running"]
                 /\ UNCHANGED <<task_queue, tail, shutdown, started, waitset,
                                mainVars, finished>>

\* Faulty variant: leave as soon as the pool is shut down.
ExitUndrained(w) == /\ Runnable(w)
                    /\ shutdown
                    /\ wpc' = [wpc EXCEPT ![w] = "exited"]
                    /\ started' = started - 1
                    /\ UNCHANGED <<poolVars, shutdown, waitset, task, mainVars,
                                   finished>>

\* Shut down and drained: leave the loop, still holding the lock.
WorkerExit(w) == /\ Runnable(w)
                 /\ shutdown /\ count = 0
                 /\ wpc' = [wpc EXCEPT ![w] = "exited"]
                 /\ started' = started - 1
                 /\ UNCHANGED <<poolVars, shutdown, waitset, task, mainVars,
                                finished>>

\* The task's function returns and the worker goes round its loop.
FunctionReturns(w) == /\ wpc[w] = "running"
                      /\ wpc' = [wpc EXCEPT ![w] = "ready"]
                      /\ finished' = finished \cup {task[w]}
                      /\ UNCHANGED <<poolVars, shutdown, started, task>>

WorkerDone(w) == /\ FunctionReturns(w)
                 /\ UNCHANGED <<waitset, mainVars>>

(***************************************************************************)
(* The pool with an arbitrary caller.                                      *)
(***************************************************************************)
LoopStep(w) == WorkerWait(w) \/ WorkerTake(w) \/ WorkerExit(w)

MainStep == \/ CreateThread \/ CountThread \/ CreateFails \/ CreateReturn
            \/ \E t \in Tasks : threadpool_add(t)
            \/ threadpool_destroy \/ JoinThread \/ DestroyReturn

Terminated == /\ mpc \in {"freed", "leaked", "crashed"}
              /\ UNCHANGED tpVars

TPNext == \/ MainStep
          \/ \E w \in Workers : LoopStep(w) \/ WorkerDone(w)
          \/ \E t \in waitset : SpuriousWakeup(t)
          \/ Terminated

TPSpec == TPInit /\ [][TPNext]_tpVars

\* The operating system runs every thread that can run, tasks return, and
\* threadpool_create and threadpool_destroy go on once they were called.
\* Nothing makes the caller submit a task or destroy the pool.
TPFairness == /\ \A w \in Workers : WF_tpVars(LoopStep(w))
              /\ \A w \in Workers : WF_tpVars(WorkerDone(w))
              /\ WF_tpVars(JoinThread \/ DestroyReturn)

TPFairSpec == TPSpec /\ TPFairness

(***************************************************************************)
(* Properties                                                              *)
(***************************************************************************)

\* The queue held in the ring buffer, oldest task first.
Pending == [k \in 1..count |-> task_queue[(head + k - 1) % QueueSize]]

Active == {task[w] : w \in {v \in Workers : wpc[v] = "running"}}

\* Every worker waits for the same condition, so threadpool_add's single
\* signal must be enough: while tasks are queued and some worker sleeps, at
\* least as many workers are on their way to the queue as there are tasks
\* in it.  This is what makes cond_signal (rather than broadcast) in
\* threadpool_add safe.
NoLostWakeup ==
    LET awake == {w \in Workers : Runnable(w)}
    IN  waitset \cap Workers # {} => Cardinality(awake) >= count

\* threadpool_destroy frees the mutex and the queue only when no worker can
\* touch them again and no accepted task was dropped.
FreedIsQuiescent == mpc = "freed" =>
                      /\ \A w \in Workers : wpc[w] = "exited"
                      /\ count = 0 /\ waitset = {}

\* thread_pool.c implements the bounded FIFO queue.
TQ == INSTANCE TaskQueue WITH Jobs <- Tasks, Capacity <- QueueSize,
        Concurrency <- ThreadCount, queue <- Pending, inProgress <- Active,
        done <- finished, closed <- (mpc = "freed")

ImplementsTaskQueue == TQ!TQFairSpec

\* Every accepted task is eventually run, even one that was still queued
\* when threadpool_destroy was called.
AcceptedTasksRun == \A t \in Tasks : (t \in Submitted) ~> (t \in finished)

\* threadpool_destroy always comes to an end: no worker sleeps through the
\* shutdown and none is joined that cannot exit.
DestroyReturns == (mpc = "joining") ~> (mpc \in {"freed", "leaked", "crashed"})
=============================================================================
