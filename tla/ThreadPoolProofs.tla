-------------------------- MODULE ThreadPoolProofs --------------------------
(***************************************************************************)
(* Proofs about thread_pool.c (module ThreadPool), for every number of     *)
(* workers, every queue size and every set of tasks: type correctness, no  *)
(* lost wakeup, that threadpool_destroy frees a quiescent pool, and that   *)
(* the pool implements the bounded FIFO queue of module TaskQueue.         *)
(***************************************************************************)
EXTENDS ThreadPool, FiniteSetTheorems, SequenceTheorems, TLAPS

Live  == {w \in Workers : wpc[w] \in {"ready", "running"}}
Awake == {w \in Workers : Runnable(w)}

(***************************************************************************)
(* The inductive invariant                                                 *)
(***************************************************************************)

\* A worker sleeps on notify only in its loop.
SleepersInv == \A w \in Workers : w \in waitset => wpc[w] = "ready"

\* threadpool_create makes the workers in the order of their indices.
CreatedInv == /\ mpc = "creating" => \A w \in Workers : w >= mi => wpc[w] = "none"
              /\ mpc = "counting" =>
                   mi < ThreadCount /\ \A w \in Workers : w > mi => wpc[w] = "none"

\* Between pthread_create and the addition behind it a worker already lives
\* that started does not count.
StartedInv == started + (IF mpc = "counting" THEN 1 ELSE 0) = Cardinality(Live)

\* The pool is shut down exactly when threadpool_destroy was called.
ShutdownInv == shutdown <=> mpc \notin {"creating", "counting", "open"}

\* A worker leaves only a pool that was shut down and drained.
DrainedInv == (\E w \in Workers : wpc[w] = "exited") => shutdown /\ count = 0

\* As long as no join failed, every worker joined so far has exited.
JoinedInv == /\ mpc = "joining" /\ err = 0 =>
                  \A w \in Workers : w < mi => wpc[w] = "exited"
             /\ mpc = "freed" => \A w \in Workers : wpc[w] = "exited"

\* NoLostWakeup, for the workers only: nobody else sleeps in this module.
WakeupInv == waitset # {} => Cardinality(Awake) >= count

\* The k-th oldest task in the ring buffer, counted from 0.
At(k) == task_queue[(head + k) % QueueSize]

\* tail is where the queue ends, and what is queued or running is a task.
RingInv == /\ tail = (head + count) % QueueSize
           /\ \A k \in 0..(count - 1) : At(k) \in Tasks
           /\ \A w \in Workers : wpc[w] = "running" => task[w] \in Tasks

\* A task is queued once, or run by one worker, or finished.
UniqueInv == /\ \A k, m \in 0..(count - 1) : At(k) = At(m) => k = m
             /\ \A k \in 0..(count - 1) : At(k) \notin Active \cup finished
             /\ \A v, w \in Workers : /\ wpc[v] = "running" /\ wpc[w] = "running"
                                       /\ task[v] = task[w]
                                       => v = w
             /\ Active \cap finished = {}

QueueInv == RingInv /\ UniqueInv

\* What every caller of the pool keeps, whoever sleeps on notify besides the
\* workers.
CoreInv == /\ TPTypeOK /\ StartedInv
           /\ SleepersInv /\ CreatedInv /\ ShutdownInv /\ DrainedInv /\ JoinedInv

PoolInv == CoreInv /\ Main \notin waitset /\ WakeupInv

(***************************************************************************)
(* Lemmas                                                                  *)
(***************************************************************************)

\* The ring index wraps inside the ring buffer.
LEMMA RingNextInSlots == ASSUME NEW s \in Slots PROVE RingNext(s) \in Slots
  BY QueueSizeAssumption DEF RingNext, Slots

\* There are finitely many workers, ThreadCount of them.
LEMMA WorkersFinite == IsFiniteSet(Workers) /\ Cardinality(Workers) = ThreadCount
  <1>1. ThreadCount \in Nat /\ ThreadCount - 1 \in Int /\ 0 <= ThreadCount
    BY ThreadCountAssumption
  <1> QED
    BY <1>1, FS_Interval, ThreadCountAssumption DEF Workers

\* A set of workers is finite and has at most ThreadCount elements.
LEMMA WorkerSubset == ASSUME NEW S \in SUBSET Workers
                      PROVE  /\ IsFiniteSet(S)
                             /\ Cardinality(S) \in 0..ThreadCount
  <1>1. IsFiniteSet(S) /\ Cardinality(S) <= ThreadCount
    BY WorkersFinite, FS_Subset
  <1>2. Cardinality(S) \in Nat
    BY <1>1, FS_CardinalityType
  <1> QED
    BY <1>1, <1>2, ThreadCountAssumption

\* More workers awake never hurt.
LEMMA MoreWorkers == ASSUME NEW S \in SUBSET Workers, NEW T \in SUBSET S
                     PROVE  Cardinality(T) <= Cardinality(S)
  BY WorkerSubset, FS_Subset

\* What keeps the set of live workers keeps the counter right.
LEMMA SameLive == ASSUME StartedInv, started' = started,
                         (mpc' = "counting") <=> (mpc = "counting"),
                         \A w \in Workers : (wpc[w] \in {"ready", "running"})
                              <=> (wpc'[w] \in {"ready", "running"})
                  PROVE  StartedInv'
  <1>1. Live' = Live
    BY DEF Live
  <1> QED
    BY <1>1 DEF StartedInv

(***************************************************************************)
(* The core of the pool: Main                                              *)
(***************************************************************************)

\* threadpool_create starts with an empty pool.
LEMMA PoolInit == TPInit => PoolInv
  <1> SUFFICES ASSUME TPInit PROVE PoolInv
    OBVIOUS
  <1> USE ThreadCountAssumption, QueueSizeAssumption DEF TPInit
  <1>1. TPTypeOK
    <2>1. 0 \in Slots /\ 0 \in 0..QueueSize /\ 0 \in 0..ThreadCount
      BY DEF Slots
    <2> QED
      BY <2>1 DEF TPTypeOK, WorkerStates, MainStates
  <1>2. StartedInv
    <2>1. Live = {}
      BY DEF Live
    <2> QED
      BY <2>1, FS_EmptySet DEF StartedInv
  <1>3. SleepersInv /\ CreatedInv /\ ShutdownInv /\ DrainedInv /\ JoinedInv /\ WakeupInv
    BY DEF SleepersInv, CreatedInv, ShutdownInv, DrainedInv, JoinedInv, WakeupInv
  <1>4. Main \notin waitset
    OBVIOUS
  <1> QED
    BY <1>1, <1>2, <1>3, <1>4 DEF PoolInv, CoreInv

\* One more worker: it is created awake, and not yet counted.
LEMMA CreateThreadCore == CoreInv /\ CreateThread => CoreInv'
  <1> SUFFICES ASSUME CoreInv, CreateThread PROVE CoreInv'
    OBVIOUS
  <1> USE ThreadCountAssumption, QueueSizeAssumption
  <1>0. mi \in Workers /\ wpc[mi] = "none" /\ wpc \in [Workers -> WorkerStates]
    BY DEF CoreInv, TPTypeOK, CreatedInv, CreateThread, Workers
  <1>1. StartedInv'
    <2>1. Live' = Live \cup {mi} /\ mi \notin Live
      BY <1>0 DEF Live, CreateThread
    <2>2. IsFiniteSet(Live)
      BY WorkerSubset DEF Live
    <2>3. Cardinality(Live') = Cardinality(Live) + 1
      BY <2>1, <2>2, FS_AddElement
    <2> QED
      BY <2>3 DEF CoreInv, TPTypeOK, StartedInv, CreateThread
  <1>2. TPTypeOK'
    BY <1>0 DEF CoreInv, TPTypeOK, CreateThread, poolVars, WorkerStates, MainStates
  <1>3. SleepersInv' /\ CreatedInv' /\ ShutdownInv' /\ DrainedInv' /\ JoinedInv'
    BY <1>0 DEF CoreInv, TPTypeOK, SleepersInv, CreatedInv, ShutdownInv, DrainedInv,
                JoinedInv, CreateThread, poolVars, Workers
  <1> QED
    BY <1>1, <1>2, <1>3 DEF CoreInv

\* The new worker is counted; it may have gone to sleep meanwhile.
LEMMA CountThreadCore == CoreInv /\ CountThread => CoreInv'
  <1> SUFFICES ASSUME CoreInv, CountThread PROVE CoreInv'
    OBVIOUS
  <1> USE ThreadCountAssumption, QueueSizeAssumption
  <1>0. /\ task_queue' = task_queue /\ head' = head /\ tail' = tail
        /\ count' = count /\ shutdown' = shutdown /\ waitset' = waitset
        /\ wpc' = wpc /\ task' = task /\ started' = started + 1
        /\ mpc = "counting" /\ mpc' = "creating" /\ mi' = mi + 1 /\ err' = err
        /\ finished' = finished
    BY DEF CountThread, poolVars
  <1>1. StartedInv'
    <2>1. Live' = Live
      BY <1>0 DEF Live
    <2> QED
      BY <2>1, <1>0 DEF CoreInv, TPTypeOK, StartedInv
  <1>2. TPTypeOK'
    <2>1. started' \in 0..ThreadCount
      <3>1. started' = Cardinality(Live)
        BY <1>0 DEF CoreInv, StartedInv
      <3>2. Cardinality(Live) \in 0..ThreadCount
        BY WorkerSubset DEF Live
      <3> QED
        BY <3>1, <3>2
    <2>2. mi' \in 0..ThreadCount
      BY <1>0 DEF CoreInv, TPTypeOK, CreatedInv
    <2> QED
      BY <2>1, <2>2, <1>0 DEF CoreInv, TPTypeOK, MainStates
  <1>3. SleepersInv' /\ CreatedInv' /\ ShutdownInv' /\ DrainedInv' /\ JoinedInv'
    BY <1>0 DEF CoreInv, TPTypeOK, SleepersInv, CreatedInv, ShutdownInv, DrainedInv,
                JoinedInv, Workers
  <1> QED
    BY <1>1, <1>2, <1>3 DEF CoreInv

\* Steps of Main that touch neither the workers nor the queue.
LEMMA MainOnlyCore ==
    ASSUME CoreInv, CreateReturn \/ JoinThread \/ DestroyReturn \/ UNCHANGED tpVars
    PROVE  CoreInv'
  <1> USE ThreadCountAssumption, QueueSizeAssumption
  <1>0. /\ task_queue' = task_queue /\ head' = head /\ tail' = tail
        /\ count' = count /\ shutdown' = shutdown /\ waitset' = waitset
        /\ wpc' = wpc /\ task' = task /\ started' = started
        /\ finished' = finished
    BY DEF CreateReturn, JoinThread, DestroyReturn, tpVars, poolVars, workerVars
  <1>1. StartedInv'
    <2>1. (mpc' = "counting") <=> (mpc = "counting")
      BY DEF CreateReturn, JoinThread, DestroyReturn, tpVars
    <2> QED
      BY <2>1, <1>0, SameLive DEF CoreInv
  <1>2. TPTypeOK'
    BY <1>0 DEF CoreInv, TPTypeOK, MainStates, CreateReturn, JoinThread,
                DestroyReturn, tpVars
  <1>3. SleepersInv' /\ DrainedInv'
    BY <1>0 DEF CoreInv, SleepersInv, DrainedInv
  <1>4. CreatedInv' /\ ShutdownInv'
    BY <1>0 DEF CoreInv, TPTypeOK, CreatedInv, ShutdownInv, CreateReturn,
                JoinThread, DestroyReturn, tpVars
  <1>5. JoinedInv'
    <2>1. CASE CreateReturn
      BY <2>1, <1>0 DEF CoreInv, JoinedInv, CreateReturn
    <2>2. CASE JoinThread
      BY <2>2, <1>0 DEF CoreInv, TPTypeOK, JoinedInv, JoinThread, Workers
    <2>3. CASE DestroyReturn
      BY <2>3, <1>0 DEF CoreInv, TPTypeOK, JoinedInv, DestroyReturn, Workers
    <2>4. CASE UNCHANGED tpVars
      BY <2>4, <1>0 DEF CoreInv, JoinedInv, tpVars
    <2> QED
      BY <2>1, <2>2, <2>3, <2>4
  <1> QED
    BY <1>1, <1>2, <1>3, <1>4, <1>5 DEF CoreInv

\* The locked part of threadpool_destroy wakes everybody.
LEMMA BeginDestroyCore ==
    ASSUME CoreInv, mpc \in {"creating", "open"}, BeginDestroy
    PROVE  CoreInv'
  <1> USE ThreadCountAssumption, QueueSizeAssumption
  <1>1. StartedInv'
    BY SameLive DEF CoreInv, BeginDestroy, workerVars
  <1>2. TPTypeOK'
    BY DEF CoreInv, TPTypeOK, MainStates, BeginDestroy, cond_broadcast,
           poolVars, workerVars
  <1>3. SleepersInv' /\ CreatedInv' /\ ShutdownInv'
    BY DEF BeginDestroy, cond_broadcast, SleepersInv, CreatedInv, ShutdownInv
  <1>4. DrainedInv' /\ JoinedInv'
    BY DEF CoreInv, BeginDestroy, DrainedInv, JoinedInv, poolVars, workerVars,
           Workers
  <1> QED
    BY <1>1, <1>2, <1>3, <1>4 DEF CoreInv

\* threadpool_add: one more task, in a pool that is not shut down.
LEMMA AddCore == ASSUME CoreInv, NEW t \in Tasks, threadpool_add(t)
                 PROVE  CoreInv'
  <1> USE ThreadCountAssumption, QueueSizeAssumption
  <1>0. /\ wpc' = wpc /\ task' = task /\ started' = started
        /\ shutdown' = shutdown /\ finished' = finished /\ head' = head
        /\ mpc' = mpc /\ mi' = mi /\ err' = err /\ mpc = "open"
        /\ count # QueueSize /\ count' = count + 1 /\ tail' = RingNext(tail)
        /\ task_queue' = [task_queue EXCEPT ![tail] = t]
        /\ waitset' \subseteq waitset
    BY DEF threadpool_add, Enqueue, AddRefused, cond_signal, workerVars, mainVars
  <1>1. StartedInv'
    BY <1>0, SameLive DEF CoreInv
  <1>2. TPTypeOK'
    <2>1. tail' \in Slots /\ count' \in 0..QueueSize
      BY <1>0, RingNextInSlots DEF CoreInv, TPTypeOK
    <2> QED
      BY <2>1, <1>0 DEF CoreInv, TPTypeOK
  <1>3. SleepersInv' /\ CreatedInv' /\ ShutdownInv' /\ JoinedInv'
    BY <1>0 DEF CoreInv, SleepersInv, CreatedInv, ShutdownInv, JoinedInv
  <1>4. DrainedInv'
    BY <1>0 DEF CoreInv, DrainedInv, ShutdownInv
  <1> QED
    BY <1>1, <1>2, <1>3, <1>4 DEF CoreInv

(***************************************************************************)
(* The core of the pool: the workers                                       *)
(***************************************************************************)

\* A worker takes the oldest task.
LEMMA TakeCore == ASSUME CoreInv, NEW w \in Workers, WorkerTake(w)
                  PROVE  CoreInv'
  <1> USE ThreadCountAssumption, QueueSizeAssumption
  <1>0. /\ task_queue' = task_queue /\ tail' = tail /\ head' = RingNext(head)
        /\ count > 0 /\ count' = count - 1 /\ shutdown' = shutdown
        /\ wpc' = [wpc EXCEPT ![w] = "running"] /\ started' = started
        /\ task' = [task EXCEPT ![w] = task_queue[head]]
        /\ mpc' = mpc /\ mi' = mi /\ err' = err /\ finished' = finished
        /\ waitset' = waitset /\ wpc[w] = "ready" /\ w \notin waitset
    BY DEF WorkerTake, Runnable, mainVars
  <1>t. wpc \in [Workers -> WorkerStates] /\ count \in 0..QueueSize
    BY DEF CoreInv, TPTypeOK
  <1>1. StartedInv'
    BY <1>0, <1>t, SameLive DEF CoreInv
  <1>2. TPTypeOK'
    <2>1. head' \in Slots /\ count' \in 0..QueueSize
      BY <1>0, <1>t, RingNextInSlots DEF CoreInv, TPTypeOK
    <2>2. task_queue[head] \in Tasks \cup {NoTask}
      BY DEF CoreInv, TPTypeOK
    <2> QED
      BY <2>1, <2>2, <1>0 DEF CoreInv, TPTypeOK, WorkerStates
  <1>3. SleepersInv' /\ CreatedInv' /\ ShutdownInv' /\ DrainedInv' /\ JoinedInv'
    BY <1>0, <1>t DEF CoreInv, SleepersInv, CreatedInv, ShutdownInv, DrainedInv, JoinedInv
  <1> QED
    BY <1>1, <1>2, <1>3 DEF CoreInv

\* A worker leaves: it is no longer counted, and the queue is empty.
LEMMA ExitCore == ASSUME CoreInv, NEW w \in Workers, WorkerExit(w)
                  PROVE  CoreInv'
  <1> USE ThreadCountAssumption, QueueSizeAssumption
  <1>0. /\ task_queue' = task_queue /\ tail' = tail /\ head' = head
        /\ count = 0 /\ count' = count /\ shutdown /\ shutdown' = shutdown
        /\ wpc' = [wpc EXCEPT ![w] = "exited"] /\ started' = started - 1
        /\ task' = task
        /\ mpc' = mpc /\ mi' = mi /\ err' = err /\ finished' = finished
        /\ waitset' = waitset /\ wpc[w] = "ready" /\ w \notin waitset
    BY DEF WorkerExit, Runnable, mainVars, poolVars
  <1>t. wpc \in [Workers -> WorkerStates]
    BY DEF CoreInv, TPTypeOK
  <1>1. StartedInv'
    <2>1. Live' = Live \ {w} /\ w \in Live
      BY <1>0, <1>t DEF Live
    <2>2. IsFiniteSet(Live)
      BY WorkerSubset DEF Live
    <2>3. Cardinality(Live') = Cardinality(Live) - 1
      BY <2>1, <2>2, FS_RemoveElement
    <2> QED
      <3>1. mpc # "counting" /\ started \in Nat
        BY <1>0 DEF CoreInv, ShutdownInv, TPTypeOK
      <3>2. Cardinality(Live) \in Nat
        BY <2>2, FS_CardinalityType
      <3> QED
        BY <2>3, <3>1, <3>2, <1>0 DEF CoreInv, StartedInv
  <1>2. TPTypeOK'
    <2>1. started' \in 0..ThreadCount
      <3>1. mpc' # "counting" /\ started' \in Int
        BY <1>0 DEF CoreInv, ShutdownInv, TPTypeOK
      <3>2. Cardinality(Live') \in 0..ThreadCount
        BY WorkerSubset DEF Live
      <3> QED
        BY <1>1, <3>1, <3>2 DEF StartedInv
    <2> QED
      BY <2>1, <1>0 DEF CoreInv, TPTypeOK, WorkerStates
  <1>3. SleepersInv' /\ CreatedInv' /\ ShutdownInv' /\ DrainedInv' /\ JoinedInv'
    BY <1>0, <1>t DEF CoreInv, SleepersInv, CreatedInv, ShutdownInv, DrainedInv, JoinedInv
  <1> QED
    BY <1>1, <1>2, <1>3 DEF CoreInv

\* A task returns; the caller's function may signal on its way out.
LEMMA DoneCore ==
    ASSUME CoreInv, RingInv, NEW w \in Workers, FunctionReturns(w),
           waitset' \subseteq waitset, UNCHANGED mainVars
    PROVE  CoreInv'
  <1> USE ThreadCountAssumption, QueueSizeAssumption
  <1>0. /\ task_queue' = task_queue /\ tail' = tail /\ head' = head
        /\ count' = count /\ shutdown' = shutdown
        /\ wpc' = [wpc EXCEPT ![w] = "ready"] /\ started' = started
        /\ task' = task /\ finished' = finished \cup {task[w]}
        /\ mpc' = mpc /\ mi' = mi /\ err' = err /\ wpc[w] = "running"
    BY DEF FunctionReturns, mainVars, poolVars
  <1>t. wpc \in [Workers -> WorkerStates] /\ task[w] \in Tasks
    BY <1>0 DEF CoreInv, TPTypeOK, RingInv
  <1>1. StartedInv'
    BY <1>0, <1>t, SameLive DEF CoreInv
  <1>2. TPTypeOK'
    BY <1>0, <1>t DEF CoreInv, TPTypeOK, WorkerStates
  <1>3. SleepersInv' /\ CreatedInv' /\ ShutdownInv' /\ DrainedInv' /\ JoinedInv'
    BY <1>0, <1>t DEF CoreInv, SleepersInv, CreatedInv, ShutdownInv, DrainedInv, JoinedInv
  <1> QED
    BY <1>1, <1>2, <1>3 DEF CoreInv

\* Only the set of sleepers changes: workers in their loop, or Main.
LEMMA SleepCore ==
    ASSUME CoreInv, UNCHANGED <<poolVars, shutdown, workerVars, mainVars, finished>>,
           waitset' \subseteq waitset \cup {Main} \cup {w \in Workers : wpc[w] = "ready"}
    PROVE  CoreInv'
  <1>0. /\ task_queue' = task_queue /\ head' = head /\ tail' = tail
        /\ count' = count /\ shutdown' = shutdown
        /\ wpc' = wpc /\ task' = task /\ started' = started
        /\ mpc' = mpc /\ mi' = mi /\ err' = err /\ finished' = finished
    BY DEF poolVars, workerVars, mainVars
  <1>1. StartedInv'
    BY <1>0, SameLive DEF CoreInv
  <1>2. TPTypeOK'
    BY <1>0 DEF CoreInv, TPTypeOK
  <1>3. SleepersInv' /\ CreatedInv' /\ ShutdownInv' /\ DrainedInv' /\ JoinedInv'
    BY <1>0 DEF CoreInv, SleepersInv, CreatedInv, ShutdownInv, DrainedInv, JoinedInv,
                Workers, Main
  <1> QED
    BY <1>1, <1>2, <1>3 DEF CoreInv

(***************************************************************************)
(* Nobody but workers sleeps: one signal per task is enough                *)
(***************************************************************************)

\* What keeps every awake worker awake, puts nobody to sleep and adds no
\* task loses no wakeup.
LEMMA SameAwake == ASSUME WakeupInv, count \in Nat, count' = count,
                          waitset' \subseteq waitset, Awake \subseteq Awake'
                   PROVE  WakeupInv'
  <1> SUFFICES ASSUME waitset' # {} PROVE Cardinality(Awake') >= count
    BY DEF WakeupInv
  <1>1. Cardinality(Awake) >= count
    BY DEF WakeupInv
  <1>2. Awake' \in SUBSET Workers /\ Awake \in SUBSET Workers
    BY DEF Awake
  <1>3. Cardinality(Awake) <= Cardinality(Awake')
    BY <1>2, MoreWorkers
  <1>4. Cardinality(Awake) \in Nat /\ Cardinality(Awake') \in Nat
    BY <1>2, WorkerSubset, ThreadCountAssumption
  <1> QED
    BY <1>1, <1>3, <1>4

\* Main creates workers awake, and wakes all of them when it shuts down.
LEMMA MainWakes ==
    ASSUME PoolInv,
           CreateThread \/ CountThread \/ CreateReturn \/ BeginDestroy \/ JoinThread
             \/ DestroyReturn \/ UNCHANGED tpVars
    PROVE  WakeupInv' /\ Main \notin waitset'
  <1>1. CASE BeginDestroy
    BY <1>1 DEF BeginDestroy, cond_broadcast, WakeupInv
  <1>2. CASE ~ BeginDestroy
    <2>1. waitset' = waitset /\ count' = count
      BY <1>2 DEF CreateThread, CountThread, CreateReturn, JoinThread, DestroyReturn, tpVars,
           poolVars
    <2>2. Awake \subseteq Awake'
      BY <1>2, <2>1 DEF PoolInv, CoreInv, TPTypeOK, CreatedInv, Awake, Runnable, Workers,
           CreateThread, CountThread, CreateReturn, JoinThread, DestroyReturn, tpVars, workerVars
    <2> QED
      BY <2>1, <2>2, SameAwake DEF PoolInv, CoreInv, TPTypeOK
  <1> QED
    BY <1>1, <1>2

\* threadpool_add: one more task, and one more worker on its way to it.
LEMMA AddWakes == ASSUME PoolInv, NEW t \in Tasks, threadpool_add(t)
                  PROVE  WakeupInv' /\ Main \notin waitset'
  <1>0. count' = count + 1 /\ wpc' = wpc /\ cond_signal
    BY DEF threadpool_add, Enqueue, workerVars
  <1>1. Main \notin waitset'
    BY <1>0 DEF PoolInv, cond_signal
  <1>2. WakeupInv'
    <2> SUFFICES ASSUME waitset' # {} PROVE Cardinality(Awake') >= count + 1
      BY <1>0 DEF WakeupInv
    <2>1. PICK v \in waitset : waitset' = waitset \ {v}
      BY <1>0 DEF cond_signal
    <2>2. v \in Workers /\ wpc[v] = "ready"
      BY DEF PoolInv, CoreInv, TPTypeOK, SleepersInv
    <2>3. Awake' = Awake \cup {v} /\ v \notin Awake
      BY <1>0, <2>1, <2>2 DEF Awake, Runnable
    <2>4. Cardinality(Awake) >= count /\ count \in Nat
      BY DEF PoolInv, CoreInv, WakeupInv, TPTypeOK
    <2>5. IsFiniteSet(Awake) /\ Cardinality(Awake) \in Nat
      BY WorkerSubset DEF Awake
    <2>6. Cardinality(Awake') = Cardinality(Awake) + 1
      BY <2>3, <2>5, FS_AddElement
    <2> QED
      BY <2>4, <2>5, <2>6
  <1> QED
    BY <1>1, <1>2

\* A worker goes to sleep, or leaves, only when the queue is empty.
LEMMA IdleWakes == ASSUME PoolInv, NEW w \in Workers, WorkerWait(w) \/ WorkerExit(w)
                   PROVE  WakeupInv' /\ Main \notin waitset'
  <1>1. count' = 0 /\ waitset' \subseteq waitset \cup {w}
    BY DEF WorkerWait, WorkerExit, cond_wait, poolVars
  <1>2. Main \notin waitset'
    BY <1>1 DEF PoolInv, Workers, Main
  <1>3. Cardinality(Awake') \in 0..ThreadCount
    BY WorkerSubset DEF Awake
  <1> QED
    BY <1>1, <1>2, <1>3, ThreadCountAssumption DEF WakeupInv

\* A worker that takes a task: one task and one awake worker less.
LEMMA TakeWakes == ASSUME PoolInv, NEW w \in Workers, WorkerTake(w)
                   PROVE  WakeupInv' /\ Main \notin waitset'
  <1>0. /\ wpc' = [wpc EXCEPT ![w] = "running"] /\ count' = count - 1
        /\ waitset' = waitset /\ wpc[w] = "ready" /\ w \notin waitset
    BY DEF WorkerTake, Runnable
  <1>t. wpc \in [Workers -> WorkerStates] /\ count \in Nat
    BY DEF PoolInv, CoreInv, TPTypeOK
  <1>1. WakeupInv'
    <2> SUFFICES ASSUME waitset # {} PROVE Cardinality(Awake') >= count - 1
      BY <1>0 DEF WakeupInv
    <2>1. Awake' = Awake \ {w} /\ w \in Awake
      BY <1>0, <1>t DEF Awake, Runnable
    <2>2. IsFiniteSet(Awake) /\ Cardinality(Awake) \in Nat
      BY WorkerSubset DEF Awake
    <2>3. Cardinality(Awake') = Cardinality(Awake) - 1
      BY <2>1, <2>2, FS_RemoveElement
    <2>4. Cardinality(Awake) >= count
      BY DEF PoolInv, WakeupInv
    <2> QED
      BY <2>2, <2>3, <2>4, <1>t
  <1> QED
    BY <1>0, <1>1 DEF PoolInv

\* A worker whose task returns, and one that wakes up for no reason, are awake.
LEMMA AwakensWakes ==
    ASSUME PoolInv, (\E w \in Workers : WorkerDone(w)) \/ (\E v \in waitset : SpuriousWakeup(v))
    PROVE  WakeupInv' /\ Main \notin waitset'
  <1>1. waitset' \subseteq waitset /\ count' = count
    BY DEF WorkerDone, FunctionReturns, SpuriousWakeup, poolVars
  <1>2. Awake \subseteq Awake'
    BY <1>1 DEF PoolInv, CoreInv, TPTypeOK, Awake, Runnable, WorkerDone, FunctionReturns,
                SpuriousWakeup, workerVars
  <1> QED
    BY <1>1, <1>2, SameAwake DEF PoolInv, CoreInv, TPTypeOK

(***************************************************************************)
(* The queue in the ring buffer                                            *)
(***************************************************************************)

\* One turn round the ring at most: % subtracts QueueSize once or not at all.
LEMMA RingWrap == ASSUME NEW x \in 0..(2 * QueueSize - 1)
                  PROVE  x % QueueSize = IF x < QueueSize THEN x ELSE x - QueueSize
  <1> DEFINE q == x \div QueueSize
  <1>1. CASE x < QueueSize
    BY <1>1, QueueSizeAssumption
  <1>2. CASE x >= QueueSize
    <2>1. /\ x = QueueSize * q + (x % QueueSize)
          /\ x % QueueSize \in 0..(QueueSize - 1) /\ q \in Nat
      BY QueueSizeAssumption
    <2>2. q = 1
      <3>1. CASE q = 0
        BY <2>1, <3>1, <1>2, QueueSizeAssumption
      <3>2. CASE q >= 2
        BY <2>1, <3>2, <1>2, QueueSizeAssumption
      <3> QED
        BY <2>1, <3>1, <3>2
    <2> QED
      BY <2>1, <2>2, QueueSizeAssumption
  <1> QED
    BY <1>1, <1>2, QueueSizeAssumption

\* Slots counted from s: they exist, are pairwise different within one turn,
\* and counting from the next slot is counting one further.
LEMMA RingSlots ==
    ASSUME NEW s \in Slots
    PROVE  /\ \A k \in 0..QueueSize : (s + k) % QueueSize \in Slots
           /\ \A k, m \in 0..(QueueSize - 1) :
                (s + k) % QueueSize = (s + m) % QueueSize => k = m
           /\ \A k \in 0..(QueueSize - 1) :
                (RingNext(s) + k) % QueueSize = (s + (k + 1)) % QueueSize
           /\ \A k \in 0..(QueueSize - 1) :
                RingNext((s + k) % QueueSize) = (s + (k + 1)) % QueueSize
           /\ (s + 0) % QueueSize = s
  <1> USE QueueSizeAssumption DEF Slots
  <1>1. \A k \in 0..QueueSize :
          (s + k) % QueueSize = IF s + k < QueueSize THEN s + k ELSE s + k - QueueSize
    <2> TAKE k \in 0..QueueSize
    <2>1. s + k \in 0..(2 * QueueSize - 1)
      OBVIOUS
    <2> QED
      BY <2>1, RingWrap
  <1>2. RingNext(s) = IF s + 1 < QueueSize THEN s + 1 ELSE s + 1 - QueueSize
    BY <1>1 DEF RingNext
  <1>3. \A k \in 0..QueueSize : (s + k) % QueueSize \in Slots
    BY <1>1
  <1>4. \A k, m \in 0..(QueueSize - 1) :
          (s + k) % QueueSize = (s + m) % QueueSize => k = m
    BY <1>1
  <1>5. ASSUME NEW k \in 0..(QueueSize - 1)
        PROVE  (RingNext(s) + k) % QueueSize = (s + (k + 1)) % QueueSize
    <2>1. PICK r \in 0..(QueueSize - 1) : r = RingNext(s)
      BY RingNextInSlots
    <2>2. r + k \in 0..(2 * QueueSize - 1)
      OBVIOUS
    <2>3. (r + k) % QueueSize = IF r + k < QueueSize THEN r + k ELSE r + k - QueueSize
      BY <2>2, RingWrap
    <2>4. k + 1 \in 0..QueueSize
      OBVIOUS
    <2>5. (s + (k + 1)) % QueueSize
            = IF s + (k + 1) < QueueSize THEN s + (k + 1) ELSE s + (k + 1) - QueueSize
      BY <1>1, <2>4
    <2>6. r = IF s + 1 < QueueSize THEN s + 1 ELSE s + 1 - QueueSize
      BY <1>2, <2>1
    <2>7. (IF r + k < QueueSize THEN r + k ELSE r + k - QueueSize)
            = (IF s + (k + 1) < QueueSize THEN s + (k + 1) ELSE s + (k + 1) - QueueSize)
      BY <2>6
    <2> QED
      BY <2>1, <2>3, <2>5, <2>7
  <1>6. (s + 0) % QueueSize = s
    BY <1>1
  <1>7. ASSUME NEW k \in 0..(QueueSize - 1)
        PROVE  RingNext((s + k) % QueueSize) = (s + (k + 1)) % QueueSize
    <2>1. PICK r \in 0..(QueueSize - 1) : r = (s + k) % QueueSize
      BY <1>3
    <2>2. r + 1 \in 0..(2 * QueueSize - 1) /\ k + 1 \in 0..QueueSize
      OBVIOUS
    <2>3. (r + 1) % QueueSize = IF r + 1 < QueueSize THEN r + 1 ELSE r + 1 - QueueSize
      BY <2>2, RingWrap
    <2>4. (s + (k + 1)) % QueueSize
            = IF s + (k + 1) < QueueSize THEN s + (k + 1) ELSE s + (k + 1) - QueueSize
      BY <1>1, <2>2
    <2>5. r = IF s + k < QueueSize THEN s + k ELSE s + k - QueueSize
      BY <1>1, <2>1
    <2>6. (IF r + 1 < QueueSize THEN r + 1 ELSE r + 1 - QueueSize)
            = (IF s + (k + 1) < QueueSize THEN s + (k + 1) ELSE s + (k + 1) - QueueSize)
      BY <2>5
    <2> QED
      BY <2>1, <2>3, <2>4, <2>6 DEF RingNext
  <1> QED
    BY <1>3, <1>4, <1>5, <1>6, <1>7

\* Steps that neither move a task nor start or end one.
LEMMA QueueFrame ==
    ASSUME QueueInv, UNCHANGED <<task_queue, head, tail, count, task, finished>>,
           \A w \in Workers : (wpc'[w] = "running") <=> (wpc[w] = "running")
    PROVE  QueueInv'
  <1>1. Active' = Active
    BY DEF Active
  <1>2. \A k : At(k)' = At(k)
    BY DEF At
  <1> QED
    BY <1>1, <1>2 DEF QueueInv, RingInv, UniqueInv

\* threadpool_add appends the task and disturbs nothing else.
LEMMA AddAppends ==
    ASSUME TPTypeOK, RingInv, NEW t, Enqueue(t)
    PROVE  /\ \A k \in 0..count : At(k)' = IF k = count THEN t ELSE At(k)
           /\ tail' = (head' + count') % QueueSize
           /\ count' = count + 1 /\ count \in 0..(QueueSize - 1)
  <1> USE QueueSizeAssumption
  <1>1. /\ task_queue' = [task_queue EXCEPT ![tail] = t] /\ head' = head
        /\ tail' = RingNext(tail) /\ count' = count + 1
    BY DEF Enqueue
  <1>2. head \in Slots /\ tail \in Slots /\ count \in 0..(QueueSize - 1)
        /\ task_queue \in [Slots -> Tasks \cup {NoTask}]
    BY DEF Enqueue, AddRefused, TPTypeOK
  <1>3. tail = (head + count) % QueueSize
    BY DEF RingInv
  <1>4. /\ \A k, m \in 0..(QueueSize - 1) :
             (head + k) % QueueSize = (head + m) % QueueSize => k = m
        /\ \A k \in 0..QueueSize : (head + k) % QueueSize \in Slots
        /\ RingNext((head + count) % QueueSize) = (head + (count + 1)) % QueueSize
    BY <1>2, RingSlots
  <1>5. ASSUME NEW k \in 0..count PROVE At(k)' = IF k = count THEN t ELSE At(k)
    <2>1. At(k)' = task_queue'[(head + k) % QueueSize]
      BY <1>1 DEF At
    <2>2. CASE k = count
      BY <1>1, <1>2, <1>3, <2>1, <2>2
    <2>3. CASE k # count
      <3>1. k \in 0..(QueueSize - 1)
        BY <1>2
      <3>2. (head + k) % QueueSize # tail /\ (head + k) % QueueSize \in Slots
        BY <1>2, <1>3, <1>4, <3>1, <2>3
      <3> QED
        BY <1>1, <1>2, <2>1, <2>3, <3>2 DEF At
    <2> QED
      BY <2>2, <2>3
  <1>6. tail' = (head' + count') % QueueSize
    BY <1>1, <1>3, <1>4
  <1> QED
    BY <1>1, <1>2, <1>5, <1>6

\* An accepted task is queued once.
LEMMA AddQueue == ASSUME CoreInv, QueueInv, NEW t \in Tasks, threadpool_add(t)
                  PROVE  QueueInv'
  <1> USE QueueSizeAssumption
  <1>1. /\ \A k \in 0..count : At(k)' = IF k = count THEN t ELSE At(k)
        /\ tail' = (head' + count') % QueueSize
        /\ count' = count + 1 /\ count \in 0..(QueueSize - 1)
    BY AddAppends DEF CoreInv, QueueInv, threadpool_add
  <1>2. Active' = Active /\ finished' = finished /\ wpc' = wpc /\ task' = task
    BY DEF threadpool_add, Enqueue, workerVars, Active
  <1>3. t \notin Active \cup finished /\ \A k \in 0..(count - 1) : At(k) # t
    BY DEF threadpool_add, Submitted, Active, At
  <1>4. RingInv'
    <2>1. \A k \in 0..count : At(k)' \in Tasks
      BY <1>1 DEF QueueInv, RingInv
    <2> QED
      BY <1>1, <1>2, <2>1 DEF QueueInv, RingInv
  <1>5. UniqueInv'
    <2>1. ASSUME NEW k \in 0..count, NEW m \in 0..count, At(k)' = At(m)'
          PROVE  k = m
      BY <1>1, <1>3, <2>1 DEF QueueInv, UniqueInv
    <2>2. \A k \in 0..count : At(k)' \notin Active \cup finished
      BY <1>1, <1>3 DEF QueueInv, UniqueInv
    <2> QED
      BY <1>1, <1>2, <2>1, <2>2 DEF QueueInv, UniqueInv
  <1> QED
    BY <1>4, <1>5 DEF QueueInv

\* A worker removes the oldest task and disturbs nothing else.
LEMMA TakeRemoves ==
    ASSUME TPTypeOK, RingInv, NEW w \in Workers, WorkerTake(w)
    PROVE  /\ \A k \in 0..(count - 2) : At(k)' = At(k + 1)
           /\ task' = [task EXCEPT ![w] = At(0)]
           /\ tail' = (head' + count') % QueueSize
           /\ count' = count - 1 /\ count \in 1..QueueSize
  <1> USE QueueSizeAssumption
  <1>1. /\ task_queue' = task_queue /\ head' = RingNext(head) /\ tail' = tail
        /\ count' = count - 1 /\ task' = [task EXCEPT ![w] = task_queue[head]]
    BY DEF WorkerTake
  <1>2. head \in Slots /\ count \in 1..QueueSize
    BY DEF WorkerTake, TPTypeOK
  <1>3. /\ \A k \in 0..(QueueSize - 1) :
             (RingNext(head) + k) % QueueSize = (head + (k + 1)) % QueueSize
        /\ (head + 0) % QueueSize = head
    BY <1>2, RingSlots
  <1>4. ASSUME NEW k \in 0..(count - 2) PROVE At(k)' = At(k + 1)
    <2>1. k \in 0..(QueueSize - 1)
      BY <1>2
    <2> QED
      BY <1>1, <1>3, <2>1 DEF At
  <1>5. tail' = (head' + count') % QueueSize
    <2>1. count - 1 \in 0..(QueueSize - 1) /\ (count - 1) + 1 = count
      BY <1>2
    <2>2. tail = (head + count) % QueueSize
      BY DEF RingInv
    <2> QED
      BY <1>1, <1>3, <2>1, <2>2
  <1> QED
    BY <1>1, <1>2, <1>3, <1>4, <1>5 DEF At

\* The task a worker takes was queued once and is run by nobody else.
LEMMA TakeQueue == ASSUME CoreInv, QueueInv, NEW w \in Workers, WorkerTake(w)
                   PROVE  /\ QueueInv'
                          /\ Active' = Active \cup {At(0)}
  <1> USE QueueSizeAssumption
  <1>1. /\ \A k \in 0..(count - 2) : At(k)' = At(k + 1)
        /\ task' = [task EXCEPT ![w] = At(0)]
        /\ tail' = (head' + count') % QueueSize
        /\ count' = count - 1 /\ count \in 1..QueueSize
    BY TakeRemoves DEF CoreInv, QueueInv
  <1>2. /\ wpc' = [wpc EXCEPT ![w] = "running"] /\ finished' = finished
        /\ wpc[w] = "ready"
        /\ wpc \in [Workers -> WorkerStates]
        /\ task \in [Workers -> Tasks \cup {NoTask}]
    BY DEF WorkerTake, Runnable, CoreInv, TPTypeOK
  <1>3. /\ wpc'[w] = "running" /\ task'[w] = At(0)
        /\ \A v \in Workers \ {w} : wpc'[v] = wpc[v] /\ task'[v] = task[v]
    BY <1>1, <1>2
  <1>4. Active' = Active \cup {At(0)}
    BY <1>2, <1>3 DEF Active
  <1>5. \A k \in 0..(count - 1) : At(k) \in Tasks /\ At(k) \notin Active \cup finished
    BY DEF QueueInv, RingInv, UniqueInv
  <1>6. RingInv'
    <2>1. ASSUME NEW k \in 0..((count - 1) - 1) PROVE At(k)' \in Tasks
      <3>1. At(k)' = At(k + 1) /\ k + 1 \in 0..(count - 1)
        BY <1>1
      <3> QED
        BY <3>1, <1>5
    <2>2. ASSUME NEW v \in Workers, wpc'[v] = "running" PROVE task'[v] \in Tasks
      <3>1. 0 \in 0..(count - 1)
        BY <1>1
      <3>2. CASE v = w
        BY <1>3, <1>5, <3>1, <3>2
      <3>3. CASE v # w
        BY <1>3, <2>2, <3>3 DEF QueueInv, RingInv
      <3> QED
        BY <3>2, <3>3
    <2> QED
      BY <1>1, <2>1, <2>2 DEF RingInv
  <1>7. UniqueInv'
    <2>1. ASSUME NEW k \in 0..((count - 1) - 1) PROVE
            At(k)' = At(k + 1) /\ k + 1 \in 1..(count - 1) /\ k + 1 \in 0..(count - 1)
      BY <1>1
    <2>2. \A k, m \in 0..(count - 1) : At(k) = At(m) => k = m
      BY DEF QueueInv, UniqueInv
    <2>3. 0 \in 0..(count - 1)
      BY <1>1
    <2>4. ASSUME NEW k \in 0..((count - 1) - 1), NEW m \in 0..((count - 1) - 1),
                 At(k)' = At(m)'
          PROVE  k = m
      <3>1. k + 1 = m + 1
        BY <2>1, <2>2, <2>4
      <3> QED
        BY <3>1
    <2>5. ASSUME NEW k \in 0..((count - 1) - 1)
          PROVE  At(k)' \notin Active' \cup finished'
      <3>1. At(k + 1) # At(0)
        BY <2>1, <2>2, <2>3
      <3> QED
        BY <1>2, <1>4, <1>5, <2>1, <3>1
    <2>6. ASSUME NEW u \in Workers, NEW v \in Workers,
                 wpc'[u] = "running", wpc'[v] = "running", task'[u] = task'[v]
          PROVE  u = v
      <3>1. \A x \in Workers \ {w} : wpc'[x] = "running" => task'[x] \in Active
        BY <1>3 DEF Active
      <3>2. At(0) \notin Active
        BY <1>5, <2>3
      <3>3. CASE u = w \/ v = w
        BY <1>3, <2>6, <3>1, <3>2, <3>3
      <3>4. CASE u # w /\ v # w
        BY <1>3, <2>6, <3>4 DEF QueueInv, UniqueInv
      <3> QED
        BY <3>3, <3>4
    <2>7. Active' \cap finished' = {}
      BY <1>2, <1>4, <1>5, <2>3 DEF QueueInv, UniqueInv
    <2> QED
      BY <1>1, <2>4, <2>5, <2>6, <2>7 DEF UniqueInv
  <1> QED
    BY <1>4, <1>6, <1>7 DEF QueueInv

\* A task that has returned is run by nobody and queued nowhere.
LEMMA DoneQueue == ASSUME CoreInv, QueueInv, NEW w \in Workers, FunctionReturns(w)
                   PROVE  /\ QueueInv'
                          /\ Active' = Active \ {task[w]} /\ task[w] \in Active
  <1>1. /\ UNCHANGED <<task_queue, head, tail, count, task>>
        /\ wpc' = [wpc EXCEPT ![w] = "ready"] /\ wpc[w] = "running"
        /\ finished' = finished \cup {task[w]}
        /\ wpc \in [Workers -> WorkerStates]
    BY DEF FunctionReturns, poolVars, CoreInv, TPTypeOK
  <1>2. task[w] \in Active
    BY <1>1 DEF Active
  <1>3. \A v \in Workers : (wpc'[v] = "running") <=> (wpc[v] = "running" /\ v # w)
    BY <1>1
  <1>4. \A v \in Workers : wpc[v] = "running" /\ task[v] = task[w] => v = w
    BY <1>1 DEF QueueInv, UniqueInv
  <1>5. Active' = Active \ {task[w]}
    BY <1>1, <1>3, <1>4 DEF Active
  <1>6. \A k : At(k)' = At(k)
    BY <1>1 DEF At
  <1>7. RingInv'
    BY <1>1, <1>3, <1>6 DEF QueueInv, RingInv
  <1>8. UniqueInv'
    BY <1>1, <1>2, <1>3, <1>5, <1>6 DEF QueueInv, UniqueInv
  <1> QED
    BY <1>2, <1>5, <1>7, <1>8 DEF QueueInv

(***************************************************************************)
(* Every step keeps both invariants                                        *)
(***************************************************************************)

\* The empty pool holds an empty queue.
LEMMA QueueInit == TPInit => QueueInv
  <1> SUFFICES ASSUME TPInit PROVE QueueInv
    OBVIOUS
  <1>1. (0 + 0) % QueueSize = 0
    BY QueueSizeAssumption
  <1>2. Active = {}
    BY DEF TPInit, Active
  <1> QED
    BY <1>1, <1>2 DEF TPInit, QueueInv, RingInv, UniqueInv

\* What the steps of the pool do, as far as every caller's pool does it.
LEMMA CoreNext ==
    ASSUME CoreInv, QueueInv,
           \/ CreateThread \/ CountThread \/ CreateReturn \/ JoinThread \/ DestroyReturn
           \/ CreateFails \/ threadpool_destroy
           \/ \E t \in Tasks : threadpool_add(t)
           \/ \E w \in Workers : LoopStep(w)
           \/ \E v \in waitset : SpuriousWakeup(v)
           \/ UNCHANGED tpVars
    PROVE  CoreInv' /\ QueueInv'
  <1>1. CASE CreateThread
    <2>1. \A w \in Workers : (wpc'[w] = "running") <=> (wpc[w] = "running")
      BY <1>1 DEF CreateThread, CoreInv, TPTypeOK, CreatedInv, Workers
    <2> QED
      BY <1>1, <2>1, CreateThreadCore, QueueFrame DEF CreateThread, poolVars
  <1>1c. CASE CountThread
    BY <1>1c, CountThreadCore, QueueFrame DEF CountThread, poolVars
  <1>2. CASE CreateReturn \/ JoinThread \/ DestroyReturn \/ UNCHANGED tpVars
    <2>1. UNCHANGED <<task_queue, head, tail, count, task, finished, wpc>>
      BY <1>2 DEF CreateReturn, JoinThread, DestroyReturn, poolVars, workerVars, tpVars
    <2> QED
      BY <1>2, <2>1, MainOnlyCore, QueueFrame
  <1>3. CASE CreateFails \/ threadpool_destroy
    <2>1. mpc \in {"creating", "open"} /\ BeginDestroy
      BY <1>3 DEF CreateFails, threadpool_destroy
    <2> QED
      BY <2>1, BeginDestroyCore, QueueFrame DEF BeginDestroy, poolVars, workerVars
  <1>4. ASSUME NEW t \in Tasks, threadpool_add(t) PROVE CoreInv' /\ QueueInv'
    BY <1>4, AddCore, AddQueue
  <1>5. ASSUME NEW w \in Workers, WorkerWait(w) PROVE CoreInv' /\ QueueInv'
    <2>1. /\ UNCHANGED <<poolVars, shutdown, workerVars, mainVars, finished>>
          /\ waitset' \subseteq waitset \cup {w} /\ wpc[w] = "ready"
      BY <1>5 DEF WorkerWait, Runnable, cond_wait
    <2> QED
      BY <2>1, SleepCore, QueueFrame DEF poolVars, workerVars
  <1>6. ASSUME NEW w \in Workers, WorkerTake(w) PROVE CoreInv' /\ QueueInv'
    BY <1>6, TakeCore, TakeQueue
  <1>7. ASSUME NEW w \in Workers, WorkerExit(w) PROVE CoreInv' /\ QueueInv'
    <2>1. \A v \in Workers : (wpc'[v] = "running") <=> (wpc[v] = "running")
      BY <1>7 DEF WorkerExit, Runnable, CoreInv, TPTypeOK
    <2> QED
      BY <1>7, <2>1, ExitCore, QueueFrame DEF WorkerExit, poolVars
  <1>8. ASSUME NEW v \in waitset, SpuriousWakeup(v) PROVE CoreInv' /\ QueueInv'
    <2>1. /\ UNCHANGED <<poolVars, shutdown, workerVars, mainVars, finished>>
          /\ waitset' \subseteq waitset
      BY <1>8 DEF SpuriousWakeup
    <2> QED
      BY <2>1, SleepCore, QueueFrame DEF poolVars, workerVars
  <1> QED
    BY <1>1, <1>1c, <1>2, <1>3, <1>4, <1>5, <1>6, <1>7, <1>8 DEF LoopStep

\* One case per action of the pool.
LEMMA PoolNext == PoolInv /\ QueueInv /\ [TPNext]_tpVars => PoolInv' /\ QueueInv'
  <1> SUFFICES ASSUME PoolInv, QueueInv, [TPNext]_tpVars
               PROVE  PoolInv' /\ QueueInv'
    OBVIOUS
  <1>1. CASE ~ \E w \in Workers : WorkerDone(w)
    <2>1. CoreInv' /\ QueueInv'
      BY <1>1, CoreNext DEF PoolInv, TPNext, MainStep, Terminated
    <2>2. WakeupInv' /\ Main \notin waitset'
      BY <1>1, MainWakes, AddWakes, IdleWakes, TakeWakes, AwakensWakes
      DEF TPNext, MainStep, LoopStep, Terminated, CreateFails, threadpool_destroy
    <2> QED
      BY <2>1, <2>2 DEF PoolInv
  <1>2. ASSUME NEW w \in Workers, WorkerDone(w) PROVE PoolInv' /\ QueueInv'
    <2>1. FunctionReturns(w) /\ waitset' = waitset /\ UNCHANGED mainVars
      BY <1>2 DEF WorkerDone
    <2>2. CoreInv' /\ QueueInv'
      BY <2>1, DoneCore, DoneQueue DEF PoolInv, QueueInv
    <2> QED
      BY <1>2, <2>2, AwakensWakes DEF PoolInv
  <1> QED
    BY <1>1, <1>2

\* Both invariants hold in every state the pool and its callers can reach.
THEOREM PoolInvariant == TPSpec => [](PoolInv /\ QueueInv)
  BY PoolInit, QueueInit, PoolNext, PTL DEF TPSpec

(***************************************************************************)
(* The theorems                                                            *)
(***************************************************************************)

\* Type correctness: head and tail stay inside the ring buffer, count within
\* its size, and started within the number of threads.
THEOREM PoolTypeCorrect == TPSpec => []TPTypeOK
  <1>1. PoolInv => TPTypeOK
    BY DEF PoolInv, CoreInv
  <1> QED
    BY <1>1, PoolInvariant, PTL

\* One pthread_cond_signal per threadpool_add is enough: while a worker
\* sleeps, as many workers are awake as there are queued tasks.
THEOREM PoolLosesNoWakeup == TPSpec => []NoLostWakeup
  <1>1. PoolInv => NoLostWakeup
    BY DEF PoolInv, WakeupInv, NoLostWakeup, Awake
  <1> QED
    BY <1>1, PoolInvariant, PTL

\* A pool that has been freed is quiescent, unless Main sleeps on it.
LEMMA CoreQuiescent == CoreInv /\ Main \notin waitset => FreedIsQuiescent
  <1> SUFFICES ASSUME CoreInv, Main \notin waitset, mpc = "freed"
               PROVE  /\ \A w \in Workers : wpc[w] = "exited"
                      /\ count = 0 /\ waitset = {}
    BY DEF FreedIsQuiescent
  <1>1. \A w \in Workers : wpc[w] = "exited"
    BY DEF CoreInv, JoinedInv
  <1>2. 0 \in Workers
    BY ThreadCountAssumption DEF Workers
  <1> QED
    BY <1>1, <1>2 DEF CoreInv, TPTypeOK, DrainedInv, SleepersInv

\* threadpool_destroy frees the pool only when every worker has exited and
\* the queue is empty.
THEOREM PoolFreedQuiescent == TPSpec => []FreedIsQuiescent
  <1>1. PoolInv => FreedIsQuiescent
    BY CoreQuiescent DEF PoolInv
  <1> QED
    BY <1>1, PoolInvariant, PTL

(***************************************************************************)
(* Refinement: thread_pool.c implements the bounded FIFO queue             *)
(***************************************************************************)

PendingIs == /\ Pending \in Seq(Tasks) /\ Len(Pending) = count
             /\ \A k \in 1..count : Pending[k] = At(k - 1)

\* The ring buffer holds a sequence of count tasks.
LEMMA PendingSeq == CoreInv /\ RingInv => PendingIs
  <1> SUFFICES ASSUME CoreInv, RingInv PROVE PendingIs
    OBVIOUS
  <1>1. count \in Nat
    BY DEF CoreInv, TPTypeOK
  <1>2. ASSUME NEW k \in 1..count PROVE At(k - 1) = Pending[k] /\ At(k - 1) \in Tasks
    <2>1. k - 1 \in 0..(count - 1) /\ head + (k - 1) = head + k - 1
      BY <1>1, QueueSizeAssumption DEF CoreInv, TPTypeOK, Slots
    <2> QED
      BY <2>1 DEF RingInv, Pending, At
  <1>3. Pending = [k \in 1..count |-> At(k - 1)]
    BY <1>2 DEF Pending
  <1> QED
    BY <1>1, <1>2, <1>3 DEF PendingIs

\* A worker that looks for work leaves room for one more running task.
LEMMA RoomToStart == ASSUME NEW w \in Workers, wpc[w] # "running"
                     PROVE  Cardinality(Active) < ThreadCount
  <1> DEFINE R == {v \in Workers : wpc[v] = "running"}
             f == [v \in R |-> task[v]]
  <1>1. R \in SUBSET Workers /\ R # Workers
    OBVIOUS
  <1>2. IsFiniteSet(R) /\ Cardinality(R) \in 0..ThreadCount
    BY <1>1, WorkerSubset
  <1>3. Cardinality(R) # ThreadCount
    BY <1>1, WorkersFinite, FS_Subset
  <1>4. f \in Surjection(R, Active)
    BY DEF Surjection, Active
  <1>5. IsFiniteSet(Active) /\ Cardinality(Active) <= Cardinality(R)
    BY <1>2, <1>4, FS_Surjection
  <1>6. Cardinality(Active) \in Nat
    BY <1>5, FS_CardinalityType
  <1> QED
    BY <1>2, <1>3, <1>5, <1>6, ThreadCountAssumption

\* What changes neither the queue nor the running tasks is a stutter, unless
\* the pool is freed.
LEMMA RefineFrame ==
    ASSUME UNCHANGED <<task_queue, head, count, task, finished>>,
           \A w \in Workers : (wpc'[w] = "running") <=> (wpc[w] = "running"),
           (mpc' = "freed") <=> (mpc = "freed")
    PROVE  UNCHANGED TQ!tqVars
  <1>1. Pending' = Pending
    BY DEF Pending
  <1>2. Active' = Active
    BY DEF Active
  <1> QED
    BY <1>1, <1>2 DEF TQ!tqVars

\* threadpool_add is Submit.
LEMMA RefineAdd ==
    ASSUME CoreInv, QueueInv, PendingIs', NEW t \in Tasks, threadpool_add(t)
    PROVE  TQ!Submit(t)
  <1>1. /\ \A k \in 0..count : At(k)' = IF k = count THEN t ELSE At(k)
        /\ count' = count + 1 /\ count \in 0..(QueueSize - 1)
    BY AddAppends DEF CoreInv, QueueInv, threadpool_add
  <1>2. /\ Pending \in Seq(Tasks) /\ Len(Pending) = count
        /\ \A k \in 1..count : Pending[k] = At(k - 1)
    BY PendingSeq DEF QueueInv, PendingIs
  <1>3. /\ Pending' \in Seq(Tasks) /\ Len(Pending') = count + 1
        /\ \A k \in 1..(count + 1) : Pending'[k] = At(k - 1)'
    BY <1>1 DEF PendingIs
  <1>4. Pending' = Append(Pending, t)
    <2>1. /\ Append(Pending, t) \in Seq(Tasks)
          /\ Len(Append(Pending, t)) = count + 1
          /\ \A k \in 1..count : Append(Pending, t)[k] = Pending[k]
          /\ Append(Pending, t)[count + 1] = t
      BY <1>2, AppendProperties
    <2>2. ASSUME NEW k \in 1..(count + 1) PROVE Pending'[k] = Append(Pending, t)[k]
      <3>1. k - 1 \in 0..count /\ count \in Nat
        BY <1>1, QueueSizeAssumption
      <3>2. Pending'[k] = IF k - 1 = count THEN t ELSE At(k - 1)
        BY <1>1, <1>3, <3>1
      <3>3. CASE k = count + 1
        BY <2>1, <3>1, <3>2, <3>3
      <3>4. CASE k # count + 1
        <4>1. k \in 1..count /\ k - 1 # count
          BY <3>1, <3>4
        <4> QED
          BY <1>2, <2>1, <3>2, <4>1
      <3> QED
        BY <3>3, <3>4
    <2> QED
      BY <1>3, <2>1, <2>2, SeqEqual
  <1>5. UNCHANGED <<Active, finished, mpc>> /\ mpc = "open"
    BY DEF threadpool_add, Enqueue, workerVars, mainVars, Active
  <1>6. t \notin TQ!Queued \cup Active \cup finished
    <2>1. t \notin Active \cup finished /\ \A k \in 0..(count - 1) : At(k) # t
      BY DEF threadpool_add, Submitted, Active, At
    <2>2. \A k \in 1..count : Pending[k] # t
      BY <1>1, <1>2, <2>1, QueueSizeAssumption
    <2> QED
      BY <1>2, <2>1, <2>2 DEF TQ!Queued
  <1> QED
    BY <1>1, <1>2, <1>4, <1>5, <1>6, QueueSizeAssumption DEF TQ!Submit

\* WorkerTake is Start.
LEMMA RefineTake ==
    ASSUME CoreInv, QueueInv, PendingIs', NEW w \in Workers, WorkerTake(w)
    PROVE  TQ!Start
  <1>1. /\ \A k \in 0..(count - 2) : At(k)' = At(k + 1)
        /\ count' = count - 1 /\ count \in 1..QueueSize
    BY TakeRemoves DEF CoreInv, QueueInv
  <1>2. /\ Pending \in Seq(Tasks) /\ Len(Pending) = count
        /\ \A k \in 1..count : Pending[k] = At(k - 1)
    BY PendingSeq DEF QueueInv, PendingIs
  <1>3. /\ Pending' \in Seq(Tasks) /\ Len(Pending') = count - 1
        /\ \A k \in 1..(count - 1) : Pending'[k] = At(k - 1)'
    BY <1>1 DEF PendingIs
  <1>4. Pending # <<>>
    BY <1>1, <1>2, EmptySeq
  <1>5. Pending' = Tail(Pending)
    <2>1. /\ Tail(Pending) \in Seq(Tasks) /\ Len(Tail(Pending)) = count - 1
          /\ \A k \in 1..(count - 1) : Tail(Pending)[k] = Pending[k + 1]
      BY <1>2, <1>4, HeadTailProperties
    <2>2. ASSUME NEW k \in 1..(count - 1) PROVE Pending'[k] = Tail(Pending)[k]
      <3>1. k - 1 \in 0..(count - 2) /\ k + 1 \in 1..count /\ (k - 1) + 1 = (k + 1) - 1
        BY <1>1
      <3> QED
        BY <1>1, <1>2, <1>3, <2>1, <3>1
    <2> QED
      BY <1>3, <2>1, <2>2, SeqEqual
  <1>6. Head(Pending) = At(0)
    <2>1. Head(Pending) = Pending[1] /\ 1 \in 1..count /\ 1 - 1 = 0
      BY <1>1, <1>2, <1>4
    <2> QED
      BY <1>2, <2>1
  <1>7. Active' = Active \cup {At(0)}
    BY TakeQueue
  <1>8. Cardinality(Active) < ThreadCount
    BY RoomToStart DEF WorkerTake, Runnable
  <1>9. finished' = finished /\ mpc' = mpc
    BY DEF WorkerTake, mainVars
  <1>10. TQ!Cardinality(Active) = Cardinality(Active)
    BY DEF TQ!Cardinality, Cardinality
  <1> QED
    BY <1>4, <1>5, <1>6, <1>7, <1>8, <1>9, <1>10 DEF TQ!Start

\* The return of a task's function is Finish.
LEMMA RefineDone ==
    ASSUME CoreInv, QueueInv, NEW w \in Workers, FunctionReturns(w), UNCHANGED mainVars
    PROVE  task[w] \in Tasks /\ TQ!Finish(task[w])
  <1>1. Active' = Active \ {task[w]} /\ task[w] \in Active
    BY DoneQueue
  <1>2. task[w] \in Tasks
    BY DEF FunctionReturns, QueueInv, RingInv
  <1>3. finished' = finished \cup {task[w]} /\ mpc' = mpc /\ Pending' = Pending
    BY DEF FunctionReturns, poolVars, mainVars, Pending
  <1> QED
    BY <1>1, <1>2, <1>3 DEF TQ!Finish

\* DestroyReturn is Close when every join succeeded, and a stutter otherwise.
LEMMA RefineDestroy ==
    ASSUME CoreInv, RingInv, CoreInv', DestroyReturn
    PROVE  TQ!Close \/ UNCHANGED TQ!tqVars
  <1>1. /\ UNCHANGED <<task_queue, head, count, task, finished, wpc>>
        /\ mpc = "joining"
        /\ mpc' = IF err = 0 THEN "freed" ELSE "leaked"
    BY DEF DestroyReturn, poolVars, workerVars
  <1>2. CASE err = 0
    <2>1. \A w \in Workers : wpc[w] = "exited"
      BY <1>1, <1>2 DEF CoreInv, JoinedInv
    <2>2. 0 \in Workers
      BY ThreadCountAssumption DEF Workers
    <2>3. Active = {} /\ count = 0
      BY <2>1, <2>2 DEF Active, CoreInv, DrainedInv
    <2>4. Pending = <<>>
      BY <2>3, PendingSeq, EmptySeq DEF PendingIs
    <2>5. UNCHANGED <<Pending, Active, finished>>
      BY <1>1 DEF Pending, Active
    <2> QED
      BY <1>1, <1>2, <2>3, <2>4, <2>5 DEF TQ!Close
  <1>3. CASE err # 0
    BY <1>1, <1>3, RefineFrame
  <1> QED
    BY <1>2, <1>3

\* The empty pool is the empty queue.
LEMMA RefineInit == TPInit => TQ!TQInit
  <1> SUFFICES ASSUME TPInit PROVE TQ!TQInit
    OBVIOUS
  <1>1. Active = {} /\ finished = {} /\ mpc # "freed"
    BY DEF TPInit, Active
  <1>2. Pending = <<>>
    <2>1. Len(Pending) = 0 /\ Pending \in Seq(Tasks)
      BY PoolInit, QueueInit, PendingSeq DEF TPInit, PoolInv, QueueInv, PendingIs
    <2> QED
      BY <2>1, EmptySeq
  <1> QED
    BY <1>1, <1>2 DEF TQ!TQInit

\* The steps that every caller's pool takes are steps of the queue or change
\* nothing of it.
LEMMA RefineCore ==
    ASSUME CoreInv, QueueInv, CoreInv', PendingIs',
           \/ CreateThread \/ CountThread \/ CreateReturn \/ JoinThread \/ DestroyReturn
           \/ CreateFails \/ threadpool_destroy
           \/ \E t \in Tasks : threadpool_add(t)
           \/ \E w \in Workers : LoopStep(w)
           \/ \E v \in waitset : SpuriousWakeup(v)
           \/ UNCHANGED tpVars
    PROVE  [TQ!TQNext]_TQ!tqVars
  <1> SUFFICES TQ!TQNext \/ UNCHANGED TQ!tqVars
    OBVIOUS
  <1>1. CASE CreateThread
    <2>1. \A w \in Workers : (wpc'[w] = "running") <=> (wpc[w] = "running")
      BY <1>1 DEF CreateThread, CoreInv, TPTypeOK, CreatedInv, Workers
    <2> QED
      BY <1>1, <2>1, RefineFrame DEF CreateThread, poolVars
  <1>1c. CASE CountThread
    BY <1>1c, RefineFrame DEF CountThread, poolVars
  <1>2. CASE CreateReturn \/ JoinThread
    <2>1. UNCHANGED <<task_queue, head, count, task, finished, wpc>>
      BY <1>2 DEF CreateReturn, JoinThread, poolVars, workerVars
    <2>2. (mpc' = "freed") <=> (mpc = "freed")
      BY <1>2 DEF CreateReturn, JoinThread
    <2> QED
      BY <2>1, <2>2, RefineFrame
  <1>3. CASE CreateFails \/ threadpool_destroy
    <2>1. mpc \in {"creating", "open"} /\ BeginDestroy
      BY <1>3 DEF CreateFails, threadpool_destroy
    <2> QED
      BY <2>1, RefineFrame DEF BeginDestroy, poolVars, workerVars
  <1>4. ASSUME NEW t \in Tasks, threadpool_add(t) PROVE TQ!TQNext
    BY <1>4, RefineAdd DEF TQ!TQNext
  <1>5. ASSUME NEW w \in Workers, WorkerWait(w) PROVE UNCHANGED TQ!tqVars
    BY <1>5, RefineFrame DEF WorkerWait, poolVars, workerVars, mainVars
  <1>6. ASSUME NEW w \in Workers, WorkerTake(w) PROVE TQ!TQNext
    BY <1>6, RefineTake DEF TQ!TQNext
  <1>7. ASSUME NEW w \in Workers, WorkerExit(w) PROVE UNCHANGED TQ!tqVars
    <2>1. \A v \in Workers : (wpc'[v] = "running") <=> (wpc[v] = "running")
      BY <1>7 DEF WorkerExit, Runnable, CoreInv, TPTypeOK
    <2> QED
      BY <1>7, <2>1, RefineFrame DEF WorkerExit, poolVars, mainVars
  <1>8. ASSUME NEW v \in waitset, SpuriousWakeup(v) PROVE UNCHANGED TQ!tqVars
    BY <1>8, RefineFrame DEF SpuriousWakeup, poolVars, workerVars, mainVars
  <1>9. CASE DestroyReturn
    BY <1>9, RefineDestroy DEF TQ!TQNext, QueueInv
  <1>10. CASE UNCHANGED tpVars
    BY <1>10, RefineFrame DEF tpVars
  <1> QED
    BY <1>1, <1>1c, <1>2, <1>3, <1>4, <1>5, <1>6, <1>7, <1>8, <1>9, <1>10 DEF LoopStep

\* Every step of the pool is a step of the queue or changes nothing of it.
LEMMA RefineNext ==
    CoreInv /\ QueueInv /\ CoreInv' /\ PendingIs' /\ [TPNext]_tpVars
      => [TQ!TQNext]_TQ!tqVars
  <1> SUFFICES ASSUME CoreInv, QueueInv, CoreInv', PendingIs', [TPNext]_tpVars
               PROVE  [TQ!TQNext]_TQ!tqVars
    OBVIOUS
  <1>1. ASSUME NEW w \in Workers, WorkerDone(w) PROVE TQ!TQNext
    BY <1>1, RefineDone DEF WorkerDone, TQ!TQNext
  <1>2. CASE ~ \E w \in Workers : WorkerDone(w)
    BY <1>2, RefineCore DEF TPNext, MainStep, Terminated
  <1> QED
    BY <1>1, <1>2

\* thread_pool.c implements the bounded FIFO queue: whatever the threads do,
\* accepted tasks are started once each, in the order of acceptance, at most
\* ThreadCount at a time, and the pool is freed only when it is drained.
THEOREM PoolImplementsQueue == TPSpec => TQ!TQSpec
  <1>1. PoolInv /\ QueueInv => CoreInv /\ PendingIs
    BY PendingSeq DEF PoolInv, QueueInv
  <1> QED
    BY <1>1, RefineInit, RefineNext, PoolInvariant, PTL DEF TPSpec, TQ!TQSpec
=============================================================================
