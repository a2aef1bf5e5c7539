------------------------- MODULE ParallelReadProofs -------------------------
(***************************************************************************)
(* Proofs about the parallel read barrier (module ParallelRead), for every *)
(* pool, every number of reads and every SERVER_NUM a read may find: the   *)
(* counter is honest, no transfer outlives its read, Main merges only what *)
(* has ended, and the pool is still the bounded FIFO queue when Main       *)
(* sleeps on the workers' condition variable.                              *)
(*                                                                         *)
(* PoolInv of ThreadPoolProofs is not kept here, for threadpool_add may    *)
(* wake Main instead of a worker; CoreInv and QueueInv are.                *)
(***************************************************************************)
EXTENDS ParallelRead, ThreadPoolProofs

(***************************************************************************)
(* The inductive invariant                                                 *)
(***************************************************************************)

\* The tasks in the ring buffer; with Active, what is in flight.
Queued == {At(k) : k \in 0..(count - 1)}

\* The transfers of the current read that have ended.
EndedNow == {tr \in finished : tr[1] = reads}

\* RV_dataset_read's locals.  ri counts the transfers submitted or refused.
ReaderTypeInv == /\ tasks_completed \in Nat
                 /\ ServerNodeNum \in NodeNums \cup {0}
                 /\ rpc \in {"idle", "dispatch", "wait", "merge"}
                 /\ ri \in 0..ServerNodeNum
                 /\ reads \in 0..MaxReads
                 /\ rpc # "idle" => reads > 0

\* A read takes place on an open pool, and Main sleeps only in its barrier.
ReaderPlaceInv == /\ rpc # "idle" => mpc = "open"
                  /\ Main \in waitset => rpc = "wait"

\* Of the current read the first ri transfers at most have been submitted,
\* and nothing of a later read.
SubmittedInv == \A tr \in Submitted : /\ tr[1] \in 1..reads
                                      /\ tr[1] = reads => tr[2] < ri

\* Between the barrier and the next read nothing is in flight.
QuietInv == /\ rpc \in {"idle", "merge"} => Submitted \subseteq finished
            /\ rpc = "merge" => \A nd \in Nodes : ThisRead(nd) \in finished

ReadInv == /\ ReaderTypeInv /\ ReaderPlaceInv /\ SubmittedInv
           /\ NoStaleTransfer /\ QuietInv /\ CountIsHonest

PRInv == CoreInv /\ QueueInv /\ ReadInv

(***************************************************************************)
(* Lemmas                                                                  *)
(***************************************************************************)

\* What was submitted is queued, running or finished.
LEMMA SubmittedIs == Submitted = Queued \cup Active \cup finished
  BY DEF Submitted, Queued, Active, At

\* A transfer can be named by a read and one of its nodes.
LEMMA ThisReadIsTask ==
    ASSUME ReaderTypeInv, reads > 0, NEW nd \in Nodes
    PROVE  ThisRead(nd) \in Tasks /\ ThisRead(nd)[1] = reads /\ ThisRead(nd)[2] = nd
  <1>1. ServerNodeNum \in 0..10
    BY ReadAssumption DEF ReaderTypeInv
  <1>2. reads \in 1..MaxReads
    BY ReadAssumption DEF ReaderTypeInv
  <1>3. nd \in 0..9
    BY <1>1 DEF Nodes
  <1>4. <<reads, nd>> \in (1..MaxReads) \X (0..9)
    BY <1>2, <1>3
  <1> QED
    BY <1>4, TransfersAssumption DEF ThisRead, Transfers

\* The transfers of the current read that have ended are among its first ri.
LEMMA EndedNowFinite ==
    ASSUME CoreInv, ReaderTypeInv, SubmittedInv
    PROVE  /\ IsFiniteSet(EndedNow) /\ Cardinality(EndedNow) \in 0..ri
           /\ Cardinality(EndedNow) = ServerNodeNum =>
                \A nd \in Nodes : ThisRead(nd) \in finished
  <1> DEFINE F == {<<reads, k>> : k \in 0..(ri - 1)}
             f == [k \in 0..(ri - 1) |-> <<reads, k>>]
  <1>1. ri \in Nat /\ ri <= ServerNodeNum /\ ServerNodeNum \in Nat
    BY ReadAssumption DEF ReaderTypeInv
  <1>2. IsFiniteSet(0..(ri - 1)) /\ Cardinality(0..(ri - 1)) = ri
    <2>1. ri - 1 \in Int /\ 0 \in Int
      BY <1>1
    <2> QED
      BY <2>1, <1>1, FS_Interval
  <1>3. f \in Bijection(0..(ri - 1), F)
    <2>1. \A a, b \in 0..(ri - 1) : f[a] = f[b] => a = b
      <3>1. \A a, b : <<reads, a>> = <<reads, b>> => a = b
        OBVIOUS
      <3> QED
        BY <3>1
    <2>2. f \in [0..(ri - 1) -> F] /\ \A y \in F : \E a \in 0..(ri - 1) : f[a] = y
      OBVIOUS
    <2> QED
      BY <2>1, <2>2 DEF Bijection, Injection, Surjection, IsInjective
  <1>4. IsFiniteSet(F) /\ Cardinality(F) = ri
    BY <1>2, <1>3, FS_Bijection DEF ExistsBijection
  <1>5. EndedNow \subseteq F
    <2> SUFFICES ASSUME NEW tr \in EndedNow PROVE tr \in F
      OBVIOUS
    <2>1. tr \in finished /\ tr[1] = reads
      BY DEF EndedNow
    <2>2. tr \in (1..MaxReads) \X (0..9)
      BY <2>1, TransfersAssumption DEF CoreInv, TPTypeOK, Transfers
    <2>3. tr[2] < ri
      BY <2>1, SubmittedIs DEF SubmittedInv
    <2>4. tr = <<tr[1], tr[2]>> /\ tr[2] \in 0..9
      BY <2>2
    <2>5. tr[2] \in 0..(ri - 1)
      BY <2>3, <2>4, <1>1
    <2> QED
      BY <2>1, <2>4, <2>5
  <1>6. IsFiniteSet(EndedNow) /\ Cardinality(EndedNow) <= ri
    BY <1>4, <1>5, FS_Subset
  <1>7. Cardinality(EndedNow) \in Nat
    BY <1>6, FS_CardinalityType
  <1>8. ASSUME Cardinality(EndedNow) = ServerNodeNum, NEW nd \in Nodes
        PROVE  ThisRead(nd) \in finished
    <2>1. Cardinality(EndedNow) = Cardinality(F)
      BY <1>1, <1>4, <1>6, <1>7, <1>8
    <2>2. EndedNow = F
      BY <2>1, <1>4, <1>5, FS_Subset
    <2>3. nd \in 0..(ri - 1)
      BY <1>1, <1>4, <2>1, <1>8 DEF Nodes
    <2> QED
      BY <2>2, <2>3 DEF EndedNow, ThisRead
  <1> QED
    BY <1>1, <1>6, <1>7, <1>8

\* What is in flight has not finished, so that a worker that returns ends a
\* transfer which had not ended before.
LEMMA FlightUnfinished == ASSUME QueueInv
                          PROVE  (Queued \cup Active) \cap finished = {}
  BY DEF QueueInv, UniqueInv, Queued

\* The barrier lets Main through only when the current read is over.
LEMMA BarrierOpens ==
    ASSUME CoreInv, QueueInv, ReadInv, rpc = "wait",
           ~ (tasks_completed < ServerNodeNum)
    PROVE  /\ \A nd \in Nodes : ThisRead(nd) \in finished
           /\ Submitted \subseteq finished
  <1>1. Cardinality(EndedNow) = ServerNodeNum
    <2>1. tasks_completed <= Cardinality(EndedNow) /\ tasks_completed \in Nat
      BY DEF ReadInv, CountIsHonest, EndedNow, ReaderTypeInv
    <2>2. Cardinality(EndedNow) \in 0..ri /\ ri \in 0..ServerNodeNum
      BY EndedNowFinite DEF ReadInv, ReaderTypeInv
    <2>3. ServerNodeNum \in Nat
      BY ReadAssumption DEF ReadInv, ReaderTypeInv
    <2> QED
      BY <2>1, <2>2, <2>3
  <1>2. \A nd \in Nodes : ThisRead(nd) \in finished
    BY <1>1, EndedNowFinite DEF ReadInv
  <1>3. ASSUME NEW tr \in Submitted PROVE tr \in finished
    <2> SUFFICES ASSUME tr \notin finished PROVE FALSE
      OBVIOUS
    <2>1. tr[1] = reads /\ tr[2] < ri
      BY DEF ReadInv, NoStaleTransfer, SubmittedInv
    <2>2. tr \in Tasks
      BY SubmittedIs DEF Queued, Active, QueueInv, RingInv, CoreInv, TPTypeOK
    <2>3. tr \in (1..MaxReads) \X (0..9)
      BY <2>2, TransfersAssumption DEF Transfers
    <2>4. tr = <<reads, tr[2]>> /\ tr[2] \in 0..9
      BY <2>1, <2>3
    <2>5. ri \in 0..ServerNodeNum /\ ServerNodeNum \in Nat
      BY ReadAssumption DEF ReadInv, ReaderTypeInv
    <2>6. tr[2] \in Nodes
      BY <2>1, <2>4, <2>5 DEF Nodes
    <2> QED
      BY <1>2, <2>4, <2>6 DEF ThisRead
  <1> QED
    BY <1>2, <1>3

(***************************************************************************)
(* The steps of the pool                                                   *)
(***************************************************************************)

\* The tasks submitted by then stay submitted, whoever holds them.
LEMMA SubmittedFrame ==
    ASSUME UNCHANGED <<task_queue, head, count, task, finished>>,
           \A w \in Workers : (wpc'[w] = "running") <=> (wpc[w] = "running")
    PROVE  Submitted' = Submitted
  BY DEF Submitted

\* A worker that takes a task moves it within what was submitted.
LEMMA SubmittedTake ==
    ASSUME CoreInv, QueueInv, NEW w \in Workers, WorkerTake(w)
    PROVE  Submitted' = Submitted /\ finished' = finished
  <1>1. /\ \A k \in 0..(count - 2) : At(k)' = At(k + 1)
        /\ count' = count - 1 /\ count \in 1..QueueSize
    BY TakeRemoves DEF CoreInv, QueueInv
  <1>2. Active' = Active \cup {At(0)} /\ finished' = finished
    BY TakeQueue DEF WorkerTake
  <1>3. Queued' \cup {At(0)} = Queued
    <2>1. Queued' = {At(k)' : k \in 0..(count - 2)}
      <3>1. (count - 1) - 1 = count - 2
        BY <1>1
      <3> QED
        BY <1>1, <3>1 DEF Queued
    <2>2. Queued' = {At(k + 1) : k \in 0..(count - 2)}
      BY <1>1, <2>1
    <2>3. \A k \in 0..(count - 1) : k = 0 \/ (k - 1 \in 0..(count - 2) /\ (k - 1) + 1 = k)
      BY <1>1
    <2>4. \A k \in 0..(count - 2) : k + 1 \in 0..(count - 1)
      BY <1>1
    <2>5. 0 \in 0..(count - 1)
      BY <1>1
    <2>6. Queued \subseteq Queued' \cup {At(0)}
      BY <2>2, <2>3 DEF Queued
    <2>7. Queued' \cup {At(0)} \subseteq Queued
      BY <2>2, <2>4, <2>5 DEF Queued
    <2> QED
      BY <2>6, <2>7
  <1>4. Submitted' = Queued' \cup Active' \cup finished'
    BY DEF Submitted, Queued, Active, At
  <1> QED
    BY <1>2, <1>3, <1>4, SubmittedIs

\* One more task is submitted.
LEMMA SubmittedAdd ==
    ASSUME CoreInv, QueueInv, NEW tr \in Tasks, threadpool_add(tr)
    PROVE  Submitted' = Submitted \cup {tr} /\ finished' = finished
  <1>1. /\ \A k \in 0..count : At(k)' = IF k = count THEN tr ELSE At(k)
        /\ count' = count + 1 /\ count \in 0..(QueueSize - 1)
    BY AddAppends DEF CoreInv, QueueInv, threadpool_add
  <1>2. Active' = Active /\ finished' = finished
    BY DEF threadpool_add, Enqueue, workerVars, Active
  <1>3. Queued' = Queued \cup {tr}
    <2>1. (count + 1) - 1 = count /\ count \in 0..count
      BY <1>1, QueueSizeAssumption
    <2>2. Queued' = {At(k)' : k \in 0..count}
      BY <1>1, <2>1 DEF Queued
    <2>3. \A k \in 0..(count - 1) : k \in 0..count /\ k # count
      BY <1>1, QueueSizeAssumption
    <2>4. \A k \in 0..count : k = count \/ k \in 0..(count - 1)
      BY <1>1, QueueSizeAssumption
    <2>5. Queued' \subseteq Queued \cup {tr}
      BY <1>1, <2>2, <2>4 DEF Queued
    <2>6. Queued \cup {tr} \subseteq Queued'
      BY <1>1, <2>1, <2>2, <2>3 DEF Queued
    <2> QED
      BY <2>5, <2>6
  <1>4. Submitted' = Queued' \cup Active' \cup finished'
    BY DEF Submitted, Queued, Active, At
  <1> QED
    BY <1>2, <1>3, <1>4, SubmittedIs

\* A task that returns stays submitted and was not finished before.
LEMMA SubmittedDone ==
    ASSUME CoreInv, QueueInv, NEW w \in Workers, FunctionReturns(w)
    PROVE  /\ Submitted' = Submitted
           /\ finished' = finished \cup {task[w]}
           /\ task[w] \in Submitted \ finished
  <1>1. Active' = Active \ {task[w]} /\ task[w] \in Active
    BY DoneQueue
  <1>2. finished' = finished \cup {task[w]} /\ Queued' = Queued
    BY DEF FunctionReturns, poolVars, Queued, At
  <1>3. Submitted' = Queued' \cup Active' \cup finished'
    BY DEF Submitted, Queued, Active, At
  <1> QED
    BY <1>1, <1>2, <1>3, SubmittedIs, FlightUnfinished

(***************************************************************************)
(* Every step keeps the invariant                                          *)
(***************************************************************************)

\* The first read finds an empty pool.
LEMMA ReadInit == PRInit => PRInv
  <1> SUFFICES ASSUME PRInit PROVE PRInv
    OBVIOUS
  <1>1. CoreInv /\ QueueInv
    BY PoolInit, QueueInit DEF PRInit, PoolInv
  <1>2. Submitted = {} /\ finished = {} /\ Main \notin waitset
    <2>1. /\ {k \in 0..(0 - 1) : TRUE} = {} /\ {w \in Workers : wpc[w] = "running"} = {}
          /\ finished = {} /\ count = 0 /\ waitset = {}
      BY DEF PRInit, TPInit
    <2> QED
      BY <2>1 DEF Submitted
  <1>3. ReaderTypeInv /\ ReaderPlaceInv
    BY <1>2, ReadAssumption DEF PRInit, ReaderTypeInv, ReaderPlaceInv
  <1>4. SubmittedInv /\ NoStaleTransfer /\ QuietInv
    BY <1>2 DEF PRInit, SubmittedInv, NoStaleTransfer, QuietInv
  <1>5. CountIsHonest
    <2>1. {t \in finished : t[1] = reads} = {}
      BY <1>2
    <2> QED
      BY <2>1, FS_EmptySet DEF PRInit, CountIsHonest
  <1> QED
    BY <1>1, <1>3, <1>4, <1>5 DEF PRInv, ReadInv

\* What leaves the reader and the transfers alone keeps ReadInv.
LEMMA ReadFrame ==
    ASSUME ReadInv, UNCHANGED readVars, Submitted' = Submitted, finished' = finished,
           ReaderPlaceInv'
    PROVE  ReadInv'
  <1>1. ReaderTypeInv' /\ SubmittedInv' /\ NoStaleTransfer' /\ CountIsHonest'
    BY DEF ReadInv, readVars, ReaderTypeInv, SubmittedInv, NoStaleTransfer, CountIsHonest
  <1>2. QuietInv'
    BY DEF ReadInv, readVars, QuietInv, ThisRead, Nodes
  <1> QED
    BY <1>1, <1>2 DEF ReadInv

\* The pool goes its own way: it is created, its workers look for work, wait
\* and wake, it is destroyed between two reads.
LEMMA PoolStep ==
    ASSUME PRInv,
           \/ PoolSetUp \/ Terminate \/ PoolTearDown \/ Ended
           \/ \E w \in Workers : WorkerLoop(w)
           \/ \E t \in waitset : Wakes(t)
           \/ UNCHANGED prVars
    PROVE  PRInv'
  <1>1. UNCHANGED readVars
    BY DEF PoolSetUp, Terminate, PoolTearDown, Ended, WorkerLoop, Wakes, prVars, readVars
  <1>2. CoreInv' /\ QueueInv'
    BY CoreNext DEF PRInv, PoolSetUp, Terminate, PoolTearDown, Ended, Terminated,
                    WorkerLoop, Wakes, prVars, tpVars
  <1>3. Submitted' = Submitted /\ finished' = finished /\ ReaderPlaceInv'
    <2>1. CASE CreateThread
      <3>1. \A w \in Workers : (wpc'[w] = "running") <=> (wpc[w] = "running")
        BY <2>1 DEF CreateThread, PRInv, CoreInv, TPTypeOK, CreatedInv, Workers
      <3>2. UNCHANGED <<task_queue, head, count, task, finished, waitset>> /\ mpc # "open"
        BY <2>1 DEF CreateThread, poolVars
      <3> QED
        BY <1>1, <3>1, <3>2, SubmittedFrame DEF PRInv, ReadInv, ReaderPlaceInv, readVars
    <2>1c. CASE CountThread
      <3>1. UNCHANGED <<task_queue, head, count, task, finished, wpc, waitset>> /\ mpc # "open"
        BY <2>1c DEF CountThread, poolVars
      <3> QED
        BY <1>1, <3>1, SubmittedFrame DEF PRInv, ReadInv, ReaderPlaceInv, readVars
    <2>2. CASE CreateReturn \/ JoinThread \/ DestroyReturn \/ UNCHANGED tpVars
      <3>1. UNCHANGED <<task_queue, head, count, task, finished, wpc, waitset>>
        BY <2>2 DEF CreateReturn, JoinThread, DestroyReturn, poolVars, workerVars, tpVars
      <3>2. mpc' = mpc \/ mpc # "open"
        BY <2>2 DEF CreateReturn, JoinThread, DestroyReturn, tpVars
      <3> QED
        BY <1>1, <3>1, <3>2, SubmittedFrame DEF PRInv, ReadInv, ReaderPlaceInv, readVars
    <2>3. CASE CreateFails \/ Terminate
      <3>1. UNCHANGED <<task_queue, head, count, task, finished, wpc>> /\ waitset' = {}
        BY <2>3 DEF CreateFails, Terminate, threadpool_destroy, BeginDestroy, poolVars,
                    workerVars, cond_broadcast
      <3>2. rpc = "idle"
        BY <2>3 DEF CreateFails, Terminate, PRInv, ReadInv, ReaderPlaceInv
      <3> QED
        BY <1>1, <3>1, <3>2, SubmittedFrame DEF PRInv, ReadInv, ReaderPlaceInv, readVars
    <2>4. ASSUME NEW w \in Workers, WorkerTake(w)
          PROVE  Submitted' = Submitted /\ finished' = finished /\ ReaderPlaceInv'
      <3>1. UNCHANGED <<mpc, waitset>>
        BY <2>4 DEF WorkerTake, mainVars
      <3> QED
        BY <1>1, <2>4, <3>1, SubmittedTake DEF PRInv, ReadInv, ReaderPlaceInv, readVars
    <2>5. ASSUME NEW w \in Workers, WorkerWait(w) \/ WorkerExit(w)
          PROVE  Submitted' = Submitted /\ finished' = finished /\ ReaderPlaceInv'
      <3>1. UNCHANGED <<task_queue, head, count, task, finished, mpc>>
        BY <2>5 DEF WorkerWait, WorkerExit, poolVars, workerVars, mainVars
      <3>2. \A v \in Workers : (wpc'[v] = "running") <=> (wpc[v] = "running")
        BY <2>5 DEF WorkerWait, WorkerExit, Runnable, workerVars, PRInv, CoreInv, TPTypeOK
      <3>3. Main \in waitset' => Main \in waitset
        BY <2>5 DEF WorkerWait, WorkerExit, cond_wait, Workers, Main
      <3> QED
        BY <1>1, <3>1, <3>2, <3>3, SubmittedFrame DEF PRInv, ReadInv, ReaderPlaceInv, readVars
    <2>6. ASSUME NEW t \in waitset, SpuriousWakeup(t)
          PROVE  Submitted' = Submitted /\ finished' = finished /\ ReaderPlaceInv'
      <3>1. UNCHANGED <<task_queue, head, count, task, finished, mpc, wpc>>
        BY <2>6 DEF SpuriousWakeup, poolVars, workerVars, mainVars
      <3>2. waitset' \subseteq waitset
        BY <2>6 DEF SpuriousWakeup
      <3> QED
        BY <1>1, <3>1, <3>2, SubmittedFrame DEF PRInv, ReadInv, ReaderPlaceInv, readVars
    <2> QED
      BY <2>1, <2>1c, <2>2, <2>3, <2>4, <2>5, <2>6
         DEF PoolSetUp, PoolTearDown, Ended, Terminated, WorkerLoop, LoopStep, Wakes,
             prVars, tpVars
  <1>4. ReadInv'
    BY <1>1, <1>3, ReadFrame DEF PRInv
  <1> QED
    BY <1>2, <1>4 DEF PRInv

\* A new read starts from a quiet pool, so the reset of the counter is safe.
LEMMA BeginReadStep == ASSUME PRInv, BeginRead PROVE PRInv'
  <1>0. /\ UNCHANGED tpVars /\ mpc = "open" /\ rpc = "idle"
        /\ ServerNodeNum' \in NodeNums /\ tasks_completed' = 0
        /\ rpc' = "dispatch" /\ ri' = 0 /\ reads' = reads + 1
        /\ reads < MaxReads /\ reads \in Nat
    BY ReadAssumption DEF BeginRead, PRInv, ReadInv, ReaderTypeInv
  <1>1. CoreInv' /\ QueueInv'
    BY <1>0, CoreNext DEF PRInv
  <1>2. Submitted' = Submitted /\ finished' = finished /\ mpc' = mpc /\ waitset' = waitset
    BY <1>0, SubmittedFrame DEF tpVars
  <1>3. ReaderTypeInv' /\ ReaderPlaceInv'
    <2>1. ri' \in 0..ServerNodeNum'
      BY <1>0, ReadAssumption
    <2> QED
      BY <1>0, <1>2, <2>1, ReadAssumption
         DEF PRInv, ReadInv, ReaderTypeInv, ReaderPlaceInv
  <1>4. \A tr \in Submitted : tr[1] \in 1..reads /\ tr \in finished
    BY <1>0 DEF PRInv, ReadInv, SubmittedInv, QuietInv
  <1>5. \A tr \in Submitted : tr[1] \in 1..reads' /\ tr[1] # reads'
    BY <1>0, <1>4
  <1>6. SubmittedInv' /\ NoStaleTransfer' /\ QuietInv'
    BY <1>0, <1>2, <1>4, <1>5 DEF SubmittedInv, NoStaleTransfer, QuietInv
  <1>7. CountIsHonest'
    <2>1. {tr \in finished' : tr[1] = reads'} = {}
      BY <1>2, <1>5, SubmittedIs
    <2> QED
      BY <1>0, <2>1, FS_EmptySet DEF CountIsHonest
  <1> QED
    BY <1>1, <1>3, <1>6, <1>7 DEF PRInv, ReadInv

\* The transfer of the next node is submitted: it was not before.
LEMMA DispatchIsAdd ==
    ASSUME PRInv, DispatchTransfer
    PROVE  ThisRead(ri) \in Tasks /\ threadpool_add(ThisRead(ri))
  <1>1. ri \in Nodes /\ reads > 0 /\ mpc = "open"
    BY ReadAssumption
       DEF DispatchTransfer, PRInv, ReadInv, ReaderTypeInv, ReaderPlaceInv, Nodes
  <1>2. ThisRead(ri) \in Tasks /\ ThisRead(ri)[1] = reads /\ ThisRead(ri)[2] = ri
    BY <1>1, ThisReadIsTask DEF PRInv, ReadInv
  <1>3. ThisRead(ri) \notin Submitted
    <2>1. ~ (ri < ri)
      BY ReadAssumption DEF PRInv, ReadInv, ReaderTypeInv
    <2> QED
      BY <1>2, <2>1 DEF PRInv, ReadInv, SubmittedInv
  <1> QED
    BY <1>1, <1>2, <1>3 DEF DispatchTransfer, threadpool_add

LEMMA DispatchStep == ASSUME PRInv, DispatchTransfer PROVE PRInv'
  <1>0. /\ tasks_completed' = tasks_completed /\ ServerNodeNum' = ServerNodeNum
        /\ rpc' = rpc /\ rpc = "dispatch" /\ reads' = reads
        /\ ri < ServerNodeNum /\ ri' = ri + 1 /\ mpc' = mpc /\ waitset' \subseteq waitset
    BY DEF DispatchTransfer, Enqueue, cond_signal, mainVars
  <1>1. CoreInv' /\ QueueInv'
    BY DispatchIsAdd, CoreNext DEF PRInv
  <1>2. Submitted' = Submitted \cup {ThisRead(ri)} /\ finished' = finished
    BY DispatchIsAdd, SubmittedAdd DEF PRInv
  <1>3. ri \in 0..ServerNodeNum /\ ServerNodeNum \in Nat /\ reads \in Nat /\ reads > 0
    BY <1>0, ReadAssumption DEF PRInv, ReadInv, ReaderTypeInv
  <1>4. ReaderTypeInv' /\ ReaderPlaceInv' /\ QuietInv' /\ CountIsHonest'
    <2>1. ri' \in 0..ServerNodeNum'
      BY <1>0, <1>3
    <2> QED
      BY <1>0, <1>2, <2>1 DEF PRInv, ReadInv, ReaderTypeInv, ReaderPlaceInv, QuietInv,
                               CountIsHonest
  <1>5. ThisRead(ri)[1] = reads /\ ThisRead(ri)[2] = ri
    BY DEF ThisRead
  <1>6. SubmittedInv'
    <2> SUFFICES ASSUME NEW tr \in Submitted'
                 PROVE  tr[1] \in 1..reads /\ (tr[1] = reads => tr[2] < ri + 1)
      BY <1>0 DEF SubmittedInv
    <2>1. CASE tr \in Submitted
      <3>1. tr[1] \in 1..reads /\ (tr[1] = reads => tr[2] < ri)
        BY <2>1 DEF PRInv, ReadInv, SubmittedInv
      <3>2. tr \in Tasks
        BY <2>1, SubmittedIs DEF Queued, Active, PRInv, QueueInv, RingInv, CoreInv, TPTypeOK
      <3>3. tr[2] \in 0..9
        BY <3>2, TransfersAssumption DEF Transfers
      <3> QED
        BY <3>1, <3>3, <1>3
    <2>2. CASE tr = ThisRead(ri)
      BY <2>2, <1>3, <1>5
    <2> QED
      BY <1>2, <2>1, <2>2
  <1>7. NoStaleTransfer'
    BY <1>0, <1>2, <1>5 DEF PRInv, ReadInv, NoStaleTransfer
  <1> QED
    BY <1>1, <1>4, <1>6, <1>7 DEF PRInv, ReadInv

\* A transfer that the pool refuses is passed over; then the barrier begins.
LEMMA PassOverStep == ASSUME PRInv, DispatchRefused \/ DispatchDone PROVE PRInv'
  <1>0. /\ UNCHANGED tpVars
        /\ tasks_completed' = tasks_completed /\ ServerNodeNum' = ServerNodeNum
        /\ reads' = reads /\ rpc = "dispatch" /\ rpc' \in {"dispatch", "wait"}
        /\ (ri < ServerNodeNum /\ ri' = ri + 1) \/ ri' = ri
    BY DEF DispatchRefused, DispatchDone
  <1>1. CoreInv' /\ QueueInv'
    BY <1>0, CoreNext DEF PRInv
  <1>2. Submitted' = Submitted /\ finished' = finished /\ mpc' = mpc /\ waitset' = waitset
    BY <1>0, SubmittedFrame DEF tpVars
  <1>3. ri \in 0..ServerNodeNum /\ ServerNodeNum \in Nat /\ reads \in Nat
    BY ReadAssumption DEF PRInv, ReadInv, ReaderTypeInv
  <1>4. ReaderTypeInv' /\ ReaderPlaceInv'
    <2>1. ri' \in 0..ServerNodeNum' /\ reads > 0
      BY <1>0, <1>3 DEF PRInv, ReadInv, ReaderTypeInv
    <2> QED
      BY <1>0, <1>2, <2>1 DEF PRInv, ReadInv, ReaderTypeInv, ReaderPlaceInv
  <1>5. SubmittedInv'
    <2> SUFFICES ASSUME NEW tr \in Submitted
                 PROVE  tr[1] \in 1..reads /\ (tr[1] = reads => tr[2] < ri')
      BY <1>0, <1>2 DEF SubmittedInv
    <2>1. tr[1] \in 1..reads /\ (tr[1] = reads => tr[2] < ri)
      BY DEF PRInv, ReadInv, SubmittedInv
    <2>2. tr \in Tasks
      BY SubmittedIs DEF Queued, Active, PRInv, QueueInv, RingInv, CoreInv, TPTypeOK
    <2>3. tr[2] \in 0..9
      BY <2>2, TransfersAssumption DEF Transfers
    <2> QED
      BY <1>0, <1>3, <2>1, <2>3
  <1>6. NoStaleTransfer' /\ QuietInv' /\ CountIsHonest'
    BY <1>0, <1>2 DEF PRInv, ReadInv, NoStaleTransfer, QuietInv, CountIsHonest
  <1> QED
    BY <1>1, <1>4, <1>5, <1>6 DEF PRInv, ReadInv

\* Main goes to sleep on notify, like an idle worker.
LEMMA WaitStep == ASSUME PRInv, ReaderWait PROVE PRInv'
  <1>0. /\ UNCHANGED <<poolVars, shutdown, workerVars, mainVars, finished, readVars>>
        /\ waitset' = waitset \cup {Main} /\ rpc = "wait"
    BY DEF ReaderWait, cond_wait
  <1>1. CoreInv'
    BY <1>0, SleepCore DEF PRInv
  <1>2. QueueInv' /\ Submitted' = Submitted /\ finished' = finished
    BY <1>0, QueueFrame, SubmittedFrame DEF PRInv, poolVars, workerVars
  <1>3. ReadInv'
    BY <1>0, <1>2, ReadFrame DEF PRInv, ReadInv, ReaderPlaceInv, readVars, mainVars
  <1> QED
    BY <1>1, <1>2, <1>3 DEF PRInv

\* Main goes through the barrier, merges, and returns.
LEMMA ProceedStep == ASSUME PRInv, ReaderProceeds \/ MergeAndReturn PROVE PRInv'
  <1>0. /\ UNCHANGED tpVars
        /\ tasks_completed' = tasks_completed /\ ServerNodeNum' = ServerNodeNum
        /\ reads' = reads /\ ri' = ri
        /\ rpc' \in {"idle", "merge"} /\ rpc \in {"wait", "merge"}
        /\ Main \in waitset => rpc # "wait"
    BY DEF ReaderProceeds, MergeAndReturn
  <1>1. CoreInv' /\ QueueInv'
    BY <1>0, CoreNext DEF PRInv
  <1>2. Submitted' = Submitted /\ finished' = finished /\ mpc' = mpc /\ waitset' = waitset
    BY <1>0, SubmittedFrame DEF tpVars
  <1>3. ReaderTypeInv' /\ ReaderPlaceInv'
    BY <1>0, <1>2 DEF PRInv, ReadInv, ReaderTypeInv, ReaderPlaceInv
  <1>4. SubmittedInv' /\ NoStaleTransfer' /\ CountIsHonest'
    BY <1>0, <1>2 DEF PRInv, ReadInv, SubmittedInv, NoStaleTransfer, CountIsHonest
  <1>5. QuietInv'
    <2>1. Submitted \subseteq finished /\ \A nd \in Nodes : ThisRead(nd) \in finished
      BY BarrierOpens DEF PRInv, ReadInv, QuietInv, ReaderProceeds, MergeAndReturn
    <2>2. Nodes' = Nodes /\ \A nd : ThisRead(nd)' = ThisRead(nd)
      BY <1>0 DEF Nodes, ThisRead
    <2> QED
      BY <1>2, <2>1, <2>2 DEF QuietInv
  <1> QED
    BY <1>1, <1>3, <1>4, <1>5 DEF PRInv, ReadInv

\* The end of a transfer: it is one of the current read, and it had not
\* been counted before.
LEMMA EndStep == ASSUME PRInv, NEW w \in Workers, TransferEnds(w) PROVE PRInv'
  <1>0. /\ FunctionReturns(w) /\ UNCHANGED mainVars /\ waitset' \subseteq waitset
        /\ ServerNodeNum' = ServerNodeNum /\ rpc' = rpc /\ ri' = ri /\ reads' = reads
        /\ tasks_completed' \in {tasks_completed, tasks_completed + 1}
    BY DEF TransferEnds, TransferDone, TransferFails, cond_signal, readVars
  <1>1. CoreInv' /\ QueueInv'
    BY <1>0, DoneCore, DoneQueue DEF PRInv, QueueInv
  <1>2. /\ Submitted' = Submitted /\ finished' = finished \cup {task[w]}
        /\ task[w] \in Submitted \ finished
    BY <1>0, SubmittedDone DEF PRInv
  <1>3. task[w][1] = reads /\ rpc \notin {"idle", "merge"}
    BY <1>2 DEF PRInv, ReadInv, NoStaleTransfer, QuietInv
  <1>4. ReaderTypeInv' /\ ReaderPlaceInv'
    <2>1. tasks_completed' \in Nat
      BY <1>0 DEF PRInv, ReadInv, ReaderTypeInv
    <2> QED
      BY <1>0, <2>1 DEF PRInv, ReadInv, ReaderTypeInv, ReaderPlaceInv, mainVars
  <1>5. SubmittedInv' /\ NoStaleTransfer' /\ QuietInv'
    BY <1>0, <1>2, <1>3 DEF PRInv, ReadInv, SubmittedInv, NoStaleTransfer, QuietInv
  <1>6. CountIsHonest'
    <2>1. {tr \in finished' : tr[1] = reads'} = EndedNow \cup {task[w]}
      BY <1>0, <1>2, <1>3 DEF EndedNow
    <2>2. task[w] \notin EndedNow
      BY <1>2 DEF EndedNow
    <2>3. IsFiniteSet(EndedNow) /\ Cardinality(EndedNow) \in 0..ri
      BY EndedNowFinite DEF PRInv, ReadInv
    <2>4. Cardinality(EndedNow \cup {task[w]}) = Cardinality(EndedNow) + 1
      BY <2>2, <2>3, FS_AddElement
    <2>5. tasks_completed <= Cardinality(EndedNow) /\ tasks_completed \in Nat
      BY DEF PRInv, ReadInv, CountIsHonest, EndedNow, ReaderTypeInv
    <2>6. Cardinality(EndedNow) \in Nat
      BY <2>3, FS_CardinalityType
    <2>7. tasks_completed' <= Cardinality(EndedNow) + 1
      BY <1>0, <2>5, <2>6
    <2>8. tasks_completed' <= Cardinality({tr \in finished' : tr[1] = reads'})
      BY <2>1, <2>4, <2>7
    <2> QED
      BY <2>8 DEF CountIsHonest
  <1> QED
    BY <1>1, <1>4, <1>5, <1>6 DEF PRInv, ReadInv

\* One case per action of the composition.
LEMMA ReadNext == PRInv /\ [PRNext]_prVars => PRInv'
  <1> SUFFICES ASSUME PRInv, [PRNext]_prVars PROVE PRInv'
    OBVIOUS
  <1>1. CASE \/ PoolSetUp \/ Terminate \/ PoolTearDown \/ Ended
             \/ \E w \in Workers : WorkerLoop(w)
             \/ \E t \in waitset : Wakes(t)
             \/ UNCHANGED prVars
    BY <1>1, PoolStep
  <1>2. CASE BeginRead
    BY <1>2, BeginReadStep
  <1>3. CASE ReaderStep
    BY <1>3, DispatchStep, PassOverStep, WaitStep, ProceedStep DEF ReaderStep
  <1>4. ASSUME NEW w \in Workers, TransferEnds(w) PROVE PRInv'
    BY <1>4, EndStep
  <1> QED
    BY <1>1, <1>2, <1>3, <1>4 DEF PRNext

\* The composition of the reader and the pool keeps PRInv.
THEOREM ReadInvariant == PRSpec => []PRInv
  BY ReadInit, ReadNext, PTL DEF PRSpec

(***************************************************************************)
(* The theorems                                                            *)
(***************************************************************************)

\* Type correctness; the counter never exceeds the number of nodes.
THEOREM ReadTypeCorrect == PRSpec => []PRTypeOK
  <1>1. PRInv => PRTypeOK
    <2> SUFFICES ASSUME PRInv PROVE PRTypeOK
      OBVIOUS
    <2>1. ServerNodeNum \in 0..10 /\ ri \in 0..ServerNodeNum
      BY ReadAssumption DEF PRInv, ReadInv, ReaderTypeInv
    <2>2. tasks_completed <= Cardinality(EndedNow) /\ tasks_completed \in Nat
      BY DEF PRInv, ReadInv, CountIsHonest, EndedNow, ReaderTypeInv
    <2>3. Cardinality(EndedNow) \in 0..ri
      BY EndedNowFinite DEF PRInv, ReadInv
    <2> QED
      BY <2>1, <2>2, <2>3 DEF PRTypeOK, PRInv, CoreInv, ReadInv, ReaderTypeInv
  <1> QED
    BY <1>1, ReadInvariant, PTL

\* The barrier: Main merges only when every transfer of this read has ended
\* and the pool is idle, so that no worker still writes into the buffers
\* that Main is about to free.
THEOREM ReadBarrierIsSound == PRSpec => []BarrierIsSound
  <1>1. PRInv => BarrierIsSound
    <2> SUFFICES ASSUME PRInv, rpc = "merge"
                 PROVE  /\ \A nd \in Nodes : ThisRead(nd) \in finished
                        /\ count = 0 /\ Active = {}
      BY DEF BarrierIsSound
    <2>1. /\ Submitted \subseteq finished /\ \A nd \in Nodes : ThisRead(nd) \in finished
      BY DEF PRInv, ReadInv, QuietInv
    <2>2. Queued = {} /\ Active = {}
      BY <2>1, SubmittedIs, FlightUnfinished DEF PRInv
    <2>3. count \in Nat /\ (count > 0 => 0 \in 0..(count - 1))
      BY DEF PRInv, CoreInv, TPTypeOK
    <2>4. count = 0
      BY <2>2, <2>3 DEF Queued
    <2> QED
      BY <2>1, <2>2, <2>4
  <1> QED
    BY <1>1, ReadInvariant, PTL

\* tasks_completed is reset and read without the lock; what makes that safe
\* is that no transfer of an earlier read is still in flight.
THEOREM ReadLeavesNoStaleTransfer == PRSpec => []NoStaleTransfer
  <1>1. PRInv => NoStaleTransfer
    BY DEF PRInv, ReadInv
  <1> QED
    BY <1>1, ReadInvariant, PTL

\* The counter never runs ahead of the transfers that have ended.
THEOREM ReadCountIsHonest == PRSpec => []CountIsHonest
  <1>1. PRInv => CountIsHonest
    BY DEF PRInv, ReadInv
  <1> QED
    BY <1>1, ReadInvariant, PTL

\* H5rest_term frees a quiescent pool, although Main also slept on notify.
THEOREM ReadFreedQuiescent == PRSpec => []FreedIsQuiescent
  <1>1. PRInv => FreedIsQuiescent
    <2> SUFFICES ASSUME PRInv, mpc = "freed" PROVE FreedIsQuiescent
      BY DEF FreedIsQuiescent
    <2>1. Main \notin waitset
      BY DEF PRInv, ReadInv, ReaderPlaceInv
    <2> QED
      BY <2>1, CoreQuiescent DEF PRInv
  <1> QED
    BY <1>1, ReadInvariant, PTL

(***************************************************************************)
(* Refinement: under its reader too the pool is the bounded FIFO queue     *)
(***************************************************************************)

\* The reader submits through threadpool_add, the end of a transfer is the
\* end of a task, and whatever else the reader does is none of the queue's.
LEMMA ReadRefineNext ==
    PRInv /\ PRInv' /\ PendingIs' /\ [PRNext]_prVars => [TQ!TQNext]_TQ!tqVars
  <1> SUFFICES ASSUME PRInv, PRInv', PendingIs', [PRNext]_prVars
               PROVE  [TQ!TQNext]_TQ!tqVars
    OBVIOUS
  <1>0. CoreInv /\ QueueInv /\ CoreInv'
    BY DEF PRInv
  <1>1. CASE \/ PoolSetUp \/ Terminate \/ PoolTearDown \/ Ended
             \/ \E w \in Workers : WorkerLoop(w)
             \/ \E t \in waitset : Wakes(t)
             \/ UNCHANGED prVars
    BY <1>0, <1>1, RefineCore
       DEF PoolSetUp, Terminate, PoolTearDown, Ended, Terminated, WorkerLoop, Wakes,
           prVars, tpVars
  <1>2. CASE DispatchTransfer
    BY <1>0, <1>2, DispatchIsAdd, RefineCore
  <1>3. CASE \/ BeginRead \/ DispatchRefused \/ DispatchDone \/ ReaderProceeds
             \/ MergeAndReturn
    <2>1. UNCHANGED tpVars
      BY <1>3 DEF BeginRead, DispatchRefused, DispatchDone, ReaderProceeds, MergeAndReturn
    <2> QED
      BY <1>0, <2>1, RefineCore
  <1>4. CASE ReaderWait
    <2>1. UNCHANGED TQ!tqVars
      BY <1>4, RefineFrame DEF ReaderWait, poolVars, workerVars, mainVars
    <2> QED
      BY <2>1
  <1>5. ASSUME NEW w \in Workers, TransferEnds(w) PROVE TQ!TQNext
    <2>1. FunctionReturns(w) /\ UNCHANGED mainVars
      BY <1>5 DEF TransferEnds, TransferDone, TransferFails
    <2> QED
      BY <1>0, <2>1, RefineDone DEF TQ!TQNext
  <1> QED
    BY <1>1, <1>2, <1>3, <1>4, <1>5 DEF PRNext, ReaderStep

\* RV_dataset_read on top of the pool still implements the bounded FIFO
\* queue, although Main shares the condition variable of the workers.
THEOREM ReadImplementsQueue == PRSpec => TQ!TQSpec
  <1>1. PRInit => TQ!TQInit
    BY RefineInit DEF PRInit
  <1>2. PRInv => PendingIs
    BY PendingSeq DEF PRInv, QueueInv
  <1> QED
    BY <1>1, <1>2, ReadRefineNext, ReadInvariant, PTL DEF PRSpec, TQ!TQSpec
=============================================================================
