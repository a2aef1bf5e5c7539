---------------------------- MODULE ParallelRead ----------------------------
(***************************************************************************)
(* RV_dataset_read with SERVER_NUM > 1 on top of the thread pool.  The     *)
(* application thread Main reads SERVER_NUM again at every read, resets    *)
(* the global tasks_completed, submits one transfer per server node to the *)
(* pool, waits until tasks_completed has reached the number of nodes, and  *)
(* merges what the transfers left in the response buffer.                  *)
(*                                                                         *)
(* Main waits on pool->notify, the condition variable the idle workers     *)
(* sleep on.  The transfers themselves are RV_curl_multi_perform_multi-    *)
(* threading (module CurlMulti): here a transfer only ends, in one of the  *)
(* two ways its code can end.                                              *)
(***************************************************************************)
EXTENDS ThreadPool

CONSTANTS NodeNums,     \* the values SERVER_NUM may have at a read
          MaxReads,     \* bound: how many reads the application makes
          MayFail       \* may a transfer meet an error (FUNC_GOTO_ERROR)?

ASSUME ReadAssumption == /\ NodeNums \subseteq 2..10
                         /\ MaxReads \in Nat
                         /\ MayFail \in BOOLEAN

\* A task is the transfer of one read from one node: its Args_Params are
\* allocated for it alone.
Transfers == (1..MaxReads) \X (0..9)
ASSUME TransfersAssumption == Tasks = Transfers

VARIABLES tasks_completed,   \* the global counter
          ServerNodeNum,     \* RV_dataset_read's local
          rpc, ri,           \* where Main is in RV_dataset_read; its index i
          reads              \* history: the number of reads begun

readVars == <<tasks_completed, ServerNodeNum, rpc, ri, reads>>
prVars   == <<task_queue, head, tail, count, shutdown, started, waitset, wpc,
              task, mpc, mi, err, finished, tasks_completed, ServerNodeNum,
              rpc, ri, reads>>

PRTypeOK == /\ TPTypeOK
            /\ tasks_completed \in 0..ServerNodeNum
            /\ ServerNodeNum \in NodeNums \cup {0}
            /\ rpc \in {"idle", "dispatch", "wait", "merge"}
            /\ ri \in 0..10
            /\ reads \in 0..MaxReads

\* The transfers of the current read.
ThisRead(n) == <<reads, n>>
Nodes == 0..(ServerNodeNum - 1)

PRInit == /\ TPInit
          /\ tasks_completed = 0
          /\ ServerNodeNum = 0
          /\ rpc = "idle" /\ ri = 0 /\ reads = 0

(***************************************************************************)
(* Main: RV_dataset_read                                                   *)
(***************************************************************************)
\* Faulty variant: tasks_completed keeps the value of the last read.
BeginReadKeepsCount == /\ mpc = "open" /\ rpc = "idle"
                       /\ reads < MaxReads
                       /\ ServerNodeNum' \in NodeNums
                       /\ rpc' = "dispatch" /\ ri' = 0
                       /\ reads' = reads + 1
                       /\ UNCHANGED <<tpVars, tasks_completed>>

BeginRead == /\ mpc = "open" /\ rpc = "idle"
             /\ reads < MaxReads
             /\ ServerNodeNum' \in NodeNums
             /\ tasks_completed' = 0
             /\ rpc' = "dispatch" /\ ri' = 0
             /\ reads' = reads + 1
             /\ UNCHANGED tpVars

\* threadpool_add returned 0.
DispatchTransfer == /\ rpc = "dispatch" /\ ri < ServerNodeNum
                    /\ Enqueue(ThisRead(ri))
                    /\ ri' = ri + 1
                    /\ UNCHANGED <<mainVars, tasks_completed, ServerNodeNum,
                                   rpc, reads>>

\* threadpool_add returned -1: "failed to create multithreading" is printed.
DispatchRefused == /\ rpc = "dispatch" /\ ri < ServerNodeNum
                   /\ AddRefused
                   /\ ri' = ri + 1
                   /\ UNCHANGED <<tpVars, tasks_completed, ServerNodeNum,
                                  rpc, reads>>

DispatchDone == /\ rpc = "dispatch" /\ ri = ServerNodeNum
                /\ rpc' = "wait"
                /\ UNCHANGED <<tpVars, tasks_completed, ServerNodeNum, ri,
                               reads>>

\* One turn of: while (tasks_completed < ServerNodeNum) pthread_cond_wait.
ReaderWait == /\ rpc = "wait" /\ Main \notin waitset
              /\ tasks_completed < ServerNodeNum
              /\ cond_wait(Main)
              /\ UNCHANGED <<poolVars, shutdown, workerVars, mainVars,
                             finished, readVars>>

\* Faulty variant: the condition is not tested again after the wait.
ProceedsUntested == /\ rpc = "wait" /\ Main \notin waitset
                    /\ rpc' = "merge"
                    /\ UNCHANGED <<tpVars, tasks_completed, ServerNodeNum, ri,
                                   reads>>

\* Faulty variant: one transfer too few is waited for.
ProceedsOneEarly == /\ rpc = "wait" /\ Main \notin waitset
                    /\ ~ (tasks_completed < ServerNodeNum - 1)
                    /\ rpc' = "merge"
                    /\ UNCHANGED <<tpVars, tasks_completed, ServerNodeNum, ri,
                                   reads>>

ReaderProceeds == /\ rpc = "wait" /\ Main \notin waitset
                  /\ ~ (tasks_completed < ServerNodeNum)
                  /\ rpc' = "merge"
                  /\ UNCHANGED <<tpVars, tasks_completed, ServerNodeNum, ri,
                                 reads>>

\* Merge the response buffers, hand the data to the caller, free everything.
MergeAndReturn == /\ rpc = "merge"
                  /\ rpc' = "idle"
                  /\ UNCHANGED <<tpVars, tasks_completed, ServerNodeNum, ri,
                                 reads>>

(***************************************************************************)
(* Workers: the end of RV_curl_multi_perform_multithreading                *)
(***************************************************************************)

\* The transfer loop ended: under the lock the task is counted, and the
\* waiter is signalled when the count is a multiple of the node number.
TransferDone(w) ==
    /\ FunctionReturns(w)
    /\ tasks_completed' = tasks_completed + 1
    /\ IF (tasks_completed + 1) % ServerNodeNum = 0
       THEN cond_signal
       ELSE UNCHANGED waitset
    /\ UNCHANGED <<mainVars, ServerNodeNum, rpc, ri, reads>>

\* The transfer met an error.  FUNC_GOTO_ERROR returns from the function:
\* nothing after the label done is executed.
TransferFails(w) == /\ MayFail
                    /\ FunctionReturns(w)
                    /\ UNCHANGED <<waitset, mainVars, readVars>>

(***************************************************************************)
(* The composition                                                         *)
(***************************************************************************)
PoolSetUp == (CreateThread \/ CountThread \/ CreateFails \/ CreateReturn)
                /\ UNCHANGED readVars

\* H5rest_term, between two reads.
Terminate == threadpool_destroy /\ rpc = "idle" /\ UNCHANGED readVars

PoolTearDown == (JoinThread \/ DestroyReturn) /\ UNCHANGED readVars

WorkerLoop(w) == LoopStep(w) /\ UNCHANGED readVars

TransferEnds(w) == TransferDone(w) \/ TransferFails(w)

ReaderStep == \/ DispatchTransfer \/ DispatchRefused \/ DispatchDone
              \/ ReaderWait \/ ReaderProceeds \/ MergeAndReturn

Wakes(t) == SpuriousWakeup(t) /\ UNCHANGED readVars

Ended == Terminated /\ UNCHANGED readVars

PRNext == \/ PoolSetUp \/ BeginRead \/ ReaderStep \/ Terminate \/ PoolTearDown
          \/ \E w \in Workers : WorkerLoop(w) \/ TransferEnds(w)
          \/ \E t \in waitset : Wakes(t)
          \/ Ended

PRSpec == PRInit /\ [][PRNext]_prVars

\* Threads that can run do run, and every transfer ends one way or the
\* other.  No fairness on spurious wakeups, on reading or on terminating.
PRFairness == /\ \A w \in Workers : WF_prVars(WorkerLoop(w))
              /\ \A w \in Workers : WF_prVars(TransferEnds(w))
              /\ WF_prVars(ReaderStep)
              /\ WF_prVars(PoolTearDown)

PRFairSpec == PRSpec /\ PRFairness

(***************************************************************************)
(* Properties                                                              *)
(***************************************************************************)

\* The barrier: Main only merges when every transfer of this read has ended
\* and none is queued or running, so that no worker still writes into the
\* buffers, the handles and the transfer_info that Main is about to free.
BarrierIsSound == rpc = "merge" => /\ \A n \in Nodes : ThisRead(n) \in finished
                                   /\ count = 0 /\ Active = {}

\* As long as the pool has one slot per node, no transfer of a read is
\* refused: the barrier of one read has emptied the queue before the next
\* one fills it.
DispatchNeverRefused ==
    (rpc = "dispatch" /\ ri < ServerNodeNum /\ ServerNodeNum <= QueueSize)
      => ~ AddRefused

\* tasks_completed is reset without the lock; that is safe because no task
\* of an earlier read can still be about to increment it.
NoStaleTransfer == \A t \in Submitted \ finished : t[1] = reads

\* The counter never runs ahead of the transfers of the current read: none
\* is counted twice, before it has ended, or for another read.
CountIsHonest == tasks_completed <= Cardinality({t \in finished : t[1] = reads})

\* Every transfer that has ended has been counted: tasks_completed is what
\* the barrier waits for.
EveryEndIsCounted ==
    reads > 0 => tasks_completed
                   = Cardinality({t \in finished : t[1] = reads})

\* Every transfer handed to the pool comes to its end.
TransfersEnd == \A t \in Tasks : (t \in Submitted) ~> (t \in finished)

\* A read that was begun returns to its caller.
ReadReturns == (rpc = "dispatch") ~> (rpc = "idle")
=============================================================================
