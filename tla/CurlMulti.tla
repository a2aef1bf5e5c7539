------------------------------ MODULE CurlMulti ------------------------------
(***************************************************************************)
(* The transfer loops of RV_dataset_read: RV_curl_multi_perform, one loop  *)
(* over the handles of all the datasets (SERVER_NUM = 1), and RV_curl_     *)
(* multi_perform_multithreading, one loop per server node, each in its own *)
(* thread and all of them on one transfer_info array and one response      *)
(* buffer (SERVER_NUM > 1).                                                *)
(*                                                                         *)
(* Handle h transfers the part of dataset Dataset(h) that node Loop(h)     *)
(* serves.  A part is ChunkNum cells long.  A dataset's response buffer is *)
(* the concatenation of its parts, and a transfer writes what it receives  *)
(* at its curr_buf_ptr, followed by a '\0' (the write callback).           *)
(*                                                                         *)
(* libcurl and the servers are the environment: one call of curl_multi_    *)
(* perform lets every handle in the multi handle stay idle, receive a      *)
(* chunk, or end with an answer.  A loop that has given up (FUNC_GOTO_     *)
(* ERROR returns from the function) has result "FAIL".                     *)
(***************************************************************************)
EXTENDS Integers, Sequences, FiniteSets

CONSTANTS Settings,     \* what a read may be: see CurlAssumption
          ChunkNum,     \* how many chunks a part arrives in
          BackoffInitialDuration, BackoffMaxBeforeFail,   \* same unit
          RandSteps     \* rand()/RAND_MAX is a multiple of 1/RandSteps

\* "503"    the server denies the request;
\* "error"  the server answers with another error, or the callback fails;
\* "cut"    the connection is lost in the middle of a 200 answer;
\* "early"  every handle of a loop ends in its very first perform.
FaultKinds == {"503", "error", "cut", "early"}

ASSUME CurlAssumption ==
    /\ \A s \in Settings : /\ s.nodes \in Nat \ {0} /\ s.datasets \in Nat \ {0}
                           /\ s.faults \subseteq FaultKinds
                           /\ s.nodes > 1 => s.datasets = 1  \* see URLs_by_Myself
    /\ ChunkNum \in Nat \ {0}
    /\ BackoffInitialDuration \in Nat \ {0, 1}
    /\ BackoffMaxBeforeFail \in Nat /\ RandSteps \in Nat \ {0}

VARIABLE setting        \* of this read: it never changes
NodeNum == setting.nodes        \* ServerNodeNum: the number of loops
Count   == setting.datasets     \* the number of datasets of the read
Faults  == setting.faults       \* what may go wrong

Loops    == 0..(NodeNum - 1)
Datasets == 0..(Count - 1)
Handles  == 0..(Count * NodeNum - 1)
Dataset(h) == h \div NodeNum
Loop(h)    == h % NodeNum
HandleOf(l, d) == d * NodeNum + l
NoHandle == -1

\* Faulty variant: the parts overlap.
PartOverlaps(h) == Loop(h) * (ChunkNum - 1)

PartOf(h)  == Loop(h) * ChunkNum            \* resp_buffer.buffer of the part
BufferSize == NodeNum * ChunkNum            \* what calloc returned
Cells      == 0..(BufferSize + ChunkNum)    \* and a little of what follows

VARIABLES
    pc, result,                \* of each loop
    num_prev_running, num_still_running,
    failed_handles_to_retry,   \* of each loop, calloc'ed with Count entries
    outOfBounds,               \* history: an index beyond Count was used
    easy,         \* state of each easy handle: see EasyStates
    code,         \* the HTTP status of its last answer
    received,     \* how many chunks of the current answer have arrived
    curr_buf_ptr, current_backoff_duration,     \* transfer_info
    memory,       \* the response buffer of each dataset
    handed        \* what the caller's buffer was filled with

loopVars == <<pc, result, num_prev_running, num_still_running>>
cmVars == <<pc, result, num_prev_running, num_still_running,
            failed_handles_to_retry, outOfBounds, easy, code, received,
            curr_buf_ptr, current_backoff_duration, memory, handed>>

\* "active"  in the multi handle;  "message" ended, its CURLMSG_DONE unread;
\* "denied"  removed from the multi handle after a 503;
\* "failed"  its error was read;   "cleaned" succeeded and cleaned up.
EasyStates == {"active", "message", "denied", "failed", "cleaned"}

\* A cell holds a chunk of the answer to a handle, the '\0' the write
\* callback appends, a piece of an error page, or calloc's zeroes.
Values == (Handles \X (1..ChunkNum)) \cup {<<"nul">>, <<"page">>, <<"zero">>}
Nothing == <<>>

CMTypeOK ==
    /\ setting \in Settings
    /\ pc \in [Loops -> {"perform", "read", "retry", "done"}]
    /\ result \in [Loops -> {"SUCCEED", "FAIL"}]
    /\ num_prev_running \in [Loops -> 0..Count]
    /\ num_still_running \in [Loops -> 0..Count]
    /\ failed_handles_to_retry \in [Loops -> [Datasets -> Handles \cup {NoHandle}]]
    /\ outOfBounds \in BOOLEAN
    /\ easy \in [Handles -> EasyStates]
    /\ code \in [Handles -> {0, 200, 503, 500}]
    /\ received \in [Handles -> 0..ChunkNum]
    /\ curr_buf_ptr \in [Handles -> Cells]
    /\ current_backoff_duration \in [Handles -> Nat]
    /\ memory \in [Datasets -> [Cells -> Values]]
    /\ handed \in [Datasets -> [0..(BufferSize - 1) -> Values] \cup {Nothing}]

\* The handles have been added to their multi handles by RV_dataset_read.
CMInit ==
    /\ setting \in Settings
    /\ pc = [l \in Loops |-> "perform"]
    /\ result = [l \in Loops |-> "SUCCEED"]
    /\ num_prev_running = [l \in Loops |-> 0]
    /\ num_still_running = [l \in Loops |-> 0]
    /\ failed_handles_to_retry = [l \in Loops |-> [i \in Datasets |-> NoHandle]]
    /\ outOfBounds = FALSE
    /\ easy = [h \in Handles |-> "active"]
    /\ code = [h \in Handles |-> 0]
    /\ received = [h \in Handles |-> 0]
    /\ curr_buf_ptr = [h \in Handles |-> PartOf(h)]
    /\ current_backoff_duration = [h \in Handles |-> 0]
    /\ memory = [d \in Datasets |-> [c \in Cells |-> <<"zero">>]]
    /\ handed = [d \in Datasets |-> Nothing]

(***************************************************************************)
(* H5_rest_curl_write_data_callback_no_global: copy the data to            *)
(* curr_buf_ptr, advance it, and store a '\0' where it points now.         *)
(***************************************************************************)
write_data(mem, ptr, data) ==
    [c \in Cells |-> IF c \in ptr..(ptr + Len(data) - 1) THEN data[c - ptr + 1]
                     ELSE IF c = ptr + Len(data) THEN <<"nul">>
                     ELSE mem[c]]

\* Chunks from+1 .. to of the answer to h.
Chunks(h, from, to) == [i \in 1..(to - from) |-> <<h, from + i>>]

(***************************************************************************)
(* curl_multi_perform on the multi handle of loop l                        *)
(***************************************************************************)
Events == {"idle", "chunk", "200"} \cup (Faults \ {"early"})

\* An answer other than 200 is decided by the status line; a 200 can only
\* be cut off while something is missing.
Possible(h, e) == /\ e = "chunk" => received[h] < ChunkNum - 1
                  /\ e = "cut" => received[h] < ChunkNum
                  /\ e \in {"503", "error"} => received[h] = 0

\* What the write callback is given when e happens to h.
Data(h, e) == CASE e = "chunk" -> Chunks(h, received[h], received[h] + 1)
                [] e = "200" -> Chunks(h, received[h], ChunkNum)
                [] e \in {"503", "error"} -> <<<<"page">>>>
                [] OTHER -> <<>>

StatusOf(e) == CASE e = "503" -> 503 [] e = "error" -> 500 [] OTHER -> 200

ActiveOf(l) == {h \in Handles : Loop(h) = l /\ easy[h] = "active"}

\* The pointer stays inside the modelled memory.
Advance(ptr, n) == IF ptr + n \in Cells THEN ptr + n ELSE BufferSize + ChunkNum

Perform(l) ==
    /\ pc[l] = "perform"
    /\ \E ev \in [ActiveOf(l) -> Events] :
         LET ends == {h \in ActiveOf(l) : ev[h] \notin {"idle", "chunk"}}
             gets == {h \in ActiveOf(l) : Data(h, ev[h]) # <<>>}
             left == Cardinality(ActiveOf(l) \ ends)
         IN  /\ \A h \in ActiveOf(l) : Possible(h, ev[h])
             \* Ending everything in the first call takes an immediate failure.
             /\ (num_prev_running[l] = 0 /\ left = 0) => "early" \in Faults
             /\ num_still_running' = [num_still_running EXCEPT ![l] = left]
             /\ easy' = [h \in Handles |-> IF h \in ends THEN "message" ELSE easy[h]]
             /\ code' = [h \in Handles |->
                           IF h \in ends THEN StatusOf(ev[h]) ELSE code[h]]
             /\ received' = [h \in Handles |->
                               IF h \notin gets THEN received[h]
                               ELSE CASE ev[h] = "chunk" -> received[h] + 1
                                      [] ev[h] = "200" -> ChunkNum
                                      [] OTHER -> received[h]]
             /\ curr_buf_ptr' =
                  [h \in Handles |-> IF h \in gets
                                     THEN Advance(curr_buf_ptr[h], Len(Data(h, ev[h])))
                                     ELSE curr_buf_ptr[h]]
             /\ memory' =
                  [d \in Datasets |->
                     LET h == HandleOf(l, d)
                     IN  IF h \in gets
                         THEN write_data(memory[d], curr_buf_ptr[h], Data(h, ev[h]))
                         ELSE memory[d]]
    /\ pc' = [pc EXCEPT ![l] = "read"]
    /\ UNCHANGED <<result, num_prev_running, failed_handles_to_retry,
                   outOfBounds, current_backoff_duration, handed>>

(***************************************************************************)
(* The messages of loop l, read only when the number of running handles    *)
(* has changed.                                                            *)
(***************************************************************************)
MessagesOf(l) == {h \in Handles : Loop(h) = l /\ easy[h] = "message"}

ReadsMessages(l) == num_prev_running[l] # num_still_running[l]

\* RV_get_index_of_matching_handle(transfer_info, count, handle): only the
\* first count entries are searched, and count + 1 stands for "not found".
\* (SERVER_NUM = 1: the pointer of a cleaned handle is NULL, but a message
\* never comes from a cleaned handle.)
IndexOfHandle(h) == IF h < Count THEN h ELSE Count + 1

\* Faulty variant: the delay never grows.
BackoffConstant(b, k) ==
    BackoffInitialDuration + (BackoffInitialDuration * k) \div RandSteps

\* How long to wait before the next attempt: doubled at most by chance.
Backoff(b, k) ==
    LET base == IF b = 0 THEN BackoffInitialDuration ELSE (b * 3) \div 2
    IN  base + (base * k) \div RandSteps

\* Faulty variant: ret_value is not set.
GivesUpQuietly(l) == /\ pc' = [pc EXCEPT ![l] = "done"]
                     /\ UNCHANGED <<result, num_prev_running, num_still_running>>

\* FUNC_GOTO_ERROR: return FAIL.
GivesUp(l) == /\ pc' = [pc EXCEPT ![l] = "done"]
              /\ result' = [result EXCEPT ![l] = "FAIL"]
              /\ UNCHANGED <<num_prev_running, num_still_running>>

\* Faulty variant: the write position is not rewound.
Denied503NoRewind(l, h) ==
    /\ pc[l] = "read" /\ ReadsMessages(l)
    /\ h \in MessagesOf(l) /\ code[h] = 503
    /\ failed_handles_to_retry' = [failed_handles_to_retry EXCEPT ![l][h] = h]
    /\ easy' = [easy EXCEPT ![h] = "denied"]
    /\ UNCHANGED <<loopVars, outOfBounds, code, received, curr_buf_ptr,
                   current_backoff_duration, memory, handed>>

\* 503: rewind the transfer, remove the handle, remember it for a retry.
Read503(l, h) ==
    /\ pc[l] = "read" /\ ReadsMessages(l)
    /\ h \in MessagesOf(l) /\ code[h] = 503
    /\ LET i == IndexOfHandle(h)
       IN  /\ curr_buf_ptr' = [curr_buf_ptr EXCEPT ![i] = PartOf(i)]
           /\ failed_handles_to_retry' =
                [failed_handles_to_retry EXCEPT ![l][i] = h]
           /\ outOfBounds' = (outOfBounds \/ i >= Count)
           /\ \E k \in 0..RandSteps :
                LET b == Backoff(IF i \in Handles THEN current_backoff_duration[i]
                                 ELSE 0, k)
                IN  /\ current_backoff_duration' =
                         [current_backoff_duration EXCEPT ![i] = b]
                    /\ IF b >= BackoffMaxBeforeFail THEN GivesUp(l)
                       ELSE UNCHANGED loopVars
    /\ easy' = [easy EXCEPT ![h] = "denied"]
    /\ UNCHANGED <<code, received, memory, handed>>

\* 200: with one loop the data goes to the caller at once and everything
\* of the transfer is freed; with several the handle is cleaned up only.
Read200(l, h) ==
    /\ pc[l] = "read" /\ ReadsMessages(l)
    /\ h \in MessagesOf(l) /\ code[h] = 200
    /\ handed' = IF NodeNum = 1
                 THEN [handed EXCEPT ![Dataset(h)] =
                         [c \in 0..(BufferSize - 1) |-> memory[Dataset(h)][c]]]
                 ELSE handed
    /\ easy' = [easy EXCEPT ![h] = "cleaned"]
    /\ UNCHANGED <<loopVars, failed_handles_to_retry, outOfBounds, code,
                   received, curr_buf_ptr, current_backoff_duration, memory>>

\* The success callback could not convert or scatter the data.
CallbackFails(l, h) ==
    /\ pc[l] = "read" /\ ReadsMessages(l)
    /\ NodeNum = 1 /\ "error" \in Faults
    /\ h \in MessagesOf(l) /\ code[h] = 200
    /\ GivesUp(l)
    /\ easy' = [easy EXCEPT ![h] = "failed"]
    /\ UNCHANGED <<failed_handles_to_retry, outOfBounds, code, received,
                   curr_buf_ptr, current_backoff_duration, memory, handed>>

\* HANDLE_RESPONSE of any other status.
ReadError(l, h) ==
    /\ pc[l] = "read" /\ ReadsMessages(l)
    /\ h \in MessagesOf(l) /\ code[h] = 500
    /\ GivesUp(l)
    /\ easy' = [easy EXCEPT ![h] = "failed"]
    /\ UNCHANGED <<failed_handles_to_retry, outOfBounds, code, received,
                   curr_buf_ptr, current_backoff_duration, memory, handed>>

\* Faulty variant: one message per turn ("if" for "while").
ReadsOnlyOne(l) ==
    /\ pc[l] = "read"
    /\ pc' = [pc EXCEPT ![l] = "retry"]
    /\ UNCHANGED <<result, num_prev_running, num_still_running,
                   failed_handles_to_retry, outOfBounds, easy, code, received,
                   curr_buf_ptr, current_backoff_duration, memory, handed>>

ReadsNoMore(l) ==
    /\ pc[l] = "read"
    /\ ~ ReadsMessages(l) \/ MessagesOf(l) = {}
    /\ pc' = [pc EXCEPT ![l] = "retry"]
    /\ UNCHANGED <<result, num_prev_running, num_still_running,
                   failed_handles_to_retry, outOfBounds, easy, code, received,
                   curr_buf_ptr, current_backoff_duration, memory, handed>>

(***************************************************************************)
(* The end of a turn: handles whose backoff has elapsed go back into the   *)
(* multi handle, and the loop goes on while libcurl said handles run.      *)
(***************************************************************************)
Waiting(l) == {i \in Datasets : failed_handles_to_retry[l][i] # NoHandle}

\* Faulty variant: the table entry is not cleared.
PutBackKeepsEntry(l, elapsed) ==
    LET again == {failed_handles_to_retry[l][i] : i \in elapsed}
    IN  /\ easy' = [h \in Handles |-> IF h \in again THEN "active" ELSE easy[h]]
        /\ received' = [h \in Handles |-> IF h \in again THEN 0 ELSE received[h]]
        /\ UNCHANGED failed_handles_to_retry

PutBackAll(l, elapsed) ==
    LET again == {failed_handles_to_retry[l][i] : i \in elapsed}
    IN  /\ easy' = [h \in Handles |-> IF h \in again THEN "active" ELSE easy[h]]
        /\ received' = [h \in Handles |-> IF h \in again THEN 0 ELSE received[h]]
        /\ failed_handles_to_retry' =
             [failed_handles_to_retry EXCEPT
                ![l] = [i \in Datasets |-> IF i \in elapsed THEN NoHandle ELSE @[i]]]

\* Faulty variant: the running handles are added up over the turns.
RetryAccumulates(l) ==
    /\ pc[l] = "retry"
    /\ \E elapsed \in SUBSET Waiting(l) : PutBackAll(l, elapsed)
    /\ num_prev_running' = [num_prev_running EXCEPT ![l] = @ + num_still_running[l]]
    /\ pc' = [pc EXCEPT ![l] = IF num_still_running[l] > 0 THEN "perform" ELSE "done"]
    /\ UNCHANGED <<result, num_still_running, outOfBounds, code, curr_buf_ptr,
                   current_backoff_duration, memory, handed>>

Retry(l) ==
    /\ pc[l] = "retry"
    /\ \E elapsed \in SUBSET Waiting(l) : PutBackAll(l, elapsed)
    /\ num_prev_running' = [num_prev_running EXCEPT ![l] = num_still_running[l]]
    /\ pc' = [pc EXCEPT ![l] = IF num_still_running[l] > 0 THEN "perform" ELSE "done"]
    /\ UNCHANGED <<result, num_still_running, outOfBounds, code, curr_buf_ptr,
                   current_backoff_duration, memory, handed>>

(***************************************************************************)
(* RV_dataset_read with several nodes merges when all the loops have ended *)
(* normally: a loop that failed is never counted (ParallelRead).           *)
(***************************************************************************)
Merge == /\ NodeNum > 1 /\ handed[0] = Nothing
         /\ \A l \in Loops : pc[l] = "done" /\ result[l] = "SUCCEED"
         /\ handed' = [handed EXCEPT ![0] =
                         [c \in 0..(BufferSize - 1) |-> memory[0][c]]]
         /\ UNCHANGED <<loopVars, failed_handles_to_retry, outOfBounds, easy,
                        code, received, curr_buf_ptr,
                        current_backoff_duration, memory>>

Finished == /\ \A l \in Loops : pc[l] = "done"
            /\ UNCHANGED cmVars

ReadStep(l) == \/ \E h \in MessagesOf(l) : \/ Read503(l, h) \/ Read200(l, h)
                                           \/ CallbackFails(l, h)
                                           \/ ReadError(l, h)
               \/ ReadsNoMore(l)

CMNext == \/ \E l \in Loops : Perform(l) \/ ReadStep(l) \/ Retry(l)
          \/ Merge
          \/ Finished

CMSpec == CMInit /\ [][CMNext /\ UNCHANGED setting]_<<cmVars, setting>>

\* Answers arrive and backoffs elapse: a handle that is performed again and
\* again ends, a handle that waits for its retry is put back, if only the
\* loop keeps turning.  Nothing is assumed of what the answer is.
Ends(l, h) == Perform(l) /\ easy[h] = "active" /\ easy'[h] = "message"
PutBack(l, h) == Retry(l) /\ easy[h] = "denied" /\ easy'[h] = "active"

AnyLoop   == UNION {0..(s.nodes - 1) : s \in Settings}
AnyHandle == UNION {0..(s.nodes * s.datasets - 1) : s \in Settings}

CMFairness ==
    /\ \A l \in AnyLoop :
          WF_cmVars(l \in Loops /\ (Perform(l) \/ ReadStep(l) \/ Retry(l)))
    /\ \A h \in AnyHandle : /\ SF_cmVars(h \in Handles /\ Ends(Loop(h), h))
                            /\ SF_cmVars(h \in Handles /\ PutBack(Loop(h), h))

CMFairSpec == CMSpec /\ CMFairness

(***************************************************************************)
(* Properties                                                              *)
(***************************************************************************)

\* What the caller asked for: every chunk of every part in its place.
Expected(d) == [c \in 0..(BufferSize - 1) |->
                  <<HandleOf(c \div ChunkNum, d), (c % ChunkNum) + 1>>]

\* With one loop, the data given to the caller is what the servers sent,
\* whatever denials and retries, in whatever order, came before it: every
\* chunk that has arrived is in its place.  (A transfer that was cut off is
\* handed over as well, with what is missing left as it was.)
HandedOverIntact ==
    NodeNum = 1 => \A h \in Handles : handed[Dataset(h)] # Nothing =>
      \A c \in PartOf(h)..(PartOf(h) + received[h] - 1) :
        handed[Dataset(h)][c] = Expected(Dataset(h))[c]

\* The table of denied handles is indexed by transfer, and a denied handle
\* is in it until it is put back: this is what "identify the handle by its
\* original index" needs to be true of.
RetryTableSound ==
    \A l \in Loops :
      /\ \A i \in Datasets : failed_handles_to_retry[l][i] # NoHandle =>
           /\ failed_handles_to_retry[l][i] = HandleOf(l, i)
           /\ easy[HandleOf(l, i)] = "denied"
      /\ \A h \in Handles : Loop(h) = l /\ easy[h] = "denied" =>
           failed_handles_to_retry[l][Dataset(h)] = h
      /\ ~ outOfBounds

\* Messages are only read when the number of running handles has changed.
\* Still, no answer is left unread when the loop reports success: a handle
\* that ends while another is put back cannot hide.  The one exception is a
\* loop whose handles all ended in its very first perform, which reads none
\* of them.
NoAnswerUnread == \A l \in Loops : pc[l] = "done" /\ result[l] = "SUCCEED" =>
                    MessagesOf(l) \in {{}, {h \in Handles : Loop(h) = l}}

\* Denials do not keep a loop turning for ever: the backoff grows until the
\* loop gives up.
LoopsEnd == <>(\A l \in Loops : pc[l] = "done")

\* With several nodes, what a transfer can do to its neighbours' parts is
\* confined to the first cell of the next part.
MergeDamageIsBounded ==
    NodeNum > 1 => \A d \in Datasets : handed[d] # Nothing =>
      \A c \in 0..(BufferSize - 1) :
        \/ handed[d][c] = Expected(d)[c]
        \/ c % ChunkNum = 0 /\ c > 0 /\ handed[d][c] = <<"nul">>

\* A request the server denied is sent again: when the loop succeeds, no
\* handle is left denied or merely put back.
DeniedIsRetried == \A l \in Loops : pc[l] = "done" /\ result[l] = "SUCCEED" =>
                     \A h \in Handles : Loop(h) = l =>
                       ~ (code[h] = 503 /\ easy[h] \in {"denied", "active"})

\* An error answer makes the loop fail, whatever other handles of the loop
\* do meanwhile; only one that was never read (NoAnswerUnread) does not.
FailureIsReported == \A l \in Loops : pc[l] = "done" /\ result[l] = "SUCCEED" =>
                       \A h \in Handles : Loop(h) = l /\ code[h] = 500
                                             => easy[h] = "message"
=============================================================================
