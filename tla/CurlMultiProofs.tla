-------------------------- MODULE CurlMultiProofs --------------------------
(***************************************************************************)
(* Proofs about the transfer loops (module CurlMulti), for every number of *)
(* nodes, datasets and chunks and every combination of faults: no answer   *)
(* is left unread, a failure is reported, denied handles are found again   *)
(* and what the caller is handed is what the servers sent.                 *)
(*                                                                         *)
(* The last two are not true of several loops whose servers deny requests  *)
(* (IndexOfHandle leaves the table): the theorems say so.                  *)
(***************************************************************************)
EXTENDS CurlMulti, FiniteSetTheorems, SequenceTheorems, TLAPS

\* What the code's table of denied handles was written for: one loop, or
\* servers that deny nothing.
DenialsFit == NodeNum = 1 \/ "503" \notin Faults

HandlesOf(l) == {h \in Handles : Loop(h) = l}

(***************************************************************************)
(* The inductive invariant                                                 *)
(***************************************************************************)

\* An entry of the table names a denied handle of its loop and dataset.
TableInv == \A l \in Loops : \A i \in Datasets :
              failed_handles_to_retry[l][i] # NoHandle =>
                /\ failed_handles_to_retry[l][i] = HandleOf(l, i)
                /\ easy[HandleOf(l, i)] = "denied"

\* Until a loop has performed once all its handles are active; from perform
\* to the end of the turn num_still_running is the number of active handles.
\* If the two counters are both 0 the first perform ended everything;
\* otherwise the turn ends with every message read.
TurnInv(l) ==
    /\ pc[l] = "perform" /\ num_prev_running[l] = 0 => ActiveOf(l) = HandlesOf(l)
    /\ pc[l] \in {"read", "retry"} =>
         /\ num_still_running[l] = Cardinality(ActiveOf(l))
         /\ num_prev_running[l] = 0 /\ num_still_running[l] = 0 =>
              MessagesOf(l) = HandlesOf(l) /\ "early" \in Faults
    /\ pc[l] = "retry" /\ ReadsMessages(l) => MessagesOf(l) = {}

\* How a loop that reports success has ended.
DoneInv(l) ==
    pc[l] = "done" /\ result[l] = "SUCCEED" =>
      /\ MessagesOf(l) \in {{}, HandlesOf(l)}
      /\ Faults \subseteq {"error", "cut"} => MessagesOf(l) = {} /\ ActiveOf(l) = {}

\* An error that was read makes its loop fail; statuses are what the faults
\* allow.
StatusInv == /\ \A h \in Handles : result[Loop(h)] = "SUCCEED" =>
                  /\ code[h] = 500 => easy[h] = "message"
                  /\ easy[h] # "failed"
             /\ \A h \in Handles : /\ easy[h] = "denied" => "503" \in Faults
                                   /\ easy[h] = "message" => code[h] # 0
                                   /\ code[h] = 503 => "503" \in Faults
                                   /\ easy[h] = "cleaned" => code[h] = 200

LoopInv == /\ CMTypeOK /\ TableInv /\ StatusInv
           /\ \A l \in Loops : TurnInv(l) /\ DoneInv(l)

\* A denied handle is in the table, so that it can be put back.
DenialInv == /\ \A h \in Handles : easy[h] = "denied" =>
                  /\ failed_handles_to_retry[Loop(h)][Dataset(h)] = h
                  /\ curr_buf_ptr[h] = PartOf(h)
             /\ ~ outOfBounds

\* A cell is right, or the first one of a part that the part before it has
\* closed with its '\0'.
RightCell(h, v, k) == v = <<h, k + 1>> \/ (NodeNum > 1 /\ k = 0 /\ h > 0 /\ v = <<"nul">>)

\* What has been received of the current answer is in its place.
PrefixIn(h, n, mem) == \A k \in 0..(n - 1) : RightCell(h, mem[PartOf(h) + k], k)

DataInv == \A h \in Handles :
             /\ easy[h] = "active" => /\ received[h] < ChunkNum
                                      /\ curr_buf_ptr[h] = PartOf(h) + received[h]
                                      /\ PrefixIn(h, received[h], memory[Dataset(h)])
             /\ easy[h] \in {"message", "cleaned"} /\ code[h] = 200 =>
                  /\ PrefixIn(h, received[h], memory[Dataset(h)])
                  /\ "cut" \notin Faults => received[h] = ChunkNum

\* What has been handed over is not touched again.
HandedInv == /\ NodeNum = 1 => \A h \in Handles : handed[Dataset(h)] # Nothing =>
                  easy[h] = "cleaned" /\ PrefixIn(h, received[h], handed[Dataset(h)])
             /\ NodeNum > 1 /\ Faults \subseteq {"error"} /\ handed[0] # Nothing =>
                  \A h \in Handles : PrefixIn(h, ChunkNum, handed[0])

CMInv == LoopInv /\ (DenialsFit => DenialInv /\ DataInv /\ HandedInv)

(***************************************************************************)
(* How handles, loops, datasets and parts are laid out                     *)
(***************************************************************************)

\* A read has several nodes or several datasets, not both.
LEMMA Kinds == ASSUME setting \in Settings
               PROVE  /\ NodeNum \in Nat \ {0} /\ Count \in Nat \ {0}
                      /\ NodeNum = 1 \/ (NodeNum > 1 /\ Count = 1)
                      /\ Faults \subseteq FaultKinds /\ ChunkNum \in Nat \ {0}
  BY CurlAssumption DEF NodeNum, Count, Faults

\* A handle is the transfer of one loop for one dataset.
LEMMA HandleIs ==
    ASSUME setting \in Settings, NEW h \in Handles
    PROVE  /\ Loop(h) \in Loops /\ Dataset(h) \in Datasets /\ HandleOf(Loop(h), Dataset(h)) = h
           /\ h \in Nat
           /\ NodeNum = 1 => Loop(h) = 0 /\ Dataset(h) = h
           /\ NodeNum > 1 => Loop(h) = h /\ Dataset(h) = 0
  <1>1. CASE NodeNum = 1
    <2>1. h \in 0..(Count - 1) /\ h \in Nat
      BY <1>1, Kinds DEF Handles
    <2>2. h % 1 = 0 /\ h \div 1 = h
      BY <2>1
    <2> QED
      BY <1>1, <2>1, <2>2 DEF Loop, Dataset, HandleOf, Loops, Datasets
  <1>2. CASE NodeNum > 1 /\ Count = 1
    <2>1. h \in 0..(NodeNum - 1) /\ h \in Nat /\ NodeNum \in Nat
      BY <1>2, Kinds DEF Handles
    <2>2. h % NodeNum = h /\ h \div NodeNum = 0
      BY <2>1, <1>2
    <2> QED
      BY <1>2, <2>1, <2>2 DEF Loop, Dataset, HandleOf, Loops, Datasets
  <1> QED
    BY <1>1, <1>2, Kinds

LEMMA HandleOfIs ==
    ASSUME setting \in Settings, NEW l \in Loops, NEW d \in Datasets
    PROVE  HandleOf(l, d) \in Handles /\ Loop(HandleOf(l, d)) = l /\ Dataset(HandleOf(l, d)) = d
  <1>1. CASE NodeNum = 1
    <2>1. l = 0 /\ d \in 0..(Count - 1) /\ d \in Nat /\ HandleOf(l, d) = d
      BY <1>1, Kinds DEF Loops, Datasets, HandleOf
    <2>2. HandleOf(l, d) \in Handles
      BY <1>1, <2>1, Kinds DEF Handles
    <2> QED
      BY <1>1, <2>1, <2>2, HandleIs
  <1>2. CASE NodeNum > 1 /\ Count = 1
    <2>1. d = 0 /\ l \in 0..(NodeNum - 1) /\ l \in Nat
      BY <1>2, Kinds DEF Loops, Datasets
    <2>2. 0 * NodeNum = 0 /\ Count * NodeNum = NodeNum
      BY <1>2, Kinds
    <2>3. HandleOf(l, d) = l /\ l \in Handles
      BY <2>1, <2>2 DEF Handles, HandleOf
    <2> QED
      BY <1>2, <2>1, <2>3, HandleIs
  <1> QED
    BY <1>1, <1>2, Kinds

\* The handles are finitely many, Count in every loop.
LEMMA HandlesFinite ==
    ASSUME setting \in Settings, NEW l \in Loops
    PROVE  /\ IsFiniteSet(HandlesOf(l)) /\ HandlesOf(l) # {}
           /\ \A S \in SUBSET HandlesOf(l) : IsFiniteSet(S) /\ Cardinality(S) \in 0..Count
  <1> DEFINE f == [d \in Datasets |-> HandleOf(l, d)]
  <1>1. IsFiniteSet(Datasets) /\ Cardinality(Datasets) = Count
    <2>1. Count \in Nat /\ 0 \in Int /\ Count - 1 \in Int
      BY Kinds
    <2> QED
      BY <2>1, FS_Interval DEF Datasets
  <1>2. f \in Surjection(Datasets, HandlesOf(l))
    <2>1. f \in [Datasets -> HandlesOf(l)]
      BY HandleOfIs DEF HandlesOf
    <2>2. \A h \in HandlesOf(l) : \E d \in Datasets : f[d] = h
      BY HandleIs DEF HandlesOf
    <2> QED
      BY <2>1, <2>2 DEF Surjection
  <1>3. IsFiniteSet(HandlesOf(l)) /\ Cardinality(HandlesOf(l)) <= Count
    BY <1>1, <1>2, FS_Surjection
  <1>4. ASSUME NEW S \in SUBSET HandlesOf(l)
        PROVE  IsFiniteSet(S) /\ Cardinality(S) \in 0..Count
    <2>1. IsFiniteSet(S) /\ Cardinality(S) <= Cardinality(HandlesOf(l))
      BY <1>3, FS_Subset
    <2>2. Cardinality(S) \in Nat /\ Cardinality(HandlesOf(l)) \in Nat
      BY <1>3, <2>1, FS_CardinalityType
    <2> QED
      BY <1>3, <2>1, <2>2, Kinds
  <1>5. HandleOf(l, 0) \in HandlesOf(l)
    BY HandleOfIs, Kinds DEF HandlesOf, Datasets
  <1> QED
    BY <1>3, <1>4, <1>5

\* The parts of a dataset lie in its buffer, one behind the other.
LEMMA PartIs ==
    ASSUME setting \in Settings, NEW h \in Handles
    PROVE  /\ PartOf(h) \in Nat /\ PartOf(h) + ChunkNum <= BufferSize /\ BufferSize \in Nat
           /\ \A k \in 0..(ChunkNum - 1) : PartOf(h) + k \in 0..(BufferSize - 1)
           /\ \A k \in 0..(2 * ChunkNum) : PartOf(h) + k \in Cells
           /\ NodeNum = 1 => PartOf(h) = 0
           /\ NodeNum > 1 => PartOf(h) = h * ChunkNum
  <1>1. Loop(h) \in 0..(NodeNum - 1) /\ Loop(h) \in Nat /\ NodeNum \in Nat /\ ChunkNum \in Nat
    BY HandleIs, Kinds DEF Loops
  <1>2. Loop(h) * ChunkNum \in Nat /\ NodeNum * ChunkNum \in Nat
    BY <1>1
  <1>3. Loop(h) * ChunkNum + ChunkNum <= NodeNum * ChunkNum
    <2>1. (Loop(h) + 1) * ChunkNum <= NodeNum * ChunkNum
      BY <1>1
    <2> QED
      BY <1>1, <2>1
  <1>4. PartOf(h) = Loop(h) * ChunkNum /\ BufferSize = NodeNum * ChunkNum
    BY DEF PartOf, BufferSize
  <1>5. NodeNum = 1 => PartOf(h) = 0
    BY <1>1, <1>4, HandleIs
  <1>6. NodeNum > 1 => PartOf(h) = h * ChunkNum
    BY <1>4, HandleIs
  <1>7. \A k \in 0..(ChunkNum - 1) : PartOf(h) + k \in 0..(BufferSize - 1)
    BY <1>1, <1>2, <1>3, <1>4
  <1>8. \A k \in 0..(2 * ChunkNum) : PartOf(h) + k \in 0..(BufferSize + ChunkNum)
    BY <1>1, <1>2, <1>3, <1>4
  <1> QED
    BY <1>2, <1>3, <1>4, <1>5, <1>6, <1>7, <1>8 DEF Cells

\* Two parts of one dataset do not overlap, and the cell behind a part is
\* the first of the next one.
LEMMA PartsApart ==
    ASSUME setting \in Settings, NEW h \in Handles, NEW g \in Handles,
           Dataset(h) = Dataset(g), h # g
    PROVE  /\ NodeNum > 1
           /\ \/ PartOf(h) + ChunkNum <= PartOf(g)
              \/ PartOf(g) + ChunkNum <= PartOf(h)
  <1>1. NodeNum > 1
    BY HandleIs, Kinds
  <1>2. h \in Nat /\ g \in Nat /\ ChunkNum \in Nat
    BY HandleIs, Kinds
  <1>3. \A a, b \in Nat : a < b => a * ChunkNum + ChunkNum <= b * ChunkNum
    <2> TAKE a, b \in Nat
    <2> HAVE a < b
    <2>1. (a + 1) * ChunkNum <= b * ChunkNum
      BY <1>2
    <2> QED
      BY <1>2, <2>1
  <1>4. h < g \/ g < h
    BY <1>2
  <1> QED
    BY <1>1, <1>2, <1>3, <1>4, PartIs

\* A number between two multiples has the lower one's quotient.
LEMMA QuotientIs ==
    ASSUME NEW a \in Nat, NEW c \in Nat \ {0}, NEW k \in 0..(c - 1)
    PROVE  (a * c + k) \div c = a /\ (a * c + k) % c = k
  <1> DEFINE x == a * c + k
             q == x \div c
             r == x % c
  <1>1. a * c \in Nat /\ x \in Nat
    OBVIOUS
  <1>2. q \in Nat /\ r \in 0..(c - 1) /\ x = c * q + r
    BY <1>1
  <1> HIDE DEF q, r
  <1>3. ~ (q > a)
    <2> SUFFICES ASSUME q >= a + 1 PROVE FALSE
      BY <1>2
    <2>1. c * q >= c * (a + 1)
      BY <1>2
    <2>2. c * (a + 1) = a * c + c
      OBVIOUS
    <2> QED
      BY <1>1, <1>2, <2>1, <2>2
  <1>4. ~ (q < a)
    <2> SUFFICES ASSUME q + 1 <= a PROVE FALSE
      BY <1>2
    <2>1. c * (q + 1) <= c * a
      BY <1>2
    <2>2. c * (q + 1) = c * q + c /\ c * a = a * c
      BY <1>2
    <2> QED
      BY <1>1, <1>2, <2>1, <2>2
  <1>5. q = a /\ r = k
    <2>1. q = a
      BY <1>2, <1>3, <1>4
    <2>2. c * q = a * c
      BY <2>1
    <2> QED
      BY <1>1, <1>2, <2>1, <2>2
  <1> QED
    BY <1>5 DEF q, r

\* The right content of a cell is what the caller expects there.
LEMMA ExpectedIs ==
    ASSUME setting \in Settings, NEW h \in Handles, NEW k \in 0..(ChunkNum - 1)
    PROVE  Expected(Dataset(h))[PartOf(h) + k] = <<h, k + 1>>
  <1>1. PartOf(h) + k \in 0..(BufferSize - 1) /\ ChunkNum \in Nat /\ ChunkNum > 0
    BY PartIs, Kinds
  <1>2. Loop(h) \in Nat /\ PartOf(h) = Loop(h) * ChunkNum
    BY HandleIs, Kinds DEF PartOf, Loops
  <1>3. (PartOf(h) + k) \div ChunkNum = Loop(h) /\ (PartOf(h) + k) % ChunkNum = k
    BY <1>1, <1>2, QuotientIs
  <1> QED
    BY <1>1, <1>3, HandleIs DEF Expected

(***************************************************************************)
(* Steps: what stays, and what a turn of curl_multi_perform does           *)
(***************************************************************************)

\* The layout does not change during a read.
LEMMA SameSetting ==
    ASSUME setting' = setting
    PROVE  /\ NodeNum' = NodeNum /\ Count' = Count /\ Faults' = Faults
           /\ Loops' = Loops /\ Datasets' = Datasets /\ Handles' = Handles
           /\ BufferSize' = BufferSize /\ Cells' = Cells /\ Values' = Values
           /\ DenialsFit' = DenialsFit
           /\ \A h : Loop(h)' = Loop(h) /\ Dataset(h)' = Dataset(h) /\ PartOf(h)' = PartOf(h)
           /\ \A l, d : HandleOf(l, d)' = HandleOf(l, d)
           /\ \A l : HandlesOf(l)' = HandlesOf(l)
  BY DEF NodeNum, Count, Faults, Loops, Datasets, Handles, BufferSize, Cells, Values,
         DenialsFit, Loop, Dataset, PartOf, HandleOf, HandlesOf

\* What can happen to an active handle h in one turn: nothing, a chunk
\* arrives, a 200 answer ends (complete, or cut off), or a denial or an
\* error answer ends.
Unwritten(h) == /\ received'[h] = received[h] /\ curr_buf_ptr'[h] = curr_buf_ptr[h]
                /\ memory'[Dataset(h)] = memory[Dataset(h)]

Written(h, n, data) ==
    /\ received'[h] = received[h] + n
    /\ curr_buf_ptr'[h] = Advance(curr_buf_ptr[h], Len(data))
    /\ memory'[Dataset(h)] = write_data(memory[Dataset(h)], curr_buf_ptr[h], data)

Outcome(h) ==
    \/ easy'[h] = "active" /\ code'[h] = code[h] /\ Unwritten(h)
    \/ /\ easy'[h] = "active" /\ code'[h] = code[h] /\ received[h] < ChunkNum - 1
       /\ Written(h, 1, Chunks(h, received[h], received[h] + 1))
    \/ /\ easy'[h] = "message" /\ code'[h] = 200
       /\ \/ Unwritten(h) /\ (received[h] = ChunkNum \/ "cut" \in Faults)
          \/ /\ received[h] < ChunkNum
             /\ Written(h, ChunkNum - received[h], Chunks(h, received[h], ChunkNum))
    \/ /\ easy'[h] = "message" /\ received[h] = 0 /\ Written(h, 0, <<<<"page">>>>)
       /\ \/ code'[h] = 503 /\ "503" \in Faults
          \/ code'[h] = 500 /\ "error" \in Faults

\* The chunks of an answer, as a sequence.
LEMMA ChunksAre ==
    ASSUME NEW h \in Handles, NEW from \in Nat, NEW to \in Nat, from <= to
    PROVE  /\ Len(Chunks(h, from, to)) = to - from
           /\ \A i \in 1..(to - from) : Chunks(h, from, to)[i] = <<h, from + i>>
           /\ Chunks(h, from, to) = <<>> <=> from = to
  <1>1. to - from \in Nat
    OBVIOUS
  <1>2. Chunks(h, from, to) = [i \in 1..(to - from) |-> <<h, from + i>>]
    BY DEF Chunks
  <1> DEFINE S == {<<h, from + i>> : i \in 1..(to - from)}
  <1>3. Chunks(h, from, to) \in Seq(S)
    <2>1. Chunks(h, from, to) \in [1..(to - from) -> S]
      BY <1>2
    <2> HIDE DEF S
    <2> QED
      BY <1>1, <2>1, SeqDef
  <1>4. Len(Chunks(h, from, to)) = to - from
    BY <1>1, <1>2, <1>3
  <1>5. Chunks(h, from, to) = <<>> <=> from = to
    BY <1>3, <1>4, EmptySeq
  <1>6. \A i \in 1..(to - from) : Chunks(h, from, to)[i] = <<h, from + i>>
    BY <1>2
  <1> QED
    BY <1>4, <1>5, <1>6

\* One turn of curl_multi_perform, handle by handle.
Performed(l) ==
    /\ pc[l] = "perform" /\ pc' = [pc EXCEPT ![l] = "read"]
    /\ UNCHANGED <<result, num_prev_running, failed_handles_to_retry, outOfBounds,
                   current_backoff_duration, handed>>
    /\ \A h \in ActiveOf(l) : Outcome(h)
    /\ \A h \in Handles \ ActiveOf(l) :
         /\ easy'[h] = easy[h] /\ code'[h] = code[h]
         /\ received'[h] = received[h] /\ curr_buf_ptr'[h] = curr_buf_ptr[h]
    /\ \A h \in HandlesOf(l) \ ActiveOf(l) : memory'[Dataset(h)] = memory[Dataset(h)]
    /\ num_still_running' =
         [num_still_running EXCEPT
            ![l] = Cardinality({h \in ActiveOf(l) : easy'[h] = "active"})]
    /\ num_prev_running[l] = 0 /\ num_still_running'[l] = 0 => "early" \in Faults
    /\ easy' = [h \in Handles |-> easy'[h]] /\ code' = [h \in Handles |-> code'[h]]
    /\ received' = [h \in Handles |-> received'[h]]
    /\ curr_buf_ptr' = [h \in Handles |-> curr_buf_ptr'[h]]
    /\ memory' = [d \in Datasets |-> memory'[d]]

LEMMA PerformIs ==
    ASSUME CMTypeOK, setting' = setting, NEW l \in Loops, Perform(l)
    PROVE  Performed(l)
  <1> DEFINE ends(ev) == {h \in ActiveOf(l) : ev[h] \notin {"idle", "chunk"}}
             gets(ev) == {h \in ActiveOf(l) : Data(h, ev[h]) # <<>>}
  <1>1. PICK ev \in [ActiveOf(l) -> Events] :
          /\ \A h \in ActiveOf(l) : Possible(h, ev[h])
          /\ (num_prev_running[l] = 0 /\ Cardinality(ActiveOf(l) \ ends(ev)) = 0)
               => "early" \in Faults
          /\ num_still_running' = [num_still_running EXCEPT
                                     ![l] = Cardinality(ActiveOf(l) \ ends(ev))]
          /\ easy' = [h \in Handles |-> IF h \in ends(ev) THEN "message" ELSE easy[h]]
          /\ code' = [h \in Handles |-> IF h \in ends(ev) THEN StatusOf(ev[h]) ELSE code[h]]
          /\ received' = [h \in Handles |->
                            IF h \notin gets(ev) THEN received[h]
                            ELSE CASE ev[h] = "chunk" -> received[h] + 1
                                   [] ev[h] = "200" -> ChunkNum
                                   [] OTHER -> received[h]]
          /\ curr_buf_ptr' = [h \in Handles |->
                                IF h \in gets(ev)
                                THEN Advance(curr_buf_ptr[h], Len(Data(h, ev[h])))
                                ELSE curr_buf_ptr[h]]
          /\ memory' = [d \in Datasets |->
                          IF HandleOf(l, d) \in gets(ev)
                          THEN write_data(memory[d], curr_buf_ptr[HandleOf(l, d)],
                                          Data(HandleOf(l, d), ev[HandleOf(l, d)]))
                          ELSE memory[d]]
    BY DEF Perform
  <1>2. ASSUME NEW h \in HandlesOf(l)
        PROVE  memory'[Dataset(h)] =
                 IF h \in gets(ev)
                 THEN write_data(memory[Dataset(h)], curr_buf_ptr[h], Data(h, ev[h]))
                 ELSE memory[Dataset(h)]
    <2>1. Dataset(h) \in Datasets /\ HandleOf(l, Dataset(h)) = h
      BY HandleIs DEF HandlesOf, CMTypeOK
    <2> QED
      BY <1>1, <2>1
  <1>3. ActiveOf(l) \subseteq HandlesOf(l)
    BY DEF ActiveOf, HandlesOf
  <1>4. ASSUME NEW h \in ActiveOf(l) PROVE Outcome(h)
    <2> DEFINE e == ev[h]
               r == received[h]
    <2>1. h \in Handles /\ easy[h] = "active" /\ h \in HandlesOf(l)
      BY <1>3 DEF ActiveOf
    <2>2. e \in {"idle", "chunk", "200", "503", "error", "cut"} /\ Possible(h, e)
          /\ (e \in FaultKinds => e \in Faults)
      BY <1>1, Kinds DEF Events, FaultKinds, CMTypeOK
    <2>3. r \in 0..ChunkNum /\ ChunkNum \in Nat /\ r \in Nat
      BY <2>1, Kinds DEF CMTypeOK
    <2>4. h \in ends(ev) <=> e \notin {"idle", "chunk"}
      OBVIOUS
    <2>5. h \in gets(ev) <=> Data(h, e) # <<>>
      OBVIOUS
    <2>6. /\ easy'[h] = IF e \notin {"idle", "chunk"} THEN "message" ELSE "active"
          /\ code'[h] = IF e \notin {"idle", "chunk"} THEN StatusOf(e) ELSE code[h]
      BY <1>1, <2>1, <2>4
    <2>7. /\ received'[h] = IF h \notin gets(ev) THEN r
                            ELSE CASE e = "chunk" -> r + 1 [] e = "200" -> ChunkNum
                                   [] OTHER -> r
          /\ curr_buf_ptr'[h] = IF h \in gets(ev)
                                THEN Advance(curr_buf_ptr[h], Len(Data(h, e)))
                                ELSE curr_buf_ptr[h]
      BY <1>1, <2>1
    <2>8. memory'[Dataset(h)] =
            IF h \in gets(ev)
            THEN write_data(memory[Dataset(h)], curr_buf_ptr[h], Data(h, e))
            ELSE memory[Dataset(h)]
      BY <1>2, <2>1
    <2> HIDE DEF gets, ends, e, r
    <2>9. CASE e = "idle"
      <3>1. Data(h, e) = <<>>
        BY <2>9 DEF Data
      <3> QED
        BY <2>5, <2>6, <2>7, <2>8, <2>9, <3>1 DEF Outcome, Unwritten, r
    <2>10. CASE e = "cut"
      <3>1. Data(h, e) = <<>> /\ StatusOf(e) = 200 /\ "cut" \in Faults
        BY <2>2, <2>10 DEF Data, StatusOf, FaultKinds
      <3> QED
        BY <2>5, <2>6, <2>7, <2>8, <2>10, <3>1 DEF Outcome, Unwritten, r
    <2>11. CASE e = "chunk"
      <3>1. Data(h, e) = Chunks(h, r, r + 1) /\ r < ChunkNum - 1
        BY <2>2, <2>11 DEF Data, Possible, r
      <3>2. Data(h, e) # <<>>
        BY <2>1, <2>3, <3>1, ChunksAre
      <3> QED
        BY <2>5, <2>6, <2>7, <2>8, <2>11, <3>1, <3>2 DEF Outcome, Written, r
    <2>12. CASE e = "200"
      <3>1. Data(h, e) = Chunks(h, r, ChunkNum) /\ StatusOf(e) = 200
        BY <2>12 DEF Data, StatusOf, r
      <3>2. Data(h, e) = <<>> <=> r = ChunkNum
        <4>1. r \in Nat /\ ChunkNum \in Nat /\ r <= ChunkNum
          BY <2>3
        <4>2. Chunks(h, r, ChunkNum) = <<>> <=> r = ChunkNum
          BY <2>1, <4>1, ChunksAre
        <4> QED
          BY <3>1, <4>2
      <3>3. r # ChunkNum => r < ChunkNum /\ ChunkNum = r + (ChunkNum - r)
        BY <2>3
      <3> QED
        BY <2>5, <2>6, <2>7, <2>8, <2>12, <3>1, <3>2, <3>3
           DEF Outcome, Written, Unwritten, r
    <2>13. CASE e \in {"503", "error"}
      <3>1. /\ Data(h, e) = <<<<"page">>>> /\ r = 0 /\ r + 0 = r
            /\ StatusOf(e) = IF e = "503" THEN 503 ELSE 500
            /\ e \in Faults
        BY <2>2, <2>13 DEF Data, StatusOf, Possible, FaultKinds, r
      <3>2. Data(h, e) # <<>>
        BY <3>1
      <3> QED
        BY <2>5, <2>6, <2>7, <2>8, <2>13, <3>1, <3>2 DEF Outcome, Written, r
    <2> QED
      BY <2>2, <2>9, <2>10, <2>11, <2>12, <2>13
  <1>5. ActiveOf(l) \ ends(ev) = {h \in ActiveOf(l) : easy'[h] = "active"}
    BY <1>1 DEF ActiveOf
  <1>6. l \in DOMAIN num_still_running
    BY DEF CMTypeOK
  <1>7. \A h \in Handles \ ActiveOf(l) : h \notin ends(ev) /\ h \notin gets(ev)
    OBVIOUS
  <1> HIDE DEF gets, ends
  <1>8. \A h \in Handles \ ActiveOf(l) :
          easy'[h] = easy[h] /\ code'[h] = code[h] /\ received'[h] = received[h]
            /\ curr_buf_ptr'[h] = curr_buf_ptr[h]
    BY <1>1, <1>7
  <1>9. \A h \in HandlesOf(l) \ ActiveOf(l) : memory'[Dataset(h)] = memory[Dataset(h)]
    BY <1>2, <1>7 DEF HandlesOf
  <1>10. /\ num_still_running' = [num_still_running EXCEPT
                                    ![l] = Cardinality({h \in ActiveOf(l) : easy'[h] = "active"})]
         /\ num_prev_running[l] = 0 /\ num_still_running'[l] = 0 => "early" \in Faults
    BY <1>1, <1>5, <1>6
  <1>11. /\ easy' = [h \in Handles |-> easy'[h]] /\ code' = [h \in Handles |-> code'[h]]
         /\ received' = [h \in Handles |-> received'[h]]
         /\ curr_buf_ptr' = [h \in Handles |-> curr_buf_ptr'[h]]
         /\ memory' = [d \in Datasets |-> memory'[d]]
    <2>1. \A S, f, e : f = [x \in S |-> e[x]] => f = [x \in S |-> f[x]]
      OBVIOUS
    <2>2. easy' = [h \in Handles |-> easy'[h]]
      BY <1>1
    <2>3. code' = [h \in Handles |-> code'[h]]
      BY <1>1
    <2>4. received' = [h \in Handles |-> received'[h]]
      BY <1>1
    <2>5. curr_buf_ptr' = [h \in Handles |-> curr_buf_ptr'[h]]
      BY <1>1
    <2>6. memory' = [d \in Datasets |-> memory'[d]]
      BY <1>1
    <2> QED
      BY <2>2, <2>3, <2>4, <2>5, <2>6
  <1>12. /\ pc[l] = "perform" /\ pc' = [pc EXCEPT ![l] = "read"]
         /\ UNCHANGED <<result, num_prev_running, failed_handles_to_retry,
                        outOfBounds, current_backoff_duration, handed>>
    BY DEF Perform
  <1> QED
    BY <1>4, <1>8, <1>9, <1>10, <1>11, <1>12 DEF Performed

\* A loop that no step touches is where it was.
LEMMA OtherLoop ==
    ASSUME setting' = setting, NEW m \in Loops, TurnInv(m), DoneInv(m),
           pc'[m] = pc[m], result'[m] = result[m],
           num_prev_running'[m] = num_prev_running[m],
           num_still_running'[m] = num_still_running[m],
           \A h \in HandlesOf(m) : easy'[h] = easy[h]
    PROVE  TurnInv(m)' /\ DoneInv(m)'
  <1>1. /\ ActiveOf(m)' = {h \in Handles : Loop(h) = m /\ easy'[h] = "active"}
        /\ MessagesOf(m)' = {h \in Handles : Loop(h) = m /\ easy'[h] = "message"}
    BY SameSetting DEF ActiveOf, MessagesOf
  <1>2. ActiveOf(m)' = ActiveOf(m) /\ MessagesOf(m)' = MessagesOf(m)
    BY <1>1 DEF ActiveOf, MessagesOf, HandlesOf
  <1>3. HandlesOf(m)' = HandlesOf(m) /\ Faults' = Faults
    BY SameSetting
  <1>4. ReadsMessages(m)' <=> ReadsMessages(m)
    BY DEF ReadsMessages
  <1> QED
    BY <1>2, <1>3, <1>4 DEF TurnInv, DoneInv

\* What the write callback leaves in memory.
LEMMA WriteIs ==
    ASSUME NEW mem, NEW ptr, NEW data, NEW n, Len(data) = n
    PROVE  \A c \in Cells : write_data(mem, ptr, data)[c] =
             IF c \in ptr..(ptr + n - 1) THEN data[c - ptr + 1]
             ELSE IF c = ptr + n THEN <<"nul">> ELSE mem[c]
  BY DEF write_data

LEMMA PerformType ==
    ASSUME CMTypeOK, setting' = setting, NEW l \in Loops, Perform(l)
    PROVE  CMTypeOK'
  <1>p. Performed(l)
    BY PerformIs
  <1>0. setting \in Settings /\ ChunkNum \in Nat /\ BufferSize + ChunkNum \in Nat
    <2>1. \A h \in Handles : BufferSize \in Nat
      BY PartIs DEF CMTypeOK
    <2>2. HandlesOf(l) # {}
      BY HandlesFinite DEF CMTypeOK
    <2> QED
      BY <2>1, <2>2, Kinds DEF CMTypeOK, HandlesOf
  <1>1. \A ptr \in Cells : \A n \in Nat : Advance(ptr, n) \in Cells
    BY <1>0 DEF Advance, Cells
  <1>2. ASSUME NEW mem \in [Cells -> Values], NEW ptr \in Cells, NEW data, NEW n \in Nat,
               Len(data) = n, \A i \in 1..n : data[i] \in Values
        PROVE  write_data(mem, ptr, data) \in [Cells -> Values]
    <2>1. ASSUME NEW c \in Cells PROVE write_data(mem, ptr, data)[c] \in Values
      <3>1. c \in ptr..(ptr + n - 1) => c - ptr + 1 \in 1..n
        BY <1>0 DEF Cells
      <3>2. <<"nul">> \in Values /\ mem[c] \in Values
        BY <1>2 DEF Values
      <3>3. c \in ptr..(ptr + n - 1) => data[c - ptr + 1] \in Values
        BY <1>2, <3>1
      <3>4. write_data(mem, ptr, data)[c] =
               IF c \in ptr..(ptr + n - 1) THEN data[c - ptr + 1]
               ELSE IF c = ptr + n THEN <<"nul">> ELSE mem[c]
        <4>1. Len(data) = n
          BY <1>2
        <4> QED
          BY <4>1 DEF write_data
      <3> HIDE DEF Values
      <3> QED
        BY <3>2, <3>3, <3>4
    <2>2. write_data(mem, ptr, data) = [c \in Cells |-> write_data(mem, ptr, data)[c]]
      BY DEF write_data
    <2> QED
      BY <2>1, <2>2
  <1>3. ASSUME NEW h \in ActiveOf(l)
        PROVE  /\ easy'[h] \in EasyStates /\ code'[h] \in {0, 200, 503, 500}
               /\ received'[h] \in 0..ChunkNum /\ curr_buf_ptr'[h] \in Cells
               /\ memory'[Dataset(h)] \in [Cells -> Values]
    <2>0. /\ h \in Handles /\ Dataset(h) \in Datasets /\ Outcome(h)
          /\ memory[Dataset(h)] \in [Cells -> Values]
          /\ received[h] \in 0..ChunkNum /\ curr_buf_ptr[h] \in Cells
      BY <1>p, HandleIs DEF ActiveOf, CMTypeOK, Performed
    <2>1. easy'[h] \in EasyStates /\ code'[h] \in {0, 200, 503, 500}
      BY <2>0 DEF Outcome, EasyStates, CMTypeOK
    <2>2. received'[h] \in 0..ChunkNum
      BY <1>0, <2>0 DEF Outcome, Written, Unwritten
    <2>3. ASSUME NEW data, NEW n \in Nat, Len(data) = n, \A i \in 1..n : data[i] \in Values,
                 NEW k, Written(h, k, data)
          PROVE  curr_buf_ptr'[h] \in Cells /\ memory'[Dataset(h)] \in [Cells -> Values]
      BY <1>1, <1>2, <2>0, <2>3 DEF Written
    <2>4. ASSUME NEW to \in 0..ChunkNum, received[h] <= to,
                 NEW k, Written(h, k, Chunks(h, received[h], to))
          PROVE  curr_buf_ptr'[h] \in Cells /\ memory'[Dataset(h)] \in [Cells -> Values]
      <3>1. to \in Nat /\ received[h] \in Nat /\ to - received[h] \in Nat
        BY <1>0, <2>0, <2>4
      <3>2. /\ Len(Chunks(h, received[h], to)) = to - received[h]
            /\ \A i \in 1..(to - received[h]) :
                 Chunks(h, received[h], to)[i] = <<h, received[h] + i>>
        <4> DEFINE r == received[h]
        <4>1. h \in Handles /\ r \in Nat /\ r <= to
          BY <2>0, <2>4, <3>1
        <4> HIDE DEF r
        <4>2. Len(Chunks(h, r, to)) = to - r
          BY <3>1, <4>1, ChunksAre
        <4>3. \A i \in 1..(to - r) : Chunks(h, r, to)[i] = <<h, r + i>>
          BY DEF Chunks
        <4> QED
          BY <4>2, <4>3 DEF r
      <3>3. \A i \in 1..(to - received[h]) : received[h] + i \in 1..ChunkNum
        BY <1>0, <3>1
      <3>4. ASSUME NEW i \in 1..(to - received[h])
            PROVE  Chunks(h, received[h], to)[i] \in Values
        <4>1. h \in Handles /\ received[h] + i \in 1..ChunkNum
          BY <2>0, <3>3
        <4>2. <<h, received[h] + i>> \in Handles \X (1..ChunkNum)
          BY <4>1
        <4> QED
          BY <3>2, <4>2 DEF Values
      <3> QED
        BY <2>3, <2>4, <3>1, <3>2, <3>4
    <2>5. ASSUME Written(h, 0, <<<<"page">>>>)
          PROVE  curr_buf_ptr'[h] \in Cells /\ memory'[Dataset(h)] \in [Cells -> Values]
      <3>1. Len(<<<<"page">>>>) = 1 /\ \A i \in 1..1 : <<<<"page">>>>[i] \in Values
        BY DEF Values
      <3> QED
        BY <2>3, <2>5, <3>1
    <2>6. CASE Unwritten(h)
      <3>1. curr_buf_ptr'[h] = curr_buf_ptr[h] /\ memory'[Dataset(h)] = memory[Dataset(h)]
        BY <2>6 DEF Unwritten
      <3> QED
        BY <2>0, <2>1, <2>2, <3>1
    <2>7. CASE received[h] < ChunkNum - 1
               /\ Written(h, 1, Chunks(h, received[h], received[h] + 1))
      <3>1. received[h] + 1 \in 0..ChunkNum /\ received[h] <= received[h] + 1
        BY <1>0, <2>0, <2>7
      <3> QED
        BY <2>1, <2>2, <2>4, <2>7, <3>1
    <2>8. CASE Written(h, ChunkNum - received[h], Chunks(h, received[h], ChunkNum))
      <3>1. ChunkNum \in 0..ChunkNum /\ received[h] <= ChunkNum
        BY <1>0, <2>0
      <3> QED
        BY <2>1, <2>2, <2>4, <2>8, <3>1
    <2> QED
      BY <2>0, <2>1, <2>2, <2>5, <2>6, <2>7, <2>8 DEF Outcome
  <1>4. ASSUME NEW d \in Datasets PROVE memory'[d] \in [Cells -> Values]
    <2>1. HandleOf(l, d) \in HandlesOf(l) /\ Dataset(HandleOf(l, d)) = d
      BY <1>0, HandleOfIs DEF HandlesOf
    <2> QED
      <3>1. CASE HandleOf(l, d) \in ActiveOf(l)
        BY <1>3, <2>1, <3>1
      <3>2. CASE HandleOf(l, d) \notin ActiveOf(l)
        <4>1. memory'[d] = memory[d]
          BY <1>p, <2>1, <3>2 DEF Performed
        <4> QED
          BY <4>1 DEF CMTypeOK
      <3> QED
        BY <3>1, <3>2
  <1>5. num_still_running' \in [Loops -> 0..Count]
    <2>1. {h \in ActiveOf(l) : easy'[h] = "active"} \in SUBSET HandlesOf(l)
      BY DEF ActiveOf, HandlesOf
    <2>2. Cardinality({h \in ActiveOf(l) : easy'[h] = "active"}) \in 0..Count
      BY <1>0, <2>1, HandlesFinite
    <2> QED
      BY <1>p, <2>2 DEF CMTypeOK, Performed
  <1>6. /\ easy' \in [Handles -> EasyStates] /\ code' \in [Handles -> {0, 200, 503, 500}]
        /\ received' \in [Handles -> 0..ChunkNum] /\ curr_buf_ptr' \in [Handles -> Cells]
    BY <1>p, <1>3 DEF CMTypeOK, Performed
  <1>7. memory' \in [Datasets -> [Cells -> Values]]
    BY <1>p, <1>4 DEF Performed
  <1>8. pc' \in [Loops -> {"perform", "read", "retry", "done"}]
    BY <1>p DEF CMTypeOK, Performed
  <1> QED
    BY <1>p, <1>5, <1>6, <1>7, <1>8, SameSetting DEF CMTypeOK, Performed

\* A turn keeps the invariant of the loops.
LEMMA PerformLoop ==
    ASSUME LoopInv, setting' = setting, NEW l \in Loops, Perform(l)
    PROVE  LoopInv'
  <1>t. CMTypeOK /\ setting \in Settings
    BY DEF LoopInv, CMTypeOK
  <1>p. Performed(l)
    BY <1>t, PerformIs
  <1>0. /\ \A h \in Handles : h \notin ActiveOf(l) => easy'[h] = easy[h] /\ code'[h] = code[h]
        /\ \A h \in ActiveOf(l) : h \in Handles /\ easy[h] = "active" /\ easy'[h] \in {"active", "message"}
    BY <1>p DEF Performed, Outcome, ActiveOf
  <1>1. CMTypeOK'
    BY <1>t, PerformType
  <1>2. TableInv'
    <2> SUFFICES ASSUME NEW m \in Loops, NEW i \in Datasets,
                        failed_handles_to_retry[m][i] # NoHandle
                 PROVE  /\ failed_handles_to_retry[m][i] = HandleOf(m, i)
                        /\ easy'[HandleOf(m, i)] = "denied"
      BY <1>p, SameSetting DEF TableInv, Performed, NoHandle
    <2>1. HandleOf(m, i) \in Handles
      BY <1>t, HandleOfIs
    <2>2. failed_handles_to_retry[m][i] = HandleOf(m, i) /\ easy[HandleOf(m, i)] = "denied"
      BY DEF LoopInv, TableInv
    <2> QED
      BY <1>0, <2>1, <2>2 DEF ActiveOf
  <1>3. StatusInv'
    <2> SUFFICES ASSUME NEW h \in Handles
                 PROVE  /\ result[Loop(h)] = "SUCCEED" =>
                             /\ code'[h] = 500 => easy'[h] = "message"
                             /\ easy'[h] # "failed"
                        /\ easy'[h] = "denied" => "503" \in Faults
                        /\ easy'[h] = "message" => code'[h] # 0
                        /\ code'[h] = 503 => "503" \in Faults
                        /\ easy'[h] = "cleaned" => code'[h] = 200
      BY <1>p, SameSetting DEF StatusInv, Performed
    <2>1. CASE h \notin ActiveOf(l)
      BY <1>0, <2>1 DEF LoopInv, StatusInv
    <2>2. CASE h \in ActiveOf(l)
      BY <1>0, <1>p, <2>2 DEF LoopInv, StatusInv, Performed, Outcome
    <2> QED
      BY <2>1, <2>2
  <1>4. ASSUME NEW m \in Loops, m # l PROVE TurnInv(m)' /\ DoneInv(m)'
    <2>1. \A h \in HandlesOf(m) : easy'[h] = easy[h]
      BY <1>0, <1>4 DEF HandlesOf, ActiveOf
    <2>2. /\ pc'[m] = pc[m] /\ result'[m] = result[m]
          /\ num_prev_running'[m] = num_prev_running[m]
          /\ num_still_running'[m] = num_still_running[m]
      BY <1>p, <1>4, <1>t DEF Performed, CMTypeOK
    <2> QED
      BY <2>1, <2>2, OtherLoop DEF LoopInv
  <1>5. TurnInv(l)' /\ DoneInv(l)'
    <2>1. pc'[l] = "read" /\ pc[l] = "perform" /\ num_prev_running'[l] = num_prev_running[l]
      BY <1>p, <1>t DEF Performed, CMTypeOK
    <2>2. ActiveOf(l)' = {h \in ActiveOf(l) : easy'[h] = "active"}
      BY <1>0, SameSetting DEF ActiveOf
    <2>3. num_still_running'[l] = Cardinality(ActiveOf(l)')
      BY <1>p, <1>t, <2>2 DEF Performed, CMTypeOK
    <2>4. ASSUME num_prev_running'[l] = 0, num_still_running'[l] = 0
          PROVE  MessagesOf(l)' = HandlesOf(l)' /\ "early" \in Faults'
      <3>1. "early" \in Faults'
        BY <1>p, <2>1, <2>4, SameSetting DEF Performed
      <3>2. ActiveOf(l) = HandlesOf(l)
        BY <2>1, <2>4 DEF LoopInv, TurnInv
      <3>3. ActiveOf(l)' = {}
        <4>1. ActiveOf(l)' \in SUBSET HandlesOf(l)
          BY <2>2, <3>2
        <4>2. IsFiniteSet(ActiveOf(l)')
          BY <1>t, <4>1, HandlesFinite
        <4> QED
          BY <2>3, <2>4, <4>2, FS_EmptySet
      <3>4. \A h \in HandlesOf(l) : easy'[h] = "message"
        BY <1>0, <2>2, <3>2, <3>3
      <3>5. MessagesOf(l)' = HandlesOf(l)
        BY <3>4, SameSetting DEF MessagesOf, HandlesOf
      <3> QED
        BY <3>1, <3>5, SameSetting
    <2>5. TurnInv(l)'
      BY <2>1, <2>3, <2>4 DEF TurnInv
    <2>6. DoneInv(l)'
      BY <2>1 DEF DoneInv
    <2> QED
      BY <2>5, <2>6
  <1>6. \A m \in Loops' : TurnInv(m)' /\ DoneInv(m)'
    BY <1>4, <1>5, SameSetting
  <1> QED
    BY <1>1, <1>2, <1>3, <1>6 DEF LoopInv

(***************************************************************************)
(* Where an answer is written                                              *)
(***************************************************************************)

\* The cells of h's dataset that something h receives can reach: the rest of
\* its own part, and the cell behind it, which gets the '\0'.
Window(h) == \A c \in Cells :
               \/ memory'[Dataset(h)][c] = memory[Dataset(h)][c]
               \/ c \in (PartOf(h) + received[h])..(PartOf(h) + ChunkNum - 1)
               \/ c = PartOf(h) + ChunkNum /\ memory'[Dataset(h)][c] = <<"nul">>

LEMMA DataWritten ==
    ASSUME setting \in Settings, NEW h \in Handles, received[h] \in 0..(ChunkNum - 1),
           curr_buf_ptr[h] = PartOf(h) + received[h],
           NEW n \in 0..ChunkNum, NEW data, NEW m \in 1..(ChunkNum - received[h]),
           Len(data) = m, Written(h, n, data)
    PROVE  /\ Window(h)
           /\ curr_buf_ptr'[h] = PartOf(h) + (received[h] + m)
           /\ \A k \in 0..(received[h] - 1) :
                memory'[Dataset(h)][PartOf(h) + k] = memory[Dataset(h)][PartOf(h) + k]
           /\ \A k \in received[h]..(received[h] + m - 1) :
                memory'[Dataset(h)][PartOf(h) + k] = data[k - received[h] + 1]
  <1> DEFINE r == received[h]
             q == PartOf(h)
  <1>1. /\ ChunkNum \in Nat /\ r \in Nat /\ r < ChunkNum /\ q \in Nat /\ m \in Nat /\ m > 0
        /\ r + m <= ChunkNum /\ curr_buf_ptr[h] = q + r
        /\ \A k \in 0..(2 * ChunkNum) : q + k \in Cells
    <2>1. ChunkNum \in Nat /\ q \in Nat /\ \A k \in 0..(2 * ChunkNum) : q + k \in Cells
      BY PartIs, Kinds
    <2>2. r \in Nat /\ r < ChunkNum /\ curr_buf_ptr[h] = q + r
      BY <2>1
    <2> HIDE DEF r, q
    <2>3. m \in Nat /\ m > 0 /\ r + m <= ChunkNum
      BY <2>1, <2>2 DEF r
    <2> QED
      BY <2>1, <2>2, <2>3
  <1>2. /\ curr_buf_ptr'[h] = Advance(q + r, m)
        /\ memory'[Dataset(h)] = write_data(memory[Dataset(h)], q + r, data)
    BY <1>1 DEF Written
  <1> HIDE DEF r, q
  <1>3. curr_buf_ptr'[h] = q + (r + m)
    <2>1. r + m \in 0..(2 * ChunkNum) /\ (q + r) + m = q + (r + m)
      BY <1>1
    <2> QED
      BY <1>1, <1>2, <2>1 DEF Advance
  <1>4. \A c \in Cells : memory'[Dataset(h)][c] =
          IF c \in (q + r)..((q + r) + m - 1) THEN data[c - (q + r) + 1]
          ELSE IF c = (q + r) + m THEN <<"nul">> ELSE memory[Dataset(h)][c]
    BY <1>2, WriteIs
  <1>5. \A k \in 0..(r - 1) : memory'[Dataset(h)][q + k] = memory[Dataset(h)][q + k]
    <2> TAKE k \in 0..(r - 1)
    <2>1. k \in 0..(2 * ChunkNum) /\ q + k \notin (q + r)..((q + r) + m - 1) /\ q + k # (q + r) + m
      BY <1>1
    <2>2. q + k \in Cells
      BY <1>1, <2>1
    <2> QED
      BY <1>4, <2>1, <2>2
  <1>6. \A k \in r..(r + m - 1) : memory'[Dataset(h)][q + k] = data[k - r + 1]
    <2> TAKE k \in r..(r + m - 1)
    <2>1. k \in 0..(2 * ChunkNum) /\ q + k \in (q + r)..((q + r) + m - 1)
          /\ (q + k) - (q + r) + 1 = k - r + 1
      BY <1>1
    <2>2. q + k \in Cells
      BY <1>1, <2>1
    <2> QED
      BY <1>4, <2>1, <2>2
  <1>7. ASSUME NEW c \in Cells
        PROVE  \/ memory'[Dataset(h)][c] = memory[Dataset(h)][c]
               \/ c \in (q + r)..(q + ChunkNum - 1)
               \/ c = q + ChunkNum /\ memory'[Dataset(h)][c] = <<"nul">>
    <2>1. c \in Int
      BY PartIs, Kinds DEF Cells
    <2>2. c \in (q + r)..((q + r) + m - 1) => c \in (q + r)..(q + ChunkNum - 1)
      BY <1>1, <2>1
    <2>3. c = (q + r) + m => c \in (q + r)..(q + ChunkNum - 1) \/ c = q + ChunkNum
      BY <1>1, <2>1
    <2>4. c = (q + r) + m => c \notin (q + r)..((q + r) + m - 1)
      BY <1>1, <2>1
    <2> QED
      BY <1>4, <2>2, <2>3, <2>4
  <1> QED
    BY <1>3, <1>5, <1>6, <1>7 DEF Window, r, q

\* Chunks of an answer extend what has been received of it.
LEMMA ChunksWritten ==
    ASSUME setting \in Settings, NEW h \in Handles, received[h] \in 0..(ChunkNum - 1),
           curr_buf_ptr[h] = PartOf(h) + received[h],
           PrefixIn(h, received[h], memory[Dataset(h)]),
           NEW n \in 1..(ChunkNum - received[h]),
           Written(h, n, Chunks(h, received[h], received[h] + n))
    PROVE  /\ Window(h)
           /\ received'[h] = received[h] + n
           /\ curr_buf_ptr'[h] = PartOf(h) + received'[h]
           /\ PrefixIn(h, received'[h], memory'[Dataset(h)])
  <1> DEFINE r == received[h]
  <1>1. /\ ChunkNum \in Nat /\ r \in Nat /\ r < ChunkNum /\ n \in Nat /\ n > 0
        /\ r + n <= ChunkNum /\ n \in 0..ChunkNum /\ (r + n) - r = n /\ r + n \in Nat
        /\ r <= r + n
    BY Kinds
  <1>2. Len(Chunks(h, r, r + n)) = n
    <2> HIDE DEF r
    <2>1. Len(Chunks(h, r, r + n)) = (r + n) - r
      BY <1>1, ChunksAre
    <2> QED
      BY <1>1, <2>1
  <1>3. \A i \in 1..n : Chunks(h, r, r + n)[i] = <<h, r + i>>
    <2> HIDE DEF r
    <2> QED
      BY <1>1 DEF Chunks
  <1>4. received'[h] = r + n
    BY DEF Written
  <1>5. /\ Window(h)
        /\ curr_buf_ptr'[h] = PartOf(h) + (r + n)
        /\ \A k \in 0..(r - 1) :
             memory'[Dataset(h)][PartOf(h) + k] = memory[Dataset(h)][PartOf(h) + k]
        /\ \A k \in r..(r + n - 1) :
             memory'[Dataset(h)][PartOf(h) + k] = Chunks(h, r, r + n)[k - r + 1]
    BY <1>1, <1>2, DataWritten
  <1>6. ASSUME NEW k \in 0..((r + n) - 1)
        PROVE  RightCell(h, memory'[Dataset(h)][PartOf(h) + k], k)
    <2>1. CASE k < r
      <3>1. k \in 0..(r - 1)
        BY <1>1, <2>1
      <3>2. RightCell(h, memory[Dataset(h)][PartOf(h) + k], k)
        BY <3>1 DEF PrefixIn
      <3>3. memory'[Dataset(h)][PartOf(h) + k] = memory[Dataset(h)][PartOf(h) + k]
        BY <1>5, <3>1
      <3> QED
        BY <3>2, <3>3
    <2>2. CASE k >= r
      <3>1. k \in r..(r + n - 1) /\ k - r + 1 \in 1..n /\ r + (k - r + 1) = k + 1
        BY <1>1, <2>2
      <3>2. memory'[Dataset(h)][PartOf(h) + k] = <<h, k + 1>>
        BY <1>3, <1>5, <3>1
      <3> QED
        BY <3>2 DEF RightCell
    <2> QED
      BY <1>1, <2>1, <2>2
  <1>7. PrefixIn(h, r + n, memory'[Dataset(h)])
    BY <1>6 DEF PrefixIn
  <1> QED
    BY <1>4, <1>5, <1>7

\* What an active handle holds after a turn.
LEMMA OwnData ==
    ASSUME CMTypeOK, DataInv, NEW h \in Handles, easy[h] = "active", Outcome(h)
    PROVE  /\ Window(h)
           /\ easy'[h] = "active" => /\ received'[h] < ChunkNum
                                     /\ curr_buf_ptr'[h] = PartOf(h) + received'[h]
                                     /\ PrefixIn(h, received'[h], memory'[Dataset(h)])
           /\ easy'[h] = "message" /\ code'[h] = 200 =>
                /\ PrefixIn(h, received'[h], memory'[Dataset(h)])
                /\ "cut" \notin Faults => received'[h] = ChunkNum
  <1>1. /\ setting \in Settings /\ ChunkNum \in Nat /\ received[h] \in 0..(ChunkNum - 1)
        /\ received[h] \in Nat /\ received[h] < ChunkNum
        /\ curr_buf_ptr[h] = PartOf(h) + received[h]
        /\ PrefixIn(h, received[h], memory[Dataset(h)])
    BY Kinds DEF CMTypeOK, DataInv
  <1>2. CASE Unwritten(h)
    <2>1. Window(h)
      BY <1>2 DEF Unwritten, Window
    <2>2. /\ PrefixIn(h, received'[h], memory'[Dataset(h)])
          /\ received'[h] = received[h] /\ curr_buf_ptr'[h] = curr_buf_ptr[h]
      BY <1>1, <1>2 DEF Unwritten
    <2>4. easy'[h] = "message" /\ code'[h] = 200 /\ "cut" \notin Faults => received'[h] = ChunkNum
      BY <1>1, <2>2 DEF Outcome, Written
    <2> QED
      BY <1>1, <2>1, <2>2, <2>4
  <1>3. CASE /\ easy'[h] = "active" /\ received[h] < ChunkNum - 1
             /\ Written(h, 1, Chunks(h, received[h], received[h] + 1))
    <2>1. 1 \in 1..(ChunkNum - received[h]) /\ received[h] + 1 < ChunkNum
      BY <1>1, <1>3
    <2>2. /\ Window(h) /\ received'[h] = received[h] + 1
          /\ curr_buf_ptr'[h] = PartOf(h) + received'[h]
          /\ PrefixIn(h, received'[h], memory'[Dataset(h)])
      BY <1>1, <1>3, <2>1, ChunksWritten
    <2> QED
      BY <1>3, <2>1, <2>2
  <1>4. CASE /\ easy'[h] = "message" /\ code'[h] = 200
             /\ Written(h, ChunkNum - received[h], Chunks(h, received[h], ChunkNum))
    <2> DEFINE n == ChunkNum - received[h]
    <2>1. n \in 1..(ChunkNum - received[h]) /\ ChunkNum = received[h] + n
      BY <1>1
    <2>2. Written(h, n, Chunks(h, received[h], received[h] + n))
      BY <1>4, <2>1
    <2> HIDE DEF n
    <2>3. /\ Window(h) /\ received'[h] = received[h] + n
          /\ PrefixIn(h, received'[h], memory'[Dataset(h)])
      BY <1>1, <2>1, <2>2, ChunksWritten
    <2> QED
      BY <1>4, <2>1, <2>3
  <1>5. CASE /\ easy'[h] = "message" /\ received[h] = 0 /\ Written(h, 0, <<<<"page">>>>)
             /\ code'[h] \in {503, 500}
    <2>1. 1 \in 1..(ChunkNum - received[h]) /\ 0 \in 0..ChunkNum /\ Len(<<<<"page">>>>) = 1
      BY <1>1
    <2>2. Written(h, 0, <<<<"page">>>>)
      BY <1>5
    <2> DEFINE data == <<<<"page">>>>
    <2>3. Len(data) = 1 /\ Written(h, 0, data)
      BY <2>1, <2>2
    <2> HIDE DEF data
    <2>4. Window(h)
      BY <1>1, <2>1, <2>3, DataWritten
    <2> QED
      BY <1>5, <2>4
  <1> QED
    BY <1>2, <1>3, <1>4, <1>5 DEF Outcome

\* What one handle receives leaves alone what another one has received.
LEMMA OthersData ==
    ASSUME setting \in Settings, NEW h \in Handles, NEW g \in Handles, h # g,
           Dataset(h) = Dataset(g), Window(h), received[h] \in Nat,
           NEW n \in 0..ChunkNum, PrefixIn(g, n, memory[Dataset(g)])
    PROVE  PrefixIn(g, n, memory'[Dataset(g)])
  <1>1. /\ NodeNum > 1
        /\ PartOf(h) + ChunkNum <= PartOf(g) \/ PartOf(g) + ChunkNum <= PartOf(h)
    BY PartsApart
  <1>2. /\ PartOf(h) \in Nat /\ PartOf(g) \in Nat /\ ChunkNum \in Nat /\ ChunkNum > 0
        /\ \A k \in 0..(2 * ChunkNum) : PartOf(g) + k \in Cells
        /\ PartOf(g) = g * ChunkNum /\ g \in Nat
    BY <1>1, PartIs, HandleIs, Kinds
  <1>3. ASSUME NEW k \in 0..(n - 1)
        PROVE  RightCell(g, memory'[Dataset(g)][PartOf(g) + k], k)
    <2>1. k \in 0..(2 * ChunkNum) /\ k \in Nat /\ k < ChunkNum
      BY <1>2
    <2>2. PartOf(g) + k \in Cells /\ RightCell(g, memory[Dataset(g)][PartOf(g) + k], k)
      BY <1>2, <2>1 DEF PrefixIn
    <2>3. CASE memory'[Dataset(g)][PartOf(g) + k] = memory[Dataset(g)][PartOf(g) + k]
      BY <2>2, <2>3
    <2>4. CASE /\ PartOf(g) + k = PartOf(h) + ChunkNum
               /\ memory'[Dataset(g)][PartOf(g) + k] = <<"nul">>
      <3>1. k = 0 /\ PartOf(g) > 0
        BY <1>1, <1>2, <2>1, <2>4
      <3>2. g # 0
        BY <1>2, <3>1
      <3> QED
        BY <1>1, <1>2, <2>4, <3>1, <3>2 DEF RightCell
    <2>5. PartOf(g) + k \notin (PartOf(h) + received[h])..(PartOf(h) + ChunkNum - 1)
      BY <1>1, <1>2, <2>1
    <2> QED
      BY <2>2, <2>3, <2>4, <2>5 DEF Window
  <1> QED
    BY <1>3 DEF PrefixIn

\* A turn keeps what DenialInv, DataInv and HandedInv say of the data.
LEMMA PerformData ==
    ASSUME LoopInv, DenialInv, DataInv, HandedInv,
           setting' = setting, NEW l \in Loops, Perform(l)
    PROVE  DenialInv' /\ DataInv' /\ HandedInv'
  <1>t. CMTypeOK /\ setting \in Settings
    BY DEF LoopInv, CMTypeOK
  <1>p. Performed(l)
    BY <1>t, PerformIs
  <1>0. /\ \A h \in Handles \ ActiveOf(l) :
             /\ easy'[h] = easy[h] /\ code'[h] = code[h]
             /\ received'[h] = received[h] /\ curr_buf_ptr'[h] = curr_buf_ptr[h]
        /\ \A h \in ActiveOf(l) : /\ h \in Handles /\ easy[h] = "active" /\ Outcome(h)
                                  /\ easy'[h] \in {"active", "message"} /\ Window(h)
    BY <1>t, <1>p, OwnData DEF Performed, Outcome, ActiveOf
  <1>1. DenialInv'
    <2> SUFFICES ASSUME NEW h \in Handles, easy'[h] = "denied"
                 PROVE  /\ failed_handles_to_retry[Loop(h)][Dataset(h)] = h
                        /\ curr_buf_ptr'[h] = PartOf(h)
      BY <1>p, SameSetting DEF DenialInv, Performed
    <2>1. h \notin ActiveOf(l) /\ easy[h] = "denied"
      BY <1>0
    <2> QED
      BY <1>0, <2>1 DEF DenialInv
  <1>2. ASSUME NEW g \in Handles, g \notin ActiveOf(l), NEW n \in 0..ChunkNum,
               PrefixIn(g, n, memory[Dataset(g)])
        PROVE  PrefixIn(g, n, memory'[Dataset(g)])
    <2> DEFINE w == HandleOf(l, Dataset(g))
    <2>1. Dataset(g) \in Datasets
      BY <1>t, HandleIs
    <2>2. w \in HandlesOf(l) /\ w \in Handles /\ Dataset(w) = Dataset(g)
      BY <1>t, <2>1, HandleOfIs DEF HandlesOf
    <2> HIDE DEF w
    <2>3. CASE w \notin ActiveOf(l)
      BY <1>2, <1>p, <2>2, <2>3 DEF Performed
    <2>4. CASE w \in ActiveOf(l)
      <3>1. w # g /\ Window(w) /\ received[w] \in Nat
        BY <1>0, <1>2, <1>t, <2>2, <2>4 DEF CMTypeOK
      <3> QED
        BY <1>2, <1>t, <2>2, <3>1, OthersData
    <2> QED
      BY <2>3, <2>4
  <1>3. DataInv'
    <2> SUFFICES ASSUME NEW h \in Handles
                 PROVE  /\ easy'[h] = "active" =>
                             /\ received'[h] < ChunkNum
                             /\ curr_buf_ptr'[h] = PartOf(h) + received'[h]
                             /\ PrefixIn(h, received'[h], memory'[Dataset(h)])
                        /\ easy'[h] \in {"message", "cleaned"} /\ code'[h] = 200 =>
                             /\ PrefixIn(h, received'[h], memory'[Dataset(h)])
                             /\ "cut" \notin Faults => received'[h] = ChunkNum
      BY SameSetting DEF DataInv, PrefixIn, RightCell
    <2>1. CASE h \in ActiveOf(l)
      BY <1>0, <1>t, <2>1, OwnData
    <2>2. CASE h \notin ActiveOf(l)
      <3>1. received[h] \in 0..ChunkNum
        BY <1>t DEF CMTypeOK
      <3> QED
        BY <1>0, <1>2, <2>2, <3>1 DEF DataInv
    <2> QED
      BY <2>1, <2>2
  <1>4. HandedInv'
    <2>1. handed' = handed
      BY <1>p DEF Performed
    <2>2. ASSUME NodeNum = 1, NEW h \in Handles, handed[Dataset(h)] # Nothing
          PROVE  easy'[h] = "cleaned" /\ PrefixIn(h, received'[h], handed[Dataset(h)])
      <3>1. easy[h] = "cleaned" /\ PrefixIn(h, received[h], handed[Dataset(h)])
        BY <2>2 DEF HandedInv
      <3>2. h \notin ActiveOf(l)
        BY <3>1 DEF ActiveOf
      <3> QED
        BY <1>0, <3>1, <3>2
    <2>3. ASSUME NodeNum > 1, Faults \subseteq {"error"}, handed[0] # Nothing
          PROVE  \A h \in Handles : PrefixIn(h, ChunkNum, handed[0])
      BY <2>3 DEF HandedInv
    <2> QED
      BY <2>1, <2>2, <2>3, SameSetting DEF HandedInv, PrefixIn, RightCell
  <1> QED
    BY <1>1, <1>3, <1>4

(***************************************************************************)
(* Reading the messages                                                    *)
(***************************************************************************)

\* One message of loop l is read: its handle becomes s, and the loop goes on
\* or gives up.
MessageRead(l, h, s) ==
    /\ pc[l] = "read" /\ ReadsMessages(l) /\ h \in MessagesOf(l)
    /\ easy' = [easy EXCEPT ![h] = s]
    /\ UNCHANGED <<num_prev_running, num_still_running, code, received, memory>>
    /\ \/ UNCHANGED <<pc, result>>
       \/ /\ pc' = [pc EXCEPT ![l] = "done"] /\ result' = [result EXCEPT ![l] = "FAIL"]

LEMMA ReadKeepsTurns ==
    ASSUME LoopInv, setting' = setting, NEW l \in Loops, NEW h,
           NEW s \in {"denied", "cleaned", "failed"}, MessageRead(l, h, s)
    PROVE  \A m \in Loops' : TurnInv(m)' /\ DoneInv(m)'
  <1>0. CMTypeOK /\ h \in Handles /\ Loop(h) = l /\ easy[h] = "message"
    BY DEF LoopInv, MessageRead, MessagesOf
  <1>1. \A g \in Handles : g # h => easy'[g] = easy[g]
    BY <1>0 DEF MessageRead, CMTypeOK
  <1>2. ASSUME NEW m \in Loops, m # l PROVE TurnInv(m)' /\ DoneInv(m)'
    <2>1. \A g \in HandlesOf(m) : easy'[g] = easy[g]
      BY <1>0, <1>1, <1>2 DEF HandlesOf
    <2>2. /\ pc'[m] = pc[m] /\ result'[m] = result[m]
          /\ num_prev_running'[m] = num_prev_running[m]
          /\ num_still_running'[m] = num_still_running[m]
      BY <1>0, <1>2 DEF MessageRead, CMTypeOK
    <2> QED
      BY <2>1, <2>2, OtherLoop DEF LoopInv
  <1>3. CASE UNCHANGED <<pc, result>>
    <2>1. ActiveOf(l)' = ActiveOf(l)
      <3>1. ActiveOf(l)' = {g \in Handles : Loop(g) = l /\ easy'[g] = "active"}
        BY SameSetting DEF ActiveOf
      <3>2. easy'[h] # "active"
        BY <1>0 DEF MessageRead, CMTypeOK
      <3> QED
        BY <1>0, <1>1, <3>1, <3>2 DEF ActiveOf
    <2>2. /\ pc'[l] = "read" /\ num_prev_running'[l] = num_prev_running[l]
          /\ num_still_running'[l] = num_still_running[l]
          /\ num_prev_running[l] # num_still_running[l]
      BY <1>3 DEF MessageRead, ReadsMessages
    <2>3. num_still_running[l] = Cardinality(ActiveOf(l))
      BY DEF LoopInv, TurnInv, MessageRead
    <2>4. TurnInv(l)'
      BY <2>1, <2>2, <2>3 DEF TurnInv
    <2>5. DoneInv(l)'
      BY <2>2 DEF DoneInv
    <2> QED
      BY <1>2, <2>4, <2>5, SameSetting
  <1>4. CASE pc' = [pc EXCEPT ![l] = "done"] /\ result' = [result EXCEPT ![l] = "FAIL"]
    <2>1. pc'[l] = "done" /\ result'[l] = "FAIL"
      BY <1>0, <1>4 DEF CMTypeOK
    <2>2. TurnInv(l)' /\ DoneInv(l)'
      BY <2>1 DEF TurnInv, DoneInv
    <2> QED
      BY <1>2, <2>2, SameSetting
  <1> QED
    BY <1>3, <1>4 DEF MessageRead

\* A message that ends its handle for good.
HandleEnds(l, h, s) ==
    /\ MessageRead(l, h, s)
    /\ UNCHANGED <<failed_handles_to_retry, outOfBounds, curr_buf_ptr,
                   current_backoff_duration>>
    /\ \/ /\ s = "cleaned" /\ code[h] = 200 /\ UNCHANGED <<pc, result>>
          /\ handed' = IF NodeNum = 1
                       THEN [handed EXCEPT ![Dataset(h)] =
                               [c \in 0..(BufferSize - 1) |-> memory[Dataset(h)][c]]]
                       ELSE handed
       \/ s = "failed" /\ result' = [result EXCEPT ![l] = "FAIL"] /\ handed' = handed

LEMMA EndIs ==
    ASSUME NEW l \in Loops, NEW h,
           Read200(l, h) \/ CallbackFails(l, h) \/ ReadError(l, h)
    PROVE  \E s \in {"cleaned", "failed"} : HandleEnds(l, h, s)
  <1>1. CASE Read200(l, h)
    <2>1. HandleEnds(l, h, "cleaned")
      BY <1>1 DEF Read200, HandleEnds, MessageRead, loopVars
    <2> QED
      BY <2>1
  <1>2. CASE CallbackFails(l, h) \/ ReadError(l, h)
    <2>1. HandleEnds(l, h, "failed")
      BY <1>2 DEF CallbackFails, ReadError, GivesUp, HandleEnds, MessageRead, loopVars
    <2> QED
      BY <2>1
  <1> QED
    BY <1>1, <1>2

\* The end of a handle keeps the invariant of the loops.
LEMMA EndLoop ==
    ASSUME LoopInv, setting' = setting, NEW l \in Loops, NEW h,
           NEW s \in {"cleaned", "failed"}, HandleEnds(l, h, s)
    PROVE  LoopInv'
  <1>t. CMTypeOK /\ setting \in Settings
    BY DEF LoopInv, CMTypeOK
  <1>0. h \in Handles /\ Loop(h) = l /\ easy[h] = "message" /\ Dataset(h) \in Datasets
    BY <1>t, HandleIs DEF HandleEnds, MessageRead, MessagesOf
  <1>1. CMTypeOK'
    <2>1. handed' \in [Datasets -> [0..(BufferSize - 1) -> Values] \cup {Nothing}]
      <3>1. \A c \in 0..(BufferSize - 1) : c \in Cells
        BY <1>0, <1>t, PartIs, Kinds DEF Cells
      <3> DEFINE v == [c \in 0..(BufferSize - 1) |-> memory[Dataset(h)][c]]
                 T == [0..(BufferSize - 1) -> Values] \cup {Nothing}
      <3>2. v \in T
        BY <1>0, <1>t, <3>1 DEF CMTypeOK
      <3>3. handed \in [Datasets -> T]
        BY <1>t DEF CMTypeOK
      <3>4. handed' = handed \/ handed' = [handed EXCEPT ![Dataset(h)] = v]
        BY DEF HandleEnds
      <3> HIDE DEF v, T
      <3>5. handed' \in [Datasets -> T]
        BY <3>2, <3>3, <3>4
      <3> QED
        BY <3>5 DEF T
    <2>2. /\ easy' \in [Handles -> EasyStates]
          /\ pc' \in [Loops -> {"perform", "read", "retry", "done"}]
          /\ result' \in [Loops -> {"SUCCEED", "FAIL"}]
      <3>1. easy \in [Handles -> EasyStates] /\ s \in EasyStates
        BY <1>t DEF CMTypeOK, EasyStates
      <3>2. easy' \in [Handles -> EasyStates]
        BY <3>1 DEF HandleEnds, MessageRead
      <3>3. pc' \in [Loops -> {"perform", "read", "retry", "done"}]
        <4>1. pc \in [Loops -> {"perform", "read", "retry", "done"}]
          BY <1>t DEF CMTypeOK
        <4>2. pc' = pc \/ pc' = [pc EXCEPT ![l] = "done"]
          BY DEF HandleEnds, MessageRead
        <4> QED
          BY <4>1, <4>2
      <3>4. result' \in [Loops -> {"SUCCEED", "FAIL"}]
        <4>1. result \in [Loops -> {"SUCCEED", "FAIL"}]
          BY <1>t DEF CMTypeOK
        <4> QED
          BY <4>1 DEF HandleEnds, MessageRead
      <3> QED
        BY <3>2, <3>3, <3>4
    <2> QED
      BY <1>t, <2>1, <2>2, SameSetting DEF HandleEnds, MessageRead, CMTypeOK
  <1>2. \A g \in Handles : easy'[g] = IF g = h THEN s ELSE easy[g]
    BY <1>t, <1>0 DEF HandleEnds, MessageRead, CMTypeOK
  <1>3. TableInv'
    <2> SUFFICES ASSUME NEW m \in Loops, NEW i \in Datasets,
                        failed_handles_to_retry[m][i] # NoHandle
                 PROVE  /\ failed_handles_to_retry[m][i] = HandleOf(m, i)
                        /\ easy'[HandleOf(m, i)] = "denied"
      BY SameSetting DEF TableInv, HandleEnds, NoHandle
    <2>1. HandleOf(m, i) \in Handles
      BY <1>t, HandleOfIs
    <2>2. failed_handles_to_retry[m][i] = HandleOf(m, i) /\ easy[HandleOf(m, i)] = "denied"
      BY DEF LoopInv, TableInv
    <2> QED
      BY <1>0, <1>2, <2>1, <2>2
  <1>4. StatusInv'
    <2> SUFFICES ASSUME NEW g \in Handles
                 PROVE  /\ result'[Loop(g)] = "SUCCEED" =>
                             /\ code[g] = 500 => easy'[g] = "message"
                             /\ easy'[g] # "failed"
                        /\ easy'[g] = "denied" => "503" \in Faults
                        /\ easy'[g] = "message" => code[g] # 0
                        /\ code[g] = 503 => "503" \in Faults
                        /\ easy'[g] = "cleaned" => code[g] = 200
      BY SameSetting DEF StatusInv, HandleEnds, MessageRead
    <2>1. Loop(g) \in Loops
      BY <1>t, HandleIs
    <2>2. result'[Loop(g)] = "SUCCEED" => result[Loop(g)] = "SUCCEED"
      BY <1>t, <2>1 DEF HandleEnds, CMTypeOK
    <2>3. CASE g # h
      BY <1>2, <2>2, <2>3 DEF LoopInv, StatusInv
    <2>4. CASE g = h /\ s = "cleaned"
      BY <1>0, <1>2, <2>4 DEF LoopInv, StatusInv, HandleEnds
    <2>5. CASE g = h /\ s = "failed"
      <3>1. result'[Loop(g)] = "FAIL"
        BY <1>t, <1>0, <2>5 DEF HandleEnds, CMTypeOK
      <3> QED
        BY <1>2, <2>5, <3>1 DEF LoopInv, StatusInv
    <2> QED
      BY <2>3, <2>4, <2>5
  <1>5. \A m \in Loops' : TurnInv(m)' /\ DoneInv(m)'
    BY ReadKeepsTurns DEF HandleEnds
  <1> QED
    BY <1>1, <1>3, <1>4, <1>5 DEF LoopInv

\* Only what has arrived intact is handed to the caller.
LEMMA EndData ==
    ASSUME LoopInv, DenialInv, DataInv, HandedInv, setting' = setting,
           NEW l \in Loops, NEW h, NEW s \in {"cleaned", "failed"}, HandleEnds(l, h, s)
    PROVE  DenialInv' /\ DataInv' /\ HandedInv'
  <1>t. CMTypeOK /\ setting \in Settings
    BY DEF LoopInv, CMTypeOK
  <1>0. /\ h \in Handles /\ Loop(h) = l /\ easy[h] = "message" /\ Dataset(h) \in Datasets
        /\ UNCHANGED <<failed_handles_to_retry, outOfBounds, code, received,
                       curr_buf_ptr, memory>>
    BY <1>t, HandleIs DEF HandleEnds, MessageRead, MessagesOf
  <1>2. \A g \in Handles : easy'[g] = IF g = h THEN s ELSE easy[g]
    BY <1>t, <1>0 DEF HandleEnds, MessageRead, CMTypeOK
  <1>3. DenialInv'
    BY <1>0, <1>2, SameSetting DEF DenialInv
  <1>4. DataInv'
    <2> SUFFICES ASSUME NEW g \in Handles
                 PROVE  /\ easy'[g] = "active" =>
                             /\ received[g] < ChunkNum
                             /\ curr_buf_ptr[g] = PartOf(g) + received[g]
                             /\ PrefixIn(g, received[g], memory[Dataset(g)])
                        /\ easy'[g] \in {"message", "cleaned"} /\ code[g] = 200 =>
                             /\ PrefixIn(g, received[g], memory[Dataset(g)])
                             /\ "cut" \notin Faults => received[g] = ChunkNum
      BY <1>0, SameSetting DEF DataInv, PrefixIn, RightCell
    <2> QED
      BY <1>0, <1>2 DEF DataInv
  <1>5. HandedInv'
    <2>1. ASSUME NodeNum = 1, NEW g \in Handles, handed'[Dataset(g)] # Nothing
          PROVE  easy'[g] = "cleaned" /\ PrefixIn(g, received[g], handed'[Dataset(g)])
      <3>1. Dataset(g) = g /\ Dataset(h) = h /\ Dataset(g) \in Datasets
        BY <1>0, <1>t, <2>1, HandleIs
      <3>2. CASE handed'[Dataset(g)] = handed[Dataset(g)]
        <4>1. easy[g] = "cleaned" /\ PrefixIn(g, received[g], handed[Dataset(g)])
          BY <2>1, <3>2 DEF HandedInv
        <4>2. g # h
          BY <1>0, <4>1
        <4> QED
          BY <1>2, <3>2, <4>1, <4>2
      <3>3. CASE handed'[Dataset(g)] # handed[Dataset(g)]
        <4>1. /\ g = h /\ s = "cleaned" /\ code[h] = 200
              /\ handed'[Dataset(h)] = [c \in 0..(BufferSize - 1) |-> memory[Dataset(h)][c]]
          <5> DEFINE v == [c \in 0..(BufferSize - 1) |-> memory[Dataset(h)][c]]
          <5>1. \/ handed' = handed
                \/ /\ s = "cleaned" /\ code[h] = 200
                   /\ handed' = [handed EXCEPT ![Dataset(h)] = v]
            BY DEF HandleEnds
          <5>2. DOMAIN handed = Datasets
            BY <1>t DEF CMTypeOK
          <5> HIDE DEF v
          <5>3. g = h /\ handed'[Dataset(h)] = v /\ s = "cleaned" /\ code[h] = 200
            BY <1>0, <3>1, <3>3, <5>1, <5>2
          <5> QED
            BY <5>3 DEF v
        <4>2. PrefixIn(h, received[h], memory[Dataset(h)]) /\ received[h] \in 0..ChunkNum
          BY <1>0, <1>t, <4>1 DEF DataInv, CMTypeOK
        <4>3. ASSUME NEW k \in 0..(received[h] - 1)
              PROVE  RightCell(h, handed'[Dataset(h)][PartOf(h) + k], k)
          <5>1. k \in 0..(ChunkNum - 1)
            BY <1>t, <4>2, Kinds
          <5>2. PartOf(h) + k \in 0..(BufferSize - 1)
            BY <1>0, <1>t, <5>1, PartIs
          <5> QED
            BY <4>1, <4>2, <5>2 DEF PrefixIn
        <4>4. PrefixIn(h, received[h], handed'[Dataset(h)])
          BY <4>3 DEF PrefixIn
        <4> QED
          BY <1>0, <1>2, <4>1, <4>4
      <3> QED
        BY <3>2, <3>3
    <2>2. ASSUME NodeNum > 1, Faults \subseteq {"error"}, handed'[0] # Nothing
          PROVE  \A g \in Handles : PrefixIn(g, ChunkNum, handed'[0])
      <3>1. handed' = handed
        BY <1>t, <2>2, Kinds DEF HandleEnds
      <3> QED
        BY <2>2, <3>1 DEF HandedInv
    <2> QED
      BY <1>0, <2>1, <2>2, SameSetting DEF HandedInv, PrefixIn, RightCell
  <1> QED
    BY <1>3, <1>4, <1>5

(***************************************************************************)
(* A denial                                                                *)
(***************************************************************************)

\* The search finds the transfer of a handle with one loop; with several, it
\* finds handle 0 only and leaves the table for any other.
LEMMA IndexIs ==
    ASSUME setting \in Settings, NEW h \in Handles
    PROVE  \/ IndexOfHandle(h) = h /\ h \in Datasets /\ Dataset(h) = h
           \/ NodeNum > 1 /\ IndexOfHandle(h) \notin Datasets
  <1>1. h \in Nat /\ Count \in Nat
    BY HandleIs, Kinds
  <1>2. CASE h < Count
    <2>1. IndexOfHandle(h) = h /\ h \in Datasets
      BY <1>1, <1>2 DEF IndexOfHandle, Datasets
    <2>2. Dataset(h) = h
      <3>1. CASE NodeNum = 1
        BY <3>1, HandleIs
      <3>2. CASE NodeNum > 1 /\ Count = 1
        BY <1>1, <1>2, <3>2, HandleIs
      <3> QED
        BY <3>1, <3>2, Kinds
    <2> QED
      BY <2>1, <2>2
  <1>3. CASE ~ (h < Count)
    <2>1. IndexOfHandle(h) = Count + 1 /\ Count + 1 \notin Datasets
      BY <1>1, <1>3 DEF IndexOfHandle, Datasets
    <2>2. NodeNum # 1
      <3> SUFFICES ASSUME NodeNum = 1 PROVE FALSE
        OBVIOUS
      <3>1. Dataset(h) = h /\ Dataset(h) \in Datasets
        BY HandleIs
      <3> QED
        BY <1>1, <1>3, <3>1 DEF Datasets
    <2> QED
      BY <2>1, <2>2, Kinds
  <1> QED
    BY <1>2, <1>3

\* A delay is a number of time units.
LEMMA BackoffType ==
    ASSUME NEW b \in Nat, NEW k \in 0..RandSteps
    PROVE  Backoff(b, k) \in Nat
  <1> DEFINE base == IF b = 0 THEN BackoffInitialDuration ELSE (b * 3) \div 2
  <1>1. base \in Nat
    BY CurlAssumption
  <1>2. k \in Nat /\ RandSteps \in Nat \ {0}
    BY CurlAssumption
  <1> HIDE DEF base
  <1>3. base * k \in Nat
    BY <1>1, <1>2
  <1>4. (base * k) \div RandSteps \in Nat
    BY <1>2, <1>3
  <1>5. base + (base * k) \div RandSteps \in Nat
    BY <1>1, <1>4
  <1>6. Backoff(b, k) = base + (base * k) \div RandSteps
    BY DEF Backoff, base
  <1> QED
    BY <1>5, <1>6

\* What a denial changes besides its message.
LEMMA DenialIs ==
    ASSUME CMTypeOK, NEW l \in Loops, NEW h \in Handles, Read503(l, h)
    PROVE  /\ MessageRead(l, h, "denied") /\ code[h] = 503 /\ handed' = handed
           /\ outOfBounds' = (outOfBounds \/ IndexOfHandle(h) >= Count)
           /\ outOfBounds' \in BOOLEAN
           /\ curr_buf_ptr' = [curr_buf_ptr EXCEPT ![IndexOfHandle(h)] =
                                 PartOf(IndexOfHandle(h))]
           /\ failed_handles_to_retry' =
                [failed_handles_to_retry EXCEPT ![l][IndexOfHandle(h)] = h]
           /\ current_backoff_duration' \in [Handles -> Nat]
  <1> DEFINE i == IndexOfHandle(h)
  <1>1. PICK k \in 0..RandSteps :
          LET b == Backoff(IF i \in Handles THEN current_backoff_duration[i] ELSE 0, k)
          IN  /\ current_backoff_duration' = [current_backoff_duration EXCEPT ![i] = b]
              /\ IF b >= BackoffMaxBeforeFail THEN GivesUp(l) ELSE UNCHANGED loopVars
    BY DEF Read503
  <1>2. (IF i \in Handles THEN current_backoff_duration[i] ELSE 0) \in Nat
    BY DEF CMTypeOK
  <1> DEFINE b == Backoff(IF i \in Handles THEN current_backoff_duration[i] ELSE 0, k)
  <1>3. b \in Nat
    BY <1>2, BackoffType
  <1>4. /\ current_backoff_duration' = [current_backoff_duration EXCEPT ![i] = b]
        /\ GivesUp(l) \/ UNCHANGED loopVars
    BY <1>1
  <1> HIDE DEF b
  <1>5. current_backoff_duration' \in [Handles -> Nat]
    BY <1>3, <1>4 DEF CMTypeOK
  <1>6. MessageRead(l, h, "denied")
    BY <1>4 DEF Read503, MessageRead, GivesUp, loopVars
  <1> QED
    BY <1>5, <1>6 DEF Read503

LEMMA DenialLoop ==
    ASSUME LoopInv, setting' = setting, NEW l \in Loops, NEW h \in Handles, Read503(l, h)
    PROVE  LoopInv'
  <1> DEFINE i == IndexOfHandle(h)
  <1>t. CMTypeOK /\ setting \in Settings
    BY DEF LoopInv, CMTypeOK
  <1>d. /\ MessageRead(l, h, "denied") /\ code[h] = 503 /\ handed' = handed
        /\ outOfBounds' \in BOOLEAN /\ current_backoff_duration' \in [Handles -> Nat]
        /\ curr_buf_ptr' = [curr_buf_ptr EXCEPT ![i] = PartOf(i)]
        /\ failed_handles_to_retry' = [failed_handles_to_retry EXCEPT ![l][i] = h]
    BY <1>t, DenialIs
  <1>0. Loop(h) = l /\ easy[h] = "message" /\ "503" \in Faults
    BY <1>d DEF MessageRead, MessagesOf, LoopInv, StatusInv
  <1>2. \A g \in Handles : easy'[g] = IF g = h THEN "denied" ELSE easy[g]
    BY <1>t, <1>d DEF MessageRead, CMTypeOK
  <1>i. i \in Datasets => HandleOf(l, i) = h
    <2>1. i \in Datasets => i = h /\ Dataset(h) = h
      BY <1>t, IndexIs
    <2> QED
      BY <1>0, <1>t, <2>1, HandleIs
  <1>e. \A m \in Loops, j \in Datasets : failed_handles_to_retry'[m][j] =
          IF m = l /\ j = i THEN h ELSE failed_handles_to_retry[m][j]
    <2> HIDE DEF i
    <2> QED
      BY <1>t, <1>d DEF CMTypeOK
  <1> HIDE DEF i
  <1>1. CMTypeOK'
    <2>1. easy' \in [Handles -> EasyStates]
      <3>1. easy \in [Handles -> EasyStates] /\ "denied" \in EasyStates
        BY <1>t DEF CMTypeOK, EasyStates
      <3> QED
        BY <1>d, <3>1 DEF MessageRead
    <2>2. curr_buf_ptr' \in [Handles -> Cells]
      <3>1. i \in Handles => PartOf(i) \in Cells
        <4>1. ASSUME NEW j \in Handles PROVE PartOf(j) \in Cells
          <5>1. PartOf(j) + 0 \in Cells /\ PartOf(j) \in Nat
            BY <1>t, PartIs, Kinds
          <5> QED
            BY <5>1
        <4> QED
          BY <4>1
      <3>2. curr_buf_ptr \in [Handles -> Cells]
        BY <1>t DEF CMTypeOK
      <3>3. curr_buf_ptr' = [curr_buf_ptr EXCEPT ![i] = PartOf(i)]
        BY <1>d
      <3> DEFINE p == PartOf(i)
      <3>4. i \in Handles => p \in Cells
        BY <3>1
      <3>5. curr_buf_ptr' = [curr_buf_ptr EXCEPT ![i] = p]
        BY <3>3
      <3> HIDE DEF p
      <3> QED
        BY <3>2, <3>4, <3>5
    <2>3. failed_handles_to_retry' \in [Loops -> [Datasets -> Handles \cup {NoHandle}]]
      <3> DEFINE row == [failed_handles_to_retry[l] EXCEPT ![i] = h]
      <3>2. failed_handles_to_retry \in [Loops -> [Datasets -> Handles \cup {NoHandle}]]
        BY <1>t DEF CMTypeOK
      <3>1. row \in [Datasets -> Handles \cup {NoHandle}]
        <4>1. failed_handles_to_retry[l] \in [Datasets -> Handles \cup {NoHandle}]
          BY <3>2
        <4> QED
          BY <4>1
      <3>3. failed_handles_to_retry' = [failed_handles_to_retry EXCEPT ![l] = row]
        BY <1>d
      <3> HIDE DEF row
      <3> QED
        BY <3>1, <3>2, <3>3
    <2>4. /\ pc' = pc \/ pc' = [pc EXCEPT ![l] = "done"]
          /\ result' = result \/ result' = [result EXCEPT ![l] = "FAIL"]
      BY <1>d DEF MessageRead
    <2>5. /\ pc' \in [Loops -> {"perform", "read", "retry", "done"}]
          /\ result' \in [Loops -> {"SUCCEED", "FAIL"}]
      <3>1. /\ pc \in [Loops -> {"perform", "read", "retry", "done"}]
            /\ result \in [Loops -> {"SUCCEED", "FAIL"}]
        BY <1>t DEF CMTypeOK
      <3>2. pc' \in [Loops -> {"perform", "read", "retry", "done"}]
        BY <2>4, <3>1
      <3>3. result' \in [Loops -> {"SUCCEED", "FAIL"}]
        BY <2>4, <3>1
      <3> QED
        BY <3>2, <3>3
    <2> QED
      BY <1>t, <1>d, <2>1, <2>2, <2>3, <2>5, SameSetting DEF MessageRead, CMTypeOK
  <1>3. TableInv'
    <2> SUFFICES ASSUME NEW m \in Loops, NEW j \in Datasets,
                        failed_handles_to_retry'[m][j] # NoHandle
                 PROVE  /\ failed_handles_to_retry'[m][j] = HandleOf(m, j)
                        /\ easy'[HandleOf(m, j)] = "denied"
      BY SameSetting DEF TableInv, NoHandle
    <2>1. HandleOf(m, j) \in Handles
      BY <1>t, HandleOfIs
    <2>2. CASE m = l /\ j = i
      BY <1>2, <1>e, <1>i, <2>2
    <2>3. CASE ~ (m = l /\ j = i)
      <3>1. failed_handles_to_retry'[m][j] = failed_handles_to_retry[m][j]
        BY <1>e, <2>3
      <3> QED
        BY <1>2, <2>1, <3>1 DEF LoopInv, TableInv
    <2> QED
      BY <2>2, <2>3
  <1>4. StatusInv'
    <2> SUFFICES ASSUME NEW g \in Handles
                 PROVE  /\ result'[Loop(g)] = "SUCCEED" =>
                             /\ code[g] = 500 => easy'[g] = "message"
                             /\ easy'[g] # "failed"
                        /\ easy'[g] = "denied" => "503" \in Faults
                        /\ easy'[g] = "message" => code[g] # 0
                        /\ code[g] = 503 => "503" \in Faults
                        /\ easy'[g] = "cleaned" => code[g] = 200
      BY <1>d, SameSetting DEF StatusInv, MessageRead
    <2>1. Loop(g) \in Loops
      BY <1>t, HandleIs
    <2>2. result'[Loop(g)] = "SUCCEED" => result[Loop(g)] = "SUCCEED"
      BY <1>t, <1>d, <2>1 DEF MessageRead, CMTypeOK
    <2>3. CASE g # h
      BY <1>2, <2>2, <2>3 DEF LoopInv, StatusInv
    <2>4. CASE g = h
      BY <1>0, <1>2, <1>d, <2>4
    <2> QED
      BY <2>3, <2>4
  <1>5. \A m \in Loops' : TurnInv(m)' /\ DoneInv(m)'
    BY <1>d, ReadKeepsTurns
  <1> QED
    BY <1>1, <1>3, <1>4, <1>5 DEF LoopInv

\* With one loop, a denied handle gets its own entry and its own part back.
LEMMA DenialData ==
    ASSUME LoopInv, DenialsFit, DenialInv, DataInv, HandedInv, setting' = setting,
           NEW l \in Loops, NEW h \in Handles, Read503(l, h)
    PROVE  DenialInv' /\ DataInv' /\ HandedInv'
  <1>t. CMTypeOK /\ setting \in Settings
    BY DEF LoopInv, CMTypeOK
  <1>d. /\ MessageRead(l, h, "denied") /\ code[h] = 503 /\ handed' = handed
        /\ outOfBounds' = (outOfBounds \/ IndexOfHandle(h) >= Count)
        /\ curr_buf_ptr' = [curr_buf_ptr EXCEPT ![IndexOfHandle(h)] =
                              PartOf(IndexOfHandle(h))]
        /\ failed_handles_to_retry' =
             [failed_handles_to_retry EXCEPT ![l][IndexOfHandle(h)] = h]
    BY <1>t, DenialIs
  <1>0. Loop(h) = l /\ easy[h] = "message" /\ "503" \in Faults
    BY <1>d DEF MessageRead, MessagesOf, LoopInv, StatusInv
  <1>1. NodeNum = 1
    BY <1>0 DEF DenialsFit
  <1>i. IndexOfHandle(h) = h /\ h \in Datasets /\ Dataset(h) = h /\ ~ (h >= Count)
    BY <1>1, <1>t, IndexIs, Kinds DEF Datasets
  <1>2. /\ \A g \in Handles : easy'[g] = IF g = h THEN "denied" ELSE easy[g]
        /\ \A g \in Handles : curr_buf_ptr'[g] = IF g = h THEN PartOf(h)
                                                 ELSE curr_buf_ptr[g]
        /\ UNCHANGED <<code, received, memory>>
    BY <1>t, <1>d, <1>i DEF MessageRead, CMTypeOK
  <1>3. DenialInv'
    <2>1. ~ outOfBounds'
      BY <1>d, <1>i DEF DenialInv
    <2>2. ASSUME NEW g \in Handles, easy'[g] = "denied"
          PROVE  /\ failed_handles_to_retry'[Loop(g)][Dataset(g)] = g
                 /\ curr_buf_ptr'[g] = PartOf(g)
      <3>1. Loop(g) \in Loops /\ Dataset(g) \in Datasets /\ Dataset(g) = g
        BY <1>1, <1>t, HandleIs
      <3>2. CASE g = h
        BY <1>0, <1>2, <1>d, <1>i, <1>t, <3>1, <3>2 DEF CMTypeOK
      <3>3. CASE g # h
        <4>1. failed_handles_to_retry'[Loop(g)][Dataset(g)] =
                failed_handles_to_retry[Loop(g)][Dataset(g)]
          BY <1>d, <1>i, <1>t, <3>1, <3>3 DEF CMTypeOK
        <4> QED
          BY <1>2, <2>2, <3>3, <4>1 DEF DenialInv
      <3> QED
        BY <3>2, <3>3
    <2> QED
      BY <2>1, <2>2, SameSetting DEF DenialInv
  <1>4. DataInv'
    <2> SUFFICES ASSUME NEW g \in Handles
                 PROVE  /\ easy'[g] = "active" =>
                             /\ received[g] < ChunkNum
                             /\ curr_buf_ptr'[g] = PartOf(g) + received[g]
                             /\ PrefixIn(g, received[g], memory[Dataset(g)])
                        /\ easy'[g] \in {"message", "cleaned"} /\ code[g] = 200 =>
                             /\ PrefixIn(g, received[g], memory[Dataset(g)])
                             /\ "cut" \notin Faults => received[g] = ChunkNum
      BY <1>2, SameSetting DEF DataInv, PrefixIn, RightCell
    <2> QED
      BY <1>0, <1>2 DEF DataInv
  <1>5. HandedInv'
    <2>1. ASSUME NEW g \in Handles, handed[Dataset(g)] # Nothing
          PROVE  easy'[g] = "cleaned" /\ PrefixIn(g, received[g], handed[Dataset(g)])
      BY <1>0, <1>1, <1>2, <2>1 DEF HandedInv
    <2> QED
      BY <1>1, <1>2, <1>d, <2>1, SameSetting DEF HandedInv, PrefixIn, RightCell
  <1> QED
    BY <1>3, <1>4, <1>5

(***************************************************************************)
(* The end of a turn                                                       *)
(***************************************************************************)

LEMMA ReadsNoMoreLoop ==
    ASSUME LoopInv, setting' = setting, NEW l \in Loops, ReadsNoMore(l)
    PROVE  LoopInv'
  <1>t. CMTypeOK /\ setting \in Settings
    BY DEF LoopInv, CMTypeOK
  <1>1. /\ pc[l] = "read" /\ pc' = [pc EXCEPT ![l] = "retry"]
        /\ ~ ReadsMessages(l) \/ MessagesOf(l) = {}
        /\ UNCHANGED <<result, num_prev_running, num_still_running,
                       failed_handles_to_retry, outOfBounds, easy, code, received,
                       curr_buf_ptr, current_backoff_duration, memory, handed>>
    BY DEF ReadsNoMore
  <1>2. CMTypeOK'
    BY <1>1, <1>t, SameSetting DEF CMTypeOK
  <1>3. TableInv' /\ StatusInv'
    BY <1>1, SameSetting DEF LoopInv, TableInv, StatusInv, NoHandle
  <1>4. ASSUME NEW m \in Loops PROVE TurnInv(m)' /\ DoneInv(m)'
    <2>1. CASE m # l
      <3>1. pc'[m] = pc[m]
        BY <1>1, <1>t, <2>1 DEF CMTypeOK
      <3>2. /\ \A g \in HandlesOf(m) : easy'[g] = easy[g]
            /\ result'[m] = result[m] /\ num_prev_running'[m] = num_prev_running[m]
            /\ num_still_running'[m] = num_still_running[m]
        BY <1>1
      <3> QED
        BY <3>1, <3>2, OtherLoop DEF LoopInv
    <2>2. CASE m = l
      <3>1. pc'[l] = "retry"
        BY <1>1, <1>t DEF CMTypeOK
      <3>2. /\ ActiveOf(l)' = ActiveOf(l) /\ MessagesOf(l)' = MessagesOf(l)
            /\ HandlesOf(l)' = HandlesOf(l) /\ ReadsMessages(l)' = ReadsMessages(l)
        BY <1>1, SameSetting DEF ActiveOf, MessagesOf, ReadsMessages
      <3>3. TurnInv(l)
        BY DEF LoopInv
      <3>4. TurnInv(l)'
        BY <1>1, <3>1, <3>2, <3>3, SameSetting DEF TurnInv
      <3>5. DoneInv(l)'
        BY <3>1 DEF DoneInv
      <3> QED
        BY <2>2, <3>4, <3>5
    <2> QED
      BY <2>1, <2>2
  <1> QED
    BY <1>2, <1>3, <1>4, SameSetting DEF LoopInv

\* The handles in again go back into the multi handle of loop l, the others
\* stay as they are.
Returned(l, again) ==
    /\ again \subseteq {h \in HandlesOf(l) : easy[h] = "denied"}
    /\ \A h \in Handles : /\ easy'[h] = IF h \in again THEN "active" ELSE easy[h]
                          /\ received'[h] = IF h \in again THEN 0 ELSE received[h]

\* The table forgets the handles that went back, and no other.
LEMMA RetryIs ==
    ASSUME CMTypeOK, TableInv, NEW l \in Loops, Retry(l)
    PROVE  \E again : /\ Returned(l, again)
                      /\ easy' \in [Handles -> EasyStates]
                      /\ received' \in [Handles -> 0..ChunkNum]
                      /\ failed_handles_to_retry' \in
                           [Loops -> [Datasets -> Handles \cup {NoHandle}]]
                      /\ \A m \in Loops, j \in Datasets :
                           failed_handles_to_retry'[m][j] =
                             IF m = l /\ HandleOf(l, j) \in again THEN NoHandle
                             ELSE failed_handles_to_retry[m][j]
  <1>t. setting \in Settings
    BY DEF CMTypeOK
  <1>1. PICK elapsed \in SUBSET Waiting(l) : PutBackAll(l, elapsed)
    BY DEF Retry
  <1> DEFINE again == {failed_handles_to_retry[l][i] : i \in elapsed}
  <1>2. \A i \in elapsed : /\ i \in Datasets
                           /\ failed_handles_to_retry[l][i] = HandleOf(l, i)
                           /\ easy[HandleOf(l, i)] = "denied"
                           /\ HandleOf(l, i) \in HandlesOf(l)
    BY <1>1, <1>t, HandleOfIs DEF Waiting, TableInv, HandlesOf
  <1>3. \A j \in Datasets : HandleOf(l, j) \in again <=> j \in elapsed
    <2> SUFFICES ASSUME NEW j \in Datasets, HandleOf(l, j) \in again PROVE j \in elapsed
      BY <1>2
    <2>1. PICK i \in elapsed : HandleOf(l, j) = HandleOf(l, i)
      BY <1>2
    <2>2. Dataset(HandleOf(l, j)) = j /\ Dataset(HandleOf(l, i)) = i
      BY <1>2, <1>t, HandleOfIs
    <2> QED
      BY <2>1, <2>2
  <1>4. /\ easy' = [h \in Handles |-> IF h \in again THEN "active" ELSE easy[h]]
        /\ received' = [h \in Handles |-> IF h \in again THEN 0 ELSE received[h]]
        /\ failed_handles_to_retry' =
             [failed_handles_to_retry EXCEPT
                ![l] = [i \in Datasets |-> IF i \in elapsed THEN NoHandle ELSE @[i]]]
    BY <1>1 DEF PutBackAll
  <1>5. again \subseteq {h \in HandlesOf(l) : easy[h] = "denied"}
    BY <1>2
  <1> HIDE DEF again
  <1>6. Returned(l, again)
    BY <1>4, <1>5 DEF Returned
  <1>7. easy' \in [Handles -> EasyStates]
    BY <1>4 DEF CMTypeOK, EasyStates
  <1>8. received' \in [Handles -> 0..ChunkNum]
    BY <1>4, <1>t, Kinds DEF CMTypeOK
  <1>9. \A m \in Loops, j \in Datasets : failed_handles_to_retry'[m][j] =
          IF m = l /\ j \in elapsed THEN NoHandle ELSE failed_handles_to_retry[m][j]
    BY <1>4 DEF CMTypeOK
  <1>10. failed_handles_to_retry' \in [Loops -> [Datasets -> Handles \cup {NoHandle}]]
    <2> DEFINE row == [i \in Datasets |-> IF i \in elapsed THEN NoHandle
                                          ELSE failed_handles_to_retry[l][i]]
    <2>1. row \in [Datasets -> Handles \cup {NoHandle}]
      BY DEF CMTypeOK
    <2>2. failed_handles_to_retry' = [failed_handles_to_retry EXCEPT ![l] = row]
      BY <1>4 DEF CMTypeOK
    <2> HIDE DEF row
    <2> QED
      BY <2>1, <2>2 DEF CMTypeOK
  <1> QED
    BY <1>3, <1>6, <1>7, <1>8, <1>9, <1>10

LEMMA RetryLoop ==
    ASSUME LoopInv, setting' = setting, NEW l \in Loops, Retry(l)
    PROVE  LoopInv'
  <1>t. CMTypeOK /\ setting \in Settings /\ TableInv /\ StatusInv
    BY DEF LoopInv, CMTypeOK
  <1>1. /\ pc[l] = "retry"
        /\ num_prev_running' = [num_prev_running EXCEPT ![l] = num_still_running[l]]
        /\ pc' = [pc EXCEPT ![l] = IF num_still_running[l] > 0 THEN "perform" ELSE "done"]
        /\ UNCHANGED <<result, num_still_running, outOfBounds, code, curr_buf_ptr,
                       current_backoff_duration, memory, handed>>
    BY DEF Retry
  <1>2. PICK again : /\ Returned(l, again)
                     /\ easy' \in [Handles -> EasyStates]
                     /\ received' \in [Handles -> 0..ChunkNum]
                     /\ failed_handles_to_retry' \in
                          [Loops -> [Datasets -> Handles \cup {NoHandle}]]
                     /\ \A m \in Loops, j \in Datasets :
                          failed_handles_to_retry'[m][j] =
                            IF m = l /\ HandleOf(l, j) \in again THEN NoHandle
                            ELSE failed_handles_to_retry[m][j]
    BY <1>t, RetryIs
  <1>3. /\ \A h \in again : h \in Handles /\ Loop(h) = l /\ easy[h] = "denied"
        /\ \A h \in Handles : easy'[h] = IF h \in again THEN "active" ELSE easy[h]
    BY <1>2 DEF Returned, HandlesOf
  <1>4. CMTypeOK'
    <2>1. pc' \in [Loops -> {"perform", "read", "retry", "done"}]
      BY <1>1, <1>t DEF CMTypeOK
    <2>2. num_prev_running' \in [Loops -> 0..Count]
      BY <1>1, <1>t DEF CMTypeOK
    <2> QED
      BY <1>1, <1>2, <1>t, <2>1, <2>2, SameSetting DEF CMTypeOK
  <1>5. TableInv'
    <2> SUFFICES ASSUME NEW m \in Loops, NEW j \in Datasets,
                        failed_handles_to_retry'[m][j] # NoHandle
                 PROVE  /\ failed_handles_to_retry'[m][j] = HandleOf(m, j)
                        /\ easy'[HandleOf(m, j)] = "denied"
      BY SameSetting DEF TableInv, NoHandle
    <2>1. HandleOf(m, j) \in Handles /\ Loop(HandleOf(m, j)) = m
      BY <1>t, HandleOfIs
    <2>2. HandleOf(m, j) \notin again
      BY <1>2, <1>3, <2>1
    <2>3. failed_handles_to_retry'[m][j] = failed_handles_to_retry[m][j]
      BY <1>2, <2>2
    <2> QED
      BY <1>3, <1>t, <2>1, <2>2, <2>3 DEF TableInv
  <1>6. StatusInv'
    <2> SUFFICES ASSUME NEW g \in Handles
                 PROVE  /\ result[Loop(g)] = "SUCCEED" =>
                             /\ code[g] = 500 => easy'[g] = "message"
                             /\ easy'[g] # "failed"
                        /\ easy'[g] = "denied" => "503" \in Faults
                        /\ easy'[g] = "message" => code[g] # 0
                        /\ code[g] = 503 => "503" \in Faults
                        /\ easy'[g] = "cleaned" => code[g] = 200
      BY <1>1, SameSetting DEF StatusInv
    <2>1. CASE g \in again
      BY <1>3, <1>t, <2>1 DEF StatusInv
    <2>2. CASE g \notin again
      BY <1>3, <1>t, <2>2 DEF StatusInv
    <2> QED
      BY <2>1, <2>2
  <1>7. ASSUME NEW m \in Loops, m # l PROVE TurnInv(m)' /\ DoneInv(m)'
    <2>1. \A g \in HandlesOf(m) : easy'[g] = easy[g]
      BY <1>3, <1>7 DEF HandlesOf
    <2>2. /\ pc'[m] = pc[m] /\ result'[m] = result[m]
          /\ num_prev_running'[m] = num_prev_running[m]
          /\ num_still_running'[m] = num_still_running[m]
      BY <1>1, <1>7, <1>t DEF CMTypeOK
    <2> QED
      BY <2>1, <2>2, OtherLoop DEF LoopInv
  <1>8. /\ num_still_running[l] \in Nat /\ num_prev_running[l] \in Nat
        /\ num_prev_running'[l] = num_still_running[l]
        /\ pc'[l] = IF num_still_running[l] > 0 THEN "perform" ELSE "done"
    BY <1>1, <1>t, Kinds DEF CMTypeOK
  <1>9. TurnInv(l)'
    BY <1>8 DEF TurnInv
  <1>10. DoneInv(l)'
    <2> SUFFICES ASSUME num_still_running[l] = 0
                 PROVE  /\ MessagesOf(l)' \in {{}, HandlesOf(l)}
                        /\ Faults \subseteq {"error", "cut"} =>
                             MessagesOf(l)' = {} /\ ActiveOf(l)' = {}
      BY <1>8, SameSetting DEF DoneInv
    <2>1. MessagesOf(l)' = MessagesOf(l)
      <3>1. MessagesOf(l)' = {g \in Handles : Loop(g) = l /\ easy'[g] = "message"}
        BY SameSetting DEF MessagesOf
      <3> QED
        BY <1>3, <3>1 DEF MessagesOf
    <2>2. ActiveOf(l) = {}
      <3>1. Cardinality(ActiveOf(l)) = 0
        BY <1>1 DEF LoopInv, TurnInv
      <3>2. ActiveOf(l) \in SUBSET HandlesOf(l)
        BY DEF ActiveOf, HandlesOf
      <3>3. IsFiniteSet(ActiveOf(l))
        BY <1>t, <3>2, HandlesFinite
      <3> QED
        BY <3>1, <3>3, FS_EmptySet
    <2>3. Faults \subseteq {"error", "cut"} => ActiveOf(l)' = {}
      <3> SUFFICES ASSUME Faults \subseteq {"error", "cut"} PROVE ActiveOf(l)' = {}
        OBVIOUS
      <3>1. again = {}
        BY <1>3, <1>t DEF StatusInv
      <3>2. ActiveOf(l)' = {g \in Handles : Loop(g) = l /\ easy'[g] = "active"}
        BY SameSetting DEF ActiveOf
      <3> QED
        BY <1>3, <2>2, <3>1, <3>2 DEF ActiveOf
    <2>4. CASE num_prev_running[l] = 0
      <3>1. MessagesOf(l) = HandlesOf(l) /\ "early" \in Faults
        BY <1>1, <2>4 DEF LoopInv, TurnInv
      <3> QED
        BY <2>1, <3>1
    <2>5. CASE num_prev_running[l] # 0
      <3>1. MessagesOf(l) = {}
        BY <1>1, <2>5 DEF LoopInv, TurnInv, ReadsMessages
      <3> QED
        BY <2>1, <2>3, <3>1
    <2> QED
      BY <2>4, <2>5
  <1> QED
    BY <1>4, <1>5, <1>6, <1>7, <1>9, <1>10, SameSetting DEF LoopInv

\* A handle that goes back starts again at the beginning of its part.
LEMMA RetryData ==
    ASSUME LoopInv, DenialInv, DataInv, HandedInv, setting' = setting,
           NEW l \in Loops, Retry(l)
    PROVE  DenialInv' /\ DataInv' /\ HandedInv'
  <1>t. CMTypeOK /\ setting \in Settings /\ TableInv
    BY DEF LoopInv, CMTypeOK
  <1>1. UNCHANGED <<outOfBounds, code, curr_buf_ptr, memory, handed>>
    BY DEF Retry
  <1>2. PICK again : /\ Returned(l, again)
                     /\ \A m \in Loops, j \in Datasets :
                          failed_handles_to_retry'[m][j] =
                            IF m = l /\ HandleOf(l, j) \in again THEN NoHandle
                            ELSE failed_handles_to_retry[m][j]
    BY <1>t, RetryIs
  <1>3. /\ \A h \in again : h \in Handles /\ easy[h] = "denied"
        /\ \A h \in Handles : /\ easy'[h] = IF h \in again THEN "active" ELSE easy[h]
                              /\ received'[h] = IF h \in again THEN 0 ELSE received[h]
    BY <1>2 DEF Returned, HandlesOf
  <1>4. DenialInv'
    <2> SUFFICES ASSUME NEW h \in Handles, easy'[h] = "denied"
                 PROVE  failed_handles_to_retry'[Loop(h)][Dataset(h)] = h
      BY <1>1, <1>3, SameSetting DEF DenialInv
    <2>1. h \notin again /\ easy[h] = "denied"
      BY <1>3
    <2>2. Loop(h) \in Loops /\ Dataset(h) \in Datasets /\ HandleOf(Loop(h), Dataset(h)) = h
      BY <1>t, HandleIs
    <2> QED
      BY <1>2, <2>1, <2>2 DEF DenialInv
  <1>5. DataInv'
    <2> SUFFICES ASSUME NEW h \in Handles
                 PROVE  /\ easy'[h] = "active" =>
                             /\ received'[h] < ChunkNum
                             /\ curr_buf_ptr[h] = PartOf(h) + received'[h]
                             /\ PrefixIn(h, received'[h], memory[Dataset(h)])
                        /\ easy'[h] \in {"message", "cleaned"} /\ code[h] = 200 =>
                             /\ PrefixIn(h, received'[h], memory[Dataset(h)])
                             /\ "cut" \notin Faults => received'[h] = ChunkNum
      BY <1>1, SameSetting DEF DataInv, PrefixIn, RightCell
    <2>1. CASE h \in again
      <3>1. curr_buf_ptr[h] = PartOf(h) /\ PartOf(h) \in Nat /\ received'[h] = 0
        BY <1>3, <1>t, <2>1, PartIs DEF DenialInv
      <3>2. PrefixIn(h, 0, memory[Dataset(h)])
        BY DEF PrefixIn
      <3> QED
        BY <1>3, <1>t, <2>1, <3>1, <3>2, Kinds
    <2>2. CASE h \notin again
      BY <1>3, <2>2 DEF DataInv
    <2> QED
      BY <2>1, <2>2
  <1>6. HandedInv'
    <2>1. ASSUME NodeNum = 1, NEW h \in Handles, handed[Dataset(h)] # Nothing
          PROVE  easy'[h] = "cleaned" /\ PrefixIn(h, received'[h], handed[Dataset(h)])
      <3>1. easy[h] = "cleaned" /\ PrefixIn(h, received[h], handed[Dataset(h)])
        BY <2>1 DEF HandedInv
      <3>2. h \notin again
        BY <1>3, <3>1
      <3> QED
        BY <1>3, <3>1, <3>2
    <2>2. ASSUME NodeNum > 1, Faults \subseteq {"error"}, handed[0] # Nothing
          PROVE  \A h \in Handles : PrefixIn(h, ChunkNum, handed[0])
      BY <2>2 DEF HandedInv
    <2> QED
      BY <1>1, <2>1, <2>2, SameSetting DEF HandedInv, PrefixIn, RightCell
  <1> QED
    BY <1>4, <1>5, <1>6

(***************************************************************************)
(* The merge of several nodes                                              *)
(***************************************************************************)

LEMMA MergeLoop ==
    ASSUME LoopInv, setting' = setting, Merge
    PROVE  LoopInv'
  <1>t. CMTypeOK /\ setting \in Settings
    BY DEF LoopInv, CMTypeOK
  <1>1. UNCHANGED <<pc, result, num_prev_running, num_still_running,
                    failed_handles_to_retry, outOfBounds, easy, code, received,
                    curr_buf_ptr, current_backoff_duration, memory>>
    BY DEF Merge, loopVars
  <1>2. handed' \in [Datasets -> [0..(BufferSize - 1) -> Values] \cup {Nothing}]
    <2> DEFINE v == [c \in 0..(BufferSize - 1) |-> memory[0][c]]
               T == [0..(BufferSize - 1) -> Values] \cup {Nothing}
    <2>1. 0 \in Datasets
      BY <1>t, Kinds DEF Datasets
    <2>2. \A c \in 0..(BufferSize - 1) : c \in Cells
      <3>1. BufferSize \in Nat /\ ChunkNum \in Nat
        BY <1>t, Kinds DEF BufferSize
      <3> QED
        BY <3>1 DEF Cells
    <2>3. v \in T
      BY <1>t, <2>1, <2>2 DEF CMTypeOK
    <2>4. handed \in [Datasets -> T] /\ handed' = [handed EXCEPT ![0] = v]
      BY <1>t DEF Merge, CMTypeOK
    <2> HIDE DEF v, T
    <2>5. handed' \in [Datasets -> T]
      BY <2>3, <2>4
    <2> QED
      BY <2>5 DEF T
  <1>3. CMTypeOK'
    BY <1>1, <1>2, <1>t, SameSetting DEF CMTypeOK
  <1>4. TableInv' /\ StatusInv'
    BY <1>1, SameSetting DEF LoopInv, TableInv, StatusInv, NoHandle
  <1>5. \A m \in Loops : TurnInv(m)' /\ DoneInv(m)'
    BY <1>1, OtherLoop DEF LoopInv
  <1> QED
    BY <1>3, <1>4, <1>5, SameSetting DEF LoopInv

\* If servers can only answer with errors, loops that report success have
\* every part complete.
LEMMA MergeData ==
    ASSUME LoopInv, DenialInv, DataInv, HandedInv, setting' = setting, Merge
    PROVE  DenialInv' /\ DataInv' /\ HandedInv'
  <1>t. CMTypeOK /\ setting \in Settings
    BY DEF LoopInv, CMTypeOK
  <1>1. UNCHANGED <<failed_handles_to_retry, outOfBounds, easy, code, received,
                    curr_buf_ptr, memory>>
    BY DEF Merge
  <1>2. DenialInv' /\ DataInv'
    BY <1>1, SameSetting DEF DenialInv, DataInv, PrefixIn, RightCell
  <1>3. NodeNum > 1 /\ NodeNum # 1
    BY <1>t, Kinds DEF Merge
  <1>4. ASSUME Faults \subseteq {"error"}, NEW h \in Handles
        PROVE  PrefixIn(h, ChunkNum, handed'[0])
    <2>1. Loop(h) \in Loops /\ Dataset(h) = 0 /\ 0 \in Datasets
      BY <1>3, <1>t, HandleIs
    <2>2. pc[Loop(h)] = "done" /\ result[Loop(h)] = "SUCCEED"
      BY <2>1 DEF Merge
    <2>3. h \notin MessagesOf(Loop(h)) /\ h \notin ActiveOf(Loop(h))
      <3>1. Faults \subseteq {"error", "cut"}
        BY <1>4
      <3> QED
        BY <2>1, <2>2, <3>1 DEF LoopInv, DoneInv
    <2>4. easy[h] \notin {"message", "active"} /\ easy[h] \in EasyStates
      BY <1>t, <2>3 DEF MessagesOf, ActiveOf, CMTypeOK
    <2>5. easy[h] = "cleaned" /\ code[h] = 200
      BY <1>4, <2>2, <2>4 DEF LoopInv, StatusInv, EasyStates
    <2>6. PrefixIn(h, ChunkNum, memory[0])
      BY <1>4, <2>1, <2>5 DEF DataInv
    <2>7. handed'[0] = [c \in 0..(BufferSize - 1) |-> memory[0][c]]
      <3> DEFINE v == [c \in 0..(BufferSize - 1) |-> memory[0][c]]
      <3>1. handed' = [handed EXCEPT ![0] = v] /\ DOMAIN handed = Datasets
        BY <1>t DEF Merge, CMTypeOK
      <3> HIDE DEF v
      <3>2. handed'[0] = v
        BY <2>1, <3>1
      <3> QED
        BY <3>2 DEF v
    <2>8. \A k \in 0..(ChunkNum - 1) : handed'[0][PartOf(h) + k] = memory[0][PartOf(h) + k]
      BY <1>t, <2>7, PartIs
    <2> QED
      BY <2>6, <2>8 DEF PrefixIn
  <1>5. HandedInv'
    BY <1>3, <1>4, SameSetting DEF HandedInv, PrefixIn, RightCell
  <1> QED
    BY <1>2, <1>5

(***************************************************************************)
(* The invariant of the specification                                      *)
(***************************************************************************)

LEMMA InitInv == ASSUME CMInit PROVE CMInv
  <1>t. setting \in Settings
    BY DEF CMInit
  <1>1. CMTypeOK
    <2>1. \A h \in Handles : PartOf(h) \in Cells
      <3> TAKE h \in Handles
      <3>1. PartOf(h) + 0 \in Cells /\ PartOf(h) \in Nat
        BY <1>t, PartIs, Kinds
      <3> QED
        BY <3>1
    <2>2. memory \in [Datasets -> [Cells -> Values]]
      BY DEF CMInit, Values
    <2>3. failed_handles_to_retry \in [Loops -> [Datasets -> Handles \cup {NoHandle}]]
      BY DEF CMInit
    <2>4. /\ num_prev_running \in [Loops -> 0..Count]
          /\ num_still_running \in [Loops -> 0..Count]
          /\ received \in [Handles -> 0..ChunkNum]
      BY <1>t, Kinds DEF CMInit
    <2>5. handed \in [Datasets -> [0..(BufferSize - 1) -> Values] \cup {Nothing}]
      BY DEF CMInit
    <2>6. curr_buf_ptr \in [Handles -> Cells]
      BY <2>1 DEF CMInit
    <2>7. /\ easy \in [Handles -> EasyStates]
          /\ current_backoff_duration \in [Handles -> Nat]
          /\ code \in [Handles -> {0, 200, 503, 500}]
      BY DEF CMInit, EasyStates
    <2>8. /\ pc \in [Loops -> {"perform", "read", "retry", "done"}]
          /\ result \in [Loops -> {"SUCCEED", "FAIL"}] /\ outOfBounds \in BOOLEAN
      BY DEF CMInit
    <2> QED
      BY <1>t, <2>2, <2>3, <2>4, <2>5, <2>6, <2>7, <2>8 DEF CMTypeOK
  <1>2. TableInv
    BY DEF CMInit, TableInv
  <1>3. StatusInv
    BY DEF CMInit, StatusInv
  <1>4. \A l \in Loops : TurnInv(l) /\ DoneInv(l)
    BY DEF CMInit, TurnInv, DoneInv, ActiveOf, HandlesOf
  <1>5. DenialInv
    BY DEF CMInit, DenialInv
  <1>6. DataInv
    <2> SUFFICES ASSUME NEW h \in Handles
                 PROVE  /\ received[h] < ChunkNum
                        /\ curr_buf_ptr[h] = PartOf(h) + received[h]
                        /\ PrefixIn(h, received[h], memory[Dataset(h)])
      BY DEF DataInv, CMInit
    <2>1. received[h] = 0 /\ curr_buf_ptr[h] = PartOf(h) /\ PartOf(h) \in Nat
      BY <1>t, PartIs DEF CMInit
    <2> QED
      BY <1>t, <2>1, Kinds DEF PrefixIn
  <1>7. HandedInv
    <2>1. \A d \in Datasets : handed[d] = Nothing
      BY DEF CMInit
    <2>2. 0 \in Datasets /\ \A h \in Handles : Dataset(h) \in Datasets
      BY <1>t, HandleIs, Kinds DEF Datasets
    <2> QED
      BY <2>1, <2>2 DEF HandedInv
  <1> QED
    BY <1>1, <1>2, <1>3, <1>4, <1>5, <1>6, <1>7 DEF CMInv, LoopInv

LEMMA StutterInv == ASSUME CMInv, UNCHANGED <<cmVars, setting>> PROVE CMInv'
  <1>1. UNCHANGED <<pc, result, num_prev_running, num_still_running,
                    failed_handles_to_retry, outOfBounds, easy, code, received,
                    curr_buf_ptr, current_backoff_duration, memory, handed, setting>>
    BY DEF cmVars
  <1>2. CMTypeOK' /\ TableInv' /\ StatusInv'
    BY <1>1, SameSetting DEF CMInv, LoopInv, CMTypeOK, TableInv, StatusInv, NoHandle
  <1>3. \A m \in Loops : TurnInv(m)' /\ DoneInv(m)'
    BY <1>1, OtherLoop DEF CMInv, LoopInv
  <1>4. DenialsFit => DenialInv' /\ DataInv' /\ HandedInv'
    BY <1>1, SameSetting DEF CMInv, DenialInv, DataInv, HandedInv, PrefixIn, RightCell
  <1> QED
    BY <1>1, <1>2, <1>3, <1>4, SameSetting DEF CMInv, LoopInv

LEMMA NextInv == ASSUME CMInv, CMNext, setting' = setting PROVE CMInv'
  <1>0. LoopInv /\ CMTypeOK /\ (DenialsFit' <=> DenialsFit)
    BY SameSetting DEF CMInv, LoopInv
  <1>1. ASSUME NEW l \in Loops, Perform(l) PROVE CMInv'
    BY <1>0, <1>1, PerformLoop, PerformData DEF CMInv
  <1>2. ASSUME NEW l \in Loops, NEW h \in MessagesOf(l), Read503(l, h) PROVE CMInv'
    <2>1. h \in Handles
      BY <1>2 DEF MessagesOf
    <2> QED
      BY <1>0, <1>2, <2>1, DenialLoop, DenialData DEF CMInv
  <1>3. ASSUME NEW l \in Loops, NEW h \in MessagesOf(l),
               Read200(l, h) \/ CallbackFails(l, h) \/ ReadError(l, h)
        PROVE  CMInv'
    <2>1. PICK s \in {"cleaned", "failed"} : HandleEnds(l, h, s)
      BY <1>3, EndIs
    <2> QED
      BY <1>0, <2>1, EndLoop, EndData DEF CMInv
  <1>4. ASSUME NEW l \in Loops, ReadsNoMore(l) PROVE CMInv'
    <2>1. UNCHANGED <<failed_handles_to_retry, outOfBounds, easy, code, received,
                      curr_buf_ptr, memory, handed>>
      BY <1>4 DEF ReadsNoMore
    <2>2. DenialsFit => DenialInv' /\ DataInv' /\ HandedInv'
      BY <2>1, SameSetting DEF CMInv, DenialInv, DataInv, HandedInv, PrefixIn, RightCell
    <2> QED
      BY <1>0, <1>4, <2>2, ReadsNoMoreLoop DEF CMInv
  <1>5. ASSUME NEW l \in Loops, Retry(l) PROVE CMInv'
    BY <1>0, <1>5, RetryLoop, RetryData DEF CMInv
  <1>6. CASE Merge
    BY <1>0, <1>6, MergeLoop, MergeData DEF CMInv
  <1>7. CASE Finished
    BY <1>7, StutterInv DEF Finished
  <1> QED
    BY <1>1, <1>2, <1>3, <1>4, <1>5, <1>6, <1>7 DEF CMNext, ReadStep

\* CMInv holds in every state of the transfer loops.
THEOREM LoopsInvariant == CMSpec => []CMInv
  <1>1. CMInit => CMInv
    BY InitInv
  <1>2. CMInv /\ [CMNext /\ UNCHANGED setting]_<<cmVars, setting>> => CMInv'
    BY NextInv, StutterInv
  <1> QED
    BY <1>1, <1>2, PTL DEF CMSpec

(***************************************************************************)
(* The theorems                                                            *)
(***************************************************************************)

\* Every variable of the transfer loops keeps its type.
THEOREM LoopsTypeCorrect == CMSpec => []CMTypeOK
  <1>1. CMInv => CMTypeOK
    BY DEF CMInv, LoopInv
  <1> QED
    BY <1>1, LoopsInvariant, PTL

\* The loops read messages only when the number of running handles has
\* changed, and still a loop that reports success has read every answer, or
\* (all of them ended in its first perform) none.
THEOREM NoAnswerIsMissed == CMSpec => []NoAnswerUnread
  <1>1. CMInv => NoAnswerUnread
    BY DEF CMInv, LoopInv, DoneInv, NoAnswerUnread, HandlesOf
  <1> QED
    BY <1>1, LoopsInvariant, PTL

\* An error answer that HANDLE_RESPONSE has seen makes its loop fail.
THEOREM FailuresAreReported == CMSpec => []FailureIsReported
  <1>1. CMInv => FailureIsReported
    BY DEF CMInv, LoopInv, StatusInv, FailureIsReported
  <1> QED
    BY <1>1, LoopsInvariant, PTL

\* With one loop, or servers that do not answer 503, the table of denied
\* handles holds exactly the denied handles, each at its dataset.
THEOREM DeniedHandlesAreFound == CMSpec => [](DenialsFit => RetryTableSound)
  <1>1. CMInv /\ DenialsFit => RetryTableSound
    <2> SUFFICES ASSUME CMInv, DenialsFit PROVE RetryTableSound
      OBVIOUS
    <2>1. TableInv /\ DenialInv
      BY DEF CMInv, LoopInv
    <2> QED
      BY <2>1 DEF TableInv, DenialInv, RetryTableSound
  <1> QED
    BY <1>1, LoopsInvariant, PTL

\* Whatever denials and retries came before, the success callback of a single
\* loop is given what the server sent, each chunk in its place.
THEOREM DataArrivesIntact == CMSpec => []HandedOverIntact
  <1>1. CMInv => HandedOverIntact
    <2> SUFFICES ASSUME CMInv, NodeNum = 1, NEW h \in Handles, handed[Dataset(h)] # Nothing,
                        NEW c \in PartOf(h)..(PartOf(h) + received[h] - 1)
                 PROVE  handed[Dataset(h)][c] = Expected(Dataset(h))[c]
      BY DEF HandedOverIntact
    <2>1. CMTypeOK /\ setting \in Settings /\ HandedInv
      BY DEF CMInv, LoopInv, CMTypeOK, DenialsFit
    <2>2. PrefixIn(h, received[h], handed[Dataset(h)])
      BY <2>1 DEF HandedInv
    <2>3. PartOf(h) = 0 /\ received[h] \in 0..ChunkNum /\ ChunkNum \in Nat
      BY <2>1, PartIs, Kinds DEF CMTypeOK
    <2>4. c \in 0..(received[h] - 1) /\ c \in 0..(ChunkNum - 1) /\ PartOf(h) + c = c
      BY <2>3
    <2>5. handed[Dataset(h)][c] = <<h, c + 1>>
      BY <2>2, <2>4 DEF PrefixIn, RightCell
    <2> QED
      BY <2>1, <2>4, <2>5, ExpectedIs
  <1> QED
    BY <1>1, LoopsInvariant, PTL

\* With several nodes, if no transfer is denied or cut off, the merged buffer
\* is what the servers sent but for the first cell of a part, where the part
\* before it may have left its '\0'.
THEOREM MergeDamageIsConfined ==
    CMSpec => [](Faults \subseteq {"error"} => MergeDamageIsBounded)
  <1>1. CMInv /\ Faults \subseteq {"error"} => MergeDamageIsBounded
    <2> SUFFICES ASSUME CMInv, Faults \subseteq {"error"}, NodeNum > 1,
                        NEW d \in Datasets, handed[d] # Nothing,
                        NEW c \in 0..(BufferSize - 1)
                 PROVE  \/ handed[d][c] = Expected(d)[c]
                        \/ c % ChunkNum = 0 /\ c > 0 /\ handed[d][c] = <<"nul">>
      BY DEF MergeDamageIsBounded
    <2>1. setting \in Settings /\ HandedInv
      BY DEF CMInv, LoopInv, CMTypeOK, DenialsFit
    <2>2. Count = 1 /\ d = 0 /\ NodeNum \in Nat /\ ChunkNum \in Nat \ {0}
      BY <2>1, Kinds DEF Datasets
    <2> DEFINE h == c \div ChunkNum
               k == c % ChunkNum
    <2>3. c \in Nat /\ c < NodeNum * ChunkNum
      <3>1. BufferSize \in Nat /\ BufferSize = NodeNum * ChunkNum
        BY <2>2 DEF BufferSize
      <3> QED
        BY <3>1
    <2>4. h \in Nat /\ k \in 0..(ChunkNum - 1) /\ c = ChunkNum * h + k
      BY <2>2, <2>3
    <2>5. k = c % ChunkNum
      OBVIOUS
    <2> HIDE DEF h, k
    <2>6. h < NodeNum
      <3> SUFFICES ASSUME h >= NodeNum PROVE FALSE
        BY <2>2, <2>4
      <3>1. ChunkNum * h >= ChunkNum * NodeNum
        BY <2>2, <2>4
      <3> QED
        BY <2>2, <2>3, <2>4, <3>1
    <2>7. h \in Handles
      BY <2>2, <2>4, <2>6 DEF Handles
    <2>8. Dataset(h) = 0 /\ PartOf(h) = h * ChunkNum
      BY <2>1, <2>7, HandleIs, PartIs
    <2>9. c = PartOf(h) + k
      BY <2>2, <2>4, <2>8
    <2>10. RightCell(h, handed[0][c], k)
      BY <2>1, <2>2, <2>4, <2>7, <2>9 DEF HandedInv, PrefixIn
    <2>11. Expected(0)[c] = <<h, k + 1>>
      BY <2>1, <2>4, <2>7, <2>8, <2>9, ExpectedIs
    <2>12. k = 0 /\ h > 0 => c > 0
      <3> SUFFICES ASSUME k = 0, h > 0 PROVE c > 0
        OBVIOUS
      <3>1. ChunkNum * h >= ChunkNum * 1
        BY <2>2, <2>4
      <3>2. ChunkNum * 1 = ChunkNum /\ ChunkNum > 0
        BY <2>2
      <3>3. c = ChunkNum * h + 0 /\ ChunkNum * h \in Nat
        BY <2>2, <2>4
      <3>4. ChunkNum * h > 0
        BY <2>2, <3>1, <3>2, <3>3
      <3> QED
        BY <2>3, <3>3, <3>4
    <2> QED
      BY <2>2, <2>5, <2>10, <2>11, <2>12 DEF RightCell
  <1> QED
    BY <1>1, LoopsInvariant, PTL

=============================================================================
