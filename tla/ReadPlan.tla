------------------------------ MODULE ReadPlan ------------------------------
(***************************************************************************)
(* How RV_dataset_read lays out one read before it starts the transfers:   *)
(* for every transfer i (transfer i belongs to dataset i / ServerNodeNum   *)
(* and to node i % ServerNodeNum) what part of the selection is asked for, *)
(* and where in which response buffer the answer goes; and what the caller *)
(* gets when every server has answered.                                    *)
(*                                                                         *)
(* A selection is a sequence with one record per dimension, [start, stop,  *)
(* step] as in the "select" parameter start:stop:step, or All when the     *)
(* whole dataset is read (H5S_ALL: selection_body stays NULL).  An element *)
(* of a dataset is named by its coordinates.                               *)
(***************************************************************************)
EXTENDS SplitRange, Sequences, FiniteSets

CONSTANTS Rank,       \* of every dataset
          Extent,     \* of every dimension of every dataset
          Steps,      \* strides the application uses
          FileTypeSize, MemTypeSize,   \* of an element, in bytes
          MaxCount,   \* bound: datasets per call
          WithAll     \* does the application read whole datasets?

ASSUME PlanAssumption == /\ Rank \in Nat \ {0} /\ Extent \in Nat \ {0}
                         /\ Steps \subseteq Nat \ {0} /\ MaxCount \in Nat
                         /\ FileTypeSize \in Nat \ {0} /\ MemTypeSize \in Nat \ {0}
                         /\ WithAll \in BOOLEAN

ServerNodeNum == n
All == <<>>
Dims == 1..Rank

VARIABLES selections,     \* the selection of each dataset of this call
          t,              \* the transfer being planned (the code's outer i)
          rpc,            \* where RV_dataset_read is
          dim,            \* the dimension that was cut, 0 before
          flag_Node,      \* some dimension could be cut
          requests,       \* what each transfer asks its server for
          buffer,         \* where each answer goes: [base, at], at in bytes
          capacity,       \* bytes allocated for each response buffer
          result          \* what each dataset's caller receives

planVars == <<selections, t, rpc, dim, flag_Node, requests, buffer, capacity, result>>
rpVars == <<offset, count, sum, i, currentStart, starts, ends, Node_Size,
            selections, t, rpc, dim, flag_Node, requests, buffer, capacity,
            result>>

(***************************************************************************)
(* Selections and the order of their elements (row-major)                  *)
(***************************************************************************)
WholeDataset == [d \in Dims |-> [start |-> 0, stop |-> Extent, step |-> 1]]
Whole(s) == IF s = All THEN WholeDataset ELSE s

Length(r) == (r.stop - r.start + r.step - 1) \div r.step

NumPoints(s) == LET p[d \in 0..Rank] == IF d = 0 THEN 1 ELSE p[d - 1] * Length(s[d])
                IN  p[Rank]

\* weight[d] elements lie between two steps of dimension d.
RowMajor(s) ==
    LET weight[d \in Dims] == IF d = Rank THEN 1
                              ELSE weight[d + 1] * Length(s[d + 1])
    IN  [k \in 1..NumPoints(s) |->
           [d \in Dims |-> s[d].start +
              (((k - 1) \div weight[d]) % Length(s[d])) * s[d].step]]

Ranges == {r \in [start : 0..(Extent - 1), stop : 1..Extent, step : Steps] :
             /\ r.start < r.stop
             /\ (r.stop - 1 - r.start) % r.step = 0}   \* stop is the last + 1

Selections == [Dims -> Ranges] \cup (IF WithAll THEN {All} ELSE {})

RPInit == /\ selections \in UNION {[1..c -> Selections] : c \in 1..MaxCount}
          /\ t = 0 /\ rpc = "plan" /\ dim = 0 /\ flag_Node = FALSE
          /\ requests = <<>> /\ buffer = <<>> /\ capacity = <<>>
          /\ result = [d \in DOMAIN selections |-> <<>>]
          /\ offset = 0 /\ count = 0 /\ sum = 0 /\ i = 0 /\ currentStart = 0
          /\ starts = Zero /\ ends = Zero /\ Node_Size = Zero

Node == t % ServerNodeNum
Selection == selections[t \div ServerNodeNum + 1]
Last == t = Len(selections) * ServerNodeNum

(***************************************************************************)
(* Planning transfer t                                                     *)
(***************************************************************************)

\* The first dimension whose END is at least the number of nodes.
CanCut(d) == Selection[d].stop >= ServerNodeNum
FirstDim(d) == CanCut(d) /\ \A e \in Dims : e < d => ~ CanCut(e)

\* sum: the product of the lengths of the other dimensions, stop - start.
Others(d) == LET p[e \in 0..Rank] ==
                   IF e = 0 THEN 1
                   ELSE IF e = d THEN p[e - 1]
                   ELSE p[e - 1] * (Selection[e].stop - Selection[e].start)
             IN  p[Rank]

\* The first transfer of a dataset that has a selection: choose a dimension
\* and call splitRangeAndGetInfo.  The step of the selection is not passed.
StartSplit == /\ rpc = "plan" /\ ~ Last
              /\ Node = 0 /\ Selection # All
              /\ \E d \in Dims : /\ FirstDim(d)
                                 /\ dim' = d
                                 /\ SplitBegin(Selection[d].start,
                                               Selection[d].stop, Others(d))
              /\ flag_Node' = TRUE
              /\ rpc' = "split"
              /\ UNCHANGED <<selections, t, requests, buffer, capacity, result>>

Split == /\ rpc = "split"
         /\ SplitStep
         /\ UNCHANGED planVars

SplitReturns == /\ rpc = "split" /\ i = n
                /\ rpc' = "layout"
                /\ UNCHANGED <<splitVars, selections, t, dim, flag_Node,
                               requests, buffer, capacity, result>>

\* No cut for this transfer: it is not the first of its dataset, the whole
\* dataset is read, or no dimension is long enough.
NoSplit == /\ rpc = "plan" /\ ~ Last
           /\ ~ (Node = 0 /\ Selection # All /\ \E d \in Dims : CanCut(d))
           /\ rpc' = "layout"
           /\ UNCHANGED <<splitVars, selections, t, dim, flag_Node, requests,
                          buffer, capacity, result>>

\* URLs_by_Myself has one entry per node but is indexed by the transfer, and
\* Select_Node is only filled when a dimension was cut: what is read beyond
\* the one and of the other is whatever the memory holds.
Undefined == /\ ServerNodeNum > 1
             /\ t >= ServerNodeNum \/ (Selection # All /\ ~ flag_Node)

\* What vector_to_string wrote for this node: ":1" whatever the step was.
PartRequest == [d \in Dims |-> IF d = dim
                                 THEN [start |-> starts[Node], stop |-> ends[Node], step |-> 1]
                                 ELSE [Selection[d] EXCEPT !.step = 1]]

\* Faulty variant: the last part is forgotten.
total_size_short == LET s[k \in 0..n] == IF k = 0 THEN 0
                                         ELSE s[k - 1] + Node_Size[k - 1] * MemTypeSize
                    IN  s[n - 1]

total_size == LET s[k \in 0..n] == IF k = 0 THEN 0
                                   ELSE s[k - 1] + Node_Size[k - 1] * MemTypeSize
              IN  s[n]

\* Where a part other than the first begins: behind its predecessor.
\* Faulty variant: its own size is added instead of its predecessor's.
PartOffsetOwnSize == buffer[Node].at + Node_Size[Node] * MemTypeSize

PartOffset == buffer[Node].at + Node_Size[Node - 1] * MemTypeSize

Request == CASE Selection = All -> WholeDataset
             [] Selection # All /\ ServerNodeNum > 1 -> PartRequest
             [] OTHER -> Selection

\* Faulty variant: all datasets use the buffer of the first.
FirstBuffer == [base |-> 1, at |-> 0]

NewBuffer == [base |-> Len(capacity) + 1, at |-> 0]

\* Allocate the response buffer with the first transfer of a dataset, point
\* the others behind their predecessor's part, and compose the request.
Layout == /\ rpc = "layout" /\ ~ Undefined
          /\ requests' = Append(requests, Request)
          /\ capacity' = IF Node = 0 THEN Append(capacity, total_size) ELSE capacity
          /\ buffer' = Append(buffer,
                IF Node = 0 THEN NewBuffer
                ELSE [base |-> buffer[Node].base, at |-> PartOffset])
          /\ t' = t + 1
          /\ rpc' = "plan"
          /\ UNCHANGED <<splitVars, selections, dim, flag_Node, result>>

LayoutUndefined == /\ rpc = "layout" /\ Undefined
                   /\ rpc' = "undefined"
                   /\ UNCHANGED <<splitVars, selections, t, dim, flag_Node,
                                  requests, buffer, capacity, result>>

(***************************************************************************)
(* Every server answers its request with the elements start..stop-1 of     *)
(* every dimension, in row-major order, whatever the step is; each answer  *)
(* is stored where its buffer points, and the first npoints elements go to *)
(* the caller.  (That the '\0' behind an answer may land on the first byte *)
(* of the next part is the matter of CurlMulti.)                           *)
(***************************************************************************)
ServerReads(r) == [d \in Dims |-> [r[d] EXCEPT !.step = 1]]

NoElement == [d \in Dims |-> -1]

Merged(d) ==
    LET mine == {k \in DOMAIN buffer : buffer[k].base = d}
        answer == [k \in mine |-> RowMajor(ServerReads(requests[k]))]
        stored(c) == {e \in UNION {{k} \X DOMAIN answer[k] : k \in mine} :
                        buffer[e[1]].at + (e[2] - 1) * FileTypeSize
                          = (c - 1) * FileTypeSize}
    IN  [c \in 1..NumPoints(Whole(selections[d])) |->
           IF stored(c) = {} THEN NoElement
           ELSE LET e == CHOOSE e \in stored(c) : TRUE IN answer[e[1]][e[2]]]

\* Where the data of answer k end; the write callback puts a '\0' behind them.
DataEnd(k) == buffer[k].at + NumPoints(ServerReads(requests[k])) * FileTypeSize

\* Does an answer not fit into the memory?
Overflows == \E k \in DOMAIN buffer : DataEnd(k) > capacity[buffer[k].base]

\* Is a '\0' stored behind the memory?  The callback's is when the data of an
\* answer end where the memory does.  With several servers the reader itself
\* sets buffer[total_size], and total_size is what it has allocated.
Overruns == \/ ServerNodeNum > 1
            \/ \E k \in DOMAIN buffer : DataEnd(k) >= capacity[buffer[k].base]

\* One byte behind calloc()'s memory may be nobody's.
Deliver == /\ rpc = "plan" /\ Last /\ ~ Overflows
           /\ result' = [d \in DOMAIN selections |-> Merged(d)]
           /\ rpc' = "done"
           /\ UNCHANGED <<splitVars, selections, t, dim, flag_Node, requests,
                          buffer, capacity>>

\* The write callback copies without looking at the buffer's size, and what is
\* behind the memory may be somebody's.
DeliverOverflows == /\ rpc = "plan" /\ Last /\ (Overflows \/ Overruns)
                    /\ rpc' = "undefined"
                    /\ UNCHANGED <<splitVars, selections, t, dim, flag_Node,
                                   requests, buffer, capacity, result>>

Stopped == rpc \in {"done", "undefined"} /\ UNCHANGED rpVars

RPNext == \/ StartSplit \/ Split \/ SplitReturns \/ NoSplit
          \/ Layout \/ LayoutUndefined \/ Deliver \/ DeliverOverflows \/ Stopped

RPSpec == RPInit /\ [][RPNext]_rpVars

(***************************************************************************)
(* Properties                                                              *)
(***************************************************************************)
RPTypeOK == /\ rpc \in {"plan", "split", "layout", "done", "undefined"}
            /\ t \in 0..(MaxCount * ServerNodeNum)
            /\ dim \in 0..Rank /\ flag_Node \in BOOLEAN
            /\ Len(requests) = t /\ Len(buffer) = t
            /\ \A k \in DOMAIN buffer : /\ buffer[k].base \in DOMAIN capacity
                                        /\ buffer[k].at \in Nat
            /\ i \in 0..n /\ currentStart \in 0..Extent
            /\ starts \in [Parts -> 0..Extent] /\ ends \in [Parts -> 0..Extent]

InOrder(d) == result[d] = RowMajor(Whole(selections[d]))

\* The caller receives the selected elements in the order of the selection.
MergedInOrder == rpc = "done" => \A d \in DOMAIN selections : InOrder(d)

\* Does the selection take every element between its corners?
Contiguous(s) == \A d \in Dims : Whole(s)[d].step = 1

\* However the range was cut, every element of a contiguous selection
\* reaches the caller exactly once: parts neither overlap nor leave holes in
\* the buffer.
EachElementOnce ==
    rpc = "done" => \A d \in DOMAIN selections : Contiguous(selections[d]) =>
        LET want == RowMajor(Whole(selections[d]))
        IN  {result[d][k] : k \in DOMAIN result[d]} = {want[k] : k \in DOMAIN want}

\* Appending the parts reproduces the row-major order as long as every
\* dimension before the one that was cut contributes a single index.
OuterCutInOrder ==
    (rpc = "done" /\ ServerNodeNum > 1 /\ Contiguous(selections[1])
       /\ \A e \in Dims : e < dim => Length(Whole(selections[1])[e]) = 1)
      => InOrder(1)

\* Where the room of answer k ends: at the next part of the same memory, or
\* with the memory.
RoomEnd(k) == IF k + 1 \in DOMAIN buffer /\ buffer[k + 1].base = buffer[k].base
              THEN buffer[k + 1].at ELSE capacity[buffer[k].base]

AllPlanned == rpc = "plan" /\ Last /\ \A d \in DOMAIN selections : selections[d] # All

\* The data of every answer to a selection stay in the room of that answer:
\* what the write callback stores beyond it is its '\0' and nothing else.
OnlyTerminatorBehind == AllPlanned => \A k \in DOMAIN buffer : DataEnd(k) <= RoomEnd(k)

\* "If the server response is larger than the currently allocated amount for
\* the response buffer, grow the response buffer by a factor of 2", says the
\* write callback: nothing it stores lies behind the memory.
NothingBehindBuffer == AllPlanned => ~ Overflows /\ ~ Overruns
=============================================================================
