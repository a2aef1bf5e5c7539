---------------------------- MODULE ServerPlugin ----------------------------
(***************************************************************************)
(* The XRootD side of the system, H5PluginHandle.cc: ProcessReq and the    *)
(* handlers it dispatches to.  XRootD calls ProcessReq from several        *)
(* threads of one process.  The three handlers that read HDF5 data fork a  *)
(* child and take its answer through a pipe or a shared-memory object, so  *)
(* the state that matters is the operating system's: descriptor tables     *)
(* (one per process, the lowest free number is handed out, fork copies     *)
(* the table), pipes (end of file once no process holds a writing end),    *)
(* shared-memory objects, and children that have ended but not been        *)
(* waited for.                                                             *)
(*                                                                         *)
(* One HDF5 file with one dataset of Size units stands for the file        *)
(* system.  A handler that stays in the server process enters HDF5 in one  *)
(* step, and has done there what it does, and answered, in the next.  In   *)
(* between other handlers fork.  HDF5 is built thread-safe (readme.md),    *)
(* with one lock: a child forked while another thread holds it inherits a  *)
(* lock that nobody in it will release.                                    *)
(***************************************************************************)
EXTENDS Integers, Sequences, FiniteSets, SequencesExt, FiniteSetsExt, Functions

CONSTANTS MaxRequests,  \* bound: requests that ever arrive
          Kinds,        \* the requests clients send, a subset of AllKinds
          MaxFd,        \* bound: the process may hold descriptors 1..MaxFd (0 is none)
          Others,       \* how many of them other parts of the server may hold
          Size,         \* units in the dataset
          PipeSize,     \* units a pipe holds before a writer blocks
          MaxBuffer,    \* MAX_DATA_BUFFER, in units
          Faults        \* may calls fail and children be killed?

AllKinds == {"create", "write", "delete", "dataset", "root", "info", "whole", "select"}

ASSUME ServerAssumption ==
    /\ {MaxRequests, MaxFd, Size, PipeSize, MaxBuffer} \subseteq Nat \ {0}
    /\ Kinds \subseteq AllKinds
    /\ Others \subseteq 0..MaxFd
    /\ Faults \in BOOLEAN

Ids    == 1..MaxRequests   \* a request: the activation of ProcessReq that serves it on
                           \* some thread, the child it forks, its pipe and its shm name
Server == 0
Procs  == {Server} \union Ids
Fds    == 1..MaxFd
NoFd   == 0
Free   == [obj |-> 0, end |-> "none"]
Other  == [obj |-> 0, end |-> "other"]     \* a socket, an open file
Ends   == [obj : Ids, end : {"r", "w", "shm"}]

VARIABLES
    file,     \* "absent", "bare" (HDF5 without the dataset) or "full"
    pc, loc,  \* of each request: where its handler is, and its local variables
    tab,      \* of each process: its descriptor table
    pipe,     \* of each pipe: the items written and not yet read
    shm,      \* of each object: "none", "made" (0 bytes), "sized" (zeros) or "filled"
    child,    \* of each child: where it is and what it has read and written
    ans,      \* of each request: the answers its client has been sent
    strayed,  \* history: requests whose descriptor another request's close() hit
    up        \* the server process runs

vars == <<file, pc, loc, tab, pipe, shm, child, ans, strayed, up>>
osVars == <<tab, pipe, shm, child, strayed>>

-----------------------------------------------------------------------------
(* Descriptors. *)

NoChild == [kind |-> "none", st |-> "none",
            r |-> NoFd, w |-> NoFd,         \* its copies of the numbers
            stuck |-> FALSE,                         \* does it find HDF5's lock taken
            want |-> 0, ok |-> TRUE,                 \* units read; was there memory for them
            sent |-> 0, fin |-> FALSE]               \* units written; did it finish its work
Ended(i) == child[i].st \in {"ended", "reaped"}

NoLocals == [r |-> NoFd, w |-> NoFd, size |-> 0, got |-> <<>>]

FreeFds(p) == {f \in Fds : tab[p][f] = Free}
Held(e)    == {p \in Procs : \E f \in Fds : tab[p][f] = e}
ReadEnd(i)  == [obj |-> i, end |-> "r"]
WriteEnd(i) == [obj |-> i, end |-> "w"]
ShmEnd(i)   == [obj |-> i, end |-> "shm"]

\* What process p reaches through number f.
At(p, f) == IF f = NoFd THEN Free ELSE tab[p][f]

NoTable == [f \in Fds |-> Free]
Without(table, fs) == [f \in Fds |-> IF f \in fs THEN Free ELSE table[f]]

\* close() of the numbers fs on behalf of request i.  A number that is free
\* is refused (EBADF) and the refusal is not looked at; one that meanwhile
\* names another request's descriptor closes that.
CloseFor(i, fs) ==
    /\ tab' = [tab EXCEPT ![Server] = Without(@, fs)]
    /\ strayed' = strayed \union ({tab[Server][f].obj : f \in fs} \ {0, i})

-----------------------------------------------------------------------------
(* Answers. *)

Answer(code, got, wire) == [code |-> code, got |-> got, wire |-> wire]
Plain(code) == Answer(code, <<>>, <<>>)
Dropped == Plain(0)      \* ProcessReq returned 1 without a response

\* Faulty variant: the remainder is forgotten.
PiecesDropTail(n) ==
    IF n <= MaxBuffer THEN <<n>> ELSE [c \in 1..(n \div MaxBuffer) |-> MaxBuffer]

\* The lengths of the pieces an answer of n units is sent in: one response up
\* to MAX_DATA_BUFFER, else n / MAX_DATA_BUFFER + 1 chunks.
Pieces(n) ==
    IF n <= MaxBuffer THEN <<n>>
    ELSE LET numChunks == n \div MaxBuffer + 1
         IN  [c \in 1..numChunks |->
                 IF c = numChunks THEN n - (c - 1) * MaxBuffer ELSE MaxBuffer]

\* COMPRESSION names no codec (n units are sent as they are), or one of three
\* codecs makes at most its bound of them, one unit more than n.  (COMPRESSION
\* and COMPRESSION_LEVEL are set: std::stoi of a NULL string ends the server.)
Coded(n) == {n} \union 1..(n + 1)

Reply(i, a) == ans' = [ans EXCEPT ![i] = Append(@, a)]
Goto(i, l) == pc' = [pc EXCEPT ![i] = l]
Done(i) == Goto(i, "over") /\ loc' = [loc EXCEPT ![i] = NoLocals]

AtLabel(i, l) == up /\ pc[i] = l

-----------------------------------------------------------------------------
Init ==
    /\ file \in {"absent", "full"}
    /\ pc  = [i \in Ids |-> "idle"]
    /\ loc = [i \in Ids |-> NoLocals]
    /\ \E others \in Others :
          tab = [p \in Procs |-> IF p = Server
                                 THEN [f \in Fds |-> IF f <= others THEN Other ELSE Free]
                                 ELSE NoTable]
    /\ pipe = [i \in Ids |-> <<>>]
    /\ shm  = [i \in Ids |-> "none"]
    /\ child = [i \in Ids |-> NoChild]
    /\ ans  = [i \in Ids |-> <<>>]
    /\ strayed = {}
    /\ up = TRUE

\* ProcessReq up to the dispatch: all but PUT need an HDF5 file now.
Arrive(i, k) ==
    /\ AtLabel(i, "idle")
    /\ \A j \in 1..(i - 1) : pc[j] # "idle"
    /\ IF k \notin {"create", "write"} /\ file = "absent"
       THEN Reply(i, Plain(404)) /\ Goto(i, "over")
       ELSE Goto(i, k) /\ UNCHANGED ans
    /\ UNCHANGED <<file, loc, osVars, up>>

\* The handlers that stay in the server process, and where they are once they
\* have entered HDF5.
Entered == [create |-> "creating", write |-> "writing", dataset |-> "adding"]

EnterHdf5(i) ==
    /\ up /\ pc[i] \in DOMAIN Entered
    /\ Goto(i, Entered[pc[i]])
    /\ UNCHANGED <<file, loc, osVars, ans, up>>

\* The requests whose threads are among their HDF5 calls: during a call one
\* of them holds the lock, between calls nobody need.
InHdf5 == {j \in Ids : pc[j] \in {"creating", "writing", "adding"}}

InServer(i, l, f, code) ==
    /\ AtLabel(i, l)
    /\ file' = f
    /\ Reply(i, Plain(code))
    /\ Done(i)
    /\ UNCHANGED <<osVars, up>>

\* Xrd_create_file: H5Fcreate's result is not looked at, stat()'s is.
CreateFile(i) ==
    \E f \in {"bare"} \union (IF Faults THEN {file} ELSE {}) :
        InServer(i, "creating", f, IF f = "absent" THEN 400 ELSE 201)

\* Xrd_write_to_dataset returns 1 whatever HDF5 said.
WriteDataset(i) == InServer(i, "writing", file, 200)

\* Xrd_delete_file.
DeleteFile(i) ==
    \/ InServer(i, "delete", "absent", IF file = "absent" THEN 400 ELSE 200)
    \/ Faults /\ InServer(i, "delete", file, 400)

\* Xrd_create_dataset returns at once when the document is not JSON, or lacks
\* a name, a shape or a type it knows.  After that the HDF5 results are not
\* looked at; the id is set when stat() finds the file.
RefuseDataset(i) == InServer(i, "dataset", file, 400)

CreateDataset(i) ==
    \E f \in {IF file = "absent" THEN file ELSE "full"} \union (IF Faults THEN {file} ELSE {}) :
        InServer(i, "adding", f, IF file = "absent" THEN 400 ELSE 201)

\* Xrd_get_file_info.
RootInfo(i) == InServer(i, "root", file, IF file = "absent" THEN 400 ELSE 200)

-----------------------------------------------------------------------------
(* Fork. *)

\* fork(): the child gets a copy of the table, and of HDF5's lock, which may
\* be held while some other request is in HDF5.
ForkTo(i, k, l) ==
    /\ \E stuck \in {FALSE} \union (IF InHdf5 = {} THEN {} ELSE {TRUE}) :
          child' = [child EXCEPT ![i] = [NoChild EXCEPT !.kind = k, !.st = k, !.stuck = stuck,
                                                        !.r = loc[i].r, !.w = loc[i].w]]
    /\ tab' = [tab EXCEPT ![i] = tab[Server]]
    /\ Goto(i, l)
    /\ UNCHANGED <<file, loc, pipe, shm, ans, strayed, up>>

\* fork() fails: the handler answers and forgets what it had opened.
ForkFails(i, a) ==
    /\ Faults
    /\ Reply(i, a)
    /\ Done(i)
    /\ UNCHANGED <<file, osVars, up>>

\* pipe() of a handler: the two lowest free numbers, or EMFILE.
MakePipe(i, l, refusal) ==
    LET free == FreeFds(Server)
        r == Min(free)
        w == Min(free \ {r})
    IN
    IF Cardinality(free) < 2
    THEN /\ Reply(i, refusal)
         /\ Done(i)
         /\ UNCHANGED <<file, osVars, up>>
    ELSE /\ tab' = [tab EXCEPT ![Server] = [@ EXCEPT ![r] = ReadEnd(i), ![w] = WriteEnd(i)]]
         /\ loc' = [loc EXCEPT ![i].r = r, ![i].w = w]
         /\ Goto(i, l)
         /\ UNCHANGED <<file, pipe, shm, child, ans, strayed, up>>

\* read() on a pipe: the next item; nothing at end of file; blocked otherwise.
Readable(f) == At(Server, f).end = "r" /\ pipe[At(Server, f).obj] # <<>>
AtEof(f) == /\ At(Server, f).end = "r"
            /\ pipe[At(Server, f).obj] = <<>>
            /\ Held(WriteEnd(At(Server, f).obj)) = {}
BadRead(f) == At(Server, f).end # "r"
NextItem(f) == Head(pipe[At(Server, f).obj])
Consume(f) == pipe' = [pipe EXCEPT ![At(Server, f).obj] = Tail(@)]

-----------------------------------------------------------------------------
\* A signal ends the server with all its threads; its children go on.
Crash ==
    /\ up' = FALSE
    /\ tab' = [tab EXCEPT ![Server] = NoTable]
    /\ UNCHANGED <<file, pc, loc, pipe, shm, child, ans, strayed>>

-----------------------------------------------------------------------------
(* The child of any handler. *)

\* _exit(), exit(), abort() or a signal: the table goes with the process.
Exit(i, fin) ==
    /\ child' = [child EXCEPT ![i].st = "ended", ![i].fin = fin]
    /\ tab' = [tab EXCEPT ![i] = NoTable]
    /\ UNCHANGED <<file, pc, loc, pipe, shm, ans, strayed, up>>

ChildDies(i) ==
    /\ Faults
    /\ child[i].st # "none" /\ ~Ended(i)
    /\ Exit(i, FALSE)

\* The dataset is read, or nothing is: the HDF5 results are not looked at and
\* a size of zero is what an invalid identifier yields.  For a large selection
\* the buffer may be NULL.  H5Fopen never returns when the lock is taken.
ChildReads(i) ==
    /\ child[i].st \in {"select", "whole"} /\ ~child[i].stuck
    /\ \E ok \in {TRUE} \union (IF Faults THEN {FALSE} ELSE {}) :
          child' = [child EXCEPT ![i].st = IF @ = "select" THEN "selectSize" ELSE "wholeSize",
                                 ![i].ok = ok,
                                 ![i].want = IF file = "full" THEN Size ELSE 0]
    /\ tab' = [tab EXCEPT ![i] = Without(@, {child[i].r})]
    /\ UNCHANGED <<file, pc, loc, pipe, shm, ans, strayed, up>>

\* write() to a pipe: there is a reader and room, or there is no reader.
Target(i) == At(i, child[i].w)
\* Faulty variant: a writer never blocks.
WritableAlways(i, n) == /\ Target(i).end = "w"
                        /\ Held(ReadEnd(Target(i).obj)) # {}

Writable(i, n) == /\ Target(i).end = "w"
                  /\ Held(ReadEnd(Target(i).obj)) # {}
                  /\ Len(pipe[Target(i).obj]) + n <= PipeSize
BrokenPipe(i) == \/ Target(i).end # "w"
                 \/ Held(ReadEnd(Target(i).obj)) = {}
Item(i, n) == [src |-> i, size |-> n]
Write(i, items) == pipe' = [pipe EXCEPT ![Target(i).obj] = @ \o items]

SelectSize(i) ==
    /\ child[i].st = "selectSize"
    /\ Writable(i, 1)
    /\ Write(i, <<Item(i, child[i].want)>>)
    /\ child' = [child EXCEPT ![i].st = "selectData"]
    /\ UNCHANGED <<file, pc, loc, tab, shm, ans, strayed, up>>

SelectUnit(i) ==
    /\ child[i].st = "selectData"
    /\ child[i].sent < child[i].want
    /\ child[i].ok
    /\ Writable(i, 1)
    /\ Write(i, <<Item(i, 0)>>)
    /\ child' = [child EXCEPT ![i].sent = @ + 1]
    /\ UNCHANGED <<file, pc, loc, tab, shm, ans, strayed, up>>

\* A write fails (EPIPE, or EFAULT from a NULL buffer): _exit(1).
SelectGivesUp(i) ==
    \/ /\ child[i].st \in {"selectSize", "selectData"}
       /\ child[i].st = "selectData" => child[i].sent < child[i].want
       /\ BrokenPipe(i)
       /\ Exit(i, FALSE)
    \/ /\ child[i].st = "selectData" /\ child[i].sent < child[i].want
       /\ ~child[i].ok
       /\ Exit(i, FALSE)

SelectEnds(i) ==
    /\ child[i].st = "selectData"
    /\ child[i].sent = child[i].want
    /\ Exit(i, TRUE)

\* The child of a whole read writes its pointer and the size and then goes on
\* where its parent does: it answers the client itself, with its own DataSize
\* of 0, and frees a pointer it never set.
WholeWrites(i) ==
    /\ \E n \in {child[i].want} \union {0} :
          /\ \/ child[i].st = "wholeSize"  /\ n = 0
                /\ child' = [child EXCEPT ![i].st = "wholeSize2"]
             \/ child[i].st = "wholeSize2" /\ n = child[i].want
                /\ child' = [child EXCEPT ![i].st = "cloneReply"]
          /\ \/ Writable(i, 1) /\ Write(i, <<Item(i, n)>>)
             \/ BrokenPipe(i) /\ UNCHANGED pipe
    /\ UNCHANGED <<file, pc, loc, tab, shm, ans, strayed, up>>

CloneReplies(i) ==
    /\ child[i].st = "cloneReply"
    /\ child' = [child EXCEPT ![i].st = "clone"]
    /\ Reply(i, Answer(200, <<>>, Pieces(0)))
    /\ UNCHANGED <<file, pc, loc, tab, pipe, shm, strayed, up>>

CloneAborts(i) == child[i].st = "clone" /\ Exit(i, FALSE)

\* exit() of a child that used HDF5 runs the library's own exit handler, which
\* takes the lock too.
ExitsThroughHdf5(i, fin) ==
    IF child[i].stuck
    THEN /\ child' = [child EXCEPT ![i].st = "infoExit"]
         /\ tab' = [tab EXCEPT ![i] = Without(@, {child[i].r})]
    ELSE /\ child' = [child EXCEPT ![i].st = "ended", ![i].fin = fin]
         /\ tab' = [tab EXCEPT ![i] = NoTable]

\* The child of an information request: stat(), whose failure leaves HDF5
\* alone, the HDF5 calls, ftruncate(), then two copies.
InfoTruncates(i) ==
    /\ child[i].st = "info"
    /\ child[i].stuck => file = "absent"
    /\ IF At(i, child[i].r).end = "shm"
       THEN /\ shm' = [shm EXCEPT ![At(i, child[i].r).obj] = "sized"]
            /\ child' = [child EXCEPT ![i].st = "infoCopy"]
            /\ UNCHANGED tab
       ELSE ExitsThroughHdf5(i, FALSE) /\ UNCHANGED shm
    /\ UNCHANGED <<file, pc, loc, pipe, ans, strayed, up>>

InfoCopies(i) ==
    /\ child[i].st = "infoCopy"
    /\ shm' = [shm EXCEPT ![At(i, child[i].r).obj] = "filled"]
    /\ ExitsThroughHdf5(i, TRUE)
    /\ UNCHANGED <<file, pc, loc, pipe, ans, strayed, up>>

-----------------------------------------------------------------------------
(* The parent: GET of a selection. *)

SelectPipe(i) == AtLabel(i, "select") /\ MakePipe(i, "selectFork", Dropped)

SelectFork(i) ==
    /\ AtLabel(i, "selectFork")
    /\ ForkTo(i, "select", "selectClose") \/ ForkFails(i, Dropped)

\* The handler's own copy of the writing end.
ClosesWriteEnd(i, l) ==
    /\ CloseFor(i, {loc[i].w})
    /\ Goto(i, l)
    /\ UNCHANGED <<file, loc, pipe, shm, child, ans, up>>

SelectClose(i) == AtLabel(i, "selectClose") /\ ClosesWriteEnd(i, "selectSize")

\* An early return: the reading end is closed and the child is not waited for.
GivesUp(i) ==
    /\ CloseFor(i, {loc[i].r})
    /\ Reply(i, Dropped)
    /\ Done(i)
    /\ UNCHANGED <<file, pipe, shm, child, up>>

\* At end of file read() returns 0 and DataSize stays 0.
SelectReadSize(i) ==
    /\ AtLabel(i, "selectSize")
    /\ \/ /\ Readable(loc[i].r)
          /\ Consume(loc[i].r)
          /\ loc' = [loc EXCEPT ![i].size = NextItem(loc[i].r).size]
          /\ Goto(i, "selectAlloc")
          /\ UNCHANGED <<file, tab, shm, child, ans, strayed, up>>
       \/ /\ AtEof(loc[i].r)
          /\ Goto(i, "selectAlloc")
          /\ UNCHANGED <<file, loc, osVars, ans, up>>
       \/ BadRead(loc[i].r) /\ GivesUp(i)

\* Faulty variant: the child is waited for before its data are read.
SelectAllocWaits(i) ==
    /\ AtLabel(i, "selectAlloc") /\ Ended(i)
    /\ Goto(i, "selectData")
    /\ UNCHANGED <<file, loc, osVars, ans, up>>

SelectAlloc(i) ==
    /\ AtLabel(i, "selectAlloc")
    /\ \/ Goto(i, "selectData") /\ UNCHANGED <<file, loc, osVars, ans, up>>
       \/ Faults /\ GivesUp(i)

\* The read loop.  Its condition is bytes_read < DataSize alone: read() that
\* returns 0 at end of file leaves everything as it is, a stuttering step.
SelectRead(i) ==
    /\ AtLabel(i, "selectData")
    /\ Len(loc[i].got) < loc[i].size
    /\ \/ /\ Readable(loc[i].r)
          /\ Consume(loc[i].r)
          /\ loc' = [loc EXCEPT ![i].got = Append(@, NextItem(loc[i].r).src)]
          /\ UNCHANGED <<file, pc, tab, shm, child, ans, strayed, up>>
       \/ BadRead(loc[i].r) /\ GivesUp(i)

\* Faulty variant: one read() is taken for all of the data.
SelectRestOneRead(i) ==
    /\ AtLabel(i, "selectData")
    /\ loc[i].got # <<>> \/ loc[i].size = 0
    /\ CloseFor(i, {loc[i].r})
    /\ Goto(i, "selectWait")
    /\ UNCHANGED <<file, loc, pipe, shm, child, ans, up>>

\* Faulty variant: the reading end stays open.
SelectRestKeepsOpen(i) ==
    /\ AtLabel(i, "selectData")
    /\ Len(loc[i].got) = loc[i].size
    /\ Goto(i, "selectWait")
    /\ UNCHANGED <<file, loc, osVars, ans, up>>

SelectRest(i) ==
    /\ AtLabel(i, "selectData")
    /\ Len(loc[i].got) = loc[i].size
    /\ CloseFor(i, {loc[i].r})
    /\ Goto(i, "selectWait")
    /\ UNCHANGED <<file, loc, pipe, shm, child, ans, up>>

\* Faulty variant: nobody waits.
WaitsForNobody(i, l) == Goto(i, l) /\ UNCHANGED <<file, loc, osVars, ans, up>>

\* waitpid(pid): returns at once when somebody else has reaped the child.
WaitsFor(i, l) ==
    /\ Ended(i)
    /\ child' = [child EXCEPT ![i].st = "reaped"]
    /\ Goto(i, l)
    /\ UNCHANGED <<file, loc, tab, pipe, shm, ans, strayed, up>>

SelectWait(i) == AtLabel(i, "selectWait") /\ WaitsFor(i, "selectSend")

\* Compression, which may fail, and the answer.
SelectSend(i) ==
    /\ AtLabel(i, "selectSend")
    /\ \/ \E n \in Coded(loc[i].size) :
             Reply(i, Answer(200, loc[i].got, Pieces(n)))
       \/ Faults /\ Reply(i, Dropped)
    /\ Done(i)
    /\ UNCHANGED <<file, osVars, up>>

-----------------------------------------------------------------------------
(* The parent: GET of a dataset's description. *)

InfoOpen(i) ==
    LET fd == Min(FreeFds(Server))
    IN
    /\ AtLabel(i, "info")
    /\ IF FreeFds(Server) = {}
       THEN /\ Reply(i, Plain(400))
            /\ Done(i)
            /\ UNCHANGED <<file, osVars, up>>
       ELSE /\ tab' = [tab EXCEPT ![Server][fd] = ShmEnd(i)]
            /\ shm' = [shm EXCEPT ![i] = "made"]
            /\ loc' = [loc EXCEPT ![i].r = fd]
            /\ Goto(i, "infoFork")
            /\ UNCHANGED <<file, pipe, child, ans, strayed, up>>

InfoFork(i) ==
    /\ AtLabel(i, "infoFork")
    /\ ForkTo(i, "info", "infoWait") \/ ForkFails(i, Plain(400))

InfoWait(i) == AtLabel(i, "infoWait") /\ WaitsFor(i, "infoMap")

\* The mapping is used without a look at what mmap() returned or at the
\* object's length: a failed mapping or an object of no length is a signal
\* that ends the server.
InfoMap(i) ==
    LET e == At(Server, loc[i].r) IN
    /\ AtLabel(i, "infoMap")
    /\ IF e.end = "shm" /\ shm[e.obj] \in {"sized", "filled"}
       THEN /\ loc' = [loc EXCEPT ![i].got = IF shm[e.obj] = "filled" THEN <<e.obj>> ELSE <<>>]
            /\ Goto(i, "infoClose")
            /\ UNCHANGED <<file, osVars, ans, up>>
       ELSE Crash

InfoClose(i) ==
    /\ AtLabel(i, "infoClose")
    /\ CloseFor(i, {loc[i].r})
    /\ Goto(i, "infoCloseAgain")
    /\ UNCHANGED <<file, loc, pipe, shm, child, ans, up>>

\* shm_unlink(), the second close() of the same number, and the answer.
InfoSend(i) ==
    /\ AtLabel(i, "infoCloseAgain")
    /\ shm' = [shm EXCEPT ![i] = "none"]
    /\ CloseFor(i, {loc[i].r})
    /\ Reply(i, Answer(200, loc[i].got, Pieces(Len(loc[i].got))))
    /\ Done(i)
    /\ UNCHANGED <<file, pipe, child, up>>

-----------------------------------------------------------------------------
(* The parent: GET of a whole dataset. *)

WholePipe(i) == AtLabel(i, "whole") /\ MakePipe(i, "wholeFork", Plain(400))

WholeFork(i) ==
    /\ AtLabel(i, "wholeFork")
    /\ ForkTo(i, "whole", "wholeClose") \/ ForkFails(i, Plain(400))

WholeClose(i) == AtLabel(i, "wholeClose") /\ ClosesWriteEnd(i, "wholePointer")

\* Two reads, whose results are not looked at: a pointer and DataSize.
WholeRead(i) ==
    /\ AtLabel(i, "wholePointer") \/ AtLabel(i, "wholeSize")
    /\ \/ /\ Readable(loc[i].r)
          /\ Consume(loc[i].r)
          /\ loc' = [loc EXCEPT ![i].size = NextItem(loc[i].r).size]
       \/ (AtEof(loc[i].r) \/ BadRead(loc[i].r)) /\ UNCHANGED <<pipe, loc>>
    /\ Goto(i, IF pc[i] = "wholePointer" THEN "wholeSize" ELSE "wholeWait")
    /\ UNCHANGED <<file, tab, shm, child, ans, strayed, up>>

\* wait(NULL): any child of the server will do.  There always is one: whoever
\* took the child of this request left its own, or a third one, behind.
WholeWait(i) ==
    /\ AtLabel(i, "wholeWait")
    /\ \E c \in Ids : /\ child[c].st = "ended"
                     /\ child' = [child EXCEPT ![c].st = "reaped"]
    /\ Goto(i, "wholeSend")
    /\ UNCHANGED <<file, loc, tab, pipe, shm, ans, strayed, up>>

\* The pointer is the child's.  In this process it names whatever it names:
\* sending from it and freeing it answers with garbage (0), ends the server,
\* or both.  The reading end stays open.
WholeSend(i) ==
    /\ AtLabel(i, "wholeSend")
    /\ \/ /\ Reply(i, Answer(200, [n \in 1..loc[i].size |-> 0], Pieces(loc[i].size)))
          /\ Done(i)
          /\ UNCHANGED <<file, osVars, up>>
       \/ Crash

-----------------------------------------------------------------------------
HandlerStep(i) ==
    \/ EnterHdf5(i) \/ CreateFile(i) \/ WriteDataset(i) \/ RefuseDataset(i) \/ CreateDataset(i)
    \/ DeleteFile(i) \/ RootInfo(i)
    \/ SelectPipe(i) \/ SelectFork(i) \/ SelectClose(i) \/ SelectReadSize(i) \/ SelectAlloc(i)
    \/ SelectRead(i) \/ SelectRest(i) \/ SelectWait(i) \/ SelectSend(i)
    \/ InfoOpen(i) \/ InfoFork(i) \/ InfoWait(i) \/ InfoMap(i) \/ InfoClose(i) \/ InfoSend(i)
    \/ WholePipe(i) \/ WholeFork(i) \/ WholeClose(i) \/ WholeRead(i) \/ WholeWait(i)
    \/ WholeSend(i)

ChildStep(i) ==
    \/ ChildReads(i) \/ SelectSize(i) \/ SelectUnit(i) \/ SelectGivesUp(i) \/ SelectEnds(i)
    \/ WholeWrites(i) \/ CloneReplies(i) \/ InfoTruncates(i) \/ InfoCopies(i)

Next ==
    \/ \E i \in Ids : HandlerStep(i) \/ \E k \in Kinds : Arrive(i, k)
    \/ \E i \in Ids : ChildStep(i) \/ CloneAborts(i) \/ ChildDies(i)

Spec == Init /\ [][Next]_vars

\* The operating system runs every thread and every child; requests need not
\* come and nothing has to fail.  What a child waits for that is stuck in HDF5
\* never happens: it has no step to be fair to.
FairSpec ==
    /\ Spec
    /\ \A i \in Ids : WF_vars(HandlerStep(i))
    /\ \A i \in Ids : WF_vars(ChildStep(i))

-----------------------------------------------------------------------------
(* Properties. *)

\* The types of the state.
SPTypeOK ==
    /\ file \in {"absent", "bare", "full"}
    /\ \A i \in Ids : {loc[i].r, loc[i].w} \subseteq 0..MaxFd
    /\ tab \in [Procs -> [Fds -> Ends \union {Free, Other}]]
    /\ \A i \in Ids : Len(pipe[i]) <= PipeSize /\ child[i].sent <= child[i].want
    /\ shm \in [Ids -> {"none", "made", "sized", "filled"}]
    /\ strayed \subseteq Ids
    /\ up \in BOOLEAN

InProgress == {i \in Ids : pc[i] \notin {"idle", "over"}}
Answers(i, code) == {a \in Range(ans[i]) : a.code = code}

\* While no close() has hit another request's descriptor: what a selection is
\* answered with was written by its own child, and is all the child had read;
\* the only other answer is the empty one of a child that ended before it had
\* written the size.
AnswersAreOwn ==
    strayed = {} =>
        \A i \in Ids : child[i].kind = "select" =>
            \A a \in Answers(i, 200) :
                /\ Range(a.got) \subseteq {i}
                /\ \/ Len(a.got) = child[i].want
                   \/ a.got = <<>> /\ Ended(i) /\ ~child[i].fin /\ child[i].sent = 0

\* Where an answer ends that is cut off at every MAX_DATA_BUFFER.
EndOf(wire) == IF wire = <<>> THEN 0 ELSE (Len(wire) - 1) * MaxBuffer + wire[Len(wire)]

\* Every piece of an answer but the last is MAX_DATA_BUFFER long, the last is no
\* longer, and it ends where the answer does.
PiecesCover ==
    \A i \in Ids : \A a \in Answers(i, 200) :
        LET n == EndOf(a.wire) IN
        /\ \A c \in DOMAIN a.wire :
              a.wire[c] <= MaxBuffer /\ (c < Len(a.wire) => a.wire[c] = MaxBuffer)
        /\ child[i].kind # "select" => n = Len(a.got)
        /\ child[i].kind = "select" => n \in Coded(Len(a.got))

\* A descriptor of the server belongs to a request in progress, or to one
\* whose fork failed, or is the reading end a whole read leaves behind.
DescriptorsAccounted ==
    strayed = {} /\ up =>
        \A f \in Fds : LET e == tab[Server][f] IN
            \/ e \in {Free, Other}
            \/ e.obj \in InProgress
            \/ child[e.obj].st = "none"
            \/ child[e.obj].kind = "whole" /\ e.end = "r"

\* A child that has ended is waited for by the request that forked it, unless
\* that returned early, or read a whole dataset.
ChildrenWaitedFor ==
    up => \A i \in Ids : child[i].st = "ended" =>
        \/ i \in InProgress
        \/ child[i].kind = "whole"
        \/ Dropped \in Range(ans[i])

\* What a request has opened and forked does not outlive it, but for these.
NothingLeftBehind == DescriptorsAccounted /\ ChildrenWaitedFor

\* Every request is answered or dropped: except a whole read (which waits for
\* a child that need not end), one whose child was lost or forked while HDF5's
\* lock was held, and after a stray close or with the server gone.
RequestsEnd ==
    \A i \in Ids :
        (i \in InProgress) ~> \/ i \notin InProgress
                              \/ child[i].kind = "whole"
                              \/ Ended(i) /\ ~child[i].fin
                              \/ child[i].stuck
                              \/ strayed # {} \/ ~up

\* "Incomplete read from pipe: expected ... bytes, but got ... bytes": the
\* loop that reads the child's answer ends when the child has.
ShortReadReported ==
    \A i \in Ids :
        (AtLabel(i, "selectData") /\ Ended(i)) ~> (~up \/ pc[i] # "selectData")

\* "等待子进程结束" (wait for the child to end), says the comment beside the
\* handler's waitpid(): when nothing fails there is such an end, and every
\* request comes to its own.
ChildrenEnd == \A i \in Ids : (i \in InProgress) ~> (i \notin InProgress)

=============================================================================
