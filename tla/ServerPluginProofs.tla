------------------------- MODULE ServerPluginProofs -------------------------
(***************************************************************************)
(* What the server plugin does for every number of requests, descriptors   *)
(* and units.  The invariant is stated request by request: Sound(i) says   *)
(* what the child of request i, its entries in the server's table, its     *)
(* pipe and its answers can be at each label of its handler.  A step is    *)
(* of one request, or of its child; it keeps Sound of that request, and it *)
(* spares the others (Spares): no close() has strayed, so what it closes,  *)
(* reads and writes is its own.  Only wait(NULL) reaches another request's *)
(* child, and Sound is indifferent to who waits for a child that has ended.*)
(***************************************************************************)
EXTENDS ServerPlugin, FiniteSetTheorems, SequenceTheorems, TLAPS

(***************************************************************************)
(* Types                                                                   *)
(***************************************************************************)

\* Where a handler can be, by what it holds: both ends of its pipe, the
\* reading end, the shared-memory object; and by what it has done.
PipeOpen   == {"selectFork", "selectClose", "wholeFork", "wholeClose"}
ReaderOpen == {"selectSize", "selectAlloc", "selectData",
               "wholePointer", "wholeSize", "wholeWait", "wholeSend"}
ShmOpen    == {"infoFork", "infoWait", "infoMap", "infoClose"}

Inside       == {"creating", "writing", "adding"}
NotForked    == {"idle"} \union AllKinds
                   \union {"creating", "writing", "adding", "selectFork", "infoFork", "wholeFork"}
SelectForked == {"selectClose", "selectSize", "selectAlloc", "selectData", "selectWait", "selectSend"}
InfoForked   == {"infoWait", "infoMap", "infoClose", "infoCloseAgain"}
WholeForked  == {"wholeClose", "wholePointer", "wholeSize", "wholeWait", "wholeSend"}
Labels == NotForked \union SelectForked \union InfoForked \union WholeForked \union {"over"}

Entry   == Ends \union {Free, Other}
Items   == [src : Ids, size : Nat]
Locals  == [r : 0..MaxFd, w : 0..MaxFd, size : Nat, got : Seq(Nat)]
Replies == [code : Nat, got : Seq(Nat), wire : Seq(Int)]
ChildStates == {"none", "select", "selectSize", "selectData", "info", "infoCopy", "infoExit", "whole",
                "wholeSize", "wholeSize2", "cloneReply", "clone", "ended", "reaped"}
Children == [kind : {"none", "select", "info", "whole"}, st : ChildStates,
             r : 0..MaxFd, w : 0..MaxFd, stuck : BOOLEAN,
             want : Nat, ok : BOOLEAN, sent : Nat, fin : BOOLEAN]

\* A child sends no more than it has read.
SentOk(c) == c.sent <= c.want /\ (c.st \in {"select", "whole"} => c.sent = 0)

ServerTypeInv ==
    /\ file \in {"absent", "bare", "full"}
    /\ pc \in [Ids -> Labels] /\ loc \in [Ids -> Locals]
    /\ tab \in [Procs -> [Fds -> Entry]]
    /\ pipe \in [Ids -> Seq(Items)] /\ shm \in [Ids -> {"none", "made", "sized", "filled"}]
    /\ child \in [Ids -> Children] /\ ans \in [Ids -> Seq(Replies)]
    /\ strayed \in SUBSET Ids /\ up \in BOOLEAN
    /\ \A i \in Ids :
          /\ Len(pipe[i]) <= PipeSize /\ SentOk(child[i])
          /\ pc[i] \in PipeOpen \union ReaderOpen \union ShmOpen \union {"infoCloseAgain"} =>
                loc[i].r \in Fds
          /\ pc[i] \in PipeOpen => loc[i].w \in Fds

-----------------------------------------------------------------------------
LEMMA Constants ==
    /\ MaxFd \in Nat /\ Fds = 1..MaxFd /\ Fds \subseteq Nat \ {0} /\ NoFd = 0
    /\ MaxRequests \in Nat /\ Ids \subseteq Nat \ {0} /\ Procs = {Server} \union Ids
    /\ Server = 0 /\ Server \notin Ids /\ Size \in Nat /\ PipeSize \in Nat \ {0}
    /\ MaxBuffer \in Nat \ {0}
  BY ServerAssumption DEF Fds, NoFd, Ids, Procs, Server

\* What a number names.
LEMMA EntryIs ==
    ASSUME NEW e \in Entry
    PROVE  /\ e.obj \in Ids \union {0} /\ (e.obj = 0 <=> e \in {Free, Other})
           /\ e.end \in {"r", "w", "shm"} => e \in Ends /\ e.obj \in Ids
           /\ e.obj # 0 => e.end \in {"r", "w", "shm"}
  BY Constants DEF Entry, Ends, Free, Other

LEMMA EndsAreEntries ==
    ASSUME NEW i \in Ids
    PROVE  /\ ReadEnd(i) \in Entry /\ WriteEnd(i) \in Entry /\ ShmEnd(i) \in Entry /\ Free \in Entry
           /\ ReadEnd(i).obj = i /\ WriteEnd(i).obj = i /\ ShmEnd(i).obj = i
           /\ ReadEnd(i).end = "r" /\ WriteEnd(i).end = "w" /\ ShmEnd(i).end = "shm"
           /\ Free.obj = 0 /\ Free.end = "none"
  BY DEF Entry, Ends, ReadEnd, WriteEnd, ShmEnd, Free

LEMMA AtIs ==
    ASSUME ServerTypeInv, NEW p \in Procs, NEW f \in 0..MaxFd
    PROVE  At(p, f) \in Entry
  BY Constants DEF ServerTypeInv, At, Entry

LEMMA PiecesType ==
    ASSUME NEW n \in Int PROVE Pieces(n) \in Seq(Int)
  <1>1. CASE n <= MaxBuffer
    BY <1>1 DEF Pieces
  <1>2. CASE ~(n <= MaxBuffer)
    <2> DEFINE k == n \div MaxBuffer + 1
               s == [c \in 1..k |-> IF c = k THEN n - (c - 1) * MaxBuffer ELSE MaxBuffer]
    <2>1. k \in Nat
      BY <1>2, Constants
    <2> HIDE DEF k
    <2>2. \A c \in 1..k : (IF c = k THEN n - (c - 1) * MaxBuffer ELSE MaxBuffer) \in Int
      <3>1. \A c \in 1..k : (c - 1) * MaxBuffer \in Int
        BY <2>1, Constants
      <3> QED
        BY <3>1, Constants
    <2>3. s \in Seq(Int)
      BY <2>1, <2>2
    <2> QED
      BY <1>2, <2>3 DEF Pieces, k
  <1> QED
    BY <1>1, <1>2

LEMMA AnswerType ==
    ASSUME NEW code \in Nat, NEW got \in Seq(Nat), NEW n \in Int
    PROVE  /\ Answer(code, got, Pieces(n)) \in Replies
           /\ Answer(code, got, Pieces(n)).code = code /\ Answer(code, got, Pieces(n)).got = got
  BY PiecesType DEF Answer, Replies

LEMMA PlainType ==
    ASSUME NEW code \in Nat PROVE Plain(code) \in Replies /\ Plain(code).code = code
  BY DEF Plain, Answer, Replies

LEMMA DroppedType == Dropped \in Replies /\ Dropped.code = 0
  BY PlainType DEF Dropped

-----------------------------------------------------------------------------
(* What the operators the handlers are built from change. *)

LEMMA GotoIs ==
    ASSUME ServerTypeInv, NEW i \in Ids, NEW l, Goto(i, l)
    PROVE  pc'[i] = l /\ (l \in Labels => pc' \in [Ids -> Labels])
           /\ \A j \in Ids \ {i} : pc'[j] = pc[j]
  BY DEF ServerTypeInv, Goto

LEMMA DoneIs ==
    ASSUME ServerTypeInv, NEW i \in Ids, Done(i)
    PROVE  /\ pc'[i] = "over" /\ pc' \in [Ids -> Labels] /\ loc'[i] = NoLocals
           /\ loc' \in [Ids -> Locals]
           /\ \A j \in Ids \ {i} : pc'[j] = pc[j] /\ loc'[j] = loc[j]
  <1>1. NoLocals \in Locals
    <2>1. <<>> \in Seq(Nat)
      OBVIOUS
    <2> QED
      BY <2>1, Constants DEF NoLocals, Locals
  <1>2. "over" \in Labels
    BY DEF Labels
  <1> QED
    BY <1>1, <1>2 DEF ServerTypeInv, Done, Goto

LEMMA ReplyIs ==
    ASSUME ServerTypeInv, NEW i \in Ids, NEW a \in Replies, Reply(i, a)
    PROVE  /\ ans' \in [Ids -> Seq(Replies)] /\ Range(ans'[i]) = Range(ans[i]) \union {a}
           /\ \A j \in Ids \ {i} : ans'[j] = ans[j]
  <1>1. ans \in [Ids -> Seq(Replies)] /\ ans[i] \in Seq(Replies)
    BY DEF ServerTypeInv
  <1>2. Append(ans[i], a) \in Seq(Replies)
    BY <1>1
  <1>3. /\ ans'[i] = Append(ans[i], a) /\ ans' \in [Ids -> Seq(Replies)]
        /\ \A j \in Ids \ {i} : ans'[j] = ans[j]
    BY <1>1, <1>2 DEF Reply
  <1>4. Range(Append(ans[i], a)) = Range(ans[i]) \union {a}
    <2> DEFINE s == ans[i]
    <2>1. s \in Seq(Replies)
      BY <1>1
    <2> HIDE DEF s
    <2>2. /\ DOMAIN s = 1..Len(s) /\ Len(s) \in Nat /\ DOMAIN Append(s, a) = 1..(Len(s) + 1)
          /\ \A n \in 1..Len(s) : Append(s, a)[n] = s[n]
          /\ Append(s, a)[Len(s) + 1] = a
      BY <2>1, AppendProperties, LenProperties
    <2>3. \A x : (\E n \in 1..(Len(s) + 1) : Append(s, a)[n] = x) <=> x = a \/ \E n \in 1..Len(s) : s[n] = x
      <3>1. \A n \in 1..(Len(s) + 1) : n = Len(s) + 1 \/ n \in 1..Len(s)
        BY <2>2
      <3>2. Len(s) + 1 \in 1..(Len(s) + 1) /\ \A n \in 1..Len(s) : n \in 1..(Len(s) + 1)
        BY <2>2
      <3> QED
        BY <2>2, <3>1, <3>2
    <2>4. Range(Append(s, a)) = Range(s) \union {a}
      BY <2>2, <2>3 DEF Range
    <2> QED
      BY <2>4 DEF s
  <1> QED
    BY <1>3, <1>4

LEMMA CloseForIs ==
    ASSUME ServerTypeInv, NEW i \in Ids, NEW f \in Fds, CloseFor(i, {f})
    PROVE  /\ tab' \in [Procs -> [Fds -> Entry]] /\ \A p \in Ids : tab'[p] = tab[p]
           /\ tab'[Server][f] = Free /\ \A g \in Fds \ {f} : tab'[Server][g] = tab[Server][g]
           /\ strayed' \in SUBSET Ids
           /\ strayed' = {} => strayed = {} /\ tab[Server][f].obj \in {0, i}
  <1>1. tab \in [Procs -> [Fds -> Entry]] /\ Server \in Procs /\ Server \notin Ids /\ Ids \subseteq Procs
    BY Constants DEF ServerTypeInv
  <1> DEFINE t == Without(tab[Server], {f})
  <1>2. t \in [Fds -> Entry] /\ t[f] = Free /\ \A g \in Fds \ {f} : t[g] = tab[Server][g]
    BY <1>1 DEF Without, Entry
  <1>3. tab' = [tab EXCEPT ![Server] = t]
    BY DEF CloseFor
  <1> HIDE DEF t
  <1>4. /\ tab' \in [Procs -> [Fds -> Entry]] /\ \A p \in Ids : tab'[p] = tab[p]
        /\ tab'[Server] = t
    BY <1>1, <1>2, <1>3
  <1>5. strayed' = strayed \union ({tab[Server][f].obj} \ {0, i})
    BY DEF CloseFor
  <1>6. tab[Server][f] \in Entry /\ strayed \in SUBSET Ids
    BY <1>1 DEF ServerTypeInv
  <1>7. tab[Server][f].obj \in Ids \union {0}
    BY <1>6, EntryIs
  <1> QED
    BY <1>2, <1>4, <1>5, <1>6, <1>7

LEMMA ExitIs ==
    ASSUME ServerTypeInv, NEW i \in Ids, NEW fin \in BOOLEAN, Exit(i, fin)
    PROVE  /\ tab' \in [Procs -> [Fds -> Entry]] /\ \A p \in Procs \ {i} : tab'[p] = tab[p]
           /\ child' \in [Ids -> Children] /\ \A j \in Ids \ {i} : child'[j] = child[j]
           /\ child'[i] = [child[i] EXCEPT !.st = "ended", !.fin = fin]
           /\ child'[i].st = "ended" /\ child'[i].fin = fin /\ child'[i].kind = child[i].kind
           /\ child'[i].want = child[i].want /\ child'[i].sent = child[i].sent
           /\ UNCHANGED <<file, pc, loc, pipe, shm, ans, strayed, up>>
  <1>1. tab \in [Procs -> [Fds -> Entry]] /\ i \in Procs /\ child \in [Ids -> Children] /\ child[i] \in Children
    BY Constants DEF ServerTypeInv
  <1>2. NoTable \in [Fds -> Entry]
    BY DEF NoTable, Entry
  <1>3. tab' \in [Procs -> [Fds -> Entry]] /\ \A p \in Procs \ {i} : tab'[p] = tab[p]
    BY <1>1, <1>2 DEF Exit
  <1> DEFINE c == [child[i] EXCEPT !.st = "ended", !.fin = fin]
  <1>4. /\ c \in Children /\ c.st = "ended" /\ c.fin = fin /\ c.kind = child[i].kind
        /\ c.want = child[i].want /\ c.sent = child[i].sent
    BY <1>1 DEF Children, ChildStates
  <1>5. child' = [child EXCEPT ![i] = c]
    BY <1>1 DEF Exit
  <1> HIDE DEF c
  <1>6. child'[i] = c /\ child' \in [Ids -> Children] /\ \A j \in Ids \ {i} : child'[j] = child[j]
    BY <1>1, <1>4, <1>5
  <1> QED
    BY <1>3, <1>4, <1>6 DEF Exit, c

\* The lowest of some numbers.
LEMMA MinIs ==
    ASSUME NEW S \in SUBSET Nat, S # {} PROVE Min(S) \in S
  <1>1. IsWellFoundedOn(OpToRel(<, Nat), Nat)
    BY NatLessThanWellFounded, Zenon
  <1>2. \A x, y \in Nat : <<y, x>> \in OpToRel(<, Nat) <=> y < x
    BY Zenon DEF OpToRel
  <1>3. PICK m \in S : \A k \in S : ~ (<<k, m>> \in OpToRel(<, Nat))
    BY <1>1, WFMin, Zenon
  <1>4. \A k \in S : m \in Nat /\ k \in Nat /\ ~ (k < m)
    BY <1>2, <1>3, Zenon
  <1>5. \A k \in S : m <= k
    BY <1>4
  <1> QED
    BY <1>3, <1>5, Zenon DEF Min

LEMMA MakePipeIs ==
    ASSUME ServerTypeInv, NEW i \in Ids, NEW l \in Labels, NEW a \in Replies, MakePipe(i, l, a)
    PROVE  \/ /\ Reply(i, a) /\ Done(i) /\ UNCHANGED <<file, osVars, up>>
           \/ /\ pc'[i] = l /\ pc' \in [Ids -> Labels] /\ \A j \in Ids \ {i} : pc'[j] = pc[j]
              /\ loc' \in [Ids -> Locals] /\ \A j \in Ids \ {i} : loc'[j] = loc[j]
              /\ loc'[i].size = loc[i].size /\ loc'[i].got = loc[i].got
              /\ loc'[i].r \in Fds /\ loc'[i].w \in Fds /\ loc'[i].r # loc'[i].w
              /\ tab[Server][loc'[i].r] = Free /\ tab[Server][loc'[i].w] = Free
              /\ tab' \in [Procs -> [Fds -> Entry]] /\ \A p \in Ids : tab'[p] = tab[p]
              /\ tab'[Server][loc'[i].r] = ReadEnd(i) /\ tab'[Server][loc'[i].w] = WriteEnd(i)
              /\ \A f \in Fds \ {loc'[i].r, loc'[i].w} : tab'[Server][f] = tab[Server][f]
              /\ UNCHANGED <<file, pipe, shm, child, ans, strayed, up>>
  <1> DEFINE free == FreeFds(Server)
             r == Min(free)
             w == Min(free \ {r})
  <1>1. CASE Cardinality(free) < 2
    BY <1>1 DEF MakePipe
  <1>2. CASE ~(Cardinality(free) < 2)
    <2>1. free \subseteq Fds /\ \A f \in free : tab[Server][f] = Free
      BY DEF FreeFds
    <2>2. IsFiniteSet(Fds)
      <3>1. 1 \in Int /\ MaxFd \in Int
        BY Constants
      <3> QED
        BY <3>1, Constants, FS_Interval
    <2> HIDE DEF free
    <2>3. IsFiniteSet(free) /\ free \in SUBSET Nat
      BY <2>1, <2>2, Constants, FS_Subset
    <2>4. free # {}
      BY <1>2, FS_EmptySet
    <2>5. r \in free
      BY <2>3, <2>4, MinIs
    <2>6. free \ {r} # {}
      <3> SUFFICES ASSUME free \ {r} = {} PROVE FALSE
        OBVIOUS
      <3>1. free = {r}
        BY <2>5
      <3>2. Cardinality({r}) = 1
        BY FS_Singleton
      <3> QED
        BY <1>2, <3>1, <3>2
    <2>7. w \in free \ {r}
      <3>1. free \ {r} \in SUBSET Nat
        BY <2>3
      <3> QED
        BY <2>6, <3>1, MinIs
    <2>8. /\ tab' = [tab EXCEPT ![Server] = [@ EXCEPT ![r] = ReadEnd(i), ![w] = WriteEnd(i)]]
          /\ loc' = [loc EXCEPT ![i].r = r, ![i].w = w]
          /\ Goto(i, l)
          /\ UNCHANGED <<file, pipe, shm, child, ans, strayed, up>>
      BY <1>2 DEF MakePipe, free
    <2>9. r \in Fds /\ w \in Fds /\ r # w /\ tab[Server][r] = Free /\ tab[Server][w] = Free
      BY <2>1, <2>5, <2>7
    <2> HIDE DEF r, w
    <2>10. /\ loc' \in [Ids -> Locals] /\ \A j \in Ids \ {i} : loc'[j] = loc[j]
           /\ loc'[i].size = loc[i].size /\ loc'[i].got = loc[i].got
           /\ loc'[i].r = r /\ loc'[i].w = w
      <3>1. r \in 0..MaxFd /\ w \in 0..MaxFd
        BY <2>9, Constants
      <3>2. loc \in [Ids -> Locals]
        BY DEF ServerTypeInv
      <3> QED
        BY <2>8, <3>1, <3>2 DEF Locals
    <2>11. /\ tab' \in [Procs -> [Fds -> Entry]] /\ \A p \in Ids : tab'[p] = tab[p]
           /\ tab'[Server][r] = ReadEnd(i) /\ tab'[Server][w] = WriteEnd(i)
           /\ \A f \in Fds \ {r, w} : tab'[Server][f] = tab[Server][f]
      <3>1. tab \in [Procs -> [Fds -> Entry]] /\ ReadEnd(i) \in Entry /\ WriteEnd(i) \in Entry
        BY EndsAreEntries DEF ServerTypeInv
      <3>2. Server \in Procs /\ Server \notin Ids /\ Ids \subseteq Procs
        BY Constants
      <3> DEFINE t == [tab[Server] EXCEPT ![r] = ReadEnd(i), ![w] = WriteEnd(i)]
      <3>3. /\ t \in [Fds -> Entry] /\ t[r] = ReadEnd(i) /\ t[w] = WriteEnd(i)
            /\ \A f \in Fds \ {r, w} : t[f] = tab[Server][f]
        BY <2>9, <3>1, <3>2
      <3>4. tab' = [tab EXCEPT ![Server] = t]
        BY <2>8
      <3> HIDE DEF t
      <3>5. tab'[Server] = t /\ tab' \in [Procs -> [Fds -> Entry]] /\ \A p \in Ids : tab'[p] = tab[p]
        BY <3>1, <3>2, <3>3, <3>4
      <3> QED
        BY <3>3, <3>5
    <2> QED
      BY <2>8, <2>9, <2>10, <2>11, GotoIs
  <1> QED
    BY <1>1, <1>2

LEMMA ForkToIs ==
    ASSUME ServerTypeInv, NEW i \in Ids, NEW k \in {"select", "info", "whole"}, NEW l \in Labels,
           ForkTo(i, k, l)
    PROVE  /\ pc'[i] = l /\ pc' \in [Ids -> Labels] /\ \A j \in Ids \ {i} : pc'[j] = pc[j]
           /\ child' \in [Ids -> Children] /\ \A j \in Ids \ {i} : child'[j] = child[j]
           /\ child'[i].kind = k /\ child'[i].st = k /\ child'[i].w = loc[i].w
           /\ child'[i].want = 0 /\ child'[i].sent = 0 /\ child'[i].fin = FALSE
           /\ tab' \in [Procs -> [Fds -> Entry]] /\ \A p \in Procs \ {i} : tab'[p] = tab[p]
           /\ tab'[i] = tab[Server]
           /\ child'[i].r = loc[i].r
           /\ UNCHANGED <<file, loc, pipe, shm, ans, strayed, up>>
  <1>1. loc[i] \in Locals /\ child \in [Ids -> Children] /\ tab \in [Procs -> [Fds -> Entry]]
    BY DEF ServerTypeInv
  <1>0. PICK stuck \in BOOLEAN :
           child' = [child EXCEPT ![i] = [NoChild EXCEPT !.kind = k, !.st = k, !.stuck = stuck,
                                                         !.r = loc[i].r, !.w = loc[i].w]]
    BY DEF ForkTo
  <1> DEFINE c == [NoChild EXCEPT !.kind = k, !.st = k, !.stuck = stuck,
                                  !.r = loc[i].r, !.w = loc[i].w]
  <1>2. /\ c \in Children /\ c.kind = k /\ c.st = k /\ c.w = loc[i].w /\ c.r = loc[i].r
        /\ c.want = 0 /\ c.sent = 0 /\ c.fin = FALSE
    BY <1>1 DEF NoChild, Children, ChildStates, Locals
  <1>3. child' = [child EXCEPT ![i] = c]
    BY <1>0
  <1> HIDE DEF c
  <1>4. child' \in [Ids -> Children] /\ child'[i] = c /\ \A j \in Ids \ {i} : child'[j] = child[j]
    BY <1>1, <1>2, <1>3
  <1>5. /\ tab' \in [Procs -> [Fds -> Entry]] /\ \A p \in Procs \ {i} : tab'[p] = tab[p]
        /\ tab'[i] = tab[Server]
    <2>1. i \in Procs /\ Server \in Procs
      BY Constants
    <2> QED
      BY <1>1, <2>1 DEF ForkTo
  <1> QED
    BY <1>2, <1>4, <1>5, GotoIs DEF ForkTo

\* An item is taken from a pipe.
LEMMA ConsumeIs ==
    ASSUME ServerTypeInv, NEW f \in 0..MaxFd, Readable(f), Consume(f)
    PROVE  LET o == At(Server, f).obj
           IN  /\ o \in Ids /\ f \in Fds /\ tab[Server][f] = ReadEnd(o) /\ At(Server, f) = ReadEnd(o)
               /\ pipe[o] \in Seq(Items) /\ pipe[o] # <<>>
               /\ pipe' \in [Ids -> Seq(Items)] /\ pipe'[o] = Tail(pipe[o])
               /\ \A p \in Ids \ {o} : pipe'[p] = pipe[p]
               /\ \A p \in Ids : Len(pipe'[p]) <= PipeSize
               /\ NextItem(f) \in Items /\ NextItem(f) = Head(pipe[o])
  <1> DEFINE o == At(Server, f).obj
  <1>1. At(Server, f) \in Entry /\ At(Server, f).end = "r" /\ pipe[o] # <<>>
    BY AtIs, Constants DEF Readable
  <1>2. o \in Ids /\ At(Server, f) = ReadEnd(o) /\ f \in Fds /\ tab[Server][f] = At(Server, f)
    <2>1. At(Server, f) \in Ends
      BY <1>1, EntryIs
    <2>2. f # NoFd
      BY <1>1 DEF At, Free
    <2> QED
      BY <1>1, <2>1, <2>2, Constants DEF Ends, ReadEnd, At
  <1>3. pipe \in [Ids -> Seq(Items)] /\ \A p \in Ids : Len(pipe[p]) <= PipeSize
    BY DEF ServerTypeInv
  <1>4. pipe' = [pipe EXCEPT ![o] = Tail(pipe[o])] /\ NextItem(f) = Head(pipe[o])
    BY DEF Consume, NextItem
  <1> HIDE DEF o
  <1>5. pipe[o] \in Seq(Items)
    BY <1>2, <1>3
  <1>6. /\ Tail(pipe[o]) \in Seq(Items) /\ Len(Tail(pipe[o])) = Len(pipe[o]) - 1
        /\ Head(pipe[o]) \in Items /\ Len(pipe[o]) \in Nat
    BY <1>1, <1>5, HeadTailProperties DEF o
  <1>7. /\ pipe' \in [Ids -> Seq(Items)] /\ pipe'[o] = Tail(pipe[o])
        /\ \A p \in Ids \ {o} : pipe'[p] = pipe[p]
    BY <1>2, <1>3, <1>4, <1>6
  <1>8. Len(pipe'[o]) <= PipeSize
    <2>1. Len(pipe[o]) <= PipeSize
      BY <1>2, <1>3
    <2> QED
      BY <1>6, <1>7, <2>1, Constants
  <1>9. \A p \in Ids : Len(pipe'[p]) <= PipeSize
    BY <1>3, <1>7, <1>8
  <1> QED
    BY <1>1, <1>2, <1>4, <1>5, <1>6, <1>7, <1>9 DEF o

\* An item is written to a pipe.
LEMMA WriteIs ==
    ASSUME ServerTypeInv, NEW i \in Ids, NEW n \in Nat, Writable(i, 1), Write(i, <<Item(i, n)>>)
    PROVE  LET o == Target(i).obj
           IN  /\ o \in Ids /\ Target(i) = WriteEnd(o)
               /\ pipe' \in [Ids -> Seq(Items)] /\ pipe'[o] = Append(pipe[o], Item(i, n))
               /\ pipe[o] \in Seq(Items) /\ Item(i, n) \in Items
               /\ \A p \in Ids \ {o} : pipe'[p] = pipe[p]
               /\ \A p \in Ids : Len(pipe'[p]) <= PipeSize
  <1> DEFINE o == Target(i).obj
             x == Item(i, n)
  <1>1. child[i].w \in 0..MaxFd /\ i \in Procs
    BY Constants DEF ServerTypeInv, Children
  <1>2. Target(i) \in Entry /\ Target(i).end = "w" /\ Len(pipe[o]) + 1 <= PipeSize
    BY <1>1, AtIs DEF Target, Writable
  <1>3. o \in Ids /\ Target(i) = WriteEnd(o)
    <2>1. Target(i) \in Ends
      BY <1>2, EntryIs
    <2> QED
      BY <1>2, <2>1 DEF Ends, WriteEnd
  <1>4. pipe \in [Ids -> Seq(Items)] /\ \A p \in Ids : Len(pipe[p]) <= PipeSize
    BY DEF ServerTypeInv
  <1>5. x \in Items
    BY DEF Item, Items
  <1>6. pipe' = [pipe EXCEPT ![o] = pipe[o] \o <<x>>]
    BY DEF Write
  <1> HIDE DEF o, x
  <1>7. pipe[o] \in Seq(Items)
    BY <1>3, <1>4
  <1>8. pipe[o] \o <<x>> = Append(pipe[o], x) /\ Append(pipe[o], x) \in Seq(Items)
        /\ Len(Append(pipe[o], x)) = Len(pipe[o]) + 1
    BY <1>5, <1>7
  <1>9. /\ pipe' \in [Ids -> Seq(Items)] /\ pipe'[o] = Append(pipe[o], x)
        /\ \A p \in Ids \ {o} : pipe'[p] = pipe[p]
    BY <1>3, <1>4, <1>6, <1>8
  <1>10. \A p \in Ids : Len(pipe'[p]) <= PipeSize
    BY <1>2, <1>4, <1>8, <1>9 DEF o
  <1> QED
    BY <1>3, <1>5, <1>7, <1>9, <1>10 DEF o, x

-----------------------------------------------------------------------------
(* Every step keeps the types. *)

LEMMA TypeInit ==
    ASSUME Init PROVE ServerTypeInv
  <1>1. NoLocals \in Locals /\ NoChild \in Children
    <2>1. <<>> \in Seq(Nat)
      OBVIOUS
    <2> QED
      BY <2>1, Constants DEF NoLocals, Locals, NoChild, Children, ChildStates
  <1>2. "idle" \in Labels /\ "idle" \notin PipeOpen \union ReaderOpen \union ShmOpen \union {"infoCloseAgain"}
    BY DEF Labels, NotForked, PipeOpen, ReaderOpen, ShmOpen
  <1>3. tab \in [Procs -> [Fds -> Entry]]
    <2>1. PICK others \in Others :
             tab = [p \in Procs |-> IF p = Server
                                    THEN [f \in Fds |-> IF f <= others THEN Other ELSE Free]
                                    ELSE NoTable]
      BY DEF Init
    <2>2. NoTable \in [Fds -> Entry] /\ [f \in Fds |-> IF f <= others THEN Other ELSE Free] \in [Fds -> Entry]
      BY DEF NoTable, Entry
    <2> QED
      BY <2>1, <2>2
  <1>4. \A i \in Ids : /\ Len(pipe[i]) <= PipeSize /\ SentOk(child[i])
                       /\ pc[i] = "idle"
    BY Constants DEF Init, NoChild, SentOk
  <1> QED
    BY <1>1, <1>2, <1>3, <1>4 DEF Init, ServerTypeInv

\* A step of request i, or of its child.
LEMMA TypeStep ==
    ASSUME ServerTypeInv, NEW i \in Ids,
           file' \in {"absent", "bare", "full"},
           pc' \in [Ids -> Labels], loc' \in [Ids -> Locals],
           tab' \in [Procs -> [Fds -> Entry]], pipe' \in [Ids -> Seq(Items)],
           shm' \in [Ids -> {"none", "made", "sized", "filled"}],
           child' \in [Ids -> Children], ans' \in [Ids -> Seq(Replies)],
           strayed' \in SUBSET Ids, up' \in BOOLEAN,
           \A j \in Ids \ {i} : pc'[j] = pc[j] /\ loc'[j] = loc[j],
           \A j \in Ids : Len(pipe'[j]) <= PipeSize /\ SentOk(child'[j]),
           pc'[i] \in PipeOpen \union ReaderOpen \union ShmOpen \union {"infoCloseAgain"} =>
              loc'[i].r \in Fds,
           pc'[i] \in PipeOpen => loc'[i].w \in Fds
    PROVE  ServerTypeInv'
  BY DEF ServerTypeInv

LEMMA TypeAnswered ==
    ASSUME ServerTypeInv, NEW i \in Ids, NEW a \in Replies, Reply(i, a), Done(i),
           file' \in {"absent", "bare", "full"}, UNCHANGED <<osVars, up>>
    PROVE  ServerTypeInv'
  <1>1. "over" \notin PipeOpen \union ReaderOpen \union ShmOpen \union {"infoCloseAgain"}
    BY DEF PipeOpen, ReaderOpen, ShmOpen
  <1>2. UNCHANGED <<tab, pipe, shm, child, strayed, up>>
    BY DEF osVars
  <1>3. /\ tab' \in [Procs -> [Fds -> Entry]] /\ pipe' \in [Ids -> Seq(Items)]
        /\ shm' \in [Ids -> {"none", "made", "sized", "filled"}] /\ child' \in [Ids -> Children]
        /\ strayed' \in SUBSET Ids /\ up' \in BOOLEAN
        /\ \A j \in Ids : Len(pipe'[j]) <= PipeSize /\ SentOk(child'[j])
    BY <1>2 DEF ServerTypeInv
  <1> QED
    BY <1>1, <1>3, DoneIs, ReplyIs, TypeStep

LEMMA TypeClosed ==
    ASSUME ServerTypeInv, NEW i \in Ids, NEW f \in Fds, CloseFor(i, {f}),
           shm' \in [Ids -> {"none", "made", "sized", "filled"}],
           UNCHANGED <<file, pipe, child, up>>,
           \/ Done(i) /\ \E a \in Replies : Reply(i, a)
           \/ /\ \E l \in Labels : Goto(i, l) /\ (l \in PipeOpen => FALSE)
                                              /\ (l \in ReaderOpen \union ShmOpen \union {"infoCloseAgain"} => loc[i].r \in Fds)
              /\ UNCHANGED <<loc, ans>>
    PROVE  ServerTypeInv'
  <1>1. "over" \notin PipeOpen \union ReaderOpen \union ShmOpen \union {"infoCloseAgain"}
    BY DEF PipeOpen, ReaderOpen, ShmOpen
  <1>2. /\ pipe' \in [Ids -> Seq(Items)] /\ child' \in [Ids -> Children] /\ up' \in BOOLEAN
        /\ file' \in {"absent", "bare", "full"}
        /\ \A j \in Ids : Len(pipe'[j]) <= PipeSize /\ SentOk(child'[j])
    BY DEF ServerTypeInv
  <1>3. tab' \in [Procs -> [Fds -> Entry]] /\ strayed' \in SUBSET Ids
    BY CloseForIs
  <1>4. CASE Done(i) /\ \E a \in Replies : Reply(i, a)
    BY <1>1, <1>2, <1>3, <1>4, DoneIs, ReplyIs, TypeStep
  <1>5. CASE /\ \E l \in Labels : Goto(i, l) /\ (l \in PipeOpen => FALSE)
                                             /\ (l \in ReaderOpen \union ShmOpen \union {"infoCloseAgain"} => loc[i].r \in Fds)
             /\ UNCHANGED <<loc, ans>>
    <2>1. loc' \in [Ids -> Locals] /\ ans' \in [Ids -> Seq(Replies)]
      BY <1>5 DEF ServerTypeInv
    <2>2. PICK l \in Labels :
             /\ Goto(i, l) /\ l \notin PipeOpen
             /\ l \in ReaderOpen \union ShmOpen \union {"infoCloseAgain"} => loc[i].r \in Fds
      BY <1>5
    <2>3. pc' \in [Ids -> Labels] /\ pc'[i] = l /\ \A j \in Ids \ {i} : pc'[j] = pc[j]
      BY <2>2, GotoIs
    <2>4. /\ pc'[i] \in PipeOpen \union ReaderOpen \union ShmOpen \union {"infoCloseAgain"} =>
                loc'[i].r \in Fds
          /\ pc'[i] \in PipeOpen => loc'[i].w \in Fds
          /\ \A j \in Ids \ {i} : pc'[j] = pc[j] /\ loc'[j] = loc[j]
      BY <1>5, <2>2, <2>3
    <2> QED
      BY <1>2, <1>3, <2>1, <2>3, <2>4, TypeStep
  <1> QED
    BY <1>4, <1>5

\* A step of a child that leaves the table of the server alone.
LEMMA TypeChild ==
    ASSUME ServerTypeInv, NEW i \in Ids,
           tab' \in [Procs -> [Fds -> Entry]], pipe' \in [Ids -> Seq(Items)],
           shm' \in [Ids -> {"none", "made", "sized", "filled"}],
           child' \in [Ids -> Children], ans' \in [Ids -> Seq(Replies)],
           \A j \in Ids : Len(pipe'[j]) <= PipeSize,
           \A j \in Ids \ {i} : child'[j] = child[j], SentOk(child'[i]),
           UNCHANGED <<file, pc, loc, strayed, up>>
    PROVE  ServerTypeInv'
  BY DEF ServerTypeInv

LEMMA TypeExit ==
    ASSUME ServerTypeInv, NEW i \in Ids, NEW fin \in BOOLEAN, Exit(i, fin)
    PROVE  ServerTypeInv'
  <1>1. /\ pipe' \in [Ids -> Seq(Items)] /\ shm' \in [Ids -> {"none", "made", "sized", "filled"}]
        /\ ans' \in [Ids -> Seq(Replies)] /\ \A j \in Ids : Len(pipe'[j]) <= PipeSize
        /\ SentOk(child[i])
    BY ExitIs DEF ServerTypeInv
  <1>2. SentOk(child'[i])
    BY <1>1, ExitIs DEF SentOk
  <1> QED
    BY <1>1, <1>2, ExitIs, TypeChild

\* The labels that occur.
LEMMA LabelsAre ==
    /\ AllKinds \union {"idle", "over"} \subseteq Labels
    /\ PipeOpen \union ReaderOpen \union ShmOpen \subseteq Labels
    /\ SelectForked \union InfoForked \union WholeForked \subseteq Labels
    /\ (AllKinds \union {"idle", "over", "selectWait", "selectSend"})
          \cap (PipeOpen \union ReaderOpen \union ShmOpen \union {"infoCloseAgain"}) = {}
  BY DEF Labels, NotForked, SelectForked, InfoForked, WholeForked, PipeOpen, ReaderOpen, ShmOpen, AllKinds

\* What a child's steps change of it.
LEMMA ChildGoesOn ==
    ASSUME ServerTypeInv, NEW i \in Ids, NEW l \in ChildStates,
           child' = [child EXCEPT ![i].st = l]
    PROVE  /\ child' \in [Ids -> Children] /\ \A j \in Ids \ {i} : child'[j] = child[j]
           /\ child'[i].st = l /\ child'[i].kind = child[i].kind /\ child'[i].want = child[i].want
           /\ child'[i].sent = child[i].sent /\ child'[i].fin = child[i].fin
           /\ child'[i].w = child[i].w /\ child'[i].r = child[i].r
           /\ l \notin {"select", "whole"} => SentOk(child'[i])
  <1>1. child \in [Ids -> Children] /\ SentOk(child[i])
    BY DEF ServerTypeInv
  <1> QED
    BY <1>1 DEF Children, ChildStates, SentOk

LEMMA ChildReadsIs ==
    ASSUME ServerTypeInv, NEW i \in Ids, ChildReads(i)
    PROVE  /\ child' \in [Ids -> Children] /\ \A j \in Ids \ {i} : child'[j] = child[j]
           /\ child[i].st \in {"select", "whole"}
           /\ child'[i].st = IF child[i].st = "select" THEN "selectSize" ELSE "wholeSize"
           /\ child'[i].kind = child[i].kind /\ child'[i].sent = child[i].sent
           /\ child'[i].fin = child[i].fin /\ child'[i].w = child[i].w /\ child'[i].want \in Nat
           /\ child'[i].r = child[i].r
           /\ tab' \in [Procs -> [Fds -> Entry]] /\ \A p \in Procs \ {i} : tab'[p] = tab[p]
           /\ \A f \in Fds \ {child[i].r} : tab'[i][f] = tab[i][f]
           /\ UNCHANGED <<file, pc, loc, pipe, shm, ans, strayed, up>>
  <1>1. PICK ok \in BOOLEAN : child' = [child EXCEPT
                 ![i].st = IF child[i].st = "select" THEN "selectSize" ELSE "wholeSize",
                 ![i].ok = ok,
                 ![i].want = IF file = "full" THEN Size ELSE 0]
    BY DEF ChildReads, ServerTypeInv
  <1>2. child \in [Ids -> Children] /\ child[i] \in Children
    BY DEF ServerTypeInv
  <1> DEFINE l == IF child[i].st = "select" THEN "selectSize" ELSE "wholeSize"
             n == IF file = "full" THEN Size ELSE 0
             c == [child[i] EXCEPT !.st = l, !.ok = ok, !.want = n]
  <1>3. child' = [child EXCEPT ![i] = c]
    BY <1>1, <1>2
  <1>4. l \in ChildStates /\ n \in Nat
    BY Constants DEF ChildStates
  <1> HIDE DEF l, n
  <1>5. /\ c \in Children /\ c.st = l
        /\ c.kind = child[i].kind /\ c.sent = child[i].sent /\ c.fin = child[i].fin
        /\ c.w = child[i].w /\ c.want \in Nat /\ c.r = child[i].r
    BY <1>2, <1>4 DEF Children
  <1> HIDE DEF c
  <1>6. child'[i] = c
    BY <1>2, <1>3
  <1>7. child' \in [Ids -> Children] /\ \A j \in Ids \ {i} : child'[j] = child[j]
    BY <1>2, <1>3, <1>5
  <1>8. /\ tab' \in [Procs -> [Fds -> Entry]] /\ \A p \in Procs \ {i} : tab'[p] = tab[p]
        /\ \A f \in Fds \ {child[i].r} : tab'[i][f] = tab[i][f]
    <2> DEFINE t == Without(tab[i], {child[i].r})
    <2>1. tab \in [Procs -> [Fds -> Entry]] /\ i \in Procs
      BY Constants DEF ServerTypeInv
    <2>2. t \in [Fds -> Entry] /\ \A f \in Fds \ {child[i].r} : t[f] = tab[i][f]
      BY <2>1 DEF Without, Entry
    <2>3. tab' = [tab EXCEPT ![i] = t]
      BY DEF ChildReads
    <2> HIDE DEF t
    <2> QED
      BY <2>1, <2>2, <2>3
  <1> QED
    BY <1>5, <1>6, <1>7, <1>8 DEF ChildReads, l

LEMMA SentIs ==
    ASSUME ServerTypeInv, NEW i \in Ids, child' = [child EXCEPT ![i].sent = @ + 1]
    PROVE  /\ child' \in [Ids -> Children] /\ \A j \in Ids \ {i} : child'[j] = child[j]
           /\ child'[i].st = child[i].st /\ child'[i].kind = child[i].kind
           /\ child'[i].want = child[i].want /\ child'[i].sent = child[i].sent + 1
           /\ child'[i].fin = child[i].fin /\ child'[i].w = child[i].w /\ child'[i].r = child[i].r
  <1>1. child \in [Ids -> Children]
    BY DEF ServerTypeInv
  <1> QED
    BY <1>1 DEF Children

\* A child that has to go through HDF5 to its end.
LEMMA ExitsIs ==
    ASSUME ServerTypeInv, NEW i \in Ids, NEW fin \in BOOLEAN, ExitsThroughHdf5(i, fin)
    PROVE  /\ child' \in [Ids -> Children] /\ \A j \in Ids \ {i} : child'[j] = child[j]
           /\ child'[i].st \in {"infoExit", "ended"} /\ child'[i].kind = child[i].kind
           /\ child'[i].want = child[i].want /\ child'[i].sent = child[i].sent
           /\ SentOk(child'[i])
           /\ tab' \in [Procs -> [Fds -> Entry]] /\ \A p \in Procs \ {i} : tab'[p] = tab[p]
           /\ child'[i].st = "infoExit" =>
                 /\ child'[i].r = child[i].r /\ child'[i].w = child[i].w
                 /\ \A f \in Fds \ {child[i].r} : tab'[i][f] = tab[i][f]
  <1>1. /\ child \in [Ids -> Children] /\ tab \in [Procs -> [Fds -> Entry]] /\ i \in Procs
        /\ SentOk(child[i])
    BY Constants DEF ServerTypeInv
  <1>2. NoTable \in [Fds -> Entry] /\ Without(tab[i], {child[i].r}) \in [Fds -> Entry]
    BY <1>1 DEF NoTable, Without, Entry
  <1>3. /\ child' \in [Ids -> Children] /\ \A j \in Ids \ {i} : child'[j] = child[j]
        /\ child'[i].st \in {"infoExit", "ended"} /\ child'[i].kind = child[i].kind
        /\ child'[i].want = child[i].want /\ child'[i].sent = child[i].sent
    <2>1. CASE child[i].stuck
      <3>1. child' = [child EXCEPT ![i].st = "infoExit"]
        BY <2>1 DEF ExitsThroughHdf5
      <3>2. "infoExit" \in ChildStates
        BY DEF ChildStates
      <3> QED
        BY <3>1, <3>2, ChildGoesOn
    <2>2. CASE ~child[i].stuck
      <3> DEFINE c == [child[i] EXCEPT !.st = "ended", !.fin = fin]
      <3>1. child' = [child EXCEPT ![i] = c]
        BY <1>1, <2>2 DEF ExitsThroughHdf5
      <3>2. /\ c \in Children /\ c.st = "ended" /\ c.kind = child[i].kind
            /\ c.want = child[i].want /\ c.sent = child[i].sent
        BY <1>1 DEF Children, ChildStates
      <3> HIDE DEF c
      <3> QED
        BY <1>1, <3>1, <3>2
    <2> QED
      BY <2>1, <2>2
  <1>4. SentOk(child'[i])
    BY <1>1, <1>3 DEF SentOk
  <1>5. tab' \in [Procs -> [Fds -> Entry]] /\ \A p \in Procs \ {i} : tab'[p] = tab[p]
    BY <1>1, <1>2 DEF ExitsThroughHdf5
  <1>6. ASSUME child'[i].st = "infoExit"
        PROVE  /\ child'[i].r = child[i].r /\ child'[i].w = child[i].w
               /\ \A f \in Fds \ {child[i].r} : tab'[i][f] = tab[i][f]
    <2>1. child[i].stuck
      BY <1>1, <1>6 DEF ExitsThroughHdf5, Children
    <2>2. child' = [child EXCEPT ![i].st = "infoExit"] /\ "infoExit" \in ChildStates
      BY <2>1 DEF ExitsThroughHdf5, ChildStates
    <2>3. tab' = [tab EXCEPT ![i] = Without(@, {child[i].r})]
      BY <2>1 DEF ExitsThroughHdf5
    <2> QED
      BY <1>1, <2>2, <2>3, ChildGoesOn DEF Without
  <1> QED
    BY <1>3, <1>4, <1>5, <1>6

LEMMA TypeChildStep ==
    ASSUME ServerTypeInv, NEW i \in Ids, ChildStep(i) \/ CloneAborts(i) \/ ChildDies(i)
    PROVE  ServerTypeInv'
  <1>1. /\ child[i] \in Children /\ SentOk(child[i]) /\ child[i].want \in Nat /\ child[i].sent \in Nat
        /\ child[i].r \in 0..MaxFd /\ i \in Procs
        /\ pipe \in [Ids -> Seq(Items)] /\ \A j \in Ids : Len(pipe[j]) <= PipeSize
        /\ tab \in [Procs -> [Fds -> Entry]] /\ shm \in [Ids -> {"none", "made", "sized", "filled"}]
        /\ ans \in [Ids -> Seq(Replies)]
    BY Constants DEF ServerTypeInv, Children
  <1>2. ASSUME ChildReads(i) PROVE ServerTypeInv'
    <2>1. SentOk(child'[i])
      <3>1. child'[i].want \in Nat /\ child'[i].sent = 0 /\ child'[i].st \notin {"select", "whole"}
        BY <1>1, <1>2, ChildReadsIs DEF SentOk
      <3> QED
        BY <3>1 DEF SentOk
    <2> QED
      BY <1>1, <1>2, <2>1, ChildReadsIs, TypeChild
  <1>3. ASSUME SelectSize(i) PROVE ServerTypeInv'
    <2>1. /\ child' = [child EXCEPT ![i].st = "selectData"]
          /\ Writable(i, 1) /\ Write(i, <<Item(i, child[i].want)>>)
          /\ UNCHANGED <<file, pc, loc, tab, shm, ans, strayed, up>>
      BY <1>3 DEF SelectSize
    <2>2. child' \in [Ids -> Children] /\ (\A j \in Ids \ {i} : child'[j] = child[j]) /\ SentOk(child'[i])
      BY <2>1, ChildGoesOn DEF ChildStates
    <2>3. pipe' \in [Ids -> Seq(Items)] /\ \A j \in Ids : Len(pipe'[j]) <= PipeSize
      BY <1>1, <2>1, WriteIs
    <2> QED
      BY <1>1, <2>1, <2>2, <2>3, TypeChild
  <1>4. ASSUME SelectUnit(i) PROVE ServerTypeInv'
    <2>1. child[i].sent < child[i].want /\ child[i].st = "selectData" /\ child' = [child EXCEPT ![i].sent = @ + 1]
      BY <1>4 DEF SelectUnit
    <2>2. SentOk(child'[i])
      BY <1>1, <2>1, SentIs DEF SentOk
    <2> QED
      BY <1>1, <1>4, <2>1, <2>2, WriteIs, SentIs, TypeChild DEF SelectUnit
  <1>5. ASSUME NEW fin \in BOOLEAN, Exit(i, fin) PROVE ServerTypeInv'
    BY <1>5, TypeExit
  <1>6. ASSUME WholeWrites(i) PROVE ServerTypeInv'
    <2>1. PICK n \in Nat :
             /\ \/ child' = [child EXCEPT ![i].st = "wholeSize2"]
                \/ child' = [child EXCEPT ![i].st = "cloneReply"]
             /\ \/ Writable(i, 1) /\ Write(i, <<Item(i, n)>>)
                \/ UNCHANGED pipe
             /\ UNCHANGED <<file, pc, loc, tab, shm, ans, strayed, up>>
      BY <1>1, <1>6 DEF WholeWrites
    <2>2. child' \in [Ids -> Children] /\ (\A j \in Ids \ {i} : child'[j] = child[j]) /\ SentOk(child'[i])
      BY <2>1, ChildGoesOn DEF ChildStates
    <2>3. pipe' \in [Ids -> Seq(Items)] /\ \A j \in Ids : Len(pipe'[j]) <= PipeSize
      BY <1>1, <2>1, WriteIs
    <2> QED
      BY <1>1, <2>1, <2>2, <2>3, TypeChild
  <1>7. ASSUME CloneReplies(i) PROVE ServerTypeInv'
    <2>1. Answer(200, <<>>, Pieces(0)) \in Replies
      <3> DEFINE none == <<>>
                 zero == 0
                 fine == 200
      <3>1. none \in Seq(Nat) /\ zero \in Int /\ fine \in Nat
        OBVIOUS
      <3> HIDE DEF none, zero, fine
      <3>2. Answer(fine, none, Pieces(zero)) \in Replies
        BY <3>1, AnswerType
      <3> QED
        BY <3>2 DEF none, zero, fine
    <2>2. /\ child' = [child EXCEPT ![i].st = "clone"]
          /\ Reply(i, Answer(200, <<>>, Pieces(0)))
          /\ UNCHANGED <<file, pc, loc, tab, pipe, shm, strayed, up>>
      BY <1>7 DEF CloneReplies
    <2>3. child' \in [Ids -> Children] /\ (\A j \in Ids \ {i} : child'[j] = child[j]) /\ SentOk(child'[i])
      BY <2>2, ChildGoesOn DEF ChildStates
    <2>4. ans' \in [Ids -> Seq(Replies)]
      BY <2>1, <2>2, ReplyIs
    <2> QED
      BY <1>1, <2>2, <2>3, <2>4, TypeChild
  <1>8. ASSUME InfoTruncates(i) PROVE ServerTypeInv'
    <2>1. CASE At(i, child[i].r).end = "shm"
      <3>1. shm' \in [Ids -> {"none", "made", "sized", "filled"}]
        BY <1>1, <1>8, <2>1 DEF InfoTruncates
      <3>2. /\ child' = [child EXCEPT ![i].st = "infoCopy"]
            /\ UNCHANGED <<file, pc, loc, tab, pipe, ans, strayed, up>>
        BY <1>8, <2>1 DEF InfoTruncates
      <3>3. child' \in [Ids -> Children] /\ (\A j \in Ids \ {i} : child'[j] = child[j]) /\ SentOk(child'[i])
        BY <3>2, ChildGoesOn DEF ChildStates
      <3> QED
        BY <1>1, <3>1, <3>2, <3>3, TypeChild
    <2>2. CASE At(i, child[i].r).end # "shm"
      <3>1. ExitsThroughHdf5(i, FALSE) /\ UNCHANGED <<file, pc, loc, pipe, shm, ans, strayed, up>>
        BY <1>8, <2>2 DEF InfoTruncates
      <3> QED
        BY <1>1, <3>1, ExitsIs, TypeChild
    <2> QED
      BY <2>1, <2>2
  <1>9. ASSUME InfoCopies(i) PROVE ServerTypeInv'
    <2>1. shm' \in [Ids -> {"none", "made", "sized", "filled"}]
      BY <1>1, <1>9 DEF InfoCopies
    <2>2. ExitsThroughHdf5(i, TRUE) /\ UNCHANGED <<file, pc, loc, pipe, ans, strayed, up>>
      BY <1>9 DEF InfoCopies
    <2> QED
      BY <1>1, <2>1, <2>2, ExitsIs, TypeChild
  <1> QED
    BY <1>2, <1>3, <1>4, <1>5, <1>6, <1>7, <1>8, <1>9
       DEF ChildStep, CloneAborts, ChildDies, SelectGivesUp, SelectEnds


\* What a handler that goes on has changed: its label, and perhaps its locals.
LEMMA TypeMoved ==
    ASSUME ServerTypeInv, NEW i \in Ids, NEW l \in Labels, Goto(i, l), l \notin PipeOpen,
           loc' \in [Ids -> Locals], \A j \in Ids \ {i} : loc'[j] = loc[j],
           l \in ReaderOpen \union ShmOpen \union {"infoCloseAgain"} => loc'[i].r \in Fds,
           pipe' \in [Ids -> Seq(Items)], \A j \in Ids : Len(pipe'[j]) <= PipeSize,
           child' \in [Ids -> Children], \A j \in Ids : SentOk(child'[j]),
           UNCHANGED <<file, tab, shm, ans, strayed, up>>
    PROVE  ServerTypeInv'
  <1>1. /\ file' \in {"absent", "bare", "full"} /\ tab' \in [Procs -> [Fds -> Entry]]
        /\ shm' \in [Ids -> {"none", "made", "sized", "filled"}] /\ ans' \in [Ids -> Seq(Replies)]
        /\ strayed' \in SUBSET Ids /\ up' \in BOOLEAN
    BY DEF ServerTypeInv
  <1>2. pc' \in [Ids -> Labels] /\ pc'[i] = l /\ \A j \in Ids \ {i} : pc'[j] = pc[j]
    BY GotoIs
  <1>3. /\ \A j \in Ids \ {i} : pc'[j] = pc[j] /\ loc'[j] = loc[j]
        /\ \A j \in Ids : Len(pipe'[j]) <= PipeSize /\ SentOk(child'[j])
        /\ pc'[i] \in PipeOpen \union ReaderOpen \union ShmOpen \union {"infoCloseAgain"} =>
              loc'[i].r \in Fds
        /\ pc'[i] \in PipeOpen => loc'[i].w \in Fds
    BY <1>2
  <1> QED
    BY <1>1, <1>2, <1>3, TypeStep

LEMMA TypeMakePipe ==
    ASSUME ServerTypeInv, NEW i \in Ids, NEW l \in PipeOpen, NEW a \in Replies, MakePipe(i, l, a)
    PROVE  ServerTypeInv'
  <1>1. file \in {"absent", "bare", "full"}
    BY DEF ServerTypeInv
  <1>2. CASE Reply(i, a) /\ Done(i) /\ UNCHANGED <<file, osVars, up>>
    BY <1>1, <1>2, TypeAnswered
  <1>3. CASE ~(Reply(i, a) /\ Done(i) /\ UNCHANGED <<file, osVars, up>>)
    <2>1. l \in Labels
      BY LabelsAre
    <2>2. /\ pc' \in [Ids -> Labels] /\ loc' \in [Ids -> Locals] /\ tab' \in [Procs -> [Fds -> Entry]]
          /\ \A j \in Ids \ {i} : pc'[j] = pc[j] /\ loc'[j] = loc[j]
          /\ loc'[i].r \in Fds /\ loc'[i].w \in Fds
          /\ UNCHANGED <<file, pipe, shm, child, ans, strayed, up>>
      BY <1>3, <2>1, MakePipeIs
    <2>3. /\ pipe' \in [Ids -> Seq(Items)] /\ shm' \in [Ids -> {"none", "made", "sized", "filled"}]
          /\ child' \in [Ids -> Children] /\ ans' \in [Ids -> Seq(Replies)]
          /\ strayed' \in SUBSET Ids /\ up' \in BOOLEAN /\ file' \in {"absent", "bare", "full"}
          /\ \A j \in Ids : Len(pipe'[j]) <= PipeSize /\ SentOk(child'[j])
      BY <2>2 DEF ServerTypeInv
    <2> QED
      BY <2>2, <2>3, TypeStep
  <1> QED
    BY <1>2, <1>3

LEMMA TypeFork ==
    ASSUME ServerTypeInv, NEW i \in Ids, NEW k \in {"select", "info", "whole"}, NEW l \in Labels,
           l \notin PipeOpen \/ loc[i].w \in Fds, loc[i].r \in Fds, NEW a \in Replies,
           ForkTo(i, k, l) \/ ForkFails(i, a)
    PROVE  ServerTypeInv'
  <1>1. CASE ForkFails(i, a)
    <2>1. file \in {"absent", "bare", "full"}
      BY DEF ServerTypeInv
    <2> QED
      BY <1>1, <2>1, TypeAnswered DEF ForkFails
  <1>2. CASE ForkTo(i, k, l)
    <2>1. /\ pc' \in [Ids -> Labels] /\ (\A j \in Ids \ {i} : pc'[j] = pc[j]) /\ pc'[i] = l
          /\ child' \in [Ids -> Children] /\ (\A j \in Ids \ {i} : child'[j] = child[j])
          /\ child'[i].want = 0 /\ child'[i].sent = 0
          /\ tab' \in [Procs -> [Fds -> Entry]]
          /\ UNCHANGED <<file, loc, pipe, shm, ans, strayed, up>>
      BY <1>2, ForkToIs
    <2>2. SentOk(child'[i])
      BY <2>1 DEF SentOk
    <2>3. /\ pipe' \in [Ids -> Seq(Items)] /\ shm' \in [Ids -> {"none", "made", "sized", "filled"}]
          /\ loc' \in [Ids -> Locals] /\ ans' \in [Ids -> Seq(Replies)]
          /\ strayed' \in SUBSET Ids /\ up' \in BOOLEAN /\ file' \in {"absent", "bare", "full"}
          /\ \A j \in Ids : Len(pipe'[j]) <= PipeSize /\ SentOk(child'[j])
      BY <2>1, <2>2 DEF ServerTypeInv
    <2>4. /\ loc'[i].r \in Fds /\ (pc'[i] \in PipeOpen => loc'[i].w \in Fds)
          /\ \A j \in Ids \ {i} : pc'[j] = pc[j] /\ loc'[j] = loc[j]
      BY <2>1
    <2> QED
      BY <2>1, <2>3, <2>4, TypeStep
  <1> QED
    BY <1>1, <1>2

LEMMA TypeCrash ==
    ASSUME ServerTypeInv, Crash PROVE ServerTypeInv'
  <1>1. NoTable \in [Fds -> Entry]
    BY DEF NoTable, Entry
  <1>2. tab' \in [Procs -> [Fds -> Entry]] /\ up' \in BOOLEAN
    BY <1>1, Constants DEF ServerTypeInv, Crash
  <1> QED
    BY <1>2 DEF ServerTypeInv, Crash

\* waitpid().
LEMMA ReapedIs ==
    ASSUME ServerTypeInv, NEW c \in Ids, child' = [child EXCEPT ![c].st = "reaped"]
    PROVE  /\ child' \in [Ids -> Children] /\ \A j \in Ids \ {c} : child'[j] = child[j]
           /\ child'[c].st = "reaped" /\ child'[c].kind = child[c].kind
           /\ child'[c].want = child[c].want /\ child'[c].sent = child[c].sent
           /\ child'[c].fin = child[c].fin /\ child'[c].w = child[c].w /\ child'[c].r = child[c].r
           /\ \A j \in Ids : SentOk(child'[j])
  <1>1. "reaped" \in ChildStates /\ "reaped" \notin {"select", "whole"}
    BY DEF ChildStates
  <1>2. \A j \in Ids : SentOk(child[j])
    BY DEF ServerTypeInv
  <1> DEFINE l == "reaped"
  <1>3. l \in ChildStates /\ child' = [child EXCEPT ![c].st = l] /\ l \notin {"select", "whole"}
    BY <1>1
  <1> HIDE DEF l
  <1>4. /\ child' \in [Ids -> Children] /\ \A j \in Ids \ {c} : child'[j] = child[j]
        /\ child'[c].st = l /\ child'[c].kind = child[c].kind
        /\ child'[c].want = child[c].want /\ child'[c].sent = child[c].sent
        /\ child'[c].fin = child[c].fin /\ child'[c].w = child[c].w /\ child'[c].r = child[c].r
        /\ SentOk(child'[c])
    BY <1>3, ChildGoesOn
  <1> QED
    BY <1>2, <1>4 DEF l

\* The steps of the handlers that stay in the server process.
LEMMA TypeEntered ==
    ASSUME ServerTypeInv, NEW i \in Ids, EnterHdf5(i) PROVE ServerTypeInv'
  <1>1. PICK l \in Inside : Goto(i, l)
    BY DEF EnterHdf5, Entered, Inside
  <1>2. l \in Labels /\ l \notin PipeOpen \union ReaderOpen \union ShmOpen \union {"infoCloseAgain"}
    BY DEF Labels, NotForked, Inside, PipeOpen, ReaderOpen, ShmOpen
  <1>3. UNCHANGED <<file, loc, tab, pipe, shm, child, ans, strayed, up>>
    BY DEF EnterHdf5, osVars
  <1>4. /\ loc' \in [Ids -> Locals] /\ pipe' \in [Ids -> Seq(Items)] /\ child' \in [Ids -> Children]
        /\ \A j \in Ids \ {i} : loc'[j] = loc[j]
        /\ \A j \in Ids : Len(pipe'[j]) <= PipeSize /\ SentOk(child'[j])
    BY <1>3 DEF ServerTypeInv
  <1> QED
    BY <1>1, <1>2, <1>3, <1>4, TypeMoved

LEMMA TypeInServer ==
    ASSUME ServerTypeInv, NEW i \in Ids,
           \/ CreateFile(i) \/ WriteDataset(i) \/ RefuseDataset(i) \/ CreateDataset(i)
           \/ DeleteFile(i) \/ RootInfo(i)
    PROVE  ServerTypeInv'
  <1>1. file \in {"absent", "bare", "full"}
    BY DEF ServerTypeInv
  <1>2. ASSUME NEW f \in {"absent", "bare", "full"}, NEW code \in Nat, NEW k, InServer(i, k, f, code)
        PROVE  ServerTypeInv'
    <2>1. Plain(code) \in Replies
      BY PlainType
    <2> QED
      BY <1>2, <2>1, TypeAnswered DEF InServer
  <1>3. CASE CreateFile(i)
    <2>1. PICK f \in {"absent", "bare", "full"} :
             InServer(i, "creating", f, IF f = "absent" THEN 400 ELSE 201)
      BY <1>1, <1>3 DEF CreateFile
    <2> QED
      BY <1>2, <2>1
  <1>4. CASE CreateDataset(i)
    <2>1. PICK f \in {"absent", "bare", "full"} :
             InServer(i, "adding", f, IF file = "absent" THEN 400 ELSE 201)
      BY <1>1, <1>4 DEF CreateDataset
    <2> QED
      BY <1>2, <2>1
  <1>5. CASE WriteDataset(i) \/ RefuseDataset(i) \/ DeleteFile(i) \/ RootInfo(i)
    BY <1>1, <1>2, <1>5 DEF WriteDataset, RefuseDataset, DeleteFile, RootInfo
  <1> QED
    BY <1>3, <1>4, <1>5

LEMMA TypeArrive ==
    ASSUME ServerTypeInv, NEW i \in Ids, NEW k \in Kinds, Arrive(i, k)
    PROVE  ServerTypeInv'
  <1>1. UNCHANGED <<file, loc, tab, pipe, shm, child, strayed, up>>
    BY DEF Arrive, osVars
  <1>2. /\ loc' \in [Ids -> Locals] /\ tab' \in [Procs -> [Fds -> Entry]] /\ pipe' \in [Ids -> Seq(Items)]
        /\ shm' \in [Ids -> {"none", "made", "sized", "filled"}] /\ child' \in [Ids -> Children]
        /\ strayed' \in SUBSET Ids /\ up' \in BOOLEAN /\ file' \in {"absent", "bare", "full"}
        /\ \A j \in Ids : Len(pipe'[j]) <= PipeSize /\ SentOk(child'[j])
    BY <1>1 DEF ServerTypeInv
  <1>3. PICK l \in AllKinds \union {"over"} : Goto(i, l)
    BY ServerAssumption DEF Arrive
  <1>4. l \in Labels /\ l \notin PipeOpen \union ReaderOpen \union ShmOpen \union {"infoCloseAgain"}
    BY LabelsAre
  <1>5. /\ pc' \in [Ids -> Labels] /\ \A j \in Ids \ {i} : pc'[j] = pc[j] /\ loc'[j] = loc[j]
        /\ pc'[i] = l
    BY <1>1, <1>3, <1>4, GotoIs
  <1>6. ans' \in [Ids -> Seq(Replies)]
    <2> DEFINE code == 404
    <2>1. CASE Reply(i, Plain(404))
      <3>1. code \in Nat /\ Reply(i, Plain(code))
        BY <2>1
      <3> HIDE DEF code
      <3> QED
        BY <3>1, PlainType, ReplyIs
    <2>2. CASE UNCHANGED ans
      BY <2>2 DEF ServerTypeInv
    <2> QED
      BY <2>1, <2>2 DEF Arrive
  <1> QED
    BY <1>2, <1>4, <1>5, <1>6, TypeStep

\* A read() by the handler of request i.
LEMMA ReadIs ==
    ASSUME ServerTypeInv, NEW i \in Ids, Readable(loc[i].r), Consume(loc[i].r),
           \/ loc' = [loc EXCEPT ![i].size = NextItem(loc[i].r).size]
           \/ loc' = [loc EXCEPT ![i].got = Append(@, NextItem(loc[i].r).src)]
    PROVE  /\ loc' \in [Ids -> Locals] /\ \A j \in Ids \ {i} : loc'[j] = loc[j]
           /\ loc'[i].r = loc[i].r /\ loc'[i].w = loc[i].w
           /\ pipe' \in [Ids -> Seq(Items)] /\ \A j \in Ids : Len(pipe'[j]) <= PipeSize
  <1>1. loc \in [Ids -> Locals] /\ loc[i] \in Locals /\ loc[i].r \in 0..MaxFd
    BY DEF ServerTypeInv, Locals
  <1> DEFINE x == NextItem(loc[i].r)
  <1>2. x \in Items /\ pipe' \in [Ids -> Seq(Items)] /\ \A j \in Ids : Len(pipe'[j]) <= PipeSize
    BY <1>1, ConsumeIs
  <1> HIDE DEF x
  <1>3. x.size \in Nat /\ x.src \in Nat
    BY <1>2, Constants DEF Items
  <1>4. CASE loc' = [loc EXCEPT ![i].size = x.size]
    BY <1>1, <1>2, <1>3, <1>4 DEF Locals
  <1>5. CASE loc' = [loc EXCEPT ![i].got = Append(@, x.src)]
    <2>1. Append(loc[i].got, x.src) \in Seq(Nat)
      BY <1>1, <1>3 DEF Locals
    <2> QED
      BY <1>1, <1>2, <2>1, <1>5 DEF Locals
  <1> QED
    BY <1>4, <1>5 DEF x

\* An early return of the handler of request i.
LEMMA TypeGivesUp ==
    ASSUME ServerTypeInv, NEW i \in Ids, loc[i].r \in Fds, GivesUp(i)
    PROVE  ServerTypeInv'
  <1>1. shm' \in [Ids -> {"none", "made", "sized", "filled"}]
    BY DEF ServerTypeInv, GivesUp
  <1> QED
    BY <1>1, DroppedType, TypeClosed DEF GivesUp

\* The handler of a selection.
LEMMA TypeSelect ==
    ASSUME ServerTypeInv, NEW i \in Ids,
           \/ SelectPipe(i) \/ SelectFork(i) \/ SelectClose(i) \/ SelectReadSize(i) \/ SelectAlloc(i)
           \/ SelectRead(i) \/ SelectRest(i) \/ SelectWait(i) \/ SelectSend(i)
    PROVE  ServerTypeInv'
  <1>1. /\ shm \in [Ids -> {"none", "made", "sized", "filled"}] /\ loc \in [Ids -> Locals]
        /\ pipe \in [Ids -> Seq(Items)] /\ child \in [Ids -> Children]
        /\ file \in {"absent", "bare", "full"}
        /\ \A j \in Ids : Len(pipe[j]) <= PipeSize /\ SentOk(child[j])
    BY DEF ServerTypeInv
  <1>2. pc[i] \in PipeOpen \union ReaderOpen => loc[i].r \in Fds
    BY DEF ServerTypeInv
  <1>3. pc[i] \in PipeOpen => loc[i].w \in Fds
    BY DEF ServerTypeInv
  <1>4. CASE SelectPipe(i)
    BY <1>4, DroppedType, TypeMakePipe DEF SelectPipe, PipeOpen
  <1>5. CASE SelectFork(i)
    <2>1. pc[i] \in PipeOpen /\ "selectClose" \in Labels
      BY <1>5, LabelsAre DEF SelectFork, AtLabel, PipeOpen
    <2> QED
      BY <1>2, <1>3, <1>5, <2>1, DroppedType, TypeFork DEF SelectFork
  <1>6. CASE SelectClose(i)
    <2>1. pc[i] \in PipeOpen /\ "selectSize" \in Labels \ PipeOpen
      BY <1>6, LabelsAre DEF SelectClose, AtLabel, PipeOpen, ReaderOpen
    <2>2. /\ CloseFor(i, {loc[i].w}) /\ Goto(i, "selectSize")
          /\ UNCHANGED <<file, loc, pipe, shm, child, ans, up>>
      BY <1>6 DEF SelectClose, ClosesWriteEnd
    <2> QED
      BY <1>1, <1>2, <1>3, <2>1, <2>2, TypeClosed
  <1>7. ASSUME pc[i] \in ReaderOpen, GivesUp(i) PROVE ServerTypeInv'
    BY <1>2, <1>7, TypeGivesUp
  <1>8. CASE SelectReadSize(i)
    <2>1. pc[i] \in ReaderOpen /\ loc[i].r \in Fds
      BY <1>2, <1>8 DEF SelectReadSize, AtLabel, ReaderOpen
    <2>2. "selectAlloc" \in Labels \ PipeOpen
      BY LabelsAre DEF ReaderOpen, PipeOpen
    <2>3. CASE BadRead(loc[i].r) /\ GivesUp(i)
      BY <1>7, <2>1, <2>3
    <2>4. CASE ~(BadRead(loc[i].r) /\ GivesUp(i))
      <3>1. UNCHANGED <<file, tab, shm, child, ans, strayed, up>> /\ Goto(i, "selectAlloc")
        BY <1>8, <2>4 DEF SelectReadSize, osVars
      <3>2. /\ loc' \in [Ids -> Locals] /\ (\A j \in Ids \ {i} : loc'[j] = loc[j])
            /\ loc'[i].r = loc[i].r
            /\ pipe' \in [Ids -> Seq(Items)] /\ (\A j \in Ids : Len(pipe'[j]) <= PipeSize)
        <4>1. CASE UNCHANGED <<loc, osVars>>
          BY <1>1, <4>1 DEF osVars
        <4>2. CASE ~UNCHANGED <<loc, osVars>>
          <5>1. /\ Readable(loc[i].r) /\ Consume(loc[i].r)
                /\ loc' = [loc EXCEPT ![i].size = NextItem(loc[i].r).size]
            BY <1>8, <2>4, <4>2 DEF SelectReadSize
          <5> QED
            BY <5>1, ReadIs
        <4> QED
          BY <4>1, <4>2
      <3> QED
        BY <1>1, <2>1, <2>2, <3>1, <3>2, TypeMoved
    <2> QED
      BY <2>3, <2>4
  <1>9. CASE SelectAlloc(i)
    <2>1. pc[i] \in ReaderOpen /\ loc[i].r \in Fds
      BY <1>2, <1>9 DEF SelectAlloc, AtLabel, ReaderOpen
    <2>2. "selectData" \in Labels \ PipeOpen
      BY LabelsAre DEF ReaderOpen, PipeOpen
    <2>3. CASE GivesUp(i)
      BY <1>7, <2>1, <2>3
    <2>4. CASE ~GivesUp(i)
      <3>1. Goto(i, "selectData") /\ UNCHANGED <<file, loc, tab, pipe, shm, child, strayed, ans, up>>
        BY <1>9, <2>4 DEF SelectAlloc, osVars
      <3> QED
        BY <1>1, <2>1, <2>2, <3>1, TypeMoved
    <2> QED
      BY <2>3, <2>4
  <1>10. CASE SelectRead(i)
    <2>1. pc[i] \in ReaderOpen /\ loc[i].r \in Fds
      BY <1>2, <1>10 DEF SelectRead, AtLabel, ReaderOpen
    <2>2. CASE GivesUp(i)
      BY <1>7, <2>1, <2>2
    <2>3. CASE ~GivesUp(i)
      <3>1. /\ Readable(loc[i].r) /\ Consume(loc[i].r)
            /\ loc' = [loc EXCEPT ![i].got = Append(@, NextItem(loc[i].r).src)]
            /\ UNCHANGED <<file, pc, tab, shm, child, ans, strayed, up>>
        BY <1>10, <2>3 DEF SelectRead
      <3>2. /\ loc' \in [Ids -> Locals] /\ (\A j \in Ids \ {i} : loc'[j] = loc[j])
            /\ loc'[i].r = loc[i].r /\ loc'[i].w = loc[i].w
            /\ pipe' \in [Ids -> Seq(Items)] /\ (\A j \in Ids : Len(pipe'[j]) <= PipeSize)
        BY <3>1, ReadIs
      <3> QED
        BY <3>1, <3>2 DEF ServerTypeInv
    <2> QED
      BY <2>2, <2>3
  <1>11. CASE SelectRest(i)
    <2>1. pc[i] \in ReaderOpen /\ loc[i].r \in Fds
      BY <1>2, <1>11 DEF SelectRest, AtLabel, ReaderOpen
    <2>2. "selectWait" \in Labels /\ "selectWait" \notin PipeOpen \union ReaderOpen \union ShmOpen \union {"infoCloseAgain"}
      BY LabelsAre DEF SelectForked
    <2>3. CloseFor(i, {loc[i].r}) /\ Goto(i, "selectWait") /\ UNCHANGED <<file, loc, pipe, shm, child, ans, up>>
      BY <1>11 DEF SelectRest
    <2> QED
      BY <1>1, <2>1, <2>2, <2>3, TypeClosed
  <1>12. CASE SelectWait(i)
    <2>1. /\ child' = [child EXCEPT ![i].st = "reaped"] /\ Goto(i, "selectSend")
          /\ UNCHANGED <<file, loc, tab, pipe, shm, ans, strayed, up>>
      BY <1>12 DEF SelectWait, WaitsFor
    <2>2. "selectSend" \in Labels /\ "selectSend" \notin PipeOpen \union ReaderOpen \union ShmOpen \union {"infoCloseAgain"}
      BY LabelsAre DEF SelectForked
    <2>3. child' \in [Ids -> Children] /\ \A j \in Ids : SentOk(child'[j])
      BY <2>1, ReapedIs
    <2> QED
      BY <1>1, <2>1, <2>2, <2>3, TypeMoved
  <1>13. CASE SelectSend(i)
    <2>1. PICK a \in Replies : Reply(i, a)
      <3>1. CASE Reply(i, Dropped)
        BY <3>1, DroppedType
      <3>2. CASE \E n \in Coded(loc[i].size) : Reply(i, Answer(200, loc[i].got, Pieces(n)))
        <4>1. PICK n \in Coded(loc[i].size) : Reply(i, Answer(200, loc[i].got, Pieces(n)))
          BY <3>2
        <4>2. n \in Int /\ loc[i].got \in Seq(Nat)
          BY <1>1 DEF Coded, Locals
        <4> DEFINE fine == 200
        <4>3. fine \in Nat /\ Reply(i, Answer(fine, loc[i].got, Pieces(n)))
          BY <4>1
        <4> HIDE DEF fine
        <4>4. Answer(fine, loc[i].got, Pieces(n)) \in Replies
          BY <4>2, <4>3, AnswerType
        <4> QED
          BY <4>3, <4>4
      <3> QED
        BY <1>13, <3>1, <3>2 DEF SelectSend
    <2> QED
      BY <1>1, <1>13, <2>1, TypeAnswered DEF SelectSend
  <1> QED
    BY <1>4, <1>5, <1>6, <1>8, <1>9, <1>10, <1>11, <1>12, <1>13

\* The handler of a description.
LEMMA InfoOpenIs ==
    ASSUME ServerTypeInv, NEW i \in Ids, InfoOpen(i)
    PROVE  \/ /\ Reply(i, Plain(400)) /\ Done(i) /\ UNCHANGED <<file, osVars, up>>
           \/ /\ pc'[i] = "infoFork" /\ pc' \in [Ids -> Labels] /\ \A j \in Ids \ {i} : pc'[j] = pc[j]
              /\ loc' \in [Ids -> Locals] /\ \A j \in Ids \ {i} : loc'[j] = loc[j]
              /\ loc'[i].size = loc[i].size /\ loc'[i].got = loc[i].got
              /\ loc'[i].r \in Fds /\ tab[Server][loc'[i].r] = Free
              /\ tab' \in [Procs -> [Fds -> Entry]] /\ \A p \in Ids : tab'[p] = tab[p]
              /\ tab'[Server][loc'[i].r] = ShmEnd(i)
              /\ \A f \in Fds \ {loc'[i].r} : tab'[Server][f] = tab[Server][f]
              /\ shm' \in [Ids -> {"none", "made", "sized", "filled"}]
              /\ UNCHANGED <<file, pipe, child, ans, strayed, up>>
  <1> DEFINE free == FreeFds(Server)
             fd == Min(free)
  <1>1. CASE free = {}
    BY <1>1 DEF InfoOpen
  <1>2. CASE free # {}
    <2>1. free \subseteq Fds /\ (\A f \in free : tab[Server][f] = Free) /\ free \in SUBSET Nat
      BY Constants DEF FreeFds
    <2> HIDE DEF free
    <2>2. fd \in free
      BY <1>2, <2>1, MinIs
    <2>3. /\ tab' = [tab EXCEPT ![Server][fd] = ShmEnd(i)]
          /\ shm' = [shm EXCEPT ![i] = "made"]
          /\ loc' = [loc EXCEPT ![i].r = fd]
          /\ Goto(i, "infoFork")
          /\ UNCHANGED <<file, pipe, child, ans, strayed, up>>
      BY <1>2 DEF InfoOpen, free
    <2>4. fd \in Fds /\ tab[Server][fd] = Free
      BY <2>1, <2>2
    <2> HIDE DEF fd
    <2>5. /\ loc' \in [Ids -> Locals] /\ \A j \in Ids \ {i} : loc'[j] = loc[j]
          /\ loc'[i].size = loc[i].size /\ loc'[i].got = loc[i].got /\ loc'[i].r = fd
      <3>1. loc \in [Ids -> Locals] /\ fd \in 0..MaxFd
        BY <2>4, Constants DEF ServerTypeInv
      <3> QED
        BY <2>3, <3>1 DEF Locals
    <2>6. /\ tab' \in [Procs -> [Fds -> Entry]] /\ \A p \in Ids : tab'[p] = tab[p]
          /\ tab'[Server][fd] = ShmEnd(i) /\ \A f \in Fds \ {fd} : tab'[Server][f] = tab[Server][f]
      <3>1. tab \in [Procs -> [Fds -> Entry]] /\ ShmEnd(i) \in Entry
        BY EndsAreEntries DEF ServerTypeInv
      <3>2. Server \in Procs /\ Server \notin Ids /\ Ids \subseteq Procs
        BY Constants
      <3> DEFINE t == [tab[Server] EXCEPT ![fd] = ShmEnd(i)]
      <3>3. t \in [Fds -> Entry] /\ t[fd] = ShmEnd(i) /\ \A f \in Fds \ {fd} : t[f] = tab[Server][f]
        BY <2>4, <3>1, <3>2
      <3>4. tab' = [tab EXCEPT ![Server] = t]
        BY <2>3
      <3> HIDE DEF t
      <3>5. tab'[Server] = t /\ tab' \in [Procs -> [Fds -> Entry]] /\ \A p \in Ids : tab'[p] = tab[p]
        BY <3>1, <3>2, <3>3, <3>4
      <3> QED
        BY <3>3, <3>5
    <2>7. shm' \in [Ids -> {"none", "made", "sized", "filled"}]
      BY <2>3 DEF ServerTypeInv
    <2>8. "infoFork" \in Labels
      BY LabelsAre DEF ShmOpen
    <2>9. pc'[i] = "infoFork" /\ pc' \in [Ids -> Labels] /\ \A j \in Ids \ {i} : pc'[j] = pc[j]
      BY <2>3, <2>8, GotoIs
    <2> QED
      BY <2>3, <2>4, <2>5, <2>6, <2>7, <2>9
  <1> QED
    BY <1>1, <1>2

LEMMA TypeInfo ==
    ASSUME ServerTypeInv, NEW i \in Ids,
           InfoOpen(i) \/ InfoFork(i) \/ InfoWait(i) \/ InfoMap(i) \/ InfoClose(i) \/ InfoSend(i)
    PROVE  ServerTypeInv'
  <1>1. /\ shm \in [Ids -> {"none", "made", "sized", "filled"}] /\ loc \in [Ids -> Locals]
        /\ pipe \in [Ids -> Seq(Items)] /\ child \in [Ids -> Children] /\ ans \in [Ids -> Seq(Replies)]
        /\ file \in {"absent", "bare", "full"} /\ strayed \in SUBSET Ids /\ up \in BOOLEAN
        /\ \A j \in Ids : Len(pipe[j]) <= PipeSize /\ SentOk(child[j])
        /\ tab \in [Procs -> [Fds -> Entry]]
    BY DEF ServerTypeInv
  <1>2. pc[i] \in ShmOpen \union {"infoCloseAgain"} => loc[i].r \in Fds
    BY DEF ServerTypeInv
  <1>3. Plain(400) \in Replies
    <2> DEFINE code == 400
    <2>1. code \in Nat
      OBVIOUS
    <2> HIDE DEF code
    <2>2. Plain(code) \in Replies
      BY <2>1, PlainType
    <2> QED
      BY <2>2 DEF code
  <1>4. {"infoWait", "infoMap", "infoClose", "infoCloseAgain", "over", "infoFork"} \subseteq Labels \ PipeOpen
    BY LabelsAre DEF PipeOpen, ShmOpen, InfoForked
  <1>5. CASE InfoOpen(i)
    <2>1. CASE Reply(i, Plain(400)) /\ Done(i) /\ UNCHANGED <<file, osVars, up>>
      BY <1>1, <1>3, <2>1, TypeAnswered
    <2>2. CASE ~(Reply(i, Plain(400)) /\ Done(i) /\ UNCHANGED <<file, osVars, up>>)
      <3>1. /\ pc'[i] = "infoFork" /\ pc' \in [Ids -> Labels] /\ loc' \in [Ids -> Locals]
            /\ \A j \in Ids \ {i} : pc'[j] = pc[j] /\ loc'[j] = loc[j]
            /\ loc'[i].r \in Fds /\ tab' \in [Procs -> [Fds -> Entry]]
            /\ shm' \in [Ids -> {"none", "made", "sized", "filled"}]
            /\ UNCHANGED <<file, pipe, child, ans, strayed, up>>
        BY <1>5, <2>2, InfoOpenIs
      <3>2. pc'[i] \notin PipeOpen
        BY <1>4, <3>1
      <3> QED
        BY <1>1, <3>1, <3>2, TypeStep
    <2> QED
      BY <2>1, <2>2
  <1>6. CASE InfoFork(i)
    <2>1. pc[i] \in ShmOpen
      BY <1>6 DEF InfoFork, AtLabel, ShmOpen
    <2> QED
      BY <1>2, <1>3, <1>4, <1>6, <2>1, TypeFork DEF InfoFork
  <1>7. CASE InfoWait(i)
    <2>1. pc[i] \in ShmOpen
      BY <1>7 DEF InfoWait, AtLabel, ShmOpen
    <2>2. /\ child' = [child EXCEPT ![i].st = "reaped"] /\ Goto(i, "infoMap")
          /\ UNCHANGED <<file, loc, tab, pipe, shm, ans, strayed, up>>
      BY <1>7 DEF InfoWait, WaitsFor
    <2>3. child' \in [Ids -> Children] /\ \A j \in Ids : SentOk(child'[j])
      BY <2>2, ReapedIs
    <2> QED
      BY <1>1, <1>2, <1>4, <2>1, <2>2, <2>3, TypeMoved
  <1>8. CASE InfoMap(i)
    <2>1. CASE Crash
      BY <2>1, TypeCrash
    <2>2. CASE ~Crash
      <3> DEFINE e == At(Server, loc[i].r)
      <3>1. /\ e.end = "shm"
            /\ loc' = [loc EXCEPT ![i].got = IF shm[e.obj] = "filled" THEN <<e.obj>> ELSE <<>>]
            /\ Goto(i, "infoClose")
            /\ UNCHANGED <<file, osVars, ans, up>>
        BY <1>8, <2>2 DEF InfoMap
      <3>2. pc[i] \in ShmOpen /\ loc[i].r \in 0..MaxFd
        BY <1>1, <1>8 DEF InfoMap, AtLabel, ShmOpen, Locals
      <3>3. e.obj \in Ids
        <4>1. e \in Entry
          BY <3>2, AtIs, Constants
        <4> QED
          BY <3>1, <4>1, EntryIs
      <3> HIDE DEF e
      <3> DEFINE g == IF shm[e.obj] = "filled" THEN <<e.obj>> ELSE <<>>
      <3>4. g \in Seq(Nat)
        <4>1. \A o \in Nat : <<>> \in Seq(Nat) /\ <<o>> \in Seq(Nat)
          OBVIOUS
        <4>2. e.obj \in Nat
          BY <3>3, Constants, Zenon
        <4>3. CASE shm[e.obj] = "filled"
          BY <4>1, <4>2, <4>3
        <4>4. CASE shm[e.obj] # "filled"
          BY <4>1, <4>2, <4>4
        <4> QED
          BY <4>3, <4>4
      <3>5. loc' = [loc EXCEPT ![i].got = g]
        BY <3>1
      <3> HIDE DEF g
      <3>6. loc' \in [Ids -> Locals] /\ (\A j \in Ids \ {i} : loc'[j] = loc[j]) /\ loc'[i].r = loc[i].r
        BY <1>1, <3>4, <3>5 DEF Locals
      <3>7. UNCHANGED <<file, tab, shm, pipe, child, ans, strayed, up>>
        BY <3>1 DEF osVars
      <3> QED
        BY <1>1, <1>2, <1>4, <3>1, <3>2, <3>6, <3>7, TypeMoved
    <2> QED
      BY <2>1, <2>2
  <1>9. CASE InfoClose(i)
    <2>1. pc[i] \in ShmOpen
      BY <1>9 DEF InfoClose, AtLabel, ShmOpen
    <2>2. /\ CloseFor(i, {loc[i].r}) /\ Goto(i, "infoCloseAgain")
          /\ UNCHANGED <<file, loc, pipe, shm, child, ans, up>>
      BY <1>9 DEF InfoClose
    <2> QED
      BY <1>1, <1>2, <1>4, <2>1, <2>2, TypeClosed
  <1>10. CASE InfoSend(i)
    <2>1. pc[i] = "infoCloseAgain" /\ shm' \in [Ids -> {"none", "made", "sized", "filled"}]
      BY <1>1, <1>10 DEF InfoSend, AtLabel
    <2>2. PICK a \in Replies : Reply(i, a)
      <3> DEFINE fine == 200
                 n == Len(loc[i].got)
      <3>1. Reply(i, Answer(fine, loc[i].got, Pieces(n)))
        BY <1>10 DEF InfoSend
      <3>2. fine \in Nat /\ loc[i].got \in Seq(Nat) /\ n \in Int
        BY <1>1 DEF Locals
      <3> HIDE DEF fine, n
      <3> QED
        BY <3>1, <3>2, AnswerType
    <2> QED
      BY <1>1, <1>2, <1>10, <2>1, <2>2, TypeClosed DEF InfoSend
  <1> QED
    BY <1>5, <1>6, <1>7, <1>8, <1>9, <1>10

\* The handler of a whole dataset.
LEMMA TypeWhole ==
    ASSUME ServerTypeInv, NEW i \in Ids,
           WholePipe(i) \/ WholeFork(i) \/ WholeClose(i) \/ WholeRead(i) \/ WholeWait(i) \/ WholeSend(i)
    PROVE  ServerTypeInv'
  <1>1. /\ shm \in [Ids -> {"none", "made", "sized", "filled"}] /\ loc \in [Ids -> Locals]
        /\ pipe \in [Ids -> Seq(Items)] /\ child \in [Ids -> Children]
        /\ file \in {"absent", "bare", "full"}
        /\ \A j \in Ids : Len(pipe[j]) <= PipeSize /\ SentOk(child[j])
    BY DEF ServerTypeInv
  <1>2. pc[i] \in PipeOpen \union ReaderOpen => loc[i].r \in Fds
    BY DEF ServerTypeInv
  <1>3. pc[i] \in PipeOpen => loc[i].w \in Fds
    BY DEF ServerTypeInv
  <1>4. Plain(400) \in Replies
    <2> DEFINE code == 400
    <2>1. code \in Nat
      OBVIOUS
    <2> HIDE DEF code
    <2>2. Plain(code) \in Replies
      BY <2>1, PlainType
    <2> QED
      BY <2>2 DEF code
  <1>5. {"wholePointer", "wholeSize", "wholeWait", "wholeSend"} \subseteq Labels \ PipeOpen
    BY LabelsAre DEF PipeOpen, ReaderOpen
  <1>6. CASE WholePipe(i)
    BY <1>4, <1>6, TypeMakePipe DEF WholePipe, PipeOpen
  <1>7. CASE WholeFork(i)
    <2>1. pc[i] \in PipeOpen /\ "wholeClose" \in Labels
      BY <1>7, LabelsAre DEF WholeFork, AtLabel, PipeOpen
    <2> QED
      BY <1>2, <1>3, <1>4, <1>7, <2>1, TypeFork DEF WholeFork
  <1>8. CASE WholeClose(i)
    <2>1. pc[i] \in PipeOpen
      BY <1>8 DEF WholeClose, AtLabel, PipeOpen
    <2>2. /\ CloseFor(i, {loc[i].w}) /\ Goto(i, "wholePointer")
          /\ UNCHANGED <<file, loc, pipe, shm, child, ans, up>>
      BY <1>8 DEF WholeClose, ClosesWriteEnd
    <2> QED
      BY <1>1, <1>2, <1>3, <1>5, <2>1, <2>2, TypeClosed
  <1>9. CASE WholeRead(i)
    <2>1. pc[i] \in ReaderOpen /\ loc[i].r \in Fds
      BY <1>2, <1>9 DEF WholeRead, AtLabel, ReaderOpen
    <2>2. PICK l \in {"wholeSize", "wholeWait"} : Goto(i, l)
      BY <1>9 DEF WholeRead
    <2>3. /\ loc' \in [Ids -> Locals] /\ (\A j \in Ids \ {i} : loc'[j] = loc[j])
          /\ loc'[i].r = loc[i].r
          /\ pipe' \in [Ids -> Seq(Items)] /\ (\A j \in Ids : Len(pipe'[j]) <= PipeSize)
      <3>1. CASE UNCHANGED <<pipe, loc>>
        BY <1>1, <3>1
      <3>2. CASE ~UNCHANGED <<pipe, loc>>
        <4>1. /\ Readable(loc[i].r) /\ Consume(loc[i].r)
              /\ loc' = [loc EXCEPT ![i].size = NextItem(loc[i].r).size]
          BY <1>9, <3>2 DEF WholeRead
        <4> QED
          BY <4>1, ReadIs
      <3> QED
        BY <3>1, <3>2
    <2>4. UNCHANGED <<file, tab, shm, child, ans, strayed, up>>
      BY <1>9 DEF WholeRead
    <2> QED
      BY <1>1, <1>5, <2>1, <2>2, <2>3, <2>4, TypeMoved
  <1>10. CASE WholeWait(i)
    <2>1. pc[i] \in ReaderOpen /\ loc[i].r \in Fds
      BY <1>2, <1>10 DEF WholeWait, AtLabel, ReaderOpen
    <2>2. PICK c \in Ids : child' = [child EXCEPT ![c].st = "reaped"]
      BY <1>10 DEF WholeWait
    <2>3. child' \in [Ids -> Children] /\ \A j \in Ids : SentOk(child'[j])
      BY <2>2, ReapedIs
    <2>4. Goto(i, "wholeSend") /\ UNCHANGED <<file, loc, tab, pipe, shm, ans, strayed, up>>
      BY <1>10 DEF WholeWait
    <2> QED
      BY <1>1, <1>5, <2>1, <2>3, <2>4, TypeMoved
  <1>11. CASE WholeSend(i)
    <2>1. CASE Crash
      BY <2>1, TypeCrash
    <2>2. CASE ~Crash
      <3> DEFINE fine == 200
                 n == loc[i].size
                 g == [m \in 1..n |-> 0]
      <3>1. Reply(i, Answer(fine, g, Pieces(n))) /\ Done(i) /\ UNCHANGED <<file, osVars, up>>
        BY <1>11, <2>2 DEF WholeSend
      <3>2. n \in Nat
        BY <1>1 DEF Locals
      <3> HIDE DEF n
      <3>3. g \in Seq(Nat) /\ fine \in Nat /\ n \in Int
        BY <3>2
      <3> HIDE DEF fine, g
      <3>4. Answer(fine, g, Pieces(n)) \in Replies
        BY <3>3, AnswerType
      <3> QED
        BY <1>1, <3>1, <3>4, TypeAnswered
    <2> QED
      BY <2>1, <2>2
  <1> QED
    BY <1>6, <1>7, <1>8, <1>9, <1>10, <1>11

LEMMA TypeNext ==
    ASSUME ServerTypeInv, [Next]_vars PROVE ServerTypeInv'
  <1>1. ASSUME NEW i \in Ids, HandlerStep(i) PROVE ServerTypeInv'
    BY <1>1, TypeEntered, TypeInServer, TypeSelect, TypeInfo, TypeWhole DEF HandlerStep
  <1>2. CASE UNCHANGED vars
    BY <1>2 DEF ServerTypeInv, vars
  <1> QED
    BY <1>1, <1>2, TypeArrive, TypeChildStep DEF Next

(***************************************************************************)
(* The invariant                                                           *)
(***************************************************************************)

Waited == {"selectSend", "infoMap", "infoClose", "infoCloseAgain"}

\* A request's child is of the kind its handler forks, and is waited for
\* before the handler goes past its wait.
KindOk(i) ==
    /\ child[i].kind = "none" <=> child[i].st = "none"
    /\ child[i].kind = "select" =>
          child[i].st \in {"select", "selectSize", "selectData", "ended", "reaped"}
    /\ child[i].kind = "info" => child[i].st \in {"info", "infoCopy", "infoExit", "ended", "reaped"}
    /\ pc[i] \in NotForked => child[i].kind = "none" /\ ans[i] = <<>>
    /\ pc[i] \in SelectForked => child[i].kind = "select"
    /\ pc[i] \in InfoForked => child[i].kind = "info"
    /\ pc[i] \in WholeForked => child[i].kind = "whole"
    /\ pc[i] \in Waited => child[i].st = "reaped"
    /\ pc[i] = "over" /\ child[i].kind \in {"select", "info"} =>
          child[i].st = "reaped" \/ Dropped \in Range(ans[i])

\* What a request holds in the server's table: what its handler has open, or
\* what a failed fork or a whole read has left behind.
HasOpen(i, f) ==
    \/ pc[i] \in PipeOpen /\ f \in {loc[i].r, loc[i].w}
    \/ pc[i] \in ReaderOpen \union ShmOpen /\ f = loc[i].r
    \/ pc[i] = "over" /\ child[i].st = "none"
    \/ pc[i] = "over" /\ child[i].kind = "whole" /\ tab[Server][f].end = "r"

\* A handler's numbers name its own ends, and nothing else names them.
Owns(i) ==
    /\ pc[i] \in PipeOpen \union ReaderOpen => tab[Server][loc[i].r] = ReadEnd(i)
    /\ pc[i] \in PipeOpen => tab[Server][loc[i].w] = WriteEnd(i)
    /\ pc[i] \in ShmOpen => tab[Server][loc[i].r] = ShmEnd(i)
    /\ \A f \in Fds : tab[Server][f].obj = i => HasOpen(i, f)

Unsent(i)   == child[i].sent = 0 /\ (child[i].st \in {"select", "selectSize"} \/ (Ended(i) /\ ~child[i].fin))
SizeSent(i) == child[i].st \in {"selectData", "ended", "reaped"}

\* A child writes into its own pipe, the size first; its handler has what was
\* written, or nothing from a child that ended before it wrote.
Flows(i) ==
    /\ child[i].kind \in {"select", "whole"} /\ ~Ended(i) =>
          child[i].w \in Fds /\ child[i].w # child[i].r /\ tab[i][child[i].w] = WriteEnd(i)
    /\ \A n \in DOMAIN pipe[i] : pipe[i][n].src = i
    /\ pc[i] \in NotForked \union {"selectClose", "selectSize"} => loc[i].got = <<>> /\ loc[i].size = 0
    /\ pc[i] \in NotForked => pipe[i] = <<>>
    /\ pc[i] \in {"selectClose", "selectSize"} =>
          \/ pipe[i] = <<>> /\ Unsent(i)
          \/ pipe[i] # <<>> /\ Head(pipe[i]).size = child[i].want /\ SizeSent(i)
    /\ pc[i] \in {"selectAlloc", "selectData", "selectWait", "selectSend"} =>
          /\ Range(loc[i].got) \subseteq {i}
          /\ \/ loc[i].size = child[i].want /\ SizeSent(i)
             \/ loc[i].size = 0 /\ Ended(i) /\ Unsent(i)
    /\ pc[i] \in {"selectWait", "selectSend"} => Len(loc[i].got) = loc[i].size

AnswersOk(i) ==
    child[i].kind = "select" =>
        \A a \in Answers(i, 200) :
            /\ Ended(i) /\ Range(a.got) \subseteq {i}
            /\ Len(a.got) = child[i].want \/ (a.got = <<>> /\ Unsent(i))

Sound(i) == KindOk(i) /\ (strayed = {} => (up => Owns(i)) /\ Flows(i) /\ AnswersOk(i))

ServerInv == ServerTypeInv /\ \A i \in Ids : Sound(i)

-----------------------------------------------------------------------------
\* What a step does to a request j that it is not a step of: nothing, unless
\* it waits for j's child.
ReapedBy(j) ==
    /\ child[j].st = "ended" /\ child'[j].st = "reaped"
    /\ child'[j].kind = child[j].kind /\ child'[j].want = child[j].want
    /\ child'[j].sent = child[j].sent /\ child'[j].fin = child[j].fin
    /\ child'[j].w = child[j].w /\ child'[j].r = child[j].r

Spares(j) ==
    /\ pc'[j] = pc[j] /\ loc'[j] = loc[j] /\ ans'[j] = ans[j] /\ tab'[j] = tab[j]
    /\ child'[j] = child[j] \/ ReapedBy(j)
    /\ strayed' = {} =>
          /\ strayed = {} /\ pipe'[j] = pipe[j]
          /\ up' => /\ up
                    /\ \A f \in Fds : (tab[Server][f].obj = j \/ tab'[Server][f].obj = j) =>
                                         tab'[Server][f] = tab[Server][f]

LEMMA SparedOwns ==
    ASSUME ServerTypeInv, NEW j \in Ids, Owns(j),
           pc'[j] = pc[j], loc'[j] = loc[j],
           child'[j] = child[j] \/ (child'[j].kind = child[j].kind /\ child'[j].st # "none" /\ child[j].st # "none"),
           \A f \in Fds : (tab[Server][f].obj = j \/ tab'[Server][f].obj = j) =>
                             tab'[Server][f] = tab[Server][f]
    PROVE  Owns(j)'
  <1>1. pc[j] \in PipeOpen \union ReaderOpen => tab'[Server][loc'[j].r] = ReadEnd(j)
    <2>1. ReadEnd(j).obj = j
      BY EndsAreEntries
    <2> QED
      BY <2>1 DEF ServerTypeInv, Owns
  <1>2. pc[j] \in PipeOpen => tab'[Server][loc'[j].w] = WriteEnd(j)
    <2>1. WriteEnd(j).obj = j
      BY EndsAreEntries
    <2> QED
      BY <2>1 DEF ServerTypeInv, Owns
  <1>3. pc[j] \in ShmOpen => tab'[Server][loc'[j].r] = ShmEnd(j)
    <2>1. ShmEnd(j).obj = j
      BY EndsAreEntries
    <2> QED
      BY <2>1 DEF ServerTypeInv, Owns
  <1>4. ASSUME NEW f \in Fds, tab'[Server][f].obj = j PROVE HasOpen(j, f)'
    BY <1>4 DEF Owns, HasOpen
  <1> QED
    BY <1>1, <1>2, <1>3, <1>4 DEF Owns, ReadEnd, WriteEnd, ShmEnd

LEMMA SparedFlows ==
    ASSUME ServerTypeInv, NEW j \in Ids, Flows(j), AnswersOk(j),
           pc'[j] = pc[j], loc'[j] = loc[j], ans'[j] = ans[j], tab'[j] = tab[j], pipe'[j] = pipe[j],
           child'[j] = child[j] \/ ReapedBy(j)
    PROVE  Flows(j)' /\ AnswersOk(j)'
  <1>1. /\ child'[j].kind = child[j].kind /\ child'[j].want = child[j].want
        /\ child'[j].sent = child[j].sent /\ child'[j].fin = child[j].fin
        /\ child'[j].w = child[j].w /\ child'[j].r = child[j].r
        /\ \/ child'[j].st = child[j].st
           \/ child[j].st = "ended" /\ child'[j].st = "reaped"
    BY DEF ReapedBy
  <1>2. Flows(j)'
    BY <1>1 DEF Flows, Ended, Unsent, SizeSent, WriteEnd
  <1>3. ASSUME child[j].kind = "select", NEW a \in Answers(j, 200)
        PROVE  /\ Ended(j)' /\ Range(a.got) \subseteq {j}
               /\ Len(a.got) = child'[j].want \/ (a.got = <<>> /\ Unsent(j)')
    <2>1. /\ Ended(j) /\ Range(a.got) \subseteq {j}
          /\ Len(a.got) = child[j].want \/ (a.got = <<>> /\ Unsent(j))
      BY <1>3 DEF AnswersOk
    <2>2. Ended(j)' /\ (Unsent(j) => Unsent(j)')
      BY <1>1, <2>1 DEF Ended, Unsent
    <2> QED
      BY <1>1, <2>1, <2>2
  <1>4. AnswersOk(j)'
    BY <1>1, <1>3 DEF AnswersOk, Answers
  <1> QED
    BY <1>2, <1>4

LEMMA Spared ==
    ASSUME ServerTypeInv, NEW j \in Ids, Sound(j), Spares(j) PROVE Sound(j)'
  <1>1. KindOk(j)'
    BY DEF Sound, KindOk, Spares, ReapedBy
  <1>2. ASSUME strayed' = {} PROVE (up' => Owns(j)') /\ Flows(j)' /\ AnswersOk(j)'
    <2>1. strayed = {} /\ pipe'[j] = pipe[j]
      BY <1>2 DEF Spares
    <2>2. ASSUME up' PROVE Owns(j)'
      BY <1>2, <2>1, <2>2, SparedOwns DEF Sound, Spares, ReapedBy
    <2> QED
      BY <2>1, <2>2, SparedFlows DEF Sound, Spares
  <1> QED
    BY <1>1, <1>2 DEF Sound

-----------------------------------------------------------------------------
(* What a pipe holds. *)

LEMMA AppendIs ==
    ASSUME NEW s \in Seq(Items), NEW x \in Items, NEW i, x.src = i,
           \A n \in DOMAIN s : s[n].src = i
    PROVE  LET t == Append(s, x)
           IN  /\ \A n \in DOMAIN t : t[n].src = i
               /\ t # <<>> /\ (s # <<>> => Head(t) = Head(s)) /\ (s = <<>> => Head(t) = x)
  <1> DEFINE t == Append(s, x)
  <1>1. /\ DOMAIN s = 1..Len(s) /\ Len(s) \in Nat /\ t \in Seq(Items) /\ Len(t) = Len(s) + 1
        /\ DOMAIN t = 1..(Len(s) + 1)
        /\ \A n \in 1..Len(s) : t[n] = s[n]
        /\ t[Len(s) + 1] = x
    BY AppendProperties, LenProperties
  <1> HIDE DEF t
  <1>2. \A n \in DOMAIN t : n \in DOMAIN s \/ n = Len(s) + 1
    BY <1>1
  <1>3. t # <<>> /\ Head(t) = t[1]
    BY <1>1, HeadTailProperties, EmptySeq
  <1>4. s # <<>> => Len(s) # 0 /\ Head(s) = s[1]
    BY <1>1, HeadTailProperties, EmptySeq
  <1>5. s = <<>> => Len(s) = 0
    BY EmptySeq
  <1> QED
    BY <1>1, <1>2, <1>3, <1>4, <1>5 DEF t

LEMMA TailIs ==
    ASSUME NEW s \in Seq(Items), s # <<>>, NEW i, \A n \in DOMAIN s : s[n].src = i
    PROVE  Head(s).src = i /\ \A n \in DOMAIN Tail(s) : Tail(s)[n].src = i
  <1>1. /\ DOMAIN s = 1..Len(s) /\ Len(s) \in Nat /\ Len(s) # 0 /\ Head(s) = s[1]
        /\ Tail(s) \in Seq(Items) /\ Len(Tail(s)) = Len(s) - 1
        /\ \A n \in 1..Len(Tail(s)) : Tail(s)[n] = s[n + 1]
    BY HeadTailProperties, LenProperties, EmptySeq
  <1>2. DOMAIN Tail(s) = 1..(Len(s) - 1)
    BY <1>1, LenProperties
  <1> QED
    BY <1>1, <1>2

\* While no close has strayed, a child's writing end is that of its own pipe.
LEMMA OwnTarget ==
    ASSUME ServerTypeInv, NEW i \in Ids, KindOk(i), Flows(i),
           child[i].st \in {"selectSize", "selectData", "wholeSize", "wholeSize2"}
    PROVE  Target(i) = WriteEnd(i)
  <1>1. child[i] \in Children
    BY DEF ServerTypeInv
  <1>2. child[i].kind \in {"select", "whole"} /\ ~Ended(i)
    BY <1>1 DEF KindOk, Children, Ended
  <1> QED
    BY <1>2, Constants DEF Flows, Target, At

-----------------------------------------------------------------------------
(* The steps of a child. *)

LEMMA ChildKind ==
    ASSUME ServerTypeInv, NEW i \in Ids, KindOk(i), pc' = pc,
           child'[i].kind = child[i].kind, child[i].st # "none", ~Ended(i),
           child'[i].st # "none", child'[i].st # "reaped",
           child[i].kind = "select" => child'[i].st \in {"select", "selectSize", "selectData", "ended"},
           child[i].kind = "info" => child'[i].st \in {"info", "infoCopy", "infoExit", "ended"},
           Range(ans[i]) \subseteq Range(ans'[i])
    PROVE  KindOk(i)'
  BY DEF KindOk, Ended

LEMMA ChildAnswers ==
    ASSUME NEW i \in Ids, ~Ended(i), child'[i].kind = child[i].kind,
           child[i].kind = "select" => ans'[i] = ans[i], AnswersOk(i)
    PROVE  AnswersOk(i)'
  BY DEF AnswersOk, Answers

\* A child ends.
LEMMA ChildEndFlows ==
    ASSUME ServerTypeInv, NEW i \in Ids, KindOk(i), Flows(i), UNCHANGED <<pc, loc>>, pipe' = pipe,
           child[i].st # "none", ~Ended(i),
           child'[i].st = "ended", child'[i].kind = child[i].kind,
           child'[i].want = child[i].want, child'[i].sent = child[i].sent,
           child'[i].fin => child[i].kind # "select" \/ child[i].st = "selectData"
    PROVE  Flows(i)'
  <1>1. pc[i] \in SelectForked => child[i].kind = "select"
    BY DEF KindOk
  <1> QED
    BY <1>1 DEF Flows, Ended, Unsent, SizeSent, SelectForked

\* A child reads the dataset.
LEMMA ChildReadsFlows ==
    ASSUME ServerTypeInv, NEW i \in Ids, KindOk(i), Flows(i), ChildReads(i)
    PROVE  Flows(i)'
  <1>1. /\ UNCHANGED <<pc, loc, pipe>> /\ child'[i].kind = child[i].kind
        /\ child'[i].sent = child[i].sent /\ child'[i].w = child[i].w /\ child'[i].r = child[i].r
        /\ child[i].st \in {"select", "whole"} /\ child'[i].st \in {"selectSize", "wholeSize"}
        /\ child[i].st = "select" => child'[i].st = "selectSize"
        /\ \A f \in Fds \ {child[i].r} : tab'[i][f] = tab[i][f]
    BY ChildReadsIs
  <1>2. child[i].kind = "select" => child[i].st = "select"
    BY <1>1 DEF KindOk
  <1>3. pc[i] \in SelectForked => child[i].kind = "select"
    BY DEF KindOk
  <1>4. child[i].kind # "none"
    BY <1>1 DEF KindOk
  <1>5. ~Ended(i)
    BY <1>1 DEF Ended
  <1>6. child[i].kind \in {"select", "whole"} => tab'[i][child[i].w] = WriteEnd(i)
    BY <1>1, <1>5 DEF Flows
  <1> QED
    BY <1>1, <1>2, <1>3, <1>4, <1>5, <1>6 DEF Flows, Ended, Unsent, SizeSent, SelectForked, WriteEnd

\* A child writes.
LEMMA ChildWriteFlows ==
    ASSUME ServerTypeInv, NEW i \in Ids, KindOk(i), Flows(i), NEW n \in Nat,
           child[i].st \in {"selectSize", "selectData", "wholeSize", "wholeSize2"},
           \/ Writable(i, 1) /\ Write(i, <<Item(i, n)>>)
           \/ pipe' = pipe /\ child[i].kind # "select",
           UNCHANGED <<pc, loc, tab>>,
           child'[i].kind = child[i].kind, child'[i].want = child[i].want, child'[i].fin = child[i].fin,
           child'[i].w = child[i].w, child'[i].r = child[i].r,
           child[i].kind = "select" => /\ child'[i].st = "selectData"
                                       /\ child[i].st = "selectSize" => n = child[i].want
    PROVE  Flows(i)' /\ \A j \in Ids \ {i} : pipe'[j] = pipe[j]
  <1>1. Target(i) = WriteEnd(i) /\ Target(i).obj = i
    BY OwnTarget, EndsAreEntries
  <1>2. pc[i] \in SelectForked => child[i].kind = "select"
    BY DEF KindOk
  <1>3. child[i].kind # "none" /\ ~Ended(i)
    BY DEF KindOk, Ended
  <1>4. pc[i] \notin NotForked
    BY <1>3 DEF KindOk
  <1>5. (child[i].kind \in {"select", "whole"} /\ ~Ended(i)')
           => /\ child'[i].w \in Fds /\ child'[i].w # child'[i].r
              /\ tab'[i][child'[i].w] = WriteEnd(i)
    BY <1>3 DEF Flows
  <1>6. CASE pipe' = pipe /\ child[i].kind # "select"
    <2>1. pc[i] \notin SelectForked
      BY <1>2, <1>6
    <2> QED
      BY <1>3, <1>4, <1>5, <1>6, <2>1 DEF Flows, SelectForked, WriteEnd
  <1>7. CASE Writable(i, 1) /\ Write(i, <<Item(i, n)>>)
    <2> DEFINE x == Item(i, n)
               t == Append(pipe[i], x)
    <2>1. /\ pipe'[i] = t /\ pipe[i] \in Seq(Items) /\ x \in Items
          /\ \A p \in Ids \ {i} : pipe'[p] = pipe[p]
      BY <1>1, <1>7, WriteIs
    <2>2. x.src = i /\ x.size = n
      BY DEF Item
    <2> HIDE DEF x
    <2>3. \A m \in DOMAIN pipe[i] : pipe[i][m].src = i
      BY DEF Flows
    <2>4. /\ \A m \in DOMAIN t : t[m].src = i
          /\ t # <<>> /\ (pipe[i] # <<>> => Head(t) = Head(pipe[i])) /\ (pipe[i] = <<>> => Head(t) = x)
      BY <2>1, <2>2, <2>3, AppendIs
    <2> HIDE DEF t
    <2>5. ASSUME pc[i] \in {"selectClose", "selectSize"}
          PROVE  Head(t).size = child[i].want /\ SizeSent(i)'
      <3>1. child[i].kind = "select" /\ child'[i].st = "selectData"
        BY <1>2, <2>5 DEF SelectForked
      <3>2. \/ pipe[i] = <<>> /\ Unsent(i)
            \/ pipe[i] # <<>> /\ Head(pipe[i]).size = child[i].want /\ SizeSent(i)
        BY <2>5 DEF Flows
      <3>3. CASE pipe[i] = <<>> /\ Unsent(i)
        <4>1. child[i].st = "selectSize"
          BY <1>3, <3>3 DEF Unsent
        <4> QED
          BY <2>2, <2>4, <3>1, <3>3, <4>1 DEF SizeSent
      <3>4. CASE pipe[i] # <<>> /\ Head(pipe[i]).size = child[i].want
        BY <2>4, <3>1, <3>4 DEF SizeSent
      <3> QED
        BY <3>2, <3>3, <3>4
    <2>6. ASSUME pc[i] \in {"selectAlloc", "selectData", "selectWait", "selectSend"}
          PROVE  loc[i].size = child[i].want /\ SizeSent(i)'
      <3>1. child[i].kind = "select" /\ child'[i].st = "selectData"
        BY <1>2, <2>6 DEF SelectForked
      <3> QED
        BY <1>3, <2>6, <3>1 DEF Flows, SizeSent
    <2>7. Flows(i)'
      BY <1>4, <1>5, <2>1, <2>4, <2>5, <2>6 DEF Flows, WriteEnd
    <2> QED
      BY <2>1, <2>7
  <1> QED
    BY <1>6, <1>7

\* The rest of a child's steps, from what they change.
LEMMA ChildSound ==
    ASSUME ServerTypeInv, NEW i \in Ids, Sound(i),
           child[i].st # "none", ~Ended(i), KindOk(i)', UNCHANGED <<pc, loc, strayed, up>>,
           child'[i].kind = child[i].kind, child'[i].st # "none", tab'[Server] = tab[Server],
           child[i].kind = "select" => ans'[i] = ans[i],
           strayed = {} => Flows(i)',
           \A j \in Ids \ {i} : /\ child'[j] = child[j] /\ ans'[j] = ans[j] /\ tab'[j] = tab[j]
                                /\ strayed = {} => pipe'[j] = pipe[j]
    PROVE  Sound(i)' /\ \A j \in Ids \ {i} : Spares(j)
  <1>1. ASSUME strayed = {}, up PROVE Owns(i)'
    BY <1>1, SparedOwns DEF Sound
  <1>2. ASSUME strayed = {} PROVE AnswersOk(i)'
    BY <1>2, ChildAnswers DEF Sound
  <1>3. \A j \in Ids \ {i} : Spares(j)
    BY DEF Spares
  <1> QED
    BY <1>1, <1>2, <1>3 DEF Sound

LEMMA ExitSound ==
    ASSUME ServerTypeInv, NEW i \in Ids, Sound(i), NEW fin \in BOOLEAN, Exit(i, fin),
           child[i].st # "none", ~Ended(i),
           fin => child[i].kind # "select" \/ child[i].st = "selectData"
    PROVE  Sound(i)' /\ \A j \in Ids \ {i} : Spares(j)
  <1>1. /\ (\A p \in Procs \ {i} : tab'[p] = tab[p]) /\ (\A j \in Ids \ {i} : child'[j] = child[j])
        /\ child'[i].st = "ended" /\ child'[i].fin = fin /\ child'[i].kind = child[i].kind
        /\ child'[i].want = child[i].want /\ child'[i].sent = child[i].sent
        /\ UNCHANGED <<file, pc, loc, pipe, shm, ans, strayed, up>>
    BY ExitIs
  <1>2. tab'[Server] = tab[Server] /\ \A j \in Ids \ {i} : tab'[j] = tab[j]
    BY <1>1, Constants
  <1>3. KindOk(i)'
    BY <1>1, ChildKind DEF Sound
  <1>4. ASSUME strayed = {} PROVE Flows(i)'
    BY <1>1, <1>4, ChildEndFlows DEF Sound
  <1> QED
    BY <1>1, <1>2, <1>3, <1>4, ChildSound

LEMMA ExitsSound ==
    ASSUME ServerTypeInv, NEW i \in Ids, Sound(i), NEW fin \in BOOLEAN, ExitsThroughHdf5(i, fin),
           child[i].st \in {"info", "infoCopy"}, UNCHANGED <<file, pc, loc, pipe, ans, strayed, up>>
    PROVE  Sound(i)' /\ \A j \in Ids \ {i} : Spares(j)
  <1>1. /\ (\A p \in Procs \ {i} : tab'[p] = tab[p]) /\ (\A j \in Ids \ {i} : child'[j] = child[j])
        /\ child'[i].st \in {"infoExit", "ended"} /\ child'[i].kind = child[i].kind
        /\ child'[i].want = child[i].want /\ child'[i].sent = child[i].sent
    BY ExitsIs
  <1>2. tab'[Server] = tab[Server] /\ \A j \in Ids \ {i} : tab'[j] = tab[j]
    BY <1>1, Constants
  <1>3. KindOk(i) /\ child[i].kind \notin {"none", "select"} /\ ~Ended(i)
    BY DEF Sound, KindOk, Ended
  <1>4. KindOk(i)'
    BY <1>1, <1>3, ChildKind
  <1>5. ASSUME strayed = {} PROVE Flows(i)'
    <2>1. pc[i] \notin SelectForked \union NotForked
      BY <1>3 DEF KindOk
    <2>2. Flows(i)
      BY <1>5 DEF Sound
    <2>3. CASE child'[i].st = "ended"
      BY <1>1, <2>1, <2>2, <2>3 DEF Flows, SelectForked, Ended
    <2>4. CASE child'[i].st = "infoExit"
      <3>1. /\ child'[i].r = child[i].r /\ child'[i].w = child[i].w
            /\ \A f \in Fds \ {child[i].r} : tab'[i][f] = tab[i][f]
        BY <2>4, ExitsIs
      <3> QED
        BY <1>1, <1>3, <2>1, <2>2, <3>1 DEF Flows, SelectForked, Ended, WriteEnd
    <2> QED
      BY <1>1, <2>3, <2>4
  <1> QED
    BY <1>1, <1>2, <1>3, <1>4, <1>5, ChildSound

LEMMA ChildStepSound ==
    ASSUME ServerTypeInv, NEW i \in Ids, Sound(i), ChildStep(i) \/ CloneAborts(i) \/ ChildDies(i)
    PROVE  Sound(i)' /\ \A j \in Ids \ {i} : Spares(j)
  <1> DEFINE Goal == Sound(i)' /\ \A j \in Ids \ {i} : Spares(j)
  <1> HIDE DEF Goal
  <1>1. child[i] \in Children /\ KindOk(i) /\ child[i].want \in Nat
    BY DEF ServerTypeInv, Sound, Children
  <1>2. ASSUME Exit(i, FALSE), child[i].st # "none", ~Ended(i) PROVE Goal
    BY <1>2, ExitSound DEF Goal
  <1>3. ASSUME ChildReads(i) PROVE Goal
    <2>1. /\ child[i].st \in {"select", "whole"} /\ child'[i].kind = child[i].kind
          /\ child'[i].st = IF child[i].st = "select" THEN "selectSize" ELSE "wholeSize"
          /\ \A j \in Ids \ {i} : child'[j] = child[j]
          /\ \A p \in Procs \ {i} : tab'[p] = tab[p]
          /\ UNCHANGED <<file, pc, loc, pipe, shm, ans, strayed, up>>
      BY <1>3, ChildReadsIs
    <2>2. tab'[Server] = tab[Server] /\ \A j \in Ids \ {i} : tab'[j] = tab[j]
      BY <2>1, Constants
    <2>3. ~Ended(i) /\ child[i].st # "none"
      BY <2>1 DEF Ended
    <2>4. child[i].kind = "select" => child[i].st = "select"
      BY <1>1, <2>1 DEF KindOk
    <2>5. child[i].kind # "info"
      BY <1>1, <2>1 DEF KindOk
    <2>6. KindOk(i)'
      BY <1>1, <2>1, <2>3, <2>4, <2>5, ChildKind
    <2>7. ASSUME strayed = {} PROVE Flows(i)'
      BY <1>1, <1>3, <2>7, ChildReadsFlows DEF Sound
    <2>8. child'[i].st # "none"
      BY <2>1
    <2> QED
      BY <2>1, <2>2, <2>3, <2>6, <2>7, <2>8, ChildSound DEF Goal
  <1>4. ASSUME NEW n \in Nat, NEW l \in {"selectData", "wholeSize2", "cloneReply"},
               child[i].st \in {"selectSize", "selectData", "wholeSize", "wholeSize2"},
               \/ Writable(i, 1) /\ Write(i, <<Item(i, n)>>)
               \/ pipe' = pipe /\ child[i].kind # "select",
               child'[i].st = l, child'[i].kind = child[i].kind, child'[i].want = child[i].want,
               child'[i].fin = child[i].fin, child'[i].w = child[i].w, child'[i].r = child[i].r,
               \A j \in Ids \ {i} : child'[j] = child[j],
               child[i].kind = "select" => /\ l = "selectData"
                                           /\ child[i].st = "selectSize" => n = child[i].want,
               UNCHANGED <<file, pc, loc, tab, shm, ans, strayed, up>>
        PROVE  Goal
    <2>1. ~Ended(i) /\ child[i].st # "none" /\ child[i].kind # "info"
      BY <1>1, <1>4 DEF Ended, KindOk
    <2>2. KindOk(i)'
      BY <1>1, <1>4, <2>1, ChildKind
    <2>3. ASSUME strayed = {} PROVE Flows(i)' /\ \A j \in Ids \ {i} : pipe'[j] = pipe[j]
      BY <1>1, <1>4, <2>3, ChildWriteFlows DEF Sound
    <2>4. child'[i].st # "none"
      BY <1>4
    <2> QED
      BY <1>4, <2>1, <2>2, <2>3, <2>4, ChildSound DEF Goal
  <1>5. ASSUME SelectSize(i) PROVE Goal
    <2>1. /\ child[i].st = "selectSize" /\ child' = [child EXCEPT ![i].st = "selectData"]
          /\ Writable(i, 1) /\ Write(i, <<Item(i, child[i].want)>>)
          /\ UNCHANGED <<file, pc, loc, tab, shm, ans, strayed, up>>
      BY <1>5 DEF SelectSize
    <2>2. /\ child'[i].st = "selectData" /\ child'[i].kind = child[i].kind
          /\ child'[i].want = child[i].want /\ child'[i].fin = child[i].fin
          /\ child'[i].w = child[i].w /\ child'[i].r = child[i].r
          /\ \A j \in Ids \ {i} : child'[j] = child[j]
      BY <2>1, ChildGoesOn DEF ChildStates
    <2> QED
      BY <1>1, <1>4, <2>1, <2>2
  <1>6. ASSUME SelectUnit(i) PROVE Goal
    <2>1. /\ child[i].st = "selectData" /\ child' = [child EXCEPT ![i].sent = @ + 1]
          /\ Writable(i, 1) /\ Write(i, <<Item(i, 0)>>)
          /\ UNCHANGED <<file, pc, loc, tab, shm, ans, strayed, up>>
      BY <1>6 DEF SelectUnit
    <2>2. /\ child'[i].st = "selectData" /\ child'[i].kind = child[i].kind
          /\ child'[i].want = child[i].want /\ child'[i].fin = child[i].fin
          /\ child'[i].w = child[i].w /\ child'[i].r = child[i].r
          /\ \A j \in Ids \ {i} : child'[j] = child[j]
      BY <2>1, SentIs
    <2> DEFINE n == 0
    <2>3. n \in Nat /\ Write(i, <<Item(i, n)>>)
      BY <2>1
    <2> HIDE DEF n
    <2> QED
      BY <1>1, <1>4, <2>1, <2>2, <2>3
  <1>7. ASSUME WholeWrites(i) PROVE Goal
    <2>1. PICK n \in Nat, l \in {"wholeSize2", "cloneReply"} :
             /\ child[i].st \in {"wholeSize", "wholeSize2"}
             /\ child' = [child EXCEPT ![i].st = l]
             /\ \/ Writable(i, 1) /\ Write(i, <<Item(i, n)>>)
                \/ pipe' = pipe
             /\ UNCHANGED <<file, pc, loc, tab, shm, ans, strayed, up>>
      BY <1>1, <1>7 DEF WholeWrites
    <2>2. child[i].kind # "select"
      BY <1>1, <2>1 DEF KindOk
    <2>3. /\ child'[i].st = l /\ child'[i].kind = child[i].kind
          /\ child'[i].want = child[i].want /\ child'[i].fin = child[i].fin
          /\ child'[i].w = child[i].w /\ child'[i].r = child[i].r
          /\ \A j \in Ids \ {i} : child'[j] = child[j]
      BY <2>1, ChildGoesOn DEF ChildStates
    <2> QED
      BY <1>4, <2>1, <2>2, <2>3
  <1>8. ASSUME CloneReplies(i) PROVE Goal
    <2>1. /\ child[i].st = "cloneReply" /\ child' = [child EXCEPT ![i].st = "clone"]
          /\ Reply(i, Answer(200, <<>>, Pieces(0)))
          /\ UNCHANGED <<file, pc, loc, tab, pipe, shm, strayed, up>>
      BY <1>8 DEF CloneReplies
    <2>2. /\ child'[i].st = "clone" /\ child'[i].kind = child[i].kind
          /\ child'[i].want = child[i].want /\ child'[i].fin = child[i].fin
          /\ child'[i].w = child[i].w /\ child'[i].r = child[i].r /\ child'[i].sent = child[i].sent
          /\ \A j \in Ids \ {i} : child'[j] = child[j]
      BY <2>1, ChildGoesOn DEF ChildStates
    <2>3. Answer(200, <<>>, Pieces(0)) \in Replies
      <3> DEFINE none == <<>>
                 zero == 0
                 fine == 200
      <3>1. none \in Seq(Nat) /\ zero \in Int /\ fine \in Nat
        OBVIOUS
      <3> HIDE DEF none, zero, fine
      <3>2. Answer(fine, none, Pieces(zero)) \in Replies
        BY <3>1, AnswerType
      <3> QED
        BY <3>2 DEF none, zero, fine
    <2>4. Range(ans[i]) \subseteq Range(ans'[i]) /\ \A j \in Ids \ {i} : ans'[j] = ans[j]
      BY <2>1, <2>3, ReplyIs
    <2>5. child[i].kind \notin {"select", "info", "none"} /\ ~Ended(i) /\ child[i].st # "none"
      BY <1>1, <2>1 DEF KindOk, Ended
    <2>6. KindOk(i)'
      BY <1>1, <2>1, <2>2, <2>4, <2>5, ChildKind
    <2>7. ASSUME strayed = {} PROVE Flows(i)'
      <3>1. pc[i] \notin SelectForked \union NotForked
        BY <1>1, <2>5 DEF KindOk
      <3>2. Flows(i)
        BY <2>7 DEF Sound
      <3> QED
        BY <2>1, <2>2, <2>5, <3>1, <3>2 DEF Flows, SelectForked, Ended, WriteEnd
    <2> QED
      BY <2>1, <2>2, <2>4, <2>5, <2>6, <2>7, ChildSound DEF Goal
  <1>9. ASSUME InfoTruncates(i) PROVE Goal
    <2>1. child[i].st = "info" /\ ~Ended(i) /\ child[i].kind \notin {"select", "none"}
      BY <1>1, <1>9 DEF InfoTruncates, KindOk, Ended
    <2>2. CASE At(i, child[i].r).end # "shm"
      BY <1>9, <2>1, <2>2, ExitsSound DEF InfoTruncates, Goal
    <2>3. CASE At(i, child[i].r).end = "shm"
      <3>1. /\ child' = [child EXCEPT ![i].st = "infoCopy"]
            /\ UNCHANGED <<file, pc, loc, tab, pipe, ans, strayed, up>>
        BY <1>9, <2>3 DEF InfoTruncates
      <3>2. /\ child'[i].st = "infoCopy" /\ child'[i].kind = child[i].kind
            /\ child'[i].want = child[i].want /\ child'[i].fin = child[i].fin
            /\ child'[i].w = child[i].w /\ child'[i].r = child[i].r
            /\ \A j \in Ids \ {i} : child'[j] = child[j]
        BY <3>1, ChildGoesOn DEF ChildStates
      <3>3. KindOk(i)'
        BY <1>1, <2>1, <3>1, <3>2, ChildKind
      <3>4. ASSUME strayed = {} PROVE Flows(i)'
        <4>1. pc[i] \notin SelectForked \union NotForked
          BY <1>1, <2>1 DEF KindOk
        <4>2. Flows(i)
          BY <3>4 DEF Sound
        <4> QED
          BY <2>1, <3>1, <3>2, <4>1, <4>2 DEF Flows, SelectForked, Ended, WriteEnd
      <3>5. child'[i].st # "none" /\ child[i].st # "none"
        BY <2>1, <3>2
      <3> QED
        BY <2>1, <3>1, <3>2, <3>3, <3>4, <3>5, ChildSound DEF Goal
    <2> QED
      BY <2>2, <2>3
  <1>10. ASSUME InfoCopies(i) PROVE Goal
    BY <1>10, ExitsSound DEF InfoCopies, Goal
  <1>11. ASSUME SelectEnds(i) PROVE Goal
    <2>1. child[i].st = "selectData" /\ ~Ended(i) /\ Exit(i, TRUE)
      BY <1>11 DEF SelectEnds, Ended
    <2> QED
      BY <2>1, ExitSound DEF Goal
  <1>12. ASSUME SelectGivesUp(i) \/ CloneAborts(i) \/ ChildDies(i) PROVE Goal
    BY <1>2, <1>12 DEF SelectGivesUp, CloneAborts, ChildDies, Ended
  <1>13. Goal
    BY <1>3, <1>5, <1>6, <1>7, <1>8, <1>9, <1>10, <1>11, <1>12 DEF ChildStep
  <1> QED
    BY <1>13 DEF Goal

-----------------------------------------------------------------------------
(* The steps of a handler. *)

\* The table of the server after a close.
LEMMA ClosedTable ==
    ASSUME ServerTypeInv, NEW i \in Ids, NEW f \in Fds, CloseFor(i, {f}), strayed' = {}
    PROVE  /\ strayed = {}
           /\ \A g \in Fds : tab'[Server][g].obj = i => g # f /\ tab[Server][g].obj = i /\ tab'[Server][g] = tab[Server][g]
           /\ \A j \in Ids \ {i} : \A g \in Fds : (tab[Server][g].obj = j \/ tab'[Server][g].obj = j) =>
                                         tab'[Server][g] = tab[Server][g]
  <1>1. /\ tab'[Server][f] = Free /\ \A g \in Fds \ {f} : tab'[Server][g] = tab[Server][g]
        /\ strayed = {} /\ tab[Server][f].obj \in {0, i}
    BY CloseForIs
  <1>2. Free.obj = 0 /\ 0 \notin Ids
    BY Constants DEF Free
  <1> QED
    BY <1>1, <1>2

\* A handler returns.
LEMMA OverSound ==
    ASSUME ServerTypeInv, NEW i \in Ids, Sound(i), NEW a \in Replies, Reply(i, a), Done(i),
           UNCHANGED <<pipe, child>>, tab'[i] = tab[i], strayed' = {} => strayed = {},
           child[i].kind \in {"select", "info"} => child[i].st = "reaped" \/ a = Dropped,
           strayed' = {} /\ up' =>
               \A f \in Fds : tab'[Server][f].obj = i =>
                   \/ child[i].st = "none"
                   \/ child[i].kind = "whole" /\ tab'[Server][f].end = "r",
           strayed = {} /\ child[i].kind = "select" /\ a.code = 200 =>
               /\ Ended(i) /\ Range(a.got) \subseteq {i}
               /\ Len(a.got) = child[i].want \/ (a.got = <<>> /\ Unsent(i))
    PROVE  Sound(i)'
  <1>1. pc'[i] = "over" /\ Range(ans'[i]) = Range(ans[i]) \union {a}
    BY DoneIs, ReplyIs
  <1>2. "over" \notin NotForked \union SelectForked \union InfoForked \union WholeForked \union Waited
        /\ "over" \notin PipeOpen \union ReaderOpen \union ShmOpen
    BY DEF NotForked, AllKinds, SelectForked, InfoForked, WholeForked, Waited, PipeOpen, ReaderOpen, ShmOpen
  <1>3. KindOk(i)'
    BY <1>1, <1>2 DEF Sound, KindOk
  <1>4. ASSUME strayed' = {}, up' PROVE Owns(i)'
    BY <1>1, <1>2, <1>4 DEF Owns, HasOpen
  <1>5. ASSUME strayed' = {} PROVE Flows(i)'
    <2>1. Flows(i)
      BY <1>5 DEF Sound
    <2> QED
      BY <1>1, <1>2, <2>1 DEF Flows, SelectForked, Ended, WriteEnd
  <1>6. ASSUME strayed' = {} PROVE AnswersOk(i)'
    <2>1. AnswersOk(i)
      BY <1>6 DEF Sound
    <2>2. ASSUME child[i].kind = "select", NEW b \in Range(ans'[i]), b.code = 200
          PROVE  /\ Ended(i) /\ Range(b.got) \subseteq {i}
                 /\ Len(b.got) = child[i].want \/ (b.got = <<>> /\ Unsent(i))
      <3>1. CASE b = a
        BY <1>6, <2>2, <3>1
      <3>2. CASE b # a
        <4>1. b \in Answers(i, 200)
          BY <1>1, <2>2, <3>2 DEF Answers
        <4> QED
          BY <2>1, <2>2, <4>1 DEF AnswersOk
      <3> QED
        BY <3>1, <3>2
    <2>3. child'[i] = child[i] /\ (Ended(i)' <=> Ended(i)) /\ (Unsent(i)' <=> Unsent(i))
      BY DEF Ended, Unsent
    <2>4. \A b \in Answers(i, 200)' : b \in Range(ans'[i]) /\ b.code = 200
      BY DEF Answers
    <2> QED
      BY <2>2, <2>3, <2>4 DEF AnswersOk
  <1> QED
    BY <1>3, <1>4, <1>5, <1>6 DEF Sound

\* What a request's return leaves of the others.
LEMMA OverSpares ==
    ASSUME ServerTypeInv, NEW i \in Ids, NEW a \in Replies, Reply(i, a), Done(i),
           UNCHANGED <<pipe, child, tab, up, strayed>>
    PROVE  \A j \in Ids \ {i} : Spares(j)
  <1>1. \A j \in Ids \ {i} : pc'[j] = pc[j] /\ loc'[j] = loc[j] /\ ans'[j] = ans[j]
    BY DoneIs, ReplyIs
  <1> QED
    BY <1>1 DEF Spares

LEMMA DroppedIs ==
    \A a \in Replies : a.code # 0 => a # Dropped
  BY DroppedType

\* What request i holds where its handler has nothing open.
LEMMA NothingOpen ==
    ASSUME NEW i \in Ids, Owns(i), pc[i] # "over",
           pc[i] \notin PipeOpen \union ReaderOpen \union ShmOpen, NEW f \in Fds
    PROVE  tab[Server][f].obj # i
  BY DEF Owns, HasOpen

\* A handler returns without having forked.
LEMMA UnforkedOver ==
    ASSUME ServerTypeInv, NEW i \in Ids, Sound(i), pc[i] \in NotForked, NEW a \in Replies,
           Reply(i, a), Done(i), UNCHANGED <<osVars, up>>
    PROVE  Sound(i)' /\ \A j \in Ids \ {i} : Spares(j)
  <1>1. child[i].kind = "none" /\ child[i].st = "none"
    BY DEF Sound, KindOk
  <1>2. UNCHANGED <<tab, pipe, shm, child, strayed, up>>
    BY DEF osVars
  <1> QED
    BY <1>1, <1>2, OverSound, OverSpares

\* A request arrives.
LEMMA ArriveSound ==
    ASSUME ServerTypeInv, NEW i \in Ids, NEW k \in Kinds, Sound(i), Arrive(i, k)
    PROVE  Sound(i)' /\ \A j \in Ids \ {i} : Spares(j)
  <1>1. pc[i] = "idle" /\ UNCHANGED <<file, loc, tab, pipe, shm, child, strayed, up>>
    BY DEF Arrive, AtLabel, osVars
  <1>2. PICK l \in AllKinds \union {"over"} : Goto(i, l) /\ (l # "over" => ans' = ans)
    BY ServerAssumption DEF Arrive
  <1>3. pc'[i] = l /\ \A j \in Ids \ {i} : pc'[j] = pc[j]
    BY <1>2, GotoIs
  <1>4. (\A j \in Ids \ {i} : ans'[j] = ans[j])
    <2> DEFINE code == 404
    <2>1. CASE Reply(i, Plain(404))
      <3>1. code \in Nat /\ Reply(i, Plain(code))
        BY <2>1
      <3> HIDE DEF code
      <3> QED
        BY <3>1, PlainType, ReplyIs
    <2>2. CASE UNCHANGED ans
      BY <2>2
    <2> QED
      BY <2>1, <2>2 DEF Arrive
  <1>5. child[i].kind = "none" /\ child[i].st = "none"
    BY <1>1 DEF Sound, KindOk, NotForked
  <1>6. /\ l \notin SelectForked \union InfoForked \union WholeForked \union Waited
        /\ l \notin PipeOpen \union ReaderOpen \union ShmOpen /\ l # "selectWait"
        /\ l # "over" => l \in NotForked
        /\ "idle" \in NotForked /\ "idle" \notin PipeOpen \union ReaderOpen \union ShmOpen /\ "over" \notin NotForked
    BY DEF AllKinds, SelectForked, InfoForked, WholeForked, Waited, PipeOpen, ReaderOpen, ShmOpen, NotForked
  <1>7. KindOk(i)'
    BY <1>1, <1>2, <1>3, <1>5, <1>6 DEF Sound, KindOk
  <1>8. ASSUME strayed' = {}, up' PROVE Owns(i)'
    <2>1. Owns(i)
      BY <1>1, <1>8 DEF Sound
    <2>2. \A f \in Fds : tab[Server][f].obj # i
      BY <1>1, <1>6, <2>1, NothingOpen
    <2> QED
      BY <1>1, <1>3, <1>6, <2>2 DEF Owns
  <1>9. ASSUME strayed' = {} PROVE Flows(i)'
    <2>1. Flows(i)
      BY <1>1, <1>9 DEF Sound
    <2> QED
      BY <1>1, <1>3, <1>5, <1>6, <2>1 DEF Flows, SelectForked
  <1>10. AnswersOk(i)'
    BY <1>1, <1>5 DEF AnswersOk
  <1>11. \A j \in Ids \ {i} : Spares(j)
    BY <1>1, <1>3, <1>4 DEF Spares
  <1> QED
    BY <1>7, <1>8, <1>9, <1>10, <1>11 DEF Sound

\* The handlers that stay in the server process.
LEMMA EnteredSound ==
    ASSUME ServerTypeInv, NEW i \in Ids, Sound(i), EnterHdf5(i)
    PROVE  Sound(i)' /\ \A j \in Ids \ {i} : Spares(j)
  <1>1. /\ pc[i] \in {"create", "write", "dataset"}
        /\ UNCHANGED <<file, loc, tab, pipe, shm, child, ans, strayed, up>>
    BY DEF EnterHdf5, Entered, osVars
  <1>2. PICK l \in Inside : Goto(i, l)
    BY DEF EnterHdf5, Entered, Inside
  <1>3. pc'[i] = l /\ \A j \in Ids \ {i} : pc'[j] = pc[j]
    BY <1>2, GotoIs
  <1>4. /\ l \notin SelectForked \union InfoForked \union WholeForked \union Waited \union {"over"}
        /\ l \notin PipeOpen \union ReaderOpen \union ShmOpen /\ l \in NotForked
        /\ pc[i] \in NotForked /\ pc[i] \notin PipeOpen \union ReaderOpen \union ShmOpen \union {"over"}
    BY <1>1 DEF Inside, AllKinds, SelectForked, InfoForked, WholeForked, Waited, PipeOpen, ReaderOpen,
                ShmOpen, NotForked
  <1>5. child[i].kind = "none" /\ child[i].st = "none"
    BY <1>4 DEF Sound, KindOk
  <1>6. KindOk(i)'
    BY <1>1, <1>3, <1>4, <1>5 DEF Sound, KindOk
  <1>7. ASSUME strayed' = {}, up' PROVE Owns(i)'
    <2>1. Owns(i)
      BY <1>1, <1>7 DEF Sound
    <2>2. \A f \in Fds : tab[Server][f].obj # i
      BY <1>4, <2>1, NothingOpen
    <2> QED
      BY <1>1, <1>3, <1>4, <2>2 DEF Owns
  <1>8. ASSUME strayed' = {} PROVE Flows(i)'
    <2>1. Flows(i)
      BY <1>1, <1>8 DEF Sound
    <2> QED
      BY <1>1, <1>3, <1>4, <1>5, <2>1 DEF Flows, SelectForked
  <1>9. AnswersOk(i)'
    BY <1>1, <1>5 DEF AnswersOk
  <1>10. \A j \in Ids \ {i} : Spares(j)
    BY <1>1, <1>3 DEF Spares
  <1> QED
    BY <1>6, <1>7, <1>8, <1>9, <1>10 DEF Sound

LEMMA InServerSound ==
    ASSUME ServerTypeInv, NEW i \in Ids, Sound(i),
           \/ CreateFile(i) \/ WriteDataset(i) \/ RefuseDataset(i) \/ CreateDataset(i)
           \/ DeleteFile(i) \/ RootInfo(i)
    PROVE  Sound(i)' /\ \A j \in Ids \ {i} : Spares(j)
  <1> DEFINE Goal == Sound(i)' /\ \A j \in Ids \ {i} : Spares(j)
  <1> HIDE DEF Goal
  <1>1. ASSUME NEW f, NEW code \in Nat, NEW l \in AllKinds \union Inside, InServer(i, l, f, code) PROVE Goal
    <2>1. Plain(code) \in Replies
      BY PlainType
    <2>2. pc[i] \in NotForked
      BY <1>1 DEF InServer, AtLabel, NotForked, Inside
    <2> QED
      BY <1>1, <2>1, <2>2, UnforkedOver DEF InServer, Goal
  <1>2. ASSUME CreateFile(i) PROVE Goal
    <2>1. PICK f : InServer(i, "creating", f, IF f = "absent" THEN 400 ELSE 201)
      BY <1>2 DEF CreateFile
    <2> QED
      BY <1>1, <2>1 DEF Inside
  <1>3. ASSUME CreateDataset(i) PROVE Goal
    <2>1. PICK f : InServer(i, "adding", f, IF file = "absent" THEN 400 ELSE 201)
      BY <1>3 DEF CreateDataset
    <2> QED
      BY <1>1, <2>1 DEF Inside
  <1>4. ASSUME WriteDataset(i) \/ RefuseDataset(i) \/ DeleteFile(i) \/ RootInfo(i) PROVE Goal
    BY <1>1, <1>4 DEF WriteDataset, RefuseDataset, DeleteFile, RootInfo, AllKinds, Inside
  <1>5. Goal
    BY <1>2, <1>3, <1>4
  <1> QED
    BY <1>5 DEF Goal

\* A pipe is made.
LEMMA MakePipeSound ==
    ASSUME ServerTypeInv, NEW i \in Ids, Sound(i), up, pc[i] \in {"select", "whole"},
           NEW l \in {"selectFork", "wholeFork"}, NEW a \in Replies, MakePipe(i, l, a)
    PROVE  Sound(i)' /\ \A j \in Ids \ {i} : Spares(j)
  <1>1. /\ pc[i] \in NotForked /\ pc[i] # "over"
        /\ pc[i] \notin PipeOpen \union ReaderOpen \union ShmOpen
        /\ l \in NotForked /\ l \in PipeOpen /\ l \notin ShmOpen
        /\ l \notin SelectForked \union InfoForked \union WholeForked \union Waited \union {"over"}
    BY DEF NotForked, AllKinds, PipeOpen, ReaderOpen, ShmOpen, SelectForked, InfoForked, WholeForked, Waited
  <1>2. CASE Reply(i, a) /\ Done(i) /\ UNCHANGED <<file, osVars, up>>
    BY <1>1, <1>2, UnforkedOver
  <1>3. CASE ~(Reply(i, a) /\ Done(i) /\ UNCHANGED <<file, osVars, up>>)
    <2>1. l \in Labels
      BY <1>1 DEF Labels
    <2>2. /\ pc'[i] = l /\ pc' \in [Ids -> Labels] /\ \A j \in Ids \ {i} : pc'[j] = pc[j]
          /\ loc' \in [Ids -> Locals] /\ \A j \in Ids \ {i} : loc'[j] = loc[j]
          /\ loc'[i].size = loc[i].size /\ loc'[i].got = loc[i].got
          /\ loc'[i].r \in Fds /\ loc'[i].w \in Fds /\ loc'[i].r # loc'[i].w
          /\ tab[Server][loc'[i].r] = Free /\ tab[Server][loc'[i].w] = Free
          /\ tab' \in [Procs -> [Fds -> Entry]] /\ \A p \in Ids : tab'[p] = tab[p]
          /\ tab'[Server][loc'[i].r] = ReadEnd(i) /\ tab'[Server][loc'[i].w] = WriteEnd(i)
          /\ \A f \in Fds \ {loc'[i].r, loc'[i].w} : tab'[Server][f] = tab[Server][f]
          /\ UNCHANGED <<file, pipe, shm, child, ans, strayed, up>>
      BY <1>3, <2>1, MakePipeIs
    <2>3. child[i].kind = "none" /\ child[i].st = "none" /\ ans[i] = <<>>
      BY <1>1 DEF Sound, KindOk
    <2>4. KindOk(i)'
      BY <1>1, <2>2, <2>3 DEF KindOk
    <2>5. ASSUME strayed' = {} PROVE Owns(i)'
      <3>1. Owns(i)
        BY <2>2, <2>5 DEF Sound
      <3>2. \A f \in Fds : tab[Server][f].obj # i
        BY <1>1, <3>1, NothingOpen
      <3>3. \A f \in Fds : tab'[Server][f].obj = i => f \in {loc'[i].r, loc'[i].w}
        BY <2>2, <3>2
      <3> QED
        BY <1>1, <2>2, <3>3 DEF Owns, HasOpen, ReadEnd, WriteEnd
    <2>6. ASSUME strayed' = {} PROVE Flows(i)'
      <3>1. Flows(i)
        BY <2>2, <2>6 DEF Sound
      <3> QED
        BY <1>1, <2>2, <2>3, <3>1 DEF Flows, SelectForked
    <2>7. AnswersOk(i)'
      BY <2>2, <2>3 DEF AnswersOk
    <2>8. ASSUME NEW j \in Ids \ {i} PROVE Spares(j)
      <3>1. /\ Free.obj # j /\ ReadEnd(i).obj # j /\ WriteEnd(i).obj # j
        BY <2>8, Constants DEF Free, ReadEnd, WriteEnd
      <3>2. \A f \in Fds : (tab[Server][f].obj = j \/ tab'[Server][f].obj = j) =>
                              tab'[Server][f] = tab[Server][f]
        BY <2>2, <3>1
      <3> QED
        BY <2>2, <2>8, <3>2 DEF Spares
    <2> QED
      BY <2>4, <2>5, <2>6, <2>7, <2>8 DEF Sound
  <1> QED
    BY <1>2, <1>3

\* A handler forks.
LEMMA ForkSound ==
    ASSUME ServerTypeInv, NEW i \in Ids, Sound(i), up, NEW k \in {"select", "info", "whole"},
           NEW l \in Labels, NEW a \in Replies,
           \/ pc[i] = "selectFork" /\ k = "select" /\ l = "selectClose"
           \/ pc[i] = "infoFork" /\ k = "info" /\ l = "infoWait"
           \/ pc[i] = "wholeFork" /\ k = "whole" /\ l = "wholeClose",
           ForkTo(i, k, l) \/ ForkFails(i, a)
    PROVE  Sound(i)' /\ \A j \in Ids \ {i} : Spares(j)
  <1>1. pc[i] \in NotForked /\ pc[i] # "over"
    BY DEF NotForked
  <1>2. CASE ForkFails(i, a)
    BY <1>1, <1>2, UnforkedOver DEF ForkFails
  <1>3. CASE ForkTo(i, k, l)
    <2>1. /\ pc'[i] = l /\ \A j \in Ids \ {i} : pc'[j] = pc[j]
          /\ \A j \in Ids \ {i} : child'[j] = child[j]
          /\ child'[i].kind = k /\ child'[i].st = k /\ child'[i].w = loc[i].w
          /\ child'[i].want = 0 /\ child'[i].sent = 0 /\ child'[i].fin = FALSE
          /\ \A p \in Procs \ {i} : tab'[p] = tab[p]
          /\ tab'[i] = tab[Server]
          /\ child'[i].r = loc[i].r
          /\ UNCHANGED <<file, loc, pipe, shm, ans, strayed, up>>
      <3>1. pc'[i] = l /\ \A j \in Ids \ {i} : pc'[j] = pc[j]
        BY <1>3, GotoIs DEF ForkTo
      <3>2. /\ child'[i].kind = k /\ child'[i].st = k /\ child'[i].w = loc[i].w
            /\ child'[i].want = 0 /\ child'[i].sent = 0 /\ child'[i].fin = FALSE
            /\ child'[i].r = loc[i].r
        BY <1>3, ForkToIs
      <3>3. /\ \A p \in Procs \ {i} : tab'[p] = tab[p]
            /\ \A j \in Ids \ {i} : child'[j] = child[j]
            /\ tab'[i] = tab[Server]
        BY <1>3, ForkToIs
      <3>4. UNCHANGED <<file, loc, pipe, shm, ans, strayed, up>>
        BY <1>3 DEF ForkTo
      <3> QED
        BY <3>1, <3>2, <3>3, <3>4
    <2>2. tab'[Server] = tab[Server] /\ \A j \in Ids \ {i} : tab'[j] = tab[j]
      BY <2>1, Constants
    <2>3. child[i].kind = "none" /\ child[i].st = "none" /\ ans[i] = <<>>
      BY <1>1 DEF Sound, KindOk
    <2>4. /\ l \notin NotForked /\ l \notin Waited /\ l # "over"
          /\ l \in SelectForked => k = "select"
          /\ l \in InfoForked => k = "info"
          /\ l \in WholeForked => k = "whole"
          /\ l \in PipeOpen <=> pc[i] \in PipeOpen
          /\ l \in PipeOpen <=> k \in {"select", "whole"}
          /\ l \notin ReaderOpen /\ pc[i] \notin ReaderOpen
          /\ l \in ShmOpen <=> pc[i] \in ShmOpen
      BY DEF NotForked, AllKinds, PipeOpen, ReaderOpen, ShmOpen, SelectForked, InfoForked, WholeForked, Waited
    <2>5. KindOk(i)'
      BY <2>1, <2>4 DEF KindOk
    <2>6. ASSUME strayed' = {} PROVE Owns(i)'
      <3>1. Owns(i)
        BY <2>1, <2>6 DEF Sound
      <3> QED
        BY <1>1, <2>1, <2>2, <2>4, <3>1 DEF Owns, HasOpen, ReadEnd, WriteEnd, ShmEnd
    <2>7. ASSUME strayed' = {} PROVE Flows(i)'
      <3>1. Flows(i) /\ Owns(i)
        BY <2>1, <2>7 DEF Sound
      <3>2. ASSUME k \in {"select", "whole"}
            PROVE  loc[i].w \in Fds /\ loc[i].w # loc[i].r /\ tab'[i][loc[i].w] = WriteEnd(i)
        <4>1. pc[i] \in PipeOpen /\ loc[i].w \in Fds
          BY <2>4, <3>2 DEF ServerTypeInv
        <4>2. tab[Server][loc[i].r] = ReadEnd(i) /\ tab[Server][loc[i].w] = WriteEnd(i)
          BY <3>1, <4>1 DEF Owns
        <4>3. ReadEnd(i) # WriteEnd(i)
          BY EndsAreEntries
        <4> QED
          BY <2>1, <4>1, <4>2, <4>3
      <3>3. pipe[i] = <<>> /\ loc[i].got = <<>> /\ loc[i].size = 0
        BY <1>1, <3>1 DEF Flows
      <3>4. l \notin {"selectSize", "selectAlloc", "selectData", "selectWait", "selectSend"}
        OBVIOUS
      <3>5. l = "selectClose" => k = "select"
        OBVIOUS
      <3> QED
        BY <2>1, <2>4, <3>1, <3>2, <3>3, <3>4, <3>5 DEF Flows, Unsent, WriteEnd
    <2>8. AnswersOk(i)'
      BY <2>1, <2>3 DEF AnswersOk, Answers, Range
    <2>9. \A j \in Ids \ {i} : Spares(j)
      BY <2>1, <2>2 DEF Spares
    <2> QED
      BY <2>5, <2>6, <2>7, <2>8, <2>9 DEF Sound
  <1> QED
    BY <1>2, <1>3

\* A handler closes its own copy of the writing end.
LEMMA CloseWriteSound ==
    ASSUME ServerTypeInv, NEW i \in Ids, Sound(i), up, NEW l,
           \/ pc[i] = "selectClose" /\ l = "selectSize"
           \/ pc[i] = "wholeClose" /\ l = "wholePointer",
           ClosesWriteEnd(i, l)
    PROVE  Sound(i)' /\ \A j \in Ids \ {i} : Spares(j)
  <1>1. CloseFor(i, {loc[i].w}) /\ Goto(i, l) /\ UNCHANGED <<file, loc, pipe, shm, child, ans, up>>
    BY DEF ClosesWriteEnd
  <1>2. pc[i] \in PipeOpen /\ loc[i].w \in Fds /\ loc[i].r \in Fds
    BY DEF ServerTypeInv, PipeOpen
  <1>3. pc'[i] = l /\ \A j \in Ids \ {i} : pc'[j] = pc[j]
    BY <1>1, GotoIs
  <1>4. \A p \in Ids : tab'[p] = tab[p]
    BY <1>1, <1>2, CloseForIs
  <1>5. /\ l \notin NotForked /\ l \notin Waited /\ l # "over" /\ pc[i] # "over"
        /\ l \in SelectForked <=> pc[i] \in SelectForked
        /\ l \notin InfoForked
        /\ l \in WholeForked <=> pc[i] \in WholeForked
        /\ l \notin PipeOpen /\ l \in ReaderOpen /\ l \notin ShmOpen
        /\ pc[i] \notin ReaderOpen \union ShmOpen
    BY DEF NotForked, AllKinds, PipeOpen, ReaderOpen, ShmOpen, SelectForked, InfoForked, WholeForked, Waited
  <1>6. KindOk(i)'
    BY <1>1, <1>3, <1>5 DEF Sound, KindOk
  <1>7. ASSUME strayed' = {} PROVE Owns(i)'
    <2>1. /\ strayed = {}
          /\ \A g \in Fds : tab'[Server][g].obj = i =>
                 g # loc[i].w /\ tab[Server][g].obj = i /\ tab'[Server][g] = tab[Server][g]
      BY <1>1, <1>2, <1>7, ClosedTable
    <2>2. Owns(i)
      BY <2>1 DEF Sound
    <2>3. \A g \in Fds : tab'[Server][g].obj = i => g = loc[i].r
      BY <1>2, <1>5, <2>1, <2>2 DEF Owns, HasOpen
    <2>4. tab'[Server][loc[i].r] = ReadEnd(i)
      <3>1. tab[Server][loc[i].r] = ReadEnd(i) /\ tab[Server][loc[i].w] = WriteEnd(i) /\ ReadEnd(i) # WriteEnd(i)
        BY <1>2, <2>2, EndsAreEntries DEF Owns
      <3> QED
        BY <1>1, <1>2, <3>1, CloseForIs
    <2> QED
      BY <1>1, <1>3, <1>5, <2>3, <2>4 DEF Owns, HasOpen, ReadEnd
  <1>8. ASSUME strayed' = {} PROVE Flows(i)' /\ AnswersOk(i)'
    <2>1. strayed = {}
      BY <1>1, <1>2, <1>8, ClosedTable
    <2>2. Flows(i) /\ AnswersOk(i)
      BY <2>1 DEF Sound
    <2>3. Flows(i)'
      BY <1>1, <1>3, <1>4, <1>5, <2>2 DEF Flows, Unsent, SizeSent, Ended, WriteEnd
    <2>4. AnswersOk(i)'
      BY <1>1, <2>2 DEF AnswersOk, Answers, Unsent, Ended
    <2> QED
      BY <2>3, <2>4
  <1>9. ASSUME NEW j \in Ids \ {i} PROVE Spares(j)
    BY <1>1, <1>2, <1>3, <1>4, <1>9, ClosedTable DEF Spares
  <1> QED
    BY <1>6, <1>7, <1>8, <1>9 DEF Sound

\* An early return of the handler of a selection.
LEMMA GivesUpSound ==
    ASSUME ServerTypeInv, NEW i \in Ids, Sound(i), up,
           pc[i] \in {"selectSize", "selectAlloc", "selectData"}, GivesUp(i)
    PROVE  Sound(i)' /\ \A j \in Ids \ {i} : Spares(j)
  <1>1. /\ CloseFor(i, {loc[i].r}) /\ Reply(i, Dropped) /\ Done(i)
        /\ UNCHANGED <<file, pipe, shm, child, up>>
    BY DEF GivesUp
  <1>2. /\ pc[i] \in ReaderOpen /\ pc[i] \notin PipeOpen \union ShmOpen \union {"over"} /\ loc[i].r \in Fds
    BY DEF ServerTypeInv, ReaderOpen, PipeOpen, ShmOpen
  <1>3. \A p \in Ids : tab'[p] = tab[p]
    BY <1>1, <1>2, CloseForIs
  <1>4. strayed' = {} => strayed = {}
    BY <1>1, <1>2, ClosedTable
  <1>5. ASSUME strayed' = {} PROVE \A f \in Fds : tab'[Server][f].obj # i
    <2>1. Owns(i)
      BY <1>4, <1>5 DEF Sound
    <2>2. \A f \in Fds : tab[Server][f].obj = i => f = loc[i].r
      BY <1>2, <2>1 DEF Owns, HasOpen
    <2> QED
      BY <1>1, <1>2, <1>5, <2>2, ClosedTable
  <1>6. Dropped \in Replies /\ Dropped.code # 200
    BY DroppedType
  <1>7. Sound(i)'
    BY <1>1, <1>3, <1>4, <1>5, <1>6, OverSound
  <1>8. \A j \in Ids \ {i} : pc'[j] = pc[j] /\ loc'[j] = loc[j] /\ ans'[j] = ans[j]
    BY <1>1, <1>6, DoneIs, ReplyIs
  <1>9. ASSUME NEW j \in Ids \ {i} PROVE Spares(j)
    BY <1>1, <1>2, <1>3, <1>8, <1>9, ClosedTable DEF Spares
  <1> QED
    BY <1>7, <1>9

-----------------------------------------------------------------------------
(* The handler of a selection. *)

\* What carries over when it goes from one label to another.
LEMMA SelectGoes ==
    ASSUME ServerTypeInv, NEW i \in Ids, Sound(i),
           pc[i] \in SelectForked, pc'[i] \in SelectForked,
           pc[i] \in ReaderOpen, pc'[i] \in ReaderOpen,
           loc'[i].r = loc[i].r, UNCHANGED <<tab, child, ans, strayed, up>>
    PROVE  /\ KindOk(i)'
           /\ strayed = {} /\ up => Owns(i)'
           /\ strayed = {} => AnswersOk(i)'
  <1>1. \A l \in SelectForked \intersect ReaderOpen :
            /\ l \notin NotForked /\ l \notin InfoForked /\ l \notin WholeForked
            /\ l \notin Waited /\ l # "over" /\ l \notin PipeOpen /\ l \notin ShmOpen
    BY DEF NotForked, AllKinds, PipeOpen, ReaderOpen, ShmOpen, SelectForked, InfoForked, WholeForked, Waited
  <1>2. KindOk(i)'
    BY <1>1 DEF Sound, KindOk
  <1>3. ASSUME strayed = {}, up PROVE Owns(i)'
    <2>1. Owns(i)
      BY <1>3 DEF Sound
    <2> QED
      BY <1>1, <2>1 DEF Owns, HasOpen, ReadEnd
  <1>4. ASSUME strayed = {} PROVE AnswersOk(i)'
    <2>1. AnswersOk(i)
      BY <1>4 DEF Sound
    <2> QED
      BY <2>1 DEF AnswersOk, Answers, Ended, Unsent
  <1> QED
    BY <1>2, <1>3, <1>4

\* What its number names.
LEMMA OwnReader ==
    ASSUME ServerTypeInv, NEW i \in Ids, Owns(i), pc[i] \in ReaderOpen
    PROVE  /\ loc[i].r \in Fds /\ loc[i].r \in 0..MaxFd /\ tab[Server][loc[i].r] = ReadEnd(i)
           /\ At(Server, loc[i].r) = ReadEnd(i) /\ At(Server, loc[i].r).obj = i
  <1>1. loc[i].r \in Fds
    BY DEF ServerTypeInv
  <1>2. loc[i].r # NoFd /\ loc[i].r \in 0..MaxFd
    BY <1>1, Constants
  <1>3. tab[Server][loc[i].r] = ReadEnd(i)
    BY DEF Owns
  <1> QED
    BY <1>1, <1>2, <1>3, EndsAreEntries DEF At

\* An item is taken from the request's own pipe.
LEMMA OwnItem ==
    ASSUME ServerTypeInv, NEW i \in Ids, Owns(i), Flows(i), pc[i] \in ReaderOpen,
           Readable(loc[i].r), Consume(loc[i].r)
    PROVE  /\ pipe[i] # <<>> /\ NextItem(loc[i].r) = Head(pipe[i]) /\ NextItem(loc[i].r).src = i
           /\ \A n \in DOMAIN pipe'[i] : pipe'[i][n].src = i
           /\ \A j \in Ids \ {i} : pipe'[j] = pipe[j]
  <1>1. loc[i].r \in 0..MaxFd /\ At(Server, loc[i].r).obj = i
    BY OwnReader
  <1>2. /\ pipe[i] \in Seq(Items) /\ pipe[i] # <<>> /\ pipe'[i] = Tail(pipe[i])
        /\ \A j \in Ids \ {i} : pipe'[j] = pipe[j]
        /\ NextItem(loc[i].r) = Head(pipe[i])
    BY <1>1, ConsumeIs
  <1>3. \A n \in DOMAIN pipe[i] : pipe[i][n].src = i
    BY DEF Flows
  <1> QED
    BY <1>2, <1>3, TailIs

\* At the end of file of its own pipe the child has ended.
LEMMA OwnEof ==
    ASSUME ServerTypeInv, NEW i \in Ids, Owns(i), Flows(i), pc[i] \in ReaderOpen,
           child[i].kind = "select", AtEof(loc[i].r)
    PROVE  pipe[i] = <<>> /\ Ended(i)
  <1>1. At(Server, loc[i].r).obj = i
    BY OwnReader
  <1>2. pipe[i] = <<>> /\ Held(WriteEnd(i)) = {}
    BY <1>1 DEF AtEof
  <1>3. i \in Procs
    BY Constants
  <1>4. ASSUME ~Ended(i) PROVE FALSE
    <2>1. child[i].w \in Fds /\ tab[i][child[i].w] = WriteEnd(i)
      BY <1>4 DEF Flows
    <2>2. i \in Held(WriteEnd(i))
      BY <1>3, <2>1 DEF Held
    <2> QED
      BY <1>2, <2>2
  <1> QED
    BY <1>2, <1>4

LEMMA SelectReadSizeSound ==
    ASSUME ServerTypeInv, NEW i \in Ids, Sound(i), SelectReadSize(i)
    PROVE  Sound(i)' /\ \A j \in Ids \ {i} : Spares(j)
  <1>1. up /\ pc[i] = "selectSize"
    BY DEF SelectReadSize, AtLabel
  <1>2. /\ pc[i] \in SelectForked /\ pc[i] \in ReaderOpen
        /\ "selectAlloc" \in SelectForked /\ "selectAlloc" \in ReaderOpen /\ "selectAlloc" \notin NotForked
    BY <1>1 DEF SelectForked, ReaderOpen, NotForked, AllKinds
  <1>3. CASE GivesUp(i)
    BY <1>1, <1>3, GivesUpSound
  <1>4. CASE ~GivesUp(i)
    <2>1. /\ Goto(i, "selectAlloc") /\ UNCHANGED <<file, tab, shm, child, ans, strayed, up>>
          /\ \/ /\ Readable(loc[i].r) /\ Consume(loc[i].r)
                /\ loc' = [loc EXCEPT ![i].size = NextItem(loc[i].r).size]
             \/ AtEof(loc[i].r) /\ UNCHANGED <<loc, pipe>>
      BY <1>4 DEF SelectReadSize, osVars
    <2>2. pc'[i] = "selectAlloc" /\ \A j \in Ids \ {i} : pc'[j] = pc[j]
      BY <2>1, GotoIs
    <2>3. loc \in [Ids -> Locals]
      BY DEF ServerTypeInv
    <2>4. /\ loc'[i].r = loc[i].r /\ loc'[i].got = loc[i].got
          /\ \A j \in Ids \ {i} : loc'[j] = loc[j]
      BY <2>1, <2>3 DEF Locals
    <2>5. /\ KindOk(i)'
          /\ strayed = {} => Owns(i)' /\ AnswersOk(i)'
      BY <1>1, <1>2, <2>1, <2>2, <2>4, SelectGoes
    <2>6. ASSUME strayed = {} PROVE Flows(i)' /\ \A j \in Ids \ {i} : pipe'[j] = pipe[j]
      <3>1. Owns(i) /\ Flows(i) /\ child[i].kind = "select"
        BY <1>1, <1>2, <2>6 DEF Sound, KindOk
      <3>2. /\ loc[i].got = <<>> /\ loc[i].size = 0
            /\ \/ pipe[i] = <<>> /\ Unsent(i)
               \/ pipe[i] # <<>> /\ Head(pipe[i]).size = child[i].want /\ SizeSent(i)
        BY <1>1, <3>1 DEF Flows
      <3>3. Range(loc'[i].got) \subseteq {i}
        BY <2>4, <3>2 DEF Range
      <3>4. CASE Readable(loc[i].r) /\ Consume(loc[i].r) /\ loc' = [loc EXCEPT ![i].size = NextItem(loc[i].r).size]
        <4>1. /\ pipe[i] # <<>> /\ NextItem(loc[i].r) = Head(pipe[i])
              /\ \A n \in DOMAIN pipe'[i] : pipe'[i][n].src = i
              /\ \A j \in Ids \ {i} : pipe'[j] = pipe[j]
          BY <1>2, <3>1, <3>4, OwnItem
        <4>2. loc'[i].size = Head(pipe[i]).size
          <5> DEFINE n == NextItem(loc[i].r).size
          <5>1. loc' = [loc EXCEPT ![i].size = n]
            BY <3>4
          <5> HIDE DEF n
          <5>2. loc'[i].size = n
            BY <2>3, <5>1 DEF Locals
          <5> QED
            BY <4>1, <5>2 DEF n
        <4>3. loc'[i].size = child[i].want /\ SizeSent(i)
          BY <3>2, <4>1, <4>2
        <4>4. Flows(i)'
          BY <1>2, <2>1, <2>2, <3>1, <3>3, <4>1, <4>3 DEF Flows, SizeSent, Ended, WriteEnd
        <4> QED
          BY <4>1, <4>4
      <3>5. CASE AtEof(loc[i].r) /\ UNCHANGED <<loc, pipe>>
        <4>1. pipe[i] = <<>> /\ Ended(i)
          BY <1>2, <3>1, <3>5, OwnEof
        <4>2. Unsent(i) /\ loc'[i].size = 0
          BY <3>2, <3>5, <4>1
        <4>3. Flows(i)'
          BY <1>2, <2>1, <2>2, <3>1, <3>3, <3>5, <4>1, <4>2 DEF Flows, Unsent, Ended, WriteEnd
        <4> QED
          BY <3>5, <4>3
      <3> QED
        BY <2>1, <3>4, <3>5
    <2>7. \A j \in Ids \ {i} : Spares(j)
      BY <2>1, <2>2, <2>4, <2>6 DEF Spares
    <2> QED
      BY <1>1, <2>1, <2>5, <2>6, <2>7 DEF Sound
  <1> QED
    BY <1>3, <1>4

LEMMA SelectAllocSound ==
    ASSUME ServerTypeInv, NEW i \in Ids, Sound(i), SelectAlloc(i)
    PROVE  Sound(i)' /\ \A j \in Ids \ {i} : Spares(j)
  <1>1. up /\ pc[i] = "selectAlloc"
    BY DEF SelectAlloc, AtLabel
  <1>2. /\ pc[i] \in SelectForked /\ pc[i] \in ReaderOpen
        /\ "selectData" \in SelectForked /\ "selectData" \in ReaderOpen /\ "selectData" \notin NotForked
    BY <1>1 DEF SelectForked, ReaderOpen, NotForked, AllKinds
  <1>3. CASE GivesUp(i)
    BY <1>1, <1>3, GivesUpSound
  <1>4. CASE ~GivesUp(i)
    <2>1. Goto(i, "selectData") /\ UNCHANGED <<file, loc, tab, pipe, shm, child, strayed, ans, up>>
      BY <1>4 DEF SelectAlloc, osVars
    <2>2. pc'[i] = "selectData" /\ \A j \in Ids \ {i} : pc'[j] = pc[j]
      BY <2>1, GotoIs
    <2>3. /\ KindOk(i)'
          /\ strayed = {} => Owns(i)' /\ AnswersOk(i)'
      BY <1>1, <1>2, <2>1, <2>2, SelectGoes
    <2>4. ASSUME strayed = {} PROVE Flows(i)'
      <3>1. Flows(i)
        BY <2>4 DEF Sound
      <3> QED
        BY <1>1, <1>2, <2>1, <2>2, <3>1 DEF Flows, SizeSent, Unsent, Ended, WriteEnd
    <2>5. \A j \in Ids \ {i} : Spares(j)
      BY <2>1, <2>2 DEF Spares
    <2> QED
      BY <2>1, <2>3, <2>4, <2>5 DEF Sound
  <1> QED
    BY <1>3, <1>4

LEMMA RangeAppend ==
    ASSUME NEW s \in Seq(Nat), NEW x \in Nat PROVE Range(Append(s, x)) = Range(s) \union {x}
  <1>1. /\ DOMAIN s = 1..Len(s) /\ Len(s) \in Nat /\ DOMAIN Append(s, x) = 1..(Len(s) + 1)
        /\ \A n \in 1..Len(s) : Append(s, x)[n] = s[n]
        /\ Append(s, x)[Len(s) + 1] = x
    BY AppendProperties, LenProperties
  <1>2. \A n \in 1..(Len(s) + 1) : n = Len(s) + 1 \/ n \in 1..Len(s)
    BY <1>1
  <1>3. Len(s) + 1 \in 1..(Len(s) + 1) /\ \A n \in 1..Len(s) : n \in 1..(Len(s) + 1)
    BY <1>1
  <1>4. \A y : (\E n \in 1..(Len(s) + 1) : Append(s, x)[n] = y) <=> y = x \/ \E n \in 1..Len(s) : s[n] = y
    BY <1>1, <1>2, <1>3
  <1> QED
    BY <1>1, <1>4 DEF Range

LEMMA SelectReadSound ==
    ASSUME ServerTypeInv, NEW i \in Ids, Sound(i), SelectRead(i)
    PROVE  Sound(i)' /\ \A j \in Ids \ {i} : Spares(j)
  <1>1. up /\ pc[i] = "selectData"
    BY DEF SelectRead, AtLabel
  <1>2. pc[i] \in SelectForked /\ pc[i] \in ReaderOpen /\ pc[i] \notin NotForked
    BY <1>1 DEF SelectForked, ReaderOpen, NotForked, AllKinds
  <1>3. CASE GivesUp(i)
    BY <1>1, <1>3, GivesUpSound
  <1>4. CASE ~GivesUp(i)
    <2> DEFINE x == NextItem(loc[i].r).src
               g == Append(loc[i].got, x)
    <2>1. /\ Readable(loc[i].r) /\ Consume(loc[i].r) /\ loc' = [loc EXCEPT ![i].got = g]
          /\ UNCHANGED <<file, pc, tab, shm, child, ans, strayed, up>>
      BY <1>4 DEF SelectRead
    <2>2. loc \in [Ids -> Locals] /\ loc[i].got \in Seq(Nat) /\ loc[i].r \in 0..MaxFd
      BY DEF ServerTypeInv, Locals
    <2> HIDE DEF g
    <2>3. /\ loc'[i].r = loc[i].r /\ loc'[i].got = g /\ loc'[i].size = loc[i].size
          /\ \A j \in Ids \ {i} : loc'[j] = loc[j]
      BY <2>1, <2>2 DEF Locals
    <2>4. pc'[i] = pc[i]
      BY <2>1
    <2>5. /\ KindOk(i)'
          /\ strayed = {} => Owns(i)' /\ AnswersOk(i)'
      BY <1>1, <1>2, <2>1, <2>3, <2>4, SelectGoes
    <2>6. ASSUME strayed = {} PROVE Flows(i)' /\ \A j \in Ids \ {i} : pipe'[j] = pipe[j]
      <3>1. Owns(i) /\ Flows(i)
        BY <1>1, <2>6 DEF Sound
      <3>2. /\ x = i
            /\ \A n \in DOMAIN pipe'[i] : pipe'[i][n].src = i
            /\ \A j \in Ids \ {i} : pipe'[j] = pipe[j]
        BY <1>2, <2>1, <3>1, OwnItem
      <3> HIDE DEF x
      <3>3. Range(loc[i].got) \subseteq {i}
        BY <1>1, <3>1 DEF Flows
      <3>4. i \in Nat
        BY Constants
      <3>5. Range(g) \subseteq {i}
        BY <2>2, <3>2, <3>3, <3>4, RangeAppend DEF g
      <3>6. Flows(i)'
        BY <1>1, <1>2, <2>1, <2>3, <2>4, <3>1, <3>2, <3>5 DEF Flows, SizeSent, Unsent, Ended, WriteEnd
      <3> QED
        BY <3>2, <3>6
    <2>7. \A j \in Ids \ {i} : Spares(j)
      BY <2>1, <2>3, <2>6 DEF Spares
    <2> QED
      BY <1>1, <2>1, <2>5, <2>6, <2>7 DEF Sound
  <1> QED
    BY <1>3, <1>4

LEMMA SelectRestSound ==
    ASSUME ServerTypeInv, NEW i \in Ids, Sound(i), SelectRest(i)
    PROVE  Sound(i)' /\ \A j \in Ids \ {i} : Spares(j)
  <1>1. /\ up /\ pc[i] = "selectData" /\ Len(loc[i].got) = loc[i].size
        /\ CloseFor(i, {loc[i].r}) /\ Goto(i, "selectWait")
        /\ UNCHANGED <<file, loc, pipe, shm, child, ans, up>>
    BY DEF SelectRest, AtLabel
  <1>2. /\ pc[i] \in SelectForked /\ pc[i] \in ReaderOpen /\ loc[i].r \in Fds
        /\ pc[i] \notin PipeOpen \union ShmOpen \union {"over"}
    BY <1>1 DEF ServerTypeInv, SelectForked, ReaderOpen, PipeOpen, ShmOpen
  <1>3. pc'[i] = "selectWait" /\ \A j \in Ids \ {i} : pc'[j] = pc[j]
    BY <1>1, GotoIs
  <1>4. \A p \in Ids : tab'[p] = tab[p]
    BY <1>1, <1>2, CloseForIs
  <1>5. /\ pc'[i] \in SelectForked
        /\ pc'[i] \notin NotForked \union InfoForked \union WholeForked \union Waited \union {"over"}
        /\ pc'[i] \notin PipeOpen \union ReaderOpen \union ShmOpen
    BY <1>3 DEF NotForked, AllKinds, PipeOpen, ReaderOpen, ShmOpen, SelectForked, InfoForked, WholeForked, Waited
  <1>6. KindOk(i)'
    BY <1>1, <1>2, <1>5 DEF Sound, KindOk
  <1>7. ASSUME strayed' = {} PROVE Owns(i)' /\ Flows(i)' /\ AnswersOk(i)'
    <2>1. /\ strayed = {}
          /\ \A g \in Fds : tab'[Server][g].obj = i => g # loc[i].r /\ tab[Server][g].obj = i
      BY <1>1, <1>2, <1>7, ClosedTable
    <2>2. Owns(i) /\ Flows(i) /\ AnswersOk(i)
      BY <1>1, <2>1 DEF Sound
    <2>3. \A g \in Fds : tab'[Server][g].obj # i
      BY <1>2, <2>1, <2>2 DEF Owns, HasOpen
    <2>4. Owns(i)'
      BY <1>5, <2>3 DEF Owns
    <2>5. Flows(i)'
      BY <1>1, <1>3, <1>4, <1>5, <2>2 DEF Flows, SizeSent, Unsent, Ended, WriteEnd
    <2>6. AnswersOk(i)'
      BY <1>1, <2>2 DEF AnswersOk, Answers, Unsent, Ended
    <2> QED
      BY <2>4, <2>5, <2>6
  <1>8. ASSUME NEW j \in Ids \ {i} PROVE Spares(j)
    BY <1>1, <1>2, <1>3, <1>4, <1>8, ClosedTable DEF Spares
  <1> QED
    BY <1>6, <1>7, <1>8 DEF Sound

\* What waitpid() leaves of the others.
LEMMA ReapedSpares ==
    ASSUME ServerTypeInv, NEW i \in Ids, NEW c \in Ids, c = i \/ child[c].st = "ended",
           child' = [child EXCEPT ![c].st = "reaped"],
           \A j \in Ids \ {i} : pc'[j] = pc[j], UNCHANGED <<loc, tab, pipe, ans, strayed, up>>
    PROVE  \A j \in Ids \ {i} : Spares(j)
  <1>1. /\ \A j \in Ids \ {c} : child'[j] = child[j]
        /\ child'[c].st = "reaped" /\ child'[c].kind = child[c].kind
        /\ child'[c].want = child[c].want /\ child'[c].sent = child[c].sent
        /\ child'[c].fin = child[c].fin /\ child'[c].w = child[c].w /\ child'[c].r = child[c].r
    BY ReapedIs
  <1>2. ASSUME NEW j \in Ids \ {i} PROVE child'[j] = child[j] \/ ReapedBy(j)
    BY <1>1, <1>2 DEF ReapedBy
  <1> QED
    BY <1>2 DEF Spares

LEMMA SelectWaitSound ==
    ASSUME ServerTypeInv, NEW i \in Ids, Sound(i), SelectWait(i)
    PROVE  Sound(i)' /\ \A j \in Ids \ {i} : Spares(j)
  <1>1. /\ up /\ pc[i] = "selectWait" /\ Ended(i)
        /\ child' = [child EXCEPT ![i].st = "reaped"] /\ Goto(i, "selectSend")
        /\ UNCHANGED <<file, loc, tab, pipe, shm, ans, strayed, up>>
    BY DEF SelectWait, WaitsFor, AtLabel
  <1>2. pc'[i] = "selectSend" /\ \A j \in Ids \ {i} : pc'[j] = pc[j]
    BY <1>1, GotoIs
  <1>3. /\ child'[i].st = "reaped" /\ child'[i].kind = child[i].kind
        /\ child'[i].want = child[i].want /\ child'[i].sent = child[i].sent
        /\ child'[i].fin = child[i].fin
    BY <1>1, ReapedIs
  <1>4. /\ pc[i] \in SelectForked /\ pc'[i] \in SelectForked /\ pc[i] # "over"
        /\ pc[i] \notin PipeOpen \union ReaderOpen \union ShmOpen
        /\ pc'[i] \notin NotForked \union InfoForked \union WholeForked \union {"over"}
        /\ pc'[i] \notin PipeOpen \union ReaderOpen \union ShmOpen
    BY <1>1, <1>2 DEF NotForked, AllKinds, PipeOpen, ReaderOpen, ShmOpen, SelectForked, InfoForked, WholeForked
  <1>5. child[i].kind = "select"
    BY <1>4 DEF Sound, KindOk
  <1>6. KindOk(i)'
    BY <1>3, <1>4, <1>5 DEF KindOk
  <1>7. ASSUME strayed' = {} PROVE Owns(i)' /\ Flows(i)' /\ AnswersOk(i)'
    <2>1. Owns(i) /\ Flows(i) /\ AnswersOk(i)
      BY <1>1, <1>7 DEF Sound
    <2>2. \A g \in Fds : tab[Server][g].obj # i
      BY <1>4, <2>1, NothingOpen
    <2>3. Owns(i)'
      BY <1>1, <1>4, <2>2 DEF Owns
    <2>4. Flows(i)'
      BY <1>1, <1>2, <1>3, <1>4, <2>1 DEF Flows, SizeSent, Unsent, Ended
    <2>5. AnswersOk(i)'
      BY <1>1, <1>3, <2>1 DEF AnswersOk, Answers, Unsent, Ended
    <2> QED
      BY <2>3, <2>4, <2>5
  <1>8. \A j \in Ids \ {i} : Spares(j)
    BY <1>1, <1>2, ReapedSpares
  <1> QED
    BY <1>6, <1>7, <1>8 DEF Sound

LEMMA SelectSendSound ==
    ASSUME ServerTypeInv, NEW i \in Ids, Sound(i), SelectSend(i)
    PROVE  Sound(i)' /\ \A j \in Ids \ {i} : Spares(j)
  <1>1. up /\ pc[i] = "selectSend" /\ Done(i) /\ UNCHANGED <<file, tab, pipe, shm, child, strayed, up>>
    BY DEF SelectSend, AtLabel, osVars
  <1>2. loc[i].got \in Seq(Nat) /\ loc[i].size \in Nat
    BY DEF ServerTypeInv, Locals
  <1>3. PICK a \in Replies : Reply(i, a) /\ (a.code = 200 => a.got = loc[i].got)
    <2>1. CASE Reply(i, Dropped)
      BY <2>1, DroppedType
    <2>2. CASE \E n \in Coded(loc[i].size) : Reply(i, Answer(200, loc[i].got, Pieces(n)))
      <3> DEFINE fine == 200
      <3>1. PICK n \in Coded(loc[i].size) : Reply(i, Answer(fine, loc[i].got, Pieces(n)))
        BY <2>2
      <3>2. n \in Int /\ fine \in Nat
        BY <1>2 DEF Coded
      <3> HIDE DEF fine
      <3>3. Answer(fine, loc[i].got, Pieces(n)) \in Replies /\ Answer(fine, loc[i].got, Pieces(n)).got = loc[i].got
        BY <1>2, <3>2, AnswerType
      <3> QED
        BY <3>1, <3>3
    <2> QED
      BY <2>1, <2>2 DEF SelectSend
  <1>4. /\ pc[i] \in SelectForked /\ pc[i] \in Waited /\ pc[i] # "over"
        /\ pc[i] \notin PipeOpen \union ReaderOpen \union ShmOpen
    BY <1>1 DEF PipeOpen, ReaderOpen, ShmOpen, SelectForked, Waited
  <1>5. child[i].kind = "select" /\ child[i].st = "reaped"
    BY <1>4 DEF Sound, KindOk
  <1>6. ASSUME strayed = {} PROVE \A f \in Fds : tab[Server][f].obj # i
    BY <1>1, <1>4, <1>6, NothingOpen DEF Sound
  <1>7. ASSUME strayed = {}, a.code = 200
        PROVE  /\ Ended(i) /\ Range(a.got) \subseteq {i}
               /\ Len(a.got) = child[i].want \/ (a.got = <<>> /\ Unsent(i))
    <2>1. Flows(i)
      BY <1>7 DEF Sound
    <2>2. /\ Range(loc[i].got) \subseteq {i} /\ Len(loc[i].got) = loc[i].size
          /\ \/ loc[i].size = child[i].want
             \/ loc[i].size = 0 /\ Unsent(i)
      BY <1>1, <2>1 DEF Flows
    <2>3. Len(loc[i].got) = 0 => loc[i].got = <<>>
      BY <1>2, EmptySeq
    <2> QED
      BY <1>3, <1>5, <1>7, <2>2, <2>3 DEF Ended
  <1>8. Sound(i)'
    BY <1>1, <1>3, <1>5, <1>6, <1>7, OverSound
  <1> QED
    BY <1>1, <1>3, <1>8, OverSpares

LEMMA SelectSound ==
    ASSUME ServerTypeInv, NEW i \in Ids, Sound(i),
           \/ SelectPipe(i) \/ SelectFork(i) \/ SelectClose(i) \/ SelectReadSize(i) \/ SelectAlloc(i)
           \/ SelectRead(i) \/ SelectRest(i) \/ SelectWait(i) \/ SelectSend(i)
    PROVE  Sound(i)' /\ \A j \in Ids \ {i} : Spares(j)
  <1>1. Dropped \in Replies
    BY DroppedType
  <1>2. CASE SelectPipe(i)
    BY <1>1, <1>2, MakePipeSound DEF SelectPipe, AtLabel
  <1>3. CASE SelectFork(i)
    <2>1. up /\ pc[i] = "selectFork" /\ (ForkTo(i, "select", "selectClose") \/ ForkFails(i, Dropped))
      BY <1>3 DEF SelectFork, AtLabel
    <2>2. "selectClose" \in Labels
      BY LabelsAre DEF PipeOpen
    <2> QED
      BY <1>1, <2>1, <2>2, ForkSound
  <1>4. CASE SelectClose(i)
    BY <1>4, CloseWriteSound DEF SelectClose, AtLabel
  <1> QED
    BY <1>2, <1>3, <1>4, SelectReadSizeSound, SelectAllocSound, SelectReadSound, SelectRestSound,
       SelectWaitSound, SelectSendSound

-----------------------------------------------------------------------------
(* The handler of a description. *)

\* The pipe and the answers of such a request are nobody's concern.
LEMMA InfoFlows ==
    ASSUME NEW i \in Ids, Flows(i), child'[i].kind \notin {"select", "whole"},
           pc'[i] \notin NotForked \union SelectForked, pipe' = pipe
    PROVE  Flows(i)' /\ AnswersOk(i)'
  <1>1. Flows(i)'
    BY DEF Flows, SelectForked, Ended
  <1>2. AnswersOk(i)'
    BY DEF AnswersOk
  <1> QED
    BY <1>1, <1>2

LEMMA CrashSpares ==
    ASSUME ServerTypeInv, Crash PROVE \A j \in Ids : Spares(j)
  <1>1. \A j \in Ids : tab'[j] = tab[j]
    BY Constants DEF ServerTypeInv, Crash
  <1>2. /\ up' = FALSE
        /\ UNCHANGED <<file, pc, loc, pipe, shm, child, ans, strayed>>
    BY DEF Crash
  <1> QED
    BY <1>1, <1>2 DEF Spares

LEMMA InfoOpenSound ==
    ASSUME ServerTypeInv, NEW i \in Ids, Sound(i), InfoOpen(i)
    PROVE  Sound(i)' /\ \A j \in Ids \ {i} : Spares(j)
  <1>1. up /\ pc[i] = "info"
    BY DEF InfoOpen, AtLabel
  <1>2. /\ pc[i] \in NotForked /\ pc[i] # "over"
        /\ pc[i] \notin PipeOpen \union ReaderOpen \union ShmOpen
        /\ "infoFork" \in NotForked /\ "infoFork" \in ShmOpen
        /\ "infoFork" \notin PipeOpen \union ReaderOpen
        /\ "infoFork" \notin SelectForked \union InfoForked \union WholeForked \union Waited
    BY <1>1 DEF NotForked, AllKinds, PipeOpen, ReaderOpen, ShmOpen, SelectForked, InfoForked, WholeForked, Waited
  <1>3. child[i].kind = "none" /\ child[i].st = "none" /\ ans[i] = <<>>
    BY <1>2 DEF Sound, KindOk
  <1>4. CASE Reply(i, Plain(400)) /\ Done(i) /\ UNCHANGED <<file, osVars, up>>
    <2> DEFINE code == 400
    <2>1. code \in Nat /\ Reply(i, Plain(code))
      BY <1>4
    <2> HIDE DEF code
    <2>2. Plain(code) \in Replies
      BY <2>1, PlainType
    <2> QED
      BY <1>2, <1>4, <2>1, <2>2, UnforkedOver
  <1>5. CASE ~(Reply(i, Plain(400)) /\ Done(i) /\ UNCHANGED <<file, osVars, up>>)
    <2>1. /\ pc'[i] = "infoFork" /\ \A j \in Ids \ {i} : pc'[j] = pc[j]
          /\ \A j \in Ids \ {i} : loc'[j] = loc[j]
          /\ loc'[i].size = loc[i].size /\ loc'[i].got = loc[i].got
          /\ loc'[i].r \in Fds /\ tab[Server][loc'[i].r] = Free
          /\ \A p \in Ids : tab'[p] = tab[p]
          /\ tab'[Server][loc'[i].r] = ShmEnd(i)
          /\ \A f \in Fds \ {loc'[i].r} : tab'[Server][f] = tab[Server][f]
          /\ UNCHANGED <<file, pipe, child, ans, strayed, up>>
      BY <1>5, InfoOpenIs
    <2>2. KindOk(i)'
      BY <1>2, <1>3, <2>1 DEF KindOk
    <2>3. ASSUME strayed' = {} PROVE Owns(i)'
      <3>1. \A f \in Fds : tab[Server][f].obj # i
        BY <1>1, <1>2, <2>1, <2>3, NothingOpen DEF Sound
      <3>2. \A f \in Fds : tab'[Server][f].obj = i => f = loc'[i].r
        BY <2>1, <3>1
      <3> QED
        BY <1>2, <2>1, <3>2 DEF Owns, HasOpen, ShmEnd
    <2>4. ASSUME strayed' = {} PROVE Flows(i)'
      <3>1. Flows(i)
        BY <2>1, <2>4 DEF Sound
      <3> QED
        BY <1>2, <1>3, <2>1, <3>1 DEF Flows, SelectForked
    <2>5. AnswersOk(i)'
      BY <1>3, <2>1 DEF AnswersOk
    <2>6. ASSUME NEW j \in Ids \ {i} PROVE Spares(j)
      <3>1. Free.obj # j /\ ShmEnd(i).obj # j
        BY <2>6, Constants DEF Free, ShmEnd
      <3>2. \A f \in Fds : (tab[Server][f].obj = j \/ tab'[Server][f].obj = j) =>
                              tab'[Server][f] = tab[Server][f]
        BY <2>1, <3>1
      <3> QED
        BY <2>1, <2>6, <3>2 DEF Spares
    <2> QED
      BY <2>2, <2>3, <2>4, <2>5, <2>6 DEF Sound
  <1> QED
    BY <1>4, <1>5

\* It goes on with its object open.
LEMMA InfoGoes ==
    ASSUME ServerTypeInv, NEW i \in Ids, Sound(i), up,
           pc[i] \in {"infoWait", "infoMap"}, pc'[i] \in {"infoMap", "infoClose"},
           loc'[i].r = loc[i].r, child'[i].st = "reaped", child'[i].kind = child[i].kind,
           UNCHANGED <<tab, pipe, strayed, up>>
    PROVE  Sound(i)'
  <1>1. /\ pc[i] \in InfoForked /\ pc[i] \in ShmOpen /\ pc'[i] \in ShmOpen /\ pc'[i] \in InfoForked
        /\ pc[i] \notin PipeOpen \union ReaderOpen \union {"over"}
        /\ pc'[i] \notin PipeOpen \union ReaderOpen \union {"over"}
        /\ pc'[i] \notin NotForked \union SelectForked \union WholeForked
    BY DEF NotForked, AllKinds, PipeOpen, ReaderOpen, ShmOpen, SelectForked, InfoForked, WholeForked
  <1>2. child[i].kind = "info"
    BY <1>1 DEF Sound, KindOk
  <1>3. KindOk(i)'
    BY <1>1, <1>2 DEF KindOk
  <1>4. ASSUME strayed' = {} PROVE Owns(i)'
    <2>1. Owns(i)
      BY <1>4 DEF Sound
    <2> QED
      BY <1>1, <2>1 DEF Owns, HasOpen, ShmEnd
  <1>5. ASSUME strayed' = {} PROVE Flows(i)' /\ AnswersOk(i)'
    <2>1. Flows(i)
      BY <1>5 DEF Sound
    <2> QED
      BY <1>1, <1>2, <2>1, InfoFlows
  <1> QED
    BY <1>3, <1>4, <1>5 DEF Sound

LEMMA InfoWaitSound ==
    ASSUME ServerTypeInv, NEW i \in Ids, Sound(i), InfoWait(i)
    PROVE  Sound(i)' /\ \A j \in Ids \ {i} : Spares(j)
  <1>1. /\ up /\ pc[i] = "infoWait"
        /\ child' = [child EXCEPT ![i].st = "reaped"] /\ Goto(i, "infoMap")
        /\ UNCHANGED <<file, loc, tab, pipe, shm, ans, strayed, up>>
    BY DEF InfoWait, WaitsFor, AtLabel
  <1>2. pc'[i] = "infoMap" /\ \A j \in Ids \ {i} : pc'[j] = pc[j]
    BY <1>1, GotoIs
  <1>3. child'[i].st = "reaped" /\ child'[i].kind = child[i].kind
    BY <1>1, ReapedIs
  <1>4. Sound(i)'
    BY <1>1, <1>2, <1>3, InfoGoes
  <1>5. \A j \in Ids \ {i} : Spares(j)
    BY <1>1, <1>2, ReapedSpares
  <1> QED
    BY <1>4, <1>5

LEMMA InfoMapSound ==
    ASSUME ServerTypeInv, NEW i \in Ids, Sound(i), InfoMap(i)
    PROVE  Sound(i)' /\ \A j \in Ids \ {i} : Spares(j)
  <1>1. CASE Crash
    BY <1>1, CrashSpares, Spared
  <1>2. CASE ~Crash
    <2> DEFINE o == At(Server, loc[i].r).obj
               g == IF shm[o] = "filled" THEN <<o>> ELSE <<>>
    <2>1. /\ up /\ pc[i] = "infoMap" /\ loc' = [loc EXCEPT ![i].got = g]
          /\ Goto(i, "infoClose")
          /\ UNCHANGED <<file, tab, pipe, shm, child, strayed, ans, up>>
      BY <1>2 DEF InfoMap, AtLabel, osVars
    <2> HIDE DEF g
    <2>2. loc'[i].r = loc[i].r /\ \A j \in Ids \ {i} : loc'[j] = loc[j]
      <3>1. loc \in [Ids -> Locals]
        BY DEF ServerTypeInv
      <3> QED
        BY <2>1, <3>1 DEF Locals
    <2>3. pc'[i] = "infoClose" /\ \A j \in Ids \ {i} : pc'[j] = pc[j]
      BY <2>1, GotoIs
    <2>4. child[i].st = "reaped"
      BY <2>1 DEF Sound, KindOk, Waited
    <2>5. Sound(i)'
      BY <2>1, <2>2, <2>3, <2>4, InfoGoes
    <2>6. \A j \in Ids \ {i} : Spares(j)
      BY <2>1, <2>2, <2>3 DEF Spares
    <2> QED
      BY <2>5, <2>6
  <1> QED
    BY <1>1, <1>2

LEMMA InfoCloseSound ==
    ASSUME ServerTypeInv, NEW i \in Ids, Sound(i), InfoClose(i)
    PROVE  Sound(i)' /\ \A j \in Ids \ {i} : Spares(j)
  <1>1. /\ up /\ pc[i] = "infoClose" /\ CloseFor(i, {loc[i].r}) /\ Goto(i, "infoCloseAgain")
        /\ UNCHANGED <<file, loc, pipe, shm, child, ans, up>>
    BY DEF InfoClose, AtLabel
  <1>2. /\ pc[i] \in InfoForked /\ pc[i] \in ShmOpen /\ loc[i].r \in Fds /\ pc[i] \in Waited
        /\ pc[i] \notin PipeOpen \union ReaderOpen \union {"over"}
    BY <1>1 DEF ServerTypeInv, InfoForked, ReaderOpen, PipeOpen, ShmOpen, Waited
  <1>3. pc'[i] = "infoCloseAgain" /\ \A j \in Ids \ {i} : pc'[j] = pc[j]
    BY <1>1, GotoIs
  <1>4. \A p \in Ids : tab'[p] = tab[p]
    BY <1>1, <1>2, CloseForIs
  <1>5. /\ pc'[i] \notin NotForked \union SelectForked \union WholeForked \union {"over"}
        /\ pc'[i] \notin PipeOpen \union ReaderOpen \union ShmOpen
    BY <1>3 DEF NotForked, AllKinds, PipeOpen, ReaderOpen, ShmOpen, SelectForked, WholeForked
  <1>6. child[i].kind = "info" /\ child[i].st = "reaped"
    BY <1>2 DEF Sound, KindOk
  <1>7. KindOk(i)'
    BY <1>1, <1>5, <1>6 DEF KindOk
  <1>8. ASSUME strayed' = {} PROVE Owns(i)' /\ Flows(i)' /\ AnswersOk(i)'
    <2>1. /\ strayed = {}
          /\ \A g \in Fds : tab'[Server][g].obj = i => g # loc[i].r /\ tab[Server][g].obj = i
      BY <1>1, <1>2, <1>8, ClosedTable
    <2>2. Owns(i) /\ Flows(i)
      BY <1>1, <2>1 DEF Sound
    <2>3. \A g \in Fds : tab'[Server][g].obj # i
      BY <1>2, <2>1, <2>2 DEF Owns, HasOpen
    <2>4. Owns(i)'
      BY <1>5, <2>3 DEF Owns
    <2> QED
      BY <1>1, <1>5, <1>6, <2>2, <2>4, InfoFlows
  <1>9. ASSUME NEW j \in Ids \ {i} PROVE Spares(j)
    BY <1>1, <1>2, <1>3, <1>4, <1>9, ClosedTable DEF Spares
  <1> QED
    BY <1>7, <1>8, <1>9 DEF Sound

\* The second close of the same number.
LEMMA InfoSendSound ==
    ASSUME ServerTypeInv, NEW i \in Ids, Sound(i), InfoSend(i)
    PROVE  Sound(i)' /\ \A j \in Ids \ {i} : Spares(j)
  <1>1. /\ up /\ pc[i] = "infoCloseAgain" /\ CloseFor(i, {loc[i].r}) /\ Done(i)
        /\ UNCHANGED <<file, pipe, child, up>>
    BY DEF InfoSend, AtLabel
  <1>2. /\ loc[i].r \in Fds /\ pc[i] \in InfoForked /\ pc[i] \in Waited /\ pc[i] # "over"
        /\ pc[i] \notin PipeOpen \union ReaderOpen \union ShmOpen
    BY <1>1 DEF ServerTypeInv, InfoForked, Waited, PipeOpen, ReaderOpen, ShmOpen
  <1>3. child[i].kind = "info" /\ child[i].st = "reaped"
    BY <1>2 DEF Sound, KindOk
  <1>4. PICK a \in Replies : Reply(i, a)
    <2> DEFINE fine == 200
               n == Len(loc[i].got)
    <2>1. Reply(i, Answer(fine, loc[i].got, Pieces(n)))
      BY DEF InfoSend
    <2>2. fine \in Nat /\ loc[i].got \in Seq(Nat) /\ n \in Int
      BY DEF ServerTypeInv, Locals
    <2> HIDE DEF fine, n
    <2> QED
      BY <2>1, <2>2, AnswerType
  <1>5. \A p \in Ids : tab'[p] = tab[p]
    BY <1>1, <1>2, CloseForIs
  <1>6. strayed' = {} => strayed = {}
    BY <1>1, <1>2, ClosedTable
  <1>7. ASSUME strayed' = {} PROVE \A f \in Fds : tab'[Server][f].obj # i
    <2>1. Owns(i)
      BY <1>1, <1>6, <1>7 DEF Sound
    <2>2. \A f \in Fds : tab[Server][f].obj # i
      BY <1>2, <2>1, NothingOpen
    <2> QED
      BY <1>1, <1>2, <1>7, <2>2, ClosedTable
  <1>8. Sound(i)'
    BY <1>1, <1>3, <1>4, <1>5, <1>6, <1>7, OverSound
  <1>9. \A j \in Ids \ {i} : pc'[j] = pc[j] /\ loc'[j] = loc[j] /\ ans'[j] = ans[j]
    BY <1>1, <1>4, DoneIs, ReplyIs
  <1>10. ASSUME NEW j \in Ids \ {i} PROVE Spares(j)
    BY <1>1, <1>2, <1>5, <1>9, <1>10, ClosedTable DEF Spares
  <1> QED
    BY <1>8, <1>10

LEMMA InfoSound ==
    ASSUME ServerTypeInv, NEW i \in Ids, Sound(i),
           InfoOpen(i) \/ InfoFork(i) \/ InfoWait(i) \/ InfoMap(i) \/ InfoClose(i) \/ InfoSend(i)
    PROVE  Sound(i)' /\ \A j \in Ids \ {i} : Spares(j)
  <1>1. CASE InfoFork(i)
    <2> DEFINE code == 400
    <2>1. /\ up /\ pc[i] = "infoFork" /\ (ForkTo(i, "info", "infoWait") \/ ForkFails(i, Plain(code)))
      BY <1>1 DEF InfoFork, AtLabel
    <2>2. code \in Nat
      OBVIOUS
    <2> HIDE DEF code
    <2>3. Plain(code) \in Replies
      BY <2>2, PlainType
    <2>4. "infoWait" \in Labels
      BY LabelsAre DEF ShmOpen
    <2> QED
      BY <2>1, <2>3, <2>4, ForkSound
  <1> QED
    BY <1>1, InfoOpenSound, InfoWaitSound, InfoMapSound, InfoCloseSound, InfoSendSound

-----------------------------------------------------------------------------
(* The handler of a whole dataset. *)

\* It goes on with its reading end open.
LEMMA WholeGoes ==
    ASSUME ServerTypeInv, NEW i \in Ids, Sound(i), up,
           pc[i] \in {"wholePointer", "wholeSize", "wholeWait"},
           pc'[i] \in {"wholeSize", "wholeWait", "wholeSend"}, loc'[i].r = loc[i].r,
           child'[i] = child[i] \/ ReapedBy(i),
           strayed = {} => \A n \in DOMAIN pipe'[i] : pipe'[i][n].src = i,
           UNCHANGED <<tab, strayed, up>>
    PROVE  Sound(i)'
  <1>1. /\ pc[i] \in WholeForked /\ pc[i] \in ReaderOpen /\ pc'[i] \in ReaderOpen /\ pc'[i] \in WholeForked
        /\ pc[i] \notin PipeOpen \union ShmOpen \union {"over"}
        /\ pc'[i] \notin PipeOpen \union ShmOpen \union {"over"}
        /\ pc'[i] \notin NotForked \union SelectForked \union InfoForked \union Waited
    BY DEF NotForked, AllKinds, PipeOpen, ReaderOpen, ShmOpen, SelectForked, InfoForked, WholeForked, Waited
  <1>2. child[i].kind = "whole"
    BY <1>1 DEF Sound, KindOk
  <1>3. /\ child'[i].kind = "whole" /\ child'[i].w = child[i].w /\ child'[i].r = child[i].r
        /\ Ended(i)' <=> Ended(i)
        /\ child'[i].st = "none" <=> child[i].st = "none"
    BY <1>2 DEF ReapedBy, Ended
  <1>4. KindOk(i)'
    BY <1>1, <1>3 DEF KindOk, Sound
  <1>5. ASSUME strayed' = {} PROVE Owns(i)'
    <2>1. Owns(i)
      BY <1>5 DEF Sound
    <2> QED
      BY <1>1, <2>1 DEF Owns, HasOpen, ReadEnd
  <1>6. ASSUME strayed' = {} PROVE Flows(i)'
    <2>1. Flows(i)
      BY <1>6 DEF Sound
    <2> QED
      BY <1>1, <1>2, <1>3, <1>6, <2>1 DEF Flows, SelectForked, WriteEnd
  <1>7. AnswersOk(i)'
    BY <1>3 DEF AnswersOk
  <1> QED
    BY <1>4, <1>5, <1>6, <1>7 DEF Sound

LEMMA WholeReadSound ==
    ASSUME ServerTypeInv, NEW i \in Ids, Sound(i), WholeRead(i)
    PROVE  Sound(i)' /\ \A j \in Ids \ {i} : Spares(j)
  <1>1. up /\ pc[i] \in {"wholePointer", "wholeSize"} /\ pc[i] \in ReaderOpen
        /\ UNCHANGED <<file, tab, shm, child, ans, strayed, up>>
    BY DEF WholeRead, AtLabel, ReaderOpen
  <1>2. PICK l \in {"wholeSize", "wholeWait"} : Goto(i, l)
    BY DEF WholeRead
  <1>3. pc'[i] = l /\ \A j \in Ids \ {i} : pc'[j] = pc[j]
    BY <1>2, GotoIs
  <1>4. /\ loc'[i].r = loc[i].r /\ \A j \in Ids \ {i} : loc'[j] = loc[j]
        /\ strayed = {} => /\ \A n \in DOMAIN pipe'[i] : pipe'[i][n].src = i
                           /\ \A j \in Ids \ {i} : pipe'[j] = pipe[j]
    <2>1. CASE UNCHANGED <<pipe, loc>>
      <3>1. strayed = {} => \A n \in DOMAIN pipe[i] : pipe[i][n].src = i
        BY DEF Sound, Flows
      <3> QED
        BY <2>1, <3>1
    <2>2. CASE ~UNCHANGED <<pipe, loc>>
      <3>1. /\ Readable(loc[i].r) /\ Consume(loc[i].r)
            /\ loc' = [loc EXCEPT ![i].size = NextItem(loc[i].r).size]
        BY <2>2 DEF WholeRead
      <3>2. loc'[i].r = loc[i].r /\ \A j \in Ids \ {i} : loc'[j] = loc[j]
        BY <3>1, ReadIs
      <3>3. ASSUME strayed = {}
            PROVE  /\ \A n \in DOMAIN pipe'[i] : pipe'[i][n].src = i
                   /\ \A j \in Ids \ {i} : pipe'[j] = pipe[j]
        <4>1. Owns(i) /\ Flows(i)
          BY <1>1, <3>3 DEF Sound
        <4> QED
          BY <1>1, <3>1, <4>1, OwnItem
      <3> QED
        BY <3>2, <3>3
    <2> QED
      BY <2>1, <2>2
  <1>5. Sound(i)'
    BY <1>1, <1>3, <1>4, WholeGoes
  <1>6. \A j \in Ids \ {i} : Spares(j)
    BY <1>1, <1>3, <1>4 DEF Spares
  <1> QED
    BY <1>5, <1>6

LEMMA WholeWaitSound ==
    ASSUME ServerTypeInv, NEW i \in Ids, Sound(i), WholeWait(i)
    PROVE  Sound(i)' /\ \A j \in Ids \ {i} : Spares(j)
  <1>1. /\ up /\ pc[i] = "wholeWait" /\ Goto(i, "wholeSend")
        /\ UNCHANGED <<file, loc, tab, pipe, shm, ans, strayed, up>>
    BY DEF WholeWait, AtLabel
  <1>2. PICK c \in Ids : child[c].st = "ended" /\ child' = [child EXCEPT ![c].st = "reaped"]
    BY DEF WholeWait
  <1>3. pc'[i] = "wholeSend" /\ \A j \in Ids \ {i} : pc'[j] = pc[j]
    BY <1>1, GotoIs
  <1>4. child'[i] = child[i] \/ ReapedBy(i)
    <2>1. /\ \A j \in Ids \ {c} : child'[j] = child[j]
          /\ child'[c].st = "reaped" /\ child'[c].kind = child[c].kind
          /\ child'[c].want = child[c].want /\ child'[c].sent = child[c].sent
          /\ child'[c].fin = child[c].fin /\ child'[c].w = child[c].w /\ child'[c].r = child[c].r
      BY <1>2, ReapedIs
    <2> QED
      BY <1>2, <2>1 DEF ReapedBy
  <1>5. strayed = {} => \A n \in DOMAIN pipe'[i] : pipe'[i][n].src = i
    BY <1>1 DEF Sound, Flows
  <1>6. Sound(i)'
    BY <1>1, <1>3, <1>4, <1>5, WholeGoes
  <1>7. \A j \in Ids \ {i} : Spares(j)
    BY <1>1, <1>2, <1>3, ReapedSpares
  <1> QED
    BY <1>6, <1>7

LEMMA WholeSendSound ==
    ASSUME ServerTypeInv, NEW i \in Ids, Sound(i), WholeSend(i)
    PROVE  Sound(i)' /\ \A j \in Ids \ {i} : Spares(j)
  <1>1. CASE Crash
    BY <1>1, CrashSpares, Spared
  <1>2. CASE ~Crash
    <2> DEFINE fine == 200
               n == loc[i].size
               g == [m \in 1..n |-> 0]
    <2>1. /\ up /\ pc[i] = "wholeSend" /\ Reply(i, Answer(fine, g, Pieces(n))) /\ Done(i)
          /\ UNCHANGED <<file, tab, pipe, shm, child, strayed, up>>
      BY <1>2 DEF WholeSend, AtLabel, osVars
    <2>2. n \in Nat
      BY DEF ServerTypeInv, Locals
    <2> HIDE DEF n
    <2>3. g \in Seq(Nat) /\ fine \in Nat /\ n \in Int
      BY <2>2
    <2> HIDE DEF fine, g
    <2>4. Answer(fine, g, Pieces(n)) \in Replies
      BY <2>3, AnswerType
    <2>5. /\ pc[i] \in WholeForked /\ pc[i] \in ReaderOpen
          /\ pc[i] \notin PipeOpen \union ShmOpen \union {"over"}
      BY <2>1 DEF WholeForked, ReaderOpen, PipeOpen, ShmOpen
    <2>6. child[i].kind = "whole"
      BY <2>5 DEF Sound, KindOk
    <2>7. ASSUME strayed = {}, NEW f \in Fds, tab[Server][f].obj = i PROVE tab[Server][f].end = "r"
      <3>1. Owns(i)
        BY <2>1, <2>7 DEF Sound
      <3>2. f = loc[i].r /\ tab[Server][loc[i].r] = ReadEnd(i)
        BY <2>5, <2>7, <3>1 DEF Owns, HasOpen
      <3> QED
        BY <3>2, EndsAreEntries
    <2>8. Sound(i)'
      BY <2>1, <2>4, <2>6, <2>7, OverSound
    <2> QED
      BY <2>1, <2>4, <2>8, OverSpares
  <1> QED
    BY <1>1, <1>2

LEMMA WholeSound ==
    ASSUME ServerTypeInv, NEW i \in Ids, Sound(i),
           WholePipe(i) \/ WholeFork(i) \/ WholeClose(i) \/ WholeRead(i) \/ WholeWait(i) \/ WholeSend(i)
    PROVE  Sound(i)' /\ \A j \in Ids \ {i} : Spares(j)
  <1> DEFINE code == 400
  <1>1. code \in Nat
    OBVIOUS
  <1>2. CASE WholePipe(i)
    <2>1. up /\ pc[i] = "whole" /\ MakePipe(i, "wholeFork", Plain(code))
      BY <1>2 DEF WholePipe, AtLabel
    <2> HIDE DEF code
    <2>2. Plain(code) \in Replies
      BY <1>1, PlainType
    <2> QED
      BY <2>1, <2>2, MakePipeSound
  <1>3. CASE WholeFork(i)
    <2>1. up /\ pc[i] = "wholeFork" /\ (ForkTo(i, "whole", "wholeClose") \/ ForkFails(i, Plain(code)))
      BY <1>3 DEF WholeFork, AtLabel
    <2> HIDE DEF code
    <2>2. Plain(code) \in Replies
      BY <1>1, PlainType
    <2>3. "wholeClose" \in Labels
      BY LabelsAre DEF PipeOpen
    <2> QED
      BY <2>1, <2>2, <2>3, ForkSound
  <1>4. CASE WholeClose(i)
    BY <1>4, CloseWriteSound DEF WholeClose, AtLabel
  <1> QED
    BY <1>2, <1>3, <1>4, WholeReadSound, WholeWaitSound, WholeSendSound

-----------------------------------------------------------------------------
(* The theorems. *)

LEMMA ServerInit ==
    ASSUME Init PROVE ServerInv
  <1>1. ServerTypeInv
    BY TypeInit
  <1>2. ASSUME NEW i \in Ids PROVE Sound(i)
    <2>1. /\ pc[i] = "idle" /\ child[i] = NoChild /\ ans[i] = <<>> /\ loc[i] = NoLocals /\ pipe[i] = <<>>
      BY <1>2 DEF Init
    <2>2. /\ "idle" \notin SelectForked \union InfoForked \union WholeForked \union Waited
          /\ "idle" \notin PipeOpen \union ReaderOpen \union ShmOpen
      BY DEF PipeOpen, ReaderOpen, ShmOpen, SelectForked, InfoForked, WholeForked, Waited
    <2>3. child[i].kind = "none" /\ child[i].st = "none"
      BY <2>1 DEF NoChild
    <2>4. KindOk(i)
      BY <2>1, <2>2, <2>3 DEF KindOk
    <2>5. \A f \in Fds : tab[Server][f].obj = 0
      BY Constants DEF Init, Free, Other
    <2>6. i # 0
      BY Constants
    <2>7. Owns(i)
      BY <2>1, <2>2, <2>5, <2>6 DEF Owns
    <2>8. loc[i].got = <<>> /\ loc[i].size = 0
      BY <2>1 DEF NoLocals
    <2>9. Flows(i)
      BY <2>1, <2>3, <2>8 DEF Flows
    <2>10. AnswersOk(i)
      BY <2>3 DEF AnswersOk
    <2> QED
      BY <2>4, <2>7, <2>9, <2>10 DEF Sound
  <1> QED
    BY <1>1, <1>2 DEF ServerInv

LEMMA ServerNext ==
    ASSUME ServerInv, [Next]_vars PROVE ServerInv'
  <1>1. ServerTypeInv /\ \A i \in Ids : Sound(i)
    BY DEF ServerInv
  <1>2. ServerTypeInv'
    BY <1>1, TypeNext
  <1>3. ASSUME NEW i \in Ids, Sound(i)', \A j \in Ids \ {i} : Spares(j) PROVE ServerInv'
    <2>1. ASSUME NEW j \in Ids PROVE Sound(j)'
      BY <1>1, <1>3, <2>1, Spared
    <2> QED
      BY <1>2, <2>1 DEF ServerInv
  <1>4. ASSUME NEW i \in Ids, HandlerStep(i) PROVE ServerInv'
    BY <1>1, <1>3, <1>4, EnteredSound, InServerSound, SelectSound, InfoSound, WholeSound DEF HandlerStep
  <1>5. ASSUME NEW i \in Ids, NEW k \in Kinds, Arrive(i, k) PROVE ServerInv'
    BY <1>1, <1>3, <1>5, ArriveSound
  <1>6. ASSUME NEW i \in Ids, ChildStep(i) \/ CloneAborts(i) \/ ChildDies(i) PROVE ServerInv'
    BY <1>1, <1>3, <1>6, ChildStepSound
  <1>7. CASE UNCHANGED vars
    <2>1. ASSUME NEW j \in Ids PROVE Spares(j)
      BY <1>7 DEF vars, Spares
    <2>2. ASSUME NEW j \in Ids PROVE Sound(j)'
      BY <1>1, <2>1, <2>2, Spared
    <2> QED
      BY <1>2, <2>2 DEF ServerInv
  <1> QED
    BY <1>4, <1>5, <1>6, <1>7 DEF Next

\* Every value has its type, every child is of the kind its handler forked,
\* and while no close() has hit another request's descriptor every number, pipe
\* item and answer is where its own request put it (H5PluginHandle.cc: the
\* handlers of ProcessReq and their children).
THEOREM ServerTheorem == Spec => []ServerInv
  <1>1. Init => ServerInv
    BY ServerInit
  <1>2. ServerInv /\ [Next]_vars => ServerInv'
    BY ServerNext
  <1> QED
    BY <1>1, <1>2, PTL DEF Spec

\* The types of the state: numbers within the table, pipes within their size,
\* children that send no more than they have read.
THEOREM ServerTypeTheorem == Spec => []SPTypeOK
  <1>1. ServerTypeInv => SPTypeOK
    <2> SUFFICES ASSUME ServerTypeInv PROVE SPTypeOK
      OBVIOUS
    <2>1. \A i \in Ids : {loc[i].r, loc[i].w} \subseteq 0..MaxFd
      BY DEF ServerTypeInv, Locals
    <2>2. tab \in [Procs -> [Fds -> Ends \union {Free, Other}]]
      BY DEF ServerTypeInv, Entry
    <2> QED
      BY <2>1, <2>2 DEF SPTypeOK, ServerTypeInv, SentOk
  <1> QED
    BY <1>1, ServerTheorem, PTL DEF ServerInv

\* What a selection is answered with (the read loop of
\* Xrd_read_from_dataset_selection) is what its own child wrote, and all of it,
\* however requests and children interleave.
THEOREM AnswersAreOwnTheorem == Spec => []AnswersAreOwn
  <1>1. ServerInv => AnswersAreOwn
    <2> SUFFICES ASSUME ServerInv, strayed = {}, NEW i \in Ids, child[i].kind = "select",
                        NEW a \in Answers(i, 200)
                 PROVE  /\ Range(a.got) \subseteq {i}
                        /\ \/ Len(a.got) = child[i].want
                           \/ a.got = <<>> /\ Ended(i) /\ ~child[i].fin /\ child[i].sent = 0
      BY DEF AnswersAreOwn
    <2>1. AnswersOk(i)
      BY DEF ServerInv, Sound
    <2> QED
      BY <2>1 DEF AnswersOk, Unsent, Ended
  <1> QED
    BY <1>1, ServerTheorem, PTL

\* No descriptor and no ended child outlives its request but for the ones the
\* code leaves: after a failed fork, after an early return, and by a whole read.
THEOREM NothingLeftBehindTheorem == Spec => []NothingLeftBehind
  <1>1. ServerInv => DescriptorsAccounted
    <2> SUFFICES ASSUME ServerInv, strayed = {}, up, NEW f \in Fds
                 PROVE  LET e == tab[Server][f] IN
                        \/ e \in {Free, Other}
                        \/ e.obj \in InProgress
                        \/ child[e.obj].st = "none"
                        \/ child[e.obj].kind = "whole" /\ e.end = "r"
      BY DEF DescriptorsAccounted
    <2> DEFINE e == tab[Server][f]
    <2>1. e \in Entry
      BY Constants DEF ServerInv, ServerTypeInv
    <2>2. e \in {Free, Other} \/ e.obj \in Ids
      BY <2>1, EntryIs
    <2>3. ASSUME e.obj \in Ids
          PROVE  \/ e.obj \in InProgress
                 \/ child[e.obj].st = "none"
                 \/ child[e.obj].kind = "whole" /\ e.end = "r"
      <3>1. HasOpen(e.obj, f)
        BY <2>3 DEF ServerInv, Sound, Owns
      <3>2. {"idle", "over"} \intersect (PipeOpen \union ReaderOpen \union ShmOpen) = {}
        BY DEF PipeOpen, ReaderOpen, ShmOpen
      <3> QED
        BY <2>3, <3>1, <3>2 DEF HasOpen, InProgress
    <2> QED
      BY <2>2, <2>3
  <1>2. ServerInv => ChildrenWaitedFor
    <2> SUFFICES ASSUME ServerInv, NEW i \in Ids, child[i].st = "ended"
                 PROVE  \/ i \in InProgress
                        \/ child[i].kind = "whole"
                        \/ Dropped \in Range(ans[i])
      BY DEF ChildrenWaitedFor
    <2>1. KindOk(i) /\ child[i].kind \in {"none", "select", "info", "whole"}
      BY DEF ServerInv, Sound, ServerTypeInv, Children
    <2> QED
      BY <2>1 DEF KindOk, InProgress, NotForked
  <1> QED
    BY <1>1, <1>2, ServerTheorem, PTL DEF NothingLeftBehind
-----------------------------------------------------------------------------
(* The pieces of an answer. *)

\* An answer is cut into whole pieces and a rest, and is as long as what the
\* handler has, or as what a codec makes of a selection (k: kind of child).
Cut(a, k) ==
    /\ \A c \in DOMAIN a.wire :
          a.wire[c] <= MaxBuffer /\ (c < Len(a.wire) => a.wire[c] = MaxBuffer)
    /\ k # "select" => EndOf(a.wire) = Len(a.got)
    /\ k = "select" => EndOf(a.wire) \in Coded(Len(a.got))

LEMMA QuotientAndRemainder ==
    ASSUME NEW a \in Nat, NEW b \in Nat \ {0}
    PROVE  a \div b \in Nat /\ (a \div b) * b \in Nat /\ a - (a \div b) * b \in 0..(b - 1)
  <1> DEFINE q == a \div b
             r == a % b
  <1>1. q \in Nat /\ r \in 0..(b - 1) /\ a = b * q + r
    OBVIOUS
  <1> HIDE DEF q, r
  <1>2. q * b = b * q /\ q * b \in Int
    BY <1>1
  <1> DEFINE m == q * b
  <1>3. m \in Int /\ a = m + r
    BY <1>1, <1>2
  <1>4. m \in Nat
    <2>1. 0 <= q /\ 0 <= b
      BY <1>1
    <2> QED
      BY <1>1, <2>1, <1>3
  <1> HIDE DEF m
  <1>5. a - m \in 0..(b - 1)
    BY <1>1, <1>3
  <1> QED
    BY <1>1, <1>4, <1>5 DEF q, m

\* n / MAX_DATA_BUFFER + 1 chunks, the last with what is left.
LEMMA PiecesEnd ==
    ASSUME NEW n \in Nat
    PROVE  /\ \A c \in DOMAIN Pieces(n) :
                 Pieces(n)[c] <= MaxBuffer /\ (c < Len(Pieces(n)) => Pieces(n)[c] = MaxBuffer)
           /\ EndOf(Pieces(n)) = n
  <1>1. MaxBuffer \in Nat \ {0}
    BY ServerAssumption
  <1>2. CASE n <= MaxBuffer
    <2> DEFINE s == <<n>>
    <2>1. Pieces(n) = s
      BY <1>2 DEF Pieces
    <2>2. s # <<>> /\ DOMAIN s = 1..1 /\ Len(s) = 1 /\ s[1] = n
      OBVIOUS
    <2> HIDE DEF s
    <2>3. EndOf(s) = 0 * MaxBuffer + n
      BY <2>2 DEF EndOf
    <2> QED
      BY <1>1, <1>2, <2>1, <2>2, <2>3
  <1>3. CASE ~(n <= MaxBuffer)
    <2> DEFINE q == n \div MaxBuffer
               m == q * MaxBuffer
               k == q + 1
               s == [c \in 1..k |-> IF c = k THEN n - (c - 1) * MaxBuffer ELSE MaxBuffer]
    <2>1. q \in Nat /\ m \in Nat /\ n - m \in 0..(MaxBuffer - 1)
      BY <1>1, QuotientAndRemainder
    <2>2. Pieces(n) = s
      BY <1>3 DEF Pieces
    <2>3. k \in Nat \ {0} /\ k - 1 = q
      BY <2>1
    <2>4. DOMAIN s = 1..k /\ Len(s) = k /\ s # <<>>
      BY <2>3
    <2>5. s[k] = n - m
      BY <2>3
    <2>6. \A c \in 1..k : c # k => s[c] = MaxBuffer
      OBVIOUS
    <2>7. EndOf(s) = (k - 1) * MaxBuffer + s[k]
      <3> HIDE DEF s, k
      <3> QED
        BY <2>4 DEF EndOf
    <2>8. (k - 1) * MaxBuffer = m
      BY <2>3
    <2> HIDE DEF s, k, m, q
    <2>9. EndOf(s) = n
      BY <2>1, <2>5, <2>7, <2>8
    <2>10. \A c \in DOMAIN s : s[c] <= MaxBuffer /\ (c < Len(s) => s[c] = MaxBuffer)
      BY <1>1, <2>1, <2>3, <2>4, <2>5, <2>6
    <2> QED
      BY <2>2, <2>9, <2>10
  <1> QED
    BY <1>2, <1>3

\* A plain answer has no pieces.
LEMMA PlainCut ==
    ASSUME NEW code, NEW k PROVE Cut(Plain(code), k)
  <1>1. Plain(code).wire = <<>> /\ Plain(code).got = <<>>
    BY DEF Plain, Answer
  <1>2. EndOf(<<>>) = 0 /\ Len(<<>>) = 0 /\ DOMAIN <<>> = {}
    BY DEF EndOf
  <1> QED
    BY <1>1, <1>2 DEF Cut, Coded

LEMMA AnswerCut ==
    ASSUME NEW code \in Nat, NEW got \in Seq(Nat), NEW n \in Nat, NEW k,
           n = Len(got) \/ (k = "select" /\ n \in Coded(Len(got)))
    PROVE  Cut(Answer(code, got, Pieces(n)), k)
  <1>1. Answer(code, got, Pieces(n)).wire = Pieces(n) /\ Answer(code, got, Pieces(n)).got = got
    BY DEF Answer
  <1>2. Len(got) \in Coded(Len(got))
    BY DEF Coded
  <1> QED
    BY <1>1, <1>2, PiecesEnd DEF Cut

\* A step adds at most an answer that is cut well, and changes the kind of the
\* child of a request that has not been answered only.
Replied(i) ==
    /\ \/ ans'[i] = ans[i]
       \/ \E a \in Replies : Range(ans'[i]) = Range(ans[i]) \union {a} /\ Cut(a, child'[i].kind)
    /\ child'[i].kind = child[i].kind \/ (ans[i] = <<>> /\ ans'[i] = <<>>)

LEMMA RepliedIs ==
    ASSUME ServerTypeInv, NEW i \in Ids, NEW a \in Replies, Reply(i, a), Cut(a, child'[i].kind),
           child'[i].kind = child[i].kind
    PROVE  Replied(i)
  BY ReplyIs DEF Replied

LEMMA RepliedPlain ==
    ASSUME ServerTypeInv, NEW i \in Ids, NEW code \in Nat, Reply(i, Plain(code)), UNCHANGED child
    PROVE  Replied(i)
  BY RepliedIs, PlainType, PlainCut

LEMMA RepliedDropped ==
    ASSUME ServerTypeInv, NEW i \in Ids, Reply(i, Dropped), UNCHANGED child
    PROVE  Replied(i)
  BY RepliedPlain DEF Dropped

LEMMA Silent ==
    ASSUME NEW i \in Ids, ans' = ans, child'[i].kind = child[i].kind PROVE Replied(i)
  BY DEF Replied

LEMMA MakePipeReplied ==
    ASSUME ServerTypeInv, NEW i \in Ids, NEW l \in Labels, NEW code \in Nat, MakePipe(i, l, Plain(code))
    PROVE  Replied(i)
  <1>1. CASE Reply(i, Plain(code)) /\ UNCHANGED osVars
    BY <1>1, RepliedPlain DEF osVars
  <1>2. CASE UNCHANGED <<child, ans>>
    BY <1>2, Silent
  <1>3. Plain(code) \in Replies
    BY PlainType
  <1> QED
    BY <1>1, <1>2, <1>3, MakePipeIs

LEMMA ForkReplied ==
    ASSUME ServerTypeInv, NEW i \in Ids, NEW k \in {"select", "info", "whole"}, NEW l \in Labels,
           NEW code \in Nat, KindOk(i), pc[i] \in NotForked,
           ForkTo(i, k, l) \/ ForkFails(i, Plain(code))
    PROVE  Replied(i)
  <1>1. CASE ForkTo(i, k, l)
    BY <1>1 DEF ForkTo, KindOk, Replied
  <1>2. CASE ForkFails(i, Plain(code))
    BY <1>2, RepliedPlain DEF ForkFails, osVars
  <1> QED
    BY <1>1, <1>2

LEMMA InServerReplied ==
    ASSUME ServerTypeInv, NEW i \in Ids,
           \/ EnterHdf5(i) \/ CreateFile(i) \/ WriteDataset(i) \/ RefuseDataset(i) \/ CreateDataset(i)
           \/ DeleteFile(i) \/ RootInfo(i)
    PROVE  Replied(i)
  <1>1. ASSUME NEW k, NEW f, NEW code \in Nat, InServer(i, k, f, code) PROVE Replied(i)
    BY <1>1, RepliedPlain DEF InServer, osVars
  <1>2. CASE EnterHdf5(i)
    BY <1>2, Silent DEF EnterHdf5, osVars
  <1> QED
    BY <1>1, <1>2 DEF CreateFile, WriteDataset, RefuseDataset, DeleteFile, CreateDataset, RootInfo

\* The read loop ends when all of DataSize has been read.
LenOk(i) == pc[i] \in {"selectWait", "selectSend"} => Len(loc[i].got) = loc[i].size

LEMMA SelectReplied ==
    ASSUME ServerTypeInv, NEW i \in Ids, Sound(i), LenOk(i),
           \/ SelectPipe(i) \/ SelectFork(i) \/ SelectClose(i) \/ SelectReadSize(i) \/ SelectAlloc(i)
           \/ SelectRead(i) \/ SelectRest(i) \/ SelectWait(i) \/ SelectSend(i)
    PROVE  Replied(i)
  <1>1. KindOk(i) /\ loc[i] \in Locals
    BY DEF Sound, ServerTypeInv
  <1>2. ASSUME GivesUp(i) PROVE Replied(i)
    BY <1>2, RepliedDropped DEF GivesUp
  <1>3. ASSUME ans' = ans, child' = child PROVE Replied(i)
    BY <1>3, Silent
  <1>4. CASE SelectPipe(i)
    BY <1>4, MakePipeReplied DEF SelectPipe, Dropped, Labels, NotForked
  <1>5. CASE SelectFork(i)
    BY <1>1, <1>5, ForkReplied DEF SelectFork, Dropped, AtLabel, Labels, NotForked, SelectForked
  <1>6. CASE SelectClose(i)
    BY <1>3, <1>6 DEF SelectClose, ClosesWriteEnd
  <1>7. CASE SelectReadSize(i)
    BY <1>2, <1>3, <1>7 DEF SelectReadSize, osVars
  <1>8. CASE SelectAlloc(i)
    BY <1>2, <1>3, <1>8 DEF SelectAlloc, osVars
  <1>9. CASE SelectRead(i)
    BY <1>2, <1>3, <1>9 DEF SelectRead
  <1>10. CASE SelectRest(i)
    BY <1>3, <1>10 DEF SelectRest
  <1>11. CASE SelectWait(i)
    BY <1>11, ReapedIs, Silent DEF SelectWait, WaitsFor
  <1>12. CASE SelectSend(i)
    <2>1. UNCHANGED child /\ pc[i] = "selectSend"
      BY <1>12 DEF SelectSend, osVars, AtLabel
    <2>2. CASE Reply(i, Dropped)
      BY <2>1, <2>2, RepliedDropped
    <2>3. ASSUME NEW n \in Coded(loc[i].size), Reply(i, Answer(200, loc[i].got, Pieces(n)))
          PROVE  Replied(i)
      <3>1. child'[i].kind = "select"
        BY <1>1, <2>1 DEF KindOk, SelectForked
      <3>2. loc[i].got \in Seq(Nat) /\ Len(loc[i].got) = loc[i].size /\ n \in Coded(Len(loc[i].got))
        BY <1>1, <2>1, <2>3 DEF Locals, LenOk
      <3>3. n \in Nat
        BY <3>2 DEF Coded
      <3> DEFINE fine == 200
      <3>4. fine \in Nat /\ Reply(i, Answer(fine, loc[i].got, Pieces(n)))
        BY <2>3
      <3> HIDE DEF fine
      <3>5. Answer(fine, loc[i].got, Pieces(n)) \in Replies
        BY <3>2, <3>3, <3>4, AnswerType
      <3>6. Cut(Answer(fine, loc[i].got, Pieces(n)), "select")
        BY <3>2, <3>3, <3>4, AnswerCut
      <3> QED
        BY <2>1, <3>1, <3>4, <3>5, <3>6, RepliedIs
    <2> QED
      BY <1>12, <2>2, <2>3 DEF SelectSend
  <1> QED
    BY <1>4, <1>5, <1>6, <1>7, <1>8, <1>9, <1>10, <1>11, <1>12

LEMMA InfoReplied ==
    ASSUME ServerTypeInv, NEW i \in Ids, Sound(i),
           InfoOpen(i) \/ InfoFork(i) \/ InfoWait(i) \/ InfoMap(i) \/ InfoClose(i) \/ InfoSend(i)
    PROVE  Replied(i)
  <1>1. KindOk(i) /\ loc[i] \in Locals
    BY DEF Sound, ServerTypeInv
  <1>2. ASSUME ans' = ans, child' = child PROVE Replied(i)
    BY <1>2, Silent
  <1>3. CASE InfoOpen(i)
    BY <1>2, <1>3, RepliedPlain DEF InfoOpen, osVars
  <1>4. CASE InfoFork(i)
    BY <1>1, <1>4, ForkReplied DEF InfoFork, AtLabel, Labels, NotForked, InfoForked
  <1>5. CASE InfoWait(i)
    BY <1>5, ReapedIs, Silent DEF InfoWait, WaitsFor
  <1>6. CASE InfoMap(i)
    BY <1>2, <1>6 DEF InfoMap, Crash, osVars
  <1>7. CASE InfoClose(i)
    BY <1>2, <1>7 DEF InfoClose
  <1>8. CASE InfoSend(i)
    <2> DEFINE fine == 200
               n == Len(loc[i].got)
    <2>1. /\ UNCHANGED child /\ fine \in Nat /\ loc[i].got \in Seq(Nat) /\ n \in Nat /\ n \in Int
          /\ Reply(i, Answer(fine, loc[i].got, Pieces(n))) /\ n = Len(loc[i].got)
      BY <1>1, <1>8 DEF InfoSend, Locals
    <2> HIDE DEF fine, n
    <2>2. Answer(fine, loc[i].got, Pieces(n)) \in Replies
      BY <2>1, AnswerType
    <2>3. Cut(Answer(fine, loc[i].got, Pieces(n)), child'[i].kind)
      BY <2>1, AnswerCut
    <2> QED
      BY <2>1, <2>2, <2>3, RepliedIs
  <1> QED
    BY <1>3, <1>4, <1>5, <1>6, <1>7, <1>8

LEMMA WholeReplied ==
    ASSUME ServerTypeInv, NEW i \in Ids, Sound(i),
           WholePipe(i) \/ WholeFork(i) \/ WholeClose(i) \/ WholeRead(i) \/ WholeWait(i) \/ WholeSend(i)
    PROVE  Replied(i)
  <1>1. KindOk(i) /\ loc[i] \in Locals
    BY DEF Sound, ServerTypeInv
  <1>2. ASSUME ans' = ans, child' = child PROVE Replied(i)
    BY <1>2, Silent
  <1>3. CASE WholePipe(i)
    BY <1>3, MakePipeReplied DEF WholePipe, Labels, NotForked
  <1>4. CASE WholeFork(i)
    BY <1>1, <1>4, ForkReplied DEF WholeFork, AtLabel, Labels, NotForked, WholeForked
  <1>5. CASE WholeClose(i)
    BY <1>2, <1>5 DEF WholeClose, ClosesWriteEnd
  <1>6. CASE WholeRead(i)
    BY <1>2, <1>6 DEF WholeRead
  <1>7. CASE WholeWait(i)
    <2>1. PICK c \in Ids : child' = [child EXCEPT ![c].st = "reaped"]
      BY <1>7 DEF WholeWait
    <2>2. child'[i].kind = child[i].kind
      BY <2>1, ReapedIs
    <2> QED
      BY <1>7, <2>2, Silent DEF WholeWait
  <1>8. CASE WholeSend(i)
    <2>1. CASE Crash
      BY <1>2, <2>1 DEF Crash
    <2>2. CASE /\ UNCHANGED osVars
               /\ Reply(i, Answer(200, [k \in 1..loc[i].size |-> 0], Pieces(loc[i].size)))
      <3> DEFINE fine == 200
                 n == loc[i].size
                 g == [k \in 1..n |-> 0]
      <3>1. fine \in Nat /\ n \in Nat /\ g \in Seq(Nat) /\ Len(g) = n
        BY <1>1 DEF Locals
      <3>2. UNCHANGED child /\ Reply(i, Answer(fine, g, Pieces(n)))
        BY <2>2 DEF osVars
      <3> HIDE DEF fine, n, g
      <3>3. Answer(fine, g, Pieces(n)) \in Replies
        BY <3>1, AnswerType
      <3>4. Cut(Answer(fine, g, Pieces(n)), child'[i].kind)
        BY <3>1, AnswerCut
      <3> QED
        BY <3>2, <3>3, <3>4, RepliedIs
    <2> QED
      BY <1>8, <2>1, <2>2 DEF WholeSend
  <1> QED
    BY <1>3, <1>4, <1>5, <1>6, <1>7, <1>8

LEMMA ChildReplied ==
    ASSUME ServerTypeInv, NEW i \in Ids, ChildStep(i) \/ CloneAborts(i) \/ ChildDies(i)
    PROVE  Replied(i) /\ UNCHANGED <<pc, loc>>
  <1> DEFINE Goal == Replied(i) /\ UNCHANGED <<pc, loc>>
  <1>1. ASSUME child'[i].kind = child[i].kind, UNCHANGED <<pc, loc, ans>> PROVE Goal
    BY <1>1, Silent
  <1>2. ASSUME NEW l \in ChildStates, child' = [child EXCEPT ![i].st = l] PROVE child'[i].kind = child[i].kind
    BY <1>2, ChildGoesOn
  <1>3. ASSUME NEW fin \in BOOLEAN, Exit(i, fin) PROVE Goal
    BY <1>1, <1>3, ExitIs
  <1> HIDE DEF Goal
  <1>4. ASSUME ChildReads(i) PROVE Goal
    <2>1. child'[i].kind = child[i].kind /\ UNCHANGED <<file, pc, loc, pipe, shm, ans, strayed, up>>
      BY <1>4, ChildReadsIs
    <2> QED
      BY <1>1, <2>1
  <1>5. ASSUME SelectSize(i) PROVE Goal
    BY <1>1, <1>2, <1>5 DEF SelectSize, ChildStates
  <1>6. ASSUME SelectUnit(i) PROVE Goal
    <2>1. child' = [child EXCEPT ![i].sent = @ + 1] /\ UNCHANGED <<pc, loc, ans>>
      BY <1>6 DEF SelectUnit
    <2>2. child'[i].kind = child[i].kind
      BY <2>1, SentIs
    <2> QED
      BY <1>1, <2>1, <2>2
  <1>7. ASSUME SelectGivesUp(i) \/ SelectEnds(i) \/ CloneAborts(i) \/ ChildDies(i) PROVE Goal
    BY <1>3, <1>7 DEF SelectGivesUp, SelectEnds, CloneAborts, ChildDies
  <1>8. ASSUME WholeWrites(i) PROVE Goal
    <2>1. PICK l \in {"wholeSize2", "cloneReply"} : child' = [child EXCEPT ![i].st = l]
      BY <1>8 DEF WholeWrites
    <2>2. UNCHANGED <<pc, loc, ans>>
      BY <1>8 DEF WholeWrites
    <2>3. l \in ChildStates
      BY DEF ChildStates
    <2> QED
      BY <1>1, <1>2, <2>1, <2>2, <2>3
  <1>9. ASSUME CloneReplies(i) PROVE Goal
    <2>1. child'[i].kind = child[i].kind /\ UNCHANGED <<pc, loc>>
      BY <1>2, <1>9 DEF CloneReplies, ChildStates
    <2> DEFINE none == <<>>
               zero == 0
               fine == 200
    <2>2. none \in Seq(Nat) /\ zero \in Nat /\ fine \in Nat /\ zero = Len(none)
      OBVIOUS
    <2>3. Reply(i, Answer(fine, none, Pieces(zero)))
      BY <1>9 DEF CloneReplies
    <2> HIDE DEF none, zero, fine
    <2>4. Answer(fine, none, Pieces(zero)) \in Replies
      BY <2>2, AnswerType
    <2>5. Cut(Answer(fine, none, Pieces(zero)), child'[i].kind)
      BY <2>2, AnswerCut
    <2>6. Replied(i)
      BY <2>1, <2>3, <2>4, <2>5, RepliedIs
    <2> QED
      BY <2>1, <2>6 DEF Goal
  <1>10. ASSUME InfoTruncates(i) PROVE Goal
    <2>1. CASE child' = [child EXCEPT ![i].st = "infoCopy"] /\ UNCHANGED <<pc, loc, ans>>
      BY <1>1, <1>2, <2>1 DEF ChildStates
    <2>2. CASE ExitsThroughHdf5(i, FALSE) /\ UNCHANGED <<pc, loc, ans>>
      BY <1>1, <2>2, ExitsIs
    <2> QED
      BY <1>10, <2>1, <2>2 DEF InfoTruncates
  <1>11. ASSUME InfoCopies(i) PROVE Goal
    BY <1>1, <1>11, ExitsIs DEF InfoCopies
  <1> QED
    BY <1>4, <1>5, <1>6, <1>7, <1>8, <1>9, <1>10, <1>11 DEF ChildStep, Goal

LEMMA ArriveReplied ==
    ASSUME ServerTypeInv, NEW i \in Ids, NEW k \in Kinds, Arrive(i, k)
    PROVE  Replied(i) /\ LenOk(i)'
  <1>1. Replied(i)
    BY RepliedPlain, Silent DEF Arrive, osVars
  <1>2. pc'[i] \in {"over", k}
    BY GotoIs DEF Arrive
  <1>3. k \notin {"selectWait", "selectSend"}
    BY ServerAssumption DEF AllKinds
  <1> QED
    BY <1>1, <1>2, <1>3 DEF LenOk

LEMMA HandlerLen ==
    ASSUME ServerTypeInv, NEW i \in Ids, LenOk(i), HandlerStep(i)
    PROVE  LenOk(i)'
  <1>1. ASSUME Done(i) PROVE LenOk(i)'
    BY <1>1, DoneIs DEF LenOk
  <1>2. ASSUME NEW l, l \notin {"selectWait", "selectSend"}, Goto(i, l) PROVE LenOk(i)'
    BY <1>2, GotoIs DEF LenOk
  <1>3. CASE \/ CreateFile(i) \/ WriteDataset(i) \/ RefuseDataset(i) \/ CreateDataset(i)
             \/ DeleteFile(i) \/ RootInfo(i)
    BY <1>1, <1>3 DEF InServer, CreateFile, WriteDataset, RefuseDataset, DeleteFile, CreateDataset, RootInfo
  <1>17. CASE EnterHdf5(i)
    BY <1>2, <1>17 DEF EnterHdf5, Entered
  <1>4. CASE SelectPipe(i) \/ InfoOpen(i) \/ WholePipe(i)
    BY <1>1, <1>2, <1>4 DEF SelectPipe, InfoOpen, WholePipe, MakePipe
  <1>5. CASE SelectFork(i) \/ InfoFork(i) \/ WholeFork(i)
    BY <1>1, <1>2, <1>5 DEF SelectFork, InfoFork, WholeFork, ForkTo, ForkFails
  <1>6. CASE SelectClose(i) \/ InfoClose(i) \/ WholeClose(i)
    BY <1>2, <1>6 DEF SelectClose, InfoClose, WholeClose, ClosesWriteEnd
  <1>7. CASE SelectReadSize(i) \/ SelectAlloc(i)
    BY <1>1, <1>2, <1>7 DEF SelectReadSize, SelectAlloc, GivesUp
  <1>8. CASE SelectRead(i)
    <2>1. CASE GivesUp(i)
      BY <1>1, <2>1 DEF GivesUp
    <2>2. CASE pc' = pc
      BY <1>8, <2>2 DEF SelectRead, AtLabel, LenOk
    <2> QED
      BY <1>8, <2>1, <2>2 DEF SelectRead
  <1>9. CASE SelectRest(i)
    BY <1>9 DEF SelectRest, LenOk
  <1>10. CASE SelectWait(i)
    BY <1>10 DEF SelectWait, WaitsFor, AtLabel, LenOk
  <1>11. CASE SelectSend(i) \/ InfoSend(i)
    BY <1>1, <1>11 DEF SelectSend, InfoSend
  <1>12. CASE InfoWait(i)
    BY <1>2, <1>12 DEF InfoWait, WaitsFor
  <1>13. CASE Crash
    BY <1>13 DEF Crash, LenOk
  <1>14. CASE InfoMap(i) \/ WholeSend(i)
    BY <1>1, <1>2, <1>13, <1>14 DEF InfoMap, WholeSend
  <1>15. CASE WholeRead(i)
    BY <1>2, <1>15 DEF WholeRead
  <1>16. CASE WholeWait(i)
    BY <1>2, <1>16 DEF WholeWait
  <1> QED
    BY <1>3, <1>4, <1>5, <1>6, <1>7, <1>8, <1>9, <1>10, <1>11, <1>12, <1>14, <1>15, <1>16, <1>17
       DEF HandlerStep

PieceInv == PiecesCover /\ \A i \in Ids : LenOk(i)

LEMMA PieceNext ==
    ASSUME ServerInv, PieceInv, [Next]_vars PROVE PieceInv'
  <1>1. ServerTypeInv /\ \A i \in Ids : Sound(i) /\ LenOk(i)
    BY DEF ServerInv, PieceInv
  <1>2. \A i \in Ids : \A a \in Range(ans[i]) : a.code = 200 => Cut(a, child[i].kind)
    BY DEF PieceInv, PiecesCover, Answers, Cut
  <1>3. ASSUME \A i \in Ids : Replied(i) PROVE PiecesCover'
    <2>1. ASSUME NEW i \in Ids, NEW a \in Range(ans'[i]), a.code = 200 PROVE Cut(a, child'[i].kind)
      <3>1. Range(<<>>) = {}
        BY DEF Range
      <3> QED
        BY <1>2, <1>3, <2>1, <3>1 DEF Replied
    <2> QED
      BY <2>1 DEF PiecesCover, Answers, Cut
  <1>4. ASSUME NEW i \in Ids, Replied(i), LenOk(i)', \A j \in Ids \ {i} : Spares(j) PROVE PieceInv'
    <2>1. ASSUME NEW j \in Ids \ {i} PROVE Replied(j) /\ LenOk(j)'
      BY <1>1, <1>4, <2>1 DEF Spares, ReapedBy, Replied, LenOk
    <2> QED
      BY <1>3, <1>4, <2>1 DEF PieceInv
  <1>5. ASSUME NEW i \in Ids, HandlerStep(i) PROVE PieceInv'
    <2>1. Replied(i)
      BY <1>1, <1>5, InServerReplied, SelectReplied, InfoReplied, WholeReplied DEF HandlerStep
    <2>2. \A j \in Ids \ {i} : Spares(j)
      BY <1>1, <1>5, EnteredSound, InServerSound, SelectSound, InfoSound, WholeSound DEF HandlerStep
    <2> QED
      BY <1>1, <1>4, <1>5, <2>1, <2>2, HandlerLen
  <1>6. ASSUME NEW i \in Ids, NEW k \in Kinds, Arrive(i, k) PROVE PieceInv'
    BY <1>1, <1>4, <1>6, ArriveSound, ArriveReplied
  <1>7. ASSUME NEW i \in Ids, ChildStep(i) \/ CloneAborts(i) \/ ChildDies(i) PROVE PieceInv'
    <2>1. Replied(i) /\ LenOk(i)'
      BY <1>1, <1>7, ChildReplied DEF LenOk
    <2> QED
      BY <1>1, <1>4, <1>7, <2>1, ChildStepSound
  <1>8. CASE UNCHANGED vars
    <2>1. \A i \in Ids : Replied(i) /\ LenOk(i)'
      BY <1>1, <1>8 DEF vars, Replied, LenOk
    <2> QED
      BY <1>3, <2>1 DEF PieceInv
  <1> QED
    BY <1>5, <1>6, <1>7, <1>8 DEF Next

\* What is sent in chunks of MAX_DATA_BUFFER (Xrd_read_from_dataset_...) is
\* the whole answer, for every length and every size of the chunks, also
\* after a close() has strayed.
THEOREM PiecesCoverTheorem == Spec => []PiecesCover
  <1>1. Init => PieceInv
    <2> SUFFICES ASSUME Init PROVE PieceInv
      OBVIOUS
    <2>1. \A i \in Ids : ans[i] = <<>> /\ pc[i] = "idle"
      BY DEF Init
    <2>2. Range(<<>>) = {}
      BY DEF Range
    <2> QED
      BY <2>1, <2>2 DEF PieceInv, PiecesCover, Answers, LenOk
  <1>2. ServerInv /\ PieceInv /\ [Next]_vars => PieceInv'
    BY PieceNext
  <1>3. PieceInv => PiecesCover
    BY DEF PieceInv
  <1> QED
    BY <1>1, <1>2, <1>3, ServerTheorem, PTL DEF Spec
=============================================================================
