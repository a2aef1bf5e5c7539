--------------------------- MODULE ValueTransfer ---------------------------
(***************************************************************************)
(* Values on their way between the application and a dataset: what type    *)
(* and dataspace a handle gets (RV_dataset_create, RV_dataset_open), which *)
(* elements RV_dataset_write sends and where RV_dataset_read puts what it  *)
(* receives, with one server (SERVER_NUM = 1).  The server is a REST       *)
(* server, which keeps the document of a type and answers with it, or the  *)
(* repository's own plugin (H5PluginHandle.cc), to which values are sent.  *)
(*                                                                         *)
(* An element is [v, type]: the value v in the bytes of type.  Whoever     *)
(* takes these bytes for another type has Junk, any value at all.  A       *)
(* dataspace is [dims, sel]; a selection is Everything, a list of points,  *)
(* or a regular hyperslab.  Positions are row-major, from 0.  Types are    *)
(* numbers wherever values are transferred; selections of nothing, reads   *)
(* of points are left out, and of closing a handle all but the handle.     *)
(***************************************************************************)
EXTENDS TypeConvert, FiniteSets

CONSTANTS Shape,        \* of each dataset (1, 2, ...), its dimensions
          Servers,      \* [kind, files]: files is a sequence of types, of
                        \* the plugin's datasets or to be created at a REST server
          NewTypes,     \* types the application creates each dataset with
          WriteCalls, ReadCalls,   \* sequences of entries [dset, mtype, mem, file]
          MaxCalls      \* bound: writes and reads

Datasets == DOMAIN Shape
Junk   == [v |-> <<>>, type |-> Refused]
Fresh  == [v |-> <<0>>, type |-> Refused]     \* a cell the application has not set
Closed == [dtype |-> Refused, name |-> "none", view |-> 0]

VARIABLES server,     \* the server and what it was started with
          stored,     \* of each dataset, its type (plugin) or its document (REST)
          made,       \* the type the application created it with
          content,    \* of each dataset of the plugin, its elements
          handle,     \* of each dataset: [dtype, name, view], or Closed
          nameBuf,    \* the dataset the application's name buffer names
          space,      \* the dataspaces handles refer to by their view
          table,      \* the dataset whose handle is in the table, or 0
          pc, call, i,            \* where a call is, its entries, the loop variable
          info,                   \* transfer_info
          sel_type, node_size,    \* locals that outlive a turn of the loop
          pending,                \* transfers that are under way
          heard,                  \* whether the transfer loop reads how they end
          broken,                 \* those of the call that did not end well (history)
          memory,                 \* the application's buffer of each entry
          before,                 \* content before the call
          result, calls

dataVars == <<server, stored, made>>
handleVars == <<handle, nameBuf, table>>
callVars == <<call, memory, before, calls>>
plannedVars == <<i, info, sel_type, node_size>>
endVars == <<heard, broken>>
vars == <<dataVars, handleVars, callVars, content, space, pc, plannedVars, pending,
          endVars, result>>

(***************************************************************************)
(* Dataspaces and selections                                               *)
(***************************************************************************)
AllSpace == [kind |-> "H5S_ALL"]              \* a caller's H5S_ALL
Given(dims, sel) == [kind |-> "given", dims |-> dims, sel |-> sel]
Own(view) == [kind |-> "own", view |-> view]  \* the identifier of a shared dataspace

Everything == [type |-> "all"]
Points(at) == [type |-> "points", at |-> at]
Slab(dim)  == [type |-> "slab", dim |-> dim]  \* per dimension [start, stride, count, block]

Product(s) == FoldLeft(LAMBDA m, k : m * k, 1, s)
Cells(dims) == 0..(Product(dims) - 1)
Coord(p, dims, d) == (p \div Product(SubSeq(dims, d + 1, Len(dims)))) % dims[d]

Takes(r, x) == /\ x >= r.start
               /\ (x - r.start) \div r.stride < r.count
               /\ (x - r.start) % r.stride < r.block

\* The selected positions in the order of the selection.
Elements(s) ==
    CASE s.sel.type = "all" -> [k \in 1..Product(s.dims) |-> k - 1]
      [] s.sel.type = "points" -> s.sel.at
      [] OTHER -> SetToSortSeq({p \in Cells(s.dims) : \A d \in DOMAIN s.dims :
                                   Takes(s.sel.dim[d], Coord(p, s.dims, d))},
                               LAMBDA p, q : p < q)

\* Faulty variant: the end of the last block, not one behind it.
StopShort(r) == r.start + r.stride * (r.count - 1) + r.block - 1

\* RV_convert_dataspace_selection_to_string: start:stop of each dimension.
\* (What it prints as the step is read by nobody here.)
Stop(r) == r.start + r.stride * (r.count - 1) + r.block
Text(sel) == [d \in DOMAIN sel.dim |-> [start |-> sel.dim[d].start, stop |-> Stop(sel.dim[d])]]

Fits(s) == s.sel.type = "slab" => \A d \in DOMAIN s.dims : Stop(s.sel.dim[d]) <= s.dims[d]


Contiguous(s) ==
    LET length(d) == s.sel.dim[d].count * s.sel.dim[d].block
        whole(d)  == s.sel.dim[d].start = 0 /\ length(d) = s.dims[d]
    IN  \/ Len(Elements(s)) < 2
        \/ s.sel.type = "all"
        \/ /\ s.sel.type = "slab"
           /\ \A d \in DOMAIN s.dims :
                /\ s.sel.dim[d].stride <= 1
                /\ s.dims[d] > 1 /\ length(d) > 1
                     => \A e \in DOMAIN s.dims : e > d => whole(e)

\* RV_convert_start_to_offset; it fails for points.
StartToOffset(s) ==
    IF s.sel.type = "all" THEN 0
    ELSE LET n[d \in DOMAIN s.dims] ==
               IF d = 1 THEN s.sel.dim[1].start
               ELSE n[d - 1] * (s.dims[d] + s.sel.dim[d].start)
         IN  n[Len(s.dims)]

(***************************************************************************)
(* Creating and opening                                                    *)
(***************************************************************************)

\* h5basetype_string_to_id and h5basetype_to_string: the names the plugin knows.
ServerNames ==
    [letter : {"I"}, bits : {8, 16, 32, 64}, order : {"LE"}] \cup
    [letter : {"U"}, bits : {16, 32, 64}, order : {"LE"}] \cup
    [letter : {"F"}, bits : {32, 64}, order : {"LE"}]

\* The type in the plugin's answer to an open: the name of the native type,
\* whatever order the file has; without a known name, no base.
Native(t) == [t EXCEPT !.order = "LE"]
Announced(t) == IF t.class \in Numbers /\ PredefinedName(Native(t)) \in ServerNames
                THEN EncodeNumber(Native(t)) ELSE Refused

Init ==
    /\ server \in Servers
    /\ stored = IF server.kind = "plugin" THEN server.files ELSE [d \in Datasets |-> Refused]
    /\ made = stored
    /\ content = [d \in Datasets |->
                    [p \in Cells(Shape[d]) |-> [v |-> <<0, d, p>>, type |-> stored[d]]]]
    /\ handle = [d \in Datasets |-> Closed] /\ nameBuf = 0 /\ table = 0
    /\ space = [d \in Datasets |-> [dims |-> Shape[d], sel |-> Everything]]
    /\ pc = "idle" /\ call = <<>> /\ i = 0 /\ info = <<>>
    /\ sel_type = "all" /\ node_size = 0 /\ pending = {}
    /\ heard = TRUE /\ broken = {}
    /\ memory = <<>> /\ before = content /\ result = "none" /\ calls = 0

\* The application may do something else; behind its last transfer it stops.
Idle == pc = "idle" /\ calls < MaxCalls

\* The handle keeps the pointer to the name it was given: a name of its own,
\* or the buffer the application uses for every name.  The table of open
\* datasets has one entry for a file, that of the latest (module Connector).
Holds(d, dtype, how, view) ==
    /\ handle' = [handle EXCEPT ![d] = [dtype |-> dtype, name |-> how, view |-> view]]
    /\ nameBuf' = IF how = "buffer" THEN d ELSE nameBuf
    /\ table' = d

\* A new dataspace for dataset d.
Unused == CHOOSE v \in Datasets : \A e \in Datasets : handle[e].view # v
NewSpace(d) == space' = [space EXCEPT ![Unused] = [dims |-> Shape[d], sel |-> Everything]]

\* What was made of a handle is closed again, and with it the table's entry,
\* whose ever it is.
Refuse == result' = "refused" /\ table' = 0 /\ UNCHANGED <<handle, nameBuf, space>>

\* RV_dataset_create: the handle keeps a copy of the type it was given.
\* A REST server takes any document; the plugin (Xrd_create_dataset) looks
\* for the name of a number.  A dataset is created where there is none.
Create(d, t, how) ==
    /\ Idle /\ handle[d] = Closed /\ stored[d] = Refused
    /\ LET type == IF server.kind = "rest" THEN Encode(t)
                   ELSE IF t.class \in Numbers /\ PredefinedName(t) \in ServerNames THEN t
                   ELSE Refused
       IN  IF type = Refused
           THEN Refuse /\ UNCHANGED <<stored, made, content>>
           ELSE /\ Holds(d, t, how, Unused) /\ NewSpace(d)
                /\ stored' = [stored EXCEPT ![d] = type]
                /\ made' = [made EXCEPT ![d] = t]
                /\ content' = IF server.kind = "rest" THEN content
                              ELSE [content EXCEPT ![d] =
                                      [p \in DOMAIN @ |-> [@[p] EXCEPT !.type = type]]]
                /\ result' = "none"
    /\ UNCHANGED <<server, callVars, pc, plannedVars, pending, endVars>>

\* RV_dataset_open (RV_parse_datatype).  The plugin gives every dataset one
\* and the same id, and a handle shares the dataspace of the one in the table
\* if that has its id; otherwise it gets one of its own.
Shares == server.kind = "plugin" /\ table # 0

Open(d, how) ==
    /\ Idle /\ stored[d] # Refused /\ handle[d] = Closed
    /\ LET dtype == Decode(IF server.kind = "rest" THEN stored[d] ELSE Announced(stored[d]))
       IN  CASE dtype = Refused -> Refuse
             [] dtype # Refused /\ Shares -> /\ Holds(d, dtype, how, handle[table].view)
                                            /\ result' = "none" /\ UNCHANGED space
             [] OTHER -> Holds(d, dtype, how, Unused) /\ NewSpace(d) /\ result' = "none"
    /\ UNCHANGED <<dataVars, callVars, content, pc, plannedVars, pending, endVars>>

\* RV_dataset_close takes the entry out of the table, whose ever it is.
Close(d) ==
    /\ Idle /\ handle[d] # Closed
    /\ handle' = [handle EXCEPT ![d] = Closed] /\ table' = 0
    /\ result' = "none"
    /\ UNCHANGED <<dataVars, nameBuf, callVars, content, space, pc, plannedVars, pending,
                   endVars>>

(***************************************************************************)
(* What reads and writes share                                             *)
(***************************************************************************)

\* The dataset a request names: what the handle's pointer reads as by now.
PathOf(d) == IF handle[d].name = "own" THEN d ELSE nameBuf

Extent(e) == IF e.mem = AllSpace THEN Shape[e.dset] ELSE e.mem.dims
Entry == call[i]
View == handle[Entry.dset].view

\* The semantics of H5S_ALL: a selection is set in the handle's own
\* dataspace, which then stands for the memory, the file, or both.
SpacesAfter ==
    CASE Entry.file = AllSpace -> [space EXCEPT ![View].sel = Everything]
      [] Entry.file # AllSpace /\ Entry.mem = AllSpace ->
           [space EXCEPT ![View].sel = Entry.file.sel]
      [] OTHER -> space
MemSpace  == IF Entry.mem = AllSpace THEN Own(View) ELSE Entry.mem
FileSpace == IF Entry.file = AllSpace THEN Own(View) ELSE Entry.file

SpaceOf(ref, spaces) == IF ref.kind = "own" THEN spaces[ref.view]
                        ELSE [dims |-> ref.dims, sel |-> ref.sel]

\* The numbers of selected elements differ: the call fails, nothing is sent.
Mismatch == Len(Elements(SpaceOf(MemSpace, SpacesAfter)))
              # Len(Elements(SpaceOf(FileSpace, SpacesAfter)))

\* H5Tconvert of one element.
Converted(x, from, to) == IF x.type = from THEN [v |-> x.v, type |-> to] ELSE Junk

Begin(c, kind, buffers) ==
    /\ Idle /\ server.kind = "plugin"
    /\ \A k \in DOMAIN c : handle[c[k].dset] # Closed
    /\ call' = c /\ memory' = buffers /\ before' = content /\ calls' = calls + 1
    /\ pc' = kind /\ i' = 1 /\ info' = <<>> /\ result' = "none"
    /\ sel_type' = "all" /\ node_size' = 0 /\ pending' = {}
    /\ heard' = TRUE /\ broken' = {}
    /\ UNCHANGED <<dataVars, handleVars, content, space>>

Fail == /\ result' = "failed" /\ pc' = "idle"
        /\ UNCHANGED <<i, info, node_size, pending>>

Undefined == /\ pc' = "undefined"
             /\ UNCHANGED <<i, info, node_size, pending, result>>

Planned(transfer) == /\ info' = Append(info, transfer)
                     /\ pending' = pending \cup {i}
                     /\ i' = i + 1
                     /\ UNCHANGED <<pc, result>>

\* Everything is planned: the transfers start together.  If all end in the
\* first curl_multi_perform, the number of running handles stays 0 and no
\* message is read (module CurlMulti): the call succeeds whatever they say.
Perform == /\ pc \in {"write", "read"} /\ i > Len(call)
           /\ pc' = IF pc = "write" THEN "writing" ELSE "reading"
           /\ heard' \in BOOLEAN
           /\ UNCHANGED <<dataVars, handleVars, callVars, content, space, plannedVars, pending,
                          broken, result>>

Return == /\ pc \in {"writing", "reading"} /\ pending = {}
          /\ pc' = "idle" /\ result' = IF pc = "writing" THEN "written" ELSE "read"
          /\ UNCHANGED <<dataVars, handleVars, callVars, content, space, plannedVars, pending,
                         endVars>>

(***************************************************************************)
(* RV_dataset_write                                                        *)
(***************************************************************************)
WriteBegin(c) ==
    Begin(c, "write", [k \in DOMAIN c |-> [p \in Cells(Extent(c[k])) |->
                         [v |-> <<calls + 1, k, p>>, type |-> c[k].mtype]]])

\* What is sent: with a conversion, the first n elements of the application's
\* buffer are converted into another; then the selection, taken as an offset
\* if it is contiguous and gathered if not, is looked for in that buffer.
Body(s, buf, mtype, dtype) ==
    LET n == Len(Elements(s))
        source(p) == CASE ~ NeedTconv(dtype, mtype) /\ p \in DOMAIN buf -> buf[p]
                       [] NeedTconv(dtype, mtype) /\ p < n /\ p \in DOMAIN buf ->
                            Converted(buf[p], mtype, dtype)
                       [] OTHER -> Junk
    IN  [k \in 1..n |-> source(IF Contiguous(s) THEN StartToOffset(s) + k - 1
                               ELSE Elements(s)[k])]

\* The type of the last selection that was printed in this call, not of this
\* entry's: after points, every body is wrapped in JSON (and, unless this
\* entry selects points itself, sent from a wrong buffer).
SelTypeAfter == IF Entry.file = AllSpace THEN sel_type ELSE Entry.file.sel.type

\* A selection in the URL is followed by a second '?', and the plugin finds
\* no h5path behind it.
PathLost == Entry.file # AllSpace /\ SelTypeAfter # "points"

PlanWrite ==
    /\ pc = "write" /\ i <= Len(call)
    /\ LET s == SpaceOf(MemSpace, SpacesAfter)
           dtype == handle[Entry.dset].dtype
           body == Body(s, memory[i], Entry.mtype, dtype)
       IN  CASE ~ Fits(s) -> Undefined
             [] Fits(s) /\ (Mismatch \/ (Contiguous(s) /\ s.sel.type = "points")) -> Fail
             [] OTHER -> /\ Planned([path |-> IF PathLost THEN 0 ELSE PathOf(Entry.dset),
                                     dtype |-> dtype,
                                     body |-> IF SelTypeAfter = "points"
                                              THEN [k \in DOMAIN body |-> Junk] ELSE body])
                         /\ UNCHANGED node_size
    /\ space' = SpacesAfter /\ sel_type' = SelTypeAfter
    /\ UNCHANGED <<dataVars, handleVars, callVars, content, endVars>>

\* Xrd_write_to_dataset: the body is the whole dataset.  Without a path
\* nothing is opened, nothing is written, and the answer is still 200.
AfterWrite(k) ==
    IF info[k].path = 0 THEN content
    ELSE [content EXCEPT ![info[k].path] =
            [p \in DOMAIN @ |->
               IF /\ p < Len(info[k].body)
                  /\ Size(info[k].dtype) = Size(stored[info[k].path])
               THEN info[k].body[p + 1] ELSE Junk]]

WriteArrives(k) ==
    /\ pc = "writing" /\ k \in pending
    /\ pending' = pending \ {k} /\ content' = AfterWrite(k)
    /\ UNCHANGED <<dataVars, handleVars, callVars, space, pc, plannedVars, endVars, result>>

\* A PUT is answered with an error or its connection is lost: the call fails
\* at once, and the PUTs still under way are cut off.  Of all these the
\* server may have stored any.  If no message is read, nothing is noticed.
PutFails(k) ==
    /\ pc = "writing" /\ k \in pending
    /\ LET cut == IF heard THEN pending ELSE {k}
       IN  /\ pending' = pending \ cut /\ broken' = broken \cup cut
           /\ \E arrived \in SUBSET cut : content' =
                [d \in Datasets |->
                   IF \E j \in arrived : info[j].path = d
                   THEN AfterWrite(CHOOSE j \in arrived : info[j].path = d)[d]
                   ELSE content[d]]
    /\ IF heard THEN pc' = "idle" /\ result' = "failed" ELSE UNCHANGED <<pc, result>>
    /\ UNCHANGED <<dataVars, handleVars, callVars, space, plannedVars, heard>>

(***************************************************************************)
(* RV_dataset_read                                                         *)
(***************************************************************************)
ReadBegin(c) ==
    Begin(c, "read", [k \in DOMAIN c |-> [p \in Cells(Extent(c[k])) |-> Fresh]])

\* node_size is that of the last entry with a selection.  A dataspace in
\* which everything is selected has an empty text, which is cut up as if it
\* were not; a whole dataset is answered with an address in the plugin's
\* child, to a buffer that was never given a size.
PlanRead ==
    /\ pc = "read" /\ i <= Len(call)
    /\ LET text == IF Entry.file = AllSpace \/ Entry.file.sel = Everything THEN <<>>
                   ELSE Text(Entry.file.sel)
           size == IF text = <<>> THEN node_size
                   ELSE Product([d \in DOMAIN text |-> text[d].stop - text[d].start])
       IN  CASE ~ Fits(SpaceOf(MemSpace, SpacesAfter)) -> Undefined
             [] Fits(SpaceOf(MemSpace, SpacesAfter)) /\ Mismatch -> Fail
             [] OTHER -> IF text = <<>> /\ Entry.file # AllSpace THEN Undefined
                         ELSE /\ Planned([path |-> PathOf(Entry.dset), text |-> text,
                                          capacity |-> size * Size(Entry.mtype),
                                          mem |-> MemSpace])
                              /\ node_size' = size
    /\ space' = SpacesAfter
    /\ UNCHANGED <<dataVars, handleVars, callVars, content, sel_type, endVars>>

\* Xrd_read_dataset_info_by_chunked: all from start to stop, in the file's
\* bytes; what lies outside the dataset cannot be read.
Answer(path, text) ==
    LET box == {p \in Cells(Shape[path]) : \A d \in DOMAIN text :
                  Coord(p, Shape[path], d) \in text[d].start..(text[d].stop - 1)}
        n == Product([d \in DOMAIN text |-> text[d].stop - text[d].start])
        at == SetToSortSeq(box, LAMBDA p, q : p < q)
    IN  [k \in 1..n |-> IF Cardinality(box) = n THEN content[path][at[k]] ELSE Junk]

\* The answer ends, complete or cut off half-way (after a 200 this is the same
\* to the loop).  The curl callback stores it with a '\0'
\* behind it: one that fills the buffer goes beyond it by this byte, and what
\* that damages may end the program.  rv_dataset_read_cb, which is called if
\* the message is read, asks the memory dataspace, as it is by now, how many
\* elements there are and where they go.
Received(k, n) ==
    LET answer == Answer(info[k].path, info[k].text)
    IN  [j \in DOMAIN answer |-> IF j <= n THEN answer[j] ELSE Junk]

ReadArrives(k) ==
    /\ pc = "reading" /\ k \in pending
    /\ pending' = pending \ {k}
    /\ \E got \in LET n == Len(Answer(info[k].path, info[k].text)) IN {n \div 2, n} :
       LET e == call[k]
           dtype == handle[e.dset].dtype
           answer == Received(k, got)
           bytes == got * Size(stored[info[k].path])
           at == Elements(SpaceOf(info[k].mem, space))
           n == Len(at)
           scattered == [p \in DOMAIN memory[k] |->
                IF \E j \in 1..n : at[j] = p
                THEN Converted(answer[CHOOSE j \in 1..n : at[j] = p], dtype, e.mtype)
                ELSE memory[k][p]]
           overflow == \/ info[k].text = <<>>
                       \/ bytes > info[k].capacity
                       \/ /\ heard
                          /\ \/ n > Len(answer)
                             \/ /\ NeedTconv(dtype, e.mtype)
                                /\ TconvBuffers(dtype, e.mtype, TRUE).reuse # "NONE"
                                /\ n * Size(e.mtype) > info[k].capacity
       IN  /\ broken' = IF got = Len(answer) /\ heard THEN broken ELSE broken \cup {k}
           /\ CASE overflow -> pc' = "undefined"
                [] ~ overflow /\ bytes = info[k].capacity -> pc' \in {pc, "damaged"}
                [] OTHER -> pc' = pc
           /\ memory' = IF overflow \/ ~ heard THEN memory ELSE [memory EXCEPT ![k] = scattered]
    /\ UNCHANGED <<dataVars, handleVars, call, before, calls, content, space, plannedVars,
                   heard, result>>

\* An error answer, whose page goes to the same buffer, or no answer at all:
\* the call fails at once, unless no message is read.
GetFails(k) ==
    /\ pc = "reading" /\ k \in pending
    /\ LET cut == IF heard THEN pending ELSE {k}
       IN  pending' = pending \ cut /\ broken' = broken \cup cut
    /\ \/ pc' = "undefined" /\ UNCHANGED result
       \/ heard /\ pc' = "idle" /\ result' = "failed"
       \/ ~ heard /\ UNCHANGED <<pc, result>>
    /\ UNCHANGED <<dataVars, handleVars, callVars, content, space, plannedVars, heard>>

Next ==
    \/ \E d \in Datasets, how \in {"own", "buffer"} :
          \/ \E t \in NewTypes[server.kind][d] : Create(d, t, how)
          \/ Open(d, how)
    \/ \E d \in Datasets : Close(d)
    \/ \E c \in WriteCalls : WriteBegin(c)
    \/ \E c \in ReadCalls : ReadBegin(c)
    \/ PlanWrite \/ PlanRead \/ Perform \/ Return
    \/ \E k \in pending : WriteArrives(k) \/ PutFails(k) \/ ReadArrives(k) \/ GetFails(k)

Spec == Init /\ [][Next]_vars

(***************************************************************************)
(* Properties                                                              *)
(***************************************************************************)

\* A dataset that is opened has the type it was created with: the same
\* members, laid out without gaps (strings: as padded ASCII).  Only types
\* with a part that the documents cannot carry are refused, only those
\* listed by ReadBackWrong come back as something else, and the plugin calls
\* a big-endian number little-endian.
Carried(t) == IF server.kind = "rest" THEN Faithful(t)
              ELSE t.class \in Numbers /\ PredefinedName(t) \in ServerNames

OpenedAsCreated ==
    [][\A d \in Datasets, how \in {"own", "buffer"} : Open(d, how) =>
          LET t == made[d]
              dtype == handle'[d].dtype
          IN  IF dtype = Refused THEN ~ Carried(t)
              ELSE \/ dtype = Expected(t)
                   \/ ReadBackWrong(t)
                   \/ server.kind = "plugin" /\ t.order = "BE"]_vars

\* The background of a conversion is marked as needed exactly when some byte
\* of the result is not stored by the conversion, in gaps, in members the
\* source does not have, or in such members of members.
FillExact ==
    \A d \in Datasets : handle[d] # Closed =>
        \A t \in NewTypes[server.kind][d] :
            /\ Convertible(handle[d].dtype, t) =>
                 (NeedBkg(handle[d].dtype, t).fill
                    <=> Stored(handle[d].dtype, t) # 0..(Size(t) - 1))
            /\ Convertible(t, handle[d].dtype) =>
                 (NeedBkg(t, handle[d].dtype).fill
                    <=> Stored(t, handle[d].dtype) # 0..(Size(handle[d].dtype) - 1))

\* What a handle says of its dataset is so: its name, its type, its shape.
Knows(d) == /\ PathOf(d) = d
            /\ handle[d].dtype = stored[d]
            /\ space[handle[d].view].dims = Shape[d]

\* The cells of the application's buffer that an entry means.
Meant(e) == Elements(CASE e.mem # AllSpace -> [dims |-> e.mem.dims, sel |-> e.mem.sel]
                       [] e.file # AllSpace -> [dims |-> Shape[e.dset], sel |-> e.file.sel]
                       [] OTHER -> [dims |-> Shape[e.dset], sel |-> Everything])

Consecutive(at) == \A j \in 2..Len(at) : at[j] = at[j - 1] + 1

\* The writes that go wrong: a selection of points earlier in the call; a
\* conversion of cells that are not the first of the buffer; a contiguous
\* selection of memory that does not begin in the first column.
WriteSound(k) ==
    LET e == call[k]
    IN  /\ \A j \in 1..(k - 1) : call[j].file # AllSpace => call[j].file.sel.type # "points"
        /\ e.mtype # stored[e.dset] => Meant(e) = [p \in 1..Len(Meant(e)) |-> p - 1]
        /\ e.mem # AllSpace /\ e.mem.sel.type = "slab" /\ Consecutive(Meant(e)) =>
             \A c \in 2..Len(e.mem.dims) : e.mem.sel.dim[c].start = 0

AsSelected(k) ==
    \A p \in Cells(Shape[call[k].dset]) :
        content[call[k].dset][p] = [v |-> memory[k][Meant(call[k])[p + 1]].v,
                                    type |-> stored[call[k].dset]]

\* No other entry of the call names the dataset.
Alone(k) == \A j \in DOMAIN call \ {k} : call[j].dset # call[k].dset


\* The reads that go right: of a slab without steps, through a memory
\* dataspace that no other entry of the call sets, into a type not narrower
\* than the file's.
Unbroken(sel) == /\ sel.type = "slab"
                 /\ \A d \in DOMAIN sel.dim : sel.dim[d].stride = sel.dim[d].block
                                             \/ sel.dim[d].count = 1
ReadSound(k) ==
    LET e == call[k]
    IN  /\ Knows(e.dset)
        /\ e.file # AllSpace /\ Unbroken(e.file.sel)
        /\ e.mem = AllSpace =>
             \A j \in DOMAIN call \ {k} :
                (handle[call[j].dset].view = handle[e.dset].view /\ call[j].mem = AllSpace)
                   => call[j].file = e.file
        /\ Size(e.mtype) >= Size(stored[e.dset])

\* Such a read, if its own transfer ends well and its answer is looked at,
\* puts the value of each selected element into the cell meant for it and
\* leaves all other cells alone, whatever else is read by the same call, in
\* whatever order the answers come and however the others end.  Only other
\* reads, and pages that come instead of an answer, go further out of a
\* buffer than by the '\0' behind an answer that fills it.
ReadAsStored ==
    /\ (result = "read" \/ (result = "failed" /\ broken # {})) =>
         \A k \in DOMAIN memory \ broken : ReadSound(k) =>
           LET e == call[k]
               from == Elements([dims |-> Shape[e.dset], sel |-> e.file.sel])
           IN  \A p \in DOMAIN memory[k] :
                 memory[k][p] =
                   IF \E j \in DOMAIN from : Meant(e)[j] = p
                   THEN Converted(content[e.dset][from[CHOOSE j \in DOMAIN from : Meant(e)[j] = p]],
                                  stored[e.dset], e.mtype)
                   ELSE Fresh
    /\ pc = "undefined" => \E k \in DOMAIN call : ~ ReadSound(k) \/ k \in broken
=============================================================================
