------------------------------- MODULE VolFile -------------------------------
(***************************************************************************)
(* The file callbacks (rest_vol_file.c).  A file is opened or created by   *)
(* name; the same name opened twice gives two structures.                  *)
(***************************************************************************)
EXTENDS Session

(* A request about a name that has no structure yet.                       *)
RequestName(s, verb, n) ==
  Perform(SetOpt(Host(s, n), verb), verb, n, TRUE)

NewFile(s, n, w) ==
  {FileAt(s, f, n, w) : f \in FreeSlots(s.heap)}

RoomForFile == ~rehomed /\ FreeSlots(heap) # {}

(* With H5F_ACC_TRUNC: is the file there, and if it is, delete it.  The    *)
(* HTTP code of the first request does not fail the call.                  *)
Truncate(s, n) ==
  LET Delete(t) == Then(Perform(SetOpt(t, "DELETE"), "DELETE", n, TRUE),
                        LAMBDA u : {NoCustom(u)})
  IN Then(Perform(SetOpt(s, "GET"), "GET", n, TRUE), LAMBDA t : {t} \cup Delete(t))

CreateFile(s, n) ==
  LET Put(t)  == Then(Perform(SetOpt(t, "PUT"), "PUT", n, TRUE), MayFail)
      Done(t) == NewFile(NoHeaders(NoUpload(NoCustom(t))), n, TRUE)
      first   == Host(s, n)
  IN Then(Then({first} \cup Truncate(first, n), Put), Done)

RV_file_create(n) == RoomForFile /\ Opens(CreateFile(Begin, n))

OpenFile(s, n, w) ==
  LET Done(t) == NewFile(NoHeaders(t), n, w)
  IN Then(Then(RequestName(s, "GET", n), MayFail), Done)

RV_file_open(n, w) == RoomForFile /\ Opens(OpenFile(Begin, n, w))

(* Local answers: no request, no change (property lists, intent, names).   *)
RV_file_get(o) ==
  /\ Usable(o) /\ heap[o].kind = "file"
  /\ Plain(MayFail(Begin))

RV_file_specific_flush(o) ==
  /\ Callable(o, {"file"})
  /\ Plain(Flush(Begin, Dom(o)))

(* H5VL_FILE_REOPEN: a second structure, with the name of the first.       *)
RV_file_specific_reopen(o) ==
  /\ Callable(o, {"file"})
  /\ Opens(Then(OpenFile(Begin, heap[o].name, heap[o].rw),
             LAMBDA s : {NoCustom(NoHeaders(s))}))

(* H5VL_FILE_IS_ACCESSIBLE: open and close again; a failed open is the     *)
(* answer "no", and the clean-up at the end of the callback still runs.    *)
RV_file_specific_is_accessible(n) ==
  LET Answer(s) == NoCustom(NoHeaders(IF s.ok THEN RV_file_close(s, s.got)
                                              ELSE [s EXCEPT !.ok = TRUE]))
  IN /\ RoomForFile
     /\ Plain({Answer(s) : s \in OpenFile(Begin, n, FALSE)})

(* H5VL_FILE_DELETE: the base verb is whatever the last call left.         *)
RV_file_specific_delete(n) ==
  Plain(Then(RequestName(Begin, "DELETE", n),
             LAMBDA s : {NoCustom(NoHeaders(s))}))

(* The application gives up its identifier of the file, but not of one     *)
(* whose own attributes or objects it is iterating over.                   *)
CloseFile(o) ==
  /\ o \in open /\ ~(iter.at = NoSlot /\ iter.dom = o)
  /\ Live(heap, o) => heap[o].kind = "file"
  /\ Return(IF Live(heap, o) THEN RV_file_close(Begin, o) ELSE Begin)
  /\ open' = open \ {o}
  /\ UNCHANGED <<iter, rehomed>>
==============================================================================
