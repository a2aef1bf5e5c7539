------------------------------ MODULE VolDataset -----------------------------
(***************************************************************************)
(* The dataset callbacks (rest_vol_dataset.c) and those of committed       *)
(* datatypes (rest_vol_datatype.c), as far as the shared handle and the    *)
(* files are concerned.  The transfers of a parallel read are the subject  *)
(* of CurlMulti and ParallelRead; here they are what they ask the server.  *)
(***************************************************************************)
EXTENDS Session

(* The body of the request names the group to link the dataset into, which *)
(* is looked up when the dataset's name has a directory part.              *)
RV_dataset_create(o) ==
  LET f == Dom(o)
      Create(t) == Then(MayFind(Retain(t, f), f), LAMBDA u : PostNew(u, "dataset", f))
  IN /\ Callable(o, Containers)
     /\ Opens(Then(WriteIntent(Begin, f), Create))

RV_dataset_open(o) ==
  /\ Callable(o, Containers)
  /\ Opens(OpenLoc(Begin, "dataset", Dom(o)))

(* A transfer runs on a copy of the global handle, with its own headers:   *)
(* it inherits the custom request, and leaves the global options alone.    *)
Transfer(s, verb, f) ==
  LET h == s.heap[f]
      d == SetOpt(Host(NoHeaders(s), h.name), verb)
  IN MayFail([s EXCEPT !.sent = @ \cup {Wire(d, verb, h.name, h.rw \/ verb # "PUT")}])

(* GET for everything and hyperslabs, POST for a selection of points.      *)
RV_dataset_read(o) ==
  /\ Usable(o) /\ heap[o].kind = "dataset"
  /\ \E verb \in {"GET", "POST"} : Plain(Transfer(Begin, verb, Dom(o)))

RV_dataset_write(o) ==
  /\ Usable(o) /\ heap[o].kind = "dataset"
  /\ Plain(Then(WriteIntent(Begin, Dom(o)), LAMBDA s : Transfer(s, "PUT", Dom(o))))

(* H5VL_DATASET_GET_STORAGE_SIZE flushes the file before it asks.          *)
RV_dataset_get_storage_size(o) ==
  /\ Callable(o, {"dataset"})
  /\ Plain(Then(Flush(Begin, Dom(o)), LAMBDA s : Query(s, Dom(o))))

(* The other questions are answered from the structure.                    *)
RV_dataset_get(o) ==
  /\ Usable(o) /\ heap[o].kind = "dataset"
  /\ Plain(Then(MayFail(Begin), LAMBDA s : {NoHeaders(s)}))

(* H5VL_DATASET_SET_EXTENT: the shape is checked against the maximum and   *)
(* the layout before the server is asked to change it.                     *)
RV_dataset_specific_set_extent(o) ==
  LET f == Dom(o)
  IN /\ Callable(o, {"dataset"})
     /\ Plain(Then(Then(WriteIntent(Begin, f), MayFail),
                   LAMBDA s : Store(s, f)))

RV_dataset_close(o) == Closes(o, "dataset")

-----------------------------------------------------------------------------
(* Committed datatypes.                                                    *)

RV_datatype_commit(o) ==
  LET f == Dom(o)
      Create(t) == Then(MayFind(Retain(t, f), f), LAMBDA u : PostNew(u, "datatype", f))
  IN /\ Callable(o, Containers)
     /\ Opens(Then(WriteIntent(Begin, f), Create))

RV_datatype_open(o) ==
  /\ Callable(o, Containers)
  /\ Opens(OpenLoc(Begin, "datatype", Dom(o)))

(* Answered from the structure.                                            *)
RV_datatype_get(o) ==
  /\ Usable(o) /\ heap[o].kind = "datatype"
  /\ Plain(MayFail(Begin))

RV_datatype_close(o) == Closes(o, "datatype")
==============================================================================
