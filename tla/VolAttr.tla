------------------------------- MODULE VolAttr -------------------------------
(***************************************************************************)
(* The attribute callbacks (rest_vol_attr.c).  An attribute is in its      *)
(* parent's domain: a lookup of the parent by name does not follow the     *)
(* domain it finds.                                                        *)
(***************************************************************************)
EXTENDS VolIter

(* An attribute given by its index in the list of a named object.          *)
Indexed(s, f) == Then(Find(s, f), LAMBDA t : Query(t, f))

(* RV_attr_create and RV_attr_open of an attribute of the location itself. *)
CreateAttr(s, f) ==
  Then(WriteIntent(s, f), LAMBDA t : Then(Store(Retain(t, f), f), MayFail))

OpenAttr(s, f) == Query(Retain(s, f), f)

RV_attr_create(o) ==
  LET f == Dom(o)
      Put(s) == Then(Then(MayFind(Retain(s, f), f), LAMBDA t : Store(t, f)), MayFail)
  IN /\ Callable(o, Attributed)
     /\ Opens(Then(Then(WriteIntent(Begin, f), Put),
                   LAMBDA s : NewObject(s, "attr", f)))

(* By name, or by index; the index's "." needs no lookup.                  *)
RV_attr_open(o) ==
  LET f == Dom(o)
      Ask(s)    == Query(s, f)
      Located   == MayFind(Retain(Begin, f), f)
  IN /\ Callable(o, Attributed)
     /\ Opens(Then(Then(Located \cup Then(Located, Ask), Ask),
                   LAMBDA s : NewObject(s, "attr", f)))

RV_attr_read(o) ==
  /\ Callable(o, {"attr"})
  /\ Plain(Query(Begin, Dom(o)))

(* Mutant of RV_attr_write: the file's intent is not looked at.            *)
AttrWriteAnyway(o) ==
  /\ Callable(o, {"attr"})
  /\ Plain(Store(Begin, Dom(o)))

RV_attr_write(o) ==
  /\ Callable(o, {"attr"})
  /\ Plain(Then(WriteIntent(Begin, Dom(o)), LAMBDA s : Store(s, Dom(o))))

(* H5VL_ATTR_GET_INFO of the attribute itself ...                          *)
RV_attr_get_info(o) ==
  /\ Callable(o, {"attr"})
  /\ Plain(Query(Begin, Dom(o)))

(* ... and of an attribute of a named object, by name or by index.         *)
RV_attr_get_info_by_name(o) ==
  LET f == Dom(o)
  IN /\ Callable(o, Attributed)
     /\ Plain(Then(Find(Begin, f) \cup Indexed(Begin, f), LAMBDA s : Query(s, f)))

(* H5VL_ATTR_GET_NAME by index.                                            *)
RV_attr_get_name_by_idx(o) ==
  /\ Callable(o, Attributed)
  /\ Plain(Indexed(Begin, Dom(o)))

(* Property list, space, type and own name are local.                      *)
RV_attr_get(o) ==
  /\ Usable(o) /\ heap[o].kind = "attr"
  /\ Plain(Then(MayFail(Begin), LAMBDA s : {NoHeaders(s)}))

(* H5VL_ATTR_DELETE_BY_IDX: no check of the intent.                        *)
RV_attr_specific_delete_by_idx(o) ==
  LET f == Dom(o)
  IN /\ Callable(o, Attributed)
     /\ Plain(Then(Then(Indexed(Begin, f), LAMBDA s : Find(s, f)),
                   LAMBDA s : Remove(s, f)))

(* H5VL_ATTR_DELETE                                                        *)
RV_attr_specific_delete(o) ==
  LET f == Dom(o)
  IN /\ Callable(o, Attributed)
     /\ Plain(Then(Then(WriteIntent(Begin, f), LAMBDA s : MayFind(s, f)),
                   LAMBDA s : Remove(s, f)))

(* H5VL_ATTR_EXISTS: the HTTP code is the answer.                          *)
RV_attr_specific_exists(o) ==
  LET Ask(s) == Then(Request(s, "GET", Dom(o)), LAMBDA t : {NoCustom(NoHeaders(t))})
  IN /\ Callable(o, Attributed)
     /\ Plain(Then(MayFind(Begin, Dom(o)), Ask))

(* H5VL_ATTR_RENAME: open the old one, create the new one, copy the value, *)
(* close the old one, delete it, close the new one; p is the domain of the *)
(* parent, f that of the location.                                         *)
Rename(s, p, f) ==
  LET New(t)    == CreateAttr(t, p)
      Copy(t)   == Then(Query(t, p), LAMBDA u : Store(u, p))
      Delete(t) == Remove(RV_file_close(t, p), f)
      Close(t)  == {RV_file_close(t, p)}
  IN Then(Then(Then(Then(OpenAttr(s, p), New), Copy), Delete), Close)

RV_attr_specific_rename(o) ==
  /\ Callable(o, Attributed) /\ heap[Dom(o)].ref + 1 < MaxRef
  /\ Plain(Rename(Begin, Dom(o), Dom(o)))

(* By name the parent is looked up and opened for the time of the call; a  *)
(* datatype is reported as a failure although it is closed.                *)
RV_attr_specific_rename_by_name(o) ==
  LET f == Dom(o)
      Opened(s)  == FindLoc(Retain(s, f), f)
      Renamed(s) == Then(Rename(s, s.got, f), LAMBDA t : MayFail(RV_file_close(t, s.got)))
  IN /\ Callable(o, Containers) /\ heap[f].ref + 2 < MaxRef
     /\ Plain(Then(Then(Find(Begin, f), Opened), Renamed))

(* H5VL_ATTR_ITER of the location itself: a copy of its structure is given *)
(* to the application's function, counted unless it is a file.             *)
IterSelf(s, o) ==
  LET f == Dom(o)
  IN IF heap[o].kind = "file"
       THEN Request(s, "GET", f)
       ELSE Then(Request(Retain(s, f), "GET", f), LAMBDA t : NewObject(t, heap[o].kind, f))

(* ... and by name: opened where it is found, asked for in the location's  *)
(* domain.                                                                 *)
IterNamed(s, o) ==
  LET f == Dom(o)
      Ask(t) == Then(Request(t, "GET", f), LAMBDA u :
                  UNION {NewObject(u, k, u.got) : k \in {"group", "dataset", "datatype"}})
  IN Then(Then(Find(s, f), LAMBDA t : FindLoc(Retain(t, f), f)), Ask)

RV_attr_specific_iter(o) ==
  /\ Callable(o, Attributed)
  /\ Starts("attr", IterSelf(Begin, o) \cup IterNamed(Begin, o), Dom(o))

RV_traverse_attr_table ==
  Finishes("attr", LAMBDA s : NoHeaders(NoCustom(s)))

RV_attr_iter_callback_fails == Aborts("attr")

RV_attr_close(o) == Closes(o, "attr")
==============================================================================
