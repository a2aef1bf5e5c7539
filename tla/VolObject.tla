------------------------------ MODULE VolObject ------------------------------
(***************************************************************************)
(* The object callbacks (rest_vol_object.c).                               *)
(***************************************************************************)
EXTENDS VolIter

(* The type of the object is looked up first, then the open callback of    *)
(* that type looks the object up again.                                    *)
RV_object_open(o) ==
  LET f == Dom(o)
  IN /\ Callable(o, Containers)
     /\ Opens(Then(Find(Begin, f), LAMBDA s :
                UNION {OpenLoc(s, k, f) : k \in {"group", "dataset", "datatype"}}))

(* RV_object_get counts the location's domain before anything else and     *)
(* closes whatever domain it ends up with.                                 *)
ObjectInfo(s) ==
  Then(Query(s, s.got), LAMBDA t : {RV_file_close(t, t.got)})

(* H5VL_OBJECT_GET_NAME, and the requests it refuses.                      *)
RV_object_get_name(o) ==
  /\ Callable(o, Attributed)
  /\ Plain(Then(MayFail(Retain(Begin, Dom(o))),
                LAMBDA s : {RV_file_close(NoHeaders(s), Dom(o))}))

(* H5VL_OBJECT_GET_INFO of the location itself.                            *)
RV_object_get_info(o) ==
  /\ Callable(o, Attributed)
  /\ Plain(ObjectInfo([Retain(Begin, Dom(o)) EXCEPT !.got = Dom(o)]))

(* H5VL_OBJECT_GET_INFO by name.                                           *)
RV_object_get_info_by_name(o) ==
  /\ Callable(o, Attributed)
  /\ Plain(Then(FindLoc(Retain(Begin, Dom(o)), Dom(o)), ObjectInfo))

(* H5VL_OBJECT_GET_INFO by index: the group, its links, the object; both   *)
(* lookups start at the location and replace the same loc_info.            *)
RV_object_get_info_by_idx(o) ==
  LET f == Dom(o)
      Again(s) == Then(Find(s, f), LAMBDA t : LocInfo(t, t.got))
  IN /\ Callable(o, Containers)
     /\ Plain(Then(Then(Then(FindLoc(Retain(Begin, f), f), LAMBDA s : Query(s, f)),
                        Again), ObjectInfo))

(* H5VL_OBJECT_VISIT of the location itself: a copy of its structure is    *)
(* iterated over, counted unless it is a file.                             *)
VisitSelf(s, o) ==
  LET f == Dom(o)
  IN IF heap[o].kind = "file"
       THEN Query(s, f)
       ELSE Then(Query(Retain(s, f), f), LAMBDA t : NewObject(t, heap[o].kind, f))

(* ... and by name: looked up, then opened by the callback of its type.    *)
VisitNamed(s, o) ==
  LET f == Dom(o)
      Info(k, t) == Then(Query(t, t.got), LAMBDA u : NewObject(u, k, t.got))
      Opened(t)  == Then(FindLoc(Retain(t, f), f), LAMBDA u :
                      UNION {Info(k, u) : k \in {"group", "dataset", "datatype"}})
  IN Then(Find(s, f), Opened)

RV_object_specific_visit(o) ==
  /\ Callable(o, Attributed)
  /\ Starts("visit", VisitSelf(Begin, o) \cup VisitNamed(Begin, o), Dom(o))

(* RV_build_object_table: each link's target is looked up, and the links   *)
(* of a subgroup are asked for.                                            *)
RV_build_object_table(s, f) ==
  {s} \cup Then(Find(s, f), LAMBDA t : {t} \cup Query(t, f))

(* After the application's function has seen the object itself: the links  *)
(* of a group or file are asked for, with the host header made before.     *)
RV_object_visit_links ==
  LET Ask(s) == Perform(SetOpt(Host(s, iter.host), "GET"), "GET", iter.host, TRUE)
      Table(s) == RV_build_object_table(NoHeaders(s), iter.dom)
      lost(s) == IF iter.at = NoSlot \/ s.ok THEN s
                                             ELSE [s EXCEPT !.heap[iter.at] = Freed]
  IN /\ iter.kind = "visit" /\ iter.phase = 1
     /\ iter.at # NoSlot => heap[iter.at].kind = "group"
     /\ Live(heap, iter.dom)
     /\ \E s \in Then(Ask(Begin), Table) :
          /\ Return(lost(s))
          /\ iter' = IF s.ok THEN [iter EXCEPT !.phase = 2] ELSE NoIter
     /\ UNCHANGED <<open, rehomed>>

(* The end of the visit: no header is left to free, no custom request is   *)
(* reset.                                                                  *)
RV_traverse_object_table ==
  Finishes("visit", LAMBDA s : s)

RV_object_iter_callback_fails == Aborts("visit")
==============================================================================
