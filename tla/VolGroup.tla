------------------------------- MODULE VolGroup ------------------------------
(***************************************************************************)
(* The group callbacks (rest_vol_group.c).                                 *)
(***************************************************************************)
EXTENDS Session

(* One group: its parent's domain is counted, and the group is created     *)
(* under the parent or under the group its name's directory part finds.    *)
CreateGroup(s, f) ==
  LET Create(t) == Then(MayFind(Retain(t, f), f), LAMBDA u : PostNew(u, "group", f))
  IN Then(WriteIntent(s, f), Create)

(* With H5Pset_create_intermediate_group: when the directory part is not   *)
(* found it is created and closed again (here one level deep; the code     *)
(* calls itself); the second lookup's result is not looked at.             *)
CreateIntermediate(s, f) ==
  LET Sub(t)   == CreateGroup([t EXCEPT !.ok = TRUE], f)
      Again(t) == {[u EXCEPT !.ok = TRUE] : u \in Find(t, f)}
      Close(t) == {RV_file_close([t EXCEPT !.heap[t.got] = Freed], f)}
      Missing  == {t \in Find(Retain(s, f), f) : ~t.ok}
      Made     == Then(Then(UNION {Sub(t) : t \in Missing}, Again), Close)
  IN Then(Made, LAMBDA t : PostNew(t, "group", f))

RV_group_create(o) ==
  /\ Callable(o, Containers)
  /\ Opens(CreateGroup(Begin, Dom(o)))

RV_group_create_intermediate(o) ==
  /\ Callable(o, Containers)
  /\ heap[Dom(o)].rw /\ heap[Dom(o)].ref + 1 < MaxRef
  /\ Opens(CreateIntermediate(Begin, Dom(o)))

RV_group_open(o) ==
  /\ Callable(o, Containers)
  /\ Opens(OpenLoc(Begin, "group", Dom(o)))

(* H5VL_GROUP_GET_INFO of the location itself.                             *)
RV_group_get_info(o) ==
  /\ Callable(o, Containers)
  /\ Plain(Query(Begin, Dom(o)))

(* H5VL_GROUP_GET_INFO by name: the lookup is given the location's own     *)
(* domain, uncounted, and what it finds becomes the location's domain.     *)
RV_group_get_info_by_name(o) ==
  LET Move(s) == {[s EXCEPT !.heap[o].dom = IF Live(s.heap, o) THEN s.got ELSE @]}
      Info(s) == Query(s, s.got)
  IN /\ Callable(o, Containers)
     /\ \E s \in Then(Then(FindLoc(Begin, Dom(o)), Move), Info) :
          /\ Return(s)
          /\ rehomed' = (rehomed \/ s.heap # heap)
     /\ UNCHANGED <<open, iter>>

(* H5VL_GROUP_GET_GCPL is answered locally; its clean-up frees the list.   *)
RV_group_get_gcpl(o) ==
  /\ Usable(o) /\ heap[o].kind = "group"
  /\ Plain(Then(MayFail(Begin), LAMBDA s : {NoHeaders(s)}))

RV_group_close(o) == Closes(o, "group")
==============================================================================
