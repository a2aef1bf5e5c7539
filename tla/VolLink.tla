------------------------------- MODULE VolLink -------------------------------
(***************************************************************************)
(* The link callbacks (rest_vol_link.c).                                   *)
(***************************************************************************)
EXTENDS VolIter

(* Hard links need the target's URI, by name a lookup, and only reach      *)
(* objects of a file of the same name; soft and external links are values. *)
RV_link_create_hard(o, t) ==
  LET f == Dom(o)
      Same(s)   == IF heap[Dom(t)].name = heap[f].name THEN {s} ELSE {Error(s)}
      Target(s) == MayFind(s, Dom(t))
  IN /\ Callable(o, Containers) /\ Usable(t)
     /\ Plain(Then(Then(Then(WriteIntent(Begin, f), Same), Target),
                   LAMBDA s : Store(s, f)))

RV_link_create_soft(o) ==
  /\ Callable(o, Containers)
  /\ Plain(Then(Then(WriteIntent(Begin, Dom(o)), MayFail),
                LAMBDA s : Store(s, Dom(o))))

(* H5VL_LINK_GET_INFO: by name, with a lookup of the directory part.       *)
RV_link_get_info(o) ==
  /\ Callable(o, Containers)
  /\ Plain(Then(MayFind(Begin, Dom(o)), LAMBDA s : Query(s, Dom(o))))

(* H5VL_LINK_GET_NAME: by index in a group that is always looked up.       *)
RV_link_get_name(o) ==
  /\ Callable(o, Containers)
  /\ Plain(Then(Find(Begin, Dom(o)), LAMBDA s : Query(s, Dom(o))))

(* H5VL_LINK_GET_VAL                                                       *)
RV_link_get_val(o) ==
  /\ Callable(o, Containers)
  /\ Plain(Then(MayFind(Begin, Dom(o)), LAMBDA s : Query(s, Dom(o))))

(* H5VL_LINK_DELETE: no check of the intent, and no base verb is set.      *)
RV_link_specific_delete(o) ==
  /\ Callable(o, Containers)
  /\ Plain(Then(MayFind(Begin, Dom(o)), LAMBDA s : Remove(s, Dom(o))))

(* H5VL_LINK_EXISTS: the HTTP code is the answer.                          *)
RV_link_specific_exists(o) ==
  LET Ask(s) == Then(Request(s, "GET", Dom(o)), LAMBDA t : {NoCustom(NoHeaders(t))})
  IN /\ Callable(o, Containers)
     /\ Plain(Then(MayFind(Begin, Dom(o)), Ask))

(* RV_build_link_table: a recursive visit asks for the links of each       *)
(* subgroup with nothing but the URL changed.                              *)
RV_build_link_table(s, f) ==
  {s} \cup Perform(s, "GET", s.heap[f].name, s.heap[f].rw)

(* H5VL_LINK_ITER: a group is opened to iterate over, its links are asked  *)
(* for in the domain of the location, and the headers stay in place while  *)
(* RV_traverse_link_table runs the application's function.                 *)
RV_link_specific_iter(o) ==
  LET f == Dom(o)
      Links(s) == Then(Then(Request(s, "GET", f), LAMBDA t : RV_build_link_table(t, f)),
                       LAMBDA t : NewObject(t, "group", t.got))
  IN /\ Callable(o, Containers)
     /\ Starts("link", Then(FindLoc(Retain(Begin, f), f), Links), f)

RV_traverse_link_table ==
  Finishes("link", LAMBDA s : NoHeaders(NoCustom(s)))

RV_link_iter_callback_fails == Aborts("link")
==============================================================================
