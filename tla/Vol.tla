--------------------------------- MODULE Vol ---------------------------------
(***************************************************************************)
(* The VOL connector as the application sees it: any callback, in any      *)
(* order, each of them with any of its outcomes.                           *)
(***************************************************************************)
EXTENDS VolFile, VolGroup, VolDataset, VolLink, VolObject, VolAttr

Init == SessionInit

FileCalls(o) ==
  \/ RV_file_get(o)
  \/ RV_file_specific_flush(o)
  \/ RV_file_specific_reopen(o)
  \/ CloseFile(o)

GroupCalls(o) ==
  \/ RV_group_create(o)
  \/ RV_group_create_intermediate(o)
  \/ RV_group_open(o)
  \/ RV_group_get_info(o)
  \/ RV_group_get_info_by_name(o)
  \/ RV_group_get_gcpl(o)
  \/ RV_group_close(o)

DatasetCalls(o) ==
  \/ RV_dataset_create(o)
  \/ RV_dataset_open(o)
  \/ RV_dataset_read(o)
  \/ RV_dataset_write(o)
  \/ RV_dataset_get_storage_size(o)
  \/ RV_dataset_get(o)
  \/ RV_dataset_specific_set_extent(o)
  \/ RV_dataset_close(o)

DatatypeCalls(o) ==
  \/ RV_datatype_commit(o)
  \/ RV_datatype_open(o)
  \/ RV_datatype_get(o)
  \/ RV_datatype_close(o)

LinkCalls(o) ==
  \/ \E t \in Slots : RV_link_create_hard(o, t)
  \/ RV_link_create_soft(o)
  \/ RV_link_get_info(o)
  \/ RV_link_get_name(o)
  \/ RV_link_get_val(o)
  \/ RV_link_specific_delete(o)
  \/ RV_link_specific_exists(o)
  \/ RV_link_specific_iter(o)

ObjectCalls(o) ==
  \/ RV_object_open(o)
  \/ RV_object_get_name(o)
  \/ RV_object_get_info(o)
  \/ RV_object_get_info_by_name(o)
  \/ RV_object_get_info_by_idx(o)
  \/ RV_object_specific_visit(o)

AttrCalls(o) ==
  \/ RV_attr_create(o)
  \/ RV_attr_open(o)
  \/ RV_attr_read(o)
  \/ RV_attr_write(o)
  \/ RV_attr_get_info(o)
  \/ RV_attr_get_info_by_name(o)
  \/ RV_attr_get_name_by_idx(o)
  \/ RV_attr_get(o)
  \/ RV_attr_specific_delete_by_idx(o)
  \/ RV_attr_specific_delete(o)
  \/ RV_attr_specific_exists(o)
  \/ RV_attr_specific_rename(o)
  \/ RV_attr_specific_rename_by_name(o)
  \/ RV_attr_specific_iter(o)
  \/ RV_attr_close(o)

(* What happens around the application's function in an iteration.         *)
IterSteps ==
  \/ RV_traverse_link_table
  \/ RV_link_iter_callback_fails
  \/ RV_object_visit_links
  \/ RV_traverse_object_table
  \/ RV_object_iter_callback_fails
  \/ RV_traverse_attr_table
  \/ RV_attr_iter_callback_fails

Next ==
  \/ \E n \in Names :
       \/ RV_file_create(n)
       \/ \E w \in BOOLEAN : RV_file_open(n, w)
       \/ RV_file_specific_is_accessible(n)
       \/ RV_file_specific_delete(n)
  \/ \E o \in Slots :
       \/ FileCalls(o)
       \/ GroupCalls(o)
       \/ DatasetCalls(o)
       \/ DatatypeCalls(o)
       \/ LinkCalls(o)
       \/ ObjectCalls(o)
       \/ AttrCalls(o)
  \/ IterSteps

Spec == Init /\ [][Next]_vars

-----------------------------------------------------------------------------

Methods == {"GET", "PUT", "POST", "DELETE"}

(* The structures, the handle and the requests are well formed.            *)
TypeOK ==
  /\ curl \in [base : Methods \ {"DELETE"}, body : {"none", "own", "old"}, custom : BOOLEAN]
  /\ headers \subseteq Names
  /\ heap \in [Slots -> Struct]
  /\ open \subseteq Slots
  /\ iter.at \in Slots \cup {NoSlot}
  /\ \A r \in sent : r.verb \in Methods /\ r.meant \in Methods /\ r.hosts \subseteq Names
  /\ ok \in BOOLEAN /\ failed \in BOOLEAN /\ rehomed \in BOOLEAN

Files == {f \in Slots : heap[f].kind = "file"}

(* The structures that point at the file f.                                *)
Held(f) == {p \in Slots : heap[p].kind \in Objects /\ heap[p].dom = f}

Users(f) == Cardinality(Held(f)) + Cardinality({f} \cap open)

(* No structure the application holds is freed, no file is freed while an  *)
(* object still points at it, and no file has fewer references than users, *)
(* whichever calls have failed.  (RV_group_get by name is the exception:   *)
(* it moves its location to a file it has not counted.)                    *)
RefsCover ==
  ~rehomed =>
    /\ \A p \in open : Live(heap, p)
    /\ \A p \in Slots : heap[p].kind \in Objects => heap[p].dom \in Files
    /\ \A f \in Files : heap[f].ref >= Users(f)

(* As long as no call has failed every reference is accounted for: the     *)
(* file goes away with its last user.                                      *)
RefsExact ==
  ~failed /\ ~rehomed => \A f \in Files : heap[f].ref = Users(f) /\ Users(f) > 0

(* Until a call has failed every request has the verb its callback meant;   *)
(* only a DELETE, which sets no base verb, may carry the body of an earlier *)
(* request; and outside an iteration the one domain it names is the         *)
(* callback's.  (Inside, that of the iteration may stand beside it.)        *)
AsMeant ==
  [][~failed => \A r \in sent' : /\ r.verb = r.meant
                                 /\ r.body = "old" => r.verb = "DELETE"
                                 /\ iter = NoIter => r.hosts = {r.to}]_vars

(* Whatever earlier failures left in the header list, a call that succeeds *)
(* adds nothing to it: the list is freed, or was not the call's to touch.  *)
ListRecovers ==
  [][ok' /\ iter' = NoIter => headers' \in {{}, headers}]_vars

(* Data and metadata are only stored through a file opened for writing.    *)
IntentKept ==
  [][\A r \in sent' : r.meant \in {"PUT", "POST"} => r.rw]_vars

(* Violated: the custom request is meant to be reset "to prevent issues    *)
(* with future requests" (rest_vol_file.c), yet a failed DELETE leaves it  *)
(* set, and the next request, whatever it is, is a DELETE.                 *)
NoStrayDelete ==
  \A r \in sent : r.verb = "DELETE" => r.meant = "DELETE"
==============================================================================
