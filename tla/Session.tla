------------------------------- MODULE Session -------------------------------
(***************************************************************************)
(* What every callback of the VOL connector works on: the one libcurl      *)
(* handle of the process, the global list of HTTP headers, and the         *)
(* RV_object_t structures, in which every object points at the structure   *)
(* of its file (its domain) and the file counts the pointers.              *)
(*                                                                         *)
(* The connector runs under the library's lock, so a callback is one       *)
(* step.  What makes it hard is that a callback is a sequence of effects   *)
(* with an error exit after each request, and FUNC_GOTO_ERROR returns from *)
(* the function: the clean-up behind "done:" only runs on success.  A call *)
(* is therefore the set of sessions it may end in: an operator takes a     *)
(* session to the set of its outcomes, and Then stops at a failed one.     *)
(***************************************************************************)
EXTENDS Naturals, FiniteSets

CONSTANTS
  Slots,      \* the addresses of RV_object_t structures
  Names,      \* the domain names files are known by
  MaxRef      \* bound on a file's reference count

VARIABLES
  curl,       \* the options of the global easy handle
  headers,    \* curl_headers: the domains its X-Hdf-domain entries name
  heap,       \* the structure at each address
  open,       \* the structures the application holds an identifier of
  iter,       \* the iteration whose user callback is running, if any
  sent,       \* the requests of the latest call
  ok,         \* whether the latest call succeeded
  failed,     \* some call has failed
  rehomed     \* some call has moved the location it was given

vars == <<curl, headers, heap, open, iter, sent, ok, failed, rehomed>>

NoSlot == "no slot"
NoName == "no name"

ASSUME SessionAssumption ==
  /\ IsFiniteSet(Slots) /\ IsFiniteSet(Names)
  /\ MaxRef \in Nat \ {0}
  /\ NoSlot \notin Slots     \* the address NULL
NoIter == [kind |-> "none", at |-> NoSlot, dom |-> NoSlot, host |-> NoName, phase |-> 0]

Objects == {"group", "dataset", "datatype", "attr"}

(* An RV_object_t; of the file part only what the other parts read.        *)
Struct == [kind : Objects \cup {"file", "free"},
           dom  : Slots \cup {NoSlot},
           name : Names \cup {NoName},
           ref  : 0 .. MaxRef,
           rw   : BOOLEAN]

Freed == [kind |-> "free", dom |-> NoSlot, name |-> NoName, ref |-> 0, rw |-> FALSE]

(* Mutant of FileStruct: nobody sets the first reference.                  *)
FileUncounted(f, n, w) ==
  [kind |-> "file", dom |-> f, name |-> n, ref |-> 0, rw |-> w]

(* A file structure is its own domain and starts with one reference.       *)
FileStruct(f, n, w) ==
  [kind |-> "file", dom |-> f, name |-> n, ref |-> 1, rw |-> w]

ObjStruct(k, f) ==
  [kind |-> k, dom |-> f, name |-> NoName, ref |-> 0, rw |-> FALSE]

Live(h, p) == h[p].kind # "free"

(* Free memory.  An address that somebody still points at is not handed    *)
(* out again, so that a dangling pointer stays one.                        *)
FreeSlots(h) ==
  {p \in Slots : /\ ~Live(h, p) /\ p \notin open
                 /\ \A q \in Slots : h[q].dom # p}

-----------------------------------------------------------------------------
(* The session inside a call, and how outcomes are chained.                *)

Begin == [curl |-> curl, headers |-> headers, heap |-> heap,
          sent |-> {}, ok |-> TRUE, got |-> NoSlot]

(* FUNC_GOTO_ERROR: the session as it is at this point is what is left.    *)
Error(s) == [s EXCEPT !.ok = FALSE]

Then(S, Op(_)) ==
  {s \in S : ~s.ok} \cup UNION {Op(s) : s \in {t \in S : t.ok}}

(* The last line of a call: its outcome becomes the state.  A body that    *)
(* the call handed to libcurl is gone once the call has returned.          *)
Return(s) ==
  /\ curl' = [s.curl EXCEPT !.body = IF @ = "own" THEN "old" ELSE @]
  /\ headers' = s.headers
  /\ heap' = s.heap
  /\ sent' = s.sent
  /\ ok' = s.ok
  /\ failed' = (failed \/ ~s.ok)

-----------------------------------------------------------------------------
(* libcurl, as the callbacks use it: the verb the options ask for, which   *)
(* CURLOPT_CUSTOMREQUEST overrides until it is set to NULL.                *)

SetOpt(s, verb) ==
  CASE verb = "GET"    -> [s EXCEPT !.curl.base = "GET",  !.curl.body = "none"]
    [] verb = "PUT"    -> [s EXCEPT !.curl.base = "PUT",  !.curl.body = "own"]
    [] verb = "FLUSH"  -> [s EXCEPT !.curl.base = "PUT",  !.curl.body = "none"]
    [] verb = "POST"   -> [s EXCEPT !.curl.base = "POST", !.curl.body = "own"]
    [] verb = "DELETE" -> [s EXCEPT !.curl.custom = TRUE]

NoCustom(s) == [s EXCEPT !.curl.custom = FALSE]
NoUpload(s) == [s EXCEPT !.curl.base = "GET", !.curl.body = "none"]
NoHeaders(s) == [s EXCEPT !.headers = {}]

(* The X-Hdf-domain header of every request is the name of a domain.       *)
Host(s, n) == [s EXCEPT !.headers = @ \cup {n}]

Wire(s, verb, n, w) ==
  [verb  |-> IF s.curl.custom THEN "DELETE" ELSE s.curl.base,
   meant |-> IF verb = "FLUSH" THEN "PUT" ELSE verb,
   hosts |-> s.headers,
   to    |-> n,
   body  |-> s.curl.body,
   rw    |-> w]

(* CURL_PERFORM: the request goes out, and either the answer is one of     *)
(* the 2xx codes or the callback returns here.                             *)
Perform(s, verb, n, w) ==
  LET t == [s EXCEPT !.sent = @ \cup {Wire(s, verb, n, w)}]
  IN {t, Error(t)}

(* What every callback does for a request about the domain in slot f.  A   *)
(* flush stores nothing, so it needs no write intent.                      *)
Request(s, verb, f) ==
  Perform(SetOpt(Host(s, s.heap[f].name), verb), verb,
          s.heap[f].name, s.heap[f].rw \/ verb = "FLUSH")

(* An answer that does not parse, or a local step that fails, after it.    *)
MayFail(s) == {s, Error(s)}

(* A GET, a PUT and a DELETE with the clean-up that follows their success. *)
Query(s, f) ==
  Then(Then(Request(s, "GET", f), MayFail), LAMBDA t : {NoHeaders(t)})

(* Mutant of Store: the header list is not freed.                          *)
StoreKeepsHeaders(s, f) ==
  Then(Request(s, "PUT", f), LAMBDA t : {NoUpload(t)})

Store(s, f) ==
  Then(Request(s, "PUT", f), LAMBDA t : {NoHeaders(NoUpload(t))})

(* Mutant of Remove: the custom request is not reset.                      *)
RemoveKeepsCustom(s, f) ==
  Then(Request(s, "DELETE", f), LAMBDA t : {NoHeaders(t)})

Remove(s, f) ==
  Then(Request(s, "DELETE", f), LAMBDA t : {NoHeaders(NoCustom(t))})

(* H5VL_FILE_FLUSH: an empty PUT; any code but 204 fails the call, and     *)
(* CURLOPT_UPLOAD stays set.                                               *)
Flush(s, f) ==
  Then(Request(s, "FLUSH", f), LAMBDA t : {NoCustom(NoHeaders(t)), Error(t)})

-----------------------------------------------------------------------------
(* References to files.                                                    *)

Retain(s, f) == [s EXCEPT !.heap[f].ref = @ + 1]

RV_file_close(s, f) ==
  IF s.heap[f].ref = 1 THEN [s EXCEPT !.heap[f] = Freed]
                       ELSE [s EXCEPT !.heap[f].ref = @ - 1]

(* The structure of a file at a free address.                              *)
FileAt(s, d, n, w) == [s EXCEPT !.heap[d] = FileStruct(d, n, w), !.got = d]

(* "no write intent on file"                                               *)
WriteIntent(s, f) == IF s.heap[f].rw THEN {s} ELSE {Error(s)}

(* The structure of the object that a create or open callback returns.     *)
NewObject(s, k, f) ==
  {[s EXCEPT !.heap[q] = ObjStruct(k, f), !.got = q] : q \in FreeSlots(s.heap)}

-----------------------------------------------------------------------------
(* RV_find_object_by_path.  The answer names the object found and its      *)
(* domain; the header list is freed as soon as it is there.                *)

Find(s, f) ==
  Then(Request(s, "GET", f), LAMBDA t : MayFail(NoHeaders(t)))

(* Mutant of LocInfo: the domain that is replaced is not closed.           *)
LocInfoKeepsOld(s, f) ==
  MayFail([s EXCEPT !.got = f]) \cup
  {FileAt(s, d, n, s.heap[f].rw) :
     d \in FreeSlots(s.heap), n \in Names \ {s.heap[f].name}}

(* RV_copy_object_loc_info_callback: when the object lives in another      *)
(* domain (the path crossed an external link) that domain gets a structure *)
(* with one reference and replaces the one in loc_info, which is closed.   *)
(* It may fail before that, and it or its caller may fail after that; the  *)
(* structure of the new domain is then out of everyone's reach.            *)
LocInfo(s, f) ==
  MayFail([s EXCEPT !.got = f]) \cup
  (IF Names = {s.heap[f].name} THEN {} ELSE {Error(RV_file_close(s, f))}) \cup
  {FileAt(RV_file_close(s, f), d, n, s.heap[f].rw) :
     d \in FreeSlots(s.heap), n \in Names \ {s.heap[f].name}}

FindLoc(s, f) == Then(Find(s, f), LAMBDA t : LocInfo(t, f))

(* A lookup that is only made when the name has a directory part.          *)
MayFind(s, f) == {s} \cup Find(s, f)

-----------------------------------------------------------------------------
(* Who may be called.                                                      *)

(* A location the application may name in a call: held, and not freed.     *)
Usable(o) ==
  /\ ~rehomed /\ o \in open
  /\ Live(heap, o) /\ Live(heap, heap[o].dom)

Dom(o) == heap[o].dom

(* The bounds: a slot for the result, a reference to spare.                *)
Room(o) ==
  /\ FreeSlots(heap) # {}
  /\ heap[Dom(o)].ref < MaxRef

Callable(o, kinds) == Usable(o) /\ heap[o].kind \in kinds /\ Room(o)

Containers == {"file", "group"}
Attributed == {"file", "group", "dataset", "datatype"}

(* A call that returns no object.                                          *)
Plain(S) == (\E s \in S : Return(s)) /\ UNCHANGED <<open, iter, rehomed>>

(* A call that returns one: the application holds it on success.           *)
Opens(S) ==
  /\ \E s \in S : /\ Return(s)
                  /\ open' = IF s.ok THEN open \cup {s.got} ELSE open
  /\ UNCHANGED <<iter, rehomed>>

(* The shape of RV_group_create, RV_dataset_create and RV_datatype_commit. *)
PostNew(s, k, f) ==
  LET Post(t) == Then(Request(t, "POST", f), MayFail)
      New(t)  == NewObject(NoHeaders(t), k, f)
  IN Then(Post(s), New)

(* Mutant of OpenLoc: the parent's domain is not counted.                  *)
OpenLocUncounted(s, k, f) ==
  LET New(t) == NewObject(t, k, t.got)
  IN Then(FindLoc(s, f), New)

(* The shape of RV_group_open, RV_dataset_open and RV_datatype_open: the   *)
(* parent's domain is counted first and replaced by the one that is found. *)
OpenLoc(s, k, f) ==
  LET New(t) == NewObject(t, k, t.got)
  IN Then(FindLoc(Retain(s, f), f), New)

(* The application gives up an object; its structure and its reference go. *)
CloseObj(s, o) ==
  LET f == s.heap[o].dom
      t == [s EXCEPT !.heap[o] = Freed]
  IN IF Live(s.heap, f) THEN RV_file_close(t, f) ELSE t

Closes(o, k) ==
  /\ o \in open /\ heap[o].kind = k
  /\ Return(CloseObj(Begin, o))
  /\ open' = open \ {o}
  /\ UNCHANGED <<iter, rehomed>>

SessionInit ==
  /\ curl = [base |-> "GET", body |-> "none", custom |-> FALSE]
  /\ headers = {}
  /\ heap = [p \in Slots |-> Freed]
  /\ open = {}
  /\ iter = NoIter
  /\ sent = {}
  /\ ok = TRUE
  /\ failed = FALSE
  /\ rehomed = FALSE
==============================================================================
