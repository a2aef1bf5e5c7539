-------------------------------- MODULE Visit --------------------------------
(***************************************************************************)
(* What H5Literate, H5Lvisit and H5Ovisit report to the application:       *)
(* rest_vol_link.c (RV_link_iter_callback, RV_build_link_table,            *)
(* RV_traverse_link_table) and rest_vol_object.c (the same three for       *)
(* objects).  A call first builds a tree of tables, with one request for   *)
(* every group it has not met, then walks the tree and calls the           *)
(* application's function.  The requests, headers and objects of these     *)
(* calls are in Vol; here is what they deliver, over several calls, for    *)
(* what outlives a call is the index the application passes back in and a  *)
(* static variable of each walk, depth.                                    *)
(*                                                                         *)
(* The recursion is an explicit stack: a frame of the building phase is a  *)
(* table and the link it is at, one of the walk a table and last_idx.  A   *)
(* table is named by the group it was built for when a link led there, or  *)
(* Top for the group the application named.                                *)
(***************************************************************************)
EXTENDS Integers, Sequences, FiniteSets, SequencesExt, FiniteSetsExt, Functions

CONSTANTS Groups, Data,   \* the objects of the file
          Start,          \* the group the application names
          Graphs,         \* the link structures considered
          MaxCalls        \* bound: calls the application makes

\* Hard links to groups, hard links to other objects, soft links.
Links == [kind : {"group"}, to : Groups, crt : Nat]
         \union [kind : {"data"}, to : Data, crt : Nat]
         \union [kind : {"soft"}, to : Groups \union Data, crt : Nat]

ASSUME VisitAssumption ==
    /\ IsFiniteSet(Groups)
    /\ Start \in Groups
    /\ Groups \cap Data = {}
    /\ Graphs \subseteq [Groups -> Seq(Links)]

Top  == 0
ASSUME TopAssumption == Top \notin Groups \union Data

Tables == {Top} \union Groups
Ops == {"H5Literate", "H5Lvisit", "H5Ovisit"}
NoCall == [op |-> "none", order |-> "inc", index |-> "name", idx_p |-> FALSE]
Orders  == {"inc", "dec"}
Indexes == {"name", "crt"}

VARIABLES
    graph,     \* the links of each group, in the alphabetical order the server lists them
    call, out, \* the latest call, and "running" or what it returned
    build,     \* its stack of frames of RV_build_..._table, innermost last
    subtable,  \* the entries <<table, i>> that got a subgroup table
    visited_link_table, visited_object_table,
    walk,      \* its stack of frames of RV_traverse_..._table
    depth,     \* the two static variables
    idx,       \* the application's index variable
    series,    \* the order and index type it was last used with
    log,       \* history: entries the function was called for in this call
    stopped,   \* history: it returned a positive value in this call
    covered,   \* history: entries H5Literate has delivered since idx was 0
    calls

vars == <<graph, call, out, build, subtable, visited_link_table, visited_object_table,
          walk, depth, idx, series, log, stopped, covered, calls>>

GroupOf(tbl) == IF tbl = Top THEN Start ELSE tbl
Size(tbl) == Len(graph[GroupOf(tbl)])
Recursive == call.op # "H5Literate"
DepthOf == IF call.op = "H5Ovisit" THEN "object" ELSE "link"

\* The orders qsort may leave a table in: one entry after the other, none
\* created before the one it follows.
ByCreation(links) ==
    {p \in Bijection(DOMAIN links, DOMAIN links) :
        \A i, j \in DOMAIN links : i < j => links[p[i]].crt <= links[p[j]].crt}

\* The entries of a table in the order they are kept in: as listed, or sorted
\* by creation time, in the same way whenever the same table is sorted.
SortedBy(index, links) ==
    IF index = "crt" THEN CHOOSE p \in ByCreation(links) : TRUE
                     ELSE [i \in DOMAIN links |-> i]
Sorted(tbl) == SortedBy(call.index, graph[GroupOf(tbl)])

-----------------------------------------------------------------------------
Init ==
    /\ graph \in Graphs
    /\ call = NoCall
    /\ build = <<>> /\ walk = <<>>
    /\ subtable = {} /\ visited_link_table = {} /\ visited_object_table = {}
    /\ depth = [w \in {"link", "object"} |-> 0]
    /\ idx = 0 /\ series = <<"inc", "name">>
    /\ out = "none"
    /\ log = <<>> /\ stopped = FALSE /\ covered = {}
    /\ calls = 0

Running == out = "running"
Returns(r) == out' = r /\ build' = <<>> /\ walk' = <<>>

\* A call.  H5Literate is given no index, or one that starts over at 0, or,
\* with the same order and index type, the one the latest call left; the
\* visits have none.
Call(op, order, index, how) ==
    /\ ~Running
    /\ calls < MaxCalls
    /\ op = "H5Literate" \/ how = "none"
    /\ how = "again" => series = <<order, index>>
    /\ calls' = calls + 1
    /\ out' = "running" /\ log' = <<>> /\ stopped' = FALSE
    /\ subtable' = {} /\ visited_link_table' = {} /\ visited_object_table' = {}
    /\ call' = [op |-> op, order |-> order, index |-> index, idx_p |-> how # "none"]
    /\ IF how = "zero" THEN idx' = 0 /\ covered' = {} /\ series' = <<order, index>>
                       ELSE UNCHANGED <<idx, covered, series>>
    /\ build' = IF op = "H5Ovisit" THEN <<>> ELSE <<[tbl |-> Top, i |-> 1]>>
    /\ UNCHANGED <<graph, walk, depth>>

-----------------------------------------------------------------------------
(* Building. *)

Frame == Last(build)
Link  == graph[GroupOf(Frame.tbl)][Frame.i]
AtLink == build # <<>> /\ Frame.i <= Size(Frame.tbl)
Advance(stack) == [stack EXCEPT ![Len(stack)].i = @ + 1]

\* Faulty variant: nothing is looked up.
FollowsAlways == Recursive /\ Link.kind = "group"

\* Faulty variant: only the first subgroup is followed.
FollowsFirstOnly == Recursive /\ Link.kind = "group" /\ visited_link_table = {}

\* A hard link to a group that is not in the visited table is followed.
Follows == Recursive /\ Link.kind = "group" /\ Link.to \notin visited_link_table

BuildEntry ==
    /\ AtLink
    /\ IF Follows
       THEN /\ visited_link_table' = visited_link_table \union {Link.to}
            /\ IF Len(graph[Link.to]) = 0
               THEN build' = Advance(build) /\ UNCHANGED subtable
               ELSE /\ build' = Append(Advance(build), [tbl |-> Link.to, i |-> 1])
                    /\ subtable' = subtable \union {<<Frame.tbl, Frame.i>>}
       ELSE build' = Advance(build) /\ UNCHANGED <<visited_link_table, subtable>>
    /\ UNCHANGED <<graph, call, out, visited_object_table, walk, depth, idx, series, log,
                   stopped, covered, calls>>

\* A request fails: for a subgroup's links, or, in H5Ovisit, for the object
\* behind any link.  Every level returns; nothing has been reported but,
\* by H5Ovisit, the start.
BuildFails ==
    /\ AtLink
    /\ Follows \/ call.op = "H5Ovisit"
    /\ Returns("failed")
    /\ UNCHANGED <<graph, call, subtable, visited_link_table, visited_object_table, depth,
                   idx, series, log, stopped, covered, calls>>

\* Faulty variant: the index is taken for that of the last link delivered.
BeginAfter(tbl) == IF call.idx_p THEN idx + 1 ELSE IF call.order = "inc" THEN 0 ELSE Size(tbl) - 1

\* Where a walk of a table begins, given idx_p.
Begin(tbl) == IF call.idx_p THEN idx ELSE IF call.order = "inc" THEN 0 ELSE Size(tbl) - 1

\* A table is finished.  After the outermost the walk begins, if there is
\* anything in it.
TableBuilt ==
    /\ build # <<>>
    /\ Frame.i > Size(Frame.tbl)
    /\ IF Len(build) > 1
       THEN build' = Front(build) /\ UNCHANGED <<walk, out>>
       ELSE IF Size(Top) = 0
       THEN Returns("ok")
       ELSE /\ build' = <<>>
            /\ walk' = <<[tbl |-> Top, at |-> Begin(Top)]>>
            /\ UNCHANGED out
    /\ UNCHANGED <<graph, call, subtable, visited_link_table, visited_object_table, depth,
                   idx, series, log, stopped, covered, calls>>

\* H5Ovisit calls the function for the start before anything else.
ReportStart(r) ==
    /\ Running /\ call.op = "H5Ovisit" /\ log = <<>>
    /\ log' = <<<<Top, 0>>>>
    /\ stopped' = (r > 0)
    /\ IF r = 0 THEN build' = <<[tbl |-> Top, i |-> 1]>> /\ UNCHANGED <<walk, out>>
                ELSE Returns(IF r < 0 THEN "failed" ELSE "ok")
    /\ UNCHANGED <<graph, call, subtable, visited_link_table, visited_object_table, depth, idx,
                   series, covered, calls>>

-----------------------------------------------------------------------------
(* The walk. *)

Here    == Last(walk)
Entry   == Sorted(Here.tbl)[Here.at + 1]
EntryLink == graph[GroupOf(Here.tbl)][Entry]
AtEntry == walk # <<>> /\ Here.at \in 0..(Size(Here.tbl) - 1)

\* The index the loop goes on with; -1 is what follows 0 when decreasing.
NextAt(at) == IF call.order = "inc" THEN at + 1 ELSE at - 1

\* The innermost frame returns ret >= 0 with its last_idx: the index is kept
\* when depth is 0, and the frame above goes on with its next entry.
KeptIndex(last_idx) == IF call.idx_p /\ depth[DepthOf] = 0 THEN last_idx ELSE idx

FrameReturns(stack, last_idx) ==
    IF Len(stack) = 1
    THEN /\ Returns("ok")
         /\ idx' = KeptIndex(last_idx)
         /\ UNCHANGED depth
    ELSE /\ walk' = [Front(stack) EXCEPT ![Len(stack) - 1].at = NextAt(@)]
         /\ depth' = [depth EXCEPT ![DepthOf] = @ - 1]
         /\ UNCHANGED <<build, out, idx>>

Reports == \/ call.op # "H5Ovisit"
           \/ /\ EntryLink.kind # "soft"
              /\ EntryLink.to \notin visited_object_table

\* After the function (if it was due) has returned 0: into the subgroup, or on.
GoesOn ==
    IF <<Here.tbl, Entry>> \in subtable
    THEN /\ walk' = Append(walk, [tbl |-> EntryLink.to, at |-> Begin(EntryLink.to)])
         /\ depth' = [depth EXCEPT ![DepthOf] = @ + 1]
         /\ UNCHANGED <<build, out, idx>>
    ELSE /\ walk' = [walk EXCEPT ![Len(walk)].at = NextAt(@)]
         /\ UNCHANGED <<build, out, idx, depth>>

\* The function is called for an entry.  A negative result is an error at
\* every level, none of which takes its increment of depth back; a positive
\* one ends this table's loop.
Report(r) ==
    /\ AtEntry
    /\ Reports
    /\ log' = Append(log, <<Here.tbl, Entry>>)
    /\ stopped' = (stopped \/ r > 0)
    /\ covered' = IF call.idx_p /\ r >= 0 THEN covered \union {Entry} ELSE covered
    /\ visited_object_table' = IF r = 0 /\ call.op = "H5Ovisit"
                               THEN visited_object_table \union {EntryLink.to}
                               ELSE visited_object_table
    /\ \/ r < 0 /\ Returns("failed") /\ UNCHANGED <<idx, depth>>
       \/ r > 0 /\ FrameReturns(walk, Here.at)
       \/ r = 0 /\ GoesOn
    /\ UNCHANGED <<graph, call, subtable, visited_link_table, series, calls>>

Skips ==
    /\ AtEntry
    /\ ~Reports
    /\ GoesOn
    /\ UNCHANGED <<graph, call, subtable, visited_link_table, visited_object_table, series, log,
                   stopped, covered, calls>>

\* The loop of a table is over: last_idx is the number of entries, or 0.
TableDone ==
    /\ walk # <<>>
    /\ ~AtEntry
    /\ call.order = "inc" \/ Here.at < 0
    /\ FrameReturns(walk, IF call.order = "inc" THEN Here.at ELSE 0)
    /\ UNCHANGED <<graph, call, subtable, visited_link_table, visited_object_table, series, log,
                   stopped, covered, calls>>

-----------------------------------------------------------------------------
Results == {-1, 0, 1}

Next ==
    \/ \E op \in Ops, order \in Orders, index \in Indexes, how \in {"none", "zero", "again"} :
          Call(op, order, index, how)
    \/ \E r \in Results : ReportStart(r) \/ Report(r)
    \/ BuildEntry \/ BuildFails \/ TableBuilt \/ Skips \/ TableDone

Spec == Init /\ [][Next]_vars

-----------------------------------------------------------------------------
(* Properties. *)

\* The groups that hard links lead to from Start: those in every set of groups
\* that contains Start and what its members link to.
LinkedFrom(s) == {l.to : l \in {m \in UNION {Range(graph[g]) : g \in s} : m.kind = "group"}}
Reachable == {g \in Groups : \A s \in SUBSET Groups :
                                Start \in s /\ LinkedFrom(s) \subseteq s => g \in s}

ObjectOf(e) == IF e[2] = 0 THEN Start ELSE graph[GroupOf(e[1])][e[2]].to
ToTheEnd == out = "ok" /\ ~stopped

\* A visit that is not cut short reports everything: H5Lvisit each link of
\* every group that can be reached, each entry once; H5Ovisit each object a
\* hard link leads to, each once but for the start, which a link back to it
\* makes it report again.
VisitComplete ==
    /\ ToTheEnd /\ call.op = "H5Lvisit" =>
         /\ {<<GroupOf(e[1]), e[2]>> : e \in Range(log)}
              = UNION {{g} \X DOMAIN graph[g] : g \in Reachable}
         /\ IsInjective(log)
    /\ ToTheEnd /\ call.op = "H5Ovisit" =>
         LET links == UNION {Range(graph[g]) : g \in Reachable}
             objects == {Start} \union {l.to : l \in {m \in links : m.kind # "soft"}}
         IN  /\ {ObjectOf(e) : e \in Range(log)} = objects
             /\ \A o \in objects \ {Start} :
                   Cardinality({n \in DOMAIN log : ObjectOf(log[n]) = o}) = 1

\* However often H5Literate in increasing order is interrupted, fails and is
\* called again with the index it left, when it ends it has delivered every
\* link of the group.
ResumeCovers ==
    ToTheEnd /\ call.op = "H5Literate" /\ call.idx_p /\ call.order = "inc" =>
        covered = DOMAIN graph[Start]

\* Links that lead back do not make the recursion endless.
DescentEnds == Len(build) <= Cardinality(Groups) + 1 /\ Len(walk) <= Cardinality(Groups) + 1

\* "If the same object is linked to multiple times, the callback function will
\* only be executed on it once."
ObjectsOnce ==
    call.op = "H5Ovisit" =>
        \A m, n \in DOMAIN log : ObjectOf(log[m]) = ObjectOf(log[n]) => m = n

\* "Keep track of the last index where we left off."
IndexKept ==
    ToTheEnd /\ call.op = "H5Literate" /\ call.idx_p /\ call.order = "inc" =>
        idx >= Len(graph[Start])
=============================================================================
