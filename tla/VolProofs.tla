------------------------------ MODULE VolProofs ------------------------------
(***************************************************************************)
(* Proofs about the VOL connector (module Vol), for every number of        *)
(* structures and names and without a bound on the reference counts:       *)
(* whatever callbacks run, in whatever order, and wherever they fail, no   *)
(* structure that is still used is freed, and as long as no call has       *)
(* failed every file goes away with its last user.                         *)
(*                                                                         *)
(* A call holds references of its own while it runs (it counts the domain  *)
(* of its location before it opens anything).  The invariant is therefore  *)
(* stated with a number e[f] of references that the running call owes to   *)
(* the file f, and every operator a callback is built from is shown to     *)
(* take a session with one debt to sessions with another.                  *)
(*                                                                         *)
(* The second half is about the requests.  All callbacks share one easy    *)
(* handle and one header list, and an error return leaves both as they     *)
(* are.  A session is ready when no custom verb is set and the header list *)
(* is as the call found it, or free; it is busy with a domain when the     *)
(* list names that domain only.  Every operator is shown to send what its  *)
(* callback meant, and to end ready or in a failure.                       *)
(***************************************************************************)
EXTENDS Vol, FiniteSetTheorems, TLAPS

(***************************************************************************)
(* The invariant                                                           *)
(***************************************************************************)

\* The files of a heap h, the objects that point at the file f, and how many
\* users f has when the application holds the identifiers op.
FilesIn(h) == {f \in Slots : h[f].kind = "file"}
HeldIn(h, f) == {p \in Slots : h[p].kind \in Objects /\ h[p].dom = f}
UsesIn(h, op, f) == Cardinality(HeldIn(h, f)) + Cardinality({f} \cap op)

\* A reference count has no upper bound here.
Heaps == [Slots -> [kind : Objects \cup {"file", "free"}, dom : Slots \cup {NoSlot},
                    name : Names \cup {NoName}, ref : Nat, rw : BOOLEAN]]

\* The references a call has taken: none, and one more of the file f.
Debts == [Slots -> Nat]
Zero == [p \in Slots |-> 0]
Plus(e, f) == [e EXCEPT ![f] = @ + 1]

\* No use is without its reference.  "at" is the object of an iteration.
Covered(h, op, at, e) ==
  /\ h \in Heaps
  /\ op \subseteq Slots /\ \A p \in op : h[p].kind # "free"
  /\ at # NoSlot => at \in Slots /\ at \notin op /\ h[at].kind \in Objects
  /\ \A p \in Slots : h[p].kind \in Objects => h[p].dom \in FilesIn(h)
  /\ \A f \in FilesIn(h) : h[f].dom = f /\ h[f].ref >= UsesIn(h, op, f) + e[f]
  /\ \A f \in Slots : e[f] > 0 => f \in FilesIn(h)

\* No reference is without its use.
Exact(h, op, e) ==
  \A f \in FilesIn(h) : h[f].ref = UsesIn(h, op, f) + e[f] /\ h[f].ref > 0

\* An iteration is a record with these fields (in a proof, "at" must be one).
IterShape == iter = [x \in {"kind", "at", "dom", "host", "phase"} |-> iter[x]]

VolInv ==
  /\ IterShape
  /\ ~rehomed => /\ Covered(heap, open, iter.at, Zero)
                 /\ ~failed => Exact(heap, open, Zero)

(***************************************************************************)
(* What the primitives do to a heap                                        *)
(***************************************************************************)

LEMMA ZeroType == Zero \in Debts /\ \A p \in Slots : Zero[p] = 0
  BY DEF Zero, Debts

LEMMA PlusIs ==
  ASSUME NEW e \in Debts, NEW f \in Slots
  PROVE  /\ Plus(e, f) \in Debts
         /\ \A p \in Slots : Plus(e, f)[p] = IF p = f THEN e[p] + 1 ELSE e[p]
  BY DEF Plus, Debts

LEMMA UsesType ==
  ASSUME NEW h, NEW op, NEW f
  PROVE  /\ IsFiniteSet(HeldIn(h, f)) /\ Cardinality(HeldIn(h, f)) \in Nat
         /\ Cardinality({f} \cap op) = IF f \in op THEN 1 ELSE 0
         /\ Cardinality({f} \cap op) \in Nat
         /\ UsesIn(h, op, f) \in Nat
  <1>1. IsFiniteSet(HeldIn(h, f)) /\ Cardinality(HeldIn(h, f)) \in Nat
    <2>1. HeldIn(h, f) \subseteq Slots
      BY DEF HeldIn
    <2> QED
      BY <2>1, SessionAssumption, FS_Subset, FS_CardinalityType
  <1>2. Cardinality({f} \cap op) = IF f \in op THEN 1 ELSE 0
    <2>1. CASE f \in op
      <3>1. {f} \cap op = {f}
        BY <2>1
      <3> QED
        BY <2>1, <3>1, FS_Singleton
    <2>2. CASE f \notin op
      <3>1. {f} \cap op = {}
        BY <2>2
      <3> QED
        BY <2>2, <3>1, FS_EmptySet
    <2> QED
      BY <2>1, <2>2
  <1> QED
    BY <1>1, <1>2 DEF UsesIn

\* What a call owes may be forgotten, and so may the iteration.
LEMMA CoveredLess ==
  ASSUME NEW h, NEW op, NEW at, NEW e \in Debts, Covered(h, op, at, e)
  PROVE  Covered(h, op, at, Zero) /\ Covered(h, op, NoSlot, e)
  <1>1. ASSUME NEW f \in FilesIn(h) PROVE h[f].ref >= UsesIn(h, op, f) + 0
    <2>1. f \in Slots /\ e[f] \in Nat /\ h[f].ref \in Nat /\ UsesIn(h, op, f) \in Nat
      BY UsesType DEF FilesIn, Debts, Covered, Heaps
    <2>2. h[f].ref >= UsesIn(h, op, f) + e[f]
      BY DEF Covered
    <2> QED
      BY <2>1, <2>2
  <1>2. Covered(h, op, at, Zero)
    BY <1>1, ZeroType DEF Covered, FilesIn
  <1>3. Covered(h, op, NoSlot, e)
    BY DEF Covered
  <1> QED
    BY <1>2, <1>3

\* One more reference, held by the call.
LEMMA RetainHeap ==
  ASSUME NEW h, NEW op, NEW at, NEW e \in Debts, NEW f \in FilesIn(h),
         Covered(h, op, at, e), NEW g, g = [h EXCEPT ![f].ref = @ + 1]
  PROVE  /\ Covered(g, op, at, Plus(e, f))
         /\ Exact(h, op, e) => Exact(g, op, Plus(e, f))
  <1>1. f \in Slots /\ h \in Heaps
    BY DEF FilesIn, Covered
  <1>2. \A p \in Slots : /\ g[p].kind = h[p].kind /\ g[p].dom = h[p].dom
                         /\ g[p].ref = IF p = f THEN h[p].ref + 1 ELSE h[p].ref
    BY <1>1 DEF Heaps
  <1>3. g \in Heaps
    BY <1>1 DEF Heaps
  <1>4. FilesIn(g) = FilesIn(h) /\ \A p : HeldIn(g, p) = HeldIn(h, p)
    BY <1>2 DEF FilesIn, HeldIn
  <1>5. \A p : UsesIn(g, op, p) = UsesIn(h, op, p) /\ UsesIn(h, op, p) \in Nat
    BY <1>4, UsesType DEF UsesIn
  <1>6. ASSUME NEW p \in FilesIn(h)
        PROVE  /\ p \in Slots /\ e[p] \in Nat /\ h[p].ref \in Nat
               /\ Plus(e, f)[p] = IF p = f THEN e[p] + 1 ELSE e[p]
    BY <1>1, PlusIs DEF FilesIn, Heaps, Debts
  <1>7. Covered(g, op, at, Plus(e, f))
    <2>1. ASSUME NEW p \in FilesIn(g)
          PROVE  g[p].dom = p /\ g[p].ref >= UsesIn(g, op, p) + Plus(e, f)[p]
      <3>1. p \in FilesIn(h) /\ UsesIn(g, op, p) = UsesIn(h, op, p) /\ UsesIn(h, op, p) \in Nat
        BY <1>4, <1>5
      <3>2. h[p].dom = p /\ h[p].ref >= UsesIn(h, op, p) + e[p]
        BY <3>1 DEF Covered
      <3> QED
        BY <1>2, <1>6, <3>1, <3>2
    <2>2. \A p \in Slots : Plus(e, f)[p] > 0 => p \in FilesIn(g)
      BY <1>1, <1>4, PlusIs DEF Covered
    <2> QED
      BY <1>1, <1>2, <1>3, <1>4, <2>1, <2>2 DEF Covered
  <1>8. Exact(h, op, e) => Exact(g, op, Plus(e, f))
    <2> SUFFICES ASSUME Exact(h, op, e), NEW p \in FilesIn(g)
                 PROVE  g[p].ref = UsesIn(g, op, p) + Plus(e, f)[p] /\ g[p].ref > 0
      BY DEF Exact
    <2>1. p \in FilesIn(h) /\ UsesIn(g, op, p) = UsesIn(h, op, p) /\ UsesIn(h, op, p) \in Nat
      BY <1>4, <1>5
    <2>2. h[p].ref = UsesIn(h, op, p) + e[p] /\ h[p].ref > 0
      BY <2>1 DEF Exact
    <2> QED
      BY <1>2, <1>6, <2>1, <2>2
  <1> QED
    BY <1>7, <1>8

\* One reference less; with the last one the file goes, and it was the
\* call's, so nobody points at it.
LEMMA CloseHeap ==
  ASSUME NEW h, NEW op, NEW at, NEW e \in Debts, NEW f \in Slots,
         Covered(h, op, at, Plus(e, f)), NEW g,
         g = IF h[f].ref = 1 THEN [h EXCEPT ![f] = Freed]
                             ELSE [h EXCEPT ![f].ref = @ - 1]
  PROVE  /\ Covered(g, op, at, e)
         /\ Exact(h, op, Plus(e, f)) => Exact(g, op, e)
  <1>1. f \in FilesIn(h) /\ h \in Heaps
    <2>1. Plus(e, f)[f] = e[f] + 1 /\ e[f] \in Nat
      BY PlusIs DEF Debts
    <2> QED
      BY <2>1 DEF Covered
  <1>2. ASSUME NEW p \in FilesIn(h)
        PROVE  /\ p \in Slots /\ e[p] \in Nat /\ h[p].ref \in Nat /\ h[p].dom = p
               /\ Plus(e, f)[p] = IF p = f THEN e[p] + 1 ELSE e[p]
               /\ h[p].ref >= UsesIn(h, op, p) + Plus(e, f)[p]
               /\ UsesIn(h, op, p) \in Nat
    <2>1. p \in Slots /\ e[p] \in Nat /\ h[p].ref \in Nat
      BY <1>1 DEF FilesIn, Heaps, Debts
    <2>2. h[p].dom = p /\ h[p].ref >= UsesIn(h, op, p) + Plus(e, f)[p]
      BY DEF Covered
    <2>3. Plus(e, f)[p] = IF p = f THEN e[p] + 1 ELSE e[p]
      BY <2>1, PlusIs
    <2> QED
      BY <2>1, <2>2, <2>3, UsesType
  <1>3. CASE h[f].ref = 1
    <2>1. UsesIn(h, op, f) = 0 /\ e[f] = 0
      <3>1. /\ e[f] \in Nat /\ Plus(e, f)[f] = e[f] + 1 /\ UsesIn(h, op, f) \in Nat
            /\ h[f].ref >= UsesIn(h, op, f) + Plus(e, f)[f]
        BY <1>1, <1>2
      <3> QED
        BY <1>3, <3>1
    <2>2. HeldIn(h, f) = {} /\ f \notin op
      <3> DEFINE a == Cardinality(HeldIn(h, f))
                 b == Cardinality({f} \cap op)
      <3>1. a \in Nat /\ b = (IF f \in op THEN 1 ELSE 0) /\ IsFiniteSet(HeldIn(h, f))
        BY UsesType
      <3>2. a + b = 0
        BY <2>1 DEF UsesIn
      <3> HIDE DEF a, b
      <3>3. a = 0 /\ f \notin op
        BY <3>1, <3>2
      <3> QED
        BY <3>1, <3>3, FS_EmptySet DEF a
    <2>3. g \in Heaps /\ \A p \in Slots : g[p] = IF p = f THEN Freed ELSE h[p]
      BY <1>1, <1>3 DEF Heaps, Freed
    <2>4. FilesIn(g) = FilesIn(h) \ {f} /\ Freed.kind \notin Objects /\ h[f].kind = "file"
      BY <1>1, <2>3 DEF FilesIn, Freed, Objects
    <2>5. \A p : HeldIn(g, p) = HeldIn(h, p)
      BY <2>3, <2>4 DEF HeldIn, Objects
    <2>6. \A p : UsesIn(g, op, p) = UsesIn(h, op, p)
      BY <2>5 DEF UsesIn
    <2>f. \A p \in FilesIn(g) : p \in FilesIn(h) /\ p # f /\ p \in Slots /\ g[p] = h[p]
      BY <1>2, <2>3, <2>4
    <2>7. Covered(g, op, at, e)
      <3>1. \A p \in op : g[p].kind # "free"
        BY <2>2, <2>3 DEF Covered
      <3>2. at # NoSlot => at \in Slots /\ at \notin op /\ g[at].kind \in Objects
        BY <2>3, <2>4 DEF Covered, Objects
      <3>3. ASSUME NEW p \in Slots, g[p].kind \in Objects PROVE g[p].dom \in FilesIn(g)
        <4>1. p # f /\ g[p] = h[p]
          BY <2>3, <2>4, <3>3
        <4>2. h[p].dom \in FilesIn(h) /\ h[p].dom # f
          BY <2>2, <3>3, <4>1 DEF Covered, HeldIn
        <4> QED
          BY <2>4, <4>1, <4>2
      <3>4. ASSUME NEW p \in FilesIn(g)
            PROVE  g[p].dom = p /\ g[p].ref >= UsesIn(g, op, p) + e[p]
        <4>1. /\ p \in FilesIn(h) /\ p # f /\ p \in Slots /\ g[p] = h[p]
              /\ UsesIn(g, op, p) = UsesIn(h, op, p)
          BY <2>6, <2>f
        <4> QED
          BY <1>2, <4>1
      <3>5. \A p \in Slots : e[p] > 0 => p \in FilesIn(g)
        <4> SUFFICES ASSUME NEW p \in Slots, e[p] > 0 PROVE p \in FilesIn(g)
          OBVIOUS
        <4>1. p # f /\ Plus(e, f)[p] > 0
          BY <2>1, PlusIs
        <4> QED
          BY <2>4, <4>1 DEF Covered
      <3> QED
        BY <2>3, <3>1, <3>2, <3>3, <3>4, <3>5 DEF Covered
    <2>8. Exact(h, op, Plus(e, f)) => Exact(g, op, e)
      <3> SUFFICES ASSUME Exact(h, op, Plus(e, f)), NEW p \in FilesIn(g)
                   PROVE  g[p].ref = UsesIn(g, op, p) + e[p] /\ g[p].ref > 0
        BY DEF Exact
      <3>1. /\ p \in FilesIn(h) /\ p # f /\ p \in Slots /\ g[p] = h[p]
            /\ UsesIn(g, op, p) = UsesIn(h, op, p)
        BY <2>6, <2>f
      <3>2. h[p].ref = UsesIn(h, op, p) + Plus(e, f)[p] /\ h[p].ref > 0
        BY <3>1 DEF Exact
      <3> QED
        BY <1>2, <3>1, <3>2
    <2> QED
      BY <2>7, <2>8
  <1>4. CASE h[f].ref # 1
    <2>1. h[f].ref > 1
      <3>1. /\ e[f] \in Nat /\ Plus(e, f)[f] = e[f] + 1 /\ UsesIn(h, op, f) \in Nat
            /\ h[f].ref >= UsesIn(h, op, f) + Plus(e, f)[f] /\ h[f].ref \in Nat
        BY <1>1, <1>2
      <3> QED
        BY <1>4, <3>1
    <2>2. g = [h EXCEPT ![f].ref = @ - 1]
      BY <1>4
    <2>3. \A p \in Slots : /\ g[p].kind = h[p].kind /\ g[p].dom = h[p].dom
                           /\ g[p].ref = IF p = f THEN h[p].ref - 1 ELSE h[p].ref
      BY <1>1, <2>2 DEF Heaps
    <2>4. g \in Heaps
      <3>1. h[f].ref - 1 \in Nat
        BY <1>1, <1>2, <2>1
      <3> QED
        BY <1>1, <2>2, <3>1 DEF Heaps
    <2>5. FilesIn(g) = FilesIn(h) /\ \A p : HeldIn(g, p) = HeldIn(h, p)
      BY <2>3 DEF FilesIn, HeldIn
    <2>6. \A p : UsesIn(g, op, p) = UsesIn(h, op, p)
      BY <2>5 DEF UsesIn
    <2>7. Covered(g, op, at, e)
      <3>1. ASSUME NEW p \in FilesIn(g)
            PROVE  g[p].dom = p /\ g[p].ref >= UsesIn(g, op, p) + e[p]
        <4>1. p \in FilesIn(h) /\ UsesIn(g, op, p) = UsesIn(h, op, p)
          BY <2>5, <2>6
        <4>2. p \in Slots /\ g[p].dom = h[p].dom
              /\ g[p].ref = IF p = f THEN h[p].ref - 1 ELSE h[p].ref
          BY <1>2, <2>3, <4>1
        <4> QED
          BY <1>2, <4>1, <4>2
      <3>2. ASSUME NEW p \in Slots, e[p] > 0 PROVE p \in FilesIn(g)
        <4>1. e[p] \in Nat /\ Plus(e, f)[p] > 0
          BY <3>2, PlusIs DEF Debts
        <4> QED
          BY <2>5, <4>1 DEF Covered
      <3> QED
        BY <2>3, <2>4, <2>5, <3>1, <3>2 DEF Covered
    <2>8. Exact(h, op, Plus(e, f)) => Exact(g, op, e)
      <3> SUFFICES ASSUME Exact(h, op, Plus(e, f)), NEW p \in FilesIn(g)
                   PROVE  g[p].ref = UsesIn(g, op, p) + e[p] /\ g[p].ref > 0
        BY DEF Exact
      <3>1. p \in FilesIn(h) /\ UsesIn(g, op, p) = UsesIn(h, op, p)
        BY <2>5, <2>6
      <3>2. p \in Slots /\ g[p].ref = IF p = f THEN h[p].ref - 1 ELSE h[p].ref
        BY <1>2, <2>3, <3>1
      <3>3. h[p].ref = UsesIn(h, op, p) + Plus(e, f)[p] /\ h[p].ref > 0
        BY <3>1 DEF Exact
      <3> QED
        BY <1>2, <2>1, <3>1, <3>2, <3>3
    <2> QED
      BY <2>7, <2>8
  <1> QED
    BY <1>3, <1>4

\* A new object takes over a reference the call has.
LEMMA AddObject ==
  ASSUME NEW h, NEW op, NEW at, NEW e \in Debts, NEW f \in Slots, NEW k \in Objects,
         NEW q \in Slots, h[q].kind = "free",
         Covered(h, op, at, Plus(e, f)), NEW g, g = [h EXCEPT ![q] = ObjStruct(k, f)]
  PROVE  /\ Covered(g, op, at, e) /\ q \notin op /\ q # at
         /\ Exact(h, op, Plus(e, f)) => Exact(g, op, e)
  <1>1. /\ h \in Heaps /\ q \notin op /\ q # at /\ f \in FilesIn(h) /\ f # q
        /\ "free" \notin Objects /\ "file" \notin Objects /\ k \notin {"file", "free"}
    <2>1. Plus(e, f)[f] > 0
      BY PlusIs DEF Debts
    <2>2. "free" \notin Objects /\ "file" \notin Objects /\ k \notin {"file", "free"}
      BY DEF Objects
    <2>3. q \notin op /\ q # at
      BY <2>2, SessionAssumption DEF Covered
    <2>4. f \in FilesIn(h) /\ h \in Heaps
      BY <2>1 DEF Covered
    <2> QED
      BY <2>2, <2>3, <2>4 DEF FilesIn
  <1>2. g \in Heaps /\ \A p \in Slots : g[p] = IF p = q THEN ObjStruct(k, f) ELSE h[p]
    <2>1. ObjStruct(k, f) \in [kind : Objects \cup {"file", "free"}, dom : Slots \cup {NoSlot},
                               name : Names \cup {NoName}, ref : Nat, rw : BOOLEAN]
      BY DEF ObjStruct
    <2> HIDE DEF ObjStruct
    <2> QED
      BY <1>1, <2>1 DEF Heaps
  <1>3. ObjStruct(k, f).kind = k /\ ObjStruct(k, f).dom = f
    BY DEF ObjStruct
  <1>4. FilesIn(g) = FilesIn(h)
    BY <1>1, <1>2, <1>3 DEF FilesIn
  <1>5. \A p \in FilesIn(h) : p \in Slots /\ p # q /\ g[p] = h[p]
    BY <1>1, <1>2 DEF FilesIn
  <1>6. HeldIn(g, f) = HeldIn(h, f) \cup {q} /\ q \notin HeldIn(h, f)
    BY <1>1, <1>2, <1>3 DEF HeldIn
  <1>7. \A p : p # f => HeldIn(g, p) = HeldIn(h, p)
    BY <1>1, <1>2, <1>3 DEF HeldIn
  <1>8. ASSUME NEW p \in FilesIn(h)
        PROVE  /\ UsesIn(h, op, p) \in Nat /\ e[p] \in Nat /\ h[p].ref \in Nat
               /\ UsesIn(g, op, p) + e[p] = UsesIn(h, op, p) + Plus(e, f)[p]
    <2>1. /\ UsesIn(h, op, p) \in Nat /\ e[p] \in Nat /\ h[p].ref \in Nat
          /\ Plus(e, f)[p] = IF p = f THEN e[p] + 1 ELSE e[p]
      <3>1. p \in Slots /\ UsesIn(h, op, p) \in Nat
        BY <1>5, UsesType
      <3>2. e[p] \in Nat /\ h[p].ref \in Nat
        BY <1>1, <3>1 DEF Debts, Heaps
      <3>3. Plus(e, f)[p] = IF p = f THEN e[p] + 1 ELSE e[p]
        BY <1>1, <3>1, PlusIs
      <3> QED
        BY <3>1, <3>2, <3>3
    <2>2. CASE p = f
      <3>1. Cardinality(HeldIn(g, f)) = Cardinality(HeldIn(h, f)) + 1
        BY <1>6, UsesType, FS_AddElement
      <3> DEFINE a == Cardinality(HeldIn(h, f))
                 b == Cardinality({f} \cap op)
      <3>2. a \in Nat /\ b \in Nat
        BY UsesType
      <3>3. UsesIn(h, op, f) = a + b /\ UsesIn(g, op, f) = (a + 1) + b
        BY <3>1 DEF UsesIn
      <3> HIDE DEF a, b
      <3> QED
        BY <2>1, <2>2, <3>2, <3>3
    <2>3. CASE p # f
      BY <1>7, <2>1, <2>3 DEF UsesIn
    <2> QED
      BY <2>1, <2>2, <2>3
  <1>9. Covered(g, op, at, e)
    <2>1. \A p \in op : g[p].kind # "free"
      BY <1>1, <1>2 DEF Covered
    <2>2. at # NoSlot => at \in Slots /\ at \notin op /\ g[at].kind \in Objects
      BY <1>1, <1>2 DEF Covered
    <2>3. \A p \in Slots : g[p].kind \in Objects => g[p].dom \in FilesIn(g)
      BY <1>1, <1>2, <1>3, <1>4 DEF Covered
    <2>4. ASSUME NEW p \in FilesIn(g)
          PROVE  g[p].dom = p /\ g[p].ref >= UsesIn(g, op, p) + e[p]
      <3>1. p \in FilesIn(h) /\ g[p] = h[p]
        BY <1>4, <1>5
      <3>2. h[p].dom = p /\ h[p].ref >= UsesIn(h, op, p) + Plus(e, f)[p]
        BY <3>1 DEF Covered
      <3> QED
        BY <1>8, <3>1, <3>2
    <2>5. ASSUME NEW p \in Slots, e[p] > 0 PROVE p \in FilesIn(g)
      <3>1. e[p] \in Nat /\ Plus(e, f)[p] > 0
        BY <2>5, PlusIs DEF Debts
      <3> QED
        BY <1>4, <3>1 DEF Covered
    <2>6. op \subseteq Slots
      BY DEF Covered
    <2> QED
      BY <1>2, <2>1, <2>2, <2>3, <2>4, <2>5, <2>6 DEF Covered
  <1>10. Exact(h, op, Plus(e, f)) => Exact(g, op, e)
    <2> SUFFICES ASSUME Exact(h, op, Plus(e, f)), NEW p \in FilesIn(g)
                 PROVE  g[p].ref = UsesIn(g, op, p) + e[p] /\ g[p].ref > 0
      BY DEF Exact
    <2>1. p \in FilesIn(h) /\ g[p] = h[p]
      BY <1>4, <1>5
    <2>2. h[p].ref = UsesIn(h, op, p) + Plus(e, f)[p] /\ h[p].ref > 0
      BY <2>1 DEF Exact
    <2> QED
      BY <1>8, <2>1, <2>2
  <1> QED
    BY <1>1, <1>9, <1>10

\* An object that nobody else knows leaves its reference to the call.
LEMMA ReleaseObject ==
  ASSUME NEW h, NEW op, NEW at, NEW e \in Debts,
         NEW q \in Slots, h[q].kind \in Objects, q \notin op, q # at,
         Covered(h, op, at, e), NEW g, g = [h EXCEPT ![q] = Freed]
  PROVE  /\ h[q].dom \in FilesIn(h) /\ Covered(g, op, at, Plus(e, h[q].dom))
         /\ Exact(h, op, e) => Exact(g, op, Plus(e, h[q].dom))
  <1> DEFINE f == h[q].dom
  <1>1. /\ h \in Heaps /\ f \in FilesIn(h) /\ f \in Slots /\ f # q
        /\ "free" \notin Objects /\ "file" \notin Objects
        /\ Freed.kind = "free"
    <2>1. h \in Heaps /\ f \in FilesIn(h)
      BY DEF Covered
    <2>2. "free" \notin Objects /\ "file" \notin Objects /\ Freed.kind = "free"
      BY DEF Objects, Freed
    <2> QED
      BY <2>1, <2>2 DEF FilesIn
  <1>2. g \in Heaps /\ \A p \in Slots : g[p] = IF p = q THEN Freed ELSE h[p]
    <2>1. Freed \in [kind : Objects \cup {"file", "free"}, dom : Slots \cup {NoSlot},
                     name : Names \cup {NoName}, ref : Nat, rw : BOOLEAN]
      BY DEF Freed
    <2> HIDE DEF Freed
    <2> QED
      BY <1>1, <2>1 DEF Heaps
  <1> HIDE DEF f
  <1>4. FilesIn(g) = FilesIn(h)
    BY <1>1, <1>2 DEF FilesIn
  <1>5. \A p \in FilesIn(h) : p \in Slots /\ p # q /\ g[p] = h[p]
    BY <1>1, <1>2 DEF FilesIn
  <1>6. HeldIn(g, f) = HeldIn(h, f) \ {q} /\ q \in HeldIn(h, f)
    BY <1>1, <1>2 DEF HeldIn, f
  <1>7. \A p : p # f => HeldIn(g, p) = HeldIn(h, p)
    BY <1>1, <1>2 DEF HeldIn, f
  <1>8. ASSUME NEW p \in FilesIn(h)
        PROVE  /\ UsesIn(h, op, p) \in Nat /\ e[p] \in Nat /\ h[p].ref \in Nat
               /\ UsesIn(g, op, p) + Plus(e, f)[p] = UsesIn(h, op, p) + e[p]
    <2>1. /\ UsesIn(h, op, p) \in Nat /\ e[p] \in Nat /\ h[p].ref \in Nat
          /\ Plus(e, f)[p] = IF p = f THEN e[p] + 1 ELSE e[p]
      <3>1. p \in Slots /\ UsesIn(h, op, p) \in Nat
        BY <1>5, UsesType
      <3>2. e[p] \in Nat /\ h[p].ref \in Nat
        BY <1>1, <3>1 DEF Debts, Heaps
      <3>3. Plus(e, f)[p] = IF p = f THEN e[p] + 1 ELSE e[p]
        BY <1>1, <3>1, PlusIs
      <3> QED
        BY <3>1, <3>2, <3>3
    <2>2. CASE p = f
      <3>1. Cardinality(HeldIn(g, f)) = Cardinality(HeldIn(h, f)) - 1
        <4>1. IsFiniteSet(HeldIn(h, f))
          BY UsesType
        <4> QED
          BY <1>6, <4>1, FS_RemoveElement
      <3> DEFINE a == Cardinality(HeldIn(h, f))
                 b == Cardinality({f} \cap op)
      <3>2. a \in Nat /\ b \in Nat
        BY UsesType
      <3>3. UsesIn(h, op, f) = a + b /\ UsesIn(g, op, f) = (a - 1) + b
        BY <3>1 DEF UsesIn
      <3> HIDE DEF a, b
      <3> QED
        BY <2>1, <2>2, <3>2, <3>3
    <2>3. CASE p # f
      BY <1>7, <2>1, <2>3 DEF UsesIn
    <2> QED
      BY <2>1, <2>2, <2>3
  <1>9. Covered(g, op, at, Plus(e, f))
    <2>1. \A p \in op : g[p].kind # "free"
      BY <1>1, <1>2 DEF Covered
    <2>2. at # NoSlot => at \in Slots /\ at \notin op /\ g[at].kind \in Objects
      BY <1>1, <1>2 DEF Covered
    <2>3. \A p \in Slots : g[p].kind \in Objects => g[p].dom \in FilesIn(g)
      BY <1>1, <1>2, <1>4 DEF Covered
    <2>4. ASSUME NEW p \in FilesIn(g)
          PROVE  g[p].dom = p /\ g[p].ref >= UsesIn(g, op, p) + Plus(e, f)[p]
      <3>1. p \in FilesIn(h) /\ g[p] = h[p]
        BY <1>4, <1>5
      <3>2. h[p].dom = p /\ h[p].ref >= UsesIn(h, op, p) + e[p]
        BY <3>1 DEF Covered
      <3> QED
        BY <1>8, <3>1, <3>2
    <2>5. ASSUME NEW p \in Slots, Plus(e, f)[p] > 0 PROVE p \in FilesIn(g)
      <3>1. p = f \/ e[p] > 0
        BY <1>1, <2>5, PlusIs DEF Debts
      <3> QED
        BY <1>1, <1>4, <3>1 DEF Covered
    <2>6. op \subseteq Slots
      BY DEF Covered
    <2> QED
      BY <1>2, <2>1, <2>2, <2>3, <2>4, <2>5, <2>6 DEF Covered
  <1>10. Exact(h, op, e) => Exact(g, op, Plus(e, f))
    <2> SUFFICES ASSUME Exact(h, op, e), NEW p \in FilesIn(g)
                 PROVE  g[p].ref = UsesIn(g, op, p) + Plus(e, f)[p] /\ g[p].ref > 0
      BY DEF Exact
    <2>1. p \in FilesIn(h) /\ g[p] = h[p]
      BY <1>4, <1>5
    <2>2. h[p].ref = UsesIn(h, op, p) + e[p] /\ h[p].ref > 0
      BY <2>1 DEF Exact
    <2> QED
      BY <1>8, <2>1, <2>2
  <1> QED
    BY <1>1, <1>9, <1>10 DEF f

\* A new file belongs to the call.
LEMMA AddFile ==
  ASSUME NEW h, NEW op, NEW at, NEW e \in Debts, NEW d \in Slots, h[d].kind = "free",
         NEW n \in Names \cup {NoName}, NEW w \in BOOLEAN,
         Covered(h, op, at, e), NEW g, g = [h EXCEPT ![d] = FileStruct(d, n, w)]
  PROVE  /\ Covered(g, op, at, Plus(e, d)) /\ d \in FilesIn(g) /\ d \notin op /\ d # at
         /\ Exact(h, op, e) => Exact(g, op, Plus(e, d))
  <1>1. /\ h \in Heaps /\ d \notin op /\ d # at /\ d \notin FilesIn(h)
        /\ "free" \notin Objects /\ "file" \notin Objects
    <2>1. "free" \notin Objects /\ "file" \notin Objects
      BY DEF Objects
    <2>2. d \notin op /\ d # at
      BY <2>1, SessionAssumption DEF Covered
    <2> QED
      BY <2>1, <2>2 DEF FilesIn, Covered
  <1>2. g \in Heaps /\ \A p \in Slots : g[p] = IF p = d THEN FileStruct(d, n, w) ELSE h[p]
    <2>1. FileStruct(d, n, w) \in
            [kind : Objects \cup {"file", "free"}, dom : Slots \cup {NoSlot},
             name : Names \cup {NoName}, ref : Nat, rw : BOOLEAN]
      BY DEF FileStruct
    <2> HIDE DEF FileStruct
    <2> QED
      BY <1>1, <2>1 DEF Heaps
  <1>3. /\ FileStruct(d, n, w).kind = "file" /\ FileStruct(d, n, w).dom = d
        /\ FileStruct(d, n, w).ref = 1
    BY DEF FileStruct
  <1>4. FilesIn(g) = FilesIn(h) \cup {d}
    BY <1>1, <1>2, <1>3 DEF FilesIn
  <1>5. \A p \in FilesIn(h) : p \in Slots /\ p # d /\ g[p] = h[p]
    BY <1>1, <1>2 DEF FilesIn
  <1>6. \A p : HeldIn(g, p) = HeldIn(h, p)
    BY <1>1, <1>2, <1>3 DEF HeldIn
  <1>7. UsesIn(g, op, d) = 0 /\ e[d] = 0
    <2>1. HeldIn(h, d) = {}
      BY <1>1 DEF HeldIn, Covered
    <2>2. Cardinality(HeldIn(g, d)) = 0 /\ Cardinality({d} \cap op) = 0
      BY <1>1, <1>6, <2>1, UsesType, FS_EmptySet
    <2>3. e[d] = 0
      BY <1>1 DEF Covered, Debts
    <2> QED
      BY <2>2, <2>3 DEF UsesIn
  <1>8. ASSUME NEW p \in FilesIn(h)
        PROVE  /\ UsesIn(g, op, p) = UsesIn(h, op, p) /\ Plus(e, d)[p] = e[p]
    BY <1>5, <1>6, PlusIs DEF UsesIn
  <1>9. Plus(e, d)[d] = 1
    BY <1>7, PlusIs
  <1>10. Covered(g, op, at, Plus(e, d))
    <2>1. \A p \in op : g[p].kind # "free"
      BY <1>1, <1>2 DEF Covered
    <2>2. at # NoSlot => at \in Slots /\ at \notin op /\ g[at].kind \in Objects
      BY <1>1, <1>2 DEF Covered
    <2>3. ASSUME NEW p \in Slots, g[p].kind \in Objects PROVE g[p].dom \in FilesIn(g)
      <3>1. p # d /\ g[p] = h[p]
        BY <1>1, <1>2, <1>3, <2>3
      <3> QED
        BY <1>4, <2>3, <3>1 DEF Covered
    <2>4. ASSUME NEW p \in FilesIn(g)
          PROVE  g[p].dom = p /\ g[p].ref >= UsesIn(g, op, p) + Plus(e, d)[p]
      <3>1. CASE p = d
        BY <1>2, <1>3, <1>7, <1>9, <3>1
      <3>2. CASE p # d
        <4>1. p \in FilesIn(h) /\ g[p] = h[p]
          BY <1>4, <1>5, <3>2
        <4>2. h[p].dom = p /\ h[p].ref >= UsesIn(h, op, p) + e[p]
          BY <4>1 DEF Covered
        <4> QED
          BY <1>8, <4>1, <4>2
      <3> QED
        BY <3>1, <3>2
    <2>5. ASSUME NEW p \in Slots, Plus(e, d)[p] > 0 PROVE p \in FilesIn(g)
      <3>1. p = d \/ e[p] > 0
        BY <2>5, PlusIs DEF Debts
      <3> QED
        BY <1>4, <3>1 DEF Covered
    <2>6. op \subseteq Slots
      BY DEF Covered
    <2> QED
      BY <1>2, <2>1, <2>2, <2>3, <2>4, <2>5, <2>6 DEF Covered
  <1>11. Exact(h, op, e) => Exact(g, op, Plus(e, d))
    <2> SUFFICES ASSUME Exact(h, op, e), NEW p \in FilesIn(g)
                 PROVE  g[p].ref = UsesIn(g, op, p) + Plus(e, d)[p] /\ g[p].ref > 0
      BY DEF Exact
    <2>1. CASE p = d
      BY <1>2, <1>3, <1>7, <1>9, <2>1
    <2>2. CASE p # d
      <3>1. p \in FilesIn(h) /\ g[p] = h[p]
        BY <1>4, <1>5, <2>2
      <3>2. h[p].ref = UsesIn(h, op, p) + e[p] /\ h[p].ref > 0
        BY <3>1 DEF Exact
      <3> QED
        BY <1>8, <3>1, <3>2
    <2> QED
      BY <2>1, <2>2
  <1> QED
    BY <1>1, <1>4, <1>10, <1>11

\* An object the application gets or gives up is no use of a file by itself ...
LEMMA HoldObject ==
  ASSUME NEW h, NEW op, NEW at, NEW e, NEW q \in Slots, h[q].kind \in Objects,
         NEW op2, op2 = op \cup {q} \/ op2 = op \ {q},
         Covered(h, op, at, e), q # at
  PROVE  /\ Covered(h, op2, at, e)
         /\ Exact(h, op, e) => Exact(h, op2, e)
  <1>1. "free" \notin Objects /\ "file" \notin Objects
    BY DEF Objects
  <1>2. ASSUME NEW p \in FilesIn(h) PROVE UsesIn(h, op2, p) = UsesIn(h, op, p)
    <2>1. p # q
      BY <1>1 DEF FilesIn
    <2>2. p \in op2 <=> p \in op
      BY <2>1
    <2>3. Cardinality({p} \cap op2) = Cardinality({p} \cap op)
      BY <2>2, UsesType
    <2> QED
      BY <2>3 DEF UsesIn
  <1>3. /\ op2 \subseteq Slots /\ \A p \in op2 : h[p].kind # "free"
        /\ at # NoSlot => at \notin op2
    BY <1>1 DEF Covered
  <1>4. Covered(h, op2, at, e)
    BY <1>2, <1>3 DEF Covered
  <1>5. Exact(h, op, e) => Exact(h, op2, e)
    BY <1>2 DEF Exact
  <1> QED
    BY <1>4, <1>5

\* ... but the identifier of a file is one: it takes over the call's reference,
LEMMA HoldFile ==
  ASSUME NEW h, NEW op, NEW at, NEW e \in Debts, NEW q \in Slots, q \notin op,
         Covered(h, op, at, Plus(e, q))
  PROVE  /\ Covered(h, op \cup {q}, at, e)
         /\ Exact(h, op, Plus(e, q)) => Exact(h, op \cup {q}, e)
  <1> DEFINE op2 == op \cup {q}
  <1>1. q \in FilesIn(h) /\ h[q].kind = "file" /\ "file" \notin Objects
    <2>1. Plus(e, q)[q] > 0
      BY PlusIs DEF Debts
    <2> QED
      BY <2>1 DEF Covered, FilesIn, Objects
  <1>2. ASSUME NEW p \in FilesIn(h)
        PROVE  /\ UsesIn(h, op2, p) + e[p] = UsesIn(h, op, p) + Plus(e, q)[p]
               /\ UsesIn(h, op2, p) \in Nat /\ e[p] \in Nat /\ h[p].ref \in Nat
    <2> DEFINE a == Cardinality(HeldIn(h, p))
               b == Cardinality({p} \cap op)
               c == Cardinality({p} \cap op2)
    <2>1. /\ a \in Nat /\ b = (IF p \in op THEN 1 ELSE 0)
          /\ c = (IF p \in op2 THEN 1 ELSE 0)
      BY UsesType
    <2>2. UsesIn(h, op, p) = a + b /\ UsesIn(h, op2, p) = a + c
      BY DEF UsesIn
    <2> HIDE DEF a, b, c
    <2>3. /\ e[p] \in Nat /\ h[p].ref \in Nat
          /\ Plus(e, q)[p] = IF p = q THEN e[p] + 1 ELSE e[p]
      BY PlusIs DEF FilesIn, Covered, Heaps, Debts
    <2> QED
      BY <2>1, <2>2, <2>3
  <1>3. /\ op2 \subseteq Slots /\ \A p \in op2 : h[p].kind # "free"
        /\ at # NoSlot => at \notin op2
    BY <1>1 DEF Covered
  <1> HIDE DEF op2
  <1>4. Covered(h, op2, at, e)
    <2>1. ASSUME NEW p \in FilesIn(h) PROVE h[p].ref >= UsesIn(h, op2, p) + e[p]
      BY <1>2 DEF Covered
    <2>2. ASSUME NEW p \in Slots, e[p] > 0 PROVE p \in FilesIn(h)
      <3>1. Plus(e, q)[p] > 0
        BY <2>2, PlusIs DEF Debts
      <3> QED
        BY <3>1 DEF Covered
    <2> QED
      BY <1>3, <2>1, <2>2 DEF Covered
  <1>5. Exact(h, op, Plus(e, q)) => Exact(h, op2, e)
    BY <1>2 DEF Exact
  <1> QED
    BY <1>4, <1>5 DEF op2

\* and leaves it to the call that closes the file.
LEMMA DropFile ==
  ASSUME NEW h, NEW op, NEW at, NEW e \in Debts, NEW q \in FilesIn(h), q \in op,
         Covered(h, op, at, e)
  PROVE  /\ Covered(h, op \ {q}, at, Plus(e, q))
         /\ Exact(h, op, e) => Exact(h, op \ {q}, Plus(e, q))
  <1> DEFINE op2 == op \ {q}
  <1>1. q \in Slots
    BY DEF FilesIn
  <1>2. ASSUME NEW p \in FilesIn(h)
        PROVE  /\ UsesIn(h, op2, p) + Plus(e, q)[p] = UsesIn(h, op, p) + e[p]
               /\ UsesIn(h, op2, p) \in Nat /\ e[p] \in Nat /\ h[p].ref \in Nat
    <2> DEFINE a == Cardinality(HeldIn(h, p))
               b == Cardinality({p} \cap op)
               c == Cardinality({p} \cap op2)
    <2>1. /\ a \in Nat /\ b = (IF p \in op THEN 1 ELSE 0)
          /\ c = (IF p \in op2 THEN 1 ELSE 0)
      BY UsesType
    <2>2. UsesIn(h, op, p) = a + b /\ UsesIn(h, op2, p) = a + c
      BY DEF UsesIn
    <2> HIDE DEF a, b, c
    <2>3. /\ e[p] \in Nat /\ h[p].ref \in Nat
          /\ Plus(e, q)[p] = IF p = q THEN e[p] + 1 ELSE e[p]
      BY <1>1, PlusIs DEF FilesIn, Covered, Heaps, Debts
    <2> QED
      BY <2>1, <2>2, <2>3
  <1>3. /\ op2 \subseteq Slots /\ \A p \in op2 : h[p].kind # "free"
        /\ at # NoSlot => at \notin op2
    BY DEF Covered
  <1> HIDE DEF op2
  <1>4. Covered(h, op2, at, Plus(e, q))
    <2>1. ASSUME NEW p \in FilesIn(h) PROVE h[p].ref >= UsesIn(h, op2, p) + Plus(e, q)[p]
      BY <1>2 DEF Covered
    <2>2. ASSUME NEW p \in Slots, Plus(e, q)[p] > 0 PROVE p \in FilesIn(h)
      <3>1. p = q \/ e[p] > 0
        BY <1>1, <2>2, PlusIs DEF Debts
      <3> QED
        BY <3>1 DEF Covered
    <2> QED
      BY <1>3, <2>1, <2>2 DEF Covered
  <1>5. Exact(h, op, e) => Exact(h, op2, Plus(e, q))
    BY <1>2 DEF Exact
  <1> QED
    BY <1>4, <1>5 DEF op2

(***************************************************************************)
(* Sessions: requests leave the heap alone                                 *)
(***************************************************************************)

Fields == {"curl", "headers", "heap", "sent", "ok", "got"}
Shaped(s) == s = [x \in Fields |-> s[x]] /\ s.ok \in BOOLEAN

Keeps(t, s) == Shaped(t) /\ t.heap = s.heap /\ t.got = s.got

Verbs == {"GET", "PUT", "FLUSH", "POST", "DELETE"}

LEMMA BeginIs == Shaped(Begin) /\ Begin.ok /\ Begin.heap = heap /\ Begin.got = NoSlot
  BY DEF Shaped, Begin, Fields

\* The steps that cannot fail, and the error exit.
LEMMA OptionsKeep ==
  ASSUME NEW s, Shaped(s), NEW n
  PROVE  /\ Keeps(s, s) /\ Keeps(Error(s), s) /\ ~ Error(s).ok
         /\ Keeps(Host(s, n), s) /\ Keeps(NoHeaders(s), s)
         /\ Keeps(NoCustom(s), s) /\ Keeps(NoUpload(s), s)
         /\ Host(s, n).ok = s.ok /\ NoHeaders(s).ok = s.ok
         /\ NoCustom(s).ok = s.ok /\ NoUpload(s).ok = s.ok
  BY DEF Shaped, Keeps, Error, Host, NoHeaders, NoCustom, NoUpload, Fields

LEMMA SetOptKeeps ==
  ASSUME NEW s, Shaped(s), NEW verb \in Verbs
  PROVE  Keeps(SetOpt(s, verb), s) /\ SetOpt(s, verb).ok = s.ok
  BY DEF Shaped, Keeps, SetOpt, Fields, Verbs

LEMMA PerformKeeps ==
  ASSUME NEW s, NEW verb, NEW n, NEW w, Shaped(s), NEW t \in Perform(s, verb, n, w)
  PROVE  Keeps(t, s)
  BY DEF Shaped, Keeps, Perform, Error, Fields

LEMMA OptionsTwice ==
  ASSUME NEW s, Shaped(s)
  PROVE  /\ Keeps(NoCustom(NoHeaders(s)), s) /\ NoCustom(NoHeaders(s)).ok = s.ok
         /\ Keeps(NoHeaders(NoUpload(NoCustom(s))), s)
         /\ NoHeaders(NoUpload(NoCustom(s))).ok = s.ok
  <1>1. Keeps(NoHeaders(s), s) /\ NoHeaders(s).ok = s.ok
    BY OptionsKeep
  <1>2. \A u : Shaped(u) => /\ Keeps(NoCustom(u), u) /\ NoCustom(u).ok = u.ok
                            /\ Keeps(NoUpload(u), u) /\ NoUpload(u).ok = u.ok
                            /\ Keeps(NoHeaders(u), u) /\ NoHeaders(u).ok = u.ok
    BY OptionsKeep
  <1> QED
    BY <1>1, <1>2 DEF Keeps

LEMMA AskKeeps ==
  ASSUME NEW s, Shaped(s), NEW verb \in Verbs, NEW n, NEW w,
         NEW t \in Perform(SetOpt(s, verb), verb, n, w)
  PROVE  Keeps(t, s)
  <1> DEFINE u == SetOpt(s, verb)
  <1>1. Keeps(u, s)
    BY SetOptKeeps
  <1> HIDE DEF u
  <1>2. Keeps(t, u)
    BY <1>1, PerformKeeps DEF u, Keeps
  <1> QED
    BY <1>1, <1>2 DEF Keeps

LEMMA MayFailKeeps ==
  ASSUME NEW s, Shaped(s), NEW t \in MayFail(s) PROVE Keeps(t, s)
  BY OptionsKeep DEF Keeps, MayFail

LEMMA RequestKeeps ==
  ASSUME NEW s, NEW f, NEW verb \in Verbs, Shaped(s), NEW t \in Request(s, verb, f)
  PROVE  Keeps(t, s)
  BY OptionsKeep, SetOptKeeps, PerformKeeps DEF Request, Keeps

LEMMA RequestNameKeeps ==
  ASSUME NEW s, NEW n, NEW verb \in Verbs, Shaped(s), NEW t \in RequestName(s, verb, n)
  PROVE  Keeps(t, s)
  <1>1. Keeps(Host(s, n), s)
    BY OptionsKeep
  <1>2. Keeps(SetOpt(Host(s, n), verb), s)
    BY <1>1, SetOptKeeps DEF Keeps
  <1>3. Keeps(t, SetOpt(Host(s, n), verb))
    <2> DEFINE u == SetOpt(Host(s, n), verb)
    <2>1. t \in Perform(u, verb, n, TRUE) /\ Shaped(u)
      BY <1>2 DEF RequestName, Keeps
    <2> HIDE DEF u
    <2> QED
      BY <2>1, PerformKeeps DEF u
  <1> QED
    BY <1>2, <1>3 DEF Keeps

LEMMA VerbsAre == /\ "GET" \in Verbs /\ "PUT" \in Verbs /\ "FLUSH" \in Verbs
                  /\ "POST" \in Verbs /\ "DELETE" \in Verbs
  BY DEF Verbs

LEMMA QueryKeeps ==
  ASSUME NEW s, NEW f, Shaped(s), NEW t \in Query(s, f) PROVE Keeps(t, s)
  BY VerbsAre, RequestKeeps, MayFailKeeps, OptionsKeep DEF Query, Then, Keeps

LEMMA StoreKeeps ==
  ASSUME NEW s, NEW f, Shaped(s), NEW t \in Store(s, f) PROVE Keeps(t, s)
  <1>1. \A u \in Request(s, "PUT", f) : Keeps(u, s)
    BY VerbsAre, RequestKeeps
  <1>2. \A u : Shaped(u) => Keeps(NoHeaders(NoUpload(u)), u)
    BY OptionsKeep DEF Keeps
  <1> QED
    BY <1>1, <1>2 DEF Store, Then, Keeps

LEMMA RemoveKeeps ==
  ASSUME NEW s, NEW f, Shaped(s), NEW t \in Remove(s, f) PROVE Keeps(t, s)
  <1>1. \A u \in Request(s, "DELETE", f) : Keeps(u, s)
    BY VerbsAre, RequestKeeps
  <1>2. \A u : Shaped(u) => Keeps(NoHeaders(NoCustom(u)), u)
    BY OptionsKeep DEF Keeps
  <1> QED
    BY <1>1, <1>2 DEF Remove, Then, Keeps

LEMMA FlushKeeps ==
  ASSUME NEW s, NEW f, Shaped(s), NEW t \in Flush(s, f) PROVE Keeps(t, s)
  <1>1. \A u \in Request(s, "FLUSH", f) : Keeps(u, s)
    BY VerbsAre, RequestKeeps
  <1>2. \A u : Shaped(u) => Keeps(NoCustom(NoHeaders(u)), u) /\ Keeps(Error(u), u)
    BY OptionsKeep DEF Keeps
  <1> QED
    BY <1>1, <1>2 DEF Flush, Then, Keeps

LEMMA FindKeeps ==
  ASSUME NEW s, NEW f, Shaped(s), NEW t \in Find(s, f) PROVE Keeps(t, s)
  BY VerbsAre, RequestKeeps, MayFailKeeps, OptionsKeep DEF Find, Then, Keeps

LEMMA MayFindKeeps ==
  ASSUME NEW s, NEW f, Shaped(s), NEW t \in MayFind(s, f) PROVE Keeps(t, s)
  BY FindKeeps, OptionsKeep DEF MayFind

LEMMA WriteIntentKeeps ==
  ASSUME NEW s, NEW f, Shaped(s), NEW t \in WriteIntent(s, f) PROVE Keeps(t, s)
  BY OptionsKeep DEF WriteIntent

(***************************************************************************)
(* Sessions: what a call owes                                              *)
(***************************************************************************)

\* A session whose call owes e; if the call has failed nobody will pay.
Good(s, e) == /\ Shaped(s)
              /\ s.ok => /\ Covered(s.heap, open, iter.at, e)
                         /\ ~failed => Exact(s.heap, open, e)
              /\ ~ s.ok => Covered(s.heap, open, iter.at, Zero)

\* A lookup owes one reference to the domain it has found ...
Found(t, z) == Good(t, Plus(z, t.got)) /\ (t.ok => t.got \in FilesIn(t.heap))

\* ... which becomes the reference of the object that is opened.
Made(t, z) == /\ Good(t, z)
              /\ t.ok => /\ t.got \in Slots /\ t.got # iter.at /\ t.got \notin open
                         /\ t.heap[t.got].kind \in Objects

LEMMA KeepsGood ==
  ASSUME NEW s, NEW e \in Debts, s.ok, Good(s, e), NEW t, Keeps(t, s)
  PROVE  Good(t, e) /\ (t.ok => FilesIn(t.heap) = FilesIn(s.heap))
  BY CoveredLess DEF Good, Keeps

LEMMA DebtIsFile ==
  ASSUME NEW s, NEW e \in Debts, NEW f \in Slots, s.ok, Good(s, Plus(e, f))
  PROVE  f \in FilesIn(s.heap)
  <1>1. Plus(e, f)[f] > 0
    BY PlusIs DEF Debts
  <1> QED
    BY <1>1 DEF Good, Covered

LEMMA RetainGood ==
  ASSUME NEW s, NEW e \in Debts, NEW f \in FilesIn(s.heap), s.ok, Good(s, e)
  PROVE  /\ Good(Retain(s, f), Plus(e, f)) /\ Retain(s, f).ok
         /\ f \in Slots /\ f \in FilesIn(Retain(s, f).heap) /\ Plus(e, f) \in Debts
  <1>1. Shaped(s) /\ f \in Slots /\ Covered(s.heap, open, iter.at, e)
    BY DEF Good, FilesIn
  <1>2. /\ Shaped(Retain(s, f)) /\ Retain(s, f).ok
        /\ Retain(s, f).heap = [s.heap EXCEPT ![f].ref = @ + 1]
    BY <1>1 DEF Shaped, Retain, Fields
  <1>3. Good(Retain(s, f), Plus(e, f))
    BY <1>1, <1>2, RetainHeap DEF Good
  <1> QED
    BY <1>1, <1>2, <1>3, DebtIsFile, PlusIs

LEMMA CloseGood ==
  ASSUME NEW s, NEW e \in Debts, NEW f \in Slots, s.ok, Good(s, Plus(e, f))
  PROVE  Good(RV_file_close(s, f), e) /\ RV_file_close(s, f).ok
  <1>1. Shaped(s) /\ Covered(s.heap, open, iter.at, Plus(e, f))
    BY DEF Good
  <1>2. /\ Shaped(RV_file_close(s, f)) /\ RV_file_close(s, f).ok
        /\ RV_file_close(s, f).heap = IF s.heap[f].ref = 1
                                      THEN [s.heap EXCEPT ![f] = Freed]
                                      ELSE [s.heap EXCEPT ![f].ref = @ - 1]
    BY <1>1 DEF Shaped, RV_file_close, Fields
  <1> QED
    BY <1>1, <1>2, CloseHeap DEF Good

LEMMA NewObjectMade ==
  ASSUME NEW s, NEW z \in Debts, NEW f \in Slots, NEW k \in Objects, s.ok,
         Good(s, Plus(z, f)), NEW t \in NewObject(s, k, f)
  PROVE  Made(t, z) /\ t.ok /\ t.heap[t.got].dom = f
  <1>1. PICK q \in FreeSlots(s.heap) : t = [s EXCEPT !.heap[q] = ObjStruct(k, f), !.got = q]
    BY DEF NewObject
  <1>2. Shaped(s) /\ Covered(s.heap, open, iter.at, Plus(z, f)) /\ s.heap \in Heaps
    BY DEF Good, Covered
  <1>3. q \in Slots /\ s.heap[q].kind = "free"
    BY DEF FreeSlots, Live
  <1>4. /\ Shaped(t) /\ t.ok /\ t.got = q
        /\ t.heap = [s.heap EXCEPT ![q] = ObjStruct(k, f)]
    BY <1>1, <1>2 DEF Shaped, Fields
  <1>5. Good(t, z) /\ q \notin open /\ q # iter.at
    <2>1. /\ Covered(t.heap, open, iter.at, z) /\ q \notin open /\ q # iter.at
          /\ Exact(s.heap, open, Plus(z, f)) => Exact(t.heap, open, z)
      BY <1>2, <1>3, <1>4, AddObject
    <2> QED
      BY <1>4, <2>1 DEF Good
  <1>6. t.heap[q] = ObjStruct(k, f)
    BY <1>2, <1>3, <1>4 DEF Heaps
  <1> QED
    BY <1>3, <1>4, <1>5, <1>6 DEF Made, ObjStruct

\* A new file: the call that made it owes its first reference.
LEMMA NewFileFound ==
  ASSUME NEW s, NEW z \in Debts, NEW n \in Names \cup {NoName}, NEW w \in BOOLEAN, s.ok,
         Good(s, z), NEW t \in NewFile(s, n, w)
  PROVE  /\ Found(t, z) /\ t.ok /\ t.got \in Slots /\ t.got \notin open
         /\ t.got # iter.at
  <1>1. PICK d \in FreeSlots(s.heap) : t = [s EXCEPT !.heap[d] = FileStruct(d, n, w), !.got = d]
    BY DEF NewFile, FileAt
  <1>2. Shaped(s) /\ Covered(s.heap, open, iter.at, z)
    BY DEF Good
  <1>3. d \in Slots /\ s.heap[d].kind = "free"
    BY DEF FreeSlots, Live
  <1>4. /\ Shaped(t) /\ t.ok /\ t.got = d
        /\ t.heap = [s.heap EXCEPT ![d] = FileStruct(d, n, w)]
    BY <1>1, <1>2 DEF Shaped, Fields
  <1>5. Good(t, Plus(z, d)) /\ d \in FilesIn(t.heap) /\ d \notin open /\ d # iter.at
    BY <1>2, <1>3, <1>4, AddFile DEF Good
  <1> QED
    BY <1>3, <1>4, <1>5 DEF Found

(***************************************************************************)
(* Lookups and the making of objects                                       *)
(***************************************************************************)

\* The domain that a lookup finds takes the place of the one it was given.
LEMMA LocInfoFound ==
  ASSUME NEW s, NEW z \in Debts, NEW f \in Slots, s.ok, Good(s, Plus(z, f)),
         NEW t \in LocInfo(s, f)
  PROVE  Found(t, z)
  <1>1. /\ Shaped(s) /\ Covered(s.heap, open, iter.at, Plus(z, f)) /\ s.heap \in Heaps
        /\ f \in FilesIn(s.heap) /\ Plus(z, f) \in Debts
    BY DebtIsFile, PlusIs DEF Good, Covered
  <1>2. CASE t \in MayFail([s EXCEPT !.got = f])
    <2> DEFINE u == [s EXCEPT !.got = f]
    <2>1. Shaped(u) /\ u.heap = s.heap /\ u.got = f /\ u.ok
      BY <1>1 DEF Shaped, Fields
    <2> HIDE DEF u
    <2>2. Good(u, Plus(z, f))
      BY <2>1 DEF Good
    <2>3. Keeps(t, u)
      BY <1>2, <2>1, MayFailKeeps DEF u
    <2>4. Good(t, Plus(z, f)) /\ t.got = f /\ (t.ok => FilesIn(t.heap) = FilesIn(u.heap))
      BY <1>1, <2>1, <2>2, <2>3, KeepsGood DEF Keeps
    <2> QED
      BY <1>1, <2>1, <2>4 DEF Found
  <1> DEFINE c == RV_file_close(s, f)
  <1>3. Good(c, z) /\ c.ok /\ Shaped(c) /\ Covered(c.heap, open, iter.at, z)
    BY CloseGood DEF Good
  <1>4. CASE t = Error(c)
    <2>1. Keeps(t, c) /\ ~ t.ok
      BY <1>3, <1>4, OptionsKeep
    <2>2. Good(t, z)
      BY <1>3, <2>1, KeepsGood
    <2> QED
      BY <2>1, <2>2 DEF Found, Good
  <1>5. ASSUME NEW d \in FreeSlots(s.heap), NEW n \in Names,
               t = FileAt(c, d, n, s.heap[f].rw)
        PROVE  Found(t, z)
    <2>1. d \in Slots /\ s.heap[d].kind = "free" /\ s.heap[f].rw \in BOOLEAN /\ d # f
      BY <1>1 DEF FreeSlots, Live, Heaps, FilesIn
    <2>2. c.heap[d].kind = "free"
      BY <1>1, <2>1 DEF Shaped, RV_file_close, Fields, Heaps
    <2>3. /\ Shaped(t) /\ t.ok /\ t.got = d
          /\ t.heap = [c.heap EXCEPT ![d] = FileStruct(d, n, s.heap[f].rw)]
      <3> HIDE DEF c
      <3> QED
        BY <1>3, <1>5 DEF Shaped, Fields, FileAt
    <2> HIDE DEF c
    <2>4. /\ Covered(t.heap, open, iter.at, Plus(z, d)) /\ d \in FilesIn(t.heap)
          /\ Exact(c.heap, open, z) => Exact(t.heap, open, Plus(z, d))
      BY <1>3, <2>1, <2>2, <2>3, AddFile
    <2> QED
      BY <1>3, <2>3, <2>4 DEF Found, Good
  <1>6. \/ t \in MayFail([s EXCEPT !.got = f]) \/ t = Error(c)
        \/ \E d \in FreeSlots(s.heap), n \in Names : t = FileAt(c, d, n, s.heap[f].rw)
    BY DEF LocInfo
  <1> QED
    BY <1>2, <1>4, <1>5, <1>6

LEMMA FindLocFound ==
  ASSUME NEW s, NEW z \in Debts, NEW f \in Slots, s.ok, Good(s, Plus(z, f)),
         NEW t \in FindLoc(s, f)
  PROVE  Found(t, z)
  <1>1. Shaped(s) /\ Plus(z, f) \in Debts
    BY PlusIs DEF Good
  <1>2. \A u \in Find(s, f) : Good(u, Plus(z, f))
    BY <1>1, FindKeeps, KeepsGood
  <1>3. CASE t \in Find(s, f) /\ ~ t.ok
    BY <1>2, <1>3 DEF Found, Good
  <1>4. ASSUME NEW u \in Find(s, f), u.ok, t \in LocInfo(u, f)
        PROVE  Found(t, z)
    BY <1>2, <1>4, LocInfoFound
  <1> QED
    BY <1>3, <1>4 DEF FindLoc, Then

\* An object that is made or opened takes over the reference of the lookup.
LEMMA FoundIsMade ==
  ASSUME NEW s, NEW z \in Debts, NEW k \in Objects, s.ok, Found(s, z),
         NEW t \in NewObject(s, k, s.got)
  PROVE  Made(t, z)
  <1>1. s.got \in Slots /\ Good(s, Plus(z, s.got))
    BY DEF Found, FilesIn
  <1> QED
    BY <1>1, NewObjectMade

LEMMA FailedIsMade ==
  ASSUME NEW s, NEW e, NEW z, ~ s.ok, Good(s, e)
  PROVE  Made(s, z) /\ Good(s, z) /\ Found(s, z)
  BY DEF Made, Good, Found

LEMMA OpenLocMade ==
  ASSUME NEW s, NEW z \in Debts, NEW f \in FilesIn(s.heap), NEW k \in Objects,
         s.ok, Good(s, z), NEW t \in OpenLoc(s, k, f)
  PROVE  Made(t, z)
  <1>1. f \in Slots /\ Retain(s, f).ok /\ Good(Retain(s, f), Plus(z, f))
    BY RetainGood
  <1>2. \A u \in FindLoc(Retain(s, f), f) : Found(u, z)
    BY <1>1, FindLocFound
  <1>3. CASE t \in FindLoc(Retain(s, f), f) /\ ~ t.ok
    BY <1>2, <1>3 DEF Found, Made, Good
  <1>4. ASSUME NEW u \in FindLoc(Retain(s, f), f), u.ok, t \in NewObject(u, k, u.got)
        PROVE  Made(t, z)
    BY <1>2, <1>4, FoundIsMade
  <1> QED
    BY <1>3, <1>4 DEF OpenLoc, Then

LEMMA PostNewMade ==
  ASSUME NEW s, NEW z \in Debts, NEW f \in Slots, NEW k \in Objects,
         s.ok, Good(s, Plus(z, f)), NEW t \in PostNew(s, k, f)
  PROVE  Made(t, z) /\ (t.ok => t.heap[t.got].dom = f)
  <1> DEFINE S == Then(Request(s, "POST", f), MayFail)
  <1>1. Shaped(s) /\ Plus(z, f) \in Debts
    BY PlusIs DEF Good
  <1>2. \A u \in S : Keeps(u, s)
    BY <1>1, VerbsAre, RequestKeeps, MayFailKeeps DEF Then, Keeps
  <1> HIDE DEF S
  <1>3. \A u \in S : Keeps(NoHeaders(u), s) /\ NoHeaders(u).ok = u.ok
    BY <1>2, OptionsKeep DEF Keeps
  <1>4. \A u \in S : Good(u, Plus(z, f)) /\ Good(NoHeaders(u), Plus(z, f))
    BY <1>1, <1>2, <1>3, KeepsGood
  <1>5. CASE t \in S /\ ~ t.ok
    BY <1>4, <1>5, FailedIsMade
  <1>6. ASSUME NEW u \in S, u.ok, t \in NewObject(NoHeaders(u), k, f)
        PROVE  Made(t, z) /\ (t.ok => t.heap[t.got].dom = f)
    BY <1>3, <1>4, <1>6, NewObjectMade
  <1> QED
    BY <1>5, <1>6 DEF PostNew, Then, S

(***************************************************************************)
(* The end of a call                                                       *)
(***************************************************************************)

LEMMA ReturnIs ==
  ASSUME NEW s, Return(s)
  PROVE  heap' = s.heap /\ ok' = s.ok /\ failed' = (failed \/ ~ s.ok)
  BY DEF Return

LEMMA NewState ==
  ASSUME iter' = [x \in {"kind", "at", "dom", "host", "phase"} |-> iter'[x]],
         ~rehomed' => /\ Covered(heap', open', iter'.at, Zero)
                      /\ ~failed' => Exact(heap', open', Zero)
  PROVE  VolInv'
  BY DEF VolInv, IterShape, Covered, Exact, UsesIn, HeldIn, FilesIn, Zero, Heaps

\* A call that returns no object pays all it owes.
LEMMA PlainEnds ==
  ASSUME VolInv, NEW S, \A s \in S : Good(s, Zero), Plain(S)
  PROVE  VolInv'
  <1>1. PICK s \in S : Return(s)
    BY DEF Plain
  <1>2. Good(s, Zero) /\ open' = open /\ iter' = iter /\ rehomed' = rehomed
    BY DEF Plain
  <1>3. heap' = s.heap /\ ok' = s.ok /\ failed' = (failed \/ ~ s.ok)
    BY <1>1, ReturnIs
  <1>4. Covered(s.heap, open, iter.at, Zero) /\ (~failed' => Exact(s.heap, open, Zero))
    BY <1>2, <1>3 DEF Good
  <1> QED
    BY <1>2, <1>3, <1>4, NewState DEF VolInv, IterShape

\* A call on a location starts with nothing owed and a file that is there.
LEMMA BeginGood ==
  ASSUME VolInv, ~rehomed
  PROVE  Good(Begin, Zero) /\ heap \in Heaps
  BY BeginIs DEF VolInv, Good, Covered

LEMMA UsableIs ==
  ASSUME VolInv, NEW o \in Slots, Usable(o)
  PROVE  /\ ~rehomed /\ o \in open /\ heap[o].kind # "free" /\ heap \in Heaps
         /\ Dom(o) \in FilesIn(Begin.heap) /\ Dom(o) \in Slots
         /\ heap[o].kind = "file" => Dom(o) = o
         /\ Good(Begin, Zero) /\ Begin.ok /\ Begin.got = NoSlot /\ Shaped(Begin)
  <1>1. ~rehomed /\ o \in open /\ heap[o].kind # "free" /\ Covered(heap, open, iter.at, Zero)
    BY DEF Usable, Live, VolInv
  <1>2. heap[o].kind \in Objects \cup {"file"} /\ heap \in Heaps
    BY <1>1 DEF Covered, Heaps
  <1>3. heap[o].dom \in FilesIn(heap) /\ (heap[o].kind = "file" => heap[o].dom = o)
    BY <1>1, <1>2 DEF Covered, FilesIn
  <1> QED
    BY <1>1, <1>2, <1>3, BeginIs, BeginGood DEF Dom, FilesIn

\* A call that leaves the heap alone.
LEMMA KeepsEnds ==
  ASSUME VolInv, NEW S, \A s \in S : Keeps(s, Begin), Plain(S)
  PROVE  VolInv'
  <1>1. CASE rehomed
    BY <1>1 DEF Plain, VolInv, IterShape
  <1>2. CASE ~rehomed
    <2>1. Good(Begin, Zero) /\ Begin.ok
      BY <1>2, BeginGood, BeginIs
    <2>2. \A s \in S : Good(s, Zero)
      BY <2>1, ZeroType, KeepsGood
    <2> QED
      BY <2>2, PlainEnds
  <1> QED
    BY <1>1, <1>2

\* A call that returns an object gives it the reference it has taken.
LEMMA OpensEnds ==
  ASSUME VolInv, NEW S, \A s \in S : Made(s, Zero), Opens(S)
  PROVE  VolInv'
  <1>1. PICK s \in S : Return(s) /\ open' = IF s.ok THEN open \cup {s.got} ELSE open
    BY DEF Opens
  <1>2. Made(s, Zero) /\ iter' = iter /\ rehomed' = rehomed
    BY DEF Opens
  <1>3. heap' = s.heap /\ ok' = s.ok /\ failed' = (failed \/ ~ s.ok)
    BY <1>1, ReturnIs
  <1>4. CASE s.ok
    <2>1. /\ Covered(s.heap, open, iter.at, Zero) /\ (~failed => Exact(s.heap, open, Zero))
          /\ s.got \in Slots /\ s.got # iter.at /\ s.heap[s.got].kind \in Objects
      BY <1>2, <1>4 DEF Made, Good
    <2> DEFINE h == s.heap
               q == s.got
               op == open \cup {q}
    <2>2. /\ Covered(h, open, iter.at, Zero) /\ q \in Slots /\ q # iter.at
          /\ h[q].kind \in Objects /\ op = open \cup {q}
      BY <2>1
    <2> HIDE DEF h, q, op
    <2>3. /\ Covered(h, op, iter.at, Zero)
          /\ Exact(h, open, Zero) => Exact(h, op, Zero)
      BY <2>2, HoldObject
    <2> QED
      BY <1>1, <1>2, <1>3, <1>4, <2>1, <2>3, NewState DEF VolInv, IterShape, h, q, op
  <1>5. CASE ~ s.ok
    BY <1>1, <1>2, <1>3, <1>5, NewState DEF VolInv, IterShape, Made, Good
  <1> QED
    BY <1>4, <1>5

\* So does one that returns a file.
LEMMA OpensFileEnds ==
  ASSUME VolInv, NEW S, Opens(S),
         \A s \in S : /\ Found(s, Zero)
                      /\ s.ok => s.got \notin open /\ s.got \in Slots
  PROVE  VolInv'
  <1>1. PICK s \in S : Return(s) /\ open' = IF s.ok THEN open \cup {s.got} ELSE open
    BY DEF Opens
  <1>2. Found(s, Zero) /\ iter' = iter /\ rehomed' = rehomed
    BY DEF Opens
  <1>3. heap' = s.heap /\ ok' = s.ok /\ failed' = (failed \/ ~ s.ok)
    BY <1>1, ReturnIs
  <1>4. CASE s.ok
    <2>1. /\ Covered(s.heap, open, iter.at, Plus(Zero, s.got))
          /\ ~failed => Exact(s.heap, open, Plus(Zero, s.got))
          /\ s.got \in Slots /\ s.got \notin open
      BY <1>2, <1>4 DEF Found, Good
    <2> DEFINE op == open \cup {s.got}
    <2>2. /\ Covered(s.heap, op, iter.at, Zero)
          /\ Exact(s.heap, open, Plus(Zero, s.got)) => Exact(s.heap, op, Zero)
      BY <2>1, ZeroType, HoldFile
    <2> QED
      BY <1>1, <1>2, <1>3, <1>4, <2>1, <2>2, NewState DEF VolInv, IterShape
  <1>5. CASE ~ s.ok
    BY <1>1, <1>2, <1>3, <1>5, NewState DEF VolInv, IterShape, Found, Good
  <1> QED
    BY <1>4, <1>5

\* What closing a file and closing an object do to a heap: the structure of an
\* object goes, and with it the reference to its file.
LEMMA CloseStep ==
  ASSUME NEW s, Shaped(s), NEW op, NEW at, NEW e \in Debts, NEW f \in Slots,
         Covered(s.heap, op, at, Plus(e, f))
  PROVE  /\ Covered(RV_file_close(s, f).heap, op, at, e)
         /\ Exact(s.heap, op, Plus(e, f)) => Exact(RV_file_close(s, f).heap, op, e)
         /\ RV_file_close(s, f).ok = s.ok /\ Shaped(RV_file_close(s, f))
  <1>1. /\ RV_file_close(s, f).ok = s.ok /\ Shaped(RV_file_close(s, f))
        /\ RV_file_close(s, f).heap = IF s.heap[f].ref = 1
                                      THEN [s.heap EXCEPT ![f] = Freed]
                                      ELSE [s.heap EXCEPT ![f].ref = @ - 1]
    BY DEF Shaped, RV_file_close, Fields
  <1> QED
    BY <1>1, CloseHeap

LEMMA CloseObject ==
  ASSUME NEW op, NEW at, NEW q \in Slots, heap[q].kind \in Objects, q \notin op, q # at,
         Covered(heap, op, at, Zero)
  PROVE  /\ Covered(CloseObj(Begin, q).heap, op, at, Zero)
         /\ Exact(heap, op, Zero) => Exact(CloseObj(Begin, q).heap, op, Zero)
         /\ CloseObj(Begin, q).ok /\ Shaped(CloseObj(Begin, q))
  <1> DEFINE f == heap[q].dom
             s == [Begin EXCEPT !.heap[q] = Freed]
  <1>1. s.heap = [heap EXCEPT ![q] = Freed] /\ s.ok /\ Shaped(s)
    BY DEF Begin, Shaped, Fields
  <1>2. /\ f \in FilesIn(heap) /\ Covered(s.heap, op, at, Plus(Zero, f))
        /\ Exact(heap, op, Zero) => Exact(s.heap, op, Plus(Zero, f))
    BY <1>1, ZeroType, ReleaseObject
  <1>3. f \in Slots /\ Live(heap, f)
    BY <1>2 DEF FilesIn, Live
  <1>4. CloseObj(Begin, q) = RV_file_close(s, f)
    BY <1>3, BeginIs DEF CloseObj
  <1> HIDE DEF f, s
  <1> QED
    BY <1>1, <1>2, <1>3, <1>4, ZeroType, CloseStep

LEMMA ClosesEnds ==
  ASSUME VolInv, NEW o \in Slots, NEW k \in Objects, Closes(o, k)
  PROVE  VolInv'
  <1>1. CASE rehomed
    BY <1>1 DEF Closes, VolInv, IterShape
  <1>2. CASE ~rehomed
    <2> DEFINE s == CloseObj(Begin, o)
               op == open \ {o}
    <2>1. /\ o \in open /\ heap[o].kind \in Objects /\ Return(s) /\ open' = op
          /\ iter' = iter /\ rehomed' = rehomed
      BY DEF Closes
    <2>2. Covered(heap, open, iter.at, Zero) /\ (~failed => Exact(heap, open, Zero))
      BY <1>2 DEF VolInv
    <2>3. o # iter.at
      BY <2>1, <2>2, SessionAssumption DEF Covered
    <2>4. Covered(heap, op, iter.at, Zero) /\ (~failed => Exact(heap, op, Zero))
      BY <2>1, <2>2, <2>3, HoldObject
    <2>5. o \notin op
      OBVIOUS
    <2> HIDE DEF op
    <2>6. /\ Covered(s.heap, op, iter.at, Zero) /\ s.ok
          /\ Exact(heap, op, Zero) => Exact(s.heap, op, Zero)
      BY <2>1, <2>3, <2>4, <2>5, CloseObject
    <2> HIDE DEF s
    <2>7. heap' = s.heap /\ failed' = (failed \/ ~ s.ok)
      BY <2>1, ReturnIs
    <2> QED
      BY <2>1, <2>4, <2>6, <2>7, NewState DEF VolInv, IterShape
  <1> QED
    BY <1>1, <1>2

LEMMA CloseFileEnds ==
  ASSUME VolInv, NEW o \in Slots, CloseFile(o)
  PROVE  VolInv'
  <1>1. CASE rehomed
    BY <1>1 DEF CloseFile, VolInv, IterShape
  <1>2. CASE ~rehomed
    <2> DEFINE s == RV_file_close(Begin, o)
               op == open \ {o}
    <2>1. Covered(heap, open, iter.at, Zero) /\ (~failed => Exact(heap, open, Zero))
      BY <1>2 DEF VolInv
    <2>2. /\ o \in open /\ Live(heap, o) /\ heap[o].kind = "file" /\ open' = op
          /\ iter' = iter /\ rehomed' = rehomed /\ Return(s)
      BY <2>1 DEF CloseFile, Covered, Live
    <2>3. o \in FilesIn(heap)
      BY <2>2 DEF FilesIn
    <2>4. /\ Covered(heap, op, iter.at, Plus(Zero, o))
          /\ ~failed => Exact(heap, op, Plus(Zero, o))
      BY <2>1, <2>2, <2>3, ZeroType, DropFile
    <2>5. /\ s.heap = IF heap[o].ref = 1 THEN [heap EXCEPT ![o] = Freed]
                                        ELSE [heap EXCEPT ![o].ref = @ - 1]
          /\ s.ok
      BY DEF RV_file_close, Begin
    <2> HIDE DEF op, s
    <2>6. /\ Covered(s.heap, op, iter.at, Zero)
          /\ Exact(heap, op, Plus(Zero, o)) => Exact(s.heap, op, Zero)
      BY <2>4, <2>5, ZeroType, CloseHeap
    <2>7. heap' = s.heap /\ failed' = (failed \/ ~ s.ok)
      BY <2>2, ReturnIs
    <2> QED
      BY <2>2, <2>4, <2>5, <2>6, <2>7, NewState DEF VolInv, IterShape
  <1> QED
    BY <1>1, <1>2

\* The object of an iteration is one that only the iteration knows.
Begun(s) == Good(s, Zero) /\ (s.ok => s.got = NoSlot \/ Made(s, Zero))

LEMMA StartsEnds ==
  ASSUME VolInv, NEW k, NEW f, NEW S, \A s \in S : Begun(s), Starts(k, S, f)
  PROVE  VolInv'
  <1>1. PICK s \in S :
          /\ Return(s)
          /\ iter' = IF s.ok
                       THEN [kind |-> k, at |-> s.got, host |-> s.heap[f].name, phase |-> 1,
                             dom |-> IF s.got = NoSlot THEN f ELSE s.heap[s.got].dom]
                       ELSE NoIter
    BY DEF Starts
  <1>2. iter = NoIter /\ open' = open /\ rehomed' = rehomed /\ Begun(s)
    BY DEF Starts
  <1>3. heap' = s.heap /\ ok' = s.ok /\ failed' = (failed \/ ~ s.ok)
    BY <1>1, ReturnIs
  <1>4. iter.at = NoSlot /\ NoIter.at = NoSlot
    BY <1>2 DEF NoIter
  <1>5. iter' = [x \in {"kind", "at", "dom", "host", "phase"} |-> iter'[x]]
    BY <1>1 DEF NoIter
  <1>6. CASE s.ok
    <2>1. iter'.at = s.got
      BY <1>1, <1>6
    <2>2. Covered(s.heap, open, NoSlot, Zero) /\ (~failed => Exact(s.heap, open, Zero))
      BY <1>2, <1>4, <1>6 DEF Begun, Good
    <2>3. s.got # NoSlot => /\ s.got \in Slots /\ s.got \notin open
                            /\ s.heap[s.got].kind \in Objects
      BY <1>2, <1>6 DEF Begun, Made
    <2>4. Covered(s.heap, open, s.got, Zero)
      BY <2>2, <2>3 DEF Covered
    <2> QED
      BY <1>2, <1>3, <1>5, <2>1, <2>2, <2>4, NewState
  <1>7. CASE ~ s.ok
    <2>1. iter'.at = NoSlot /\ Covered(s.heap, open, NoSlot, Zero)
      BY <1>1, <1>2, <1>4, <1>7 DEF Begun, Good
    <2> QED
      BY <1>2, <1>3, <1>5, <1>7, <2>1, NewState
  <1> QED
    BY <1>6, <1>7

\* With the end of an iteration its object and that object's reference go.
LEMMA CloseIterIs ==
  ASSUME VolInv, ~rehomed
  PROVE  LET s == CloseIterObject(Begin)
         IN /\ Shaped(s) /\ s.ok
            /\ Covered(s.heap, open, NoSlot, Zero)
            /\ ~failed => Exact(s.heap, open, Zero)
  <1>1. /\ Covered(heap, open, iter.at, Zero) /\ Covered(heap, open, NoSlot, Zero)
        /\ ~failed => Exact(heap, open, Zero)
    BY ZeroType, CoveredLess DEF VolInv
  <1>2. CASE iter.at = NoSlot
    BY <1>1, <1>2, BeginIs DEF CloseIterObject
  <1>3. CASE iter.at # NoSlot
    <2> DEFINE q == iter.at
    <2>1. q \in Slots /\ heap[q].kind \in Objects /\ q \notin open /\ q # NoSlot
      BY <1>1, <1>3 DEF Covered
    <2>2. CloseIterObject(Begin) = CloseObj(Begin, q)
      BY <1>3 DEF CloseIterObject
    <2> HIDE DEF q
    <2> QED
      BY <1>1, <2>1, <2>2, CloseObject
  <1> QED
    BY <1>2, <1>3

LEMMA FinishEnds ==
  ASSUME VolInv, NEW t, Return(t), iter' = NoIter, open' = open, rehomed' = rehomed,
         ~rehomed => t.heap = CloseIterObject(Begin).heap
  PROVE  VolInv'
  <1>1. /\ iter' = [x \in {"kind", "at", "dom", "host", "phase"} |-> iter'[x]]
        /\ iter'.at = NoSlot
    BY DEF NoIter
  <1>2. heap' = t.heap /\ failed' = (failed \/ ~ t.ok)
    BY ReturnIs
  <1> QED
    BY <1>1, <1>2, CloseIterIs, NewState

\* A call that fails in the middle of an iteration frees the object of the
\* iteration at most: its reference stays.
LEMMA AbortEnds ==
  ASSUME VolInv, NEW t, Return(t), ~ t.ok, iter' = NoIter, open' = open, rehomed' = rehomed,
         t.heap = heap \/ (iter.at # NoSlot /\ t.heap = [heap EXCEPT ![iter.at] = Freed])
  PROVE  VolInv'
  <1>1. /\ iter' = [x \in {"kind", "at", "dom", "host", "phase"} |-> iter'[x]]
        /\ iter'.at = NoSlot
    BY DEF NoIter
  <1>2. heap' = t.heap /\ failed'
    BY ReturnIs
  <1>3. CASE ~rehomed
    <2>1. Covered(heap, open, iter.at, Zero) /\ Covered(heap, open, NoSlot, Zero)
      BY <1>3, ZeroType, CoveredLess DEF VolInv
    <2>2. CASE iter.at # NoSlot /\ t.heap = [heap EXCEPT ![iter.at] = Freed]
      <3> DEFINE q == iter.at
                 f == heap[q].dom
                 g == t.heap
      <3>1. /\ q \in Slots /\ heap[q].kind \in Objects /\ q \notin open /\ q # NoSlot
            /\ g = [heap EXCEPT ![q] = Freed]
        BY <2>1, <2>2 DEF Covered
      <3> HIDE DEF q, g
      <3>2. f \in FilesIn(heap) /\ Covered(g, open, NoSlot, Plus(Zero, f))
        BY <2>1, <3>1, ZeroType, ReleaseObject
      <3>3. Covered(g, open, NoSlot, Zero)
        BY <3>2, ZeroType, PlusIs, CoveredLess DEF FilesIn
      <3> QED
        BY <1>1, <1>2, <3>3, NewState DEF g
    <2> QED
      BY <1>1, <1>2, <2>1, <2>2, NewState
  <1> QED
    BY <1>1, <1>2, <1>3, NewState

LEMMA VisitLinksEnds ==
  ASSUME VolInv, RV_object_visit_links
  PROVE  VolInv'
  <1> DEFINE Ask(s) == Perform(SetOpt(Host(s, iter.host), "GET"), "GET", iter.host, TRUE)
             Table(s) == RV_build_object_table(NoHeaders(s), iter.dom)
             lost(s) == IF iter.at = NoSlot \/ s.ok THEN s
                                                    ELSE [s EXCEPT !.heap[iter.at] = Freed]
  <1>1. PICK s \in Then(Ask(Begin), Table) :
               /\ Return(lost(s))
               /\ iter' = IF s.ok THEN [iter EXCEPT !.phase = 2] ELSE NoIter
    BY DEF RV_object_visit_links
  <1>2. open' = open /\ rehomed' = rehomed
    BY DEF RV_object_visit_links
  <1>3. \A u \in Ask(Begin) : Keeps(u, Begin)
    <2>1. Ask(Begin) = RequestName(Begin, "GET", iter.host)
      BY DEF RequestName
    <2> HIDE DEF Ask
    <2> QED
      BY <2>1, BeginIs, VerbsAre, RequestNameKeeps
  <1>4. ASSUME NEW u, Shaped(u), NEW t \in RV_build_object_table(u, iter.dom)
        PROVE  Keeps(t, u)
    BY <1>4, FindKeeps, QueryKeeps, OptionsKeep DEF RV_build_object_table, Then, Keeps
  <1> HIDE DEF Ask
  <1>5. Keeps(s, Begin)
    BY <1>3, <1>4, OptionsKeep DEF Then, Keeps
  <1>6. s.heap = heap /\ Shaped(s)
    BY <1>5, BeginIs DEF Keeps
  <1>7. CASE s.ok
    <2>1. iter'.at = iter.at /\ iter' = [x \in {"kind", "at", "dom", "host", "phase"} |-> iter'[x]]
      BY <1>1, <1>7 DEF VolInv, IterShape
    <2>2. lost(s) = s
      BY <1>7
    <2> HIDE DEF lost
    <2>3. Return(s)
      BY <1>1, <2>2
    <2>4. heap' = heap /\ (~failed' => ~failed)
      BY <1>6, <1>7, <2>3, ReturnIs
    <2> QED
      BY <1>2, <2>1, <2>4, NewState DEF VolInv
  <1>8. CASE ~ s.ok
    <2> DEFINE t == lost(s)
    <2>1. /\ ~ t.ok
          /\ t.heap = heap \/ (iter.at # NoSlot /\ t.heap = [heap EXCEPT ![iter.at] = Freed])
      BY <1>6, <1>8 DEF Shaped, Fields
    <2>2. Return(t) /\ iter' = NoIter
      BY <1>1, <1>8
    <2> HIDE DEF t
    <2> QED
      BY <1>2, <2>1, <2>2, AbortEnds
  <1> QED
    BY <1>6, <1>7, <1>8 DEF Shaped

LEMMA AbortsEnds ==
  ASSUME VolInv, NEW k, Aborts(k)
  PROVE  VolInv'
  <1> DEFINE t == Error(IF iter.at = NoSlot THEN Begin
                                            ELSE [Begin EXCEPT !.heap[iter.at] = Freed])
  <1>1. Return(t) /\ iter' = NoIter /\ open' = open /\ rehomed' = rehomed
    BY DEF Aborts
  <1>2. /\ ~ t.ok
        /\ t.heap = heap \/ (iter.at # NoSlot /\ t.heap = [heap EXCEPT ![iter.at] = Freed])
    BY DEF Begin, Error
  <1> HIDE DEF t
  <1> QED
    BY <1>1, <1>2, AbortEnds

LEMMA IterStepsEnd ==
  ASSUME VolInv, IterSteps
  PROVE  VolInv'
  <1> DEFINE s == CloseIterObject(Begin)
             t == NoHeaders(NoCustom(s))
  <1>1. ~rehomed => t.heap = s.heap
    BY CloseIterIs, OptionsKeep DEF Keeps
  <1>2. CASE RV_traverse_link_table
    <2>1. Return(t) /\ iter' = NoIter /\ open' = open /\ rehomed' = rehomed
      BY <1>2 DEF RV_traverse_link_table, Finishes
    <2> QED
      BY <1>1, <2>1, FinishEnds
  <1>3. CASE RV_traverse_attr_table
    <2>1. Return(t) /\ iter' = NoIter /\ open' = open /\ rehomed' = rehomed
      BY <1>3 DEF RV_traverse_attr_table, Finishes
    <2> QED
      BY <1>1, <2>1, FinishEnds
  <1>4. CASE RV_traverse_object_table
    <2>1. Return(s) /\ iter' = NoIter /\ open' = open /\ rehomed' = rehomed
      BY <1>4 DEF RV_traverse_object_table, Finishes
    <2> QED
      BY <2>1, FinishEnds
  <1>5. CASE RV_object_visit_links
    BY <1>5, VisitLinksEnds
  <1>6. CASE \E k \in {"link", "visit", "attr"} : Aborts(k)
    BY <1>6, AbortsEnds
  <1> QED
    BY <1>2, <1>3, <1>4, <1>5, <1>6
       DEF IterSteps, RV_link_iter_callback_fails, RV_object_iter_callback_fails,
           RV_attr_iter_callback_fails

(***************************************************************************)
(* The callbacks that leave the heap alone                                 *)
(***************************************************************************)

LEMMA TransferKeeps ==
  ASSUME NEW s, NEW verb, NEW f, Shaped(s), NEW t \in Transfer(s, verb, f)
  PROVE  Keeps(t, s)
  <1> DEFINE w == Wire(SetOpt(Host(NoHeaders(s), s.heap[f].name), verb), verb,
                       s.heap[f].name, s.heap[f].rw \/ verb # "PUT")
             u == [s EXCEPT !.sent = @ \cup {w}]
  <1>1. t \in MayFail(u)
    BY DEF Transfer
  <1> HIDE DEF w
  <1>2. Keeps(u, s)
    BY DEF Shaped, Keeps, Fields
  <1> HIDE DEF u
  <1> QED
    BY <1>1, <1>2, MayFailKeeps DEF Keeps

LEMMA IndexedKeeps ==
  ASSUME NEW s, NEW f, Shaped(s), NEW t \in Indexed(s, f) PROVE Keeps(t, s)
  BY FindKeeps, QueryKeeps DEF Indexed, Then, Keeps

\* What the two "exists" callbacks ask; any answer but a success is a no.
Exists(s, f) == Then(Request(s, "GET", f), LAMBDA t : {NoCustom(NoHeaders(t))})

LEMMA ExistsKeeps ==
  ASSUME NEW s, NEW f, Shaped(s), NEW t \in Exists(s, f) PROVE Keeps(t, s)
  <1>1. \A u \in Request(s, "GET", f) : Keeps(u, s)
    BY VerbsAre, RequestKeeps
  <1>2. \A u : Shaped(u) => Keeps(NoCustom(NoHeaders(u)), u)
    BY OptionsKeep DEF Keeps
  <1> QED
    BY <1>1, <1>2 DEF Exists, Then, Keeps

\* What the callbacks answer from what they hold.
Local(s) == Then(MayFail(s), LAMBDA t : {NoHeaders(t)})

LEMMA LocalKeeps ==
  ASSUME NEW s, Shaped(s), NEW t \in Local(s) PROVE Keeps(t, s)
  <1>1. \A u \in MayFail(s) : Keeps(u, s)
    BY MayFailKeeps
  <1>2. \A u : Shaped(u) => Keeps(NoHeaders(u), u)
    BY OptionsKeep
  <1> QED
    BY <1>1, <1>2 DEF Local, Then, Keeps

\* Files, groups and datatypes.
LEMMA FileKeeps ==
  ASSUME VolInv, NEW o \in Slots,
         RV_file_get(o) \/ RV_file_specific_flush(o) \/ RV_group_get_info(o)
         \/ RV_group_get_gcpl(o) \/ RV_datatype_get(o)
  PROVE  VolInv'
  <1> DEFINE f == Dom(o)
  <1>1. CASE RV_file_get(o)
    <2> DEFINE S == MayFail(Begin)
    <2>1. \A s \in S : Keeps(s, Begin)
      BY BeginIs, MayFailKeeps
    <2>2. Plain(S)
      BY <1>1 DEF RV_file_get
    <2> HIDE DEF S
    <2> QED
      BY <2>1, <2>2, KeepsEnds
  <1>2. CASE RV_file_specific_flush(o)
    <2> DEFINE S == Flush(Begin, f)
    <2>1. \A s \in S : Keeps(s, Begin)
      BY BeginIs, FlushKeeps
    <2>2. Plain(S)
      BY <1>2 DEF RV_file_specific_flush
    <2> HIDE DEF S
    <2> QED
      BY <2>1, <2>2, KeepsEnds
  <1>3. CASE RV_group_get_info(o)
    <2> DEFINE S == Query(Begin, f)
    <2>1. \A s \in S : Keeps(s, Begin)
      BY BeginIs, QueryKeeps
    <2>2. Plain(S)
      BY <1>3 DEF RV_group_get_info
    <2> HIDE DEF S
    <2> QED
      BY <2>1, <2>2, KeepsEnds
  <1>4. CASE RV_group_get_gcpl(o)
    <2> DEFINE S == Local(Begin)
    <2>1. \A s \in S : Keeps(s, Begin)
      BY BeginIs, LocalKeeps
    <2>2. Plain(S)
      BY <1>4 DEF RV_group_get_gcpl, Local
    <2> HIDE DEF S
    <2> QED
      BY <2>1, <2>2, KeepsEnds
  <1>5. CASE RV_datatype_get(o)
    <2> DEFINE S == MayFail(Begin)
    <2>1. \A s \in S : Keeps(s, Begin)
      BY BeginIs, MayFailKeeps
    <2>2. Plain(S)
      BY <1>5 DEF RV_datatype_get
    <2> HIDE DEF S
    <2> QED
      BY <2>1, <2>2, KeepsEnds
  <1> QED
    BY <1>1, <1>2, <1>3, <1>4, <1>5

\* Datasets.
LEMMA DatasetKeeps ==
  ASSUME VolInv, NEW o \in Slots,
         RV_dataset_write(o) \/ RV_dataset_get_storage_size(o) \/ RV_dataset_get(o)
         \/ RV_dataset_specific_set_extent(o)
  PROVE  VolInv'
  <1> DEFINE f == Dom(o)
  <1>1. CASE RV_dataset_write(o)
    <2> DEFINE S == Then(WriteIntent(Begin, f), LAMBDA s : Transfer(s, "PUT", f))
    <2>1. \A s \in S : Keeps(s, Begin)
      BY BeginIs, WriteIntentKeeps, TransferKeeps DEF Then, Keeps
    <2>2. Plain(S)
      BY <1>1 DEF RV_dataset_write
    <2> HIDE DEF S
    <2> QED
      BY <2>1, <2>2, KeepsEnds
  <1>2. CASE RV_dataset_get_storage_size(o)
    <2> DEFINE S == Then(Flush(Begin, f), LAMBDA s : Query(s, f))
    <2>1. \A s \in S : Keeps(s, Begin)
      BY BeginIs, FlushKeeps, QueryKeeps DEF Then, Keeps
    <2>2. Plain(S)
      BY <1>2 DEF RV_dataset_get_storage_size
    <2> HIDE DEF S
    <2> QED
      BY <2>1, <2>2, KeepsEnds
  <1>3. CASE RV_dataset_get(o)
    <2> DEFINE S == Local(Begin)
    <2>1. \A s \in S : Keeps(s, Begin)
      BY BeginIs, LocalKeeps
    <2>2. Plain(S)
      BY <1>3 DEF RV_dataset_get, Local
    <2> HIDE DEF S
    <2> QED
      BY <2>1, <2>2, KeepsEnds
  <1>4. CASE RV_dataset_specific_set_extent(o)
    <2> DEFINE S == Then(Then(WriteIntent(Begin, f), MayFail), LAMBDA s : Store(s, f))
    <2>1. \A s \in S : Keeps(s, Begin)
      BY BeginIs, WriteIntentKeeps, MayFailKeeps, StoreKeeps DEF Then, Keeps
    <2>2. Plain(S)
      BY <1>4 DEF RV_dataset_specific_set_extent
    <2> HIDE DEF S
    <2> QED
      BY <2>1, <2>2, KeepsEnds
  <1> QED
    BY <1>1, <1>2, <1>3, <1>4

\* Links.
LEMMA LinkKeeps ==
  ASSUME VolInv, NEW o \in Slots,
         RV_link_create_soft(o) \/ RV_link_get_info(o) \/ RV_link_get_name(o)
         \/ RV_link_get_val(o) \/ RV_link_specific_delete(o) \/ RV_link_specific_exists(o)
  PROVE  VolInv'
  <1> DEFINE f == Dom(o)
  <1>1. CASE RV_link_create_soft(o)
    <2> DEFINE S == Then(Then(WriteIntent(Begin, f), MayFail), LAMBDA s : Store(s, f))
    <2>1. \A s \in S : Keeps(s, Begin)
      BY BeginIs, WriteIntentKeeps, MayFailKeeps, StoreKeeps DEF Then, Keeps
    <2>2. Plain(S)
      BY <1>1 DEF RV_link_create_soft
    <2> HIDE DEF S
    <2> QED
      BY <2>1, <2>2, KeepsEnds
  <1>2. CASE RV_link_get_info(o)
    <2> DEFINE S == Then(MayFind(Begin, f), LAMBDA s : Query(s, f))
    <2>1. \A s \in S : Keeps(s, Begin)
      BY BeginIs, MayFindKeeps, QueryKeeps DEF Then, Keeps
    <2>2. Plain(S)
      BY <1>2 DEF RV_link_get_info
    <2> HIDE DEF S
    <2> QED
      BY <2>1, <2>2, KeepsEnds
  <1>3. CASE RV_link_get_name(o)
    <2> DEFINE S == Then(Find(Begin, f), LAMBDA s : Query(s, f))
    <2>1. \A s \in S : Keeps(s, Begin)
      BY BeginIs, FindKeeps, QueryKeeps DEF Then, Keeps
    <2>2. Plain(S)
      BY <1>3 DEF RV_link_get_name
    <2> HIDE DEF S
    <2> QED
      BY <2>1, <2>2, KeepsEnds
  <1>4. CASE RV_link_get_val(o)
    <2> DEFINE S == Then(MayFind(Begin, f), LAMBDA s : Query(s, f))
    <2>1. \A s \in S : Keeps(s, Begin)
      BY BeginIs, MayFindKeeps, QueryKeeps DEF Then, Keeps
    <2>2. Plain(S)
      BY <1>4 DEF RV_link_get_val
    <2> HIDE DEF S
    <2> QED
      BY <2>1, <2>2, KeepsEnds
  <1>5. CASE RV_link_specific_delete(o)
    <2> DEFINE S == Then(MayFind(Begin, f), LAMBDA s : Remove(s, f))
    <2>1. \A s \in S : Keeps(s, Begin)
      BY BeginIs, MayFindKeeps, RemoveKeeps DEF Then, Keeps
    <2>2. Plain(S)
      BY <1>5 DEF RV_link_specific_delete
    <2> HIDE DEF S
    <2> QED
      BY <2>1, <2>2, KeepsEnds
  <1>6. CASE RV_link_specific_exists(o)
    <2> DEFINE S == Then(MayFind(Begin, f), LAMBDA s : Exists(s, f))
    <2>1. \A s \in S : Keeps(s, Begin)
      BY BeginIs, MayFindKeeps, ExistsKeeps DEF Then, Keeps
    <2>2. Plain(S)
      BY <1>6 DEF RV_link_specific_exists, Exists
    <2> HIDE DEF S
    <2> QED
      BY <2>1, <2>2, KeepsEnds
  <1> QED
    BY <1>1, <1>2, <1>3, <1>4, <1>5, <1>6

\* Attributes.
LEMMA AttrKeeps ==
  ASSUME VolInv, NEW o \in Slots,
         RV_attr_read(o) \/ RV_attr_write(o) \/ RV_attr_get_info(o)
         \/ RV_attr_get_info_by_name(o) \/ RV_attr_get_name_by_idx(o) \/ RV_attr_get(o)
         \/ RV_attr_specific_delete_by_idx(o) \/ RV_attr_specific_delete(o) \/ RV_attr_specific_exists(o)
  PROVE  VolInv'
  <1> DEFINE f == Dom(o)
  <1>1. CASE RV_attr_read(o)
    <2> DEFINE S == Query(Begin, f)
    <2>1. \A s \in S : Keeps(s, Begin)
      BY BeginIs, QueryKeeps
    <2>2. Plain(S)
      BY <1>1 DEF RV_attr_read
    <2> HIDE DEF S
    <2> QED
      BY <2>1, <2>2, KeepsEnds
  <1>2. CASE RV_attr_write(o)
    <2> DEFINE S == Then(WriteIntent(Begin, f), LAMBDA s : Store(s, f))
    <2>1. \A s \in S : Keeps(s, Begin)
      BY BeginIs, WriteIntentKeeps, StoreKeeps DEF Then, Keeps
    <2>2. Plain(S)
      BY <1>2 DEF RV_attr_write
    <2> HIDE DEF S
    <2> QED
      BY <2>1, <2>2, KeepsEnds
  <1>3. CASE RV_attr_get_info(o)
    <2> DEFINE S == Query(Begin, f)
    <2>1. \A s \in S : Keeps(s, Begin)
      BY BeginIs, QueryKeeps
    <2>2. Plain(S)
      BY <1>3 DEF RV_attr_get_info
    <2> HIDE DEF S
    <2> QED
      BY <2>1, <2>2, KeepsEnds
  <1>4. CASE RV_attr_get_info_by_name(o)
    <2> DEFINE S == Then(Find(Begin, f) \cup Indexed(Begin, f), LAMBDA s : Query(s, f))
    <2>1. \A s \in S : Keeps(s, Begin)
      BY BeginIs, FindKeeps, IndexedKeeps, QueryKeeps DEF Then, Keeps
    <2>2. Plain(S)
      BY <1>4 DEF RV_attr_get_info_by_name
    <2> HIDE DEF S
    <2> QED
      BY <2>1, <2>2, KeepsEnds
  <1>5. CASE RV_attr_get_name_by_idx(o)
    <2> DEFINE S == Indexed(Begin, f)
    <2>1. \A s \in S : Keeps(s, Begin)
      BY BeginIs, IndexedKeeps
    <2>2. Plain(S)
      BY <1>5 DEF RV_attr_get_name_by_idx
    <2> HIDE DEF S
    <2> QED
      BY <2>1, <2>2, KeepsEnds
  <1>6. CASE RV_attr_get(o)
    <2> DEFINE S == Local(Begin)
    <2>1. \A s \in S : Keeps(s, Begin)
      BY BeginIs, LocalKeeps
    <2>2. Plain(S)
      BY <1>6 DEF RV_attr_get, Local
    <2> HIDE DEF S
    <2> QED
      BY <2>1, <2>2, KeepsEnds
  <1>7. CASE RV_attr_specific_delete_by_idx(o)
    <2> DEFINE S == Then(Then(Indexed(Begin, f), LAMBDA s : Find(s, f)), LAMBDA s : Remove(s, f))
    <2>1. \A s \in S : Keeps(s, Begin)
      BY BeginIs, IndexedKeeps, FindKeeps, RemoveKeeps DEF Then, Keeps
    <2>2. Plain(S)
      BY <1>7 DEF RV_attr_specific_delete_by_idx
    <2> HIDE DEF S
    <2> QED
      BY <2>1, <2>2, KeepsEnds
  <1>8. CASE RV_attr_specific_delete(o)
    <2> DEFINE S == Then(Then(WriteIntent(Begin, f), LAMBDA s : MayFind(s, f)), LAMBDA s : Remove(s, f))
    <2>1. \A s \in S : Keeps(s, Begin)
      BY BeginIs, WriteIntentKeeps, MayFindKeeps, RemoveKeeps DEF Then, Keeps
    <2>2. Plain(S)
      BY <1>8 DEF RV_attr_specific_delete
    <2> HIDE DEF S
    <2> QED
      BY <2>1, <2>2, KeepsEnds
  <1>9. CASE RV_attr_specific_exists(o)
    <2> DEFINE S == Then(MayFind(Begin, f), LAMBDA s : Exists(s, f))
    <2>1. \A s \in S : Keeps(s, Begin)
      BY BeginIs, MayFindKeeps, ExistsKeeps DEF Then, Keeps
    <2>2. Plain(S)
      BY <1>9 DEF RV_attr_specific_exists, Exists
    <2> HIDE DEF S
    <2> QED
      BY <2>1, <2>2, KeepsEnds
  <1> QED
    BY <1>1, <1>2, <1>3, <1>4, <1>5, <1>6, <1>7, <1>8, <1>9

LEMMA OtherKeeps ==
  ASSUME VolInv
  PROVE  /\ \A n \in Names : RV_file_specific_delete(n) => VolInv'
         /\ \A o \in Slots : RV_dataset_read(o) => VolInv'
         /\ \A o, t \in Slots : RV_link_create_hard(o, t) => VolInv'
  <1>1. ASSUME NEW n \in Names, RV_file_specific_delete(n) PROVE VolInv'
    <2> DEFINE S == Then(RequestName(Begin, "DELETE", n), LAMBDA s : {NoCustom(NoHeaders(s))})
    <2>1. \A u \in RequestName(Begin, "DELETE", n) : Keeps(u, Begin)
      BY BeginIs, VerbsAre, RequestNameKeeps
    <2>2. \A u : Shaped(u) => Keeps(NoCustom(NoHeaders(u)), u)
      BY OptionsKeep DEF Keeps
    <2>3. \A s \in S : Keeps(s, Begin)
      BY <2>1, <2>2 DEF Then, Keeps
    <2>4. Plain(S)
      BY <1>1 DEF RV_file_specific_delete
    <2> HIDE DEF S
    <2> QED
      BY <2>3, <2>4, KeepsEnds
  <1>2. ASSUME NEW o \in Slots, RV_dataset_read(o) PROVE VolInv'
    <2>1. PICK verb \in {"GET", "POST"} : Plain(Transfer(Begin, verb, Dom(o)))
      BY <1>2 DEF RV_dataset_read
    <2>2. \A s \in Transfer(Begin, verb, Dom(o)) : Keeps(s, Begin)
      BY BeginIs, TransferKeeps
    <2> QED
      BY <2>1, <2>2, KeepsEnds
  <1>3. ASSUME NEW o \in Slots, NEW t \in Slots, RV_link_create_hard(o, t) PROVE VolInv'
    <2> DEFINE f == Dom(o)
               Same(s)   == IF heap[Dom(t)].name = heap[f].name THEN {s} ELSE {Error(s)}
               Target(s) == MayFind(s, Dom(t))
               S == Then(Then(Then(WriteIntent(Begin, f), Same), Target), LAMBDA s : Store(s, f))
    <2>1. \A u : Shaped(u) => \A v \in Same(u) : Keeps(v, u)
      BY OptionsKeep
    <2>2. Plain(S)
      BY <1>3 DEF RV_link_create_hard
    <2> HIDE DEF Same
    <2>3. \A s \in Then(Then(WriteIntent(Begin, f), Same), Target) : Keeps(s, Begin)
      BY <2>1, BeginIs, WriteIntentKeeps, MayFindKeeps DEF Then, Keeps
    <2>4. \A s \in S : Keeps(s, Begin)
      BY <2>3, StoreKeeps DEF Then, Keeps
    <2> HIDE DEF S
    <2> QED
      BY <2>2, <2>4, KeepsEnds
  <1> QED
    BY <1>1, <1>2, <1>3

(***************************************************************************)
(* The callbacks that create or open an object                             *)
(***************************************************************************)

\* The callbacks that create an object count its file, check the directory
\* part of its name and post it.
Creates(s, k, f) ==
  Then(WriteIntent(s, f),
       LAMBDA t : Then(MayFind(Retain(t, f), f), LAMBDA u : PostNew(u, k, f)))

LEMMA CreatesMade ==
  ASSUME NEW s, NEW z \in Debts, NEW f \in FilesIn(s.heap), NEW k \in Objects,
         s.ok, Good(s, z), NEW t \in Creates(s, k, f)
  PROVE  Made(t, z) /\ (t.ok => t.heap[t.got].dom = f)
  <1>1. Shaped(s) /\ f \in Slots
    BY DEF Good, FilesIn
  <1>2. \A u \in WriteIntent(s, f) : Good(u, z) /\ (u.ok => FilesIn(u.heap) = FilesIn(s.heap))
    BY <1>1, WriteIntentKeeps, KeepsGood
  <1>3. CASE t \in WriteIntent(s, f) /\ ~ t.ok
    BY <1>2, <1>3, FailedIsMade
  <1>4. ASSUME NEW u \in WriteIntent(s, f), u.ok,
               t \in Then(MayFind(Retain(u, f), f), LAMBDA v : PostNew(v, k, f))
        PROVE  Made(t, z) /\ (t.ok => t.heap[t.got].dom = f)
    <2> DEFINE r == Retain(u, f)
    <2>1. Good(r, Plus(z, f)) /\ r.ok /\ Plus(z, f) \in Debts
      BY <1>2, <1>4, RetainGood
    <2> HIDE DEF r
    <2>2. \A v \in MayFind(r, f) : Good(v, Plus(z, f))
      BY <2>1, MayFindKeeps, KeepsGood DEF Good
    <2>3. CASE t \in MayFind(r, f) /\ ~ t.ok
      BY <2>2, <2>3, FailedIsMade
    <2>4. ASSUME NEW v \in MayFind(r, f), v.ok, t \in PostNew(v, k, f)
          PROVE  Made(t, z) /\ (t.ok => t.heap[t.got].dom = f)
      BY <1>1, <2>2, <2>4, PostNewMade
    <2> QED
      BY <1>4, <2>3, <2>4 DEF Then, r
  <1> QED
    BY <1>3, <1>4 DEF Creates, Then

\* The second request asks for the group that the first one has made, and its
\* handle is closed again.
LEMMA CloseMade ==
  ASSUME NEW s, NEW e \in Debts, NEW f \in Slots, s.ok, Made(s, e), s.heap[s.got].dom = f,
         NEW t, t = RV_file_close([s EXCEPT !.heap[s.got] = Freed], f)
  PROVE  Good(t, e)
  <1> DEFINE q == s.got
             h == s.heap
             u == [s EXCEPT !.heap[q] = Freed]
             g == u.heap
  <1>1. /\ Shaped(s) /\ Covered(h, open, iter.at, e) /\ (~failed => Exact(h, open, e))
        /\ q \in Slots /\ q # iter.at /\ q \notin open /\ h[q].kind \in Objects
        /\ h[q].dom = f
    BY DEF Made, Good
  <1>2. Shaped(u) /\ u.ok /\ g = [h EXCEPT ![q] = Freed]
    BY <1>1 DEF Shaped, Fields
  <1> HIDE DEF h, g, q, u
  <1>3. /\ Covered(g, open, iter.at, Plus(e, f))
        /\ Exact(h, open, e) => Exact(g, open, Plus(e, f))
    BY <1>1, <1>2, ReleaseObject
  <1>4. Good(u, Plus(e, f))
    BY <1>1, <1>2, <1>3 DEF Good, g
  <1>5. t = RV_file_close(u, f)
    BY DEF u, q
  <1> QED
    BY <1>2, <1>4, <1>5, CloseGood

LEMMA IntermediateMade ==
  ASSUME NEW s, NEW z \in Debts, NEW f \in FilesIn(s.heap),
         s.ok, Good(s, z), NEW t \in CreateIntermediate(s, f)
  PROVE  Made(t, z)
  <1> DEFINE e == Plus(z, f)
             r == Retain(s, f)
             Sub(u)   == CreateGroup([u EXCEPT !.ok = TRUE], f)
             Again(u) == {[v EXCEPT !.ok = TRUE] : v \in Find(u, f)}
             Close(u) == {RV_file_close([u EXCEPT !.heap[u.got] = Freed], f)}
             Missing  == {u \in Find(r, f) : ~u.ok}
             Subs     == UNION {Sub(u) : u \in Missing}
  <1>1. Good(r, e) /\ r.ok /\ e \in Debts /\ f \in Slots /\ f \in FilesIn(r.heap)
    BY RetainGood
  <1> HIDE DEF r, e
  <1>2. ASSUME NEW u \in Subs PROVE Made(u, e) /\ (u.ok => u.heap[u.got].dom = f)
    <2>1. PICK m \in Missing : u \in Sub(m)
      BY <1>2
    <2> DEFINE v == [m EXCEPT !.ok = TRUE]
    <2>2. Keeps(m, r) /\ Shaped(m)
      BY <1>1, FindKeeps DEF Good, Keeps
    <2>3. Shaped(v) /\ v.heap = r.heap /\ v.ok
      BY <2>2 DEF Keeps, Shaped, Fields
    <2>4. u \in Creates(v, "group", f)
      BY <2>1 DEF CreateGroup, Creates
    <2> HIDE DEF v
    <2>5. Good(v, e) /\ f \in FilesIn(v.heap)
      BY <1>1, <2>3 DEF Good
    <2> QED
      BY <1>1, <2>3, <2>4, <2>5, CreatesMade DEF Objects
  <1> HIDE DEF Subs
  <1>3. ASSUME NEW u \in Then(Subs, Again) PROVE Made(u, e) /\ (u.ok => u.heap[u.got].dom = f)
    <2>1. CASE u \in Subs /\ ~ u.ok
      BY <1>2, <2>1
    <2>2. ASSUME NEW v \in Subs, v.ok, NEW w \in Find(v, f), u = [w EXCEPT !.ok = TRUE]
          PROVE  Made(u, e) /\ (u.ok => u.heap[u.got].dom = f)
      <3>1. Made(v, e) /\ v.heap[v.got].dom = f /\ Shaped(v)
        BY <1>2, <2>2 DEF Made, Good
      <3>2. Keeps(w, v)
        BY <3>1, FindKeeps
      <3>3. Shaped(u) /\ u.heap = v.heap /\ u.got = v.got /\ u.ok
        BY <2>2, <3>2 DEF Keeps, Shaped, Fields
      <3> QED
        BY <2>2, <3>1, <3>3 DEF Made, Good
    <2> QED
      BY <2>1, <2>2 DEF Then
  <1>4. ASSUME NEW u \in Then(Then(Subs, Again), Close) PROVE Good(u, e)
    <2>1. CASE u \in Then(Subs, Again) /\ ~ u.ok
      BY <1>3, <2>1 DEF Made
    <2>2. ASSUME NEW v \in Then(Subs, Again), v.ok, u \in Close(v)
          PROVE  Good(u, e)
      <3>1. u = RV_file_close([v EXCEPT !.heap[v.got] = Freed], f)
        BY <2>2
      <3> QED
        BY <1>1, <1>3, <2>2, <3>1, CloseMade
    <2> HIDE DEF Again, Close
    <2> QED
      BY <2>1, <2>2 DEF Then
  <1>5. CASE t \in Then(Then(Subs, Again), Close) /\ ~ t.ok
    BY <1>4, <1>5, FailedIsMade
  <1>6. ASSUME NEW u \in Then(Then(Subs, Again), Close), u.ok, t \in PostNew(u, "group", f)
        PROVE  Made(t, z)
    BY <1>1, <1>4, <1>6, PostNewMade DEF e, Objects
  <1> DEFINE M == Then(Then(Subs, Again), Close)
  <1>7. t \in Then(M, LAMBDA u : PostNew(u, "group", f))
    BY DEF CreateIntermediate, Subs, r
  <1> HIDE DEF M
  <1> QED
    BY <1>5, <1>6, <1>7 DEF Then, M

\* Creating and opening an object, in every form.
LEMMA ObjectOpens ==
  ASSUME VolInv, NEW o \in Slots,
         \/ RV_group_create(o) \/ RV_dataset_create(o) \/ RV_datatype_commit(o)
         \/ RV_group_create_intermediate(o)
         \/ RV_group_open(o) \/ RV_dataset_open(o) \/ RV_datatype_open(o)
         \/ RV_object_open(o)
  PROVE  VolInv'
  <1> DEFINE f == Dom(o)
  <1>1. Good(Begin, Zero) /\ Begin.ok /\ f \in FilesIn(Begin.heap) /\ Shaped(Begin)
    <2>1. Usable(o)
      BY DEF RV_group_create, RV_dataset_create, RV_datatype_commit,
             RV_group_create_intermediate, RV_group_open, RV_dataset_open,
             RV_datatype_open, RV_object_open, Callable
    <2> QED
      BY <2>1, UsableIs
  <1> HIDE DEF f
  <1>2. \A k \in Objects : \A t \in Creates(Begin, k, f) : Made(t, Zero)
    BY <1>1, ZeroType, CreatesMade
  <1>3. \A k \in Objects : \A t \in OpenLoc(Begin, k, f) : Made(t, Zero)
    BY <1>1, ZeroType, OpenLocMade
  <1>4. {"group", "dataset", "datatype"} \subseteq Objects
    BY DEF Objects
  <1>5. ASSUME NEW k \in {"group", "dataset", "datatype"}, Opens(Creates(Begin, k, f))
        PROVE  VolInv'
    BY <1>2, <1>4, <1>5, OpensEnds
  <1>6. ASSUME NEW k \in {"group", "dataset", "datatype"}, Opens(OpenLoc(Begin, k, f))
        PROVE  VolInv'
    BY <1>3, <1>4, <1>6, OpensEnds
  <1>7. CASE RV_group_create(o)
    <2>1. Opens(Creates(Begin, "group", f))
      BY <1>7 DEF RV_group_create, CreateGroup, Creates, f
    <2> QED
      BY <1>5, <2>1
  <1>8. CASE RV_dataset_create(o)
    <2>1. Opens(Creates(Begin, "dataset", f))
      BY <1>8 DEF RV_dataset_create, Creates, f
    <2> QED
      BY <1>5, <2>1
  <1>9. CASE RV_datatype_commit(o)
    <2>1. Opens(Creates(Begin, "datatype", f))
      BY <1>9 DEF RV_datatype_commit, Creates, f
    <2> QED
      BY <1>5, <2>1
  <1>10. CASE RV_group_create_intermediate(o)
    <2>1. Opens(CreateIntermediate(Begin, f))
      BY <1>10 DEF RV_group_create_intermediate, f
    <2>2. \A t \in CreateIntermediate(Begin, f) : Made(t, Zero)
      BY <1>1, ZeroType, IntermediateMade
    <2> QED
      BY <2>1, <2>2, OpensEnds
  <1>11. CASE RV_group_open(o) \/ RV_dataset_open(o) \/ RV_datatype_open(o)
    <2>1. \E k \in {"group", "dataset", "datatype"} : Opens(OpenLoc(Begin, k, f))
      BY <1>11 DEF RV_group_open, RV_dataset_open, RV_datatype_open, f
    <2> QED
      BY <1>6, <2>1
  <1>12. CASE RV_object_open(o)
    <2> DEFINE S == Then(Find(Begin, f), LAMBDA s :
                      UNION {OpenLoc(s, k, f) : k \in {"group", "dataset", "datatype"}})
    <2>1. Opens(S)
      BY <1>12 DEF RV_object_open, f
    <2>2. ASSUME NEW t \in S PROVE Made(t, Zero)
      <3>1. \A s \in Find(Begin, f) : Good(s, Zero) /\ (s.ok => f \in FilesIn(s.heap))
        BY <1>1, ZeroType, FindKeeps, KeepsGood
      <3>2. CASE t \in Find(Begin, f) /\ ~ t.ok
        BY <3>1, <3>2, FailedIsMade
      <3>3. ASSUME NEW s \in Find(Begin, f), s.ok, NEW k \in {"group", "dataset", "datatype"},
                   t \in OpenLoc(s, k, f)
            PROVE  Made(t, Zero)
        BY <1>4, <3>1, <3>3, ZeroType, OpenLocMade
      <3> QED
        BY <2>2, <3>2, <3>3 DEF Then
    <2> HIDE DEF S
    <2> QED
      BY <2>1, <2>2, OpensEnds
  <1> QED
    BY <1>7, <1>8, <1>9, <1>10, <1>11, <1>12

(***************************************************************************)
(* The callbacks that create or open a file                                *)
(***************************************************************************)

LEMMA KeepsFound ==
  ASSUME NEW s, NEW z \in Debts, s.ok, Found(s, z), NEW t, Keeps(t, s)
  PROVE  Found(t, z)
  <1>1. s.got \in Slots /\ Good(s, Plus(z, s.got)) /\ Plus(z, s.got) \in Debts
    BY PlusIs DEF Found, FilesIn
  <1> QED
    BY <1>1, KeepsGood DEF Found, Keeps

LEMMA TruncateKeeps ==
  ASSUME NEW s, NEW n, Shaped(s), NEW t \in Truncate(s, n)
  PROVE  Keeps(t, s)
  <1> DEFINE P(u, verb) == Perform(SetOpt(u, verb), verb, n, TRUE)
             Delete(u) == Then(P(u, "DELETE"), LAMBDA v : {NoCustom(v)})
  <1>1. ASSUME NEW u, Shaped(u), NEW verb \in Verbs, NEW v \in P(u, verb) PROVE Keeps(v, u)
    BY <1>1, AskKeeps
  <1>2. t \in Then(P(s, "GET"), LAMBDA u : {u} \cup Delete(u))
    BY DEF Truncate
  <1> HIDE DEF P
  <1>3. \A u : Shaped(u) => Keeps(NoCustom(u), u)
    BY OptionsKeep
  <1>4. ASSUME NEW u, Shaped(u), NEW v \in Delete(u) PROVE Keeps(v, u)
    <2>1. \A w \in P(u, "DELETE") : Keeps(w, u)
      BY <1>1, <1>4, VerbsAre
    <2> QED
      BY <1>3, <1>4, <2>1 DEF Then, Keeps
  <1> HIDE DEF Delete
  <1>5. \A u \in P(s, "GET") : Keeps(u, s)
    BY <1>1, VerbsAre
  <1>6. t \in P(s, "GET") \/ \E u \in P(s, "GET") : t \in Delete(u)
    BY <1>2 DEF Then
  <1> QED
    BY <1>4, <1>5, <1>6 DEF Keeps

\* Either a file with its first reference, or nothing has changed.
FileOutcome(t, s, z) ==
  /\ t.ok => /\ Found(t, z) /\ t.got \in Slots /\ t.got \notin open /\ t.got # iter.at
  /\ ~ t.ok => Keeps(t, s)

LEMMA OpenFileIs ==
  ASSUME NEW s, NEW z \in Debts, NEW n \in Names \cup {NoName}, NEW w \in BOOLEAN,
         s.ok, Good(s, z), NEW t \in OpenFile(s, n, w)
  PROVE  FileOutcome(t, s, z)
  <1> DEFINE S == Then(RequestName(s, "GET", n), MayFail)
  <1>1. Shaped(s)
    BY DEF Good
  <1>2. \A u \in S : Keeps(u, s)
    BY <1>1, VerbsAre, RequestNameKeeps, MayFailKeeps DEF Then, Keeps
  <1>3. CASE t \in S /\ ~ t.ok
    BY <1>2, <1>3 DEF FileOutcome
  <1>4. ASSUME NEW u \in S, u.ok, t \in NewFile(NoHeaders(u), n, w)
        PROVE  FileOutcome(t, s, z)
    <2>1. Keeps(NoHeaders(u), s) /\ NoHeaders(u).ok
      BY <1>2, <1>4, OptionsKeep DEF Keeps
    <2>2. Good(NoHeaders(u), z)
      BY <2>1, KeepsGood
    <2> QED
      BY <1>4, <2>1, <2>2, NewFileFound DEF FileOutcome
  <1> HIDE DEF S
  <1>5. t \in Then(S, LAMBDA u : NewFile(NoHeaders(u), n, w))
    BY DEF OpenFile, S
  <1> QED
    BY <1>3, <1>4, <1>5 DEF Then

LEMMA CreateFileIs ==
  ASSUME NEW s, NEW z \in Debts, NEW n \in Names,
         s.ok, Good(s, z), NEW t \in CreateFile(s, n)
  PROVE  FileOutcome(t, s, z)
  <1> DEFINE first == Host(s, n)
             F == {first} \cup Truncate(first, n)
             Put(u) == Then(Perform(SetOpt(u, "PUT"), "PUT", n, TRUE), MayFail)
             S == Then(F, Put)
             Done(u) == NewFile(NoHeaders(NoUpload(NoCustom(u))), n, TRUE)
  <1>1. Shaped(s)
    BY DEF Good
  <1>2. Keeps(first, s) /\ Keeps(first, first)
    BY <1>1, OptionsKeep DEF Keeps
  <1>3. \A u \in F : Keeps(u, s)
    BY <1>2, TruncateKeeps DEF Keeps
  <1>4. ASSUME NEW u, Shaped(u), NEW v \in Put(u) PROVE Keeps(v, u)
    <2> DEFINE P == Perform(SetOpt(u, "PUT"), "PUT", n, TRUE)
    <2>1. \A w \in P : Keeps(w, u)
      BY <1>4, VerbsAre, AskKeeps
    <2> HIDE DEF P
    <2>2. v \in Then(P, MayFail)
      BY <1>4 DEF P
    <2> QED
      BY <2>1, <2>2, MayFailKeeps DEF Then, Keeps
  <1> HIDE DEF F, Put
  <1>5. \A u \in S : Keeps(u, s)
    BY <1>3, <1>4 DEF Then, Keeps
  <1>6. CASE t \in S /\ ~ t.ok
    BY <1>5, <1>6 DEF FileOutcome
  <1>7. ASSUME NEW u \in S, u.ok, t \in Done(u)
        PROVE  FileOutcome(t, s, z)
    <2> DEFINE v == NoHeaders(NoUpload(NoCustom(u)))
    <2>1. Keeps(v, s) /\ v.ok
      BY <1>5, <1>7, OptionsTwice DEF Keeps
    <2>2. t \in NewFile(v, n, TRUE)
      BY <1>7
    <2> HIDE DEF v
    <2>3. Good(v, z)
      BY <2>1, KeepsGood
    <2> QED
      BY <2>1, <2>2, <2>3, NewFileFound DEF FileOutcome
  <1> HIDE DEF S
  <1>8. t \in Then(S, Done)
    BY DEF CreateFile, S, F, Put
  <1> HIDE DEF Done
  <1> QED
    BY <1>6, <1>7, <1>8 DEF Then

LEMMA FileOpens ==
  ASSUME VolInv
  PROVE  /\ \A n \in Names : RV_file_create(n) => VolInv'
         /\ \A n \in Names, w \in BOOLEAN : RV_file_open(n, w) => VolInv'
         /\ \A n \in Names : RV_file_specific_is_accessible(n) => VolInv'
         /\ \A o \in Slots : RV_file_specific_reopen(o) => VolInv'
  <1>1. ASSUME NEW S, Opens(S), \A t \in S : FileOutcome(t, Begin, Zero), ~rehomed
        PROVE  VolInv'
    <2>1. Good(Begin, Zero) /\ Begin.ok
      BY <1>1, BeginGood, BeginIs
    <2>2. ASSUME NEW t \in S
          PROVE  Found(t, Zero) /\ (t.ok => t.got \notin open /\ t.got \in Slots)
      <3>1. CASE t.ok
        BY <1>1, <3>1 DEF FileOutcome
      <3>2. CASE ~ t.ok
        <4>1. Good(t, Zero)
          BY <1>1, <2>1, <3>2, ZeroType, KeepsGood DEF FileOutcome
        <4> QED
          BY <3>2, <4>1, FailedIsMade
      <3> QED
        BY <3>1, <3>2
    <2> QED
      BY <1>1, <2>2, OpensFileEnds
  <1>2. ASSUME NEW n \in Names, RV_file_create(n) PROVE VolInv'
    <2>1. ~rehomed /\ Opens(CreateFile(Begin, n))
      BY <1>2 DEF RV_file_create, RoomForFile
    <2>2. Good(Begin, Zero) /\ Begin.ok
      BY <2>1, BeginGood, BeginIs
    <2> QED
      BY <1>1, <2>1, <2>2, ZeroType, CreateFileIs
  <1>3. ASSUME NEW n \in Names, NEW w \in BOOLEAN, RV_file_open(n, w) PROVE VolInv'
    <2>1. ~rehomed /\ Opens(OpenFile(Begin, n, w))
      BY <1>3 DEF RV_file_open, RoomForFile
    <2>2. Good(Begin, Zero) /\ Begin.ok
      BY <2>1, BeginGood, BeginIs
    <2> QED
      BY <1>1, <2>1, <2>2, ZeroType, OpenFileIs
  <1>4. ASSUME NEW n \in Names, RV_file_specific_is_accessible(n) PROVE VolInv'
    <2> DEFINE Answer(s) == NoCustom(NoHeaders(IF s.ok THEN RV_file_close(s, s.got)
                                                       ELSE [s EXCEPT !.ok = TRUE]))
               S == {Answer(s) : s \in OpenFile(Begin, n, FALSE)}
    <2>1. ~rehomed /\ Plain(S)
      BY <1>4 DEF RV_file_specific_is_accessible, RoomForFile
    <2>2. Good(Begin, Zero) /\ Begin.ok
      BY <2>1, BeginGood, BeginIs
    <2>3. ASSUME NEW s \in OpenFile(Begin, n, FALSE) PROVE Good(Answer(s), Zero)
      <3> DEFINE u == IF s.ok THEN RV_file_close(s, s.got) ELSE [s EXCEPT !.ok = TRUE]
      <3>1. FileOutcome(s, Begin, Zero)
        BY <2>2, ZeroType, OpenFileIs
      <3>2. Good(u, Zero) /\ u.ok
        <4>1. CASE s.ok
          BY <3>1, <4>1, ZeroType, CloseGood DEF FileOutcome, Found
        <4>2. CASE ~ s.ok
          <5>1. Keeps(s, Begin)
            BY <3>1, <4>2 DEF FileOutcome
          <5>2. Shaped([s EXCEPT !.ok = TRUE]) /\ [s EXCEPT !.ok = TRUE].ok
                /\ [s EXCEPT !.ok = TRUE].heap = Begin.heap
            BY <5>1 DEF Keeps, Shaped, Fields
          <5> QED
            BY <2>2, <4>2, <5>2 DEF Good
        <4> QED
          BY <4>1, <4>2
      <3> HIDE DEF u
      <3>3. Keeps(NoCustom(NoHeaders(u)), u)
        BY <3>2, OptionsTwice DEF Good
      <3>4. Good(NoCustom(NoHeaders(u)), Zero)
        BY <3>2, <3>3, ZeroType, KeepsGood
      <3> QED
        BY <3>4 DEF u
    <2> HIDE DEF Answer
    <2>4. \A s \in S : Good(s, Zero)
      BY <2>3
    <2> HIDE DEF S
    <2> QED
      BY <2>1, <2>4, PlainEnds
  <1>5. ASSUME NEW o \in Slots, RV_file_specific_reopen(o) PROVE VolInv'
    <2> DEFINE S == Then(OpenFile(Begin, heap[o].name, heap[o].rw),
                         LAMBDA s : {NoCustom(NoHeaders(s))})
    <2>1. Usable(o) /\ Opens(S)
      BY <1>5 DEF RV_file_specific_reopen, Callable
    <2>2. ~rehomed /\ heap \in Heaps /\ Good(Begin, Zero) /\ Begin.ok
      BY <2>1, UsableIs
    <2>3. heap[o].name \in Names \cup {NoName} /\ heap[o].rw \in BOOLEAN
      BY <2>2 DEF Heaps
    <2>4. \A s \in OpenFile(Begin, heap[o].name, heap[o].rw) : FileOutcome(s, Begin, Zero)
      BY <2>2, <2>3, ZeroType, OpenFileIs
    <2>5. ASSUME NEW s, s.ok, FileOutcome(s, Begin, Zero)
          PROVE  FileOutcome(NoCustom(NoHeaders(s)), Begin, Zero)
      <3> DEFINE t == NoCustom(NoHeaders(s))
      <3>1. Found(s, Zero) /\ Shaped(s)
        BY <2>5 DEF FileOutcome, Found, Good
      <3>2. Keeps(t, s) /\ t.ok
        BY <2>5, <3>1, OptionsTwice
      <3> HIDE DEF t
      <3>3. Found(t, Zero) /\ t.got = s.got
        BY <2>5, <3>1, <3>2, ZeroType, KeepsFound DEF Keeps
      <3> QED
        BY <2>5, <3>2, <3>3 DEF FileOutcome, t
    <2>6. \A t \in S : FileOutcome(t, Begin, Zero)
      BY <2>4, <2>5 DEF Then
    <2> HIDE DEF S
    <2> QED
      BY <1>1, <2>1, <2>2, <2>6
  <1> QED
    BY <1>2, <1>3, <1>4, <1>5

(***************************************************************************)
(* The callbacks that count a file for the time of a question              *)
(***************************************************************************)

LEMMA ObjectInfoGood ==
  ASSUME NEW s, NEW z \in Debts, s.ok, Found(s, z), NEW t \in ObjectInfo(s)
  PROVE  Good(t, z)
  <1>1. Shaped(s)
    BY DEF Found, Good
  <1>2. \A u \in Query(s, s.got) : Found(u, z)
    BY <1>1, QueryKeeps, KeepsFound
  <1>3. CASE t \in Query(s, s.got) /\ ~ t.ok
    BY <1>2, <1>3, FailedIsMade DEF Found
  <1>4. ASSUME NEW u \in Query(s, s.got), u.ok, t = RV_file_close(u, u.got)
        PROVE  Good(t, z)
    BY <1>2, <1>4, CloseGood DEF Found, FilesIn
  <1> QED
    BY <1>3, <1>4 DEF ObjectInfo, Then

\* A lookup from a location, and one more lookup in the domain it has found.
LEMMA LookupFound ==
  ASSUME NEW s, NEW z \in Debts, NEW f \in FilesIn(s.heap), s.ok, Good(s, z)
  PROVE  \A t \in FindLoc(Retain(s, f), f) : Found(t, z)
  <1>1. f \in Slots /\ Retain(s, f).ok /\ Good(Retain(s, f), Plus(z, f))
    BY RetainGood
  <1> QED
    BY <1>1, FindLocFound

LEMMA AgainFound ==
  ASSUME NEW s, NEW z \in Debts, NEW f, s.ok, Found(s, z),
         NEW t \in Then(Find(s, f), LAMBDA u : LocInfo(u, u.got))
  PROVE  Found(t, z)
  <1>1. Shaped(s)
    BY DEF Found, Good
  <1>2. \A u \in Find(s, f) : Found(u, z)
    BY <1>1, FindKeeps, KeepsFound
  <1>3. CASE t \in Find(s, f) /\ ~ t.ok
    BY <1>2, <1>3
  <1>4. ASSUME NEW u \in Find(s, f), u.ok, t \in LocInfo(u, u.got)
        PROVE  Found(t, z)
    BY <1>2, <1>4, LocInfoFound DEF Found, FilesIn
  <1> QED
    BY <1>3, <1>4 DEF Then

LEMMA ObjectQuestions ==
  ASSUME VolInv, NEW o \in Slots,
         \/ RV_object_get_name(o) \/ RV_object_get_info(o)
         \/ RV_object_get_info_by_name(o) \/ RV_object_get_info_by_idx(o)
  PROVE  VolInv'
  <1> DEFINE f == Dom(o)
             r == Retain(Begin, f)
  <1>1. Good(Begin, Zero) /\ Begin.ok /\ f \in FilesIn(Begin.heap) /\ Zero \in Debts
    <2>1. Usable(o)
      BY DEF RV_object_get_name, RV_object_get_info, RV_object_get_info_by_name,
             RV_object_get_info_by_idx, Callable
    <2> QED
      BY <2>1, UsableIs, ZeroType
  <1> HIDE DEF f
  <1>2. /\ Good(r, Plus(Zero, f)) /\ r.ok /\ f \in Slots /\ f \in FilesIn(r.heap)
        /\ Plus(Zero, f) \in Debts
    BY <1>1, RetainGood
  <1>3. \A t \in FindLoc(r, f) : Found(t, Zero)
    BY <1>1, LookupFound
  <1> HIDE DEF r
  <1>4. CASE RV_object_get_name(o)
    <2> DEFINE S == Then(MayFail(r), LAMBDA s : {RV_file_close(NoHeaders(s), f)})
    <2>1. Plain(S)
      BY <1>4 DEF RV_object_get_name, f, r
    <2>2. ASSUME NEW u \in MayFail(r) PROVE Good(u, Plus(Zero, f))
      BY <1>2, MayFailKeeps, KeepsGood DEF Good
    <2>3. ASSUME NEW u \in MayFail(r), u.ok PROVE Good(RV_file_close(NoHeaders(u), f), Zero)
      <3> DEFINE v == NoHeaders(u)
      <3>1. Keeps(v, u) /\ v.ok
        BY <2>2, <2>3, OptionsKeep DEF Good
      <3> HIDE DEF v
      <3>2. Good(v, Plus(Zero, f))
        BY <1>2, <2>2, <2>3, <3>1, KeepsGood
      <3> QED
        BY <1>1, <1>2, <3>1, <3>2, CloseGood DEF v
    <2>4. \A t \in S : Good(t, Zero)
      BY <2>2, <2>3, FailedIsMade DEF Then
    <2> HIDE DEF S
    <2> QED
      BY <2>1, <2>4, PlainEnds
  <1>5. CASE RV_object_get_info(o)
    <2> DEFINE u == [r EXCEPT !.got = f]
    <2>1. Plain(ObjectInfo(u))
      BY <1>5 DEF RV_object_get_info, f, r
    <2>2. Shaped(u) /\ u.heap = r.heap /\ u.ok /\ u.got = f
      BY <1>2 DEF Good, Shaped, Fields
    <2> HIDE DEF u
    <2>3. Found(u, Zero)
      BY <1>2, <2>2 DEF Good, Found
    <2>4. \A t \in ObjectInfo(u) : Good(t, Zero)
      BY <1>1, <2>2, <2>3, ObjectInfoGood
    <2> QED
      BY <2>1, <2>4, PlainEnds
  <1>6. CASE RV_object_get_info_by_name(o)
    <2> DEFINE S == Then(FindLoc(r, f), ObjectInfo)
    <2>1. Plain(S)
      BY <1>6 DEF RV_object_get_info_by_name, f, r
    <2>2. \A t \in S : Good(t, Zero)
      BY <1>1, <1>3, ObjectInfoGood, FailedIsMade DEF Then, Found
    <2> HIDE DEF S
    <2> QED
      BY <2>1, <2>2, PlainEnds
  <1>7. CASE RV_object_get_info_by_idx(o)
    <2> DEFINE A == FindLoc(r, f)
               B == Then(A, LAMBDA s : Query(s, f))
               C(s) == Then(Find(s, f), LAMBDA t : LocInfo(t, t.got))
               D == Then(B, C)
               S == Then(D, ObjectInfo)
    <2>1. Plain(S)
      BY <1>7 DEF RV_object_get_info_by_idx, f, r
    <2>2. ASSUME NEW s, s.ok, Found(s, Zero), NEW t \in C(s) PROVE Found(t, Zero)
      BY <1>1, <2>2, AgainFound
    <2>3. ASSUME NEW s, s.ok, Found(s, Zero), NEW t \in Query(s, f) PROVE Found(t, Zero)
      BY <1>1, <2>3, QueryKeeps, KeepsFound DEF Found, Good
    <2> HIDE DEF A, C
    <2>4. \A t \in A : Found(t, Zero)
      BY <1>3 DEF A
    <2>5. \A t \in B : Found(t, Zero)
      BY <2>3, <2>4 DEF Then
    <2> HIDE DEF B
    <2>6. \A t \in D : Found(t, Zero)
      BY <2>2, <2>5 DEF Then
    <2> HIDE DEF D
    <2>7. \A t \in S : Good(t, Zero)
      BY <1>1, <2>6, ObjectInfoGood, FailedIsMade DEF Then, Found
    <2> HIDE DEF S
    <2> QED
      BY <2>1, <2>7, PlainEnds
  <1> QED
    BY <1>4, <1>5, <1>6, <1>7

(***************************************************************************)
(* The callbacks that start an iteration                                   *)
(***************************************************************************)

LEMMA BegunIs ==
  /\ \A s : Made(s, Zero) => Begun(s)
  /\ \A s, e : ~ s.ok /\ Good(s, e) => Begun(s)
  BY DEF Begun, Made, Good

LEMMA IterStartEnds ==
  ASSUME VolInv, NEW o \in Slots,
         RV_link_specific_iter(o) \/ RV_object_specific_visit(o) \/ RV_attr_specific_iter(o)
  PROVE  VolInv'
  <1> DEFINE f == Dom(o)
             r == Retain(Begin, f)
             k == heap[o].kind
             kinds == {"group", "dataset", "datatype"}
  <1>1. /\ Good(Begin, Zero) /\ Begin.ok /\ f \in FilesIn(Begin.heap) /\ Zero \in Debts
        /\ Begin.got = NoSlot /\ Shaped(Begin) /\ k # "free" /\ k \in Objects \cup {"file", "free"}
    <2>1. Usable(o)
      BY DEF RV_link_specific_iter, RV_object_specific_visit, RV_attr_specific_iter, Callable
    <2> QED
      BY <2>1, UsableIs, ZeroType DEF Heaps
  <1> HIDE DEF f
  <1>2. /\ Good(r, Plus(Zero, f)) /\ r.ok /\ f \in Slots /\ f \in FilesIn(r.heap)
        /\ Plus(Zero, f) \in Debts /\ Shaped(r)
    BY <1>1, RetainGood DEF Good
  <1>3. \A t \in FindLoc(r, f) : Found(t, Zero)
    BY <1>1, LookupFound
  <1> HIDE DEF r, k
  <1>4. kinds \subseteq Objects /\ (k # "file" => k \in Objects)
    BY <1>1 DEF Objects
  <1>5. CASE RV_link_specific_iter(o)
    <2> DEFINE Rows(s) == Then(Request(s, "GET", f), LAMBDA t : RV_build_link_table(t, f))
               Links(s) == Then(Rows(s), LAMBDA t : NewObject(t, "group", t.got))
               S == Then(FindLoc(r, f), Links)
    <2>1. Starts("link", S, f)
      BY <1>5 DEF RV_link_specific_iter, f, r
    <2>2. ASSUME NEW s, Shaped(s), NEW t \in RV_build_link_table(s, f) PROVE Keeps(t, s)
      BY <2>2, PerformKeeps, OptionsKeep DEF RV_build_link_table
    <2>3. ASSUME NEW s, Shaped(s), NEW t \in Rows(s) PROVE Keeps(t, s)
      BY <2>2, <2>3, VerbsAre, RequestKeeps DEF Then, Keeps
    <2> HIDE DEF Rows
    <2>4. ASSUME NEW s, s.ok, Found(s, Zero), NEW t \in Links(s) PROVE Begun(t)
      <3>1. \A u \in Rows(s) : Found(u, Zero)
        BY <1>1, <2>3, <2>4, KeepsFound DEF Found, Good
      <3>2. ASSUME NEW u \in Rows(s), u.ok, t \in NewObject(u, "group", u.got) PROVE Begun(t)
        BY <1>1, <1>4, <3>1, <3>2, FoundIsMade, BegunIs
      <3>3. ASSUME t \in Rows(s), ~ t.ok PROVE Begun(t)
        BY <3>1, <3>3, BegunIs DEF Found
      <3> QED
        BY <2>4, <3>2, <3>3 DEF Then
    <2> HIDE DEF Links
    <2>5. \A t \in S : Begun(t)
      BY <1>3, <2>4, BegunIs DEF Then, Found
    <2> HIDE DEF S
    <2> QED
      BY <2>1, <2>5, StartsEnds
  <1>6. ASSUME NEW x \in Objects, NEW u, u.ok, Good(u, Plus(Zero, f)), NEW t \in NewObject(u, x, f)
        PROVE  Begun(t)
    BY <1>1, <1>2, <1>6, NewObjectMade, BegunIs
  <1>7. ASSUME NEW x \in Objects, NEW u, u.ok, Found(u, Zero), NEW t \in NewObject(u, x, u.got)
        PROVE  Begun(t)
    BY <1>1, <1>7, FoundIsMade, BegunIs
  <1>8. ASSUME NEW s, s.ok, Keeps(s, Begin) PROVE \A t \in FindLoc(Retain(s, f), f) : Found(t, Zero)
    <2>1. Good(s, Zero) /\ f \in FilesIn(s.heap)
      BY <1>1, <1>8, KeepsGood
    <2> QED
      BY <1>1, <1>8, <2>1, LookupFound
  <1>9. CASE RV_object_specific_visit(o)
    <2>1. Starts("visit", VisitSelf(Begin, o) \cup VisitNamed(Begin, o), f)
      BY <1>9 DEF RV_object_specific_visit, f
    <2>2. ASSUME NEW t \in VisitSelf(Begin, o) PROVE Begun(t)
      <3>1. CASE k = "file"
        <4>1. t \in Query(Begin, f)
          BY <2>2, <3>1 DEF VisitSelf, f, k
        <4>2. Keeps(t, Begin)
          BY <1>1, <4>1, QueryKeeps
        <4> QED
          BY <1>1, <4>2, KeepsGood DEF Begun, Keeps
      <3>2. CASE k # "file"
        <4>1. t \in Then(Query(r, f), LAMBDA u : NewObject(u, k, f))
          BY <2>2, <3>2 DEF VisitSelf, f, k, r
        <4>2. \A u \in Query(r, f) : Good(u, Plus(Zero, f))
          BY <1>2, QueryKeeps, KeepsGood
        <4>3. ASSUME NEW u \in Query(r, f), u.ok, t \in NewObject(u, k, f) PROVE Begun(t)
          BY <1>4, <1>6, <3>2, <4>2, <4>3
        <4>4. ASSUME t \in Query(r, f), ~ t.ok PROVE Begun(t)
          BY <4>2, <4>4, BegunIs
        <4> QED
          BY <4>1, <4>3, <4>4 DEF Then
      <3> QED
        BY <3>1, <3>2
    <2>3. ASSUME NEW t \in VisitNamed(Begin, o) PROVE Begun(t)
      <3> DEFINE Info(x, u) == Then(Query(u, u.got), LAMBDA v : NewObject(v, x, u.got))
                 L(s) == FindLoc(Retain(s, f), f)
                 Opened(s) == Then(L(s), LAMBDA u : UNION {Info(x, u) : x \in kinds})
      <3>1. t \in Then(Find(Begin, f), Opened)
        BY <2>3 DEF VisitNamed, f
      <3>2. \A s \in Find(Begin, f) : Keeps(s, Begin)
        BY <1>1, FindKeeps
      <3>3. ASSUME NEW u, u.ok, Found(u, Zero), NEW x \in kinds, t \in Info(x, u)
            PROVE  Begun(t)
        <4>1. Shaped(u)
          BY <3>3 DEF Found, Good
        <4>2. \A v \in Query(u, u.got) : Found(v, Zero) /\ v.got = u.got
          BY <1>1, <3>3, <4>1, QueryKeeps, KeepsFound DEF Keeps
        <4>3. ASSUME NEW v \in Query(u, u.got), v.ok, t \in NewObject(v, x, u.got)
              PROVE  Begun(t)
          BY <1>4, <1>7, <4>2, <4>3
        <4>4. ASSUME t \in Query(u, u.got), ~ t.ok PROVE Begun(t)
          BY <4>2, <4>4, BegunIs DEF Found
        <4> QED
          BY <3>3, <4>3, <4>4 DEF Then
      <3> HIDE DEF Info
      <3>4. ASSUME NEW s \in Find(Begin, f), s.ok, t \in Opened(s) PROVE Begun(t)
        <4>1. \A u \in L(s) : Found(u, Zero)
          BY <1>8, <3>2, <3>4
        <4> HIDE DEF L
        <4>2. ASSUME t \in L(s), ~ t.ok PROVE Begun(t)
          BY <4>1, <4>2, BegunIs DEF Found
        <4>3. ASSUME NEW u \in L(s), u.ok, NEW x \in kinds, t \in Info(x, u) PROVE Begun(t)
          BY <3>3, <4>1, <4>3
        <4> QED
          BY <3>4, <4>2, <4>3 DEF Then
      <3> HIDE DEF Opened
      <3>5. ASSUME t \in Find(Begin, f), ~ t.ok PROVE Begun(t)
        BY <1>1, <3>2, <3>5, KeepsGood, BegunIs
      <3> QED
        BY <3>1, <3>4, <3>5 DEF Then
    <2> QED
      BY <2>1, <2>2, <2>3, StartsEnds
  <1>10. CASE RV_attr_specific_iter(o)
    <2>1. Starts("attr", IterSelf(Begin, o) \cup IterNamed(Begin, o), f)
      BY <1>10 DEF RV_attr_specific_iter, f
    <2>2. ASSUME NEW t \in IterSelf(Begin, o) PROVE Begun(t)
      <3>1. CASE k = "file"
        <4>1. t \in Request(Begin, "GET", f)
          BY <2>2, <3>1 DEF IterSelf, f, k
        <4>2. Keeps(t, Begin)
          BY <1>1, <4>1, VerbsAre, RequestKeeps
        <4> QED
          BY <1>1, <4>2, KeepsGood DEF Begun, Keeps
      <3>2. CASE k # "file"
        <4>1. t \in Then(Request(r, "GET", f), LAMBDA u : NewObject(u, k, f))
          BY <2>2, <3>2 DEF IterSelf, f, k, r
        <4>2. \A u \in Request(r, "GET", f) : Good(u, Plus(Zero, f))
          BY <1>2, VerbsAre, RequestKeeps, KeepsGood
        <4>3. ASSUME NEW u \in Request(r, "GET", f), u.ok, t \in NewObject(u, k, f) PROVE Begun(t)
          BY <1>4, <1>6, <3>2, <4>2, <4>3
        <4>4. ASSUME t \in Request(r, "GET", f), ~ t.ok PROVE Begun(t)
          BY <4>2, <4>4, BegunIs
        <4> QED
          BY <4>1, <4>3, <4>4 DEF Then
      <3> QED
        BY <3>1, <3>2
    <2>3. ASSUME NEW t \in IterNamed(Begin, o) PROVE Begun(t)
      <3> DEFINE L(s) == FindLoc(Retain(s, f), f)
                 M == Then(Find(Begin, f), L)
                 Ask(s) == Then(Request(s, "GET", f), LAMBDA u :
                              UNION {NewObject(u, x, u.got) : x \in kinds})
      <3>1. t \in Then(M, Ask)
        BY <2>3 DEF IterNamed, f
      <3>2. \A s \in Find(Begin, f) : Keeps(s, Begin)
        BY <1>1, FindKeeps
      <3>3. \A s \in Find(Begin, f) : s.ok => \A u \in L(s) : Found(u, Zero)
        BY <1>8, <3>2
      <3>4. \A s \in Find(Begin, f) : ~ s.ok => Found(s, Zero)
        BY <1>1, <3>2, KeepsGood, FailedIsMade
      <3> HIDE DEF L
      <3>5. \A u \in M : Found(u, Zero)
        BY <3>3, <3>4 DEF Then
      <3> HIDE DEF M
      <3>6. ASSUME NEW s \in M, s.ok, t \in Ask(s) PROVE Begun(t)
        <4>1. \A u \in Request(s, "GET", f) : Found(u, Zero)
          BY <1>1, <3>5, <3>6, VerbsAre, RequestKeeps, KeepsFound DEF Found, Good
        <4>2. ASSUME t \in Request(s, "GET", f), ~ t.ok PROVE Begun(t)
          BY <4>1, <4>2, BegunIs DEF Found
        <4>3. ASSUME NEW u \in Request(s, "GET", f), u.ok, NEW x \in kinds,
                     t \in NewObject(u, x, u.got)
              PROVE  Begun(t)
          BY <1>4, <1>7, <4>1, <4>3
        <4> QED
          BY <3>6, <4>2, <4>3 DEF Then
      <3> HIDE DEF Ask
      <3>7. ASSUME t \in M, ~ t.ok PROVE Begun(t)
        BY <3>5, <3>7, BegunIs DEF Found
      <3> QED
        BY <3>1, <3>6, <3>7 DEF Then
    <2> QED
      BY <2>1, <2>2, <2>3, StartsEnds
  <1> QED
    BY <1>5, <1>9, <1>10

(***************************************************************************)
(* Attributes                                                              *)
(***************************************************************************)

\* The copy and the original each hold a reference while an attribute is
\* renamed, and both give it back.
LEMMA RenameGood ==
  ASSUME NEW s, NEW e \in Debts, NEW p \in FilesIn(s.heap), NEW f, s.ok, Good(s, e),
         NEW t \in Rename(s, p, f)
  PROVE  Good(t, e)
  <1> DEFINE e1 == Plus(e, p)
             e2 == Plus(e1, p)
             r == Retain(s, p)
             New(u)    == CreateAttr(u, p)
             Copy(u)   == Then(Query(u, p), LAMBDA v : Store(v, p))
             Delete(u) == Remove(RV_file_close(u, p), f)
             Close(u)  == {RV_file_close(u, p)}
             A == OpenAttr(s, p)
             B == Then(A, New)
             C == Then(B, Copy)
             D == Then(C, Delete)
  <1>1. Good(r, e1) /\ r.ok /\ p \in Slots /\ e1 \in Debts /\ Shaped(r)
    BY RetainGood DEF Good
  <1>2. e2 \in Debts
    BY <1>1, PlusIs
  <1>3. \A u \in A : Good(u, e1)
    BY <1>1, QueryKeeps, KeepsGood DEF OpenAttr
  <1>4. ASSUME NEW u, u.ok, Good(u, e1), NEW v \in New(u) PROVE Good(v, e2)
    <2>1. Shaped(u)
      BY <1>4 DEF Good
    <2>2. \A w \in WriteIntent(u, p) : Good(w, e1)
      BY <1>1, <1>4, <2>1, WriteIntentKeeps, KeepsGood
    <2>3. ASSUME NEW w, w.ok, Good(w, e1),
                 NEW x \in Then(Store(Retain(w, p), p), MayFail)
          PROVE  Good(x, e2)
      <3> DEFINE y == Retain(w, p)
      <3>1. p \in FilesIn(w.heap)
        BY <1>1, <2>3, DebtIsFile
      <3>2. Good(y, e2) /\ y.ok /\ Shaped(y)
        BY <1>1, <2>3, <3>1, RetainGood DEF Good
      <3> HIDE DEF y, e2
      <3>3. \A z \in Store(y, p) : Good(z, e2)
        BY <1>2, <3>2, StoreKeeps, KeepsGood
      <3>4. \A z \in Store(y, p) : z.ok => \A q \in MayFail(z) : Good(q, e2)
        BY <1>2, <3>3, MayFailKeeps, KeepsGood DEF Good
      <3> QED
        BY <2>3, <3>3, <3>4 DEF Then, y
    <2>4. v \in Then(WriteIntent(u, p), LAMBDA w : Then(Store(Retain(w, p), p), MayFail))
      BY <1>4 DEF CreateAttr
    <2>5. CASE v \in WriteIntent(u, p) /\ ~ v.ok
      BY <2>2, <2>5, FailedIsMade
    <2>6. ASSUME NEW w \in WriteIntent(u, p), w.ok, v \in Then(Store(Retain(w, p), p), MayFail)
          PROVE  Good(v, e2)
      BY <2>2, <2>3, <2>6
    <2> QED
      BY <2>4, <2>5, <2>6 DEF Then
  <1>5. ASSUME NEW u, u.ok, Good(u, e2), NEW v \in Copy(u) PROVE Good(v, e2)
    <2>1. \A w \in Query(u, p) : Keeps(w, u)
      BY <1>5, QueryKeeps DEF Good
    <2>2. Keeps(v, u)
      BY <1>5, <2>1, StoreKeeps DEF Then, Keeps
    <2> QED
      BY <1>2, <1>5, <2>2, KeepsGood
  <1>6. ASSUME NEW u, u.ok, Good(u, e2), NEW v \in Delete(u) PROVE Good(v, e1)
    <2> DEFINE w == RV_file_close(u, p)
    <2>1. Good(w, e1) /\ w.ok /\ Shaped(w)
      BY <1>1, <1>6, CloseGood DEF Good
    <2> HIDE DEF w
    <2> QED
      BY <1>1, <1>6, <2>1, RemoveKeeps, KeepsGood DEF w
  <1>7. ASSUME NEW u, u.ok, Good(u, e1), NEW v \in Close(u) PROVE Good(v, e)
    BY <1>1, <1>7, CloseGood
  <1>8. t \in Then(D, Close)
    BY DEF Rename
  <1> HIDE DEF A, New, Copy, Delete, Close, e1, e2
  <1>9. \A u \in B : Good(u, e2)
    BY <1>3, <1>4, FailedIsMade DEF Then
  <1> HIDE DEF B
  <1>10. \A u \in C : Good(u, e2)
    BY <1>5, <1>9, FailedIsMade DEF Then
  <1> HIDE DEF C
  <1>11. \A u \in D : Good(u, e1)
    BY <1>6, <1>10, FailedIsMade DEF Then
  <1> HIDE DEF D
  <1> QED
    BY <1>7, <1>8, <1>11, FailedIsMade DEF Then

LEMMA AttrCallsEnd ==
  ASSUME VolInv, NEW o \in Slots,
         \/ RV_attr_create(o) \/ RV_attr_open(o)
         \/ RV_attr_specific_rename(o) \/ RV_attr_specific_rename_by_name(o)
  PROVE  VolInv'
  <1> DEFINE f == Dom(o)
             e == Plus(Zero, f)
  <1>1. /\ Good(Begin, Zero) /\ Begin.ok /\ f \in FilesIn(Begin.heap) /\ Zero \in Debts
        /\ f \in Slots /\ Shaped(Begin)
    <2>1. Usable(o)
      BY DEF RV_attr_create, RV_attr_open, RV_attr_specific_rename,
             RV_attr_specific_rename_by_name, Callable
    <2> QED
      BY <2>1, UsableIs, ZeroType
  <1> HIDE DEF f
  <1>2. e \in Debts /\ "attr" \in Objects
    BY <1>1, PlusIs DEF Objects
  <1>3. ASSUME NEW s, s.ok, Good(s, Zero), f \in FilesIn(s.heap)
        PROVE  Good(Retain(s, f), e) /\ Retain(s, f).ok /\ Shaped(Retain(s, f))
    BY <1>1, <1>3, RetainGood DEF Good
  <1> HIDE DEF e
  <1>4. ASSUME NEW s, s.ok, Good(s, e), NEW t \in NewObject(s, "attr", f) PROVE Made(t, Zero)
    BY <1>1, <1>2, <1>4, NewObjectMade DEF e
  <1>5. ASSUME NEW s, NEW t, s.ok, Good(s, e), Keeps(t, s) PROVE Good(t, e)
    BY <1>2, <1>5, KeepsGood
  <1>6. ASSUME NEW S, \A s \in S : Good(s, e), Opens(Then(S, LAMBDA s : NewObject(s, "attr", f)))
        PROVE  VolInv'
    <2> DEFINE T == Then(S, LAMBDA s : NewObject(s, "attr", f))
    <2>1. \A t \in T : Made(t, Zero)
      BY <1>4, <1>6, FailedIsMade DEF Then
    <2>2. Opens(T)
      BY <1>6
    <2> HIDE DEF T
    <2> QED
      BY <2>1, <2>2, OpensEnds
  <1>7. CASE RV_attr_create(o)
    <2> DEFINE P(s) == MayFind(Retain(s, f), f)
               Q(s) == Then(P(s), LAMBDA t : Store(t, f))
               Put(s) == Then(Q(s), MayFail)
               S == Then(WriteIntent(Begin, f), Put)
    <2>1. Opens(Then(S, LAMBDA s : NewObject(s, "attr", f)))
      BY <1>7 DEF RV_attr_create, f
    <2>2. ASSUME NEW s, s.ok, Good(s, Zero), f \in FilesIn(s.heap), NEW t \in Put(s)
          PROVE  Good(t, e)
      <3>1. \A u \in P(s) : Good(u, e)
        BY <1>3, <1>5, <2>2, MayFindKeeps
      <3> HIDE DEF P
      <3>2. \A u \in Q(s) : Good(u, e)
        BY <1>5, <3>1, StoreKeeps DEF Then, Good
      <3> HIDE DEF Q
      <3> QED
        BY <1>5, <2>2, <3>2, MayFailKeeps DEF Then, Good
    <2>3. \A s \in WriteIntent(Begin, f) : Good(s, Zero) /\ (s.ok => f \in FilesIn(s.heap))
      BY <1>1, WriteIntentKeeps, KeepsGood
    <2> HIDE DEF Put
    <2>4. \A s \in S : Good(s, e)
      BY <2>2, <2>3, FailedIsMade DEF Then
    <2> HIDE DEF S
    <2> QED
      BY <1>6, <2>1, <2>4
  <1>8. CASE RV_attr_open(o)
    <2> DEFINE Ask(s) == Query(s, f)
               L == MayFind(Retain(Begin, f), f)
               M == L \cup Then(L, Ask)
               S == Then(M, Ask)
    <2>1. Opens(Then(S, LAMBDA s : NewObject(s, "attr", f)))
      BY <1>8 DEF RV_attr_open, f
    <2>2. \A s \in L : Good(s, e)
      BY <1>1, <1>3, <1>5, MayFindKeeps
    <2>3. ASSUME NEW s, s.ok, Good(s, e), NEW t \in Ask(s) PROVE Good(t, e)
      BY <1>5, <2>3, QueryKeeps DEF Good
    <2> HIDE DEF L, Ask
    <2>4. \A s \in M : Good(s, e)
      BY <2>2, <2>3 DEF Then
    <2> HIDE DEF M
    <2>5. \A s \in S : Good(s, e)
      BY <2>3, <2>4 DEF Then
    <2> HIDE DEF S
    <2> QED
      BY <1>6, <2>1, <2>5
  <1>9. CASE RV_attr_specific_rename(o)
    <2>1. Plain(Rename(Begin, f, f))
      BY <1>9 DEF RV_attr_specific_rename, f
    <2>2. \A t \in Rename(Begin, f, f) : Good(t, Zero)
      BY <1>1, RenameGood
    <2> QED
      BY <2>1, <2>2, PlainEnds
  <1>10. CASE RV_attr_specific_rename_by_name(o)
    <2> DEFINE Opened(s)  == FindLoc(Retain(s, f), f)
               Renamed(s) == Then(Rename(s, s.got, f), LAMBDA t : MayFail(RV_file_close(t, s.got)))
               M == Then(Find(Begin, f), Opened)
               S == Then(M, Renamed)
    <2>1. Plain(S)
      BY <1>10 DEF RV_attr_specific_rename_by_name, f
    <2>2. \A s \in Find(Begin, f) : Good(s, Zero) /\ (s.ok => f \in FilesIn(s.heap))
      BY <1>1, FindKeeps, KeepsGood
    <2>3. \A s \in Find(Begin, f) : s.ok => \A t \in Opened(s) : Found(t, Zero)
      BY <1>1, <2>2, LookupFound
    <2> HIDE DEF Opened
    <2>4. \A s \in M : Found(s, Zero)
      BY <2>2, <2>3, FailedIsMade DEF Then
    <2>5. ASSUME NEW s, s.ok, Found(s, Zero), NEW t \in Renamed(s) PROVE Good(t, Zero)
      <3> DEFINE p == s.got
                 d == Plus(Zero, p)
                 R == Rename(s, p, f)
      <3>1. p \in FilesIn(s.heap) /\ p \in Slots /\ Good(s, d) /\ d \in Debts
        BY <1>1, <2>5, PlusIs DEF Found, FilesIn
      <3>2. \A u \in R : Good(u, d)
        BY <2>5, <3>1, RenameGood
      <3>3. t \in Then(R, LAMBDA u : MayFail(RV_file_close(u, p)))
        BY <2>5
      <3> HIDE DEF R, p
      <3>4. \A u \in R : u.ok => Good(RV_file_close(u, p), Zero) /\ RV_file_close(u, p).ok
        BY <1>1, <3>1, <3>2, CloseGood
      <3>5. ASSUME NEW u \in R, u.ok, t \in MayFail(RV_file_close(u, p)) PROVE Good(t, Zero)
        BY <1>1, <3>4, <3>5, MayFailKeeps, KeepsGood DEF Good
      <3>6. ASSUME t \in R, ~ t.ok PROVE Good(t, Zero)
        BY <3>2, <3>6, FailedIsMade
      <3> QED
        BY <3>3, <3>5, <3>6 DEF Then
    <2> HIDE DEF M, Renamed
    <2>6. \A s \in S : Good(s, Zero)
      BY <2>4, <2>5, FailedIsMade DEF Then, Found
    <2> HIDE DEF S
    <2> QED
      BY <2>1, <2>6, PlainEnds
  <1> QED
    BY <1>7, <1>8, <1>9, <1>10

(***************************************************************************)
(* The theorems                                                            *)
(***************************************************************************)

\* RV_group_get by name may move its location; when it does not, the heap is
\* what it was.
LEMMA GetInfoByNameEnds ==
  ASSUME VolInv, NEW o \in Slots, RV_group_get_info_by_name(o)
  PROVE  VolInv'
  <1>1. PICK s : Return(s) /\ rehomed' = (rehomed \/ s.heap # heap)
    BY DEF RV_group_get_info_by_name
  <1>2. open' = open /\ iter' = iter
    BY DEF RV_group_get_info_by_name
  <1>3. heap' = s.heap /\ failed' = (failed \/ ~ s.ok)
    BY <1>1, ReturnIs
  <1>4. ~rehomed' => ~rehomed /\ heap' = heap
    BY <1>1, <1>3
  <1> QED
    BY <1>2, <1>3, <1>4, NewState DEF VolInv, IterShape

LEMMA InitVolInv ==
  ASSUME Init
  PROVE  VolInv
  <1>1. /\ heap = [p \in Slots |-> Freed] /\ open = {} /\ iter = NoIter
    BY DEF Init, SessionInit
  <1>2. heap \in Heaps /\ \A p \in Slots : heap[p] = Freed /\ heap[p].kind = "free"
    BY <1>1 DEF Heaps, Freed
  <1>3. FilesIn(heap) = {} /\ "free" \notin Objects
    BY <1>2 DEF FilesIn, Objects
  <1>4. IterShape /\ iter.at = NoSlot
    BY <1>1 DEF IterShape, NoIter
  <1>5. Covered(heap, open, iter.at, Zero)
    BY <1>1, <1>2, <1>3, <1>4, ZeroType DEF Covered
  <1>6. Exact(heap, open, Zero)
    BY <1>3 DEF Exact
  <1> QED
    BY <1>4, <1>5, <1>6 DEF VolInv

LEMMA NextVolInv ==
  ASSUME VolInv, [Next]_vars
  PROVE  VolInv'
  <1>1. ASSUME NEW n \in Names,
               \/ RV_file_create(n) \/ \E w \in BOOLEAN : RV_file_open(n, w)
               \/ RV_file_specific_is_accessible(n) \/ RV_file_specific_delete(n)
        PROVE  VolInv'
    BY <1>1, FileOpens, OtherKeeps
  <1>2. ASSUME NEW o \in Slots, FileCalls(o) PROVE VolInv'
    BY <1>2, FileKeeps, FileOpens, CloseFileEnds DEF FileCalls
  <1>3. ASSUME NEW o \in Slots, NEW k \in Objects, Closes(o, k) PROVE VolInv'
    BY <1>3, ClosesEnds
  <1>4. ASSUME NEW o \in Slots, GroupCalls(o) PROVE VolInv'
    <2>1. RV_group_close(o) => VolInv'
      BY <1>3 DEF RV_group_close, Objects
    <2> QED
      BY <1>4, <2>1, ObjectOpens, FileKeeps, GetInfoByNameEnds DEF GroupCalls
  <1>5. ASSUME NEW o \in Slots, DatasetCalls(o) PROVE VolInv'
    <2>1. RV_dataset_close(o) => VolInv'
      BY <1>3 DEF RV_dataset_close, Objects
    <2> QED
      BY <1>5, <2>1, ObjectOpens, DatasetKeeps, OtherKeeps DEF DatasetCalls
  <1>6. ASSUME NEW o \in Slots, DatatypeCalls(o) PROVE VolInv'
    <2>1. RV_datatype_close(o) => VolInv'
      BY <1>3 DEF RV_datatype_close, Objects
    <2> QED
      BY <1>6, <2>1, ObjectOpens, FileKeeps DEF DatatypeCalls
  <1>7. ASSUME NEW o \in Slots, LinkCalls(o) PROVE VolInv'
    BY <1>7, OtherKeeps, LinkKeeps, IterStartEnds DEF LinkCalls
  <1>8. ASSUME NEW o \in Slots, ObjectCalls(o) PROVE VolInv'
    BY <1>8, ObjectOpens, ObjectQuestions, IterStartEnds DEF ObjectCalls
  <1>9. ASSUME NEW o \in Slots, AttrCalls(o) PROVE VolInv'
    <2>1. RV_attr_close(o) => VolInv'
      BY <1>3 DEF RV_attr_close, Objects
    <2> QED
      BY <1>9, <2>1, AttrCallsEnd, AttrKeeps, IterStartEnds DEF AttrCalls
  <1>10. CASE UNCHANGED vars
    BY <1>10, NewState DEF vars, VolInv, IterShape
  <1> QED
    BY <1>1, <1>2, <1>4, <1>5, <1>6, <1>7, <1>8, <1>9, <1>10, IterStepsEnd DEF Next

\* The invariant of the session: whatever a callback does, in whatever order
\* and wherever it fails, it pays what it owes or fails owing it.
THEOREM SessionInvariant == Spec => []VolInv
  <1>1. Init => VolInv
    BY InitVolInv
  <1>2. VolInv /\ [Next]_vars => VolInv'
    BY NextVolInv
  <1> QED
    BY <1>1, <1>2, PTL DEF Spec

LEMMA NamesOfSets ==
  /\ Files = FilesIn(heap)
  /\ \A f : Held(f) = HeldIn(heap, f) /\ Users(f) = UsesIn(heap, open, f)
  BY DEF Files, FilesIn, Held, HeldIn, Users, UsesIn

\* No structure that the application or an object still uses is freed
\* (RV_file_close frees a file at its last reference): no interleaving of
\* calls, failures and iterations leaves a file with fewer references than
\* users.
THEOREM ReferencesCover == Spec => []RefsCover
  <1>1. ASSUME VolInv PROVE RefsCover
    <2> SUFFICES ASSUME ~rehomed
                 PROVE  /\ \A p \in open : Live(heap, p)
                        /\ \A p \in Slots : heap[p].kind \in Objects => heap[p].dom \in Files
                        /\ \A f \in Files : heap[f].ref >= Users(f)
      BY DEF RefsCover
    <2>1. Covered(heap, open, iter.at, Zero)
      BY <1>1 DEF VolInv
    <2>2. ASSUME NEW f \in Files PROVE heap[f].ref >= Users(f)
      <3>1. f \in Slots /\ heap[f].ref \in Nat /\ Zero[f] = 0 /\ UsesIn(heap, open, f) \in Nat
        BY <2>1, ZeroType, UsesType DEF Files, Covered, Heaps
      <3>2. heap[f].ref >= UsesIn(heap, open, f) + Zero[f]
        BY <2>1, NamesOfSets DEF Covered
      <3> QED
        BY <3>1, <3>2, NamesOfSets
    <2> QED
      BY <2>1, <2>2, NamesOfSets DEF Covered, Live
  <1> QED
    BY <1>1, SessionInvariant, PTL

\* As long as no call has failed the count of every file is the number of its
\* users, so that the file is freed (and its memory given back) with the last.
THEOREM ReferencesExact == Spec => []RefsExact
  <1>1. ASSUME VolInv PROVE RefsExact
    <2> SUFFICES ASSUME ~failed, ~rehomed, NEW f \in Files
                 PROVE  heap[f].ref = Users(f) /\ Users(f) > 0
      BY DEF RefsExact
    <2>1. Covered(heap, open, iter.at, Zero) /\ Exact(heap, open, Zero)
      BY <1>1 DEF VolInv
    <2>2. f \in Slots /\ heap[f].ref \in Nat /\ Zero[f] = 0 /\ UsesIn(heap, open, f) \in Nat
      BY <2>1, ZeroType, UsesType DEF Files, Covered, Heaps
    <2>3. heap[f].ref = UsesIn(heap, open, f) + Zero[f] /\ heap[f].ref > 0
      BY <2>1, NamesOfSets DEF Exact
    <2> QED
      BY <2>2, <2>3, NamesOfSets
  <1> QED
    BY <1>1, SessionInvariant, PTL

(***************************************************************************)
(* The requests a call makes                                               *)
(***************************************************************************)

\* The options of the easy handle.
Options == [base : {"GET", "PUT", "POST"}, body : {"none", "own", "old"}, custom : BOOLEAN]

\* A request is the one its callback meant, and stores nothing in a file that
\* is not open for writing.
Meant(r) == /\ r.verb = r.meant
            /\ r.body = "old" => r.verb = "DELETE"
            /\ iter = NoIter => r.hosts = {r.to}
Allowed(r) == r.meant \in {"PUT", "POST"} => r.rw

\* A session of which all requests are; one that can make another; one that
\* has left the header list as it was or free; and one whose header list names
\* no other domain than n.
Traced(s) == /\ Shaped(s) /\ s.curl \in Options
             /\ \A r \in s.sent : Allowed(r) /\ (~failed => Meant(r))
Sound(s) == Traced(s) /\ (~failed => ~ s.curl.custom)
Ready(s) == Sound(s) /\ s.headers \in {{}, headers}
Busy(s, n) == Sound(s) /\ (~failed /\ iter = NoIter => s.headers \subseteq {n})

\* The outcome of a call: when it succeeds the handle is as it was found.
Ends(s) == Traced(s) /\ (s.ok => Ready(s))

\* Until a call fails no custom request is left set, and no header is left
\* outside the two iterations that keep theirs while they last.
HandleInv ==
  /\ curl \in Options
  /\ ~failed => ~curl.custom
  /\ ~failed /\ iter.kind \in {"none", "visit"} => headers = {}

\* t is s, but for the heap, the object found and the success.
Same(t, s) == Shaped(t) /\ t.curl = s.curl /\ t.headers = s.headers /\ t.sent = s.sent

LEMMA SameAsks ==
  ASSUME NEW s, NEW t, Same(t, s)
  PROVE  /\ Traced(s) => Traced(t)
         /\ Sound(s) => Sound(t)
         /\ Ready(s) => Ready(t) /\ Ends(t)
         /\ \A n : Busy(s, n) => Busy(t, n)
  BY DEF Same, Traced, Sound, Ready, Ends, Busy

LEMMA ReadyAsks ==
  ASSUME HandleInv, NEW s, Ready(s)
  PROVE  Ends(s) /\ Traced(s) /\ Shaped(s) /\ \A n : Busy(s, n)
  BY DEF HandleInv, Ready, Busy, Sound, Ends, Traced, NoIter

LEMMA BeginReady ==
  ASSUME HandleInv PROVE Ready(Begin)
  BY DEF HandleInv, Ready, Sound, Traced, Begin, Shaped, Fields

\* The error exit, and what the clean-up of a callback does.
LEMMA CleanUpAsks ==
  ASSUME NEW s, Traced(s)
  PROVE  /\ Same(Error(s), s) /\ ~ Error(s).ok /\ Error(s).heap = s.heap
         /\ Ends(Error(s))
         /\ LET t == NoHeaders(s)
            IN Traced(t) /\ t.headers = {} /\ t.curl = s.curl /\ t.ok = s.ok
         /\ LET t == NoCustom(s)
            IN Traced(t) /\ t.headers = s.headers /\ ~t.curl.custom /\ t.ok = s.ok
         /\ LET t == NoUpload(s)
            IN Traced(t) /\ t.headers = s.headers /\ t.curl.custom = s.curl.custom /\ t.ok = s.ok
  BY DEF Traced, Ends, Same, Error, NoHeaders, NoCustom, NoUpload, Shaped, Fields, Options

LEMMA NoHeadersReady ==
  ASSUME NEW s, Sound(s)
  PROVE  Ready(NoHeaders(s)) /\ Ends(NoHeaders(s)) /\ NoHeaders(s).headers = {}
         /\ NoHeaders(s).ok = s.ok
  BY CleanUpAsks DEF Sound, Ready, Ends

\* What setting the options of a request does.
LEMMA SetOptIs ==
  ASSUME NEW s, Traced(s), NEW verb \in Verbs, NEW t, t = SetOpt(s, verb)
  PROVE  /\ Traced(t) /\ t.headers = s.headers /\ t.ok = s.ok
         /\ verb = "DELETE" => t.curl.custom
         /\ verb # "DELETE" => /\ t.curl.custom = s.curl.custom
                               /\ t.curl.base = IF verb = "FLUSH" THEN "PUT" ELSE verb
                               /\ t.curl.body # "old"
         /\ verb = "GET" => t.curl.body = "none"
  BY DEF Traced, SetOpt, Shaped, Fields, Options, Verbs

\* A request whose options, header and write intent are right is traced.
LEMMA PerformAsks ==
  ASSUME NEW s, Traced(s), NEW verb \in Verbs, NEW n, NEW w,
         verb \in {"PUT", "POST", "FLUSH"} => w,
         ~failed => /\ s.curl.custom = (verb = "DELETE")
                    /\ verb # "DELETE" => /\ s.curl.base = IF verb = "FLUSH" THEN "PUT" ELSE verb
                                          /\ s.curl.body # "old"
                    /\ iter = NoIter => s.headers = {n},
         NEW t \in Perform(s, verb, n, w)
  PROVE  Traced(t) /\ t.curl = s.curl /\ t.headers = s.headers /\ t.heap = s.heap
  <1> DEFINE r == Wire(s, verb, n, w)
             u == [s EXCEPT !.sent = @ \cup {r}]
  <1>1. Allowed(r)
    BY DEF Allowed, Wire, Verbs
  <1>2. ~failed => Meant(r)
    BY DEF Meant, Wire, Verbs
  <1> HIDE DEF r
  <1>3. Traced(u) /\ u.curl = s.curl /\ u.headers = s.headers /\ u.heap = s.heap
    BY <1>1, <1>2 DEF Traced, Shaped, Fields
  <1> HIDE DEF u
  <1>4. t = u \/ t = Error(u)
    BY DEF Perform, u, r
  <1>5. Same(Error(u), u) /\ Error(u).heap = u.heap
    BY <1>3, CleanUpAsks
  <1> QED
    BY <1>3, <1>4, <1>5, SameAsks DEF Same

\* The same with the options set for it: the request is traced, and nothing
\* but a custom request is left behind.
LEMMA AskAsks ==
  ASSUME NEW s, Sound(s), NEW verb \in Verbs, NEW n, NEW w,
         verb \in {"PUT", "POST", "FLUSH"} => w,
         ~failed /\ iter = NoIter => s.headers = {n},
         NEW t \in Perform(SetOpt(s, verb), verb, n, w)
  PROVE  /\ Traced(t) /\ t.headers = s.headers /\ t.heap = s.heap
         /\ verb # "DELETE" => Busy(t, n) /\ Sound(t)
         /\ verb = "GET" => t.curl.base = "GET" /\ t.curl.body = "none"
  <1> DEFINE u == SetOpt(s, verb)
  <1>1. /\ Traced(u) /\ u.headers = s.headers
        /\ verb = "DELETE" => u.curl.custom
        /\ verb # "DELETE" => /\ u.curl.custom = s.curl.custom
                              /\ u.curl.base = IF verb = "FLUSH" THEN "PUT" ELSE verb
                              /\ u.curl.body # "old"
        /\ verb = "GET" => u.curl.body = "none"
    BY SetOptIs DEF Sound
  <1>2. u.heap = s.heap
    BY SetOptKeeps DEF Keeps, Sound, Traced
  <1>3. u.curl.custom \in BOOLEAN /\ s.curl.custom \in BOOLEAN
    BY <1>1 DEF Sound, Traced, Options
  <1> HIDE DEF u
  <1>4. t \in Perform(u, verb, n, w)
    BY DEF u
  <1>5. Traced(t) /\ t.curl = u.curl /\ t.headers = u.headers /\ t.heap = u.heap
    <2>1. ~failed => u.curl.custom = (verb = "DELETE")
      BY <1>1, <1>3 DEF Sound
    <2> QED
      BY <1>1, <1>4, <2>1, PerformAsks
  <1> QED
    BY <1>1, <1>2, <1>3, <1>5, VerbsAre DEF Sound, Busy

LEMMA RequestAsks ==
  ASSUME NEW s, NEW f, NEW verb \in Verbs, Busy(s, s.heap[f].name),
         verb \in {"PUT", "POST"} => s.heap[f].rw,
         NEW t \in Request(s, verb, f)
  PROVE  /\ Traced(t) /\ t.heap = s.heap /\ t.headers = s.headers \cup {s.heap[f].name}
         /\ verb # "DELETE" => Busy(t, s.heap[f].name) /\ Sound(t)
         /\ verb = "GET" => t.curl.base = "GET" /\ t.curl.body = "none"
  <1> DEFINE n == s.heap[f].name
             u == Host(s, n)
  <1>1. Same(u, [s EXCEPT !.headers = @ \cup {n}]) /\ u.headers = s.headers \cup {n}
        /\ u.heap = s.heap /\ u.curl = s.curl /\ u.sent = s.sent /\ Shaped(u)
    BY DEF Same, Host, Busy, Sound, Traced, Shaped, Fields
  <1>2. Sound(u) /\ (~failed /\ iter = NoIter => u.headers = {n})
    BY <1>1 DEF Busy, Sound, Traced
  <1> DEFINE w == s.heap[f].rw \/ verb = "FLUSH"
  <1>3. t \in Perform(SetOpt(u, verb), verb, n, w)
    BY DEF Request
  <1>4. verb \in {"PUT", "POST", "FLUSH"} => w
    OBVIOUS
  <1> HIDE DEF u, w
  <1>5. /\ Traced(t) /\ t.headers = u.headers /\ t.heap = u.heap
        /\ verb # "DELETE" => Busy(t, n) /\ Sound(t)
        /\ verb = "GET" => t.curl.base = "GET" /\ t.curl.body = "none"
    BY <1>2, <1>3, <1>4, AskAsks
  <1> QED
    BY <1>1, <1>5

(***************************************************************************)
(* What a callback is built from                                           *)
(***************************************************************************)

LEMMA MayFailAsks ==
  ASSUME NEW s, NEW t \in MayFail(s)
  PROVE  /\ Ready(s) => Ends(t) /\ (t.ok => Ready(t))
         /\ Ends(s) => Ends(t)
         /\ Traced(s) => Traced(t) /\ t.heap = s.heap /\ (t.ok => t = s)
         /\ \A n : Busy(s, n) => Busy(t, n)
         /\ Sound(s) => Sound(t)
  <1>1. t = s \/ t = Error(s)
    BY DEF MayFail
  <1>2. Traced(s) => /\ Same(Error(s), s) /\ ~ Error(s).ok /\ Error(s).heap = s.heap
                     /\ Ends(Error(s))
    BY CleanUpAsks
  <1>3. /\ Ready(s) => Ends(s) /\ Traced(s)
        /\ Ends(s) => Traced(s)
        /\ Sound(s) => Traced(s)
        /\ \A n : Busy(s, n) => Traced(s)
    BY DEF Ready, Sound, Ends, Busy
  <1>4. Traced(s) => /\ Sound(s) => Sound(Error(s))
                     /\ \A n : Busy(s, n) => Busy(Error(s), n)
                     /\ Traced(Error(s))
    BY <1>2, SameAsks
  <1>5. CASE t = s
    BY <1>3, <1>5 DEF Ends
  <1>6. CASE t = Error(s)
    BY <1>2, <1>3, <1>4, <1>6
  <1> QED
    BY <1>1, <1>5, <1>6

\* A question leaves nothing behind when it is answered.
LEMMA QueryAsks ==
  ASSUME NEW s, NEW f, Busy(s, s.heap[f].name), NEW t \in Query(s, f)
  PROVE  Ends(t) /\ t.heap = s.heap /\ (t.ok => Ready(t) /\ t.headers = {})
  <1>1. \A u \in Request(s, "GET", f) : Sound(u) /\ Traced(u) /\ u.heap = s.heap
    BY RequestAsks, VerbsAre
  <1> DEFINE S == Then(Request(s, "GET", f), MayFail)
  <1>2. \A u \in S : Sound(u) /\ Traced(u) /\ u.heap = s.heap
    BY <1>1, MayFailAsks DEF Then
  <1> HIDE DEF S
  <1>3. CASE t \in S /\ ~t.ok
    BY <1>2, <1>3 DEF Ends
  <1>4. ASSUME NEW u \in S, t = NoHeaders(u)
        PROVE  Ends(t) /\ t.heap = s.heap /\ (t.ok => Ready(t) /\ t.headers = {})
    <2>1. Ready(t) /\ Ends(t) /\ t.headers = {}
      BY <1>2, <1>4, NoHeadersReady
    <2>2. t.heap = u.heap
      BY <1>2, <1>4, OptionsKeep DEF Keeps, Traced
    <2> QED
      BY <1>2, <2>1, <2>2
  <1> QED
    BY <1>3, <1>4 DEF Query, Then, S

\* What ends a request that stores something, and one that deletes.
LEMMA StoreAsks ==
  ASSUME NEW s, NEW f, Busy(s, s.heap[f].name), s.heap[f].rw, NEW t \in Store(s, f)
  PROVE  Ends(t) /\ t.heap = s.heap
  <1>1. \A u \in Request(s, "PUT", f) : Sound(u) /\ Traced(u) /\ u.heap = s.heap
    BY RequestAsks, VerbsAre
  <1>2. CASE t \in Request(s, "PUT", f) /\ ~t.ok
    BY <1>1, <1>2 DEF Ends
  <1>3. ASSUME NEW u \in Request(s, "PUT", f), t = NoHeaders(NoUpload(u))
        PROVE  Ends(t) /\ t.heap = s.heap
    <2>1. Sound(NoUpload(u))
      BY <1>1, CleanUpAsks DEF Sound
    <2>2. Ends(t)
      BY <1>3, <2>1, NoHeadersReady
    <2>3. t.heap = u.heap
      BY <1>1, <1>3, OptionsKeep DEF Keeps, Traced
    <2> QED
      BY <1>1, <2>2, <2>3
  <1> QED
    BY <1>2, <1>3 DEF Store, Then

\* The custom request is reset and the list is freed, in either order.
LEMMA ResetReady ==
  ASSUME NEW s, Traced(s)
  PROVE  /\ Ready(NoHeaders(NoCustom(s))) /\ Ends(NoHeaders(NoCustom(s)))
         /\ Ready(NoCustom(NoHeaders(s))) /\ Ends(NoCustom(NoHeaders(s)))
         /\ NoHeaders(NoCustom(s)).heap = s.heap /\ NoCustom(NoHeaders(s)).heap = s.heap
         /\ NoHeaders(NoCustom(s)).headers = {} /\ NoCustom(NoHeaders(s)).headers = {}
  <1>1. Sound(NoCustom(s)) /\ Traced(NoHeaders(s)) /\ NoHeaders(s).headers = {}
    BY CleanUpAsks DEF Sound
  <1>2. Ready(NoHeaders(NoCustom(s))) /\ Ends(NoHeaders(NoCustom(s)))
        /\ NoHeaders(NoCustom(s)).headers = {}
    BY <1>1, NoHeadersReady
  <1>3. Ready(NoCustom(NoHeaders(s))) /\ NoCustom(NoHeaders(s)).headers = {}
    BY <1>1, CleanUpAsks DEF Sound, Ready
  <1>4. NoHeaders(NoCustom(s)).heap = s.heap /\ NoCustom(NoHeaders(s)).heap = s.heap
    BY OptionsKeep DEF Keeps, Traced
  <1> QED
    BY <1>2, <1>3, <1>4 DEF Ready, Sound, Ends

LEMMA RemoveAsks ==
  ASSUME NEW s, NEW f, Busy(s, s.heap[f].name), NEW t \in Remove(s, f)
  PROVE  Ends(t) /\ t.heap = s.heap
  <1>1. \A u \in Request(s, "DELETE", f) : Traced(u) /\ u.heap = s.heap
    BY RequestAsks, VerbsAre
  <1>2. CASE t \in Request(s, "DELETE", f) /\ ~t.ok
    BY <1>1, <1>2 DEF Ends
  <1>3. ASSUME NEW u \in Request(s, "DELETE", f), t = NoHeaders(NoCustom(u))
        PROVE  Ends(t) /\ t.heap = s.heap
    BY <1>1, <1>3, ResetReady
  <1> QED
    BY <1>2, <1>3 DEF Remove, Then

LEMMA FlushAsks ==
  ASSUME NEW s, NEW f, Busy(s, s.heap[f].name), NEW t \in Flush(s, f)
  PROVE  Ends(t) /\ t.heap = s.heap
  <1>1. \A u \in Request(s, "FLUSH", f) : Traced(u) /\ u.heap = s.heap
    BY RequestAsks, VerbsAre
  <1>2. CASE t \in Request(s, "FLUSH", f) /\ ~t.ok
    BY <1>1, <1>2 DEF Ends
  <1>3. ASSUME NEW u \in Request(s, "FLUSH", f), t \in {NoCustom(NoHeaders(u)), Error(u)}
        PROVE  Ends(t) /\ t.heap = s.heap
    <2>1. Traced(u) /\ u.heap = s.heap
      BY <1>1, <1>3
    <2>2. CASE t = NoCustom(NoHeaders(u))
      BY <2>1, <2>2, ResetReady
    <2>3. CASE t = Error(u)
      BY <2>1, <2>3, CleanUpAsks
    <2> QED
      BY <1>3, <2>2, <2>3
  <1> QED
    BY <1>2, <1>3 DEF Flush, Then

\* A lookup, which may fail without failing its callback.
LEMMA FindAsks ==
  ASSUME NEW s, NEW f, Busy(s, s.heap[f].name), NEW t \in Find(s, f)
  PROVE  /\ Ends(t) /\ Busy(t, s.heap[f].name) /\ t.heap = s.heap
         /\ t.ok => Ready(t) /\ t.headers = {}
  <1> DEFINE n == s.heap[f].name
  <1>1. \A u \in Request(s, "GET", f) : Sound(u) /\ Traced(u) /\ u.heap = s.heap /\ Busy(u, n)
    BY RequestAsks, VerbsAre
  <1>2. CASE t \in Request(s, "GET", f) /\ ~t.ok
    BY <1>1, <1>2 DEF Ends
  <1> HIDE DEF n
  <1>3. ASSUME NEW u \in Request(s, "GET", f), t \in MayFail(NoHeaders(u))
        PROVE  /\ Ends(t) /\ Busy(t, n) /\ t.heap = s.heap
               /\ t.ok => Ready(t) /\ t.headers = {}
    <2>1. /\ Ready(NoHeaders(u)) /\ Ends(NoHeaders(u)) /\ NoHeaders(u).headers = {}
          /\ Traced(NoHeaders(u))
      BY <1>1, NoHeadersReady DEF Ends
    <2>2. NoHeaders(u).heap = s.heap
      BY <1>1, OptionsKeep DEF Keeps, Traced
    <2>3. Busy(NoHeaders(u), n)
      BY <2>1 DEF Busy, Ready
    <2>4. Ends(t) /\ Busy(t, n) /\ t.heap = NoHeaders(u).heap
          /\ (t.ok => t = NoHeaders(u))
      BY <1>3, <2>1, <2>3, MayFailAsks
    <2> QED
      BY <2>1, <2>2, <2>4
  <1> QED
    BY <1>1, <1>2, <1>3 DEF Find, Then, n

LEMMA MayFindAsks ==
  ASSUME HandleInv, NEW s, NEW f, Ready(s), s.ok, NEW t \in MayFind(s, f)
  PROVE  Ends(t) /\ t.heap = s.heap /\ (t.ok => Ready(t))
  BY ReadyAsks, FindAsks DEF MayFind

LEMMA RetainAsks ==
  ASSUME NEW s, Ready(s), NEW f
  PROVE  /\ Ready(Retain(s, f)) /\ Retain(s, f).ok = s.ok
         /\ Retain(s, f).heap = [s.heap EXCEPT ![f].ref = @ + 1]
  <1> DEFINE h == [s.heap EXCEPT ![f].ref = @ + 1]
  <1>1. Retain(s, f) = [s EXCEPT !.heap = h]
    BY DEF Retain, Ready, Sound, Traced, Shaped, Fields
  <1> HIDE DEF h
  <1>2. Same(Retain(s, f), s) /\ Retain(s, f).ok = s.ok /\ Retain(s, f).heap = h
    BY <1>1 DEF Ready, Sound, Traced, Same, Shaped, Fields
  <1> QED
    BY <1>2, SameAsks DEF h

LEMMA CloseAsks ==
  ASSUME NEW s, Traced(s), NEW f
  PROVE  /\ Same(RV_file_close(s, f), s) /\ RV_file_close(s, f).ok = s.ok
         /\ RV_file_close(s, f).heap = IF s.heap[f].ref = 1
                                       THEN [s.heap EXCEPT ![f] = Freed]
                                       ELSE [s.heap EXCEPT ![f].ref = @ - 1]
  <1> DEFINE h == IF s.heap[f].ref = 1 THEN [s.heap EXCEPT ![f] = Freed]
                                       ELSE [s.heap EXCEPT ![f].ref = @ - 1]
  <1>1. RV_file_close(s, f) = [s EXCEPT !.heap = h]
    BY DEF RV_file_close, Traced, Shaped, Fields
  <1> HIDE DEF h
  <1>2. Same(RV_file_close(s, f), s) /\ RV_file_close(s, f).ok = s.ok
        /\ RV_file_close(s, f).heap = h
    BY <1>1 DEF Traced, Same, Shaped, Fields
  <1> QED
    BY <1>2 DEF h

LEMMA NewObjectAsks ==
  ASSUME NEW s, Traced(s), NEW k, NEW f, NEW t \in NewObject(s, k, f)
  PROVE  /\ Same(t, s) /\ t.ok = s.ok /\ t.got \in Slots /\ ~ Live(s.heap, t.got)
         /\ t.heap = [s.heap EXCEPT ![t.got] = ObjStruct(k, f)]
  <1>1. PICK q \in FreeSlots(s.heap) : t = [s EXCEPT !.heap[q] = ObjStruct(k, f), !.got = q]
    BY DEF NewObject
  <1> DEFINE h == [s.heap EXCEPT ![q] = ObjStruct(k, f)]
  <1>2. t = [s EXCEPT !.heap = h, !.got = q]
    BY <1>1 DEF Traced, Shaped, Fields
  <1>3. q \in Slots /\ ~ Live(s.heap, q)
    BY DEF FreeSlots
  <1> HIDE DEF h
  <1>4. Same(t, s) /\ t.ok = s.ok /\ t.heap = h /\ t.got = q
    BY <1>2 DEF Traced, Same, Shaped, Fields
  <1> QED
    BY <1>3, <1>4 DEF h

LEMMA FileAtAsks ==
  ASSUME NEW s, Traced(s), NEW d, NEW n, NEW w
  PROVE  Same(FileAt(s, d, n, w), s) /\ FileAt(s, d, n, w).ok = s.ok
  <1> DEFINE h == [s.heap EXCEPT ![d] = FileStruct(d, n, w)]
  <1>1. FileAt(s, d, n, w) = [s EXCEPT !.heap = h, !.got = d]
    BY DEF FileAt, Traced, Shaped, Fields
  <1> HIDE DEF h
  <1> QED
    BY <1>1 DEF Traced, Same, Shaped, Fields

LEMMA LocInfoAsks ==
  ASSUME NEW s, Ready(s), NEW f, NEW t \in LocInfo(s, f)
  PROVE  Ready(t) /\ Ends(t)
  <1>1. Traced(s)
    BY DEF Ready, Sound
  <1> DEFINE u == [s EXCEPT !.got = f]
             c == RV_file_close(s, f)
  <1>2. Ready(u)
    BY <1>1, SameAsks DEF Traced, Same, Shaped, Fields
  <1>3. Ready(c)
    BY <1>1, CloseAsks, SameAsks
  <1> HIDE DEF u, c
  <1>4. \A v : Ready(v) => Traced(v) /\ Ends(v)
    BY DEF Ready, Sound, Ends
  <1>5. CASE t = u \/ t = Error(u)
    BY <1>2, <1>4, <1>5, CleanUpAsks, SameAsks
  <1>6. CASE t = Error(c)
    BY <1>3, <1>4, <1>6, CleanUpAsks, SameAsks
  <1>7. CASE \E d, n, w : t = FileAt(c, d, n, w)
    BY <1>3, <1>4, <1>7, FileAtAsks, SameAsks
  <1>8. \/ t = u \/ t = Error(u) \/ t = Error(c)
        \/ \E d \in FreeSlots(s.heap), n \in Names : t = FileAt(c, d, n, s.heap[f].rw)
    BY DEF LocInfo, MayFail, u, c
  <1>9. (\E d \in FreeSlots(s.heap), n \in Names : t = FileAt(c, d, n, s.heap[f].rw))
        => \E d, n, w : t = FileAt(c, d, n, w)
    OBVIOUS
  <1> QED
    BY <1>5, <1>6, <1>7, <1>8, <1>9

LEMMA FindLocAsks ==
  ASSUME NEW s, NEW f, Busy(s, s.heap[f].name), NEW t \in FindLoc(s, f)
  PROVE  Ends(t) /\ (t.ok => Ready(t))
  BY FindAsks, LocInfoAsks DEF FindLoc, Then

LEMMA PostNewAsks ==
  ASSUME NEW s, NEW f, Busy(s, s.heap[f].name), s.heap[f].rw, NEW k, NEW t \in PostNew(s, k, f)
  PROVE  Ends(t) /\ (t.ok => t.heap = [s.heap EXCEPT ![t.got] = ObjStruct(k, f)]
                             /\ t.got \in Slots /\ ~ Live(s.heap, t.got))
  <1> DEFINE S == Then(Request(s, "POST", f), MayFail)
  <1>1. \A u \in Request(s, "POST", f) : Sound(u) /\ Traced(u) /\ u.heap = s.heap
    BY RequestAsks, VerbsAre
  <1>2. \A u \in S : Sound(u) /\ Traced(u) /\ u.heap = s.heap
    BY <1>1, MayFailAsks DEF Then
  <1> HIDE DEF S
  <1>3. CASE t \in S /\ ~t.ok
    BY <1>2, <1>3 DEF Ends
  <1>4. ASSUME NEW u \in S, t \in NewObject(NoHeaders(u), k, f)
        PROVE  Ends(t) /\ t.heap = [s.heap EXCEPT ![t.got] = ObjStruct(k, f)]
               /\ t.got \in Slots /\ ~ Live(s.heap, t.got)
    <2>1. Ready(NoHeaders(u)) /\ Traced(NoHeaders(u))
      BY <1>2, NoHeadersReady DEF Ends
    <2>2. NoHeaders(u).heap = s.heap
      BY <1>2, OptionsKeep DEF Keeps, Traced
    <2>3. /\ Same(t, NoHeaders(u)) /\ t.got \in Slots /\ ~ Live(NoHeaders(u).heap, t.got)
          /\ t.heap = [NoHeaders(u).heap EXCEPT ![t.got] = ObjStruct(k, f)]
      BY <1>4, <2>1, NewObjectAsks
    <2> QED
      BY <2>1, <2>2, <2>3, SameAsks
  <1> QED
    BY <1>3, <1>4 DEF PostNew, Then, S

LEMMA OpenLocAsks ==
  ASSUME HandleInv, NEW s, NEW f, Ready(s), NEW k, NEW t \in OpenLoc(s, k, f)
  PROVE  Ends(t)
  <1>1. Busy(Retain(s, f), Retain(s, f).heap[f].name)
    BY RetainAsks, ReadyAsks
  <1>2. \A u \in FindLoc(Retain(s, f), f) : Ends(u) /\ (u.ok => Ready(u))
    BY <1>1, FindLocAsks
  <1>3. CASE t \in FindLoc(Retain(s, f), f) /\ ~ t.ok
    BY <1>2, <1>3
  <1>4. ASSUME NEW u \in FindLoc(Retain(s, f), f), u.ok, t \in NewObject(u, k, u.got)
        PROVE  Ends(t)
    BY <1>2, <1>4, NewObjectAsks, SameAsks DEF Ends
  <1> QED
    BY <1>3, <1>4 DEF OpenLoc, Then

(***************************************************************************)
(* The end of a call, and the callbacks                                    *)
(***************************************************************************)

\* What every step of the system does: it keeps the invariant of the handle
\* and takes the three actions of the properties.
AsMeantStep ==
  ~failed => \A r \in sent' : /\ r.verb = r.meant
                              /\ r.body = "old" => r.verb = "DELETE"
                              /\ iter = NoIter => r.hosts = {r.to}
RecoversStep == ok' /\ iter' = NoIter => headers' \in {{}, headers}
IntentStep == \A r \in sent' : r.meant \in {"PUT", "POST"} => r.rw
AsksStep == HandleInv' /\ AsMeantStep /\ RecoversStep /\ IntentStep

LEMMA ReturnAsks ==
  ASSUME NEW s, Return(s), Traced(s)
  PROVE  /\ curl' \in Options /\ curl'.custom = s.curl.custom /\ headers' = s.headers
         /\ AsMeantStep /\ IntentStep /\ ok' = s.ok /\ failed' = (failed \/ ~s.ok)
         /\ s.ok \in BOOLEAN
  <1>1. curl' \in Options /\ curl'.custom = s.curl.custom
    BY DEF Return, Traced, Options
  <1>2. \A r \in sent' : Allowed(r) /\ (~failed => Meant(r))
    BY DEF Return, Traced
  <1>3. AsMeantStep /\ IntentStep
    BY <1>2 DEF AsMeantStep, IntentStep, Allowed, Meant
  <1> QED
    BY <1>1, <1>3 DEF Return, Traced, Shaped

\* A call outside the two iterations that keep their headers.
LEMMA EndsAsks ==
  ASSUME HandleInv, NEW s, Return(s), Ends(s),
         ~failed /\ s.ok /\ iter'.kind \in {"none", "visit"}
            => s.headers = {} \/ iter.kind \in {"none", "visit"}
  PROVE  AsksStep
  <1>1. /\ curl' \in Options /\ curl'.custom = s.curl.custom /\ headers' = s.headers
        /\ AsMeantStep /\ IntentStep /\ ok' = s.ok /\ failed' = (failed \/ ~s.ok)
        /\ s.ok \in BOOLEAN
    BY ReturnAsks DEF Ends
  <1>2. s.ok => s.headers \in {{}, headers} /\ (~failed => ~s.curl.custom)
    BY DEF Ends, Ready, Sound
  <1>3. HandleInv'
    BY <1>1, <1>2 DEF HandleInv, Options
  <1>4. RecoversStep
    BY <1>1, <1>2 DEF RecoversStep
  <1> QED
    BY <1>1, <1>3, <1>4 DEF AsksStep

LEMMA SameIterAsks ==
  ASSUME HandleInv, NEW s, Return(s), Ends(s), iter' = iter
  PROVE  AsksStep
  BY EndsAsks

LEMMA PlainAsks ==
  ASSUME HandleInv, NEW S, \A s \in S : Ends(s), Plain(S)
  PROVE  AsksStep
  BY SameIterAsks DEF Plain

LEMMA OpensAsks ==
  ASSUME HandleInv, NEW S, \A s \in S : Ends(s), Opens(S)
  PROVE  AsksStep
  BY SameIterAsks DEF Opens

LEMMA EndsIs ==
  ASSUME NEW s, Ends(s)
  PROVE  Traced(s) /\ (s.ok => Ready(s)) /\ s.ok \in BOOLEAN
  BY DEF Ends, Traced, Shaped

LEMMA BeginAsks ==
  ASSUME HandleInv
  PROVE  Ready(Begin) /\ Ends(Begin) /\ Traced(Begin) /\ Begin.ok /\ Begin.heap = heap
  BY BeginReady, ReadyAsks, BeginIs

\* The operators that store nothing.
LEMMA ReadyOps ==
  ASSUME HandleInv, NEW s, Ready(s), NEW f
  PROVE  /\ \A t \in Query(s, f) : Ends(t) /\ t.heap = s.heap
         /\ \A t \in Find(s, f) : Ends(t) /\ t.heap = s.heap
         /\ \A t \in FindLoc(s, f) : Ends(t)
         /\ \A t \in Remove(s, f) : Ends(t)
         /\ \A t \in Flush(s, f) : Ends(t)
         /\ \A t \in MayFail(s) : Ends(t)
         /\ \A k : \A t \in NewObject(s, k, f) : Ends(t)
         /\ Ends(RV_file_close(s, f)) /\ Ends(NoHeaders(s))
         /\ \A k : \A t \in OpenLoc(s, k, f) : Ends(t)
  <1>1. /\ Busy(s, s.heap[f].name) /\ Traced(s) /\ Sound(s)
    BY ReadyAsks DEF Ready
  <1>2. /\ \A t \in Query(s, f) : Ends(t) /\ t.heap = s.heap
        /\ \A t \in Find(s, f) : Ends(t) /\ t.heap = s.heap
        /\ \A t \in FindLoc(s, f) : Ends(t)
    BY <1>1, QueryAsks, FindAsks, FindLocAsks
  <1>3. /\ \A t \in Remove(s, f) : Ends(t)
        /\ \A t \in Flush(s, f) : Ends(t)
        /\ \A t \in MayFail(s) : Ends(t)
    BY <1>1, RemoveAsks, FlushAsks, MayFailAsks
  <1>4. \A k : \A t \in NewObject(s, k, f) : Ends(t)
    BY <1>1, NewObjectAsks, SameAsks
  <1>5. Ends(RV_file_close(s, f)) /\ Ends(NoHeaders(s))
    BY <1>1, CloseAsks, SameAsks, NoHeadersReady
  <1>6. \A k : \A t \in OpenLoc(s, k, f) : Ends(t)
    BY OpenLocAsks
  <1> QED
    BY <1>2, <1>3, <1>4, <1>5, <1>6

LEMMA MayFindEnds ==
  ASSUME HandleInv, NEW s, Ready(s), NEW f, NEW t \in MayFind(s, f)
  PROVE  Ends(t) /\ t.heap = s.heap
  BY ReadyOps, ReadyAsks DEF MayFind

LEMMA IndexedAsks ==
  ASSUME HandleInv, NEW s, Ready(s), NEW f, NEW t \in Indexed(s, f)
  PROVE  Ends(t)
  BY ReadyOps, EndsIs DEF Indexed, Then

LEMMA ExistsAsks ==
  ASSUME HandleInv, NEW s, Ready(s), NEW f, NEW t \in Exists(s, f)
  PROVE  Ends(t)
  <1>1. \A u \in Request(s, "GET", f) : Traced(u)
    BY RequestAsks, ReadyAsks, VerbsAre
  <1>2. CASE t \in Request(s, "GET", f) /\ ~t.ok
    BY <1>1, <1>2 DEF Ends
  <1>3. ASSUME NEW u \in Request(s, "GET", f), t = NoCustom(NoHeaders(u)) PROVE Ends(t)
    BY <1>1, <1>3, ResetReady
  <1> QED
    BY <1>2, <1>3 DEF Exists, Then

LEMMA LocalEnds ==
  ASSUME HandleInv, NEW s, Ready(s), NEW t \in Local(s)
  PROVE  Ends(t)
  BY ReadyOps, EndsIs DEF Local, Then

LEMMA TransferAsks ==
  ASSUME NEW s, Ready(s), NEW verb \in Verbs \ {"FLUSH", "DELETE"}, NEW f,
         verb = "PUT" => s.heap[f].rw, NEW t \in Transfer(s, verb, f)
  PROVE  Ends(t)
  <1> DEFINE n == s.heap[f].name
             w == s.heap[f].rw \/ verb # "PUT"
             c == Host(NoHeaders(s), n)
             d == SetOpt(c, verb)
             r == Wire(d, verb, n, w)
             u == [s EXCEPT !.sent = @ \cup {r}]
  <1>1. Traced(s) /\ Sound(s)
    BY DEF Ready, Sound
  <1>2. Traced(c) /\ c.headers = {n} /\ c.curl = s.curl
    BY <1>1 DEF Traced, Host, NoHeaders, Shaped, Fields
  <1>w. verb \in {"PUT", "POST"} => w
    BY DEF Verbs
  <1>t. t \in MayFail(u)
    BY DEF Transfer
  <1> HIDE DEF c, n, w
  <1>3. /\ d.headers = {n} /\ d.curl.custom = s.curl.custom /\ d.curl.base = verb
        /\ d.curl.body # "old" /\ d.curl \in Options
    BY <1>2, SetOptIs DEF Traced
  <1> HIDE DEF d
  <1>4. Allowed(r) /\ (~failed => Meant(r))
    BY <1>1, <1>3, <1>w DEF Allowed, Meant, Wire, Verbs, Sound, Options
  <1> HIDE DEF r
  <1>5. Traced(u) /\ u.curl = s.curl /\ u.headers = s.headers
    BY <1>1, <1>4 DEF Traced, Shaped, Fields
  <1> HIDE DEF u
  <1>6. Ready(u)
    BY <1>5 DEF Ready, Sound
  <1> QED
    BY <1>t, <1>6, MayFailAsks

LEMMA WriteIntentAsks ==
  ASSUME HandleInv, NEW s, Ready(s), NEW f, NEW t \in WriteIntent(s, f)
  PROVE  Ends(t) /\ (t.ok => t = s /\ s.heap[f].rw)
  <1>1. Ends(s) /\ Ends(Error(s)) /\ ~ Error(s).ok
    BY ReadyAsks, CleanUpAsks
  <1> QED
    BY <1>1 DEF WriteIntent

LEMMA StoreEnds ==
  ASSUME HandleInv, NEW s, Ready(s), NEW f, s.heap[f].rw, NEW t \in Store(s, f)
  PROVE  Ends(t) /\ t.heap = s.heap
  BY ReadyAsks, StoreAsks

LEMMA PostNewEnds ==
  ASSUME HandleInv, NEW s, Ready(s), NEW f, s.heap[f].rw, NEW k, NEW t \in PostNew(s, k, f)
  PROVE  Ends(t)
  BY ReadyAsks, PostNewAsks

\* A file that gets a reference keeps its name and its intent.
LEMMA RetainEnds ==
  ASSUME NEW s, Ready(s), NEW f \in Slots, s.heap \in Heaps
  PROVE  /\ Ready(Retain(s, f)) /\ Retain(s, f).ok = s.ok /\ Retain(s, f).heap \in Heaps
         /\ Retain(s, f).heap[f].ref = s.heap[f].ref + 1
         /\ \A p \in Slots : /\ Retain(s, f).heap[p].name = s.heap[p].name
                             /\ Retain(s, f).heap[p].rw = s.heap[p].rw
  <1> DEFINE g == Retain(s, f).heap
  <1>1. g = [s.heap EXCEPT ![f].ref = @ + 1] /\ Ready(Retain(s, f)) /\ Retain(s, f).ok = s.ok
    BY RetainAsks
  <1> HIDE DEF g
  <1>2. /\ g \in Heaps /\ g[f].ref = s.heap[f].ref + 1
        /\ \A p \in Slots : g[p].name = s.heap[p].name /\ g[p].rw = s.heap[p].rw
    BY <1>1 DEF Heaps
  <1> QED
    BY <1>1, <1>2 DEF g

LEMMA CreateAttrAsks ==
  ASSUME HandleInv, NEW s, Ready(s), NEW f \in Slots, s.heap \in Heaps,
         NEW t \in CreateAttr(s, f)
  PROVE  Ends(t) /\ (t.ok => t.heap \in Heaps /\ t.heap[f].rw)
  <1>1. CASE t \in WriteIntent(s, f) /\ ~t.ok
    BY <1>1, WriteIntentAsks
  <1>2. CASE s.heap[f].rw /\ t \in Then(Store(Retain(s, f), f), MayFail)
    <2>1. /\ Ready(Retain(s, f)) /\ Retain(s, f).heap \in Heaps
          /\ Retain(s, f).heap[f].rw
      BY <1>2, RetainEnds
    <2>2. \A u \in Store(Retain(s, f), f) : Ends(u) /\ u.heap = Retain(s, f).heap
      BY <2>1, StoreEnds
    <2>3. CASE t \in Store(Retain(s, f), f)
      BY <2>1, <2>2, <2>3
    <2>4. ASSUME NEW u \in Store(Retain(s, f), f), t \in MayFail(u)
          PROVE  Ends(t) /\ t.heap = u.heap
      BY <2>2, <2>4, MayFailAsks, EndsIs
    <2>5. \/ t \in Store(Retain(s, f), f)
          \/ \E u \in Store(Retain(s, f), f) : t \in MayFail(u)
      BY <1>2 DEF Then
    <2> QED
      BY <2>1, <2>2, <2>3, <2>4, <2>5
  <1>3. \A u \in WriteIntent(s, f) : u.ok => u = s /\ s.heap[f].rw
    BY WriteIntentAsks
  <1> QED
    BY <1>1, <1>2, <1>3 DEF CreateAttr, Then

LEMMA RenameAsks ==
  ASSUME HandleInv, NEW s, Ready(s), NEW p \in Slots, s.heap \in Heaps, NEW f,
         NEW t \in Rename(s, p, f)
  PROVE  Ends(t)
  <1> DEFINE New(u)    == CreateAttr(u, p)
             Copy(u)   == Then(Query(u, p), LAMBDA v : Store(v, p))
             Delete(u) == Remove(RV_file_close(u, p), f)
             Close(u)  == {RV_file_close(u, p)}
             A == OpenAttr(s, p)
             B == Then(A, New)
             C == Then(B, Copy)
             D == Then(C, Delete)
  <1>0. t \in Then(D, Close)
    BY DEF Rename
  <1>1. \A u \in A : Ends(u) /\ u.heap \in Heaps
    BY RetainEnds, ReadyOps DEF OpenAttr
  <1> HIDE DEF A
  <1>2. \A u \in B : Ends(u) /\ (u.ok => u.heap \in Heaps /\ u.heap[p].rw)
    <2>1. \A u : Ready(u) /\ u.heap \in Heaps
                 => \A v \in CreateAttr(u, p) : Ends(v) /\ (v.ok => v.heap \in Heaps /\ v.heap[p].rw)
      BY CreateAttrAsks
    <2> QED
      BY <1>1, <2>1, EndsIs DEF Then
  <1> HIDE DEF B
  <1>3. \A u \in C : Ends(u)
    <2>1. ASSUME NEW u, Ready(u), u.heap[p].rw, NEW v \in Copy(u) PROVE Ends(v)
      <3>1. \A w \in Query(u, p) : Ends(w) /\ w.heap = u.heap
        BY <2>1, ReadyOps
      <3>2. \A w : Ready(w) /\ w.heap[p].rw => \A x \in Store(w, p) : Ends(x)
        BY StoreEnds
      <3> QED
        BY <2>1, <3>1, <3>2, EndsIs DEF Then
    <2> HIDE DEF Copy
    <2> QED
      BY <1>2, <2>1, EndsIs DEF Then
  <1> HIDE DEF C
  <1>4. \A u \in D : Ends(u)
    <2>1. ASSUME NEW u, Ready(u), NEW v \in Delete(u) PROVE Ends(v)
      <3>1. Ready(RV_file_close(u, p))
        BY <2>1, CloseAsks, SameAsks, ReadyAsks
      <3> QED
        BY <2>1, <3>1, ReadyOps
    <2> HIDE DEF Delete
    <2> QED
      BY <1>3, <2>1, EndsIs DEF Then
  <1> HIDE DEF D
  <1>5. \A u : Ready(u) => Ends(RV_file_close(u, p))
    BY ReadyOps
  <1> QED
    BY <1>0, <1>4, <1>5, EndsIs DEF Then

\* A group, a dataset or a datatype that is made under a path already being
\* looked at: the header list may still name the domain of the location.
LEMMA CreatesAsks ==
  ASSUME HandleInv, NEW s, NEW f \in Slots, Busy(s, s.heap[f].name), s.heap \in Heaps,
         Live(s.heap, f), NEW k \in Objects, NEW t \in Creates(s, k, f)
  PROVE  /\ Ends(t)
         /\ t.ok => /\ t.got \in Slots \ {f} /\ t.heap \in Heaps /\ t.heap[f].rw
                    /\ t.heap[f].name = s.heap[f].name /\ t.heap[f].ref = s.heap[f].ref + 1
  <1> DEFINE r == Retain(s, f)
             n == s.heap[f].name
             g == [s.heap EXCEPT ![f].ref = @ + 1]
             Post(u) == PostNew(u, k, f)
  <1>1. Shaped(s) /\ Traced(s) /\ Ends(Error(s)) /\ ~ Error(s).ok
    BY CleanUpAsks DEF Busy, Sound, Traced
  <1>2. Same(r, s) /\ r.heap = g
    BY <1>1 DEF Retain, Same, Shaped, Fields
  <1>3. /\ g \in Heaps /\ g[f].name = n /\ g[f].rw = s.heap[f].rw
        /\ g[f].ref = s.heap[f].ref + 1 /\ Live(g, f)
    BY DEF Heaps, Live
  <1>4. Busy(r, r.heap[f].name)
    BY <1>2, <1>3, SameAsks
  <1>5. \A u \in MayFind(r, f) : Busy(u, u.heap[f].name) /\ u.heap = g /\ (u.ok \/ Ends(u))
    <2>1. \A u \in Find(r, f) : Ends(u) /\ Busy(u, r.heap[f].name) /\ u.heap = r.heap
      BY <1>4, FindAsks
    <2>2. r.ok \/ Ends(r)
      BY <1>4 DEF Busy, Sound, Ends
    <2> HIDE DEF r, g
    <2> QED
      BY <1>2, <1>4, <2>1, <2>2 DEF MayFind
  <1>6. CASE t \in WriteIntent(s, f) /\ ~t.ok
    <2>1. t = s \/ t = Error(s)
      BY <1>6 DEF WriteIntent
    <2>2. Ends(t)
      BY <1>1, <1>6, <2>1 DEF Ends
    <2> QED
      BY <1>6, <2>2
  <1>7. CASE s.heap[f].rw /\ t \in Then(MayFind(r, f), Post)
    <2>1. CASE t \in MayFind(r, f) /\ ~t.ok
      BY <1>5, <2>1
    <2>2. ASSUME NEW u \in MayFind(r, f), u.ok, t \in PostNew(u, k, f)
          PROVE  /\ Ends(t)
                 /\ t.ok => /\ t.got \in Slots \ {f} /\ t.heap \in Heaps /\ t.heap[f].rw
                            /\ t.heap[f].name = n /\ t.heap[f].ref = s.heap[f].ref + 1
      <3>1. Busy(u, u.heap[f].name) /\ u.heap = g /\ u.heap[f].rw
        BY <1>3, <1>5, <1>7
      <3>2. Ends(t) /\ (t.ok => t.heap = [u.heap EXCEPT ![t.got] = ObjStruct(k, f)]
                             /\ t.got \in Slots /\ ~ Live(u.heap, t.got))
        BY <2>2, <3>1, PostNewAsks
      <3> HIDE DEF g, r
      <3>3. ASSUME t.ok PROVE t.got \in Slots \ {f}
        BY <1>3, <3>1, <3>2, <3>3
      <3>4. ASSUME t.ok PROVE t.heap \in Heaps /\ t.heap[f] = g[f]
        <4>1. ObjStruct(k, f) \in [kind : Objects \cup {"file", "free"}, dom : Slots \cup {NoSlot},
                    name : Names \cup {NoName}, ref : Nat, rw : BOOLEAN]
          BY DEF ObjStruct
        <4> DEFINE x == ObjStruct(k, f)
        <4>2. t.heap = [g EXCEPT ![t.got] = x]
          BY <3>1, <3>2, <3>4
        <4> HIDE DEF x
        <4> QED
          BY <1>3, <3>3, <3>4, <4>1, <4>2 DEF Heaps, x
      <3> QED
        BY <1>3, <1>7, <3>2, <3>3, <3>4
    <2>3. \/ t \in MayFind(r, f) /\ ~t.ok
          \/ \E u \in MayFind(r, f) : u.ok /\ t \in PostNew(u, k, f)
      BY <1>7 DEF Then
    <2> HIDE DEF r
    <2> QED
      BY <2>1, <2>2, <2>3
  <1>8. \/ t \in WriteIntent(s, f) /\ ~t.ok
        \/ \E u \in WriteIntent(s, f) :
              u.ok /\ t \in Then(MayFind(Retain(u, f), f), LAMBDA v : PostNew(v, k, f))
    BY DEF Creates, Then
  <1>9. \A u \in WriteIntent(s, f) : u.ok => u = s /\ s.heap[f].rw
    BY <1>1 DEF WriteIntent
  <1> QED
    BY <1>6, <1>7, <1>8, <1>9

\* The lookups whose failure does not fail the call leave the header list with
\* the name of the domain that the next request is about.
LEMMA IntermediateAsks ==
  ASSUME HandleInv, NEW s, NEW f \in Slots, Ready(s), s.heap \in Heaps, Live(s.heap, f),
         NEW t \in CreateIntermediate(s, f)
  PROVE  Ends(t)
  <1> DEFINE n == s.heap[f].name
             r == Retain(s, f)
             Sub(u)   == CreateGroup([u EXCEPT !.ok = TRUE], f)
             Again(u) == {[v EXCEPT !.ok = TRUE] : v \in Find(u, f)}
             Close(u) == {RV_file_close([u EXCEPT !.heap[u.got] = Freed], f)}
             Missing  == {u \in Find(r, f) : ~u.ok}
             Subs     == UNION {Sub(u) : u \in Missing}
             Group(u) == /\ u.got \in Slots \ {f} /\ u.heap \in Heaps /\ u.heap[f].rw
                         /\ u.heap[f].name = n /\ u.heap[f].ref >= 2
  <1>1. /\ Ready(r) /\ r.heap \in Heaps /\ r.heap[f].name = n /\ r.heap[f].ref >= 1
        /\ Live(r.heap, f) /\ Busy(r, n)
    <2>1. s.heap[f].ref \in Nat
      BY DEF Heaps
    <2>2. r.heap = [s.heap EXCEPT ![f].ref = @ + 1]
      BY RetainAsks
    <2>3. Live(r.heap, f)
      BY <2>2 DEF Live, Heaps
    <2> QED
      BY <2>1, <2>3, RetainEnds, ReadyAsks
  <1> HIDE DEF r
  <1>2. ASSUME NEW u \in Subs PROVE Ends(u) /\ (u.ok => Group(u))
    <2>1. PICK m \in Missing : u \in Sub(m)
      BY <1>2
    <2> DEFINE v == [m EXCEPT !.ok = TRUE]
    <2>2. Busy(m, n) /\ m.heap = r.heap
      BY <1>1, FindAsks
    <2>3. Same(v, m) /\ v.heap = r.heap
      BY <2>2 DEF Same, Busy, Sound, Traced, Shaped, Fields
    <2>4. u \in Creates(v, "group", f)
      BY <2>1 DEF CreateGroup, Creates
    <2> HIDE DEF v
    <2>5. Busy(v, v.heap[f].name) /\ v.heap \in Heaps /\ Live(v.heap, f)
      BY <1>1, <2>2, <2>3, SameAsks
    <2>6. /\ Ends(u)
          /\ u.ok => /\ u.got \in Slots \ {f} /\ u.heap \in Heaps /\ u.heap[f].rw
                     /\ u.heap[f].name = v.heap[f].name /\ u.heap[f].ref = v.heap[f].ref + 1
      BY <2>4, <2>5, CreatesAsks DEF Objects
    <2>7. r.heap[f].ref \in Nat
      BY <1>1 DEF Heaps
    <2> QED
      BY <1>1, <2>3, <2>6, <2>7
  <1> HIDE DEF Subs
  <1>3. ASSUME NEW u \in Then(Subs, Again)
        PROVE  IF u.ok THEN Busy(u, n) /\ Group(u) ELSE Ends(u)
    <2>1. ASSUME NEW v \in Subs, v.ok, NEW w \in Find(v, f), u = [w EXCEPT !.ok = TRUE]
          PROVE  Busy(u, n) /\ u.ok /\ Group(u)
      <3>1. Group(v) /\ Busy(v, v.heap[f].name)
        BY <1>2, <2>1, ReadyAsks, EndsIs
      <3>2. Busy(w, n) /\ w.heap = v.heap /\ Keeps(w, v)
        BY <3>1, <2>1, FindAsks, FindKeeps DEF Busy, Sound, Traced
      <3>3. Same(u, w) /\ u.heap = w.heap /\ u.got = v.got /\ u.ok
        BY <2>1, <3>2 DEF Same, Keeps, Shaped, Fields
      <3>4. Busy(u, n)
        BY <3>2, <3>3 DEF Same, Busy, Sound, Traced
      <3>5. Group(u)
        BY <3>1, <3>2, <3>3
      <3> QED
        BY <3>3, <3>4, <3>5
    <2>2. \/ u \in Subs /\ ~u.ok
          \/ \E v \in Subs : v.ok /\ \E w \in Find(v, f) : u = [w EXCEPT !.ok = TRUE]
      BY DEF Then
    <2> QED
      BY <1>2, <2>1, <2>2
  <1>4. ASSUME NEW u, Busy(u, n), Group(u), NEW v \in Close(u)
        PROVE  Busy(v, v.heap[f].name) /\ v.heap[f].rw
    <2> DEFINE h == [u.heap EXCEPT ![u.got] = Freed]
               w == [u EXCEPT !.heap[u.got] = Freed]
    <2>1. Same(w, u) /\ w.heap = h
      BY <1>4 DEF Same, Busy, Sound, Traced, Shaped, Fields
    <2>2. h \in Heaps /\ h[f].rw /\ h[f].name = n /\ h[f].ref >= 2
      BY <1>4 DEF Heaps, Freed
    <2>3. v = RV_file_close(w, f)
      BY <1>4
    <2> HIDE DEF w, h
    <2>4. Busy(w, n) /\ Traced(w)
      BY <1>4, <2>1, SameAsks DEF Busy, Sound
    <2>5. /\ Same(v, w)
          /\ v.heap = IF w.heap[f].ref = 1 THEN [w.heap EXCEPT ![f] = Freed]
                                           ELSE [w.heap EXCEPT ![f].ref = @ - 1]
      BY <2>3, <2>4, CloseAsks
    <2>6. v.heap = [h EXCEPT ![f].ref = @ - 1]
      BY <2>1, <2>2, <2>5 DEF Heaps
    <2>7. v.heap[f].rw /\ v.heap[f].name = n
      BY <2>2, <2>6 DEF Heaps
    <2> QED
      BY <2>4, <2>5, <2>7, SameAsks
  <1> DEFINE M == Then(Subs, Again)
             C == Then(M, Close)
  <1>5. t \in Then(C, LAMBDA u : PostNew(u, "group", f))
    BY DEF CreateIntermediate, Subs, r
  <1>6. \A u \in C : IF u.ok THEN Busy(u, u.heap[f].name) /\ u.heap[f].rw ELSE Ends(u)
    <2> SUFFICES ASSUME NEW v \in C
                 PROVE  IF v.ok THEN Busy(v, v.heap[f].name) /\ v.heap[f].rw ELSE Ends(v)
      OBVIOUS
    <2>1. \/ v \in M /\ ~v.ok
          \/ \E u \in M : u.ok /\ v \in Close(u)
      <3> HIDE DEF M, Close
      <3> QED
        BY DEF Then
    <2>2. CASE v \in M /\ ~v.ok
      BY <1>3, <2>2
    <2>3. ASSUME NEW u \in M, u.ok, v \in Close(u)
          PROVE  Busy(v, v.heap[f].name) /\ v.heap[f].rw
      <3>1. Busy(u, n) /\ Group(u)
        BY <1>3, <2>3
      <3> HIDE DEF M, Close, Group
      <3> QED
        BY <1>4, <2>3, <3>1
    <2> QED
      BY <2>1, <2>2, <2>3 DEF Busy, Sound, Ends
  <1> HIDE DEF C
  <1>7. CASE t \in C /\ ~t.ok
    BY <1>6, <1>7
  <1>8. ASSUME NEW u \in C, u.ok, t \in PostNew(u, "group", f) PROVE Ends(t)
    BY <1>6, <1>8, PostNewAsks
  <1> QED
    BY <1>5, <1>7, <1>8 DEF Then

(***************************************************************************)
(* Requests about a name that has no structure yet                         *)
(***************************************************************************)

\* Outside an iteration the header list names n and nothing else.
At(s, n) == Sound(s) /\ (~failed /\ iter = NoIter => s.headers = {n})

LEMMA HostAt ==
  ASSUME HandleInv, NEW s, Ready(s), NEW n PROVE At(Host(s, n), n)
  <1>1. Same(Host(s, n), [s EXCEPT !.headers = @ \cup {n}])
        /\ Host(s, n).headers = s.headers \cup {n}
        /\ Host(s, n).curl = s.curl /\ Host(s, n).sent = s.sent /\ Shaped(Host(s, n))
    BY DEF Same, Host, Ready, Sound, Traced, Shaped, Fields
  <1>2. ~failed /\ iter = NoIter => s.headers = {}
    BY DEF HandleInv, Ready, NoIter
  <1> QED
    BY <1>1, <1>2 DEF At, Ready, Sound, Traced

LEMMA AtAsks ==
  ASSUME NEW s, NEW n, At(s, n), NEW verb \in Verbs, NEW t \in Perform(SetOpt(s, verb), verb, n, TRUE)
  PROVE  /\ Traced(t) /\ t.headers = s.headers
         /\ verb # "DELETE" => At(t, n)
         /\ At(NoCustom(t), n)
  <1> DEFINE w == TRUE
  <1>a. t \in Perform(SetOpt(s, verb), verb, n, w)
    OBVIOUS
  <1>b. verb \in {"PUT", "POST", "FLUSH"} => w
    OBVIOUS
  <1>c. Sound(s) /\ (~failed /\ iter = NoIter => s.headers = {n})
    BY DEF At
  <1> HIDE DEF w
  <1>1. /\ Traced(t) /\ t.headers = s.headers
        /\ verb # "DELETE" => Sound(t)
    BY <1>a, <1>b, <1>c, AskAsks
  <1>2. Traced(NoCustom(t)) /\ NoCustom(t).headers = t.headers /\ ~NoCustom(t).curl.custom
    BY <1>1, CleanUpAsks
  <1> QED
    BY <1>1, <1>2 DEF At, Sound

LEMMA NewFileAsks ==
  ASSUME NEW s, Ready(s), NEW n, NEW w, NEW t \in NewFile(s, n, w)
  PROVE  Ends(t)
  <1>1. \E d : t = FileAt(s, d, n, w)
    BY DEF NewFile
  <1> QED
    BY <1>1, FileAtAsks, SameAsks DEF Ready, Sound

LEMMA OpenFileAsks ==
  ASSUME HandleInv, NEW n, NEW w, NEW t \in OpenFile(Begin, n, w)
  PROVE  Ends(t)
  <1> DEFINE R == RequestName(Begin, "GET", n)
             S == Then(R, MayFail)
             Done(u) == NewFile(NoHeaders(u), n, w)
  <1>1. \A u \in R : At(u, n)
    BY BeginAsks, HostAt, AtAsks, VerbsAre DEF RequestName
  <1> HIDE DEF R
  <1>2. \A u \in S : Sound(u)
    BY <1>1, MayFailAsks DEF Then, At
  <1>3. t \in Then(S, Done)
    BY DEF OpenFile, R
  <1> HIDE DEF S
  <1>4. \A u \in S : Ready(NoHeaders(u)) /\ (~u.ok => Ends(u))
    BY <1>2, NoHeadersReady DEF Sound, Ends
  <1> QED
    BY <1>3, <1>4, NewFileAsks DEF Then

LEMMA TruncateAsks ==
  ASSUME NEW s, NEW n, At(s, n), NEW t \in Truncate(s, n)
  PROVE  Traced(t) /\ (t.ok => At(t, n))
  <1> DEFINE P == Perform(SetOpt(s, "GET"), "GET", n, TRUE)
             D(u) == Perform(SetOpt(u, "DELETE"), "DELETE", n, TRUE)
             Delete(u) == Then(D(u), LAMBDA v : {NoCustom(v)})
             Again(u) == {u} \cup Delete(u)
  <1>1. \A u \in P : At(u, n) /\ Traced(u)
    BY AtAsks, VerbsAre
  <1>2. t \in Then(P, Again)
    BY DEF Truncate
  <1> HIDE DEF P
  <1>3. ASSUME NEW u, At(u, n), NEW v \in Again(u) PROVE Traced(v) /\ (v.ok => At(v, n))
    <2>1. \A x \in D(u) : Traced(x) /\ At(NoCustom(x), n)
      BY <1>3, AtAsks, VerbsAre
    <2> HIDE DEF D
    <2>2. \A x \in Delete(u) : Traced(x) /\ (x.ok => At(x, n))
      BY <2>1 DEF Then, At, Sound
    <2> HIDE DEF Delete
    <2> QED
      BY <1>3, <2>2 DEF At, Sound
  <1> HIDE DEF Again
  <1> QED
    BY <1>1, <1>2, <1>3 DEF Then

LEMMA CreateFileAsks ==
  ASSUME HandleInv, NEW n, NEW t \in CreateFile(Begin, n)
  PROVE  Ends(t)
  <1> DEFINE first == Host(Begin, n)
             F == {first} \cup Truncate(first, n)
             Put(u)  == Then(Perform(SetOpt(u, "PUT"), "PUT", n, TRUE), MayFail)
             C == Then(F, Put)
             Done(u) == NewFile(NoHeaders(NoUpload(NoCustom(u))), n, TRUE)
  <1>1. At(first, n)
    BY BeginAsks, HostAt
  <1> HIDE DEF first
  <1>2. \A u \in F : Traced(u) /\ (u.ok => At(u, n))
    BY <1>1, TruncateAsks DEF At, Sound
  <1>3. t \in Then(C, Done)
    BY DEF CreateFile, first
  <1> HIDE DEF F
  <1>4. ASSUME NEW u, At(u, n), NEW v \in Put(u) PROVE Traced(v)
    <2> DEFINE P == Perform(SetOpt(u, "PUT"), "PUT", n, TRUE)
    <2>1. \A x \in P : Traced(x)
      BY <1>4, AtAsks, VerbsAre
    <2>2. v \in Then(P, MayFail)
      BY <1>4
    <2> HIDE DEF P
    <2> QED
      BY <2>1, <2>2, MayFailAsks DEF Then
  <1> HIDE DEF Put
  <1>5. \A u \in C : Traced(u)
    BY <1>2, <1>4 DEF Then
  <1> HIDE DEF C
  <1>6. ASSUME NEW u \in C PROVE Ready(NoHeaders(NoUpload(NoCustom(u))))
    <2>1. Sound(NoCustom(u))
      BY <1>5, CleanUpAsks DEF Sound
    <2>2. Sound(NoUpload(NoCustom(u)))
      BY <2>1, CleanUpAsks DEF Sound
    <2> QED
      BY <2>2, NoHeadersReady
  <1> QED
    BY <1>3, <1>5, <1>6, NewFileAsks DEF Then, Ends

\* The file callbacks.
LEMMA FileAsks ==
  ASSUME VolInv, HandleInv, NEW n \in Names,
         \/ RV_file_create(n) \/ \E w \in BOOLEAN : RV_file_open(n, w)
         \/ RV_file_specific_is_accessible(n) \/ RV_file_specific_delete(n)
  PROVE  AsksStep
  <1>1. CASE RV_file_create(n)
    <2> DEFINE S == CreateFile(Begin, n)
    <2>1. (\A s \in S : Ends(s)) /\ Opens(S)
      BY <1>1, CreateFileAsks DEF RV_file_create
    <2> HIDE DEF S
    <2> QED
      BY <2>1, OpensAsks
  <1>2. ASSUME NEW w \in BOOLEAN, RV_file_open(n, w) PROVE AsksStep
    <2> DEFINE S == OpenFile(Begin, n, w)
    <2>1. (\A s \in S : Ends(s)) /\ Opens(S)
      BY <1>2, OpenFileAsks DEF RV_file_open
    <2> HIDE DEF S
    <2> QED
      BY <2>1, OpensAsks
  <1>3. CASE RV_file_specific_is_accessible(n)
    <2> DEFINE Back(s) == IF s.ok THEN RV_file_close(s, s.got) ELSE [s EXCEPT !.ok = TRUE]
               S == {NoCustom(NoHeaders(Back(s))) : s \in OpenFile(Begin, n, FALSE)}
    <2>1. Plain(S)
      BY <1>3 DEF RV_file_specific_is_accessible
    <2>2. ASSUME NEW s, Traced(s) PROVE Traced(Back(s))
      <3>1. Same([s EXCEPT !.ok = TRUE], s)
        BY <2>2 DEF Same, Traced, Shaped, Fields
      <3> QED
        BY <2>2, <3>1, SameAsks, CloseAsks
    <2>3. \A s \in OpenFile(Begin, n, FALSE) : Traced(Back(s))
      BY <2>2, OpenFileAsks DEF Ends
    <2> HIDE DEF Back
    <2>4. \A s \in S : Ends(s)
      BY <2>3, ResetReady
    <2> HIDE DEF S
    <2> QED
      BY <2>1, <2>4, PlainAsks
  <1>4. CASE RV_file_specific_delete(n)
    <2> DEFINE R == RequestName(Begin, "DELETE", n)
               S == Then(R, LAMBDA s : {NoCustom(NoHeaders(s))})
    <2>1. \A u \in R : Traced(u)
      BY BeginAsks, HostAt, AtAsks, VerbsAre DEF RequestName
    <2>2. Plain(S)
      BY <1>4 DEF RV_file_specific_delete
    <2> HIDE DEF R
    <2>3. \A s \in S : Ends(s)
      BY <2>1, ResetReady DEF Then, Ends
    <2> HIDE DEF S
    <2> QED
      BY <2>2, <2>3, PlainAsks
  <1> QED
    BY <1>1, <1>2, <1>3, <1>4

\* What a callback on a location starts with.
LEMMA LocationIs ==
  ASSUME VolInv, HandleInv, NEW o \in Slots, Usable(o)
  PROVE  /\ Ready(Begin) /\ Begin.ok /\ Begin.heap = heap /\ heap \in Heaps
         /\ Dom(o) \in Slots /\ Live(heap, Dom(o))
  <1>1. heap \in Heaps /\ Dom(o) \in FilesIn(Begin.heap) /\ Begin.heap = heap
    BY UsableIs, BeginAsks
  <1> QED
    BY <1>1, BeginAsks DEF FilesIn, Live

\* The callbacks that ask nothing, or one question.
LEMMA QuestionsAsk ==
  ASSUME VolInv, HandleInv, NEW o \in Slots,
         \/ RV_file_get(o) \/ RV_datatype_get(o) \/ RV_group_get_gcpl(o) \/ RV_dataset_get(o)
         \/ RV_attr_get(o) \/ RV_file_specific_flush(o) \/ RV_group_get_info(o)
         \/ RV_attr_read(o) \/ RV_attr_get_info(o) \/ RV_attr_get_name_by_idx(o)
  PROVE  AsksStep
  <1>1. Ready(Begin)
    BY BeginAsks
  <1>2. CASE RV_file_get(o) \/ RV_datatype_get(o)
    <2> DEFINE S == MayFail(Begin)
    <2>1. (\A s \in S : Ends(s)) /\ Plain(S)
      BY <1>1, <1>2, ReadyOps DEF RV_file_get, RV_datatype_get
    <2> HIDE DEF S
    <2> QED
      BY <2>1, PlainAsks
  <1>3. CASE RV_group_get_gcpl(o) \/ RV_dataset_get(o) \/ RV_attr_get(o)
    <2> DEFINE S == Local(Begin)
    <2>1. \A s \in S : Ends(s)
      BY <1>1, LocalEnds
    <2>2. Plain(S)
      BY <1>3 DEF RV_group_get_gcpl, RV_dataset_get, RV_attr_get, Local
    <2> HIDE DEF S
    <2> QED
      BY <2>1, <2>2, PlainAsks
  <1>4. CASE RV_file_specific_flush(o)
    <2> DEFINE S == Flush(Begin, Dom(o))
    <2>1. (\A s \in S : Ends(s)) /\ Plain(S)
      BY <1>1, <1>4, ReadyOps DEF RV_file_specific_flush
    <2> HIDE DEF S
    <2> QED
      BY <2>1, PlainAsks
  <1>5. CASE RV_group_get_info(o) \/ RV_attr_read(o) \/ RV_attr_get_info(o)
    <2> DEFINE S == Query(Begin, Dom(o))
    <2>1. (\A s \in S : Ends(s)) /\ Plain(S)
      BY <1>1, <1>5, ReadyOps DEF RV_group_get_info, RV_attr_read, RV_attr_get_info
    <2> HIDE DEF S
    <2> QED
      BY <2>1, PlainAsks
  <1>6. CASE RV_attr_get_name_by_idx(o)
    <2> DEFINE S == Indexed(Begin, Dom(o))
    <2>1. (\A s \in S : Ends(s)) /\ Plain(S)
      BY <1>1, <1>6, IndexedAsks DEF RV_attr_get_name_by_idx
    <2> HIDE DEF S
    <2> QED
      BY <2>1, PlainAsks
  <1> QED
    BY <1>2, <1>3, <1>4, <1>5, <1>6

\* The callbacks that look a path up first.
LEMMA LookupsAsk ==
  ASSUME VolInv, HandleInv, NEW o \in Slots,
         \/ RV_link_get_info(o) \/ RV_link_get_val(o) \/ RV_link_get_name(o)
         \/ RV_link_specific_exists(o) \/ RV_attr_specific_exists(o)
         \/ RV_link_specific_delete(o) \/ RV_attr_get_info_by_name(o)
         \/ RV_attr_specific_delete_by_idx(o) \/ RV_dataset_get_storage_size(o)
  PROVE  AsksStep
  <1> DEFINE f == Dom(o)
             M == MayFind(Begin, f)
             F == Find(Begin, f)
             I == Indexed(Begin, f)
             L == Flush(Begin, f)
  <1>1. /\ \A s \in M : Ends(s)
        /\ \A s \in F : Ends(s)
        /\ \A s \in I : Ends(s)
        /\ \A s \in L : Ends(s)
    BY BeginAsks, MayFindEnds, IndexedAsks, ReadyOps
  <1> HIDE DEF M, F, I, L
  <1>2. CASE RV_link_get_info(o) \/ RV_link_get_val(o)
    <2> DEFINE S == Then(M, LAMBDA s : Query(s, f))
    <2>1. \A s \in S : Ends(s)
      BY <1>1, ReadyOps, EndsIs DEF Then
    <2>2. Plain(S)
      BY <1>2 DEF RV_link_get_info, RV_link_get_val, M
    <2> HIDE DEF S
    <2> QED
      BY <2>1, <2>2, PlainAsks
  <1>3. CASE RV_link_get_name(o)
    <2> DEFINE S == Then(F, LAMBDA s : Query(s, f))
    <2>1. \A s \in S : Ends(s)
      BY <1>1, ReadyOps, EndsIs DEF Then
    <2>2. Plain(S)
      BY <1>3 DEF RV_link_get_name, F
    <2> HIDE DEF S
    <2> QED
      BY <2>1, <2>2, PlainAsks
  <1>4. CASE RV_link_specific_exists(o) \/ RV_attr_specific_exists(o)
    <2> DEFINE Ask(s) == Exists(s, f)
               S == Then(M, Ask)
    <2>1. \A s \in S : Ends(s)
      BY <1>1, ExistsAsks, EndsIs DEF Then
    <2>2. Plain(S)
      BY <1>4 DEF RV_link_specific_exists, RV_attr_specific_exists, M, Exists
    <2> HIDE DEF S
    <2> QED
      BY <2>1, <2>2, PlainAsks
  <1>5. CASE RV_link_specific_delete(o)
    <2> DEFINE S == Then(M, LAMBDA s : Remove(s, f))
    <2>1. \A s \in S : Ends(s)
      BY <1>1, ReadyOps, EndsIs DEF Then
    <2>2. Plain(S)
      BY <1>5 DEF RV_link_specific_delete, M
    <2> HIDE DEF S
    <2> QED
      BY <2>1, <2>2, PlainAsks
  <1>6. CASE RV_attr_get_info_by_name(o)
    <2> DEFINE S == Then(F \cup I, LAMBDA s : Query(s, f))
    <2>1. \A s \in S : Ends(s)
      BY <1>1, ReadyOps, EndsIs DEF Then
    <2>2. Plain(S)
      BY <1>6 DEF RV_attr_get_info_by_name, F, I
    <2> HIDE DEF S
    <2> QED
      BY <2>1, <2>2, PlainAsks
  <1>7. CASE RV_attr_specific_delete_by_idx(o)
    <2> DEFINE T == Then(I, LAMBDA s : Find(s, f))
               S == Then(T, LAMBDA s : Remove(s, f))
    <2>1. \A s \in T : Ends(s)
      BY <1>1, ReadyOps, EndsIs DEF Then
    <2>2. Plain(S)
      BY <1>7 DEF RV_attr_specific_delete_by_idx, I
    <2> HIDE DEF T
    <2>3. \A s \in S : Ends(s)
      BY <2>1, ReadyOps, EndsIs DEF Then
    <2> HIDE DEF S
    <2> QED
      BY <2>2, <2>3, PlainAsks
  <1>8. CASE RV_dataset_get_storage_size(o)
    <2> DEFINE S == Then(L, LAMBDA s : Query(s, f))
    <2>1. \A s \in S : Ends(s)
      BY <1>1, ReadyOps, EndsIs DEF Then
    <2>2. Plain(S)
      BY <1>8 DEF RV_dataset_get_storage_size, L
    <2> HIDE DEF S
    <2> QED
      BY <2>1, <2>2, PlainAsks
  <1> QED
    BY <1>2, <1>3, <1>4, <1>5, <1>6, <1>7, <1>8

\* The callbacks that store, write or delete in the file of their location.
LEMMA WritesAsk ==
  ASSUME VolInv, HandleInv, NEW o \in Slots,
         \/ RV_attr_write(o) \/ RV_link_create_soft(o) \/ RV_dataset_specific_set_extent(o)
         \/ (\E t \in Slots : RV_link_create_hard(o, t))
         \/ RV_dataset_write(o) \/ RV_dataset_read(o) \/ RV_attr_specific_delete(o)
  PROVE  AsksStep
  <1> DEFINE f == Dom(o)
             W == WriteIntent(Begin, f)
  <1>1. /\ \A s \in W : Ends(s)
        /\ \A s \in W : s.ok => Ready(s) /\ s.heap[f].rw /\ s.heap = heap
    BY BeginAsks, WriteIntentAsks
  <1> HIDE DEF W
  <1>2. CASE RV_attr_write(o)
    <2> DEFINE S == Then(W, LAMBDA s : Store(s, f))
    <2>1. \A s \in S : Ends(s)
      BY <1>1, StoreEnds DEF Then
    <2>2. Plain(S)
      BY <1>2 DEF RV_attr_write, W
    <2> HIDE DEF S
    <2> QED
      BY <2>1, <2>2, PlainAsks
  <1>3. CASE RV_link_create_soft(o) \/ RV_dataset_specific_set_extent(o)
    <2> DEFINE T == Then(W, MayFail)
               S == Then(T, LAMBDA s : Store(s, f))
    <2>1. \A s \in T : Ends(s) /\ (s.ok => s.heap[f].rw)
      BY <1>1, MayFailAsks, EndsIs DEF Then
    <2>2. Plain(S)
      BY <1>3 DEF RV_link_create_soft, RV_dataset_specific_set_extent, W
    <2> HIDE DEF T
    <2>3. \A s \in S : Ends(s)
      BY <2>1, StoreEnds, EndsIs DEF Then
    <2> HIDE DEF S
    <2> QED
      BY <2>2, <2>3, PlainAsks
  <1>4. ASSUME NEW t \in Slots, RV_link_create_hard(o, t) PROVE AsksStep
    <2> DEFINE Same_(s) == IF heap[Dom(t)].name = heap[f].name THEN {s} ELSE {Error(s)}
               T == Then(W, Same_)
               U == Then(T, LAMBDA s : MayFind(s, Dom(t)))
               S == Then(U, LAMBDA s : Store(s, f))
    <2>1. Plain(S)
      BY <1>4 DEF RV_link_create_hard, W
    <2>2. \A s \in W : Traced(s) /\ Ends(Error(s)) /\ ~ Error(s).ok
      BY <1>1, EndsIs, CleanUpAsks
    <2>3. \A s \in T : Ends(s) /\ (s.ok => s.heap[f].rw)
      BY <1>1, <2>2 DEF Then
    <2> HIDE DEF T
    <2>4. \A s \in U : Ends(s) /\ (s.ok => s.heap[f].rw)
      BY <2>3, MayFindEnds, EndsIs DEF Then
    <2> HIDE DEF U
    <2>5. \A s \in S : Ends(s)
      BY <2>4, StoreEnds, EndsIs DEF Then
    <2> HIDE DEF S
    <2> QED
      BY <2>1, <2>5, PlainAsks
  <1>5. CASE RV_dataset_write(o)
    <2> DEFINE S == Then(W, LAMBDA s : Transfer(s, "PUT", f))
    <2>1. \A s \in S : Ends(s)
      <3>1. "PUT" \in Verbs \ {"FLUSH", "DELETE"}
        BY DEF Verbs
      <3> QED
        BY <1>1, <3>1, TransferAsks DEF Then
    <2>2. Plain(S)
      BY <1>5 DEF RV_dataset_write, W
    <2> HIDE DEF S
    <2> QED
      BY <2>1, <2>2, PlainAsks
  <1>6. CASE RV_dataset_read(o)
    <2>1. PICK verb \in {"GET", "POST"} : Plain(Transfer(Begin, verb, f))
      BY <1>6 DEF RV_dataset_read
    <2> DEFINE S == Transfer(Begin, verb, f)
    <2>2. \A s \in S : Ends(s)
      <3>1. verb \in Verbs \ {"FLUSH", "DELETE"} /\ verb # "PUT"
        BY DEF Verbs
      <3> QED
        BY <3>1, BeginAsks, TransferAsks
    <2> HIDE DEF S
    <2> QED
      BY <2>1, <2>2, PlainAsks DEF S
  <1>7. CASE RV_attr_specific_delete(o)
    <2> DEFINE T == Then(W, LAMBDA s : MayFind(s, f))
               S == Then(T, LAMBDA s : Remove(s, f))
    <2>1. \A s \in T : Ends(s)
      BY <1>1, MayFindEnds DEF Then
    <2>2. Plain(S)
      BY <1>7 DEF RV_attr_specific_delete, W
    <2> HIDE DEF T
    <2>3. \A s \in S : Ends(s)
      BY <2>1, ReadyOps, EndsIs DEF Then
    <2> HIDE DEF S
    <2> QED
      BY <2>2, <2>3, PlainAsks
  <1> QED
    BY <1>2, <1>3, <1>4, <1>5, <1>6, <1>7

\* The callbacks about an object that may be in another domain.
LEMMA ObjectsAsk ==
  ASSUME VolInv, HandleInv, NEW o \in Slots,
         \/ RV_object_get_name(o) \/ RV_object_get_info(o) \/ RV_object_get_info_by_name(o)
         \/ RV_object_get_info_by_idx(o) \/ RV_group_get_info_by_name(o)
  PROVE  AsksStep
  <1> DEFINE f == Dom(o)
             r == Retain(Begin, f)
  <1>1. Ready(Begin) /\ Ready(r) /\ Traced(r)
    BY BeginAsks, RetainAsks, ReadyAsks
  <1> HIDE DEF r
  <1>2. \A s : Ready(s) => \A t \in ObjectInfo(s) : Ends(t)
    BY ReadyOps, EndsIs DEF ObjectInfo, Then
  <1>3. CASE RV_object_get_name(o)
    <2> DEFINE Close(s) == {RV_file_close(NoHeaders(s), f)}
               S == Then(MayFail(r), Close)
    <2>1. \A s : Ready(s) => Ends(RV_file_close(NoHeaders(s), f))
      BY ReadyOps, NoHeadersReady DEF Ready
    <2>2. \A s \in S : Ends(s)
      BY <1>1, <2>1, ReadyOps, EndsIs DEF Then
    <2>3. Plain(S)
      BY <1>3 DEF RV_object_get_name, r
    <2> HIDE DEF S
    <2> QED
      BY <2>2, <2>3, PlainAsks
  <1>4. CASE RV_object_get_info(o)
    <2> DEFINE u == [r EXCEPT !.got = f]
               S == ObjectInfo(u)
    <2>1. Ready(u)
      <3>1. Same(u, r)
        BY <1>1 DEF Same, Traced, Shaped, Fields
      <3> QED
        BY <1>1, <3>1, SameAsks
    <2>2. (\A s \in S : Ends(s)) /\ Plain(S)
      BY <1>2, <1>4, <2>1 DEF RV_object_get_info, r
    <2> HIDE DEF S
    <2> QED
      BY <2>2, PlainAsks
  <1> DEFINE L == FindLoc(r, f)
  <1>5. \A s \in L : Ends(s)
    BY <1>1, ReadyOps
  <1> HIDE DEF L
  <1>6. CASE RV_object_get_info_by_name(o)
    <2> DEFINE S == Then(L, ObjectInfo)
    <2>1. \A s \in S : Ends(s)
      BY <1>2, <1>5, EndsIs DEF Then
    <2>2. Plain(S)
      BY <1>6 DEF RV_object_get_info_by_name, L, r
    <2> HIDE DEF S
    <2> QED
      BY <2>1, <2>2, PlainAsks
  <1>7. CASE RV_object_get_info_by_idx(o)
    <2> DEFINE Again(s) == Then(Find(s, f), LAMBDA t : LocInfo(t, t.got))
               A == Then(L, LAMBDA s : Query(s, f))
               B == Then(A, Again)
               S == Then(B, ObjectInfo)
    <2>1. Plain(S)
      BY <1>7 DEF RV_object_get_info_by_idx, L, r
    <2>2. \A s \in A : Ends(s)
      BY <1>5, ReadyOps, EndsIs DEF Then
    <2> HIDE DEF A
    <2>3. \A s : Ready(s) => \A t \in Again(s) : Ends(t)
      BY ReadyOps, LocInfoAsks, EndsIs DEF Then
    <2> HIDE DEF Again
    <2>4. \A s \in B : Ends(s)
      BY <2>2, <2>3, EndsIs DEF Then
    <2> HIDE DEF B
    <2>5. \A s \in S : Ends(s)
      BY <1>2, <2>4, EndsIs DEF Then
    <2> HIDE DEF S
    <2> QED
      BY <2>1, <2>5, PlainAsks
  <1>8. CASE RV_group_get_info_by_name(o)
    <2> DEFINE M == FindLoc(Begin, f)
               Move(s) == {[s EXCEPT !.heap[o].dom = IF Live(s.heap, o) THEN s.got ELSE @]}
               Info(s) == Query(s, s.got)
               A == Then(M, Move)
               S == Then(A, Info)
    <2>1. (\E s \in S : Return(s)) /\ iter' = iter
      BY <1>8 DEF RV_group_get_info_by_name
    <2>2. \A s \in M : Ends(s)
      BY <1>1, ReadyOps
    <2> HIDE DEF M
    <2>3. ASSUME NEW s, Ready(s), NEW t \in Move(s) PROVE Ends(t)
      <3> DEFINE h == [s.heap EXCEPT ![o].dom = IF Live(s.heap, o) THEN s.got ELSE @]
      <3>1. t = [s EXCEPT !.heap[o].dom = IF Live(s.heap, o) THEN s.got ELSE @]
        BY <2>3
      <3>2. Same(t, s)
        BY <2>3, <3>1 DEF Same, Ready, Sound, Traced, Shaped, Fields
      <3> QED
        BY <2>3, <3>2, SameAsks
    <2> HIDE DEF Move
    <2>4. \A s \in A : Ends(s)
      BY <2>2, <2>3, EndsIs DEF Then
    <2> HIDE DEF A
    <2>5. \A s \in S : Ends(s)
      BY <2>4, ReadyOps, EndsIs DEF Then
    <2> HIDE DEF S
    <2> QED
      BY <2>1, <2>5, SameIterAsks
  <1> QED
    BY <1>3, <1>4, <1>6, <1>7, <1>8

\* The callbacks that create or open an object.
LEMMA OpeningAsks ==
  ASSUME VolInv, HandleInv, NEW o \in Slots,
         \/ RV_group_create(o) \/ RV_dataset_create(o) \/ RV_datatype_commit(o)
         \/ RV_group_create_intermediate(o)
         \/ RV_group_open(o) \/ RV_dataset_open(o) \/ RV_datatype_open(o) \/ RV_object_open(o)
         \/ RV_attr_create(o) \/ RV_attr_open(o) \/ RV_file_specific_reopen(o)
  PROVE  AsksStep
  <1> DEFINE f == Dom(o)
  <1>0. Usable(o)
    BY DEF RV_group_create, RV_dataset_create, RV_datatype_commit, RV_group_open,
           RV_group_create_intermediate, RV_dataset_open, RV_datatype_open, RV_object_open,
           RV_attr_create, RV_attr_open, RV_file_specific_reopen, Callable
  <1>1. /\ Ready(Begin) /\ Begin.ok /\ Begin.heap = heap /\ heap \in Heaps
        /\ f \in Slots /\ Live(heap, f)
    BY <1>0, LocationIs
  <1>2. Busy(Begin, Begin.heap[f].name)
    BY <1>1, ReadyAsks
  <1>3. ASSUME NEW k \in Objects, Opens(Creates(Begin, k, f)) PROVE AsksStep
    <2> DEFINE S == Creates(Begin, k, f)
    <2>1. \A s \in S : Ends(s)
      BY <1>1, <1>2, CreatesAsks
    <2>2. Opens(S)
      BY <1>3
    <2> HIDE DEF S
    <2> QED
      BY <2>1, <2>2, OpensAsks
  <1>4. CASE RV_group_create(o) \/ RV_dataset_create(o) \/ RV_datatype_commit(o)
    <2>1. \E k \in {"group", "dataset", "datatype"} : Opens(Creates(Begin, k, f))
      BY <1>4 DEF RV_group_create, RV_dataset_create, RV_datatype_commit, CreateGroup, Creates
    <2> QED
      BY <1>3, <2>1 DEF Objects
  <1>5. CASE RV_group_create_intermediate(o)
    <2> DEFINE S == CreateIntermediate(Begin, f)
    <2>1. \A s \in S : Ends(s)
      BY <1>1, IntermediateAsks
    <2>2. Opens(S)
      BY <1>5 DEF RV_group_create_intermediate
    <2> HIDE DEF S
    <2> QED
      BY <2>1, <2>2, OpensAsks
  <1>6. ASSUME NEW k, Opens(OpenLoc(Begin, k, f)) PROVE AsksStep
    <2> DEFINE S == OpenLoc(Begin, k, f)
    <2>1. (\A s \in S : Ends(s)) /\ Opens(S)
      BY <1>1, <1>6, ReadyOps
    <2> HIDE DEF S
    <2> QED
      BY <2>1, OpensAsks
  <1>7. CASE RV_group_open(o) \/ RV_dataset_open(o) \/ RV_datatype_open(o)
    BY <1>6, <1>7 DEF RV_group_open, RV_dataset_open, RV_datatype_open
  <1>8. CASE RV_object_open(o)
    <2> DEFINE F == Find(Begin, f)
               Any(s) == UNION {OpenLoc(s, k, f) : k \in {"group", "dataset", "datatype"}}
               S == Then(F, Any)
    <2>1. Opens(S)
      BY <1>8 DEF RV_object_open
    <2>2. \A s \in F : Ends(s)
      BY <1>1, ReadyOps
    <2>3. \A s : Ready(s) => \A t \in Any(s) : Ends(t)
      BY ReadyOps
    <2> HIDE DEF F, Any
    <2>4. \A s \in S : Ends(s)
      BY <2>2, <2>3, EndsIs DEF Then
    <2> HIDE DEF S
    <2> QED
      BY <2>1, <2>4, OpensAsks
  <1>12. ASSUME NEW s, Ready(s), NEW t \in NewObject(s, "attr", f) PROVE Ends(t)
    <2>1. Same(t, s)
      BY <1>12, NewObjectAsks, ReadyAsks
    <2> QED
      BY <1>12, <2>1, SameAsks
  <1>9. CASE RV_attr_create(o)
    <2> DEFINE Put(s) == Then(Then(MayFind(Retain(s, f), f), LAMBDA t : Store(t, f)), MayFail)
               W == WriteIntent(Begin, f)
               A == Then(W, Put)
               New(s) == NewObject(s, "attr", f)
               S == Then(A, New)
    <2>1. Opens(S)
      BY <1>9 DEF RV_attr_create
    <2>2. ASSUME NEW s, Ready(s), s.heap \in Heaps, s.heap[f].rw, NEW t \in Put(s) PROVE Ends(t)
      <3> DEFINE r == Retain(s, f)
                 M == MayFind(r, f)
                 N == Then(M, LAMBDA u : Store(u, f))
      <3>1. Ready(r) /\ r.heap[f].rw
        BY <1>1, <2>2, RetainEnds
      <3>2. t \in Then(N, MayFail)
        BY <2>2
      <3> HIDE DEF r
      <3>3. \A u \in M : Ends(u) /\ u.heap[f].rw
        BY <3>1, MayFindEnds
      <3> HIDE DEF M
      <3>4. \A u \in N : Ends(u)
        BY <3>3, StoreEnds, EndsIs DEF Then
      <3> HIDE DEF N
      <3> QED
        BY <3>2, <3>4, ReadyOps, EndsIs DEF Then
    <2> HIDE DEF Put
    <2>3. \A s \in W : Ends(s) /\ (s.ok => Ready(s) /\ s.heap = heap /\ s.heap[f].rw)
      BY <1>1, WriteIntentAsks
    <2> HIDE DEF W
    <2>4. \A s \in A : Ends(s)
      BY <1>1, <2>2, <2>3 DEF Then
    <2> HIDE DEF A
    <2>5. \A s \in S : Ends(s)
      BY <1>12, <2>4, EndsIs DEF Then
    <2> HIDE DEF S
    <2> QED
      BY <2>1, <2>5, OpensAsks
  <1>10. CASE RV_attr_open(o)
    <2> DEFINE Ask(s) == Query(s, f)
               Located == MayFind(Retain(Begin, f), f)
               A == Located \cup Then(Located, Ask)
               B == Then(A, Ask)
               New(s) == NewObject(s, "attr", f)
               S == Then(B, New)
    <2>1. Opens(S)
      BY <1>10 DEF RV_attr_open
    <2>2. \A s \in Located : Ends(s)
      BY <1>1, RetainEnds, MayFindEnds
    <2> HIDE DEF Located
    <2>3. \A s \in A : Ends(s)
      BY <2>2, ReadyOps, EndsIs DEF Then
    <2> HIDE DEF A
    <2>4. \A s \in B : Ends(s)
      BY <2>3, ReadyOps, EndsIs DEF Then
    <2> HIDE DEF B
    <2>5. \A s \in S : Ends(s)
      BY <1>12, <2>4, EndsIs DEF Then
    <2> HIDE DEF S
    <2> QED
      BY <2>1, <2>5, OpensAsks
  <1>11. CASE RV_file_specific_reopen(o)
    <2> DEFINE F == OpenFile(Begin, heap[o].name, heap[o].rw)
               S == Then(F, LAMBDA s : {NoCustom(NoHeaders(s))})
    <2>1. Opens(S)
      BY <1>11 DEF RV_file_specific_reopen
    <2>2. \A s \in F : Ends(s)
      BY OpenFileAsks
    <2> HIDE DEF F
    <2>3. \A s \in S : Ends(s)
      BY <2>2, ResetReady, EndsIs DEF Then
    <2> HIDE DEF S
    <2> QED
      BY <2>1, <2>3, OpensAsks
  <1> QED
    BY <1>4, <1>5, <1>7, <1>8, <1>9, <1>10, <1>11

\* Renaming an attribute: open, create, copy, delete, and close both.
LEMMA RenamesAsk ==
  ASSUME VolInv, HandleInv, NEW o \in Slots,
         RV_attr_specific_rename(o) \/ RV_attr_specific_rename_by_name(o)
  PROVE  AsksStep
  <1> DEFINE f == Dom(o)
  <1>0. Usable(o)
    BY DEF RV_attr_specific_rename, RV_attr_specific_rename_by_name, Callable
  <1>1. Ready(Begin) /\ Begin.ok /\ Begin.heap = heap /\ heap \in Heaps /\ f \in Slots
    BY <1>0, LocationIs
  <1>2. CASE RV_attr_specific_rename(o)
    <2> DEFINE S == Rename(Begin, f, f)
    <2>1. \A s \in S : Ends(s)
      BY <1>1, RenameAsks
    <2>2. Plain(S)
      BY <1>2 DEF RV_attr_specific_rename
    <2> HIDE DEF S
    <2> QED
      BY <2>1, <2>2, PlainAsks
  <1>3. CASE RV_attr_specific_rename_by_name(o)
    <2> DEFINE F == Find(Begin, f)
               Opened(s)  == FindLoc(Retain(s, f), f)
               Renamed(s) == Then(Rename(s, s.got, f),
                                  LAMBDA t : MayFail(RV_file_close(t, s.got)))
               A == Then(F, Opened)
               S == Then(A, Renamed)
    <2>1. Plain(S)
      BY <1>3 DEF RV_attr_specific_rename_by_name
    <2>2. ASSUME NEW s \in A
          PROVE  Ends(s) /\ (s.ok => s.got \in Slots /\ s.heap \in Heaps)
      <3>1. f \in FilesIn(Begin.heap) /\ Good(Begin, Zero) /\ Zero \in Debts /\ Shaped(Begin)
        BY <1>0, UsableIs, ZeroType
      <3>2. \A u \in F : Ends(u) /\ Good(u, Zero) /\ (u.ok => FilesIn(u.heap) = FilesIn(Begin.heap))
        BY <1>1, <3>1, ReadyOps, FindKeeps, KeepsGood
      <3>3. ASSUME NEW u \in F, u.ok, NEW t \in Opened(u) PROVE Ends(t) /\ Found(t, Zero)
        <4>1. Ready(Retain(u, f))
          BY <3>2, <3>3, EndsIs, RetainAsks
        <4>2. Good(Retain(u, f), Plus(Zero, f)) /\ Retain(u, f).ok
          BY <3>1, <3>2, <3>3, RetainGood
        <4>3. Ends(t)
          BY <3>3, <4>1, ReadyOps
        <4>4. Found(t, Zero)
          BY <1>1, <3>1, <3>3, <4>2, FindLocFound
        <4> QED
          BY <4>3, <4>4
      <3>4. (s \in F /\ ~s.ok) \/ \E u \in F : u.ok /\ s \in Opened(u)
        <4> HIDE DEF F, Opened
        <4> QED
          BY DEF Then
      <3>5. \A t : t.ok /\ Found(t, Zero) => t.got \in Slots /\ t.heap \in Heaps
        BY DEF Found, Good, Covered, FilesIn
      <3> HIDE DEF F, Opened
      <3> QED
        BY <3>2, <3>3, <3>4, <3>5
    <2>3. ASSUME NEW s \in A, s.ok, NEW t \in Renamed(s) PROVE Ends(t)
      <3> DEFINE R == Rename(s, s.got, f)
                 Last(u) == MayFail(RV_file_close(u, s.got))
      <3>1. \A u \in R : Ends(u)
        BY <2>2, <2>3, RenameAsks, EndsIs
      <3>2. t \in Then(R, Last)
        BY <2>3
      <3> HIDE DEF R
      <3>3. \A u : Ready(u) => \A v \in Last(u) : Ends(v)
        BY ReadyOps, MayFailAsks
      <3> HIDE DEF Last
      <3> QED
        BY <3>1, <3>2, <3>3, EndsIs DEF Then
    <2> HIDE DEF A, Renamed
    <2>4. \A s \in S : Ends(s)
      BY <2>2, <2>3 DEF Then
    <2> HIDE DEF S
    <2> QED
      BY <2>1, <2>4, PlainAsks
  <1> QED
    BY <1>2, <1>3

(***************************************************************************)
(* Iterations                                                              *)
(***************************************************************************)

\* The iterations over links and attributes keep their headers while they
\* last, so their beginning only has to leave no custom request.
LEMMA StartsAsks ==
  ASSUME HandleInv, NEW k \in {"link", "attr", "visit"}, NEW f, NEW S, Starts(k, S, f),
         \A s \in S : Traced(s) /\ (s.ok => Sound(s) /\ (k = "visit" => Ready(s)))
  PROVE  AsksStep
  <1>1. PICK s \in S :
          /\ Return(s)
          /\ iter' = IF s.ok
                       THEN [kind |-> k, at |-> s.got, host |-> s.heap[f].name, phase |-> 1,
                             dom |-> IF s.got = NoSlot THEN f ELSE s.heap[s.got].dom]
                       ELSE NoIter
    BY DEF Starts
  <1>2. iter = NoIter /\ iter.kind = "none"
    BY DEF Starts, NoIter
  <1>3. /\ curl' \in Options /\ curl'.custom = s.curl.custom /\ headers' = s.headers
        /\ AsMeantStep /\ IntentStep /\ ok' = s.ok /\ failed' = (failed \/ ~s.ok)
        /\ s.ok \in BOOLEAN
    BY <1>1, ReturnAsks
  <1>4. CASE ~s.ok
    <2>1. HandleInv' /\ RecoversStep
      BY <1>3, <1>4 DEF HandleInv, RecoversStep
    <2> QED
      BY <1>3, <2>1 DEF AsksStep
  <1>5. CASE s.ok
    <2>1. iter'.kind = k
      BY <1>1, <1>5
    <2>2. Sound(s) /\ (k = "visit" => s.headers \in {{}, headers})
      BY <1>5 DEF Ready
    <2>3. HandleInv'
      BY <1>2, <1>3, <2>1, <2>2 DEF HandleInv, Sound
    <2>4. RecoversStep
      BY <2>1 DEF RecoversStep, NoIter
    <2> QED
      BY <1>3, <2>3, <2>4 DEF AsksStep
  <1> QED
    BY <1>3, <1>4, <1>5

\* What an iteration over links or attributes begins with.
Begins(s) == Traced(s) /\ (s.ok => Sound(s))

LEMMA BeginsIs ==
  ASSUME NEW s
  PROVE  /\ Ends(s) => Begins(s)
         /\ Sound(s) => Begins(s)
         /\ Begins(s) => \A k, q : \A t \in NewObject(s, k, q) : Begins(t)
  <1>1. /\ Ends(s) => Begins(s)
        /\ Sound(s) => Begins(s)
    BY DEF Ends, Begins, Ready, Sound
  <1>2. ASSUME Begins(s), NEW k, NEW q, NEW t \in NewObject(s, k, q) PROVE Begins(t)
    <2>1. Traced(s) /\ (s.ok => Sound(s))
      BY <1>2 DEF Begins
    <2>2. /\ Same(t, s) /\ t.ok = s.ok /\ t.got \in Slots /\ ~ Live(s.heap, t.got)
          /\ t.heap = [s.heap EXCEPT ![t.got] = ObjStruct(k, q)]
      BY <1>2, <2>1, NewObjectAsks
    <2> QED
      BY <2>1, <2>2, SameAsks DEF Begins
  <1> QED
    BY <1>1, <1>2

\* The recursive visit of links asks with the options of the request before.
LEMMA LinkTableAsks ==
  ASSUME HandleInv, NEW s, Ready(s), NEW f, NEW u \in Request(s, "GET", f),
         NEW t \in RV_build_link_table(u, f)
  PROVE  Begins(t)
  <1> DEFINE n == s.heap[f].name
             w == u.heap[f].rw
  <1>1. /\ Traced(u) /\ Sound(u) /\ u.heap = s.heap /\ u.headers = s.headers \cup {n}
        /\ u.curl.base = "GET" /\ u.curl.body = "none"
    BY ReadyAsks, RequestAsks, VerbsAre
  <1>2. CASE t = u
    BY <1>1, <1>2, BeginsIs
  <1>3. ASSUME t \in Perform(u, "GET", n, w) PROVE Begins(t)
    <2>1. ~failed /\ iter = NoIter => u.headers = {n}
      BY <1>1 DEF HandleInv, Ready, NoIter
    <2> DEFINE verb == "GET"
    <2>2. ~failed => u.curl.custom = (verb = "DELETE")
      BY <1>1 DEF Sound, Traced, Options
    <2>3. /\ verb \in Verbs /\ verb # "DELETE"
          /\ verb \in {"PUT", "POST", "FLUSH"} => w
          /\ u.curl.base = IF verb = "FLUSH" THEN "PUT" ELSE verb
          /\ u.curl.body # "old"
      BY <1>1, VerbsAre
    <2>4. t \in Perform(u, verb, n, w)
      BY <1>3
    <2> HIDE DEF verb, n, w
    <2>5. Traced(t) /\ t.curl = u.curl
      BY <1>1, <2>1, <2>2, <2>3, <2>4, PerformAsks
    <2> QED
      BY <1>1, <2>5 DEF Begins, Sound
  <1>4. t = u \/ t \in Perform(u, "GET", n, w)
    BY <1>1 DEF RV_build_link_table
  <1> QED
    BY <1>2, <1>3, <1>4

LEMMA LinkIterAsks ==
  ASSUME VolInv, HandleInv, NEW o \in Slots, RV_link_specific_iter(o)
  PROVE  AsksStep
  <1> DEFINE f == Dom(o)
             R(s) == Request(s, "GET", f)
             T(s) == Then(R(s), LAMBDA t : RV_build_link_table(t, f))
             Links(s) == Then(T(s), LAMBDA t : NewObject(t, "group", t.got))
             L == FindLoc(Retain(Begin, f), f)
             S == Then(L, Links)
  <1>1. Starts("link", S, f)
    BY DEF RV_link_specific_iter
  <1>2. \A s \in L : Ends(s)
    BY BeginAsks, RetainAsks, ReadyOps
  <1> HIDE DEF L
  <1>3. ASSUME NEW s, Ready(s), NEW t \in Links(s) PROVE Begins(t)
    <2>1. \A u \in R(s) : Begins(u)
      BY <1>3, ReadyAsks, RequestAsks, VerbsAre, BeginsIs
    <2>2. \A u \in R(s) : \A v \in RV_build_link_table(u, f) : Begins(v)
      BY <1>3, LinkTableAsks
    <2> HIDE DEF R
    <2>3. \A u \in T(s) : Begins(u)
      BY <2>1, <2>2 DEF Then
    <2>4. t \in Then(T(s), LAMBDA u : NewObject(u, "group", u.got))
      BY <1>3
    <2> HIDE DEF T
    <2>5. CASE t \in T(s)
      BY <2>3, <2>5
    <2>6. ASSUME NEW u \in T(s), t \in NewObject(u, "group", u.got) PROVE Begins(t)
      BY <2>3, <2>6, BeginsIs
    <2> QED
      BY <2>4, <2>5, <2>6 DEF Then
  <1> HIDE DEF Links
  <1>4. \A s \in S : Begins(s)
    BY <1>2, <1>3, EndsIs, BeginsIs DEF Then
  <1> HIDE DEF S
  <1> DEFINE k == "link"
  <1>5. k \in {"link", "attr", "visit"} /\ k # "visit" /\ Starts(k, S, f)
    BY <1>1
  <1> HIDE DEF k
  <1> QED
    BY <1>4, <1>5, StartsAsks DEF Begins

LEMMA AttrIterAsks ==
  ASSUME VolInv, HandleInv, NEW o \in Slots, RV_attr_specific_iter(o)
  PROVE  AsksStep
  <1> DEFINE f == Dom(o)
             r == Retain(Begin, f)
             S == IterSelf(Begin, o) \cup IterNamed(Begin, o)
             R(s) == Request(s, "GET", f)
  <1>1. Starts("attr", S, f)
    BY DEF RV_attr_specific_iter
  <1>2. Ready(Begin) /\ Ready(r)
    BY BeginAsks, RetainAsks
  <1>3. \A s : Ready(s) => \A u \in R(s) : Begins(u)
    BY ReadyAsks, RequestAsks, VerbsAre, BeginsIs
  <1>4. ASSUME NEW t \in IterSelf(Begin, o) PROVE Begins(t)
    <2>1. CASE t \in R(Begin)
      BY <1>2, <1>3, <2>1
    <2>2. CASE t \in Then(R(r), LAMBDA u : NewObject(u, heap[o].kind, f))
      <3>1. \A u \in R(r) : Begins(u)
        BY <1>2, <1>3
      <3> HIDE DEF R, r
      <3> QED
        BY <2>2, <3>1, BeginsIs DEF Then
    <2> QED
      BY <1>4, <2>1, <2>2 DEF IterSelf
  <1>5. ASSUME NEW t \in IterNamed(Begin, o) PROVE Begins(t)
    <2> DEFINE Any(u) == UNION {NewObject(u, k, u.got) : k \in {"group", "dataset", "datatype"}}
               Ask(s) == Then(R(s), Any)
               F == Find(Begin, f)
               G(s) == FindLoc(Retain(s, f), f)
               A == Then(F, G)
    <2>1. t \in Then(A, Ask)
      BY <1>5 DEF IterNamed
    <2>2. \A s \in F : Ends(s)
      BY <1>2, ReadyOps
    <2>3. \A s : Ready(s) => \A u \in G(s) : Ends(u)
      BY RetainAsks, ReadyOps
    <2> HIDE DEF F, G
    <2>4. \A s \in A : Ends(s)
      BY <2>2, <2>3, EndsIs DEF Then
    <2> HIDE DEF A
    <2>5. \A u : Begins(u) => \A v \in Any(u) : Begins(v)
      BY BeginsIs
    <2> HIDE DEF R, Any
    <2>6. \A s : Ready(s) => \A u \in Ask(s) : Begins(u)
      BY <1>3, <2>5 DEF Then
    <2> HIDE DEF Ask
    <2> QED
      BY <2>1, <2>4, <2>6, EndsIs, BeginsIs DEF Then
  <1>6. \A s \in S : Begins(s)
    BY <1>4, <1>5
  <1> HIDE DEF S
  <1> DEFINE k == "attr"
  <1>7. k \in {"link", "attr", "visit"} /\ k # "visit" /\ Starts(k, S, f)
    BY <1>1
  <1> HIDE DEF k
  <1> QED
    BY <1>6, <1>7, StartsAsks DEF Begins

LEMMA VisitAsks ==
  ASSUME VolInv, HandleInv, NEW o \in Slots, RV_object_specific_visit(o)
  PROVE  AsksStep
  <1> DEFINE f == Dom(o)
             r == Retain(Begin, f)
             S == VisitSelf(Begin, o) \cup VisitNamed(Begin, o)
  <1>1. Starts("visit", S, f)
    BY DEF RV_object_specific_visit
  <1>2. Ready(Begin) /\ Ready(r)
    BY BeginAsks, RetainAsks
  <1>3. ASSUME NEW t \in VisitSelf(Begin, o) PROVE Ends(t)
    <2>1. CASE t \in Query(Begin, f)
      BY <1>2, <2>1, ReadyOps
    <2>2. CASE t \in Then(Query(r, f), LAMBDA u : NewObject(u, heap[o].kind, f))
      <3>1. \A u \in Query(r, f) : Ends(u)
        BY <1>2, ReadyOps
      <3> HIDE DEF r
      <3> QED
        BY <2>2, <3>1, ReadyOps, EndsIs DEF Then
    <2> QED
      BY <1>3, <2>1, <2>2 DEF VisitSelf
  <1>4. ASSUME NEW t \in VisitNamed(Begin, o) PROVE Ends(t)
    <2> DEFINE F == Find(Begin, f)
               G(s) == FindLoc(Retain(s, f), f)
               Info(k, u) == Then(Query(u, u.got), LAMBDA v : NewObject(v, k, u.got))
               Any(u) == UNION {Info(k, u) : k \in {"group", "dataset", "datatype"}}
               Opened(s) == Then(G(s), Any)
    <2>1. t \in Then(F, Opened)
      BY <1>4 DEF VisitNamed
    <2>2. \A s \in F : Ends(s)
      BY <1>2, ReadyOps
    <2>3. \A s : Ready(s) => \A u \in G(s) : Ends(u)
      BY RetainAsks, ReadyOps
    <2> HIDE DEF F, G
    <2>4. ASSUME NEW u, Ready(u), NEW v \in Any(u) PROVE Ends(v)
      <3>1. PICK k \in {"group", "dataset", "datatype"} :
                   v \in Then(Query(u, u.got), LAMBDA w : NewObject(w, k, u.got))
        BY <2>4
      <3>2. \A w \in Query(u, u.got) : Ends(w)
        BY <2>4, ReadyOps
      <3> HIDE DEF Any
      <3> QED
        BY <3>1, <3>2, ReadyOps, EndsIs DEF Then
    <2> HIDE DEF Any
    <2>5. \A s : Ready(s) => \A u \in Opened(s) : Ends(u)
      BY <2>3, <2>4, EndsIs DEF Then
    <2> HIDE DEF Opened
    <2> QED
      BY <2>1, <2>2, <2>5, EndsIs DEF Then
  <1>5. \A s \in S : Ends(s)
    BY <1>3, <1>4
  <1> HIDE DEF S
  <1> DEFINE k == "visit"
  <1>6. k \in {"link", "attr", "visit"} /\ Starts(k, S, f)
    BY <1>1
  <1> HIDE DEF k
  <1> QED
    BY <1>5, <1>6, StartsAsks DEF Ends, Ready

\* The steps of an iteration: the application's function has returned.
LEMMA IterStepsAsk ==
  ASSUME VolInv, HandleInv, IterSteps
  PROVE  AsksStep
  <1> DEFINE s == CloseIterObject(Begin)
             e == IF iter.at = NoSlot THEN Begin ELSE [Begin EXCEPT !.heap[iter.at] = Freed]
  <1>1. Ready(Begin) /\ Traced(Begin)
    BY BeginAsks
  <1>2. ASSUME NEW p PROVE Same([Begin EXCEPT !.heap[p] = Freed], Begin)
    BY <1>1 DEF Same, Traced, Shaped, Fields
  <1>3. Ready(s)
    <2>1. ASSUME NEW p PROVE Ready(CloseObj(Begin, p))
      <3> DEFINE t == [Begin EXCEPT !.heap[p] = Freed]
                 f == Begin.heap[p].dom
      <3>1. Ready(t) /\ Traced(t)
        BY <1>1, <1>2, SameAsks
      <3>2. Ready(RV_file_close(t, f))
        <4> HIDE DEF t, f
        <4> QED
          BY <3>1, CloseAsks, SameAsks
      <3>3. CloseObj(Begin, p) = IF Live(Begin.heap, f) THEN RV_file_close(t, f) ELSE t
        BY DEF CloseObj
      <3> HIDE DEF t, f
      <3> QED
        BY <3>1, <3>2, <3>3
    <2> QED
      BY <1>1, <2>1 DEF CloseIterObject
  <1>4. Ready(e) /\ Traced(e)
    BY <1>1, <1>2, SameAsks
  <1> HIDE DEF s, e
  <1>5. CASE RV_traverse_link_table \/ RV_traverse_attr_table
    <2>1. Return(NoHeaders(NoCustom(s)))
      BY <1>5 DEF RV_traverse_link_table, RV_traverse_attr_table, Finishes, s
    <2>2. Ends(NoHeaders(NoCustom(s))) /\ NoHeaders(NoCustom(s)).headers = {}
      BY <1>3, ReadyAsks, ResetReady
    <2> QED
      BY <2>1, <2>2, EndsAsks
  <1>6. CASE RV_traverse_object_table
    <2>1. Return(s) /\ iter.kind = "visit"
      BY <1>6 DEF RV_traverse_object_table, Finishes, s
    <2> QED
      BY <1>3, <2>1, ReadyAsks, EndsAsks
  <1>7. CASE \E k \in {"link", "visit", "attr"} : Aborts(k)
    <2>1. Return(Error(e))
      BY <1>7 DEF Aborts, e
    <2>2. Ends(Error(e)) /\ ~ Error(e).ok
      BY <1>4, CleanUpAsks
    <2> QED
      BY <2>1, <2>2, EndsAsks
  <1>8. CASE RV_object_visit_links
    <2> DEFINE n == iter.host
               P == Perform(SetOpt(Host(Begin, n), "GET"), "GET", n, TRUE)
               Table(u) == RV_build_object_table(NoHeaders(u), iter.dom)
               Lost(u) == IF iter.at = NoSlot \/ u.ok
                            THEN u ELSE [u EXCEPT !.heap[iter.at] = Freed]
               S == Then(P, Table)
    <2>1. iter.kind = "visit" /\ \E u \in S : Return(Lost(u))
      BY <1>8 DEF RV_object_visit_links
    <2>2. ASSUME NEW u \in P PROVE Sound(u) /\ Traced(u)
      <3> DEFINE b == Host(Begin, n)
                 verb == "GET"
      <3>1. At(b, n) /\ verb \in Verbs /\ verb # "DELETE"
        BY <1>1, HostAt, VerbsAre
      <3>2. u \in Perform(SetOpt(b, verb), verb, n, TRUE)
        BY <2>2
      <3> HIDE DEF b, verb, n
      <3>3. At(u, n)
        BY <3>1, <3>2, AtAsks
      <3> QED
        BY <3>3 DEF At, Sound
    <2> HIDE DEF P
    <2>3. ASSUME NEW u \in P, NEW v \in Table(u) PROVE Ends(v)
      <3> DEFINE h == NoHeaders(u)
                 f == iter.dom
      <3>1. Ready(h) /\ Ends(h)
        BY <2>2, NoHeadersReady
      <3>2. v \in {h} \cup Then(Find(h, f), LAMBDA t : {t} \cup Query(t, f))
        BY <2>3 DEF RV_build_object_table
      <3> HIDE DEF h, f
      <3>3. \A t \in Find(h, f) : Ends(t)
        BY <3>1, ReadyOps
      <3> QED
        BY <3>1, <3>2, <3>3, ReadyOps, EndsIs DEF Then
    <2> HIDE DEF Table
    <2>4. \A u \in S : Ends(u)
      BY <2>2, <2>3 DEF Then, Ends
    <2> HIDE DEF S
    <2>5. ASSUME NEW u, Ends(u) PROVE Ends(Lost(u))
      <3>1. Same([u EXCEPT !.heap[iter.at] = Freed], u)
            /\ [u EXCEPT !.heap[iter.at] = Freed].ok = u.ok
        BY <2>5 DEF Same, Ends, Traced, Shaped, Fields
      <3> QED
        BY <2>5, <3>1, SameAsks DEF Ends
    <2> HIDE DEF Lost
    <2> QED
      BY <2>1, <2>4, <2>5, EndsAsks
  <1> QED
    BY <1>5, <1>6, <1>7, <1>8
       DEF IterSteps, RV_link_iter_callback_fails, RV_object_iter_callback_fails,
           RV_attr_iter_callback_fails

\* Giving an identifier back asks the server nothing.
LEMMA ClosesAsk ==
  ASSUME HandleInv, NEW o \in Slots, CloseFile(o) \/ \E k \in Objects : Closes(o, k)
  PROVE  AsksStep
  <1> DEFINE t == [Begin EXCEPT !.heap[o] = Freed]
             f == Begin.heap[o].dom
  <1>1. Ready(Begin) /\ Traced(Begin)
    BY BeginAsks
  <1>2. Ready(t) /\ Traced(t)
    <2>1. Same(t, Begin)
      BY <1>1 DEF Same, Traced, Shaped, Fields
    <2> QED
      BY <1>1, <2>1, SameAsks
  <1>3. ASSUME NEW s, Ready(s), NEW q PROVE Ends(RV_file_close(s, q))
    BY <1>3, ReadyOps
  <1>4. CASE CloseFile(o)
    <2>1. (Return(RV_file_close(Begin, o)) \/ Return(Begin)) /\ iter' = iter
      BY <1>4 DEF CloseFile
    <2> QED
      BY <1>1, <1>3, <2>1, ReadyAsks, SameIterAsks
  <1>5. CASE \E k \in Objects : Closes(o, k)
    <2>1. (Return(RV_file_close(t, f)) \/ Return(t)) /\ iter' = iter
      BY <1>5 DEF Closes, CloseObj
    <2> HIDE DEF t, f
    <2> QED
      BY <1>2, <1>3, <2>1, ReadyAsks, SameIterAsks
  <1> QED
    BY <1>4, <1>5

LEMMA NextAsks ==
  ASSUME VolInv, HandleInv, Next
  PROVE  AsksStep
  <1>1. ASSUME NEW n \in Names,
               \/ RV_file_create(n) \/ \E w \in BOOLEAN : RV_file_open(n, w)
               \/ RV_file_specific_is_accessible(n) \/ RV_file_specific_delete(n)
        PROVE  AsksStep
    BY <1>1, FileAsks
  <1>2. ASSUME NEW o \in Slots, FileCalls(o) PROVE AsksStep
    BY <1>2, QuestionsAsk, OpeningAsks, ClosesAsk DEF FileCalls
  <1>3. ASSUME NEW o \in Slots, GroupCalls(o) PROVE AsksStep
    <2>1. RV_group_close(o) => AsksStep
      BY ClosesAsk DEF RV_group_close, Objects
    <2> QED
      BY <1>3, <2>1, QuestionsAsk, OpeningAsks, ObjectsAsk DEF GroupCalls
  <1>4. ASSUME NEW o \in Slots, DatasetCalls(o) PROVE AsksStep
    <2>1. RV_dataset_close(o) => AsksStep
      BY ClosesAsk DEF RV_dataset_close, Objects
    <2> QED
      BY <1>4, <2>1, QuestionsAsk, LookupsAsk, WritesAsk, OpeningAsks DEF DatasetCalls
  <1>5. ASSUME NEW o \in Slots, DatatypeCalls(o) PROVE AsksStep
    <2>1. RV_datatype_close(o) => AsksStep
      BY ClosesAsk DEF RV_datatype_close, Objects
    <2> QED
      BY <1>5, <2>1, QuestionsAsk, OpeningAsks DEF DatatypeCalls
  <1>6. ASSUME NEW o \in Slots, LinkCalls(o) PROVE AsksStep
    BY <1>6, LookupsAsk, WritesAsk, LinkIterAsks DEF LinkCalls
  <1>7. ASSUME NEW o \in Slots, ObjectCalls(o) PROVE AsksStep
    BY <1>7, OpeningAsks, ObjectsAsk, VisitAsks DEF ObjectCalls
  <1>8. ASSUME NEW o \in Slots, AttrCalls(o) PROVE AsksStep
    <2>1. RV_attr_close(o) => AsksStep
      BY ClosesAsk DEF RV_attr_close, Objects
    <2> QED
      BY <1>8, <2>1, QuestionsAsk, LookupsAsk, WritesAsk, OpeningAsks, RenamesAsk, AttrIterAsks
         DEF AttrCalls
  <1> QED
    BY <1>1, <1>2, <1>3, <1>4, <1>5, <1>6, <1>7, <1>8, IterStepsAsk DEF Next

\* The invariant of the handle: whatever callbacks have run, as long as none
\* has failed the next request starts from clean options.
THEOREM HandleInvariant == Spec => []HandleInv
  <1>1. Init => HandleInv
    BY DEF Init, SessionInit, HandleInv, Options
  <1>2. VolInv /\ HandleInv /\ [Next]_vars => HandleInv'
    <2> SUFFICES ASSUME VolInv, HandleInv, [Next]_vars PROVE HandleInv'
      OBVIOUS
    <2>1. CASE Next
      BY <2>1, NextAsks DEF AsksStep
    <2>2. CASE UNCHANGED vars
      BY <2>2 DEF vars, HandleInv, Options
    <2> QED
      BY <2>1, <2>2
  <1> QED
    BY <1>1, <1>2, SessionInvariant, PTL DEF Spec

\* Until a call fails every request of every callback has the verb it meant,
\* only a DELETE may carry the body of an earlier request, and outside an
\* iteration the one domain a request names is the one meant (the options live
\* in one global handle, the domains in one global header list).
THEOREM RequestsAsMeant == Spec => AsMeant
  <1>1. VolInv /\ HandleInv /\ [Next]_vars => [AsMeantStep]_vars
    BY NextAsks DEF AsksStep
  <1>2. VolInv /\ HandleInv /\ [Next]_vars =>
          [~failed => \A r \in sent' : /\ r.verb = r.meant
                                       /\ r.body = "old" => r.verb = "DELETE"
                                       /\ iter = NoIter => r.hosts = {r.to}]_vars
    BY <1>1 DEF AsMeantStep
  <1> QED
    BY <1>2, HandleInvariant, SessionInvariant, PTL DEF Spec, AsMeant

\* Whatever earlier failures have left in the header list, a call that
\* succeeds adds nothing to it.
THEOREM HeadersRecover == Spec => ListRecovers
  <1>1. VolInv /\ HandleInv /\ [Next]_vars =>
          [ok' /\ iter' = NoIter => headers' \in {{}, headers}]_vars
    BY NextAsks DEF AsksStep, RecoversStep
  <1> QED
    BY <1>1, HandleInvariant, SessionInvariant, PTL DEF Spec, ListRecovers

\* No PUT or POST that stores anything is about a file that is not open for
\* writing: every callback looks at the intent of the file it writes to, and
\* no call in between changes it.
THEOREM IntentIsKept == Spec => IntentKept
  <1>1. VolInv /\ HandleInv /\ [Next]_vars =>
          [\A r \in sent' : r.meant \in {"PUT", "POST"} => r.rw]_vars
    BY NextAsks DEF AsksStep, IntentStep
  <1> QED
    BY <1>1, HandleInvariant, SessionInvariant, PTL DEF Spec, IntentKept
====
