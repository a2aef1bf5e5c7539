---------------------------- MODULE VisitProofs ----------------------------
(***************************************************************************)
(* Proofs about iterations and visits (module Visit), for every file with  *)
(* finitely many groups and every number of calls: the recursion is no     *)
(* deeper than the file has groups, an iteration that is interrupted and   *)
(* taken up again loses no link, and a visit that comes to its end has     *)
(* reported everything.                                                    *)
(*                                                                         *)
(* StructInv says what the tables and the two stacks look like: the tables *)
(* form a tree, and a frame of the walk was entered from an entry of the   *)
(* one below.  IndexInv adds what an index of the application's stands     *)
(* for, CoverInv which groups have tables, CompleteInv which entries have  *)
(* been reported: there is a set P of entries the walk is past.            *)
(*                                                                         *)
(* The index counts entries in the order qsort left them in, so that some  *)
(* such order must be known to exist: it is built key by key, by an        *)
(* induction for which least elements of sets of numbers suffice.          *)
(***************************************************************************)
EXTENDS Visit, FiniteSetTheorems, SequenceTheorems, TLAPS

(***************************************************************************)
(* Sorting                                                                 *)
(***************************************************************************)

\* A nonempty set of natural numbers has a least element.
LEMMA LeastNatural ==
    ASSUME NEW S \in SUBSET Nat, S # {}
    PROVE  \E m \in S : \A k \in S : m <= k
  <1>1. IsWellFoundedOn(OpToRel(<, Nat), Nat)
    BY NatLessThanWellFounded, Zenon
  <1>2. \A x, y \in Nat : <<y, x>> \in OpToRel(<, Nat) <=> y < x
    BY Zenon DEF OpToRel
  <1>3. PICK m \in S : \A k \in S : ~ (<<k, m>> \in OpToRel(<, Nat))
    BY <1>1, WFMin, Zenon
  <1>4. \A k \in S : m \in Nat /\ k \in Nat /\ ~ (k < m)
    BY <1>2, <1>3, Zenon
  <1> QED
    BY <1>4

\* Induction over the natural numbers, for a property given as a set.
LEMMA InductionOnNat ==
    ASSUME NEW S, 0 \in S, \A n \in Nat : n \in S => n + 1 \in S
    PROVE  Nat \subseteq S
  <1> SUFFICES ASSUME Nat \ S # {} PROVE FALSE
    OBVIOUS
  <1>1. PICK m \in Nat \ S : \A k \in Nat \ S : m <= k
    <2> DEFINE T == Nat \ S
    <2>1. T \in SUBSET Nat /\ T # {}
      OBVIOUS
    <2> HIDE DEF T
    <2>2. \E m \in T : \A k \in T : m <= k
      BY <2>1, LeastNatural
    <2> QED
      BY <2>2 DEF T
  <1>2. m # 0 /\ m \in Nat
    BY <1>1
  <1>3. m - 1 \in Nat /\ ~ (m <= m - 1)
    BY <1>2
  <1>4. m - 1 \in S
    BY <1>1, <1>3
  <1>5. (m - 1) + 1 \in S
    BY <1>3, <1>4
  <1> QED
    BY <1>1, <1>2, <1>5

\* A row of n keys can be put in order.
InOrder(key, p, n) == \A i, j \in 1..n : i < j => key[p[i]] <= key[p[j]]

LEMMA KeysCanBeSorted ==
    \A n \in Nat : \A key \in [1..n -> Nat] :
        \E p \in Bijection(1..n, 1..n) : InOrder(key, p, n)
  <1> DEFINE S == {n \in Nat : \A key \in [1..n -> Nat] :
                                  \E p \in Bijection(1..n, 1..n) : InOrder(key, p, n)}
  <1>1. 0 \in S
    <2>1. \A p \in [1..0 -> 1..0] : p \in Bijection(1..0, 1..0)
      BY DEF Bijection, Injection, Surjection, IsInjective
    <2>2. [i \in 1..0 |-> i] \in [1..0 -> 1..0]
      OBVIOUS
    <2>3. \A key, p : InOrder(key, p, 0)
      BY DEF InOrder
    <2> QED
      BY <2>1, <2>2, <2>3
  <1>2. ASSUME NEW n \in Nat, n \in S PROVE n + 1 \in S
    <2> SUFFICES ASSUME NEW key \in [1..(n + 1) -> Nat]
                 PROVE  \E p \in Bijection(1..(n + 1), 1..(n + 1)) : InOrder(key, p, n + 1)
      OBVIOUS
    <2>1. PICK m \in 1..(n + 1) : \A k \in 1..(n + 1) : key[m] <= key[k]
      <3> DEFINE V == {key[k] : k \in 1..(n + 1)}
      <3>1. V \in SUBSET Nat /\ V # {}
        <4>1. key[1] \in V
          OBVIOUS
        <4> QED
          BY <4>1
      <3>2. PICK v \in V : \A w \in V : v <= w
        <4> HIDE DEF V
        <4> QED
          BY <3>1, LeastNatural
      <3> QED
        BY <3>2
    <2> DEFINE skip == [i \in 1..n |-> IF i < m THEN i ELSE i + 1]
               rest == [i \in 1..n |-> key[skip[i]]]
    <2>2. /\ \A i \in 1..n : skip[i] \in 1..(n + 1) /\ skip[i] # m
          /\ \A i, j \in 1..n : skip[i] = skip[j] => i = j
          /\ \A k \in 1..(n + 1) : k # m => \E i \in 1..n : skip[i] = k
      <3>1. \A i \in 1..n : skip[i] = IF i < m THEN i ELSE i + 1
        OBVIOUS
      <3>2. ASSUME NEW k \in 1..(n + 1), k # m PROVE \E i \in 1..n : skip[i] = k
        <4>1. CASE k < m
          <5>1. k \in 1..n /\ skip[k] = k
            BY <4>1, <3>1
          <5> QED
            BY <5>1
        <4>2. CASE k > m
          <5>1. k - 1 \in 1..n /\ skip[k - 1] = k
            BY <4>2, <3>1
          <5> QED
            BY <5>1
        <4> QED
          BY <3>2, <4>1, <4>2
      <3>3. ASSUME NEW i \in 1..n PROVE skip[i] \in 1..(n + 1) /\ skip[i] # m
        BY <3>1
      <3>4. ASSUME NEW i \in 1..n, NEW j \in 1..n, skip[i] = skip[j] PROVE i = j
        BY <3>1, <3>4
      <3> HIDE DEF skip
      <3> QED
        BY <3>2, <3>3, <3>4
    <2>3. rest \in [1..n -> Nat]
      BY <2>2
    <2>4. PICK q \in Bijection(1..n, 1..n) : InOrder(rest, q, n)
      <3> HIDE DEF rest
      <3> QED
        BY <1>2, <2>3
    <2>5. /\ \A i \in 1..n : q[i] \in 1..n
          /\ \A i, j \in 1..n : q[i] = q[j] => i = j
          /\ \A k \in 1..n : \E i \in 1..n : q[i] = k
      BY DEF Bijection, Injection, Surjection, IsInjective
    <2> DEFINE p == [i \in 1..(n + 1) |-> IF i = 1 THEN m ELSE skip[q[i - 1]]]
    <2>6. p[1] = m /\ \A i \in 2..(n + 1) : i - 1 \in 1..n /\ p[i] = skip[q[i - 1]]
      <3> HIDE DEF skip
      <3> QED
        OBVIOUS
    <2>7. \A i \in 1..n : rest[i] = key[skip[i]]
      OBVIOUS
    <2>8. DOMAIN p = 1..(n + 1)
      OBVIOUS
    <2>9. p = [i \in 1..(n + 1) |-> p[i]]
      OBVIOUS
    <2> HIDE DEF p, skip, rest
    <2>10. \A i \in 1..(n + 1) : p[i] \in 1..(n + 1)
      <3> SUFFICES ASSUME NEW i \in 1..(n + 1) PROVE p[i] \in 1..(n + 1)
        OBVIOUS
      <3>1. CASE i = 1
        BY <3>1, <2>6
      <3>2. CASE i # 1
        <4>1. i \in 2..(n + 1)
          BY <3>2
        <4>2. q[i - 1] \in 1..n /\ p[i] = skip[q[i - 1]]
          BY <4>1, <2>5, <2>6
        <4> QED
          BY <4>2, <2>2
      <3> QED
        BY <3>1, <3>2
    <2>11. \A i, j \in 1..(n + 1) : p[i] = p[j] => i = j
      <3> SUFFICES ASSUME NEW i \in 1..(n + 1), NEW j \in 1..(n + 1), p[i] = p[j] PROVE i = j
        OBVIOUS
      <3>1. ASSUME NEW k \in 2..(n + 1)
            PROVE  q[k - 1] \in 1..n /\ p[k] = skip[q[k - 1]] /\ p[k] # m
        <4>1. q[k - 1] \in 1..n /\ p[k] = skip[q[k - 1]]
          BY <2>5, <2>6
        <4> DEFINE a == q[k - 1]
        <4>2. a \in 1..n /\ p[k] = skip[a]
          BY <4>1
        <4> HIDE DEF a
        <4>3. p[k] # m
          BY <4>2, <2>2
        <4> QED
          BY <4>1, <4>3
      <3>2. ASSUME NEW k \in 1..(n + 1), p[k] = m PROVE k = 1
        <4>1. k \in 2..(n + 1) \/ k = 1
          OBVIOUS
        <4> QED
          BY <3>1, <3>2, <4>1
      <3>3. CASE i # 1 /\ j # 1
        <4>1. i \in 2..(n + 1) /\ j \in 2..(n + 1) /\ i - 1 \in 1..n /\ j - 1 \in 1..n
          BY <3>3
        <4>2. q[i - 1] \in 1..n /\ q[j - 1] \in 1..n /\ skip[q[i - 1]] = skip[q[j - 1]]
          BY <4>1, <3>1
        <4>21. q[i - 1] = q[j - 1]
          <5> DEFINE a == q[i - 1]
                     b == q[j - 1]
          <5> HIDE DEF a, b
          <5>1. a \in 1..n /\ b \in 1..n /\ skip[a] = skip[b]
            BY <4>2 DEF a, b
          <5>2. a = b
            BY <5>1, <2>2, Zenon
          <5> QED
            BY <5>2 DEF a, b
        <4>3. i - 1 = j - 1
          BY <4>1, <4>21, <2>5
        <4> QED
          BY <4>3
      <3>4. CASE i = 1 \/ j = 1
        BY <3>2, <3>4, <2>6
      <3> QED
        BY <3>3, <3>4
    <2>12. \A k \in 1..(n + 1) : \E i \in 1..(n + 1) : p[i] = k
      <3> SUFFICES ASSUME NEW k \in 1..(n + 1), k # m PROVE \E i \in 1..(n + 1) : p[i] = k
        <4>1. 1 \in 1..(n + 1)
          OBVIOUS
        <4> QED
          BY <2>6, <4>1
      <3>1. PICK a \in 1..n : skip[a] = k
        BY <2>2
      <3>2. PICK b \in 1..n : q[b] = a
        BY <2>5
      <3>3. b + 1 \in 2..(n + 1) /\ (b + 1) - 1 = b /\ b + 1 \in 1..(n + 1)
        OBVIOUS
      <3>4. p[b + 1] = k
        BY <2>6, <3>1, <3>2, <3>3
      <3> QED
        BY <3>3, <3>4
    <2>13. p \in Bijection(1..(n + 1), 1..(n + 1))
      <3>1. p \in [1..(n + 1) -> 1..(n + 1)]
        BY <2>9, <2>10
      <3> QED
        BY <3>1, <2>11, <2>12 DEF Bijection, Injection, Surjection, IsInjective
    <2>14. InOrder(key, p, n + 1)
      <3> SUFFICES ASSUME NEW i \in 1..(n + 1), NEW j \in 1..(n + 1), i < j
                   PROVE  key[p[i]] <= key[p[j]]
        BY DEF InOrder
      <3>1. CASE i = 1
        BY <3>1, <2>1, <2>6, <2>10
      <3>2. CASE i # 1
        <4>1. i \in 2..(n + 1) /\ j \in 2..(n + 1) /\ i - 1 \in 1..n /\ j - 1 \in 1..n
              /\ i - 1 < j - 1
          BY <3>2
        <4>2. rest[q[i - 1]] <= rest[q[j - 1]]
          BY <4>1, <2>4 DEF InOrder
        <4>3. rest[q[i - 1]] = key[p[i]] /\ rest[q[j - 1]] = key[p[j]]
          BY <4>1, <2>5, <2>6, <2>7
        <4> QED
          BY <4>2, <4>3
      <3> QED
        BY <3>1, <3>2
    <2> QED
      BY <2>13, <2>14
  <1> HIDE DEF S
  <1>3. Nat \subseteq S
    BY <1>1, <1>2, InductionOnNat
  <1> QED
    BY <1>3 DEF S

(***************************************************************************)
(* The inductive invariant: tables and stacks                              *)
(***************************************************************************)

Entries(tbl) == DOMAIN graph[GroupOf(tbl)]
LinkOf(e)    == graph[GroupOf(e[1])][e[2]]
Child(e)     == LinkOf(e).to
Known        == {Top} \union visited_link_table      \* whose tables are or will be built
EntryOf(frame) == <<frame.tbl, Sorted(frame.tbl)[frame.at + 1]>>

Calls == [op : Ops \union {"none"}, order : Orders, index : Indexes, idx_p : BOOLEAN]
BuildFrames == [tbl : Tables, i : Nat \ {0}]
WalkFrames  == [tbl : Tables, at : Int]

VisitTypeInv ==
    /\ graph \in [Groups -> Seq(Links)]
    /\ call \in Calls /\ out \in {"none", "running", "ok", "failed"}
    /\ build \in Seq(BuildFrames) /\ walk \in Seq(WalkFrames)
    /\ subtable \in SUBSET (Tables \X Nat) /\ visited_link_table \in SUBSET Groups
    /\ log \in Seq(Tables \X Nat) /\ idx \in Int

\* A call builds, then walks, H5Ovisit not before it has reported the start;
\* the visits have no index of the application's.
PhaseInv ==
    /\ build # <<>> \/ walk # <<>> => Running
    /\ build = <<>> \/ walk = <<>>
    /\ Recursive => ~call.idx_p
    /\ call.op = "H5Ovisit" /\ log = <<>> => build = <<>> /\ walk = <<>>

\* The tables form a tree: a table hangs on one entry, a hard link to its
\* group, and the group was entered into the visited table for it.
TreeInv ==
    /\ \A e \in subtable : /\ e[1] \in Known /\ e[2] \in Entries(e[1])
                           /\ LinkOf(e).kind = "group" /\ Child(e) \in visited_link_table
    /\ \A e, f \in subtable : Child(e) = Child(f) => e = f
    /\ ~Recursive => subtable = {}

\* No table is on a stack twice; the outermost is that of the group the
\* application named, and a frame of the walk was entered from the one below.
StackInv(stack) ==
    /\ \A n \in DOMAIN stack : IF n = 1 THEN stack[n].tbl = Top
                                        ELSE stack[n].tbl \in visited_link_table
    /\ \A m, n \in DOMAIN stack : stack[m].tbl = stack[n].tbl => m = n
DescentInv(stack) ==
    \A n \in DOMAIN stack : n + 1 \in DOMAIN stack =>
        /\ stack[n].at \in 0..(Size(stack[n].tbl) - 1)
        /\ EntryOf(stack[n]) \in subtable /\ Child(EntryOf(stack[n])) = stack[n + 1].tbl

StructInv == /\ VisitTypeInv /\ PhaseInv /\ TreeInv
             /\ StackInv(build) /\ StackInv(walk) /\ DescentInv(walk)

-----------------------------------------------------------------------------
\* The constants.
LEMMA TopIsNoGroup == Top \notin Groups /\ Tables = {Top} \union Groups /\ Start \in Groups
  BY TopAssumption, VisitAssumption DEF Tables

\* What a table holds.
LEMMA TableType ==
    ASSUME graph \in [Groups -> Seq(Links)], NEW t \in Tables
    PROVE  /\ GroupOf(t) \in Groups /\ graph[GroupOf(t)] \in Seq(Links)
           /\ Size(t) \in Nat /\ Entries(t) = 1..Size(t)
           /\ \A k \in Entries(t) : LinkOf(<<t, k>>) \in Links
  <1>1. GroupOf(t) \in Groups
    BY TopIsNoGroup DEF GroupOf
  <1>2. graph[GroupOf(t)] \in Seq(Links)
    BY <1>1
  <1> QED
    BY <1>1, <1>2 DEF Size, Entries, LinkOf

LEMMA LinkType ==
    ASSUME NEW l \in Links
    PROVE  /\ l.crt \in Nat /\ l.to \in Groups \union Data
           /\ l.kind = "group" => l.to \in Groups
  BY DEF Links

\* Whichever way a table is sorted, each entry is at one place of it.
LEMMA SortedIs ==
    ASSUME graph \in [Groups -> Seq(Links)], NEW t \in Tables, NEW index
    PROVE  SortedBy(index, graph[GroupOf(t)]) \in Bijection(Entries(t), Entries(t))
  <1> DEFINE links == graph[GroupOf(t)]
             n == Size(t)
  <1>1. n \in Nat /\ DOMAIN links = 1..n /\ Entries(t) = 1..n
        /\ \A k \in 1..n : links[k].crt \in Nat
    BY TableType, LinkType DEF Entries, LinkOf
  <1>2. ByCreation(links) # {}
    <2> DEFINE key == [k \in 1..n |-> links[k].crt]
    <2>1. key \in [1..n -> Nat] /\ \A k \in 1..n : key[k] = links[k].crt
      BY <1>1
    <2> HIDE DEF key, n, links
    <2>2. PICK p \in Bijection(1..n, 1..n) : InOrder(key, p, n)
      BY <1>1, <2>1, KeysCanBeSorted
    <2>3. \A i \in 1..n : p[i] \in 1..n
      BY DEF Bijection, Injection
    <2>4. \A i, j \in 1..n : i < j => links[p[i]].crt <= links[p[j]].crt
      BY <2>1, <2>2, <2>3 DEF InOrder
    <2>5. p \in ByCreation(links)
      BY <1>1, <2>4 DEF ByCreation
    <2> QED
      BY <2>5
  <1>3. (CHOOSE p \in ByCreation(links) : TRUE) \in Bijection(1..n, 1..n)
    <2> HIDE DEF n, links
    <2>1. (CHOOSE p \in ByCreation(links) : TRUE) \in ByCreation(links)
      BY <1>2
    <2> QED
      BY <1>1, <2>1 DEF ByCreation
  <1>4. [i \in 1..n |-> i] \in Bijection(1..n, 1..n)
    <2> HIDE DEF n
    <2> QED
      BY DEF Bijection, Injection, Surjection, IsInjective
  <1> QED
    BY <1>1, <1>3, <1>4 DEF SortedBy

\* The last frame of a stack, the stack without it, and with another one.
LEMMA StackOps ==
    ASSUME NEW F, NEW s \in Seq(F), s # <<>>
    PROVE  /\ Len(s) \in Nat \ {0} /\ Len(s) \in DOMAIN s /\ Last(s) = s[Len(s)] /\ Last(s) \in F
           /\ DOMAIN s = 1..Len(s)
           /\ Front(s) \in Seq(F) /\ Len(Front(s)) = Len(s) - 1
           /\ DOMAIN Front(s) = 1..(Len(s) - 1)
           /\ \A n \in 1..(Len(s) - 1) : Front(s)[n] = s[n]
  <1>1. Len(s) \in Nat \ {0} /\ DOMAIN s = 1..Len(s)
    BY EmptySeq, LenProperties
  <1>2. \A i \in 1..(Len(s) - 1) : s[i] \in F
    BY <1>1, ElementOfSeq
  <1> DEFINE l == Len(s) - 1
  <1>3. l \in Int /\ 1 \in Int /\ Front(s) = SubSeq(s, 1, l) /\ l >= 0
    BY <1>1 DEF Front
  <1> HIDE DEF l
  <1>4. /\ SubSeq(s, 1, l) \in Seq(F)
        /\ Len(SubSeq(s, 1, l)) = IF 1 <= l THEN l - 1 + 1 ELSE 0
        /\ \A i \in 1..(l - 1 + 1) : SubSeq(s, 1, l)[i] = s[1 + i - 1]
    BY <1>2, <1>3, SubSeqProperties DEF l
  <1>5. Front(s) \in Seq(F) /\ Len(Front(s)) = l /\ \A n \in 1..l : Front(s)[n] = s[n]
    BY <1>3, <1>4
  <1>6. DOMAIN Front(s) = 1..l
    BY <1>5, LenProperties
  <1> QED
    BY <1>1, <1>5, <1>6, ElementOfSeq DEF Last, l

LEMMA StackPush ==
    ASSUME NEW F, NEW s \in Seq(F), NEW x \in F
    PROVE  /\ Append(s, x) \in Seq(F) /\ Len(Append(s, x)) = Len(s) + 1 /\ Len(s) \in Nat
           /\ Append(s, x) # <<>>
           /\ DOMAIN Append(s, x) = 1..(Len(s) + 1)
           /\ \A n \in 1..Len(s) : Append(s, x)[n] = s[n]
           /\ Append(s, x)[Len(s) + 1] = x
  <1>1. Len(s) \in Nat
    BY LenProperties
  <1>2. /\ Append(s, x) \in Seq(F) /\ Len(Append(s, x)) = Len(s) + 1 /\ Append(s, x) # <<>>
        /\ \A n \in 1..Len(s) : Append(s, x)[n] = s[n]
        /\ Append(s, x)[Len(s) + 1] = x
    BY AppendProperties
  <1> QED
    BY <1>1, <1>2, LenProperties

\* A frame's position changes.
LEMMA WalkFrameMoves ==
    ASSUME NEW s \in Seq(WalkFrames), s # <<>>, NEW x \in Int
    PROVE  LET t == [s EXCEPT ![Len(s)].at = x]
           IN  /\ t \in Seq(WalkFrames) /\ Len(t) = Len(s) /\ DOMAIN t = 1..Len(s)
               /\ \A n \in 1..(Len(s) - 1) : t[n] = s[n]
               /\ t[Len(s)] = [tbl |-> s[Len(s)].tbl, at |-> x]
  <1> DEFINE t == [s EXCEPT ![Len(s)].at = x]
  <1>1. Len(s) \in 1..Len(s) /\ Len(s) \in Nat \ {0} /\ s[Len(s)] \in WalkFrames
    BY StackOps
  <1> DEFINE f == [tbl |-> s[Len(s)].tbl, at |-> x]
  <1>2. f \in WalkFrames /\ [s[Len(s)] EXCEPT !.at = x] = f
    BY <1>1 DEF WalkFrames
  <1>3. t = [s EXCEPT ![Len(s)] = f]
    BY <1>2
  <1> HIDE DEF f, t
  <1>4. /\ t \in Seq(WalkFrames) /\ Len(t) = Len(s)
        /\ \A j \in 1..Len(s) : t[j] = IF j = Len(s) THEN f ELSE s[j]
    BY <1>1, <1>2, <1>3, ExceptSeq
  <1>5. DOMAIN t = 1..Len(s)
    BY <1>4, LenProperties
  <1>6. \A n \in 1..(Len(s) - 1) : t[n] = s[n]
    BY <1>1, <1>4
  <1>7. t[Len(s)] = f
    BY <1>1, <1>4
  <1> QED
    BY <1>4, <1>5, <1>6, <1>7 DEF f, t

LEMMA WalkFrameMovesTo ==
    ASSUME NEW s, NEW x, NEW t, t = [s EXCEPT ![Len(s)].at = x],
           s \in Seq(WalkFrames), s # <<>>, x \in Int
    PROVE  /\ DOMAIN t = 1..Len(s) /\ Len(t) = Len(s)
           /\ \A n \in 1..(Len(s) - 1) : t[n] = s[n]
           /\ t[Len(s)] = [tbl |-> s[Len(s)].tbl, at |-> x]
  <1> DEFINE u == [s EXCEPT ![Len(s)].at = x]
  <1>1. /\ DOMAIN u = 1..Len(s) /\ Len(u) = Len(s)
        /\ \A n \in 1..(Len(s) - 1) : u[n] = s[n]
        /\ u[Len(s)] = [tbl |-> s[Len(s)].tbl, at |-> x]
    BY WalkFrameMoves, ZenonT(60)
  <1>2. t = u
    OBVIOUS
  <1> HIDE DEF u
  <1> QED
    BY <1>1, <1>2

LEMMA BuildFrameMoves ==
    ASSUME NEW s \in Seq(BuildFrames), s # <<>>
    PROVE  /\ Advance(s) \in Seq(BuildFrames) /\ Len(Advance(s)) = Len(s)
           /\ DOMAIN Advance(s) = 1..Len(s) /\ Advance(s) # <<>>
           /\ \A n \in 1..(Len(s) - 1) : Advance(s)[n] = s[n]
           /\ Advance(s)[Len(s)] = [tbl |-> s[Len(s)].tbl, i |-> s[Len(s)].i + 1]
  <1>1. Len(s) \in 1..Len(s) /\ Len(s) \in Nat \ {0} /\ s[Len(s)] \in BuildFrames
    BY StackOps
  <1> DEFINE f == [tbl |-> s[Len(s)].tbl, i |-> s[Len(s)].i + 1]
             t == Advance(s)
  <1>2. f \in BuildFrames /\ [s[Len(s)] EXCEPT !.i = @ + 1] = f
    BY <1>1 DEF BuildFrames
  <1>3. t = [s EXCEPT ![Len(s)] = f]
    BY <1>2 DEF Advance
  <1> HIDE DEF f, t
  <1>4. /\ t \in Seq(BuildFrames) /\ Len(t) = Len(s)
        /\ \A j \in 1..Len(s) : t[j] = IF j = Len(s) THEN f ELSE s[j]
    BY <1>1, <1>2, <1>3, ExceptSeq
  <1>5. DOMAIN t = 1..Len(s) /\ t # <<>>
    BY <1>1, <1>4, LenProperties, EmptySeq
  <1>6. \A n \in 1..(Len(s) - 1) : t[n] = s[n]
    BY <1>1, <1>4
  <1>7. t[Len(s)] = f
    BY <1>1, <1>4
  <1> QED
    BY <1>4, <1>5, <1>6, <1>7 DEF f, t


\* The innermost frame goes on, a frame is taken off, a frame is added.
LEMMA WalkGoesOn ==
    ASSUME NEW s \in Seq(WalkFrames), s # <<>>, StackInv(s), DescentInv(s), NEW x \in Int, NEW w,
           w = [s EXCEPT ![Len(s)].at = x]
    PROVE  w \in Seq(WalkFrames) /\ w # <<>> /\ StackInv(w) /\ DescentInv(w)
  <1>1. Len(s) \in Nat \ {0} /\ DOMAIN s = 1..Len(s)
    BY StackOps
  <1>2. /\ w \in Seq(WalkFrames) /\ Len(w) = Len(s) /\ DOMAIN w = 1..Len(s)
        /\ \A n \in 1..(Len(s) - 1) : w[n] = s[n]
        /\ w[Len(s)] = [tbl |-> s[Len(s)].tbl, at |-> x]
    <2> DEFINE t == [s EXCEPT ![Len(s)].at = x]
    <2>1. /\ t \in Seq(WalkFrames) /\ Len(t) = Len(s) /\ DOMAIN t = 1..Len(s)
          /\ \A n \in 1..(Len(s) - 1) : t[n] = s[n]
          /\ t[Len(s)] = [tbl |-> s[Len(s)].tbl, at |-> x]
      BY WalkFrameMoves, Zenon
    <2>2. w = t
      OBVIOUS
    <2> HIDE DEF t
    <2> QED
      BY <2>1, <2>2
  <1>3. \A n \in 1..Len(s) : w[n].tbl = s[n].tbl
    <2> SUFFICES ASSUME NEW n \in 1..Len(s) PROVE w[n].tbl = s[n].tbl
      OBVIOUS
    <2>1. n = Len(s) \/ n \in 1..(Len(s) - 1)
      BY <1>1
    <2> QED
      BY <1>2, <2>1
  <1>4. StackInv(w)
    BY <1>1, <1>2, <1>3 DEF StackInv
  <1>5. DescentInv(w)
    <2> SUFFICES ASSUME NEW n \in 1..Len(s), n + 1 \in 1..Len(s)
                 PROVE  /\ w[n].at \in 0..(Size(w[n].tbl) - 1)
                        /\ EntryOf(w[n]) \in subtable /\ Child(EntryOf(w[n])) = w[n + 1].tbl
      BY <1>2 DEF DescentInv
    <2>1. w[n] = s[n] /\ w[n + 1].tbl = s[n + 1].tbl
      BY <1>1, <1>2, <1>3
    <2> QED
      BY <1>1, <2>1 DEF DescentInv
  <1> QED
    BY <1>1, <1>2, <1>4, <1>5, EmptySeq

LEMMA WalkWithoutLast ==
    ASSUME NEW s \in Seq(WalkFrames), Len(s) > 1, StackInv(s), DescentInv(s)
    PROVE  Front(s) \in Seq(WalkFrames) /\ Front(s) # <<>> /\ StackInv(Front(s)) /\ DescentInv(Front(s))
  <1>1. s # <<>>
    BY EmptySeq
  <1>2. /\ Front(s) \in Seq(WalkFrames) /\ Len(Front(s)) = Len(s) - 1 /\ DOMAIN s = 1..Len(s)
        /\ DOMAIN Front(s) = 1..(Len(s) - 1) /\ Len(s) \in Nat
        /\ \A n \in 1..(Len(s) - 1) : Front(s)[n] = s[n]
    BY <1>1, StackOps
  <1> DEFINE f == Front(s)
  <1> HIDE DEF f
  <1>3. StackInv(f)
    BY <1>2 DEF StackInv, f
  <1>4. DescentInv(f)
    <2> SUFFICES ASSUME NEW n \in 1..(Len(s) - 1), n + 1 \in 1..(Len(s) - 1)
                 PROVE  /\ f[n].at \in 0..(Size(f[n].tbl) - 1)
                        /\ EntryOf(f[n]) \in subtable /\ Child(EntryOf(f[n])) = f[n + 1].tbl
      BY <1>2 DEF DescentInv, f
    <2>1. f[n] = s[n] /\ f[n + 1] = s[n + 1] /\ n \in 1..Len(s) /\ n + 1 \in 1..Len(s)
      BY <1>2 DEF f
    <2> QED
      BY <1>2, <2>1 DEF DescentInv
  <1>5. f # <<>>
    BY <1>2, EmptySeq DEF f
  <1> QED
    BY <1>2, <1>3, <1>4, <1>5 DEF f

LEMMA WalkIntoSubgroup ==
    ASSUME VisitTypeInv, TreeInv, walk # <<>>, StackInv(walk), DescentInv(walk),
           Last(walk).at \in 0..(Size(Last(walk).tbl) - 1), EntryOf(Last(walk)) \in subtable,
           NEW x \in Int, NEW w, w = Append(walk, [tbl |-> Child(EntryOf(Last(walk))), at |-> x])
    PROVE  /\ w \in Seq(WalkFrames) /\ w # <<>> /\ StackInv(w) /\ DescentInv(w)
           /\ \A n \in DOMAIN walk : walk[n].tbl # Child(EntryOf(Last(walk)))
  <1> DEFINE c == Child(EntryOf(Last(walk)))
             l == Len(walk)
             f == [tbl |-> c, at |-> x]
  <1>1. l \in Nat \ {0} /\ DOMAIN walk = 1..l /\ Last(walk) = walk[l]
        /\ \A n \in 1..l : walk[n].tbl \in Tables
    <2>1. walk \in Seq(WalkFrames)
      BY DEF VisitTypeInv
    <2>2. \A n \in 1..l : walk[n] \in WalkFrames
      BY <2>1, ElementOfSeq
    <2> QED
      BY <2>1, <2>2, StackOps DEF WalkFrames
  <1>2. c \in visited_link_table /\ c \in Tables /\ c # Top
    BY TopIsNoGroup DEF TreeInv, VisitTypeInv
  <1>3. ASSUME NEW n \in 1..l PROVE walk[n].tbl # c
    <2>1. CASE n = 1
      BY <2>1, <1>1, <1>2 DEF StackInv
    <2>2. CASE n # 1
      <3> DEFINE m == n - 1
                 e == EntryOf(walk[m])
      <3>1. m \in 1..l /\ m + 1 \in 1..l /\ m + 1 = n /\ m < l
        BY <2>2, <1>1
      <3> SUFFICES ASSUME walk[n].tbl = c PROVE FALSE
        OBVIOUS
      <3>2. e \in subtable /\ Child(e) = c
        <4> HIDE DEF m
        <4> QED
          BY <1>1, <3>1 DEF DescentInv
      <3>3. e = EntryOf(walk[l])
        <4> HIDE DEF e
        <4> QED
          BY <1>1, <3>2 DEF TreeInv
      <3>4. walk[m].tbl = walk[l].tbl
        <4>1. e[1] = walk[m].tbl /\ EntryOf(walk[l])[1] = walk[l].tbl
          BY DEF EntryOf
        <4> QED
          BY <3>3, <4>1
      <3>5. m = l
        <4> HIDE DEF m, l
        <4> QED
          BY <1>1, <3>1, <3>4 DEF StackInv
      <3> QED
        BY <1>1, <3>1, <3>5
    <2> QED
      BY <2>1, <2>2
  <1>4. f \in WalkFrames
    BY <1>2 DEF WalkFrames
  <1>5. /\ w \in Seq(WalkFrames) /\ Len(w) = l + 1 /\ DOMAIN w = 1..(l + 1) /\ w # <<>>
        /\ \A n \in 1..l : w[n] = walk[n]
        /\ w[l + 1] = f
    <2> HIDE DEF f
    <2>1. walk \in Seq(WalkFrames) /\ w = Append(walk, f)
      BY DEF VisitTypeInv, f
    <2> QED
      BY <1>4, <2>1, StackPush
  <1>6. w[l + 1].tbl = c /\ \A n \in 1..(l + 1) : n = l + 1 \/ n \in 1..l
    BY <1>1, <1>5
  <1>7. StackInv(w)
    <2> HIDE DEF c, l, f
    <2>1. ASSUME NEW n \in 1..(l + 1)
          PROVE  IF n = 1 THEN w[n].tbl = Top ELSE w[n].tbl \in visited_link_table
      BY <1>1, <1>2, <1>5, <1>6 DEF StackInv
    <2>2. ASSUME NEW m \in 1..(l + 1), NEW n \in 1..(l + 1), w[m].tbl = w[n].tbl PROVE m = n
      <3>1. CASE m \in 1..l /\ n \in 1..l
        BY <1>1, <1>5, <2>2, <3>1 DEF StackInv
      <3>2. CASE m = l + 1 \/ n = l + 1
        BY <1>3, <1>5, <1>6, <2>2, <3>2
      <3> QED
        BY <1>6, <3>1, <3>2
    <2> QED
      BY <1>5, <2>1, <2>2 DEF StackInv
  <1>8. DescentInv(w)
    <2> HIDE DEF l, f, c
    <2> SUFFICES ASSUME NEW n \in 1..(l + 1), n + 1 \in 1..(l + 1)
                 PROVE  /\ w[n].at \in 0..(Size(w[n].tbl) - 1)
                        /\ EntryOf(w[n]) \in subtable /\ Child(EntryOf(w[n])) = w[n + 1].tbl
      BY <1>5 DEF DescentInv
    <2>1. CASE n = l
      <3>1. w[n] = walk[l] /\ w[n + 1].tbl = c
        BY <1>1, <1>5, <1>6, <2>1
      <3> QED
        BY <1>1, <3>1 DEF c
    <2>2. CASE n # l
      <3>1. n \in 1..l /\ n + 1 \in 1..l /\ w[n] = walk[n] /\ w[n + 1] = walk[n + 1]
        BY <1>1, <1>5, <2>2
      <3> QED
        BY <1>1, <3>1 DEF DescentInv
    <2> QED
      BY <2>1, <2>2
  <1> QED
    BY <1>1, <1>3, <1>5, <1>7, <1>8

\* What the steps of a walk leave of the stack.
LEMMA HereIs ==
    ASSUME VisitTypeInv, walk # <<>>
    PROVE  /\ Here \in WalkFrames /\ Here.tbl \in Tables /\ Here.at \in Int
           /\ Here = walk[Len(walk)] /\ Here = Last(walk)
           /\ EntryOf(Here) = <<Here.tbl, Entry>> /\ LinkOf(EntryOf(Here)) = EntryLink
           /\ Size(Here.tbl) \in Nat /\ walk \in Seq(WalkFrames)
           /\ Len(walk) \in Nat \ {0} /\ DOMAIN walk = 1..Len(walk)
  <1>1. walk \in Seq(WalkFrames)
    BY DEF VisitTypeInv
  <1>2. Here \in WalkFrames /\ Here = walk[Len(walk)] /\ Len(walk) \in Nat \ {0}
        /\ DOMAIN walk = 1..Len(walk)
    BY <1>1, StackOps DEF Here
  <1>3. Here.tbl \in Tables /\ Here.at \in Int
    BY <1>2 DEF WalkFrames
  <1>4. Size(Here.tbl) \in Nat
    BY <1>3, TableType DEF VisitTypeInv
  <1>5. EntryOf(Here) = <<Here.tbl, Entry>> /\ LinkOf(EntryOf(Here)) = EntryLink
    BY DEF EntryOf, Entry, EntryLink, LinkOf
  <1> QED
    BY <1>1, <1>2, <1>3, <1>4, <1>5 DEF Here

LEMMA StepsAreInt ==
    ASSUME VisitTypeInv
    PROVE  /\ \A t \in Tables : Begin(t) \in Int
           /\ \A at \in Int : NextAt(at) \in Int
  <1>1. \A t \in Tables : Size(t) \in Nat
    BY TableType DEF VisitTypeInv
  <1> QED
    BY <1>1 DEF Begin, NextAt, VisitTypeInv

LEMMA GoesOnKeeps ==
    ASSUME StructInv, AtEntry, GoesOn
    PROVE  /\ walk' \in Seq(WalkFrames) /\ walk' # <<>> /\ StackInv(walk') /\ DescentInv(walk')
           /\ build' = <<>> /\ out' = out
  <1>1. /\ walk # <<>> /\ Here.at \in 0..(Size(Here.tbl) - 1) /\ build = <<>>
        /\ VisitTypeInv /\ TreeInv /\ StackInv(walk) /\ DescentInv(walk)
    BY DEF AtEntry, StructInv, PhaseInv
  <1>2. build' = <<>> /\ out' = out
    BY <1>1 DEF GoesOn
  <1>3. CASE EntryOf(Here) \in subtable
    <2>1. walk' = Append(walk, [tbl |-> Child(EntryOf(Here)), at |-> Begin(Child(EntryOf(Here)))])
      BY <1>1, <1>3, HereIs DEF GoesOn, Child
    <2>2. Child(EntryOf(Here)) \in Tables
      BY <1>1, <1>3 DEF TreeInv, VisitTypeInv, Tables
    <2>3. Begin(Child(EntryOf(Here))) \in Int
      BY <1>1, <2>2, StepsAreInt
    <2> QED
      BY <1>1, <1>2, <1>3, <2>1, <2>3, HereIs, WalkIntoSubgroup
  <1>4. CASE EntryOf(Here) \notin subtable
    <2>1. walk' = [walk EXCEPT ![Len(walk)].at = NextAt(walk[Len(walk)].at)]
      BY <1>1, <1>4, HereIs DEF GoesOn
    <2>2. walk \in Seq(WalkFrames) /\ NextAt(walk[Len(walk)].at) \in Int
      BY <1>1, HereIs, StepsAreInt
    <2> QED
      BY <1>1, <1>2, <2>1, <2>2, WalkGoesOn
  <1> QED
    BY <1>3, <1>4

LEMMA FrameReturnsKeeps ==
    ASSUME StructInv, walk # <<>>, NEW last_idx \in Int, FrameReturns(walk, last_idx)
    PROVE  /\ walk' \in Seq(WalkFrames) /\ StackInv(walk') /\ DescentInv(walk')
           /\ build' = <<>> /\ (walk' # <<>> => out' = out) /\ idx' \in Int
           /\ out' \in {out, "ok"}
  <1>1. /\ build = <<>> /\ idx \in Int /\ walk \in Seq(WalkFrames)
        /\ VisitTypeInv /\ TreeInv /\ StackInv(walk) /\ DescentInv(walk)
    BY DEF StructInv, PhaseInv, VisitTypeInv
  <1>2. CASE Len(walk) = 1
    <2>1. walk' = <<>> /\ build' = <<>> /\ idx' \in Int /\ out' = "ok"
      BY <1>1, <1>2 DEF FrameReturns, Returns, KeptIndex
    <2>2. walk' \in Seq(WalkFrames) /\ DOMAIN walk' = {}
      BY <2>1, EmptySeq, LenProperties
    <2>3. StackInv(walk') /\ DescentInv(walk')
      BY <2>2 DEF StackInv, DescentInv
    <2> QED
      BY <2>1, <2>2, <2>3
  <1>3. CASE Len(walk) # 1
    <2>1. Len(walk) > 1 /\ Len(walk) \in Nat
      BY <1>1, <1>3, HereIs
    <2> DEFINE f == Front(walk)
    <2>2. /\ f \in Seq(WalkFrames) /\ f # <<>> /\ StackInv(f) /\ DescentInv(f)
          /\ Len(f) = Len(walk) - 1
      BY <1>1, <2>1, WalkWithoutLast, StackOps
    <2>3. walk' = [f EXCEPT ![Len(f)].at = NextAt(f[Len(f)].at)] /\ build' = <<>> /\ idx' = idx
          /\ out' = out
      BY <1>1, <1>3, <2>2 DEF FrameReturns
    <2> HIDE DEF f
    <2>4. NextAt(f[Len(f)].at) \in Int
      <3>1. f[Len(f)] \in WalkFrames
        BY <2>2, StackOps
      <3>2. f[Len(f)].at \in Int
        BY <3>1 DEF WalkFrames
      <3> QED
        BY <1>1, <3>2, StepsAreInt
    <2>5. walk' \in Seq(WalkFrames) /\ StackInv(walk') /\ DescentInv(walk')
      BY <2>2, <2>3, <2>4, WalkGoesOn
    <2> QED
      BY <1>1, <2>3, <2>5
  <1> QED
    BY <1>2, <1>3

\* While building, a frame is added for a group that had not been visited.
LEMMA BuildGoesOn ==
    ASSUME VisitTypeInv, build # <<>>, StackInv(build)
    PROVE  /\ Advance(build) \in Seq(BuildFrames) /\ StackInv(Advance(build))
           /\ Advance(build) # <<>> /\ Len(Advance(build)) = Len(build)
  <1>1. build \in Seq(BuildFrames)
    BY DEF VisitTypeInv
  <1> DEFINE a == Advance(build)
             l == Len(build)
  <1>2. l \in Nat \ {0} /\ DOMAIN build = 1..l
    BY <1>1, StackOps
  <1>3. /\ a \in Seq(BuildFrames) /\ Len(a) = l /\ DOMAIN a = 1..l /\ a # <<>>
        /\ \A n \in 1..(l - 1) : a[n] = build[n]
        /\ a[l] = [tbl |-> build[l].tbl, i |-> build[l].i + 1]
    BY <1>1, BuildFrameMoves
  <1> HIDE DEF a, l
  <1>4. ASSUME NEW n \in 1..l PROVE a[n].tbl = build[n].tbl
    <2>1. n = l \/ n \in 1..(l - 1)
      BY <1>2
    <2> QED
      BY <1>3, <2>1
  <1>5. StackInv(a)
    BY <1>2, <1>3, <1>4 DEF StackInv
  <1> QED
    BY <1>3, <1>5 DEF a, l

LEMMA BuildWithoutLast ==
    ASSUME VisitTypeInv, build # <<>>, StackInv(build)
    PROVE  Front(build) \in Seq(BuildFrames) /\ StackInv(Front(build))
  <1>1. build \in Seq(BuildFrames)
    BY DEF VisitTypeInv
  <1> DEFINE f == Front(build)
  <1>2. /\ f \in Seq(BuildFrames) /\ DOMAIN build = 1..Len(build)
        /\ DOMAIN f = 1..(Len(build) - 1) /\ Len(build) \in Nat
        /\ \A n \in 1..(Len(build) - 1) : f[n] = build[n]
    BY <1>1, StackOps
  <1> HIDE DEF f
  <1>3. StackInv(f)
    BY <1>2 DEF StackInv
  <1> QED
    BY <1>2, <1>3 DEF f

LEMMA BuildIntoSubgroup ==
    ASSUME VisitTypeInv, build # <<>>, StackInv(build), NEW g \in Groups \ visited_link_table,
           visited_link_table' = visited_link_table \union {g},
           build' = Append(Advance(build), [tbl |-> g, i |-> 1])
    PROVE  build' \in Seq(BuildFrames) /\ StackInv(build)' /\ build' # <<>>
  <1> DEFINE a == Advance(build)
             l == Len(a)
             f == [tbl |-> g, i |-> 1]
  <1>1. a \in Seq(BuildFrames) /\ StackInv(a) /\ a # <<>>
    BY BuildGoesOn
  <1>2. f \in BuildFrames /\ f.tbl = g /\ g # Top /\ g \notin visited_link_table
    BY TopIsNoGroup DEF BuildFrames
  <1>3. build' = Append(a, f)
    OBVIOUS
  <1> HIDE DEF a, f
  <1>4. l \in Nat \ {0} /\ DOMAIN a = 1..l
    BY <1>1, StackOps
  <1>5. /\ build' \in Seq(BuildFrames) /\ build' # <<>> /\ DOMAIN build' = 1..(l + 1)
        /\ \A n \in 1..l : build'[n] = a[n]
        /\ build'[l + 1] = f
    <2>1. /\ Append(a, f) \in Seq(BuildFrames) /\ Append(a, f) # <<>>
          /\ DOMAIN Append(a, f) = 1..(l + 1)
          /\ \A n \in 1..l : Append(a, f)[n] = a[n]
          /\ Append(a, f)[l + 1] = f
      BY <1>1, <1>2, StackPush
    <2> QED
      BY <1>3, <2>1
  <1> HIDE DEF l
  <1>6. \A n \in 1..l : IF n = 1 THEN a[n].tbl = Top ELSE a[n].tbl \in visited_link_table
    BY <1>1, <1>4 DEF StackInv
  <1>7. \A n \in 1..l : a[n].tbl # g
    BY <1>2, <1>6
  <1>8. \A n \in 1..(l + 1) : n = l + 1 \/ n \in 1..l
    BY <1>4
  <1>9. ASSUME NEW n \in 1..(l + 1)
        PROVE  IF n = 1 THEN build'[n].tbl = Top ELSE build'[n].tbl \in visited_link_table'
    BY <1>2, <1>4, <1>5, <1>6, <1>8
  <1>10. ASSUME NEW m \in 1..(l + 1), NEW n \in 1..(l + 1), build'[m].tbl = build'[n].tbl
         PROVE  m = n
    <2>1. CASE m \in 1..l /\ n \in 1..l
      BY <1>1, <1>4, <1>5, <1>10, <2>1 DEF StackInv
    <2>2. CASE m = l + 1 \/ n = l + 1
      BY <1>2, <1>5, <1>7, <1>8, <1>10, <2>2
    <2> QED
      BY <1>8, <2>1, <2>2
  <1> QED
    BY <1>5, <1>9, <1>10 DEF StackInv

LEMMA EmptyStack ==
    /\ <<>> \in Seq(BuildFrames) /\ <<>> \in Seq(WalkFrames) /\ DOMAIN <<>> = {}
    /\ StackInv(<<>>) /\ DescentInv(<<>>)
  <1>1. DOMAIN <<>> = {}
    OBVIOUS
  <1> QED
    BY <1>1 DEF StackInv, DescentInv

LEMMA OneFrame ==
    /\ <<[tbl |-> Top, i |-> 1]>> \in Seq(BuildFrames) /\ StackInv(<<[tbl |-> Top, i |-> 1]>>)
    /\ \A x \in Int : /\ <<[tbl |-> Top, at |-> x]>> \in Seq(WalkFrames)
                      /\ StackInv(<<[tbl |-> Top, at |-> x]>>) /\ DescentInv(<<[tbl |-> Top, at |-> x]>>)
  <1>1. [tbl |-> Top, i |-> 1] \in BuildFrames /\ \A x \in Int : [tbl |-> Top, at |-> x] \in WalkFrames
    BY DEF BuildFrames, WalkFrames, Tables
  <1>2. ASSUME NEW f, f.tbl = Top PROVE StackInv(<<f>>) /\ DescentInv(<<f>>)
    <2>1. DOMAIN <<f>> = {1} /\ <<f>>[1] = f
      OBVIOUS
    <2> QED
      BY <1>2, <2>1 DEF StackInv, DescentInv
  <1>3. ASSUME NEW F, NEW f \in F PROVE <<f>> \in Seq(F)
    OBVIOUS
  <1>4. <<[tbl |-> Top, i |-> 1]>> \in Seq(BuildFrames) /\ StackInv(<<[tbl |-> Top, i |-> 1]>>)
    <2> DEFINE f == [tbl |-> Top, i |-> 1]
    <2>1. f \in BuildFrames /\ f.tbl = Top
      BY <1>1
    <2> HIDE DEF f
    <2>2. <<f>> \in Seq(BuildFrames) /\ StackInv(<<f>>)
      BY <1>2, <1>3, <2>1
    <2> QED
      BY <2>2 DEF f
  <1>5. ASSUME NEW x \in Int
        PROVE  /\ <<[tbl |-> Top, at |-> x]>> \in Seq(WalkFrames)
               /\ StackInv(<<[tbl |-> Top, at |-> x]>>) /\ DescentInv(<<[tbl |-> Top, at |-> x]>>)
    <2> DEFINE f == [tbl |-> Top, at |-> x]
    <2>1. f \in WalkFrames /\ f.tbl = Top
      BY <1>1
    <2> HIDE DEF f
    <2>2. <<f>> \in Seq(WalkFrames) /\ StackInv(<<f>>) /\ DescentInv(<<f>>)
      BY <1>2, <1>3, <2>1
    <2> QED
      BY <2>2 DEF f
  <1> QED
    BY <1>4, <1>5

LEMMA StructInit ==
    ASSUME Init PROVE StructInv
  <1> USE DEF Init
  <1>1. graph \in [Groups -> Seq(Links)]
    BY VisitAssumption
  <1>2. call \in Calls
    BY DEF NoCall, Calls, Orders, Indexes
  <1>3. VisitTypeInv
    BY <1>1, <1>2, EmptyStack DEF VisitTypeInv
  <1>4. PhaseInv
    BY DEF PhaseInv, NoCall
  <1>5. TreeInv
    BY DEF TreeInv
  <1> QED
    BY <1>3, <1>4, <1>5, EmptyStack DEF StructInv

LEMMA StructCall ==
    ASSUME StructInv, NEW op \in Ops, NEW order \in Orders, NEW index \in Indexes,
           NEW how \in {"none", "zero", "again"}, Call(op, order, index, how)
    PROVE  StructInv'
  <1> USE DEF Call
  <1>1. walk = <<>> /\ build = <<>>
    BY DEF StructInv, PhaseInv
  <1>2. build' \in {<<>>, <<[tbl |-> Top, i |-> 1]>>} /\ (op = "H5Ovisit" => build' = <<>>)
    OBVIOUS
  <1>3. call' \in Calls /\ call'.op = op /\ call'.idx_p = (how # "none")
    BY DEF Calls
  <1>4. (op # "H5Literate" => ~call'.idx_p)
    BY <1>3
  <1>5. VisitTypeInv'
    <2>1. build' \in Seq(BuildFrames) /\ walk' \in Seq(WalkFrames)
      BY <1>1, <1>2, OneFrame, EmptyStack
    <2>2. log' \in Seq(Tables \X Nat) /\ idx' \in Int
      BY DEF StructInv, VisitTypeInv
    <2> QED
      BY <1>3, <2>1, <2>2 DEF StructInv, VisitTypeInv
  <1>6. PhaseInv'
    BY <1>1, <1>2, <1>3, <1>4 DEF PhaseInv, Recursive, Running
  <1>7. TreeInv'
    BY DEF TreeInv
  <1>8. StackInv(build)' /\ StackInv(walk)' /\ DescentInv(walk)'
    <2>1. StackInv(build)'
      <3>1. CASE build' = <<>>
        BY <3>1, EmptyStack DEF StackInv
      <3>2. CASE build' = <<[tbl |-> Top, i |-> 1]>>
        BY <3>2 DEF StackInv
      <3> QED
        BY <1>2, <3>1, <3>2
    <2>2. StackInv(walk)' /\ DescentInv(walk)'
      BY <1>1 DEF StackInv, DescentInv
    <2> QED
      BY <2>1, <2>2
  <1> QED
    BY <1>5, <1>6, <1>7, <1>8 DEF StructInv

\* What the tables are and what the call is does not change, only the stacks.
LEMMA StructSame ==
    ASSUME StructInv, UNCHANGED <<graph, call, subtable, visited_link_table>>,
           build' \in Seq(BuildFrames), StackInv(build'),
           walk' \in Seq(WalkFrames), StackInv(walk'), DescentInv(walk'),
           log' \in Seq(Tables \X Nat), idx' \in Int, out' \in {"none", "running", "ok", "failed"},
           build' # <<>> \/ walk' # <<>> => out' = "running",
           build' = <<>> \/ walk' = <<>>,
           call.op = "H5Ovisit" /\ log' = <<>> => build' = <<>> /\ walk' = <<>>
    PROVE  StructInv'
  <1>1. VisitTypeInv'
    BY DEF StructInv, VisitTypeInv
  <1>2. PhaseInv'
    BY DEF StructInv, PhaseInv, Recursive, Running
  <1>3. TreeInv'
    BY DEF StructInv, TreeInv, Known, Entries, LinkOf, Child, GroupOf, Recursive
  <1>4. StackInv(build)' /\ StackInv(walk)'
    BY DEF StackInv
  <1>5. DescentInv(walk)'
    BY DEF DescentInv, EntryOf, Child, LinkOf, Size, Sorted, GroupOf
  <1> QED
    BY <1>1, <1>2, <1>3, <1>4, <1>5 DEF StructInv

LEMMA StructBuildEntry ==
    ASSUME StructInv, BuildEntry PROVE StructInv'
  <1> USE DEF BuildEntry
  <1>1. /\ build # <<>> /\ walk = <<>> /\ VisitTypeInv /\ TreeInv /\ StackInv(build)
        /\ out = "running" /\ (call.op = "H5Ovisit" => log # <<>>)
    BY DEF StructInv, PhaseInv, AtLink, Running
  <1>2. /\ StackInv(walk') /\ DescentInv(walk') /\ walk' \in Seq(WalkFrames) /\ walk' = <<>>
        /\ log' \in Seq(Tables \X Nat) /\ idx' \in Int /\ out' = "running"
    BY <1>1, EmptyStack DEF VisitTypeInv
  <1>3. CASE ~Follows
    <2>1. build' = Advance(build) /\ UNCHANGED <<graph, call, subtable, visited_link_table, log>>
      BY <1>3
    <2>2. build' \in Seq(BuildFrames) /\ StackInv(build')
      BY <1>1, <2>1, BuildGoesOn
    <2> QED
      BY <1>1, <1>2, <2>1, <2>2, StructSame
  <1>4. CASE Follows
    <2> DEFINE g == Link.to
               e == <<Frame.tbl, Frame.i>>
    <2>1. /\ Frame \in BuildFrames /\ Frame.tbl \in Tables /\ Frame.i \in Nat \ {0}
          /\ Frame.i <= Size(Frame.tbl) /\ Frame.tbl \in Known
      <3>1. build \in Seq(BuildFrames)
        BY <1>1 DEF VisitTypeInv
      <3>2. Frame = build[Len(build)] /\ Frame \in BuildFrames /\ Len(build) \in DOMAIN build
        BY <1>1, <3>1, StackOps DEF Frame
      <3>3. Frame.tbl \in Known
        <4> DEFINE n == Len(build)
        <4> HIDE DEF n
        <4>1. n \in DOMAIN build /\ Frame = build[n]
          BY <3>2 DEF n
        <4> QED
          BY <1>1, <4>1 DEF StackInv, Known
      <3> QED
        BY <3>2, <3>3 DEF BuildFrames, AtLink
    <2>2. /\ Frame.i \in Entries(Frame.tbl) /\ LinkOf(e) = Link /\ Link \in Links /\ Child(e) = g
      <3>1. Frame.i \in Entries(Frame.tbl) /\ LinkOf(e) \in Links
        BY <1>1, <2>1, TableType DEF VisitTypeInv
      <3>2. LinkOf(e) = Link
        BY DEF LinkOf, Link
      <3> QED
        BY <3>1, <3>2 DEF Child
    <2>3. g \in Groups /\ g \notin visited_link_table /\ Link.kind = "group" /\ Recursive
      BY <1>4, <2>2, LinkType DEF Follows
    <2>4. visited_link_table' = visited_link_table \union {g} /\ UNCHANGED <<graph, call, out, log, idx, walk>>
      BY <1>4
    <2> HIDE DEF g
    <2>5. build' \in Seq(BuildFrames) /\ StackInv(build)' /\ subtable' \in {subtable, subtable \union {e}}
      <3>1. CASE build' = Advance(build) /\ UNCHANGED subtable
        <4>1. StackInv(Advance(build)) /\ build' \in Seq(BuildFrames)
          BY <1>1, <3>1, BuildGoesOn
        <4> QED
          BY <2>4, <3>1, <4>1 DEF StackInv
      <3>2. CASE /\ build' = Append(Advance(build), [tbl |-> g, i |-> 1])
                 /\ subtable' = subtable \union {e}
        BY <1>1, <2>3, <2>4, <3>2, BuildIntoSubgroup
      <3> QED
        BY <1>4, <3>1, <3>2 DEF g
    <2>6. \A f \in subtable : Child(f) # g
      BY <1>1, <2>3 DEF TreeInv
    <2>7. VisitTypeInv'
      <3>1. e \in Tables \X Nat
        BY <2>1
      <3> HIDE DEF e
      <3> QED
        BY <1>1, <1>2, <2>3, <2>4, <2>5, <3>1 DEF VisitTypeInv
    <2>8. PhaseInv'
      BY <1>1, <1>2, <2>4 DEF StructInv, PhaseInv, Recursive, Running
    <2>9. TreeInv'
      <3>1. PICK t \in Tables, k \in Nat : t = Frame.tbl /\ k = Frame.i
        BY <2>1
      <3> DEFINE n == <<t, k>>
      <3>2. e = n /\ n[1] = t /\ n[2] = k
        BY <3>1
      <3>3. t \in Known /\ k \in Entries(t) /\ LinkOf(n).kind = "group" /\ Child(n) = g
        BY <2>1, <2>2, <2>3, <3>1, <3>2
      <3> HIDE DEF e, n
      <3>4. \A f \in subtable' : f \in subtable \/ f = n
        BY <2>5, <3>2
      <3>5. ASSUME NEW f
            PROVE  Child(f)' = Child(f) /\ LinkOf(f)' = LinkOf(f) /\ Entries(f[1])' = Entries(f[1])
        BY <2>4 DEF Child, LinkOf, Entries, GroupOf
      <3>6. \A f \in subtable : /\ f[1] \in Known /\ f[2] \in Entries(f[1])
                                /\ LinkOf(f).kind = "group" /\ Child(f) \in visited_link_table
        BY <1>1 DEF TreeInv
      <3>7. Known \subseteq Known' /\ visited_link_table \subseteq visited_link_table'
            /\ g \in visited_link_table'
        BY <2>4 DEF Known
      <3>8. ASSUME NEW f \in subtable'
            PROVE  /\ f[1] \in Known' /\ f[2] \in Entries(f[1])'
                   /\ LinkOf(f)'.kind = "group" /\ Child(f)' \in visited_link_table'
        <4>1. f[1] \in Known /\ f[2] \in Entries(f[1]) /\ LinkOf(f).kind = "group"
              /\ Child(f) \in visited_link_table \union {g}
          BY <3>2, <3>3, <3>4, <3>6
        <4> QED
          BY <3>5, <3>7, <4>1
      <3>9. ASSUME NEW f \in subtable', NEW h \in subtable', Child(f)' = Child(h)' PROVE f = h
        <4>1. Child(f) = Child(h)
          BY <3>5, <3>9
        <4>2. f \in subtable /\ h \in subtable => f = h
          BY <1>1, <4>1 DEF TreeInv
        <4> QED
          BY <2>6, <3>3, <3>4, <4>1, <4>2
      <3>10. Recursive'
        BY <2>3, <2>4 DEF Recursive
      <3> QED
        BY <3>8, <3>9, <3>10 DEF TreeInv
    <2>10. StackInv(walk)' /\ DescentInv(walk)'
      BY <1>1, <2>4 DEF StackInv, DescentInv
    <2> QED
      BY <2>5, <2>7, <2>8, <2>9, <2>10 DEF StructInv
  <1> QED
    BY <1>3, <1>4

LEMMA StructTableBuilt ==
    ASSUME StructInv, TableBuilt PROVE StructInv'
  <1> USE DEF TableBuilt
  <1>1. /\ build # <<>> /\ walk = <<>> /\ VisitTypeInv /\ StackInv(build)
        /\ out = "running" /\ (call.op = "H5Ovisit" => log # <<>>)
        /\ log \in Seq(Tables \X Nat) /\ idx \in Int
    BY DEF StructInv, PhaseInv, Running, VisitTypeInv
  <1>2. UNCHANGED <<graph, call, subtable, visited_link_table, log, idx>>
    OBVIOUS
  <1>3. Begin(Top) \in Int
    BY <1>1, StepsAreInt DEF Tables
  <1>4. CASE build' = Front(build) /\ UNCHANGED <<walk, out>>
    <2>1. build' \in Seq(BuildFrames) /\ StackInv(build')
      BY <1>1, <1>4, BuildWithoutLast
    <2>2. walk' = <<>>
      BY <1>1, <1>4
    <2>3. walk' \in Seq(WalkFrames) /\ StackInv(walk') /\ DescentInv(walk')
      BY <2>2, EmptyStack
    <2> QED
      BY <1>1, <1>2, <1>4, <2>1, <2>2, <2>3, StructSame
  <1>5. CASE Returns("ok")
    <2>1. build' = <<>> /\ walk' = <<>> /\ out' = "ok"
      BY <1>5 DEF Returns
    <2> QED
      BY <1>1, <1>2, <2>1, EmptyStack, StructSame
  <1>6. CASE build' = <<>> /\ walk' = <<[tbl |-> Top, at |-> Begin(Top)]>> /\ UNCHANGED out
    <2>1. walk' \in Seq(WalkFrames) /\ StackInv(walk') /\ DescentInv(walk')
      BY <1>3, <1>6, OneFrame
    <2> QED
      BY <1>1, <1>2, <1>6, <2>1, EmptyStack, StructSame
  <1> QED
    BY <1>4, <1>5, <1>6

LEMMA StructReturns ==
    ASSUME StructInv, NEW r \in {"ok", "failed"}, Returns(r),
           UNCHANGED <<graph, call, subtable, visited_link_table, idx>>, log' \in Seq(Tables \X Nat)
    PROVE  StructInv'
  <1>1. build' = <<>> /\ walk' = <<>> /\ out' = r /\ idx' \in Int
    BY DEF Returns, StructInv, VisitTypeInv
  <1> QED
    BY <1>1, EmptyStack, StructSame

LEMMA StructReportStart ==
    ASSUME StructInv, NEW r \in Results, ReportStart(r) PROVE StructInv'
  <1>1. /\ walk = <<>> /\ out = "running" /\ idx \in Int
        /\ UNCHANGED <<graph, call, subtable, visited_link_table, idx>>
    BY DEF ReportStart, StructInv, PhaseInv, VisitTypeInv, Running
  <1>2. log' = <<<<Top, 0>>>> /\ log' # <<>> /\ log' \in Seq(Tables \X Nat)
    <2>1. <<Top, 0>> \in Tables \X Nat /\ log' = <<<<Top, 0>>>>
      BY DEF Tables, ReportStart
    <2> DEFINE e == <<Top, 0>>
    <2>2. e \in Tables \X Nat /\ log' = <<e>>
      BY <2>1
    <2> HIDE DEF e
    <2> QED
      BY <2>2 DEF e
  <1>3. CASE r = 0
    <2>1. build' = <<[tbl |-> Top, i |-> 1]>> /\ UNCHANGED <<walk, out>>
      BY <1>3 DEF ReportStart
    <2>2. build' \in Seq(BuildFrames) /\ StackInv(build')
      BY <2>1, OneFrame
    <2>3. walk' = <<>> /\ walk' \in Seq(WalkFrames) /\ StackInv(walk') /\ DescentInv(walk')
      BY <1>1, <2>1, EmptyStack
    <2> QED
      BY <1>1, <1>2, <2>1, <2>2, <2>3, StructSame
  <1>4. CASE r # 0
    <2>1. PICK o \in {"ok", "failed"} : Returns(o)
      BY <1>4 DEF ReportStart
    <2> QED
      BY <1>1, <1>2, <2>1, StructReturns
  <1> QED
    BY <1>3, <1>4

LEMMA StructWalkStep ==
    ASSUME StructInv, walk # <<>>,
           (AtEntry /\ GoesOn) \/ \E last_idx \in Int : FrameReturns(walk, last_idx),
           UNCHANGED <<graph, call, subtable, visited_link_table>>,
           log' \in Seq(Tables \X Nat), log' = <<>> => log = <<>>
    PROVE  StructInv'
  <1>1. out = "running" /\ (call.op = "H5Ovisit" => log # <<>>) /\ idx \in Int
    BY DEF StructInv, PhaseInv, Running, VisitTypeInv
  <1>2. CASE AtEntry /\ GoesOn
    <2>1. /\ walk' \in Seq(WalkFrames) /\ StackInv(walk') /\ DescentInv(walk')
          /\ build' = <<>> /\ out' = "running"
      BY <1>1, <1>2, GoesOnKeeps
    <2>2. idx' = idx
      BY <1>2 DEF GoesOn
    <2> QED
      BY <1>1, <2>1, <2>2, EmptyStack, StructSame
  <1>3. ASSUME NEW last_idx \in Int, FrameReturns(walk, last_idx) PROVE StructInv'
    <2>1. /\ walk' \in Seq(WalkFrames) /\ StackInv(walk') /\ DescentInv(walk')
          /\ build' = <<>> /\ (walk' # <<>> => out' = "running") /\ out' \in {"running", "ok"}
          /\ idx' \in Int
      BY <1>1, <1>3, FrameReturnsKeeps
    <2> QED
      BY <1>1, <2>1, EmptyStack, StructSame
  <1> QED
    BY <1>2, <1>3

LEMMA StructReport ==
    ASSUME StructInv, NEW r \in Results, Report(r) PROVE StructInv'
  <1>1. /\ walk # <<>> /\ AtEntry /\ VisitTypeInv
        /\ UNCHANGED <<graph, call, subtable, visited_link_table>>
    BY DEF Report, AtEntry, StructInv
  <1>2. log' \in Seq(Tables \X Nat) /\ (log' = <<>> => log = <<>>)
    <2>1. Entry \in Nat /\ Here.tbl \in Tables
      <3>1. Here.tbl \in Tables /\ Here.at \in 0..(Size(Here.tbl) - 1) /\ Size(Here.tbl) \in Nat
        BY <1>1, HereIs DEF AtEntry
      <3>2. Sorted(Here.tbl) \in [Entries(Here.tbl) -> Entries(Here.tbl)]
            /\ Entries(Here.tbl) = 1..Size(Here.tbl)
        BY <1>1, <3>1, SortedIs, TableType DEF VisitTypeInv, Sorted, Bijection, Injection
      <3> QED
        BY <3>1, <3>2 DEF Entry
    <2> DEFINE e == <<Here.tbl, Entry>>
    <2>2. e \in Tables \X Nat /\ log' = Append(log, e) /\ log \in Seq(Tables \X Nat)
      BY <1>1, <2>1 DEF Report, VisitTypeInv
    <2> HIDE DEF e
    <2> QED
      BY <2>2, StackPush
  <1>3. CASE r < 0 /\ Returns("failed") /\ UNCHANGED idx
    BY <1>1, <1>2, <1>3, StructReturns
  <1>4. CASE FrameReturns(walk, Here.at)
    <2>1. Here.at \in Int
      BY <1>1, HereIs
    <2> QED
      BY <1>1, <1>2, <1>4, <2>1, StructWalkStep
  <1>5. CASE GoesOn
    BY <1>1, <1>2, <1>5, StructWalkStep
  <1> QED
    BY <1>3, <1>4, <1>5 DEF Report

LEMMA StructNext ==
    ASSUME StructInv, [Next]_vars PROVE StructInv'
  <1>1. VisitTypeInv
    BY DEF StructInv
  <1>2. ASSUME BuildFails PROVE StructInv'
    BY <1>1, <1>2, StructReturns DEF BuildFails, VisitTypeInv
  <1>3. ASSUME Skips PROVE StructInv'
    BY <1>1, <1>3, StructWalkStep DEF Skips, AtEntry, VisitTypeInv
  <1>4. ASSUME TableDone PROVE StructInv'
    <2>1. Here.at \in Int /\ walk # <<>>
      BY <1>1, <1>4, HereIs DEF TableDone
    <2>2. PICK last_idx \in Int : FrameReturns(walk, last_idx)
      BY <1>4, <2>1 DEF TableDone
    <2> QED
      BY <1>1, <1>4, <2>1, <2>2, StructWalkStep DEF TableDone, VisitTypeInv
  <1>5. ASSUME UNCHANGED vars PROVE StructInv'
    BY <1>5, StructSame DEF vars, StructInv, PhaseInv, VisitTypeInv, Running
  <1> QED
    BY <1>2, <1>3, <1>4, <1>5, StructCall, StructBuildEntry, StructTableBuilt, StructReportStart,
       StructReport DEF Next

\* A stack without two frames of one table is no longer than there are tables.
LEMMA StackIsShort ==
    ASSUME NEW s, Len(s) \in Nat, DOMAIN s = 1..Len(s), StackInv(s),
           \A n \in DOMAIN s : s[n].tbl \in Tables
    PROVE  Len(s) <= Cardinality(Groups) + 1
  <1> DEFINE f == [n \in 1..Len(s) |-> s[n].tbl]
  <1>1. f \in Injection(1..Len(s), Tables)
    BY DEF StackInv, Injection, IsInjective
  <1>2. IsFiniteSet(Tables) /\ Cardinality(Tables) = Cardinality(Groups) + 1
    <2>1. Tables = Groups \cup {Top} /\ Top \notin Groups /\ IsFiniteSet(Groups)
      BY TopIsNoGroup, VisitAssumption
    <2> QED
      BY <2>1, FS_AddElement
  <1>3. Cardinality(1..Len(s)) <= Cardinality(Tables)
    <2> HIDE DEF f
    <2> QED
      BY <1>1, <1>2, FS_Injection
  <1>4. Cardinality(1..Len(s)) = Len(s)
    <2>1. 1 \in Int /\ Len(s) \in Int
      OBVIOUS
    <2>2. Cardinality(1..Len(s)) = IF 1 > Len(s) THEN 0 ELSE Len(s) - 1 + 1
      BY <2>1, FS_Interval
    <2> QED
      BY <2>2
  <1> QED
    BY <1>2, <1>3, <1>4

LEMMA StructBoundsDescent ==
    ASSUME StructInv PROVE DescentEnds
  <1>1. build \in Seq(BuildFrames) /\ walk \in Seq(WalkFrames) /\ StackInv(build) /\ StackInv(walk)
    BY DEF StructInv, VisitTypeInv
  <1>2. /\ Len(build) \in Nat /\ DOMAIN build = 1..Len(build)
        /\ Len(walk) \in Nat /\ DOMAIN walk = 1..Len(walk)
    BY <1>1, LenProperties
  <1>3. \A n \in DOMAIN build : build[n].tbl \in Tables
    <2>1. \A n \in 1..Len(build) : build[n] \in BuildFrames
      BY <1>1, ElementOfSeq
    <2> QED
      BY <1>2, <2>1 DEF BuildFrames
  <1>4. \A n \in DOMAIN walk : walk[n].tbl \in Tables
    <2>1. \A n \in 1..Len(walk) : walk[n] \in WalkFrames
      BY <1>1, ElementOfSeq
    <2> QED
      BY <1>2, <2>1 DEF WalkFrames
  <1> QED
    BY <1>1, <1>2, <1>3, <1>4, StackIsShort DEF DescentEnds

\* What RV_build_..._table and RV_traverse_..._table keep: the tables are a
\* tree below that of the start, and both stacks are paths of it.
THEOREM StructTheorem == Spec => []StructInv
  <1>1. Init => StructInv
    BY StructInit
  <1>2. StructInv /\ [Next]_vars => StructInv'
    BY StructNext
  <1> QED
    BY <1>1, <1>2, PTL DEF Spec

\* Whatever the links, the recursion is no deeper than the file has groups:
\* neither RV_build_..._table nor RV_traverse_..._table has two levels for
\* one table.
THEOREM DescentEndsTheorem == Spec => []DescentEnds
  <1>1. StructInv => DescentEnds
    BY StructBoundsDescent
  <1> QED
    BY <1>1, StructTheorem, PTL

(***************************************************************************)
(* The index an application passes back in                                 *)
(***************************************************************************)

\* The first n entries of the group, in the order the index counts them, have
\* been delivered.
Series == SortedBy(series[2], graph[Start])
Delivered(n) == \A q \in DOMAIN graph[Start] : q <= n => Series[q] \in covered

\* What comes before the index, and, in a call that has one, before the
\* position of the walk, has been delivered.
IndexInv ==
    /\ idx \in Nat /\ covered \subseteq Entries(Top)
    /\ series[1] = "inc" => Delivered(idx)
    /\ call.idx_p => series = <<call.order, call.index>>
    /\ call.order = "inc" =>
          \A n \in DOMAIN walk : walk[n].at >= 0 /\ (call.idx_p => Delivered(walk[n].at))
    /\ ResumeCovers

LEMMA GoesOnIs ==
    ASSUME StructInv, AtEntry, GoesOn, NEW l, l = Len(walk)
    PROVE  /\ l \in Nat \ {0} /\ idx' = idx /\ out' = out
           /\ \/ /\ EntryOf(Here) \in subtable /\ DOMAIN walk' = 1..(l + 1) /\ Len(walk') = l + 1
                 /\ \A n \in 1..l : walk'[n] = walk[n]
                 /\ walk'[l + 1] = [tbl |-> Child(EntryOf(Here)), at |-> Begin(Child(EntryOf(Here)))]
              \/ /\ EntryOf(Here) \notin subtable /\ DOMAIN walk' = 1..l /\ Len(walk') = l
                 /\ \A n \in 1..(l - 1) : walk'[n] = walk[n]
                 /\ walk'[l] = [tbl |-> Here.tbl, at |-> NextAt(Here.at)]
  <1>1. VisitTypeInv /\ TreeInv /\ walk # <<>>
    BY DEF StructInv, AtEntry
  <1>2. /\ Here = walk[l] /\ walk \in Seq(WalkFrames) /\ l \in Nat \ {0} /\ Here.tbl \in Tables
        /\ Here.at \in Int
    BY <1>1, HereIs
  <1>3. CASE EntryOf(Here) \in subtable
    <2> DEFINE f == [tbl |-> Child(EntryOf(Here)), at |-> Begin(Child(EntryOf(Here)))]
    <2>1. walk' = Append(walk, f)
      BY <1>1, <1>3, HereIs DEF GoesOn, Child
    <2>2. Child(EntryOf(Here)) \in Tables
      BY <1>1, <1>3 DEF TreeInv, VisitTypeInv, Tables
    <2>3. f \in WalkFrames
      BY <1>1, <2>2, StepsAreInt DEF WalkFrames
    <2> HIDE DEF f
    <2>4. /\ Len(Append(walk, f)) = l + 1
          /\ DOMAIN Append(walk, f) = 1..(l + 1)
          /\ \A n \in 1..l : Append(walk, f)[n] = walk[n]
          /\ Append(walk, f)[l + 1] = f
      BY <1>2, <2>3, StackPush
    <2>5. idx' = idx /\ out' = out
      BY DEF GoesOn
    <2> QED
      BY <1>2, <1>3, <2>1, <2>4, <2>5 DEF f
  <1>4. CASE EntryOf(Here) \notin subtable
    <2>1. walk' = [walk EXCEPT ![Len(walk)].at = NextAt(walk[Len(walk)].at)] /\ idx' = idx /\ out' = out
      BY <1>1, <1>4, HereIs DEF GoesOn
    <2>2. NextAt(walk[Len(walk)].at) \in Int
      BY <1>1, <1>2, StepsAreInt
    <2>3. PICK s, x : s = walk /\ x = NextAt(walk[Len(walk)].at)
      OBVIOUS
    <2>4. PICK t : t = [s EXCEPT ![Len(s)].at = x]
      OBVIOUS
    <2>5. s \in Seq(WalkFrames) /\ s # <<>> /\ x \in Int
      BY <1>1, <1>2, <2>2, <2>3
    <2>6. /\ DOMAIN t = 1..Len(s) /\ Len(t) = Len(s)
          /\ \A n \in 1..(Len(s) - 1) : t[n] = s[n]
          /\ t[Len(s)] = [tbl |-> s[Len(s)].tbl, at |-> x]
      BY ONLY <2>4, <2>5, WalkFrameMovesTo, SMTT(90)
    <2>7. walk' = t /\ idx' = idx /\ out' = out
      BY <2>1, <2>3, <2>4
    <2> QED
      BY <1>2, <1>4, <2>3, <2>6, <2>7
  <1> QED
    BY <1>3, <1>4

LEMMA FrameReturnsIs ==
    ASSUME StructInv, walk # <<>>, NEW last_idx, FrameReturns(walk, last_idx), NEW l, l = Len(walk)
    PROVE  /\ l \in Nat \ {0}
           /\ \/ l = 1 /\ DOMAIN walk' = {} /\ walk' = <<>> /\ out' = "ok" /\ idx' = KeptIndex(last_idx)
              \/ /\ l > 1 /\ DOMAIN walk' = 1..(l - 1) /\ Len(walk') = l - 1
                 /\ \A n \in 1..(l - 2) : walk'[n] = walk[n]
                 /\ walk'[l - 1] = [tbl |-> walk[l - 1].tbl, at |-> NextAt(walk[l - 1].at)]
                 /\ idx' = idx /\ out' = out
  <1>1. VisitTypeInv /\ walk \in Seq(WalkFrames) /\ l \in Nat \ {0}
    BY HereIs DEF StructInv
  <1>2. CASE l = 1
    BY <1>1, <1>2 DEF FrameReturns, Returns
  <1>3. CASE l # 1
    <2> DEFINE f == Front(walk)
               k == l - 1
    <2>1. /\ f \in Seq(WalkFrames) /\ Len(f) = k /\ \A n \in 1..k : f[n] = walk[n]
      BY <1>1, StackOps
    <2>2. k \in Nat \ {0} /\ l > 1 /\ l - 1 = k /\ l - 2 = k - 1
      BY <1>1, <1>3
    <2>3. f # <<>>
      BY <2>1, <2>2, EmptySeq
    <2>4. walk' = [f EXCEPT ![k].at = NextAt(f[k].at)] /\ idx' = idx /\ out' = out
      BY <1>3 DEF FrameReturns
    <2> HIDE DEF f, k
    <2>5. f[k] = walk[k] /\ f[k] \in WalkFrames
      <3>1. k \in 1..k
        BY <2>2
      <3> QED
        BY <2>1, <2>3, <3>1, StackOps
    <2>6. NextAt(f[k].at) \in Int
      BY <1>1, <2>5, StepsAreInt DEF WalkFrames
    <2>7. /\ DOMAIN walk' = 1..k /\ Len(walk') = k
          /\ \A n \in 1..(k - 1) : walk'[n] = f[n]
          /\ walk'[k] = [tbl |-> f[k].tbl, at |-> NextAt(f[k].at)]
      <3> DEFINE x == NextAt(f[k].at)
      <3>1. walk' = [f EXCEPT ![Len(f)].at = x] /\ x \in Int
        BY <2>1, <2>4, <2>6
      <3> HIDE DEF x
      <3> DEFINE t == [f EXCEPT ![Len(f)].at = x]
      <3>2. /\ DOMAIN t = 1..Len(f) /\ Len(t) = Len(f)
            /\ \A n \in 1..(Len(f) - 1) : t[n] = f[n]
            /\ t[Len(f)] = [tbl |-> f[Len(f)].tbl, at |-> x]
        <4>1. f \in Seq(WalkFrames) /\ f # <<>> /\ x \in Int
          BY <2>1, <2>3, <3>1
        <4>2. t = [f EXCEPT ![Len(f)].at = x]
          OBVIOUS
        <4> HIDE DEF t
        <4> QED
          BY ONLY <4>1, <4>2, WalkFrameMovesTo, SMTT(90)
      <3>3. walk' = t
        BY <3>1
      <3> HIDE DEF t
      <3> QED
        BY <2>1, <3>2, <3>3 DEF x
    <2>8. \A n \in 1..(k - 1) : walk'[n] = walk[n]
      <3>1. \A n \in 1..(k - 1) : n \in 1..k
        BY <2>2
      <3> QED
        BY <2>1, <2>7, <3>1
    <2> QED
      BY <1>1, <2>2, <2>4, <2>5, <2>7, <2>8
  <1> QED
    BY <1>2, <1>3

\* A walk with an index of the application's is of one table.
LEMMA IndexedWalk ==
    ASSUME StructInv, call.idx_p, walk # <<>>
    PROVE  /\ Len(walk) = 1 /\ Here.tbl = Top /\ Here = walk[1] /\ subtable = {}
           /\ call.op = "H5Literate" /\ Begin(Top) = idx
  <1>1. ~Recursive /\ subtable = {} /\ VisitTypeInv
    BY DEF StructInv, PhaseInv, TreeInv
  <1>2. Len(walk) \in Nat \ {0} /\ DOMAIN walk = 1..Len(walk) /\ Here = walk[Len(walk)]
    BY <1>1, HereIs
  <1>3. Len(walk) = 1
    <2> SUFFICES ASSUME Len(walk) > 1 PROVE FALSE
      BY <1>2
    <2>1. 1 \in DOMAIN walk /\ 1 + 1 \in DOMAIN walk
      BY <1>2
    <2> QED
      BY <1>1, <2>1 DEF StructInv, DescentInv
  <1>4. Here.tbl = Top
    BY <1>2, <1>3 DEF StructInv, StackInv
  <1> QED
    BY <1>1, <1>2, <1>3, <1>4 DEF Recursive, Begin

\* The entry a walk is at.
LEMMA EntryIs ==
    ASSUME VisitTypeInv, AtEntry
    PROVE  /\ Entry \in Entries(Here.tbl) /\ Here.at + 1 \in Entries(Here.tbl) /\ Here.at \in Nat
           /\ Here.tbl \in Tables /\ Entry \in Nat
  <1>1. Here.tbl \in Tables /\ Here.at \in 0..(Size(Here.tbl) - 1) /\ Size(Here.tbl) \in Nat
    BY HereIs DEF AtEntry
  <1>2. Sorted(Here.tbl) \in [Entries(Here.tbl) -> Entries(Here.tbl)]
        /\ Entries(Here.tbl) = 1..Size(Here.tbl)
    BY <1>1, SortedIs, TableType DEF VisitTypeInv, Sorted, Bijection, Injection
  <1>3. Here.at + 1 \in Entries(Here.tbl) /\ Here.at \in Nat
    BY <1>1, <1>2
  <1> QED
    BY <1>1, <1>2, <1>3 DEF Entry

LEMMA TopIs ==
    ASSUME VisitTypeInv
    PROVE  /\ Top \in Tables /\ Entries(Top) = DOMAIN graph[Start] /\ Entries(Top) = 1..Size(Top)
           /\ Size(Top) \in Nat /\ Series \in Bijection(Entries(Top), Entries(Top))
           /\ series[2] = call.index => Sorted(Top) = Series
  <1>1. Top \in Tables /\ GroupOf(Top) = Start
    BY DEF Tables, GroupOf
  <1>2. Entries(Top) = 1..Size(Top) /\ Size(Top) \in Nat
    BY <1>1, TableType DEF VisitTypeInv
  <1>3. SortedBy(series[2], graph[GroupOf(Top)]) \in Bijection(Entries(Top), Entries(Top))
    BY <1>1, SortedIs DEF VisitTypeInv
  <1> QED
    BY <1>1, <1>2, <1>3 DEF Entries, Series, Sorted

LEMMA IndexInit ==
    ASSUME Init PROVE IndexInv
  <1> USE DEF Init
  <1>1. StructInv
    BY StructInit
  <1>2. \A q \in DOMAIN graph[Start] : ~(q <= 0)
    BY <1>1, TopIs DEF StructInv
  <1>3. DOMAIN walk = {}
    OBVIOUS
  <1> QED
    BY <1>2, <1>3 DEF IndexInv, Delivered, NoCall, ResumeCovers, ToTheEnd

\* Nothing is delivered and the stack of the walk is empty or just begun.
LEMMA IndexSame ==
    ASSUME StructInv, IndexInv, UNCHANGED <<graph, call, idx, series, covered>>,
           walk' = <<>> \/ walk' = <<[tbl |-> Top, at |-> Begin(Top)]>>,
           ToTheEnd' => Size(Top) = 0 \/ call.op # "H5Literate" \/ ToTheEnd
    PROVE  IndexInv'
  <1>1. /\ Entries(Top) = DOMAIN graph[Start] /\ Entries(Top) = 1..Size(Top) /\ Size(Top) \in Nat
        /\ call \in Calls
    BY TopIs DEF StructInv, VisitTypeInv
  <1>2. /\ idx \in Nat /\ covered \subseteq Entries(Top)
        /\ series[1] = "inc" => Delivered(idx)
        /\ call.idx_p => series = <<call.order, call.index>>
    BY DEF IndexInv
  <1>3. ASSUME NEW n PROVE Delivered(n)' = Delivered(n)
    BY DEF Delivered, Series
  <1>4. call.order = "inc" =>
          \A n \in DOMAIN walk' : walk'[n].at >= 0 /\ (call.idx_p => Delivered(walk'[n].at))
    <2>1. CASE walk' = <<>>
      BY <2>1
    <2>2. CASE walk' = <<[tbl |-> Top, at |-> Begin(Top)]>>
      <3>1. DOMAIN walk' = {1} /\ walk'[1].at = Begin(Top)
        BY <2>2
      <3>2. call.order = "inc" => Begin(Top) >= 0 /\ (call.idx_p => Delivered(Begin(Top)))
        BY <1>2 DEF Begin
      <3> QED
        BY <3>1, <3>2
    <2> QED
      BY <2>1, <2>2
  <1>5. ResumeCovers'
    <2>1. Size(Top) = 0 => covered = {} /\ DOMAIN graph[Start] = {}
      BY <1>1, <1>2
    <2> QED
      BY <2>1 DEF IndexInv, ResumeCovers, ToTheEnd
  <1>6. Entries(Top)' = Entries(Top)
    BY DEF Entries, GroupOf
  <1> QED
    BY <1>2, <1>3, <1>4, <1>5, <1>6 DEF IndexInv, Delivered, Series

LEMMA IndexCall ==
    ASSUME StructInv, IndexInv, NEW op \in Ops, NEW order \in Orders, NEW index \in Indexes,
           NEW how \in {"none", "zero", "again"}, Call(op, order, index, how)
    PROVE  IndexInv'
  <1>1. /\ walk' = <<>> /\ out' = "running" /\ graph' = graph
        /\ call' = [op |-> op, order |-> order, index |-> index, idx_p |-> how # "none"]
    BY DEF Call, StructInv, PhaseInv
  <1>2. DOMAIN walk' = {}
    BY <1>1
  <1>3. \A q \in DOMAIN graph[Start] : ~(q <= 0)
    BY TopIs DEF StructInv
  <1>4. ResumeCovers'
    BY <1>1 DEF ResumeCovers, ToTheEnd
  <1>5. CASE how = "zero"
    <2>1. idx' = 0 /\ covered' = {} /\ series' = <<order, index>>
      BY <1>5 DEF Call
    <2> QED
      BY <1>1, <1>2, <1>3, <1>4, <2>1 DEF IndexInv, Delivered
  <1>6. CASE how # "zero"
    <2>1. UNCHANGED <<idx, covered, series>> /\ (how = "again" => series = <<order, index>>)
      BY <1>6 DEF Call
    <2>2. how # "none" => series = <<order, index>>
      BY <1>6, <2>1
    <2> QED
      BY <1>1, <1>2, <1>4, <2>1, <2>2 DEF IndexInv, Delivered, Series, Entries, GroupOf
  <1> QED
    BY <1>5, <1>6

\* The walk goes on: with an index, to the next entry of the only table.
LEMMA IndexGoesOn ==
    ASSUME StructInv, IndexInv, AtEntry, GoesOn, UNCHANGED <<graph, call, series>>,
           call.idx_p => covered' = covered \union {Entry}, ~call.idx_p => covered' = covered
    PROVE  IndexInv'
  <1> DEFINE l == Len(walk)
  <1>1. VisitTypeInv /\ walk # <<>> /\ out = "running"
    BY DEF StructInv, AtEntry, PhaseInv, Running
  <1>2. /\ Entry \in Entries(Here.tbl) /\ Here.at \in Nat /\ Here.tbl \in Tables
        /\ Here.at + 1 \in Entries(Here.tbl)
    BY <1>1, EntryIs
  <1>3. call.idx_p => /\ l = 1 /\ Here.tbl = Top /\ subtable = {} /\ Here = walk[1]
    BY <1>1, IndexedWalk
  <1>4. covered \subseteq covered' /\ covered' \subseteq Entries(Top)
    BY <1>2, <1>3 DEF IndexInv
  <1>5. ASSUME NEW n, Delivered(n) PROVE Delivered(n)'
    BY <1>4, <1>5 DEF Delivered, Series
  <1>6. idx' = idx /\ out' = out
    BY DEF GoesOn
  <1>7. call.order = "inc" => \A n \in DOMAIN walk' : walk'[n].at >= 0
    <2> SUFFICES ASSUME call.order = "inc", NEW n \in DOMAIN walk' PROVE walk'[n].at >= 0
      OBVIOUS
    <2>1. \A k \in 1..l : walk[k].at >= 0
      BY <1>1, HereIs DEF IndexInv
    <2>2. CASE /\ EntryOf(Here) \in subtable /\ DOMAIN walk' = 1..(l + 1)
               /\ \A k \in 1..l : walk'[k] = walk[k]
               /\ walk'[l + 1] = [tbl |-> Child(EntryOf(Here)), at |-> Begin(Child(EntryOf(Here)))]
      <3>1. ~call.idx_p
        BY <1>3, <2>2
      <3>2. walk'[l + 1].at = 0
        BY <2>2, <3>1 DEF Begin
      <3>3. l \in Nat
        BY <1>1, HereIs
      <3>4. n = l + 1 \/ n \in 1..l
        BY <2>2, <3>3
      <3> QED
        BY <2>1, <2>2, <3>2, <3>4
    <2>3. CASE /\ DOMAIN walk' = 1..l
               /\ \A k \in 1..(l - 1) : walk'[k] = walk[k]
               /\ walk'[l] = [tbl |-> Here.tbl, at |-> NextAt(Here.at)]
      <3>1. walk'[l].at = Here.at + 1
        BY <2>3 DEF NextAt
      <3>2. l \in Nat
        BY <1>1, HereIs
      <3>3. n = l \/ (n \in 1..(l - 1) /\ n \in 1..l)
        BY <2>3, <3>2
      <3> QED
        BY <1>2, <2>1, <2>3, <3>1, <3>3
    <2> QED
      BY <2>2, <2>3, GoesOnIs
  <1>8. ASSUME call.idx_p, call.order = "inc", NEW n \in DOMAIN walk' PROVE Delivered(walk[n].at)'
    <2>1. /\ DOMAIN walk' = 1..1 /\ walk'[1] = [tbl |-> Here.tbl, at |-> NextAt(Here.at)]
      BY <1>3, <1>8, GoesOnIs
    <2>2. n = 1 /\ walk'[n].at = Here.at + 1
      BY <1>8, <2>1 DEF NextAt
    <2>3. series = <<call.order, call.index>> /\ Delivered(Here.at)
      <3>1. 1 \in DOMAIN walk
        BY <1>1, <1>3, <1>8, HereIs
      <3> QED
        BY <1>3, <1>8, <3>1 DEF IndexInv
    <2>4. Series[Here.at + 1] = Entry
      <3>1. series[2] = call.index
        BY <2>3
      <3> QED
        BY <1>1, <1>3, <1>8, <3>1, TopIs DEF Entry
    <2> DEFINE a == Here.at
    <2>5. PICK k \in Nat : k = Here.at
      BY <1>2
    <2>6. ASSUME NEW q \in DOMAIN graph[Start], q <= k + 1 PROVE Series[q] \in covered'
      <3>1. q \in Nat
        BY <1>1, <2>6, TopIs
      <3>2. CASE q <= k
        BY <1>4, <2>3, <2>5, <2>6, <3>2 DEF Delivered
      <3>3. CASE q = k + 1
        BY <1>8, <2>4, <2>5, <3>3
      <3> QED
        BY <2>6, <3>1, <3>2, <3>3
    <2> QED
      BY <2>2, <2>5, <2>6 DEF Delivered, Series
  <1>9. ResumeCovers'
    BY <1>1, <1>6 DEF ResumeCovers, ToTheEnd
  <1>10. Entries(Top)' = Entries(Top)
    BY DEF Entries, GroupOf
  <1>11. (series[1] = "inc" => Delivered(idx))'
    <2>1. PICK k : k = idx
      OBVIOUS
    <2>2. series[1] = "inc" => Delivered(k)'
      BY <1>5, <2>1 DEF IndexInv
    <2> QED
      BY <1>6, <2>1, <2>2 DEF Delivered, Series
  <1> QED
    BY <1>4, <1>6, <1>7, <1>8, <1>9, <1>10, <1>11 DEF IndexInv

\* A table's loop ends with last_idx, before which all has been delivered.
LEMMA IndexFrameReturns ==
    ASSUME StructInv, IndexInv, walk # <<>>, NEW last_idx \in Nat, FrameReturns(walk, last_idx),
           UNCHANGED <<graph, call, series>>,
           covered \subseteq covered', covered' \subseteq Entries(Top),
           call.idx_p /\ call.order = "inc" => Delivered(last_idx),
           ~stopped' /\ call.idx_p /\ call.order = "inc" => covered' = DOMAIN graph[Start]
    PROVE  IndexInv'
  <1> DEFINE l == Len(walk)
  <1>1. VisitTypeInv /\ DOMAIN walk = 1..l /\ l \in Nat \ {0}
    BY HereIs DEF StructInv
  <1>2. call.idx_p => l = 1
    BY IndexedWalk
  <1>3. ASSUME NEW n, Delivered(n) PROVE Delivered(n)'
    BY <1>3 DEF Delivered, Series
  <1>4. /\ idx \in Nat /\ (series[1] = "inc" => Delivered(idx))
        /\ call.idx_p => series = <<call.order, call.index>>
        /\ call.order = "inc" => \A n \in 1..l : walk[n].at >= 0
    BY <1>1 DEF IndexInv
  <1>5. PICK k \in Nat : k = idx
    BY <1>4
  <1>6. idx' \in {k, last_idx} /\ (~call.idx_p => idx' = k)
    BY <1>5, FrameReturnsIs DEF KeptIndex
  <1>7. series[1] = "inc" => Delivered(idx)'
    <2>1. CASE idx' = k
      <3>1. series[1] = "inc" => Delivered(k)'
        BY <1>3, <1>4, <1>5
      <3> QED
        BY <2>1, <3>1 DEF Delivered, Series
    <2>2. CASE idx' = last_idx /\ call.idx_p
      <3>1. series[1] = call.order
        BY <1>4, <2>2
      <3>2. series[1] = "inc" => Delivered(last_idx)'
        BY <1>3, <2>2, <3>1
      <3> QED
        BY <2>2, <3>2 DEF Delivered, Series
    <2> QED
      BY <1>6, <2>1, <2>2
  <1>8. call.order = "inc" => \A n \in DOMAIN walk' : walk'[n].at >= 0 /\ ~call.idx_p
    <2>1. CASE DOMAIN walk' = {}
      BY <2>1
    <2>2. CASE /\ l > 1 /\ DOMAIN walk' = 1..(l - 1)
               /\ \A n \in 1..(l - 2) : walk'[n] = walk[n]
               /\ walk'[l - 1] = [tbl |-> walk[l - 1].tbl, at |-> NextAt(walk[l - 1].at)]
      <3> HIDE DEF l
      <3>0. ~call.idx_p
        BY <1>1, <1>2, <2>2
      <3> SUFFICES ASSUME call.order = "inc", NEW n \in 1..(l - 1) PROVE walk'[n].at >= 0
        BY <2>2, <3>0
      <3> DEFINE m == l - 1
      <3>1. m \in 1..l /\ walk'[m].at = NextAt(walk[m].at)
        BY <1>1, <2>2
      <3>2. walk[m] \in WalkFrames
        <4>1. walk \in Seq(WalkFrames)
          BY <1>1 DEF VisitTypeInv
        <4> HIDE DEF m
        <4> QED
          BY <3>1, <4>1, ElementOfSeq DEF l
      <3>3. n = m \/ (n \in 1..(l - 2) /\ n \in 1..l)
        BY <1>1
      <3> HIDE DEF m
      <3>4. walk'[m].at >= 0
        <4>1. walk[m].at >= 0 /\ walk[m].at \in Int
          BY <1>4, <3>1, <3>2 DEF WalkFrames
        <4>2. walk'[m].at = walk[m].at + 1
          BY <3>1 DEF NextAt
        <4> QED
          BY <4>1, <4>2
      <3> QED
        BY <1>4, <2>2, <3>3, <3>4
    <2> QED
      BY <2>1, <2>2, FrameReturnsIs
  <1>9. ResumeCovers'
    <2>1. ToTheEnd' => ~stopped'
      BY DEF ToTheEnd
    <2> QED
      BY <2>1 DEF ResumeCovers
  <1>10. Entries(Top)' = Entries(Top)
    BY DEF Entries, GroupOf
  <1>11. idx' \in Nat
    BY <1>6
  <1> QED
    BY <1>4, <1>7, <1>8, <1>9, <1>10, <1>11 DEF IndexInv

LEMMA IndexReport ==
    ASSUME StructInv, IndexInv, NEW r \in Results, Report(r) PROVE IndexInv'
  <1>1. /\ VisitTypeInv /\ AtEntry /\ walk # <<>> /\ UNCHANGED <<graph, call, series>>
        /\ covered' = IF call.idx_p /\ r >= 0 THEN covered \union {Entry} ELSE covered
        /\ stopped' = (stopped \/ r > 0)
    BY DEF Report, StructInv, AtEntry
  <1>2. CASE r < 0 /\ Returns("failed") /\ UNCHANGED <<idx, depth>>
    <2>1. ~(r >= 0)
      BY <1>2 DEF Results
    <2>2. walk' = <<>> /\ ~ToTheEnd'
      BY <1>2 DEF Returns, ToTheEnd
    <2> QED
      BY <1>1, <1>2, <2>1, <2>2, IndexSame
  <1>3. CASE r > 0 /\ FrameReturns(walk, Here.at)
    <2>1. Here.at \in Nat /\ Entry \in Entries(Here.tbl)
      BY <1>1, EntryIs
    <2>2. call.idx_p => Here.tbl = Top /\ Here = walk[1] /\ 1 \in DOMAIN walk
      BY <1>1, IndexedWalk, HereIs
    <2>3. covered \subseteq covered' /\ covered' \subseteq Entries(Top)
      BY <1>1, <2>1, <2>2 DEF IndexInv
    <2>4. PICK a \in Nat : a = Here.at
      BY <2>1
    <2>5. call.idx_p /\ call.order = "inc" => Delivered(a)
      BY <2>2, <2>4 DEF IndexInv
    <2>6. stopped'
      BY <1>1, <1>3
    <2>7. FrameReturns(walk, a)
      BY <1>3, <2>4
    <2> QED
      BY <1>1, <2>3, <2>5, <2>6, <2>7, IndexFrameReturns
  <1>4. CASE r = 0 /\ GoesOn
    <2>1. (call.idx_p => covered' = covered \union {Entry}) /\ (~call.idx_p => covered' = covered)
      BY <1>1, <1>4
    <2> QED
      BY <1>1, <1>4, <2>1, IndexGoesOn
  <1> QED
    BY <1>2, <1>3, <1>4 DEF Report

LEMMA IndexTableDone ==
    ASSUME StructInv, IndexInv, TableDone PROVE IndexInv'
  <1>1. /\ VisitTypeInv /\ walk # <<>> /\ UNCHANGED <<graph, call, series, covered>>
        /\ ~AtEntry
    BY DEF TableDone, StructInv
  <1>2. Here.at \in Int /\ Here = walk[Len(walk)] /\ Len(walk) \in DOMAIN walk /\ Size(Here.tbl) \in Nat
    BY <1>1, HereIs
  <1>3. call.order = "inc" => Here.at >= Size(Here.tbl) /\ Here.at \in Nat
    <2>1. call.order = "inc" => Here.at >= 0
      <3> DEFINE n == Len(walk)
      <3> HIDE DEF n
      <3>1. n \in DOMAIN walk /\ Here = walk[n]
        BY <1>2 DEF n
      <3> QED
        BY <3>1 DEF IndexInv
    <2> QED
      BY <1>1, <1>2, <2>1 DEF AtEntry
  <1>4. PICK a \in Nat : a = (IF call.order = "inc" THEN Here.at ELSE 0)
    BY <1>3
  <1>5. FrameReturns(walk, a)
    BY <1>4 DEF TableDone
  <1>6. call.idx_p /\ call.order = "inc" =>
           Delivered(a) /\ a >= Size(Top) /\ series = <<call.order, call.index>>
    <2> SUFFICES ASSUME call.idx_p, call.order = "inc"
                 PROVE  Delivered(a) /\ a >= Size(Top) /\ series = <<call.order, call.index>>
      OBVIOUS
    <2>1. Here.tbl = Top /\ Here = walk[1] /\ 1 \in DOMAIN walk
      BY <1>1, IndexedWalk, HereIs
    <2>2. Delivered(Here.at) /\ series = <<call.order, call.index>>
      BY <2>1 DEF IndexInv
    <2> QED
      BY <1>3, <1>4, <2>1, <2>2
  <1>7. call.idx_p /\ call.order = "inc" => covered = DOMAIN graph[Start]
    <2> SUFFICES ASSUME call.idx_p, call.order = "inc" PROVE covered = DOMAIN graph[Start]
      OBVIOUS
    <2>1. /\ Entries(Top) = DOMAIN graph[Start] /\ Entries(Top) = 1..Size(Top) /\ Size(Top) \in Nat
          /\ Series \in Bijection(Entries(Top), Entries(Top))
      BY <1>1, TopIs
    <2>2. ASSUME NEW k \in Entries(Top) PROVE k \in covered
      <3>1. PICK q \in Entries(Top) : Series[q] = k
        BY <2>1 DEF Bijection, Surjection
      <3>2. q \in DOMAIN graph[Start] /\ q <= a
        BY <1>6, <2>1
      <3> QED
        BY <1>6, <3>1, <3>2 DEF Delivered
    <2> QED
      BY <2>1, <2>2 DEF IndexInv
  <1>8. covered \subseteq Entries(Top)
    BY DEF IndexInv
  <1> QED
    BY <1>1, <1>5, <1>6, <1>7, <1>8, IndexFrameReturns

LEMMA IndexNext ==
    ASSUME StructInv, IndexInv, [Next]_vars PROVE IndexInv'
  <1>1. (build # <<>> => walk = <<>>) /\ (call.op = "H5Ovisit" /\ log = <<>> => walk = <<>>)
    BY DEF StructInv, PhaseInv
  <1>2. ASSUME BuildEntry PROVE IndexInv'
    <2>1. walk' = <<>> /\ ~ToTheEnd'
      BY <1>1, <1>2 DEF BuildEntry, AtLink, ToTheEnd, StructInv, PhaseInv, Running
    <2> QED
      BY <1>2, <2>1, IndexSame DEF BuildEntry
  <1>3. ASSUME BuildFails PROVE IndexInv'
    <2>1. walk' = <<>> /\ ~ToTheEnd'
      BY <1>3 DEF BuildFails, Returns, ToTheEnd
    <2> QED
      BY <1>3, <2>1, IndexSame DEF BuildFails
  <1>4. ASSUME TableBuilt PROVE IndexInv'
    <2>1. walk = <<>> /\ out = "running"
      BY <1>1, <1>4 DEF TableBuilt, StructInv, PhaseInv, Running
    <2>2. /\ walk' = <<>> \/ walk' = <<[tbl |-> Top, at |-> Begin(Top)]>>
          /\ ToTheEnd' => Size(Top) = 0
      BY <1>4, <2>1 DEF TableBuilt, Returns, ToTheEnd
    <2> QED
      BY <1>4, <2>2, IndexSame DEF TableBuilt
  <1>5. ASSUME NEW r \in Results, ReportStart(r) PROVE IndexInv'
    <2>1. walk' = <<>> /\ call.op # "H5Literate"
      BY <1>1, <1>5 DEF ReportStart, Returns
    <2> QED
      BY <1>5, <2>1, IndexSame DEF ReportStart
  <1>6. ASSUME Skips PROVE IndexInv'
    <2>1. ~call.idx_p
      BY <1>6 DEF Skips, Reports, StructInv, PhaseInv, Recursive
    <2> QED
      BY <1>6, <2>1, IndexGoesOn DEF Skips
  <1>7. ASSUME UNCHANGED vars PROVE IndexInv'
    BY <1>7 DEF vars, IndexInv, Delivered, Series, Entries, GroupOf, ResumeCovers, ToTheEnd
  <1> QED
    BY <1>2, <1>3, <1>4, <1>5, <1>6, <1>7, IndexCall, IndexReport, IndexTableDone DEF Next

\* RV_link_iter_callback and the application's index: however often the
\* iteration stops and is taken up again, no link is lost.
THEOREM ResumeCoversTheorem == Spec => []ResumeCovers
  <1>1. Init => IndexInv
    BY IndexInit
  <1>2. StructInv /\ IndexInv /\ [Next]_vars => IndexInv'
    BY IndexNext
  <1>3. IndexInv => ResumeCovers
    BY DEF IndexInv
  <1> QED
    BY <1>1, <1>2, <1>3, StructTheorem, PTL DEF Spec

(***************************************************************************)
(* What a visit reaches                                                    *)
(***************************************************************************)

\* The tables have been or are being built.
Started == build # <<>> \/ walk # <<>> \/ ToTheEnd

\* H5Ovisit before it reports the start.
IdleInv ==
    Running /\ build = <<>> /\ walk = <<>> =>
        log = <<>> /\ visited_link_table = {} /\ visited_object_table = {}

\* A hard link to a group has been looked up, unless its entry is still to come.
ClosedInv ==
    Recursive /\ Started =>
        \A t \in Known : \A k \in Entries(t) : LinkOf(<<t, k>>).kind = "group" =>
            \/ Child(<<t, k>>) \in visited_link_table
            \/ \E n \in DOMAIN build : build[n].tbl = t /\ build[n].i <= k

\* Every table that is not empty can be reached from the top one.
SpanInv ==
    \A s \in SUBSET Tables :
        Top \in s /\ (\A e \in subtable : e[1] \in s => Child(e) \in s) =>
            \A g \in visited_link_table : Entries(g) # {} => g \in s

CoverInv == IdleInv /\ ClosedInv /\ SpanInv /\ visited_link_table \subseteq Reachable

LEMMA LinkedFromIs ==
    ASSUME NEW s, NEW h \in s, NEW k \in DOMAIN graph[h], graph[h][k].kind = "group"
    PROVE  graph[h][k].to \in LinkedFrom(s)
  <1> DEFINE l == graph[h][k]
             all == UNION {Range(graph[g]) : g \in s}
  <1>1. l \in Range(graph[h])
    BY DEF Range
  <1>2. Range(graph[h]) \in {Range(graph[g]) : g \in s}
    OBVIOUS
  <1>3. l \in all
    BY <1>1, <1>2, Zenon
  <1> HIDE DEF l, all
  <1>4. l.kind = "group"
    BY DEF l
  <1>5. l \in {m \in all : m.kind = "group"}
    BY <1>3, <1>4
  <1>6. l.to \in {m.to : m \in {n \in all : n.kind = "group"}}
    BY <1>5
  <1> QED
    BY <1>6 DEF LinkedFrom, l, all

\* What is linked to from a set of groups is linked to by one of them.
LEMMA LinkedFromOnly ==
    ASSUME NEW s, NEW g \in LinkedFrom(s)
    PROVE  \E h \in s : \E k \in DOMAIN graph[h] : graph[h][k].kind = "group" /\ graph[h][k].to = g
  <1> DEFINE all == UNION {Range(graph[h]) : h \in s}
  <1>1. PICK l \in {m \in all : m.kind = "group"} : l.to = g
    BY DEF LinkedFrom
  <1>2. l \in all /\ l.kind = "group"
    BY <1>1
  <1>3. PICK h \in s : l \in Range(graph[h])
    BY <1>2
  <1>4. PICK k \in DOMAIN graph[h] : graph[h][k] = l
    BY <1>3 DEF Range
  <1> QED
    BY <1>1, <1>2, <1>3, <1>4

LEMMA StartIsReachable == Start \in Reachable
  BY VisitAssumption DEF Reachable

LEMMA ReachableStep ==
    ASSUME NEW h \in Reachable, NEW k \in DOMAIN graph[h], graph[h][k].kind = "group",
           graph[h][k].to \in Groups
    PROVE  graph[h][k].to \in Reachable
  <1> DEFINE g == graph[h][k].to
  <1>1. ASSUME NEW s \in SUBSET Groups, Start \in s, LinkedFrom(s) \subseteq s PROVE g \in s
    <2>1. h \in s
      BY <1>1 DEF Reachable
    <2>2. g \in LinkedFrom(s)
      BY <2>1, LinkedFromIs
    <2> QED
      BY <1>1, <2>2
  <1> HIDE DEF g
  <1>2. g \in Groups
    BY DEF g
  <1>3. g \in Reachable
    BY <1>1, <1>2 DEF Reachable
  <1> QED
    BY <1>3 DEF g

\* A set that contains the start and what its members link to contains all.
LEMMA ReachableIsLeast ==
    ASSUME NEW s \in SUBSET Groups, Start \in s,
           \A h \in s : \A k \in DOMAIN graph[h] : graph[h][k].kind = "group" => graph[h][k].to \in s
    PROVE  Reachable \subseteq s
  <1>1. LinkedFrom(s) \subseteq s
    BY LinkedFromOnly
  <1> QED
    BY <1>1 DEF Reachable

LEMMA ReachableSame ==
    ASSUME UNCHANGED graph PROVE Reachable' = Reachable
  <1>1. ASSUME NEW s PROVE LinkedFrom(s)' = LinkedFrom(s)
    BY DEF LinkedFrom
  <1> QED
    BY <1>1 DEF Reachable

LEMMA BuildEntryIs ==
    ASSUME StructInv, BuildEntry, NEW l, l = Len(build)
    PROVE  /\ l \in Nat \ {0} /\ DOMAIN build = 1..l /\ walk = <<>> /\ walk' = <<>>
           /\ out = "running" /\ out' = "running" /\ build' # <<>>
           /\ Frame = build[l] /\ Frame.tbl \in Known /\ Frame.tbl \in Tables
           /\ Frame.i \in Entries(Frame.tbl) /\ Frame.i \in Nat
           /\ LinkOf(<<Frame.tbl, Frame.i>>) = Link /\ Child(<<Frame.tbl, Frame.i>>) = Link.to
           /\ \A n \in 1..(l - 1) : build'[n] = build[n]
           /\ build'[l] = [tbl |-> Frame.tbl, i |-> Frame.i + 1]
           /\ \/ ~Follows /\ DOMAIN build' = 1..l /\ UNCHANGED <<visited_link_table, subtable>>
              \/ /\ Follows /\ Link.to \in Groups /\ Entries(Link.to) = {}
                 /\ DOMAIN build' = 1..l /\ visited_link_table' = visited_link_table \union {Link.to}
                 /\ UNCHANGED subtable
              \/ /\ Follows /\ Link.to \in Groups
                 /\ DOMAIN build' = 1..(l + 1) /\ build'[l + 1] = [tbl |-> Link.to, i |-> 1]
                 /\ visited_link_table' = visited_link_table \union {Link.to}
                 /\ subtable' = subtable \union {<<Frame.tbl, Frame.i>>}
  <1>1. /\ build # <<>> /\ walk = <<>> /\ walk' = <<>> /\ VisitTypeInv /\ StackInv(build)
        /\ out = "running" /\ out' = "running" /\ build \in Seq(BuildFrames)
    BY DEF StructInv, PhaseInv, AtLink, Running, BuildEntry, VisitTypeInv
  <1>2. l \in Nat \ {0} /\ DOMAIN build = 1..l /\ Frame = build[l] /\ Frame \in BuildFrames
    BY <1>1, StackOps DEF Frame
  <1>3. Frame.tbl \in Tables /\ Frame.i \in Nat \ {0} /\ Frame.i <= Size(Frame.tbl)
    BY <1>2 DEF BuildFrames, BuildEntry, AtLink
  <1>4. Frame.tbl \in Known
    BY <1>1, <1>2 DEF StackInv, Known
  <1>5. /\ Frame.i \in Entries(Frame.tbl) /\ LinkOf(<<Frame.tbl, Frame.i>>) \in Links
    BY <1>1, <1>3, TableType DEF VisitTypeInv
  <1>6. LinkOf(<<Frame.tbl, Frame.i>>) = Link /\ Child(<<Frame.tbl, Frame.i>>) = Link.to /\ Link \in Links
    BY <1>5 DEF LinkOf, Link, Child
  <1>7. Follows => Link.to \in Groups
    BY <1>6, LinkType DEF Follows
  <1> DEFINE a == Advance(build)
             f == [tbl |-> Frame.tbl, i |-> Frame.i + 1]
             h == [tbl |-> Link.to, i |-> 1]
  <1>8. /\ a \in Seq(BuildFrames) /\ Len(a) = l /\ DOMAIN a = 1..l /\ a # <<>>
        /\ \A n \in 1..(l - 1) : a[n] = build[n]
        /\ a[l] = f
    BY <1>1, <1>2, BuildFrameMoves
  <1>9. Follows => h \in BuildFrames
    BY <1>7 DEF BuildFrames, Tables
  <1>10. \/ ~Follows /\ build' = a /\ UNCHANGED <<visited_link_table, subtable>>
         \/ /\ Follows /\ visited_link_table' = visited_link_table \union {Link.to}
            /\ \/ Len(graph[Link.to]) = 0 /\ build' = a /\ UNCHANGED subtable
               \/ build' = Append(a, h) /\ subtable' = subtable \union {<<Frame.tbl, Frame.i>>}
    BY DEF BuildEntry
  <1> HIDE DEF a, f, h
  <1>11. Follows /\ Len(graph[Link.to]) = 0 => Entries(Link.to) = {}
    <2> SUFFICES ASSUME Follows, Len(graph[Link.to]) = 0 PROVE Entries(Link.to) = {}
      OBVIOUS
    <2> DEFINE g == Link.to
    <2>1. g \in Groups /\ g \in Tables /\ GroupOf(g) = g
      BY <1>7, TopIsNoGroup DEF GroupOf
    <2> HIDE DEF g
    <2>2. Entries(g) = 1..Size(g) /\ Size(g) = Len(graph[g])
      BY <1>1, <2>1, TableType DEF VisitTypeInv, Size
    <2> QED
      BY <2>2 DEF g
  <1>12. CASE build' = a
    BY <1>1, <1>2, <1>3, <1>4, <1>5, <1>6, <1>7, <1>8, <1>10, <1>11, <1>12 DEF f
  <1>13. CASE /\ Follows /\ visited_link_table' = visited_link_table \union {Link.to}
              /\ build' = Append(a, h) /\ subtable' = subtable \union {<<Frame.tbl, Frame.i>>}
    <2>1. /\ DOMAIN Append(a, h) = 1..(l + 1) /\ Append(a, h) # <<>>
          /\ \A n \in 1..l : Append(a, h)[n] = a[n]
          /\ Append(a, h)[l + 1] = h
      BY <1>8, <1>9, <1>13, StackPush
    <2>2. /\ DOMAIN build' = 1..(l + 1) /\ build' # <<>> /\ build'[l + 1] = h
          /\ \A n \in 1..(l - 1) : build'[n] = build[n]
          /\ build'[l] = f
      BY <1>2, <1>8, <1>13, <2>1
    <2> QED
      BY <1>1, <1>2, <1>3, <1>4, <1>5, <1>6, <1>7, <1>13, <2>2 DEF f, h
  <1> QED
    BY <1>10, <1>12, <1>13

LEMMA CoverInit ==
    ASSUME Init PROVE CoverInv
  BY DEF Init, CoverInv, IdleInv, ClosedInv, SpanInv, Running, Started, ToTheEnd

\* A call that has built a table for the top group and none for others.
LEMMA CoverBegins ==
    ASSUME VisitTypeInv, graph' = graph, visited_link_table' = {}, walk' = <<>>, ~ToTheEnd',
           \/ build' = <<[tbl |-> Top, i |-> 1]>>
           \/ build' = <<>> /\ (Running' => log' = <<>> /\ visited_object_table' = {})
    PROVE  CoverInv'
  <1>1. IdleInv'
    BY DEF IdleInv, Running
  <1>2. ClosedInv'
    <2>1. CASE build' = <<>>
      BY <2>1 DEF ClosedInv, Started
    <2>2. CASE build' = <<[tbl |-> Top, i |-> 1]>>
      <3>1. DOMAIN build' = {1} /\ build'[1].tbl = Top /\ build'[1].i = 1
        BY <2>2
      <3>2. Entries(Top) = 1..Size(Top) /\ Entries(Top)' = Entries(Top)
        BY TopIs DEF Entries, GroupOf
      <3>3. \A k \in Entries(Top)' : 1 <= k
        BY <3>2, TopIs
      <3>4. Known' = {Top}
        BY DEF Known
      <3> QED
        BY <3>1, <3>3, <3>4 DEF ClosedInv
    <2> QED
      BY <2>1, <2>2
  <1> QED
    BY <1>1, <1>2 DEF CoverInv, SpanInv

\* The tables stay as they are, and with them what is still to be looked up.
LEMMA CoverSame ==
    ASSUME CoverInv, UNCHANGED <<graph, call, subtable, visited_link_table>>,
           Started' => Started, Running' => build' # <<>> \/ walk' # <<>>,
           \A n \in DOMAIN build : \A k \in Entries(build[n].tbl) : build[n].i <= k =>
               n \in DOMAIN build' /\ build'[n] = build[n]
    PROVE  CoverInv'
  <1>1. ASSUME NEW t PROVE Entries(t)' = Entries(t)
    BY DEF Entries, GroupOf
  <1>2. ASSUME NEW e PROVE LinkOf(e)' = LinkOf(e) /\ Child(e)' = Child(e)
    BY DEF LinkOf, GroupOf, Child
  <1>3. Known' = Known /\ Recursive' = Recursive
    BY DEF Known, Recursive
  <1>4. IdleInv'
    BY DEF IdleInv
  <1>5. ClosedInv'
    <2> SUFFICES ASSUME Recursive, Started, NEW t \in Known, NEW k \in Entries(t),
                        LinkOf(<<t, k>>).kind = "group"
                 PROVE  \/ Child(<<t, k>>) \in visited_link_table
                        \/ \E n \in DOMAIN build' : build'[n].tbl = t /\ build'[n].i <= k
      BY <1>1, <1>2, <1>3 DEF ClosedInv
    <2>1. \/ Child(<<t, k>>) \in visited_link_table
          \/ \E n \in DOMAIN build : build[n].tbl = t /\ build[n].i <= k
      BY DEF CoverInv, ClosedInv
    <2>2. ASSUME NEW n \in DOMAIN build, build[n].tbl = t, build[n].i <= k
          PROVE  n \in DOMAIN build' /\ build'[n].tbl = t /\ build'[n].i <= k
      BY <2>2
    <2> QED
      BY <2>1, <2>2
  <1>6. SpanInv'
    <2>1. SpanInv
      BY DEF CoverInv
    <2> QED
      BY <1>1, <1>2, <2>1 DEF SpanInv
  <1>7. visited_link_table' \subseteq Reachable'
    BY ReachableSame DEF CoverInv
  <1> QED
    BY <1>4, <1>5, <1>6, <1>7 DEF CoverInv

LEMMA KnownIsReachable ==
    ASSUME CoverInv, NEW t \in Known PROVE GroupOf(t) \in Reachable
  BY StartIsReachable DEF CoverInv, Known, GroupOf

LEMMA CoverBuildEntry ==
    ASSUME StructInv, CoverInv, BuildEntry PROVE CoverInv'
  <1> DEFINE l == Len(build)
  <1>1. PICK t \in Tables, i \in Nat : t = Frame.tbl /\ i = Frame.i
    BY BuildEntryIs
  <1>2. PICK g : g = Link.to
    OBVIOUS
  <1> DEFINE e == <<t, i>>
  <1>3. /\ l \in Nat \ {0} /\ DOMAIN build = 1..l /\ build' # <<>> /\ walk' = <<>>
        /\ out' = "running" /\ build # <<>>
        /\ build[l].tbl = t /\ build[l].i = i /\ t \in Known /\ i \in Entries(t)
        /\ \A n \in 1..(l - 1) : build'[n] = build[n]
        /\ build'[l] = [tbl |-> t, i |-> i + 1]
    BY <1>1, BuildEntryIs DEF BuildEntry, AtLink
  <1>4. LinkOf(e) = Link /\ Child(e) = g
    BY <1>1, <1>2, BuildEntryIs
  <1>5. \/ ~Follows /\ DOMAIN build' = 1..l /\ UNCHANGED <<visited_link_table, subtable>>
        \/ /\ Follows /\ g \in Groups /\ Entries(g) = {}
           /\ DOMAIN build' = 1..l /\ visited_link_table' = visited_link_table \union {g}
           /\ UNCHANGED subtable
        \/ /\ Follows /\ g \in Groups
           /\ DOMAIN build' = 1..(l + 1) /\ build'[l + 1] = [tbl |-> g, i |-> 1]
           /\ visited_link_table' = visited_link_table \union {g}
           /\ subtable' = subtable \union {e}
    BY <1>1, <1>2, BuildEntryIs
  <1>6. UNCHANGED <<graph, call>> /\ VisitTypeInv
    BY DEF BuildEntry, StructInv
  <1>7. ASSUME NEW x PROVE Entries(x)' = Entries(x) /\ LinkOf(x)' = LinkOf(x) /\ Child(x)' = Child(x)
    BY <1>6 DEF Entries, GroupOf, LinkOf, Child
  <1>8. Recursive' = Recursive /\ Known \subseteq Known'
    BY <1>5, <1>6 DEF Recursive, Known
  <1>9. IdleInv'
    BY <1>3 DEF IdleInv
  <1>10. ClosedInv'
    <2> SUFFICES ASSUME Recursive, NEW u \in Known', NEW k \in Entries(u),
                        LinkOf(<<u, k>>).kind = "group"
                 PROVE  \/ Child(<<u, k>>) \in visited_link_table'
                        \/ \E n \in DOMAIN build' : build'[n].tbl = u /\ build'[n].i <= k
      BY <1>7, <1>8 DEF ClosedInv
    <2>1. CASE u \in Known
      <3>1. \/ Child(<<u, k>>) \in visited_link_table
            \/ \E n \in DOMAIN build : build[n].tbl = u /\ build[n].i <= k
        BY <1>3, <2>1 DEF CoverInv, ClosedInv, Started
      <3>2. ASSUME NEW n \in 1..l, build[n].tbl = u, build[n].i <= k
            PROVE  \/ Child(<<u, k>>) \in visited_link_table'
                   \/ \E m \in DOMAIN build' : build'[m].tbl = u /\ build'[m].i <= k
        <4>1. n \in DOMAIN build'
          BY <1>3, <1>5
        <4>2. CASE n # l
          <5>1. build'[n] = build[n]
            BY <1>3, <4>2
          <5> QED
            BY <3>2, <4>1, <5>1
        <4>3. CASE n = l /\ k # i
          <5>1. u = t /\ i <= k
            BY <1>3, <3>2, <4>3
          <5>2. k \in Nat
            <6>1. Entries(t) = 1..Size(t)
              BY <1>6, TableType DEF VisitTypeInv
            <6> QED
              BY <5>1, <6>1
          <5>3. build'[n].tbl = u /\ build'[n].i <= k
            BY <1>3, <4>3, <5>1, <5>2
          <5> QED
            BY <4>1, <5>3
        <4>4. CASE n = l /\ k = i
          <5>1. u = t
            BY <1>3, <3>2, <4>4
          <5>2. Child(<<u, k>>) = g /\ Link.kind = "group"
            BY <1>4, <4>4, <5>1
          <5>3. g \in visited_link_table'
            BY <1>2, <1>5, <5>2 DEF Follows
          <5> QED
            BY <5>2, <5>3
        <4> QED
          BY <4>2, <4>3, <4>4
      <3> QED
        BY <1>3, <1>5, <3>1, <3>2
    <2>2. CASE u \notin Known
      <3>1. u = g /\ g \in Groups /\ visited_link_table' = visited_link_table \union {g}
        BY <1>5, <2>2 DEF Known
      <3>2. DOMAIN build' = 1..(l + 1) /\ build'[l + 1] = [tbl |-> g, i |-> 1]
        BY <1>5, <2>2, <3>1 DEF Known
      <3>3. 1 <= k
        <4>1. Entries(g) = 1..Size(g)
          BY <1>6, <3>1, TableType DEF VisitTypeInv, Tables
        <4> QED
          BY <3>1, <4>1
      <3>4. l + 1 \in DOMAIN build' /\ build'[l + 1].tbl = u /\ build'[l + 1].i <= k
        BY <1>3, <3>1, <3>2, <3>3
      <3> QED
        BY <3>4
    <2> QED
      BY <2>1, <2>2
  <1>11. SpanInv'
    <2> SUFFICES ASSUME NEW s \in SUBSET Tables, Top \in s,
                        \A f \in subtable' : f[1] \in s => Child(f) \in s,
                        NEW h \in visited_link_table', Entries(h) # {}
                 PROVE  h \in s
      BY <1>7 DEF SpanInv
    <2>1. subtable \subseteq subtable'
      BY <1>5
    <2>2. \A f \in visited_link_table : Entries(f) # {} => f \in s
      BY <2>1 DEF CoverInv, SpanInv
    <2>3. CASE h \notin visited_link_table
      <3>1. h = g /\ subtable' = subtable \union {e}
        BY <1>5, <2>3
      <3>2. t \in s
        BY <1>3, <2>2 DEF Known
      <3>3. e[1] = t /\ e \in subtable' /\ Child(e) = h
        BY <1>4, <3>1
      <3> HIDE DEF e
      <3> QED
        BY <3>2, <3>3
    <2> QED
      BY <2>2, <2>3
  <1>12. visited_link_table' \subseteq Reachable'
    <2>1. CASE visited_link_table' = visited_link_table
      BY <1>6, <2>1, ReachableSame DEF CoverInv
    <2>2. CASE Follows /\ g \in Groups /\ visited_link_table' = visited_link_table \union {g}
      <3>1. GroupOf(t) \in Reachable
        BY <1>3, KnownIsReachable
      <3>2. i \in DOMAIN graph[GroupOf(t)] /\ graph[GroupOf(t)][i] = Link
        BY <1>3, <1>4 DEF Entries, LinkOf
      <3>3. g \in Reachable
        BY <1>2, <2>2, <3>1, <3>2, ReachableStep DEF Follows
      <3> QED
        BY <1>6, <2>2, <3>3, ReachableSame DEF CoverInv
    <2> QED
      BY <1>5, <2>1, <2>2
  <1> QED
    BY <1>9, <1>10, <1>11, <1>12 DEF CoverInv

LEMMA CoverNext ==
    ASSUME StructInv, CoverInv, [Next]_vars PROVE CoverInv'
  <1>1. VisitTypeInv /\ PhaseInv
    BY DEF StructInv
  <1>2. ASSUME NEW op \in Ops, NEW order \in Orders, NEW index \in Indexes,
               NEW how \in {"none", "zero", "again"}, Call(op, order, index, how)
        PROVE  CoverInv'
    <2>1. walk' = <<>> /\ ~ToTheEnd' /\ graph' = graph /\ visited_link_table' = {}
          /\ log' = <<>> /\ visited_object_table' = {}
          /\ (build' = <<>> \/ build' = <<[tbl |-> Top, i |-> 1]>>)
      BY <1>1, <1>2 DEF Call, PhaseInv, ToTheEnd
    <2> QED
      BY <1>1, <2>1, CoverBegins
  <1>3. ASSUME NEW r \in Results, ReportStart(r) PROVE CoverInv'
    <2>1. walk = <<>> /\ build = <<>> /\ visited_link_table = {} /\ graph' = graph
          /\ UNCHANGED <<visited_link_table>>
      BY <1>1, <1>3 DEF ReportStart, PhaseInv, CoverInv, IdleInv
    <2>2. CASE r = 0
      <3>1. build' = <<[tbl |-> Top, i |-> 1]>> /\ walk' = <<>> /\ ~ToTheEnd'
        BY <1>3, <2>1, <2>2 DEF ReportStart, Running, ToTheEnd
      <3> QED
        BY <1>1, <2>1, <3>1, CoverBegins
    <2>3. CASE r # 0
      <3>1. build' = <<>> /\ walk' = <<>> /\ ~Running' /\ stopped' = (r > 0)
            /\ (~(r > 0) => out' = "failed")
        <4>1. ~(r > 0) => r < 0
          BY <2>3 DEF Results
        <4> QED
          BY <1>3, <2>3, <4>1 DEF ReportStart, Returns, Running
      <3>2. ~ToTheEnd'
        BY <3>1 DEF ToTheEnd
      <3> QED
        BY <1>1, <2>1, <3>1, <3>2, CoverBegins
    <2> QED
      BY <2>2, <2>3
  <1>4. ASSUME BuildFails PROVE CoverInv'
    <2>1. /\ build' = <<>> /\ walk' = <<>> /\ out' = "failed" /\ visited_link_table' = visited_link_table
          /\ UNCHANGED <<graph, subtable>>
      BY <1>4 DEF BuildFails, Returns
    <2>2. IdleInv' /\ ClosedInv'
      BY <2>1 DEF IdleInv, ClosedInv, Running, Started, ToTheEnd
    <2>3. ASSUME NEW x PROVE Entries(x)' = Entries(x) /\ Child(x)' = Child(x)
      BY <2>1 DEF Entries, GroupOf, LinkOf, Child
    <2>4. SpanInv'
      BY <2>1, <2>3 DEF CoverInv, SpanInv
    <2>5. visited_link_table' \subseteq Reachable'
      BY <2>1, ReachableSame DEF CoverInv
    <2> QED
      BY <2>2, <2>4, <2>5 DEF CoverInv
  <1>5. ASSUME TableBuilt PROVE CoverInv'
    <2> DEFINE l == Len(build)
               f == Front(build)
    <2>1. /\ build # <<>> /\ build \in Seq(BuildFrames) /\ walk = <<>> /\ Frame.i > Size(Frame.tbl)
          /\ UNCHANGED <<graph, call, subtable, visited_link_table>>
      BY <1>1, <1>5 DEF TableBuilt, VisitTypeInv, PhaseInv
    <2>2. /\ l \in Nat \ {0} /\ DOMAIN build = 1..l /\ Frame = build[l] /\ Frame \in BuildFrames
          /\ Len(f) = l - 1 /\ f \in Seq(BuildFrames)
          /\ DOMAIN f = 1..(l - 1) /\ \A n \in 1..(l - 1) : f[n] = build[n]
      BY <2>1, StackOps DEF Frame
    <2>3. \A k \in Entries(Frame.tbl) : ~(Frame.i <= k)
      <3>1. Frame.tbl \in Tables /\ Frame.i \in Nat
        BY <2>2 DEF BuildFrames
      <3>2. Entries(Frame.tbl) = 1..Size(Frame.tbl) /\ Size(Frame.tbl) \in Nat
        BY <1>1, <3>1, TableType DEF VisitTypeInv
      <3> QED
        BY <2>1, <3>1, <3>2
    <2>4. \/ l > 1 /\ build' = f /\ walk' = walk
          \/ ~(l > 1) /\ build' = <<>> /\ out' = "ok"
          \/ ~(l > 1) /\ build' = <<>> /\ walk' = <<[tbl |-> Top, at |-> Begin(Top)]>>
      BY <1>5 DEF TableBuilt, Returns
    <2> HIDE DEF f
    <2>5. l > 1 /\ build' = f => build' # <<>>
      <3>1. Len(<<>>) = 0
        OBVIOUS
      <3> QED
        BY <2>2, <3>1
    <2>6. Running' => build' # <<>> \/ walk' # <<>>
      BY <2>4, <2>5 DEF Running
    <2>7. ASSUME NEW n \in DOMAIN build, NEW k \in Entries(build[n].tbl), build[n].i <= k
          PROVE  n \in DOMAIN build' /\ build'[n] = build[n]
      <3>1. n # l
        BY <2>2, <2>3, <2>7
      <3>2. n \in 1..(l - 1) /\ l > 1
        BY <2>2, <3>1
      <3> QED
        BY <2>2, <2>4, <3>2
    <2> QED
      BY <2>1, <2>6, <2>7, CoverSame DEF Started
  <1>6. ASSUME walk # <<>>, UNCHANGED <<graph, call, subtable, visited_link_table>>,
               Running' => build' # <<>> \/ walk' # <<>>
        PROVE  CoverInv'
    <2>1. Started /\ DOMAIN build = {}
      BY <1>1, <1>6 DEF Started, PhaseInv
    <2> QED
      BY <1>6, <2>1, CoverSame
  <1>7. ASSUME AtEntry, GoesOn, UNCHANGED <<graph, call, subtable, visited_link_table>>
        PROVE  CoverInv'
    <2>1. walk # <<>> /\ walk' # <<>>
      BY <1>7, GoesOnKeeps DEF AtEntry
    <2> QED
      BY <1>6, <1>7, <2>1
  <1>8. ASSUME walk # <<>>, NEW last_idx, FrameReturns(walk, last_idx),
               UNCHANGED <<graph, call, subtable, visited_link_table>>
        PROVE  CoverInv'
    <2> DEFINE l == Len(walk)
    <2> HIDE DEF l
    <2>1. l \in Nat /\ (out' = "ok" \/ (l > 1 /\ Len(walk') = l - 1))
      BY <1>8, FrameReturnsIs DEF l
    <2>2. Len(<<>>) = 0
      OBVIOUS
    <2>3. Running' => walk' # <<>>
      BY <2>1, <2>2 DEF Running
    <2> QED
      BY <1>6, <1>8, <2>3
  <1>9. ASSUME NEW r \in Results, Report(r) PROVE CoverInv'
    <2>1. AtEntry /\ walk # <<>> /\ UNCHANGED <<graph, call, subtable, visited_link_table>>
      BY <1>9 DEF Report, AtEntry
    <2>2. CASE Returns("failed")
      BY <1>6, <2>1, <2>2 DEF Returns, Running
    <2> QED
      BY <1>7, <1>8, <1>9, <2>1, <2>2 DEF Report
  <1>10. ASSUME Skips PROVE CoverInv'
    BY <1>7, <1>10 DEF Skips
  <1>11. ASSUME TableDone PROVE CoverInv'
    BY <1>8, <1>11 DEF TableDone
  <1>12. ASSUME UNCHANGED vars PROVE CoverInv'
    <2>1. /\ UNCHANGED <<graph, call, subtable, visited_link_table, visited_object_table, build, walk, log>>
          /\ Started' = Started /\ Running' = Running
      BY <1>12 DEF vars, Started, Running, ToTheEnd
    <2>2. IdleInv'
      BY <2>1 DEF CoverInv, IdleInv
    <2>3. ASSUME NEW x PROVE Entries(x)' = Entries(x) /\ LinkOf(x)' = LinkOf(x) /\ Child(x)' = Child(x)
      BY <2>1 DEF Entries, GroupOf, LinkOf, Child
    <2>4. ClosedInv'
      BY <2>1, <2>3 DEF CoverInv, ClosedInv, Known, Recursive
    <2>5. SpanInv'
      BY <2>1, <2>3 DEF CoverInv, SpanInv
    <2> QED
      BY <2>1, <2>2, <2>4, <2>5, ReachableSame DEF CoverInv
  <1> QED
    BY <1>2, <1>3, <1>4, <1>5, <1>9, <1>10, <1>11, <1>12, CoverBuildEntry DEF Next

(***************************************************************************)
(* What a visit reports                                                    *)
(***************************************************************************)

\* The entries of all tables, and whether the walk is past a place of a table.
AllEntries == {e \in Tables \X Nat : e[1] \in Known /\ e[2] \in Entries(e[1])}
Passed(w, n, q) == \/ q = w[n].at /\ n < Len(w)
                   \/ IF call.order = "inc" THEN q < w[n].at ELSE q > w[n].at

\* P is the set of entries the walk is past: of the tables on its stack w those
\* before its place, of another table all or none.
PassInv(w, P) ==
    /\ \A n \in DOMAIN w : \A q \in 0..(Size(w[n].tbl) - 1) :
          <<w[n].tbl, Sorted(w[n].tbl)[q + 1]>> \in P <=> Passed(w, n, q)
    /\ \A e \in subtable : (\A n \in DOMAIN w : w[n].tbl # Child(e)) =>
          \A k \in Entries(Child(e)) : <<Child(e), k>> \in P <=> e \in P

\* What has been reported of them: by H5Lvisit each, by H5Ovisit the start, then
\* each object a hard link of them leads to.
LogInv(P) ==
    /\ call.op = "H5Lvisit" => Range(log) = P /\ IsInjective(log)
    /\ call.op = "H5Ovisit" =>
         /\ log # <<>> /\ log[1] = <<Top, 0>>
         /\ \A o : o \in visited_object_table <=> \E e \in P : LinkOf(e).kind # "soft" /\ Child(e) = o
         /\ \A n \in 2..Len(log) : log[n] \in P /\ LinkOf(log[n]).kind # "soft"
         /\ \A o \in visited_object_table : \E n \in 2..Len(log) : Child(log[n]) = o
         /\ \A m, n \in 2..Len(log) : Child(log[m]) = Child(log[n]) => m = n

CompleteInv ==
    Recursive =>
        /\ build # <<>> => LogInv({})
        /\ walk # <<>> /\ ~stopped => \E P \in SUBSET AllEntries : PassInv(walk, P) /\ LogInv(P)
        /\ ToTheEnd => LogInv(AllEntries)

\* The place of an entry in its table is its own.
LEMMA PlaceIs ==
    ASSUME VisitTypeInv, NEW t \in Tables
    PROVE  /\ \A q \in 0..(Size(t) - 1) : Sorted(t)[q + 1] \in Entries(t)
           /\ \A p, q \in 0..(Size(t) - 1) : Sorted(t)[p + 1] = Sorted(t)[q + 1] => p = q
           /\ \A k \in Entries(t) : \E q \in 0..(Size(t) - 1) : Sorted(t)[q + 1] = k
           /\ Size(t) \in Nat
  <1> DEFINE s == Sorted(t)
             m == Size(t)
  <1>1. m \in Nat /\ Entries(t) = 1..m
    BY TableType DEF VisitTypeInv
  <1>2. s \in Bijection(1..m, 1..m)
    BY <1>1, SortedIs DEF VisitTypeInv, Sorted
  <1> HIDE DEF s, m
  <1>3. /\ \A j \in 1..m : s[j] \in 1..m
        /\ \A i, j \in 1..m : s[i] = s[j] => i = j
        /\ \A k \in 1..m : \E j \in 1..m : s[j] = k
    BY <1>2 DEF Bijection, Injection, Surjection, IsInjective
  <1>4. \A q \in 0..(m - 1) : q + 1 \in 1..m
    BY <1>1
  <1>5. ASSUME NEW p \in 0..(m - 1), NEW q \in 0..(m - 1), s[p + 1] = s[q + 1] PROVE p = q
    <2>1. p + 1 = q + 1
      BY <1>3, <1>4, <1>5
    <2> QED
      BY <2>1
  <1>6. ASSUME NEW k \in 1..m PROVE \E q \in 0..(m - 1) : s[q + 1] = k
    <2>1. PICK j \in 1..m : s[j] = k
      BY <1>3
    <2>2. j - 1 \in 0..(m - 1) /\ (j - 1) + 1 = j
      BY <1>1
    <2>3. s[(j - 1) + 1] = k
      BY <2>1, <2>2
    <2> QED
      BY <2>2, <2>3
  <1>7. \A q \in 0..(m - 1) : s[q + 1] \in 1..m
    BY <1>3, <1>4
  <1> QED
    BY <1>1, <1>5, <1>6, <1>7 DEF s, m

\* When the top table and the tables that hang on passed entries are passed,
\* everything is.
LEMMA AllPassed ==
    ASSUME StructInv, SpanInv, NEW P \in SUBSET AllEntries,
           \A k \in Entries(Top) : <<Top, k>> \in P,
           \A e \in subtable : \A k \in Entries(Child(e)) : <<Child(e), k>> \in P <=> e \in P
    PROVE  P = AllEntries
  <1> DEFINE s == {t \in Tables : \A k \in Entries(t) : <<t, k>> \in P}
  <1>1. Top \in s
    BY DEF Tables
  <1>2. ASSUME NEW e \in subtable, e[1] \in s PROVE Child(e) \in s
    <2>1. e \in Tables \X Nat /\ e[2] \in Entries(e[1]) /\ Child(e) \in Tables
      BY DEF StructInv, VisitTypeInv, TreeInv, Tables
    <2>2. e = <<e[1], e[2]>>
      BY <2>1
    <2>3. <<e[1], e[2]>> \in P
      BY <1>2, <2>1
    <2>4. e \in P
      BY <2>2, <2>3
    <2> QED
      BY <2>1, <2>4
  <1> HIDE DEF s
  <1>3. \A g \in visited_link_table : Entries(g) # {} => g \in s
    <2>1. s \in SUBSET Tables
      BY DEF s
    <2> QED
      BY <1>1, <1>2, <2>1 DEF SpanInv
  <1>4. ASSUME NEW e \in AllEntries PROVE e \in P
    <2>1. e \in Tables \X Nat /\ e[1] \in Known /\ e[2] \in Entries(e[1]) /\ e = <<e[1], e[2]>>
      BY DEF AllEntries
    <2>2. e[1] \in s
      BY <1>1, <1>3, <2>1 DEF Known
    <2>3. <<e[1], e[2]>> \in P
      BY <2>1, <2>2 DEF s
    <2> QED
      BY <2>1, <2>3
  <1> QED
    BY <1>4

\* The frames of a stack.
LEMMA FramesAre ==
    ASSUME StructInv, walk # <<>>, NEW l, l = Len(walk)
    PROVE  /\ l \in Nat \ {0} /\ DOMAIN walk = 1..l /\ Here = walk[l]
           /\ \A n \in 1..l : walk[n].tbl \in Tables /\ walk[n].at \in Int
           /\ \A m, n \in 1..l : walk[m].tbl = walk[n].tbl => m = n
  <1>1. VisitTypeInv /\ walk \in Seq(WalkFrames)
    BY HereIs DEF StructInv
  <1>2. l \in Nat \ {0} /\ DOMAIN walk = 1..l /\ Here = walk[l]
    BY <1>1, HereIs
  <1>3. \A n \in 1..l : walk[n] \in WalkFrames
    BY <1>1, ElementOfSeq
  <1>4. \A n \in 1..l : walk[n].tbl \in Tables /\ walk[n].at \in Int
    BY <1>3 DEF WalkFrames
  <1>5. \A m, n \in 1..l : walk[m].tbl = walk[n].tbl => m = n
    BY <1>2 DEF StructInv, StackInv
  <1> QED
    BY <1>2, <1>4, <1>5

\* An entry is passed: into its subgroup, or to the next place.
LEMMA PassGoesOn ==
    ASSUME StructInv, Recursive, AtEntry, GoesOn, NEW P \in SUBSET AllEntries, PassInv(walk, P),
           NEW e, e = EntryOf(Here)
    PROVE  e \notin P /\ e \in AllEntries /\ PassInv(walk', P \union {e})
  <1>1. VisitTypeInv /\ TreeInv /\ walk # <<>> /\ ~call.idx_p
    BY DEF StructInv, PhaseInv, AtEntry
  <1> DEFINE l == Len(walk)
  <1>2. /\ l \in Nat \ {0} /\ DOMAIN walk = 1..l /\ Here = walk[l]
        /\ \A n \in 1..l : walk[n].tbl \in Tables /\ walk[n].at \in Int
        /\ \A m, n \in 1..l : walk[m].tbl = walk[n].tbl => m = n
        /\ Len(walk) = l
    BY <1>1, FramesAre
  <1>21. \/ /\ e \in subtable /\ DOMAIN walk' = 1..(l + 1) /\ Len(walk') = l + 1
            /\ \A n \in 1..l : walk'[n] = walk[n]
            /\ walk'[l + 1] = [tbl |-> Child(e), at |-> Begin(Child(e))]
         \/ /\ e \notin subtable /\ DOMAIN walk' = 1..l /\ Len(walk') = l
            /\ \A n \in 1..(l - 1) : walk'[n] = walk[n]
            /\ walk'[l] = [tbl |-> Here.tbl, at |-> NextAt(Here.at)]
    BY GoesOnIs
  <1> HIDE DEF l
  <1>3. PICK T \in Tables, a \in Nat : T = Here.tbl /\ a = Here.at
    BY <1>1, EntryIs
  <1>4. /\ a \in 0..(Size(T) - 1) /\ e = <<T, Sorted(T)[a + 1]>>
        /\ walk[l].tbl = T /\ walk[l].at = a
    BY <1>2, <1>3 DEF AtEntry, EntryOf
  <1>5. e \in AllEntries
    <2>1. T \in Known
      BY <1>2, <1>4 DEF StructInv, StackInv, Known
    <2>2. e = <<T, Entry>> /\ Entry \in Entries(T) /\ Entry \in Nat
      BY <1>1, <1>3, EntryIs DEF EntryOf, Entry
    <2> QED
      BY <2>1, <2>2 DEF AllEntries
  <1> DEFINE q0 == Sorted(T)[a + 1]
  <1>6. e \notin P
    <2>1. l \in DOMAIN walk
      BY <1>2
    <2>2. <<T, Sorted(T)[a + 1]>> \in P <=> Passed(walk, l, a)
      BY <1>4, <2>1 DEF PassInv
    <2>3. ~Passed(walk, l, a)
      BY <1>2, <1>4 DEF Passed
    <2> QED
      BY <1>4, <2>2, <2>3
  <1> DEFINE Q == P \union {e}
  <1>7. ASSUME NEW t, t # T, NEW k PROVE <<t, k>> \in Q <=> <<t, k>> \in P
    BY <1>4, <1>7
  <1>8. ASSUME NEW q \in 0..(Size(T) - 1) PROVE <<T, Sorted(T)[q + 1]>> \in Q <=> (q = a \/ Passed(walk, l, q))
    <2>1. <<T, Sorted(T)[q + 1]>> \in P <=> Passed(walk, l, q)
      <3>1. l \in DOMAIN walk
        BY <1>2
      <3> QED
        BY <1>4, <3>1 DEF PassInv
    <2>2. <<T, Sorted(T)[q + 1]>> = e <=> q = a
      <3>1. Sorted(T)[q + 1] = Sorted(T)[a + 1] => q = a
        BY <1>1, <1>4, PlaceIs
      <3> QED
        BY <1>4, <3>1
    <2> QED
      BY <2>1, <2>2
  <1>9. ASSUME NEW n \in 1..l, n # l, NEW q \in 0..(Size(walk[n].tbl) - 1)
        PROVE  <<walk[n].tbl, Sorted(walk[n].tbl)[q + 1]>> \in Q <=>
                  (q = walk[n].at \/ IF call.order = "inc" THEN q < walk[n].at ELSE q > walk[n].at)
    <2>1. walk[n].tbl # T /\ n < l /\ n \in DOMAIN walk
      BY <1>2, <1>4, <1>9
    <2>2. <<walk[n].tbl, Sorted(walk[n].tbl)[q + 1]>> \in P <=> Passed(walk, n, q)
      BY <2>1 DEF PassInv
    <2> HIDE DEF Q
    <2>3. Passed(walk, n, q) <=>
             (q = walk[n].at \/ IF call.order = "inc" THEN q < walk[n].at ELSE q > walk[n].at)
      BY <1>2, <2>1 DEF Passed
    <2>4. <<walk[n].tbl, Sorted(walk[n].tbl)[q + 1]>> \in Q <=> Passed(walk, n, q)
      <3> DEFINE t == walk[n].tbl
                 k == Sorted(t)[q + 1]
      <3>1. <<t, k>> \in Q <=> <<t, k>> \in P
        <4> HIDE DEF t, k
        <4>1. t # T
          BY <2>1 DEF t
        <4> QED
          BY <1>7, <4>1
      <3> QED
        BY <2>2, <3>1
    <2> QED
      BY <2>3, <2>4
  <1> HIDE DEF Q
  <1>10. ASSUME NEW f \in subtable, f # e, \A n \in 1..l : walk[n].tbl # Child(f)
         PROVE  \A k \in Entries(Child(f)) : <<Child(f), k>> \in Q <=> f \in Q
    <2>1. \A k \in Entries(Child(f)) : <<Child(f), k>> \in P <=> f \in P
      BY <1>2, <1>10 DEF PassInv
    <2>2. Child(f) # T
      BY <1>2, <1>4, <1>10
    <2>3. f \in Q <=> f \in P
      BY <1>10 DEF Q
    <2> QED
      BY <1>7, <2>1, <2>2, <2>3
  <1>11. CASE /\ e \in subtable /\ DOMAIN walk' = 1..(l + 1) /\ Len(walk') = l + 1
              /\ \A n \in 1..l : walk'[n] = walk[n]
              /\ walk'[l + 1] = [tbl |-> Child(e), at |-> Begin(Child(e))]
    <2> DEFINE c == Child(e)
               w == walk'
    <2>1. /\ \A n \in 1..l : walk[n].tbl # c
          /\ c \in Tables
      <3>1. c \in Tables
        BY <1>1, <1>11 DEF TreeInv, VisitTypeInv, Tables
      <3>2. /\ EntryOf(Last(walk)) = e /\ Last(walk).at \in 0..(Size(Last(walk).tbl) - 1)
            /\ StackInv(walk) /\ DescentInv(walk)
        BY <1>1, HereIs DEF AtEntry, StructInv
      <3> QED
        BY <1>1, <1>2, <1>11, <3>1, <3>2, WalkIntoSubgroup
    <2>2. \A k \in Entries(c) : <<c, k>> \notin Q
      <3>1. c # T
        BY <1>2, <1>4, <2>1
      <3>2. \A k \in Entries(c) : <<c, k>> \notin P
        BY <1>2, <1>6, <1>11, <2>1 DEF PassInv
      <3> QED
        BY <1>7, <3>1, <3>2
    <2>3. Begin(c) = IF call.order = "inc" THEN 0 ELSE Size(c) - 1
      BY <1>1 DEF Begin
    <2> HIDE DEF c
    <2>4. w[l + 1].tbl = c /\ w[l + 1].at = IF call.order = "inc" THEN 0 ELSE Size(c) - 1
      BY <1>11, <2>3 DEF c
    <2>5. DOMAIN w = 1..(l + 1) /\ Len(w) = l + 1 /\ \A n \in 1..l : w[n] = walk[n]
      BY <1>11
    <2> HIDE DEF w
    <2>6. ASSUME NEW n \in 1..(l + 1), NEW q \in 0..(Size(w[n].tbl) - 1)
          PROVE  <<w[n].tbl, Sorted(w[n].tbl)[q + 1]>> \in Q <=> Passed(w, n, q)
      <3>1. CASE n = l + 1
        <4>1. q \in 0..(Size(c) - 1) /\ Size(c) \in Nat
          BY <2>1, <2>4, <2>6, <3>1, PlaceIs, <1>1
        <4>2. Sorted(c)[q + 1] \in Entries(c)
          BY <1>1, <2>1, <4>1, PlaceIs
        <4>3. ~Passed(w, n, q)
          BY <1>2, <2>4, <2>5, <3>1, <4>1 DEF Passed
        <4>4. w[n].tbl = c
          BY <2>4, <3>1
        <4> DEFINE k == Sorted(c)[q + 1]
        <4>5. <<c, k>> \notin Q
          BY <2>2, <4>2
        <4>6. <<w[n].tbl, Sorted(w[n].tbl)[q + 1]>> = <<c, k>>
          BY <4>4
        <4> HIDE DEF k
        <4> QED
          BY <4>3, <4>5, <4>6, Zenon
      <3>2. CASE n \in 1..l /\ n # l
        <4>1. w[n] = walk[n] /\ n < l + 1 /\ q \in 0..(Size(walk[n].tbl) - 1)
          BY <1>2, <2>5, <2>6, <3>2
        <4>2. <<walk[n].tbl, Sorted(walk[n].tbl)[q + 1]>> \in Q <=>
                  (q = walk[n].at \/ IF call.order = "inc" THEN q < walk[n].at ELSE q > walk[n].at)
          BY <1>9, <3>2, <4>1
        <4> QED
          BY <2>5, <4>1, <4>2 DEF Passed
      <3>3. CASE n = l
        <4>1. w[n].tbl = T /\ w[n].at = a /\ n < l + 1 /\ q \in 0..(Size(T) - 1)
          BY <1>2, <1>4, <2>5, <2>6, <3>3
        <4>2. <<T, Sorted(T)[q + 1]>> \in Q <=> (q = a \/ Passed(walk, l, q))
          BY <1>8, <4>1
        <4>3. Passed(walk, l, q) <=> IF call.order = "inc" THEN q < a ELSE q > a
          BY <1>2, <1>4 DEF Passed
        <4>4. Passed(w, n, q) <=> (q = a \/ IF call.order = "inc" THEN q < a ELSE q > a)
          BY <2>5, <4>1 DEF Passed
        <4> QED
          BY <4>1, <4>2, <4>3, <4>4
      <3>4. n = l + 1 \/ n \in 1..l
        BY <1>2
      <3> QED
        BY <3>1, <3>2, <3>3, <3>4
    <2>7. ASSUME NEW f \in subtable, \A n \in 1..(l + 1) : w[n].tbl # Child(f)
          PROVE  \A k \in Entries(Child(f)) : <<Child(f), k>> \in Q <=> f \in Q
      <3>1. \A n \in 1..l : n \in 1..(l + 1) /\ walk[n].tbl = w[n].tbl
        BY <1>2, <2>5
      <3>2. l + 1 \in 1..(l + 1)
        BY <1>2
      <3>3. f # e
        BY <2>4, <2>7, <3>2 DEF c
      <3> QED
        BY <1>10, <2>7, <3>1, <3>3
    <2>8. PassInv(w, Q)
      BY <2>5, <2>6, <2>7 DEF PassInv
    <2> QED
      BY <1>5, <1>6, <2>8 DEF w, Q
  <1>12. CASE /\ e \notin subtable /\ DOMAIN walk' = 1..l /\ Len(walk') = l
              /\ \A n \in 1..(l - 1) : walk'[n] = walk[n]
              /\ walk'[l] = [tbl |-> Here.tbl, at |-> NextAt(Here.at)]
    <2> DEFINE w == walk'
    <2>1. /\ DOMAIN w = 1..l /\ Len(w) = l /\ \A n \in 1..(l - 1) : w[n] = walk[n]
          /\ w[l].tbl = T /\ w[l].at = NextAt(a)
      BY <1>3, <1>12
    <2> HIDE DEF w
    <2>2. ASSUME NEW n \in 1..l, NEW q \in 0..(Size(w[n].tbl) - 1)
          PROVE  <<w[n].tbl, Sorted(w[n].tbl)[q + 1]>> \in Q <=> Passed(w, n, q)
      <3>1. CASE n # l
        <4>1. w[n] = walk[n] /\ n < l /\ q \in 0..(Size(walk[n].tbl) - 1)
          BY <1>2, <2>1, <2>2, <3>1
        <4>2. <<walk[n].tbl, Sorted(walk[n].tbl)[q + 1]>> \in Q <=>
                  (q = walk[n].at \/ IF call.order = "inc" THEN q < walk[n].at ELSE q > walk[n].at)
          BY <1>9, <3>1, <4>1
        <4> QED
          BY <2>1, <4>1, <4>2 DEF Passed
      <3>2. CASE n = l
        <4>1. w[n].tbl = T /\ w[n].at = NextAt(a) /\ q \in 0..(Size(T) - 1)
          BY <2>1, <2>2, <3>2
        <4>2. <<T, Sorted(T)[q + 1]>> \in Q <=> (q = a \/ Passed(walk, l, q))
          BY <1>8, <4>1
        <4>3. Passed(walk, l, q) <=> IF call.order = "inc" THEN q < a ELSE q > a
          BY <1>2, <1>4 DEF Passed
        <4>4. Passed(w, n, q) <=> IF call.order = "inc" THEN q < a + 1 ELSE q > a - 1
          BY <1>2, <2>1, <3>2, <4>1 DEF Passed, NextAt
        <4>5. q \in Int /\ a \in Int
          OBVIOUS
        <4> QED
          BY <4>1, <4>2, <4>3, <4>4, <4>5
      <3> QED
        BY <3>1, <3>2
    <2>3. ASSUME NEW f \in subtable, \A n \in 1..l : w[n].tbl # Child(f)
          PROVE  \A k \in Entries(Child(f)) : <<Child(f), k>> \in Q <=> f \in Q
      <3>1. \A n \in 1..l : walk[n].tbl = w[n].tbl
        <4> SUFFICES ASSUME NEW n \in 1..l PROVE walk[n].tbl = w[n].tbl
          OBVIOUS
        <4>1. n = l \/ n \in 1..(l - 1)
          BY <1>2
        <4> QED
          BY <1>4, <2>1, <4>1
      <3>2. f # e
        BY <1>12
      <3> QED
        BY <1>10, <2>3, <3>1, <3>2
    <2>4. PassInv(w, Q)
      BY <2>1, <2>2, <2>3 DEF PassInv
    <2> QED
      BY <1>5, <1>6, <2>4 DEF w, Q
  <1> QED
    BY <1>11, <1>12, <1>21

\* A table is passed: with the top one everything is, with another one the entry
\* it hangs on.
LEMMA PassReturns ==
    ASSUME StructInv, SpanInv, walk # <<>>, NEW last_idx, FrameReturns(walk, last_idx),
           NEW P \in SUBSET AllEntries, PassInv(walk, P),
           IF call.order = "inc" THEN Here.at >= Size(Here.tbl) ELSE Here.at < 0
    PROVE  IF Len(walk) = 1 THEN P = AllEntries ELSE PassInv(walk', P)
  <1>1. VisitTypeInv /\ TreeInv /\ StackInv(walk) /\ DescentInv(walk)
    BY DEF StructInv
  <1> DEFINE l == Len(walk)
             w == walk'
  <1>2. /\ l \in Nat \ {0} /\ DOMAIN walk = 1..l /\ Here = walk[l]
        /\ \A n \in 1..l : walk[n].tbl \in Tables /\ walk[n].at \in Int
        /\ \A m, n \in 1..l : walk[m].tbl = walk[n].tbl => m = n
        /\ Len(walk) = l
    BY FramesAre
  <1>3. l # 1 => /\ l > 1 /\ DOMAIN w = 1..(l - 1) /\ Len(w) = l - 1
                 /\ \A n \in 1..(l - 2) : w[n] = walk[n]
                 /\ w[l - 1] = [tbl |-> walk[l - 1].tbl, at |-> NextAt(walk[l - 1].at)]
    BY FrameReturnsIs
  <1>4. PICK T \in Tables : T = Here.tbl
    BY <1>2
  <1> HIDE DEF l, w
  <1>5. ASSUME NEW k \in Entries(T) PROVE <<T, k>> \in P
    <2>1. PICK q \in 0..(Size(T) - 1) : Sorted(T)[q + 1] = k
      BY <1>1, PlaceIs
    <2>2. Size(T) \in Nat /\ Here.at \in Int
      BY <1>1, <1>2, PlaceIs
    <2>3. Passed(walk, l, q)
      BY <1>2, <1>4, <2>2 DEF Passed
    <2>4. <<T, Sorted(T)[q + 1]>> \in P <=> Passed(walk, l, q)
      <3>1. l \in DOMAIN walk /\ walk[l].tbl = T
        BY <1>2, <1>4
      <3> QED
        BY <3>1 DEF PassInv
    <2> QED
      BY <2>1, <2>3, <2>4
  <1>6. CASE l = 1
    <2>1. T = Top
      BY <1>1, <1>2, <1>4, <1>6 DEF StackInv
    <2>2. ASSUME NEW e \in subtable PROVE \A k \in Entries(Child(e)) : <<Child(e), k>> \in P <=> e \in P
      <3>1. Child(e) # Top
        BY <1>1, TopIsNoGroup DEF TreeInv, VisitTypeInv
      <3>2. \A n \in DOMAIN walk : walk[n].tbl # Child(e)
        BY <1>2, <1>4, <1>6, <2>1, <3>1
      <3> QED
        BY <3>2 DEF PassInv
    <2>3. P = AllEntries
      BY <1>5, <2>1, <2>2, AllPassed
    <2> QED
      BY <1>2, <1>6, <2>3
  <1>7. CASE l # 1
    <2> DEFINE m == l - 1
    <2>1. m \in Nat \ {0} /\ m + 1 = l /\ m < l /\ m \in 1..l /\ l - 2 = m - 1
      BY <1>2, <1>3, <1>7
    <2>2. /\ DOMAIN w = 1..m /\ Len(w) = m /\ \A n \in 1..(m - 1) : w[n] = walk[n]
          /\ w[m].tbl = walk[m].tbl /\ w[m].at = NextAt(walk[m].at)
      BY <1>3, <1>7, <2>1
    <2> HIDE DEF m
    <2>3. ASSUME NEW n \in 1..m PROVE n \in 1..l /\ n < l /\ w[n].tbl = walk[n].tbl /\ n # l
      <3>1. n = m \/ n \in 1..(m - 1)
        BY <2>1
      <3> QED
        BY <1>2, <2>1, <2>2, <3>1
    <2>4. ASSUME NEW n \in 1..m, NEW q \in 0..(Size(w[n].tbl) - 1)
          PROVE  <<w[n].tbl, Sorted(w[n].tbl)[q + 1]>> \in P <=> Passed(w, n, q)
      <3>1. n \in 1..l /\ n < l /\ w[n].tbl = walk[n].tbl
        BY <2>3
      <3>2. <<walk[n].tbl, Sorted(walk[n].tbl)[q + 1]>> \in P <=> Passed(walk, n, q)
        BY <1>2, <2>4, <3>1 DEF PassInv
      <3>3. Passed(walk, n, q) <=>
               (q = walk[n].at \/ IF call.order = "inc" THEN q < walk[n].at ELSE q > walk[n].at)
        BY <1>2, <3>1 DEF Passed
      <3>4. Passed(w, n, q) <=>
               (q = walk[n].at \/ IF call.order = "inc" THEN q < walk[n].at ELSE q > walk[n].at)
        <4>1. CASE n = m
          <5>1. walk[n].at \in Int /\ q \in Int /\ w[n].at = NextAt(walk[n].at) /\ ~(n < Len(w))
            BY <1>2, <2>1, <2>2, <3>1, <4>1
          <5>2. PICK a \in Int : a = walk[n].at
            BY <5>1
          <5>3. Passed(w, n, q) <=> IF call.order = "inc" THEN q < a + 1 ELSE q > a - 1
            BY <5>1, <5>2 DEF Passed, NextAt
          <5>4. (q < a + 1 <=> q = a \/ q < a) /\ (q > a - 1 <=> q = a \/ q > a)
            BY <5>1
          <5> QED
            BY <5>2, <5>3, <5>4
        <4>2. CASE n # m
          <5>1. n < Len(w) /\ w[n] = walk[n]
            BY <2>1, <2>2, <4>2
          <5> QED
            BY <5>1 DEF Passed
        <4> QED
          BY <4>1, <4>2
      <3>5. <<w[n].tbl, Sorted(w[n].tbl)[q + 1]>> = <<walk[n].tbl, Sorted(walk[n].tbl)[q + 1]>>
        BY <3>1
      <3> QED
        BY <3>2, <3>3, <3>4, <3>5
    <2>5. ASSUME NEW f \in subtable, \A n \in 1..m : w[n].tbl # Child(f), NEW k \in Entries(Child(f))
          PROVE  <<Child(f), k>> \in P <=> f \in P
      <3>1. CASE \A n \in DOMAIN walk : walk[n].tbl # Child(f)
        BY <3>1 DEF PassInv
      <3>2. ASSUME NEW n \in 1..l, walk[n].tbl = Child(f) PROVE <<Child(f), k>> \in P <=> f \in P
        <4>1. n = l
          <5>1. n \in 1..m => w[n].tbl = walk[n].tbl
            BY <2>3
          <5>2. n = l \/ n \in 1..m
            BY <2>1
          <5> QED
            BY <2>5, <3>2, <5>1, <5>2
        <4>2. Child(f) = T
          BY <1>2, <1>4, <3>2, <4>1
        <4>3. <<Child(f), k>> \in P
          BY <1>5, <4>2
        <4> DEFINE g == EntryOf(walk[m])
        <4>4. g \in subtable /\ Child(g) = T /\ walk[m].at \in 0..(Size(walk[m].tbl) - 1)
          <5>1. m \in DOMAIN walk /\ m + 1 \in DOMAIN walk /\ walk[m + 1].tbl = T
            BY <1>2, <1>4, <2>1
          <5> QED
            BY <1>1, <5>1 DEF DescentInv
        <4>5. f = g
          <5> HIDE DEF g
          <5> QED
            BY <1>1, <4>2, <4>4 DEF TreeInv
        <4>6. g \in P
          <5>1. PICK q : q = walk[m].at
            OBVIOUS
          <5>2. Passed(walk, m, q)
            BY <1>2, <2>1, <5>1 DEF Passed
          <5>3. g = <<walk[m].tbl, Sorted(walk[m].tbl)[q + 1]>>
            BY <5>1 DEF EntryOf
          <5>4. m \in DOMAIN walk /\ q \in 0..(Size(walk[m].tbl) - 1)
            BY <1>2, <2>1, <4>4, <5>1
          <5>5. <<walk[m].tbl, Sorted(walk[m].tbl)[q + 1]>> \in P <=> Passed(walk, m, q)
            BY <5>4 DEF PassInv
          <5> QED
            BY <5>2, <5>3, <5>5
        <4> QED
          BY <4>3, <4>5, <4>6
      <3> QED
        BY <1>2, <3>1, <3>2
    <2>6. PassInv(w, P)
      BY <2>2, <2>4, <2>5 DEF PassInv
    <2> QED
      BY <1>2, <1>7, <2>6 DEF w
  <1> QED
    BY <1>6, <1>7

LEMMA LogSame ==
    ASSUME UNCHANGED <<graph, call, log, visited_object_table>>, NEW P, LogInv(P)
    PROVE  LogInv(P)'
  <1>1. ASSUME NEW e PROVE LinkOf(e)' = LinkOf(e) /\ Child(e)' = Child(e)
    BY DEF LinkOf, Child, GroupOf
  <1> QED
    BY <1>1 DEF LogInv

LEMMA EntriesSame ==
    ASSUME UNCHANGED <<graph, visited_link_table>> PROVE AllEntries' = AllEntries
  <1>1. Known' = Known /\ \A t : Entries(t)' = Entries(t)
    BY DEF Known, Entries, GroupOf
  <1> QED
    BY <1>1 DEF AllEntries

LEMMA PassSame ==
    ASSUME UNCHANGED <<graph, call, subtable>>, NEW P, PassInv(walk', P)
    PROVE  PassInv(walk, P)'
  <1>1. ASSUME NEW t PROVE Entries(t)' = Entries(t) /\ Size(t)' = Size(t) /\ Child(t)' = Child(t)
                           /\ Sorted(t)' = Sorted(t)
    BY DEF Entries, GroupOf, Size, Child, LinkOf, Sorted
  <1>2. \A n, q : Passed(walk, n, q)' = Passed(walk', n, q)
    BY DEF Passed
  <1>3. ASSUME NEW n \in DOMAIN walk', NEW q \in (0..(Size(walk[n].tbl) - 1))'
        PROVE  <<walk'[n].tbl, Sorted(walk[n].tbl)'[q + 1]>> \in P <=> Passed(walk, n, q)'
    <2>1. PICK t : t = walk'[n].tbl
      OBVIOUS
    <2>2. q \in 0..(Size(t) - 1) /\ Sorted(walk[n].tbl)' = Sorted(t)
      BY <2>1 DEF Size, GroupOf, Sorted
    <2>3. <<t, Sorted(t)[q + 1]>> \in P <=> Passed(walk', n, q)
      BY <2>1, <2>2 DEF PassInv
    <2> QED
      BY <1>2, <2>1, <2>2, <2>3
  <1>4. ASSUME NEW e \in subtable', \A n \in DOMAIN walk' : walk'[n].tbl # Child(e)',
               NEW k \in Entries(Child(e))'
        PROVE  <<Child(e)', k>> \in P <=> e \in P
    <2>1. Child(e)' = Child(e) /\ Entries(Child(e))' = Entries(Child(e))
      BY DEF Child, LinkOf, GroupOf, Entries
    <2> QED
      BY <1>4, <2>1 DEF PassInv
  <1> QED
    BY <1>3, <1>4 DEF PassInv

\* An entry is reported, or left out because its object has been.
LEMMA LogReports ==
    ASSUME VisitTypeInv, UNCHANGED <<graph, call>>, NEW P, LogInv(P), NEW e, e \notin P,
           log' = Append(log, e),
           call.op = "H5Ovisit" =>
              /\ LinkOf(e).kind # "soft" /\ Child(e) \notin visited_object_table
              /\ visited_object_table' = visited_object_table \union {Child(e)}
    PROVE  LogInv(P \union {e})'
  <1> DEFINE m == Len(log)
             Q == P \union {e}
  <1>1. ASSUME NEW f PROVE LinkOf(f)' = LinkOf(f) /\ Child(f)' = Child(f)
    BY DEF LinkOf, Child, GroupOf
  <1>2. m \in Nat /\ DOMAIN log = 1..m /\ (log # <<>> => m # 0)
    <2>1. log \in Seq(Tables \X Nat)
      BY DEF VisitTypeInv
    <2> QED
      BY <2>1, LenProperties, EmptySeq
  <1>3. /\ DOMAIN log' = 1..(m + 1) /\ Len(log') = m + 1 /\ log' # <<>>
        /\ \A n \in 1..m : log'[n] = log[n]
        /\ log'[m + 1] = e
    <2>1. log \in Seq((Tables \X Nat) \union {e}) /\ e \in (Tables \X Nat) \union {e}
      BY DEF VisitTypeInv
    <2> DEFINE F == (Tables \X Nat) \union {e}
    <2> HIDE DEF F
    <2>2. log \in Seq(F) /\ e \in F
      BY <2>1 DEF F
    <2> QED
      BY <2>2, StackPush
  <1> HIDE DEF m, Q
  <1>4. \A n \in 1..(m + 1) : n = m + 1 \/ n \in 1..m
    BY <1>2
  <1>5. 1..m \subseteq 1..(m + 1) /\ m + 1 \in 1..(m + 1)
    BY <1>2
  <1>6. CASE call.op = "H5Lvisit"
    <2>1. Range(log) = P /\ IsInjective(log)
      BY <1>6 DEF LogInv
    <2>2. \A f : f \in P <=> \E n \in 1..m : log[n] = f
      BY <1>2, <2>1 DEF Range
    <2>3. \A f : f \in Q <=> \E n \in 1..(m + 1) : log'[n] = f
      BY <1>3, <1>4, <1>5, <2>2 DEF Q
    <2>4. Range(log') = Q
      BY <1>3, <2>3 DEF Range
    <2>5. ASSUME NEW j \in 1..(m + 1), NEW n \in 1..(m + 1), log'[j] = log'[n] PROVE j = n
      <3>1. CASE j \in 1..m /\ n \in 1..m
        BY <1>2, <1>3, <2>1, <2>5, <3>1 DEF IsInjective
      <3>2. CASE j = m + 1 \/ n = m + 1
        BY <1>3, <1>4, <2>2, <2>5, <3>2
      <3> QED
        BY <1>4, <3>1, <3>2
    <2>6. IsInjective(log')
      BY <1>3, <2>5 DEF IsInjective
    <2> QED
      BY <1>6, <2>4, <2>6 DEF LogInv, Range, IsInjective, Q
  <1>7. CASE call.op = "H5Ovisit"
    <2> DEFINE c == Child(e)
    <2>0. /\ log # <<>> /\ log[1] = <<Top, 0>>
          /\ \A o : o \in visited_object_table <=> \E f \in P : LinkOf(f).kind # "soft" /\ Child(f) = o
          /\ \A n \in 2..m : log[n] \in P /\ LinkOf(log[n]).kind # "soft"
          /\ \A o \in visited_object_table : \E n \in 2..m : Child(log[n]) = o
          /\ \A j, n \in 2..m : Child(log[j]) = Child(log[n]) => j = n
      BY <1>7 DEF LogInv, m
    <2>1. /\ LinkOf(e).kind # "soft" /\ c \notin visited_object_table
          /\ visited_object_table' = visited_object_table \union {c}
      BY <1>7
    <2> HIDE DEF c
    <2>2. m \in Nat \ {0} /\ 1 \in 1..m
      BY <1>2, <2>0
    <2>3. /\ \A n \in 2..(m + 1) : n = m + 1 \/ (n \in 2..m /\ n \in 1..m)
          /\ \A n \in 2..m : n \in 2..(m + 1) /\ n \in 1..m
          /\ m + 1 \in 2..(m + 1)
      BY <2>2
    <2>4. log'[1] = <<Top, 0>>
      BY <1>3, <2>0, <2>2
    <2>5. \A o : o \in visited_object_table' <=> \E f \in Q : LinkOf(f).kind # "soft" /\ Child(f) = o
      BY <2>0, <2>1 DEF Q, c
    <2>6. ASSUME NEW n \in 2..(m + 1) PROVE log'[n] \in Q /\ LinkOf(log'[n]).kind # "soft"
      BY <1>3, <2>0, <2>1, <2>3 DEF Q
    <2>7. ASSUME NEW o \in visited_object_table' PROVE \E n \in 2..(m + 1) : Child(log'[n]) = o
      <3>1. CASE o \in visited_object_table
        <4>1. PICK n \in 2..m : Child(log[n]) = o
          BY <2>0, <3>1
        <4>2. n \in 2..(m + 1) /\ log'[n] = log[n]
          BY <1>3, <2>3
        <4> QED
          BY <4>1, <4>2
      <3>2. CASE o = c
        BY <1>3, <2>3, <3>2 DEF c
      <3> QED
        BY <2>1, <3>1, <3>2
    <2>8. ASSUME NEW j \in 2..(m + 1), NEW n \in 2..(m + 1), Child(log'[j]) = Child(log'[n]) PROVE j = n
      <3>1. ASSUME NEW i \in 2..m PROVE log'[i] = log[i] /\ Child(log[i]) # c
        <4>1. log[i] \in P /\ LinkOf(log[i]).kind # "soft"
          BY <2>0
        <4>2. Child(log[i]) \in visited_object_table
          BY <2>0, <4>1
        <4> QED
          BY <1>3, <2>1, <2>3, <4>2
      <3>2. Child(log'[m + 1]) = c
        BY <1>3 DEF c
      <3>3. CASE j \in 2..m /\ n \in 2..m
        <4>1. Child(log[j]) = Child(log[n])
          BY <2>8, <3>1, <3>3
        <4> QED
          BY <2>0, <3>3, <4>1
      <3>4. ASSUME NEW i \in 2..m PROVE Child(log'[i]) # Child(log'[m + 1])
        BY <3>1, <3>2
      <3>5. j = m + 1 /\ n # m + 1 => n \in 2..m
        BY <2>3
      <3>6. n = m + 1 /\ j # m + 1 => j \in 2..m
        BY <2>3
      <3>7. CASE j = m + 1 \/ n = m + 1
        BY <2>8, <3>4, <3>5, <3>6, <3>7
      <3> QED
        BY <2>3, <3>3, <3>7
    <2>9. ASSUME NEW n PROVE LinkOf(log[n])' = LinkOf(log'[n]) /\ Child(log[n])' = Child(log'[n])
      BY DEF LinkOf, Child, GroupOf
    <2>10. \A o : o \in visited_object_table' <=> \E f \in Q : LinkOf(f)'.kind # "soft" /\ Child(f)' = o
      BY <1>1, <2>5
    <2> QED
      BY <1>3, <1>7, <2>4, <2>6, <2>7, <2>8, <2>9, <2>10, SMTT(30) DEF LogInv, Q
  <1>8. CASE call.op \notin {"H5Lvisit", "H5Ovisit"}
    BY <1>8 DEF LogInv
  <1> QED
    BY <1>6, <1>7, <1>8

LEMMA LogSkips ==
    ASSUME UNCHANGED <<graph, call, log, visited_object_table>>, NEW P, LogInv(P), NEW e,
           call.op = "H5Ovisit", LinkOf(e).kind = "soft" \/ Child(e) \in visited_object_table
    PROVE  LogInv(P \union {e})'
  <1> DEFINE Q == P \union {e}
  <1>1. \A o : o \in visited_object_table <=> \E f \in Q : LinkOf(f).kind # "soft" /\ Child(f) = o
    BY DEF LogInv
  <1>2. LogInv(Q)
    BY <1>1 DEF LogInv
  <1> HIDE DEF Q
  <1>3. LogInv(Q)'
    BY <1>2, LogSame
  <1> QED
    BY <1>3 DEF Q

LEMMA CompleteInit ==
    ASSUME Init PROVE CompleteInv
  BY DEF Init, CompleteInv, ToTheEnd

\* The walk of the top table begins.
LEMMA PassBegins ==
    ASSUME VisitTypeInv, Recursive, PhaseInv, NEW w, w = <<[tbl |-> Top, at |-> Begin(Top)]>>
    PROVE  PassInv(w, {})
  <1>1. DOMAIN w = {1} /\ Len(w) = 1 /\ w[1].tbl = Top /\ w[1].at = Begin(Top)
    OBVIOUS
  <1>2. Size(Top) \in Nat /\ Begin(Top) = IF call.order = "inc" THEN 0 ELSE Size(Top) - 1
    BY TopIs DEF PhaseInv, Begin
  <1>3. ASSUME NEW q \in 0..(Size(Top) - 1) PROVE ~Passed(w, 1, q)
    BY <1>1, <1>2 DEF Passed
  <1> QED
    BY <1>1, <1>3 DEF PassInv

LEMMA CompleteTableBuilt ==
    ASSUME StructInv, CoverInv, CompleteInv, TableBuilt PROVE CompleteInv'
  <1>1. /\ VisitTypeInv /\ PhaseInv /\ build # <<>> /\ walk = <<>> /\ out = "running"
        /\ UNCHANGED <<graph, call, subtable, visited_link_table, log, visited_object_table>>
    BY DEF TableBuilt, StructInv, PhaseInv, Running
  <1> SUFFICES ASSUME Recursive'
               PROVE  /\ build' # <<>> => LogInv({})'
                      /\ walk' # <<>> => \E P \in SUBSET AllEntries' : PassInv(walk, P)' /\ LogInv(P)'
                      /\ ToTheEnd' => LogInv(AllEntries)'
    BY DEF CompleteInv
  <1>2. Recursive /\ AllEntries' = AllEntries
    BY <1>1, EntriesSame DEF Recursive
  <1>3. LogInv({})'
    <2>1. LogInv({})
      BY <1>1, <1>2 DEF CompleteInv
    <2> QED
      BY <1>1, <2>1, LogSame
  <1>4. CASE build' = Front(build) /\ UNCHANGED <<walk, out>>
    BY <1>1, <1>3, <1>4 DEF ToTheEnd
  <1>5. CASE Size(Top) = 0 /\ Returns("ok")
    <2>1. {} = AllEntries
      <3>1. Entries(Top) = {}
        BY <1>1, <1>5, TopIs
      <3> DEFINE none == {}
      <3>2. none \in SUBSET AllEntries /\ SpanInv /\ \A x : x \notin none
        BY DEF CoverInv
      <3> HIDE DEF none
      <3>3. /\ \A k \in Entries(Top) : <<Top, k>> \in none
            /\ \A e \in subtable : \A k \in Entries(Child(e)) : <<Child(e), k>> \in none <=> e \in none
        BY <3>1, <3>2
      <3>4. none = AllEntries
        BY <3>2, <3>3, AllPassed
      <3> QED
        BY <3>4 DEF none
    <2>2. LogInv(AllEntries)'
      BY <1>2, <1>3, <2>1
    <2> QED
      BY <1>3, <1>5, <2>2 DEF Returns
  <1>6. CASE build' = <<>> /\ walk' = <<[tbl |-> Top, at |-> Begin(Top)]>> /\ UNCHANGED out
    <2>1. PassInv(walk', {})
      BY <1>1, <1>2, <1>6, PassBegins
    <2>2. PassInv(walk, {})'
      BY <1>1, <2>1, PassSame
    <2>3. {} \in SUBSET AllEntries'
      OBVIOUS
    <2> QED
      BY <1>1, <1>3, <1>6, <2>2, <2>3 DEF ToTheEnd
  <1> QED
    BY <1>4, <1>5, <1>6 DEF TableBuilt

\* An entry is passed.
LEMMA CompleteGoesOn ==
    ASSUME UNCHANGED <<graph, call, subtable, visited_link_table>>, build' = <<>>, ~ToTheEnd',
           NEW P \in SUBSET AllEntries, PassInv(walk', P), LogInv(P)'
    PROVE  CompleteInv'
  <1>1. PassInv(walk, P)'
    BY PassSame
  <1>2. AllEntries' = AllEntries
    BY EntriesSame
  <1> QED
    BY <1>1, <1>2 DEF CompleteInv

\* What the function has been told to stop says nothing more.
LEMMA CompleteStopped ==
    ASSUME stopped', build' = <<>> PROVE CompleteInv'
  BY DEF CompleteInv, ToTheEnd

LEMMA CompleteReport ==
    ASSUME StructInv, CompleteInv, NEW r \in Results, Report(r) PROVE CompleteInv'
  <1>1. /\ VisitTypeInv /\ PhaseInv /\ AtEntry /\ walk # <<>> /\ build = <<>>
        /\ UNCHANGED <<graph, call, subtable, visited_link_table>>
        /\ stopped' = (stopped \/ r > 0)
    BY DEF Report, StructInv, PhaseInv, AtEntry
  <1>2. CASE Returns("failed")
    BY <1>2 DEF Returns, CompleteInv, ToTheEnd
  <1>3. CASE r > 0 /\ FrameReturns(walk, Here.at)
    BY <1>1, <1>3, CompleteStopped DEF FrameReturns, Returns
  <1>4. CASE r = 0 /\ GoesOn
    <2>1. build' = <<>> /\ out = "running" /\ out' = "running" /\ ~ToTheEnd'
      BY <1>1, <1>4 DEF GoesOn, PhaseInv, Running, ToTheEnd
    <2>2. CASE stopped
      BY <1>1, <2>1, <2>2, CompleteStopped
    <2>3. CASE ~Recursive
      BY <1>1, <2>3 DEF CompleteInv, Recursive
    <2>4. CASE ~stopped /\ Recursive
      <3>1. PICK e : e = EntryOf(Here)
        OBVIOUS
      <3>2. e = <<Here.tbl, Entry>> /\ LinkOf(e) = EntryLink /\ Child(e) = EntryLink.to
        BY <3>1 DEF EntryOf, Entry, LinkOf, Child, EntryLink
      <3>3. log' = Append(log, e)
        BY <3>2 DEF Report
      <3>4. call.op = "H5Ovisit" =>
              /\ LinkOf(e).kind # "soft" /\ Child(e) \notin visited_object_table
              /\ visited_object_table' = visited_object_table \union {Child(e)}
        BY <1>4, <3>2 DEF Report, Reports
      <3>5. PICK P \in SUBSET AllEntries : PassInv(walk, P) /\ LogInv(P)
        BY <1>1, <2>4 DEF CompleteInv
      <3>6. e \notin P /\ e \in AllEntries /\ PassInv(walk', P \union {e})
        BY <1>1, <1>4, <2>4, <3>1, <3>5, PassGoesOn
      <3>7. LogInv(P \union {e})'
        BY <1>1, <3>3, <3>4, <3>5, <3>6, LogReports
      <3> DEFINE Q == P \union {e}
      <3>8. Q \in SUBSET AllEntries /\ PassInv(walk', Q)
        BY <3>5, <3>6
      <3>9. LogInv(Q)'
        BY <3>7
      <3> HIDE DEF Q
      <3> QED
        BY <1>1, <2>1, <3>8, <3>9, CompleteGoesOn
    <2> QED
      BY <2>2, <2>3, <2>4
  <1> QED
    BY <1>2, <1>3, <1>4 DEF Report

LEMMA CompleteSkips ==
    ASSUME StructInv, CompleteInv, Skips PROVE CompleteInv'
  <1>1. /\ VisitTypeInv /\ PhaseInv /\ AtEntry /\ GoesOn /\ walk # <<>> /\ build = <<>> /\ build' = <<>>
        /\ UNCHANGED <<graph, call, subtable, visited_link_table, log, visited_object_table, stopped>>
    BY DEF Skips, StructInv, PhaseInv, AtEntry, GoesOn
  <1>2. out' = "running" /\ ~ToTheEnd' /\ call.op = "H5Ovisit" /\ Recursive
    BY <1>1 DEF GoesOn, PhaseInv, Running, ToTheEnd, Skips, Reports, Recursive
  <1>3. CASE stopped
    BY <1>1, <1>3, CompleteStopped
  <1>4. CASE ~stopped
    <2>1. PICK e : e = EntryOf(Here)
      OBVIOUS
    <2>2. LinkOf(e) = EntryLink /\ Child(e) = EntryLink.to
      BY <2>1 DEF EntryOf, Entry, LinkOf, Child, EntryLink
    <2>3. LinkOf(e).kind = "soft" \/ Child(e) \in visited_object_table
      BY <1>2, <2>2 DEF Skips, Reports
    <2>4. PICK P \in SUBSET AllEntries : PassInv(walk, P) /\ LogInv(P)
      BY <1>1, <1>2, <1>4 DEF CompleteInv
    <2>5. e \notin P /\ e \in AllEntries /\ PassInv(walk', P \union {e})
      BY <1>1, <1>2, <2>1, <2>4, PassGoesOn
    <2>6. LogInv(P \union {e})'
      BY <1>1, <1>2, <2>3, <2>4, LogSkips
    <2> DEFINE Q == P \union {e}
    <2>7. Q \in SUBSET AllEntries /\ PassInv(walk', Q)
      BY <2>4, <2>5
    <2>8. LogInv(Q)'
      BY <2>6
    <2> HIDE DEF Q
    <2> QED
      BY <1>1, <1>2, <2>7, <2>8, CompleteGoesOn
  <1> QED
    BY <1>3, <1>4

LEMMA CompleteTableDone ==
    ASSUME StructInv, IndexInv, CoverInv, CompleteInv, TableDone PROVE CompleteInv'
  <1>1. /\ VisitTypeInv /\ PhaseInv /\ walk # <<>> /\ build = <<>> /\ build' = <<>> /\ out = "running"
        /\ UNCHANGED <<graph, call, subtable, visited_link_table, log, visited_object_table, stopped>>
    BY DEF TableDone, FrameReturns, Returns, StructInv, PhaseInv, Running
  <1>2. CASE stopped
    BY <1>1, <1>2, CompleteStopped
  <1>3. CASE ~Recursive
    BY <1>1, <1>3 DEF CompleteInv, Recursive
  <1>4. CASE ~stopped /\ Recursive
    <2>1. PICK P \in SUBSET AllEntries : PassInv(walk, P) /\ LogInv(P)
      BY <1>1, <1>4 DEF CompleteInv
    <2>2. IF call.order = "inc" THEN Here.at >= Size(Here.tbl) ELSE Here.at < 0
      <3>1. Here.at \in Int /\ Size(Here.tbl) \in Nat
        BY <1>1, HereIs
      <3>2. call.order = "inc" => Here.at >= 0
        <4> DEFINE n == Len(walk)
        <4> HIDE DEF n
        <4>1. n \in DOMAIN walk /\ Here = walk[n]
          BY <1>1, HereIs DEF n
        <4> QED
          BY <4>1 DEF IndexInv
      <3> QED
        BY <3>1, <3>2 DEF TableDone, AtEntry
    <2>3. PICK last_idx : FrameReturns(walk, last_idx)
      BY DEF TableDone
    <2>4. IF Len(walk) = 1 THEN P = AllEntries ELSE PassInv(walk', P)
      BY <1>1, <2>1, <2>2, <2>3, PassReturns DEF CoverInv
    <2>5. LogInv(P)' /\ AllEntries' = AllEntries
      BY <1>1, <2>1, LogSame, EntriesSame
    <2>6. CASE Len(walk) = 1
      <3>1. walk' = <<>>
        BY <2>3, <2>6 DEF FrameReturns, Returns
      <3>2. LogInv(AllEntries)'
        BY <2>4, <2>5, <2>6
      <3> QED
        BY <1>1, <3>1, <3>2 DEF CompleteInv
    <2>7. CASE Len(walk) # 1
      <3>1. ~ToTheEnd'
        BY <1>1, <2>3, <2>7 DEF FrameReturns, ToTheEnd
      <3>2. PassInv(walk, P)'
        BY <1>1, <2>4, <2>7, PassSame
      <3> QED
        BY <1>1, <2>1, <2>5, <3>1, <3>2 DEF CompleteInv
    <2> QED
      BY <2>6, <2>7
  <1> QED
    BY <1>2, <1>3, <1>4

LEMMA CompleteNext ==
    ASSUME StructInv, IndexInv, CoverInv, CompleteInv, [Next]_vars PROVE CompleteInv'
  <1>1. VisitTypeInv /\ PhaseInv
    BY DEF StructInv
  <1>2. ASSUME NEW op \in Ops, NEW order \in Orders, NEW index \in Indexes,
               NEW how \in {"none", "zero", "again"}, Call(op, order, index, how)
        PROVE  CompleteInv'
    <2>1. /\ walk' = <<>> /\ ~ToTheEnd' /\ log' = <<>> /\ visited_object_table' = {}
          /\ call'.op = op /\ (op = "H5Ovisit" => build' = <<>>)
      BY <1>1, <1>2 DEF Call, PhaseInv, ToTheEnd
    <2>2. op = "H5Lvisit" => LogInv({})'
      BY <2>1 DEF LogInv, Range, IsInjective
    <2>3. op \in {"H5Lvisit", "H5Ovisit"} \/ ~Recursive'
      BY <2>1 DEF Recursive, Ops
    <2> QED
      BY <2>1, <2>2, <2>3 DEF CompleteInv
  <1>3. ASSUME NEW r \in Results, ReportStart(r) PROVE CompleteInv'
    <2>1. walk = <<>> /\ build = <<>> /\ visited_object_table = {} /\ call' = call
          /\ call.op = "H5Ovisit" /\ visited_object_table' = {} /\ log' = <<<<Top, 0>>>>
      BY <1>1, <1>3 DEF ReportStart, PhaseInv, CoverInv, IdleInv
    <2>2. CASE r = 0
      <3>1. walk' = <<>> /\ ~ToTheEnd'
        BY <1>3, <2>1, <2>2 DEF ReportStart, Running, ToTheEnd
      <3>2. Len(log') = 1 /\ log' # <<>> /\ log'[1] = <<Top, 0>>
        BY <2>1
      <3>3. LogInv({})'
        BY <2>1, <3>2 DEF LogInv
      <3> QED
        BY <3>1, <3>3 DEF CompleteInv
    <2>3. CASE r # 0
      <3>1. build' = <<>> /\ walk' = <<>> /\ stopped' = (r > 0) /\ (~(r > 0) => out' = "failed")
        <4>1. ~(r > 0) => r < 0
          BY <2>3 DEF Results
        <4> QED
          BY <1>3, <2>3, <4>1 DEF ReportStart, Returns
      <3> QED
        BY <3>1 DEF CompleteInv, ToTheEnd
    <2> QED
      BY <2>2, <2>3
  <1>4. ASSUME BuildEntry PROVE CompleteInv'
    <2>1. walk' = <<>> /\ ~ToTheEnd' /\ build # <<>>
          /\ UNCHANGED <<graph, call, log, visited_object_table>>
      BY <1>4, BuildEntryIs DEF BuildEntry, AtLink, ToTheEnd
    <2>2. Recursive => LogInv({})
      BY <2>1 DEF CompleteInv
    <2>3. Recursive => LogInv({})'
      BY <2>1, <2>2, LogSame
    <2> QED
      BY <2>1, <2>3 DEF CompleteInv, Recursive
  <1>5. ASSUME BuildFails PROVE CompleteInv'
    BY <1>5 DEF BuildFails, Returns, CompleteInv, ToTheEnd
  <1>6. ASSUME UNCHANGED vars PROVE CompleteInv'
    <2>1. UNCHANGED <<graph, call, subtable, visited_link_table, log, visited_object_table, build,
                      walk, stopped, out>>
      BY <1>6 DEF vars
    <2>2. AllEntries' = AllEntries
      BY <2>1, EntriesSame
    <2>3. ASSUME NEW P, LogInv(P) PROVE LogInv(P)'
      BY <2>1, <2>3, LogSame
    <2>4. ASSUME NEW P, PassInv(walk, P) PROVE PassInv(walk, P)'
      <3>1. PassInv(walk', P)
        BY <2>1, <2>4
      <3> QED
        BY <2>1, <3>1, PassSame
    <2>5. Recursive' = Recursive /\ ToTheEnd' = ToTheEnd
      BY <2>1 DEF Recursive, ToTheEnd
    <2>6. LogInv(AllEntries) => LogInv(AllEntries)'
      <3>1. ASSUME LogInv(AllEntries) PROVE LogInv(AllEntries)'
        <4>1. PICK P : P = AllEntries
          OBVIOUS
        <4>2. LogInv(P)'
          BY <2>3, <3>1, <4>1
        <4> QED
          BY <2>2, <4>1, <4>2
      <3> QED
        BY <3>1
    <2> QED
      BY <2>1, <2>2, <2>3, <2>4, <2>5, <2>6 DEF CompleteInv
  <1> QED
    BY <1>2, <1>3, <1>4, <1>5, <1>6, CompleteTableBuilt, CompleteReport, CompleteSkips,
       CompleteTableDone DEF Next

\* When a visit ends, it has a table for every group that can be reached.
LEMMA KnownAreReachable ==
    ASSUME StructInv, CoverInv, ToTheEnd, Recursive
    PROVE  /\ \A t \in Known : GroupOf(t) \in Reachable
           /\ \A g \in Reachable : \E t \in Known : GroupOf(t) = g
  <1> DEFINE K == {Start} \union visited_link_table
  <1>1. VisitTypeInv /\ PhaseInv /\ TreeInv
    BY DEF StructInv
  <1>2. DOMAIN build = {} /\ Started
    BY <1>1 DEF PhaseInv, Running, ToTheEnd, Started
  <1>3. K \in SUBSET Groups /\ Start \in K
    BY <1>1, VisitAssumption DEF VisitTypeInv
  <1>4. ASSUME NEW h \in K PROVE \E t \in Known : GroupOf(t) = h
    <2>1. CASE h = Start
      BY <2>1 DEF Known, GroupOf
    <2>2. CASE h \in visited_link_table
      <3>1. h # Top
        BY <1>1, <2>2, TopIsNoGroup DEF VisitTypeInv
      <3> QED
        BY <2>2, <3>1 DEF Known, GroupOf
    <2> QED
      BY <2>1, <2>2
  <1>5. ASSUME NEW h \in K, NEW k \in DOMAIN graph[h], graph[h][k].kind = "group"
        PROVE  graph[h][k].to \in K
    <2>1. PICK t \in Known : GroupOf(t) = h
      BY <1>4
    <2> DEFINE e == <<t, k>>
    <2>2. k \in Entries(t) /\ LinkOf(e) = graph[h][k] /\ Child(e) = graph[h][k].to
      BY <2>1 DEF Entries, LinkOf, Child
    <2> HIDE DEF e
    <2>3. Child(e) \in visited_link_table
      BY <1>2, <1>5, <2>2 DEF CoverInv, ClosedInv, e
    <2> QED
      BY <2>2, <2>3
  <1> HIDE DEF K
  <1>6. Reachable \subseteq K
    BY <1>3, <1>5, ReachableIsLeast
  <1> QED
    BY <1>4, <1>6, KnownIsReachable

\* The entries of the tables are the links of the groups that can be reached.
LEMMA EntriesAreLinks ==
    ASSUME StructInv, CoverInv, ToTheEnd, Recursive
    PROVE  /\ \A e \in AllEntries : /\ GroupOf(e[1]) \in Reachable /\ e[2] \in DOMAIN graph[GroupOf(e[1])]
                                    /\ e[2] # 0 /\ ObjectOf(e) = Child(e)
           /\ \A g \in Reachable : \A k \in DOMAIN graph[g] :
                 \E e \in AllEntries : GroupOf(e[1]) = g /\ e[2] = k /\ LinkOf(e) = graph[g][k]
  <1>1. VisitTypeInv
    BY DEF StructInv
  <1>2. ASSUME NEW t \in Tables, NEW k \in Entries(t) PROVE k \in Nat \ {0}
    BY <1>1, TableType DEF VisitTypeInv
  <1>3. Known \subseteq Tables
    BY <1>1 DEF VisitTypeInv, Known, Tables
  <1>4. ASSUME NEW e \in AllEntries
        PROVE  /\ GroupOf(e[1]) \in Reachable /\ e[2] \in DOMAIN graph[GroupOf(e[1])]
               /\ e[2] # 0 /\ ObjectOf(e) = Child(e)
    <2>1. e[1] \in Known /\ e[2] \in Entries(e[1])
      BY DEF AllEntries
    <2>2. e[2] # 0
      BY <1>2, <1>3, <2>1
    <2> QED
      BY <2>1, <2>2, KnownAreReachable DEF Entries, ObjectOf, Child, LinkOf
  <1>5. ASSUME NEW g \in Reachable, NEW k \in DOMAIN graph[g]
        PROVE  \E e \in AllEntries : GroupOf(e[1]) = g /\ e[2] = k /\ LinkOf(e) = graph[g][k]
    <2>1. PICK t \in Known : GroupOf(t) = g
      BY KnownAreReachable
    <2>2. k \in Entries(t) /\ t \in Tables
      BY <1>3, <2>1 DEF Entries
    <2>3. k \in Nat
      BY <1>2, <2>2
    <2>4. <<t, k>> \in AllEntries
      BY <2>1, <2>2, <2>3 DEF AllEntries
    <2> QED
      BY <2>1, <2>4 DEF LinkOf
  <1> QED
    BY <1>4, <1>5

LEMMA CompleteImplies ==
    ASSUME StructInv, CoverInv, CompleteInv PROVE VisitComplete
  <1>1. ASSUME ToTheEnd, call.op = "H5Lvisit"
        PROVE  /\ {<<GroupOf(e[1]), e[2]>> : e \in Range(log)}
                    = UNION {{g} \X DOMAIN graph[g] : g \in Reachable}
               /\ IsInjective(log)
    <2>1. Recursive
      BY <1>1 DEF Recursive
    <2>2. Range(log) = AllEntries /\ IsInjective(log)
      BY <1>1, <2>1 DEF CompleteInv, LogInv
    <2> DEFINE L == {<<GroupOf(e[1]), e[2]>> : e \in AllEntries}
               R == UNION {{g} \X DOMAIN graph[g] : g \in Reachable}
    <2>3. ASSUME NEW x \in L PROVE x \in R
      <3>1. PICK e \in AllEntries : x = <<GroupOf(e[1]), e[2]>>
        OBVIOUS
      <3>2. PICK g, k : g = GroupOf(e[1]) /\ k = e[2]
        OBVIOUS
      <3>3. g \in Reachable /\ k \in DOMAIN graph[g] /\ x = <<g, k>>
        BY <1>1, <2>1, <3>1, <3>2, EntriesAreLinks
      <3>4. x \in {g} \X DOMAIN graph[g]
        BY <3>3
      <3> QED
        BY <3>3, <3>4
    <2>4. ASSUME NEW x \in R PROVE x \in L
      <3>1. PICK g \in Reachable : x \in {g} \X DOMAIN graph[g]
        OBVIOUS
      <3>2. PICK k \in DOMAIN graph[g] : x = <<g, k>>
        BY <3>1
      <3>3. PICK e \in AllEntries : GroupOf(e[1]) = g /\ e[2] = k
        BY <1>1, <2>1, EntriesAreLinks
      <3> QED
        BY <3>2, <3>3
    <2>5. L = R
      <3> HIDE DEF L, R
      <3> QED
        BY <2>3, <2>4
    <2> QED
      BY <2>2, <2>5
  <1>2. ASSUME ToTheEnd, call.op = "H5Ovisit", NEW links, NEW objects,
               links = UNION {Range(graph[g]) : g \in Reachable},
               objects = {Start} \union {l.to : l \in {m \in links : m.kind # "soft"}}
        PROVE  /\ {ObjectOf(e) : e \in Range(log)} = objects
               /\ \A o \in objects \ {Start} :
                     Cardinality({n \in DOMAIN log : ObjectOf(log[n]) = o}) = 1
    <2> DEFINE m == Len(log)
    <2>1. Recursive
      BY <1>2 DEF Recursive
    <2>2. /\ log # <<>> /\ log[1] = <<Top, 0>>
          /\ \A o : o \in visited_object_table <=>
                      \E e \in AllEntries : LinkOf(e).kind # "soft" /\ Child(e) = o
          /\ \A n \in 2..m : log[n] \in AllEntries /\ LinkOf(log[n]).kind # "soft"
          /\ \A o \in visited_object_table : \E n \in 2..m : Child(log[n]) = o
          /\ \A i, j \in 2..m : Child(log[i]) = Child(log[j]) => i = j
      BY <1>2, <2>1 DEF CompleteInv, LogInv
    <2>3. m \in Nat \ {0} /\ DOMAIN log = 1..m
      <3>1. log \in Seq(Tables \X Nat)
        BY DEF StructInv, VisitTypeInv
      <3> QED
        BY <2>2, <3>1, LenProperties, EmptySeq
    <2> HIDE DEF m
    <2>4. 1 \in 1..m /\ (\A n \in 1..m : n = 1 \/ n \in 2..m) /\ (\A n \in 2..m : n \in 1..m)
      BY <2>3
    <2>5. ObjectOf(log[1]) = Start
      BY <2>2 DEF ObjectOf
    <2>6. \A n \in 2..m : ObjectOf(log[n]) = Child(log[n])
      BY <1>2, <2>1, <2>2, EntriesAreLinks
    <2>7. \A l : l \in links <=> \E g \in Reachable : \E k \in DOMAIN graph[g] : graph[g][k] = l
      <3>1. ASSUME NEW l \in links PROVE \E g \in Reachable : \E k \in DOMAIN graph[g] : graph[g][k] = l
        <4>1. PICK g \in Reachable : l \in Range(graph[g])
          BY <1>2
        <4> QED
          BY <4>1 DEF Range
      <3>2. ASSUME NEW g \in Reachable, NEW k \in DOMAIN graph[g] PROVE graph[g][k] \in links
        <4>1. graph[g][k] \in Range(graph[g])
          BY DEF Range
        <4> QED
          BY <1>2, <4>1
      <3> QED
        BY <3>1, <3>2
    <2>8. ASSUME NEW n \in 1..m PROVE ObjectOf(log[n]) \in objects
      <3>1. CASE n = 1
        BY <1>2, <2>5, <3>1
      <3>2. CASE n \in 2..m
        <4>1. PICK e \in AllEntries : e = log[n] /\ LinkOf(e).kind # "soft"
          BY <2>2, <3>2
        <4>2. GroupOf(e[1]) \in Reachable /\ e[2] \in DOMAIN graph[GroupOf(e[1])]
          BY <1>2, <2>1, EntriesAreLinks
        <4>3. LinkOf(e) \in links
          BY <2>7, <4>2 DEF LinkOf
        <4>4. LinkOf(e).to \in objects
          BY <1>2, <4>1, <4>3
        <4> QED
          BY <2>6, <3>2, <4>1, <4>4 DEF Child
      <3> QED
        BY <2>4, <3>1, <3>2
    <2>9. ASSUME NEW o \in objects, o # Start PROVE \E n \in 2..m : ObjectOf(log[n]) = o
      <3>1. PICK l \in links : l.kind # "soft" /\ l.to = o
        BY <1>2, <2>9
      <3>2. PICK g \in Reachable : \E k \in DOMAIN graph[g] : graph[g][k] = l
        BY <2>7
      <3>3. PICK k \in DOMAIN graph[g] : graph[g][k] = l
        BY <3>2
      <3>4. PICK e \in AllEntries : LinkOf(e) = l
        BY <1>2, <2>1, <3>3, EntriesAreLinks
      <3>5. o \in visited_object_table
        BY <2>2, <3>1, <3>4 DEF Child
      <3>6. PICK n \in 2..m : Child(log[n]) = o
        BY <2>2, <3>5
      <3> QED
        BY <2>6, <3>6
    <2>10. {ObjectOf(e) : e \in Range(log)} = objects
      <3> DEFINE seen == {ObjectOf(e) : e \in Range(log)}
      <3>1. ASSUME NEW o \in seen PROVE o \in objects
        <4>1. PICK e \in Range(log) : ObjectOf(e) = o
          OBVIOUS
        <4>2. PICK n \in 1..m : log[n] = e
          BY <2>3, <4>1 DEF Range
        <4> QED
          BY <2>8, <4>1, <4>2
      <3>2. ASSUME NEW o \in objects PROVE o \in seen
        <4>1. PICK n \in 1..m : ObjectOf(log[n]) = o
          BY <2>4, <2>5, <2>9
        <4>2. log[n] \in Range(log)
          BY <2>3, <4>1 DEF Range
        <4> QED
          BY <4>1, <4>2
      <3> HIDE DEF seen
      <3>3. seen = objects
        BY <3>1, <3>2
      <3> QED
        BY <3>3 DEF seen
    <2>11. ASSUME NEW o \in objects, o # Start
           PROVE  Cardinality({n \in DOMAIN log : ObjectOf(log[n]) = o}) = 1
      <3>1. PICK k \in 2..m : ObjectOf(log[k]) = o
        BY <2>9, <2>11
      <3>2. ASSUME NEW n \in 1..m, ObjectOf(log[n]) = o PROVE n = k
        <4>1. n \in 2..m
          BY <2>4, <2>5, <2>11, <3>2
        <4>2. Child(log[n]) = Child(log[k])
          BY <2>6, <3>1, <3>2, <4>1
        <4> QED
          BY <2>2, <4>1, <4>2
      <3>3. {n \in DOMAIN log : ObjectOf(log[n]) = o} = {k}
        BY <2>3, <2>4, <3>1, <3>2
      <3> QED
        BY <3>3, FS_Singleton
    <2> QED
      BY <2>10, <2>11
  <1>3. ASSUME ToTheEnd, call.op = "H5Ovisit"
        PROVE  LET links == UNION {Range(graph[g]) : g \in Reachable}
                   objects == {Start} \union {l.to : l \in {m \in links : m.kind # "soft"}}
               IN  /\ {ObjectOf(e) : e \in Range(log)} = objects
                   /\ \A o \in objects \ {Start} :
                         Cardinality({n \in DOMAIN log : ObjectOf(log[n]) = o}) = 1
    BY <1>2, <1>3, Zenon
  <1> QED
    BY <1>1, <1>3 DEF VisitComplete

\* RV_build_link_table and RV_traverse_link_table, and the two of the objects:
\* a visit that returns success and was not told to stop has reported every
\* link of the groups that hard links lead to, or every object, once.
THEOREM VisitCompleteTheorem == Spec => []VisitComplete
  <1>1. Init => IndexInv /\ CoverInv /\ CompleteInv
    BY IndexInit, CoverInit, CompleteInit
  <1>2. StructInv /\ IndexInv /\ [Next]_vars => IndexInv'
    BY IndexNext
  <1>3. StructInv /\ CoverInv /\ [Next]_vars => CoverInv'
    BY CoverNext
  <1>4. StructInv /\ IndexInv /\ CoverInv /\ CompleteInv /\ [Next]_vars => CompleteInv'
    BY CompleteNext
  <1>5. StructInv /\ CoverInv /\ CompleteInv => VisitComplete
    BY CompleteImplies
  <1> QED
    BY <1>1, <1>2, <1>3, <1>4, <1>5, StructTheorem, PTL DEF Spec

=============================================================================
