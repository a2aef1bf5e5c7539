--------------------------- MODULE ReadPlanProofs ---------------------------
(***************************************************************************)
(* Proofs about the plan of a read (module ReadPlan) and the cut of a      *)
(* range that it rests on (splitRangeAndGetInfo, module SplitRange), for   *)
(* every number of servers, rank, extent, selection and element size:      *)
(*  - the parts cover the range, are balanced and have the sizes that      *)
(*    memory is allocated for;                                             *)
(*  - the row-major order of a selection of stride 1 goes through its box; *)
(*  - the answers are put behind one another, inside the memory allocated  *)
(*    for them, so that the caller receives each element of a contiguous   *)
(*    selection once, and in order when an outermost dimension was cut.    *)
(***************************************************************************)
EXTENDS ReadPlan, SequenceTheorems, WellFoundedInduction, TLAPS

(***************************************************************************)
(* Arithmetic                                                              *)
(***************************************************************************)

\* A quotient and a remainder make up the dividend: the fact about C's / and
\* % (on non-negative operands) that splitRangeAndGetInfo rests on.
LEMMA DivMod == ASSUME NEW a \in Nat, NEW b \in Nat \ {0}
                PROVE  /\ a \div b \in Nat
                       /\ a % b \in 0..(b - 1)
                       /\ a = b * (a \div b) + (a % b)
  OBVIOUS

\* A product grows by one factor when the other grows by one (one turn of
\* the loop adds elementsPerPart).
LEMMA TimesSucc == ASSUME NEW a \in Int, NEW b \in Int
                   PROVE  (a + 1) * b = a * b + b
  OBVIOUS

\* A size computed from non-negative lengths is non-negative.
LEMMA TimesNat == ASSUME NEW a \in Nat, NEW b \in Nat
                  PROVE  a * b \in Nat
  OBVIOUS

(***************************************************************************)
(* The inductive invariant                                                 *)
(***************************************************************************)

\* Where turn i starts, in closed form: i whole parts, and one more element
\* for each of the parts before i that took one of the remaining elements.
StartInv ==
    currentStart = offset + i * elementsPerPart
                     + (IF i < remainingElements THEN i ELSE remainingElements)

\* The parts written so far are a chain from offset to currentStart.
ChainInv == /\ i > 0 => starts[0] = offset /\ ends[i - 1] = currentStart
            /\ \A k \in Parts : 0 < k /\ k < i => starts[k] = ends[k - 1]

\* Each of them has the length and the size the code computed for it.
LengthInv == \A k \in Parts : k < i =>
               /\ \/ ends[k] = starts[k] + elementsPerPart
                  \/ ends[k] = starts[k] + elementsPerPart + 1
               /\ Node_Size[k] = (ends[k] - starts[k]) * sum

SplitInv == SplitTypeOK /\ StartInv /\ ChainInv /\ LengthInv

\* The quotient and the remainder of the range are natural numbers.
LEMMA Quotient == ASSUME SplitTypeOK
                  PROVE  /\ rangeSize \in Nat
                         /\ elementsPerPart \in Nat
                         /\ remainingElements \in 0..(n - 1)
                         /\ rangeSize = n * elementsPerPart + remainingElements
  <1>1. rangeSize \in Nat
    BY DEF SplitTypeOK, rangeSize
  <1> QED
    BY <1>1, DivMod, nAssumption DEF elementsPerPart, remainingElements

\* The call establishes the invariant: no part has been written.
LEMMA SplitInitInv == SplitInit => SplitInv
  <1> SUFFICES ASSUME SplitInit PROVE SplitInv
    OBVIOUS
  <1>1. SplitTypeOK
    BY nAssumption DEF SplitInit, SplitTypeOK, Zero, Parts
  <1>2. StartInv
    <2>1. 0 * elementsPerPart = 0
      BY <1>1, Quotient
    <2> QED
      BY <1>1, <2>1, Quotient DEF SplitInit, StartInv, SplitTypeOK
  <1>3. ChainInv /\ LengthInv
    BY DEF SplitInit, ChainInv, LengthInv, Parts
  <1> QED
    BY <1>1, <1>2, <1>3 DEF SplitInv

\* One turn of the loop keeps it.
LEMMA SplitStepInv == SplitInv /\ [SplitStep]_splitVars => SplitInv'
  <1> SUFFICES ASSUME SplitInv, [SplitStep]_splitVars PROVE SplitInv'
    OBVIOUS
  <1> USE nAssumption
  <1>q. /\ rangeSize \in Nat
        /\ elementsPerPart \in Nat
        /\ remainingElements \in 0..(n - 1)
    BY Quotient DEF SplitInv
  <1>1. CASE SplitStep
    <2> DEFINE part == elementsInThisPart
               currentEnd == currentStart + part
    <2>1. /\ rangeSize' = rangeSize /\ elementsPerPart' = elementsPerPart
          /\ remainingElements' = remainingElements
      BY <1>1 DEF SplitStep, rangeSize, elementsPerPart, remainingElements
    <2>2. /\ part \in {elementsPerPart, elementsPerPart + 1}
          /\ part \in Nat /\ currentEnd \in Nat
          /\ currentEnd - currentStart = part
      BY <1>q DEF elementsInThisPart, SplitInv, SplitTypeOK
    <2>3. i \in 0..(n - 1) /\ i \in Parts
      BY <1>1 DEF SplitStep, SplitInv, SplitTypeOK, Parts
    <2>4. /\ offset' = offset /\ count' = count /\ sum' = sum
          /\ i' = i + 1 /\ currentStart' = currentEnd
          /\ starts' = [starts EXCEPT ![i] = currentStart]
          /\ ends' = [ends EXCEPT ![i] = currentEnd]
          /\ Node_Size' = [Node_Size EXCEPT ![i] = (currentEnd - currentStart) * sum]
      BY <1>1 DEF SplitStep
    <2> HIDE DEF part, currentEnd
    <2>5. SplitTypeOK'
      <3>1. part * sum \in Nat
        BY <2>2, TimesNat DEF SplitInv, SplitTypeOK
      <3> QED
        BY <2>2, <2>3, <2>4, <3>1 DEF SplitInv, SplitTypeOK
    <2>6. StartInv'
      <3>1. (i + 1) * elementsPerPart = i * elementsPerPart + elementsPerPart
        BY <1>q, <2>3, TimesSucc
      <3>2. i * elementsPerPart \in Nat
        BY <1>q, <2>3, TimesNat
      <3>3. part = IF i < remainingElements THEN elementsPerPart + 1
                                            ELSE elementsPerPart
        BY DEF part, elementsInThisPart
      <3>4. currentEnd = currentStart + part
        BY DEF currentEnd
      <3>5. currentStart = offset + i * elementsPerPart
               + (IF i < remainingElements THEN i ELSE remainingElements)
        BY DEF SplitInv, StartInv
      <3>6. offset \in Nat /\ currentStart \in Nat
        BY DEF SplitInv, SplitTypeOK
      <3>7. currentEnd = offset + (i + 1) * elementsPerPart
               + (IF i + 1 < remainingElements THEN i + 1 ELSE remainingElements)
        BY <1>q, <2>3, <3>1, <3>2, <3>3, <3>4, <3>5, <3>6
      <3> QED
        BY <2>1, <2>4, <3>7 DEF StartInv
    <2>7. ChainInv'
      <3>1. i = 0 => currentStart = offset
        <4>1. 0 * elementsPerPart = 0
          BY <1>q
        <4> QED
          BY <1>q, <4>1 DEF SplitInv, StartInv, SplitTypeOK
      <3>2. ends'[i] = currentEnd /\ starts'[i] = currentStart
        BY <2>3, <2>4 DEF SplitInv, SplitTypeOK
      <3>3. \A k \in Parts : k < i => starts'[k] = starts[k] /\ ends'[k] = ends[k]
        BY <2>3, <2>4 DEF SplitInv, SplitTypeOK
      <3>4. starts'[0] = offset /\ ends'[(i + 1) - 1] = currentEnd
        BY <2>3, <3>1, <3>2, <3>3 DEF SplitInv, ChainInv, Parts
      <3>5. ASSUME NEW k \in Parts, 0 < k, k < i + 1
            PROVE  starts'[k] = ends'[k - 1]
        <4>1. k - 1 \in Parts /\ k - 1 < i /\ ends'[k - 1] = ends[k - 1]
          BY <2>3, <3>3, <3>5 DEF Parts
        <4>2. CASE k = i
          BY <2>3, <3>2, <3>5, <4>1, <4>2 DEF SplitInv, ChainInv, Parts
        <4>3. CASE k < i
          BY <2>3, <3>3, <3>5, <4>1, <4>3 DEF SplitInv, ChainInv
        <4> QED
          BY <2>3, <3>5, <4>2, <4>3 DEF Parts
      <3> QED
        BY <2>4, <3>4, <3>5 DEF ChainInv
    <2>8. LengthInv'
      <3> SUFFICES ASSUME NEW k \in Parts, k < i + 1
                   PROVE  /\ \/ ends'[k] = starts'[k] + elementsPerPart
                             \/ ends'[k] = starts'[k] + elementsPerPart + 1
                          /\ Node_Size'[k] = (ends'[k] - starts'[k]) * sum
        BY <2>1, <2>4 DEF LengthInv
      <3>1. CASE k = i
        <4>1. starts'[k] = currentStart /\ ends'[k] = currentEnd
              /\ Node_Size'[k] = (currentEnd - currentStart) * sum
          BY <3>1, <2>3, <2>4 DEF SplitInv, SplitTypeOK
        <4> QED
          BY <4>1, <1>q, <2>2 DEF SplitInv, SplitTypeOK
      <3>2. CASE k # i
        <4>1. k < i /\ starts'[k] = starts[k] /\ ends'[k] = ends[k]
              /\ Node_Size'[k] = Node_Size[k]
          BY <3>2, <2>3, <2>4 DEF SplitInv, SplitTypeOK, Parts
        <4> QED
          BY <4>1 DEF SplitInv, LengthInv
      <3> QED
        BY <3>1, <3>2
    <2> QED
      BY <2>5, <2>6, <2>7, <2>8 DEF SplitInv
  <1>2. CASE UNCHANGED splitVars
    BY <1>2 DEF splitVars, SplitInv, SplitTypeOK, StartInv, ChainInv,
                LengthInv, rangeSize, elementsPerPart, remainingElements
  <1> QED
    BY <1>1, <1>2

\* The parts of a range that has been cut make up the range.
LEMMA PartsCoverNow == SplitInv => PartsCover
  <1> SUFFICES ASSUME SplitInv, i = n PROVE
                 /\ starts[0] = offset /\ ends[n - 1] = count
                 /\ \A k \in Parts : k > 0 => starts[k] = ends[k - 1]
    BY DEF PartsCover
  <1>1. /\ remainingElements \in 0..(n - 1) /\ elementsPerPart \in Nat
        /\ count - offset = n * elementsPerPart + remainingElements
    BY Quotient DEF SplitInv, rangeSize
  <1>2. currentStart = offset + n * elementsPerPart + remainingElements
    BY <1>1, nAssumption DEF SplitInv, StartInv
  <1>3. currentStart = count
    <2>1. n * elementsPerPart \in Nat
      BY <1>1, nAssumption, TimesNat
    <2> QED
      BY <1>1, <1>2, <2>1, nAssumption DEF SplitInv, SplitTypeOK
  <1> QED
    BY <1>3, nAssumption DEF SplitInv, ChainInv, Parts

\* No part of a range that has been cut is longer than another by more than
\* one.
LEMMA PartsBalancedNow == SplitInv => PartsBalanced
  <1> SUFFICES ASSUME SplitInv, i = n, NEW k \in Parts, NEW m \in Parts
               PROVE  ends[k] - starts[k] <= ends[m] - starts[m] + 1
    BY DEF PartsBalanced
  <1>1. elementsPerPart \in Nat
    BY Quotient DEF SplitInv
  <1>2. k < i /\ m < i
    BY nAssumption DEF Parts
  <1>3. /\ starts[k] \in Nat /\ ends[k] \in Nat
        /\ starts[m] \in Nat /\ ends[m] \in Nat
    BY DEF SplitInv, SplitTypeOK
  <1> QED
    BY <1>1, <1>2, <1>3 DEF SplitInv, LengthInv

(***************************************************************************)
(* The theorems                                                            *)
(***************************************************************************)

\* The invariant holds in every state of the function.
THEOREM SplitInvariant == SplitSpec => []SplitInv
  BY SplitInitInv, SplitStepInv, PTL DEF SplitSpec

\* splitRangeAndGetInfo writes only inside its arrays of n entries, whatever
\* n and the range are.
THEOREM SplitTypeCorrect == SplitSpec => []SplitTypeOK
  <1>1. SplitInv => SplitTypeOK
    BY DEF SplitInv
  <1> QED
    BY <1>1, SplitInvariant, PTL

\* When it returns, the parts it has computed are consecutive and cover the
\* range: no element is asked for twice and none is left out.
THEOREM SplitCovers == SplitSpec => []PartsCover
  BY PartsCoverNow, SplitInvariant, PTL

\* No part is longer than another by more than one step of the dimension.
THEOREM SplitBalances == SplitSpec => []PartsBalanced
  BY PartsBalancedNow, SplitInvariant, PTL

\* The size of a part, from which its memory is allocated, is the size of
\* what is asked for.
THEOREM SplitSizes == SplitSpec => []SizesMatch
  <1>1. SplitInv => SizesMatch
    BY nAssumption DEF SplitInv, LengthInv, SizesMatch, Parts
  <1> QED
    BY <1>1, SplitInvariant, PTL

(***************************************************************************)
(* Induction and recursion                                                 *)
(***************************************************************************)

\* A nonempty set of natural numbers has a least element.
LEMMA LeastNatural ==
    ASSUME NEW S \in SUBSET Nat, S # {}
    PROVE  \E m \in S : \A k \in S : m <= k
  <1>1. IsWellFoundedOn(OpToRel(<, Nat), Nat)
    BY NatLessThanWellFounded, Zenon
  <1>2. \A x, y \in Nat : <<y, x>> \in OpToRel(<, Nat) <=> y < x
    BY Zenon DEF OpToRel
  <1>3. PICK m \in S : \A k \in S : ~ (<<k, m>> \in OpToRel(<, Nat))
    BY <1>1, WFMin, Zenon
  <1>4. \A k \in S : m \in Nat /\ k \in Nat /\ ~ (k < m)
    BY <1>2, <1>3, Zenon
  <1> QED
    BY <1>4

\* Induction over 0..N, upwards and downwards, for a property given as a set.
LEMMA InductionUp ==
    ASSUME NEW N \in Nat, NEW S, 0 \in S, \A k \in 0..(N - 1) : k \in S => k + 1 \in S
    PROVE  0..N \subseteq S
  <1> SUFFICES ASSUME (0..N) \ S # {} PROVE FALSE
    OBVIOUS
  <1> DEFINE T == (0..N) \ S
  <1>1. T \in SUBSET Nat /\ T # {}
    OBVIOUS
  <1> HIDE DEF T
  <1>2. PICK m \in T : \A k \in T : m <= k
    BY <1>1, LeastNatural
  <1>3. m \in 1..N /\ m \notin S
    BY <1>2 DEF T
  <1>4. m - 1 \notin T /\ m - 1 \in 0..(N - 1) /\ (m - 1) + 1 = m
    BY <1>2, <1>3
  <1> QED
    BY <1>3, <1>4 DEF T

\* The same downwards.
LEMMA InductionDown ==
    ASSUME NEW N \in Nat, NEW S, N \in S, \A k \in 1..N : k \in S => k - 1 \in S
    PROVE  0..N \subseteq S
  <1> DEFINE T == {k \in 0..N : N - k \in S}
  <1>1. 0 \in T
    OBVIOUS
  <1>2. \A k \in 0..(N - 1) : k \in T => k + 1 \in T
    <2> SUFFICES ASSUME NEW k \in 0..(N - 1), k \in T PROVE k + 1 \in T
      OBVIOUS
    <2>1. N - k \in 1..N /\ (N - k) - 1 = N - (k + 1) /\ N - k \in S /\ k + 1 \in 0..N
      OBVIOUS
    <2> QED
      BY <2>1
  <1> HIDE DEF T
  <1>3. 0..N \subseteq T
    BY <1>1, <1>2, InductionUp
  <1>4. \A k \in 0..N : N - k \in 0..N /\ N - (N - k) = k
    OBVIOUS
  <1> QED
    BY <1>3, <1>4 DEF T

\* A recurrence over 0..N, its step given as a function, has a solution.
LEMMA Recurrence ==
    ASSUME NEW N \in Nat, NEW a \in Int, NEW h \in [1..N -> [Int -> Int]]
    PROVE  \E f \in [0..N -> Int] : f[0] = a /\ \A k \in 1..N : f[k] = h[k][f[k - 1]]
  <1> DEFINE Solves(f, m) == f[0] = a /\ \A k \in 1..m : f[k] = h[k][f[k - 1]]
             S == {m \in 0..N : \E f \in [0..N -> Int] : Solves(f, m)}
  <1>1. 0 \in S
    <2> DEFINE g == [k \in 0..N |-> a]
    <2>1. g \in [0..N -> Int] /\ Solves(g, 0)
      OBVIOUS
    <2> HIDE DEF g, Solves
    <2> QED
      BY <2>1
  <1>2. ASSUME NEW m \in 0..(N - 1), m \in S PROVE m + 1 \in S
    <2>1. PICK f \in [0..N -> Int] : Solves(f, m)
      BY <1>2
    <2> DEFINE b == h[m + 1][f[m]]
               g == [f EXCEPT ![m + 1] = b]
    <2>2. b \in Int
      <3>1. m + 1 \in 1..N /\ f[m] \in Int
        OBVIOUS
      <3>2. h[m + 1] \in [Int -> Int]
        BY <3>1
      <3> QED
        BY <3>1, <3>2
    <2>b. b = h[m + 1][f[m]]
      OBVIOUS
    <2> HIDE DEF b
    <2>3. g \in [0..N -> Int] /\ g[m + 1] = b /\ \A k \in 0..m : g[k] = f[k]
      BY <2>2
    <2> HIDE DEF g
    <2>4. Solves(g, m + 1)
      <3>1. g[0] = a
        BY <2>1, <2>3
      <3>2. ASSUME NEW k \in 1..(m + 1) PROVE g[k] = h[k][g[k - 1]]
        <4>1. CASE k = m + 1
          BY <2>b, <2>3, <4>1
        <4>2. CASE k \in 1..m
          BY <2>1, <2>3, <4>2
        <4> QED
          BY <4>1, <4>2
      <3> QED
        BY <3>1, <3>2
    <2> HIDE DEF Solves
    <2> QED
      BY <2>3, <2>4
  <1> HIDE DEF S
  <1>3. 0..N \subseteq S
    BY <1>1, <1>2, InductionUp
  <1>4. N \in S
    BY <1>3
  <1> QED
    BY <1>4 DEF S

(***************************************************************************)
(* Products and weights                                                    *)
(***************************************************************************)

\* The lengths of a selection, their running product, and the weights of the
\* dimensions in row-major order.
Lens(s) == [d \in Dims |-> Length(s[d])]

IsProduct(p, g) == /\ p \in [0..Rank -> Int] /\ p[0] = 1
                   /\ \A d \in Dims : p[d] = p[d - 1] * g[d]

IsWeight(w, g) == /\ w \in [Dims -> Int] /\ w[Rank] = 1
                  /\ \A d \in 1..(Rank - 1) : w[d] = w[d + 1] * g[d + 1]

\* There is a running product for any lengths.
LEMMA ProductExists ==
    ASSUME NEW g \in [Dims -> Int] PROVE \E p : IsProduct(p, g)
  <1> DEFINE h == [k \in 1..Rank |-> [x \in Int |-> x * g[k]]]
  <1>0. Rank \in Nat \ {0} /\ Dims = 1..Rank
    BY PlanAssumption DEF Dims
  <1>1. h \in [1..Rank -> [Int -> Int]]
    BY <1>0
  <1>2. \A k \in 1..Rank : \A x \in Int : h[k][x] = x * g[k]
    OBVIOUS
  <1> HIDE DEF h
  <1> DEFINE a == 1
  <1>a. a \in Int /\ a = 1 /\ Rank \in Nat
    BY <1>0
  <1> HIDE DEF a
  <1>3. PICK f \in [0..Rank -> Int] : f[0] = a /\ \A k \in 1..Rank : f[k] = h[k][f[k - 1]]
    BY <1>a, <1>1, Recurrence
  <1>4. \A k \in 1..Rank : f[k - 1] \in Int
    BY <1>0
  <1>5. \A k \in 1..Rank : f[k] = f[k - 1] * g[k]
    BY <1>2, <1>3, <1>4
  <1> QED
    BY <1>0, <1>a, <1>3, <1>5 DEF IsProduct

\* There are weights for any lengths.
LEMMA WeightExists ==
    ASSUME NEW g \in [Dims -> Int] PROVE \E w : IsWeight(w, g)
  <1> DEFINE N == Rank - 1
             h == [k \in 1..N |-> [x \in Int |-> x * g[Rank - k + 1]]]
  <1>0. Rank \in Nat \ {0} /\ N \in Nat /\ Dims = 1..Rank
    BY PlanAssumption DEF Dims
  <1>1. h \in [1..N -> [Int -> Int]]
    <2>1. \A k \in 1..N : Rank - k + 1 \in Dims
      BY <1>0
    <2>2. \A k \in 1..N : g[Rank - k + 1] \in Int
      BY <2>1
    <2> QED
      BY <2>2
  <1>2. \A k \in 1..N : \A x \in Int : h[k][x] = x * g[Rank - k + 1]
    OBVIOUS
  <1> HIDE DEF h
  <1> DEFINE a == 1
  <1>a. a \in Int /\ a = 1
    OBVIOUS
  <1> HIDE DEF a, N
  <1>3. PICK f \in [0..N -> Int] : f[0] = a /\ \A k \in 1..N : f[k] = h[k][f[k - 1]]
    BY <1>a, <1>0, <1>1, Recurrence
  <1> USE DEF N
  <1> DEFINE w == [d \in Dims |-> f[Rank - d]]
  <1>4. w \in [Dims -> Int] /\ w[Rank] = 1
    <2>1. (\A d \in Dims : Rank - d \in 0..N) /\ Rank - Rank = 0 /\ Rank \in Dims
      BY <1>0
    <2>2. \A d \in Dims : f[Rank - d] \in Int
      BY <1>3, <2>1
    <2>3. w[Rank] = f[0]
      BY <2>1
    <2>4. w \in [Dims -> Int]
      BY <2>2
    <2> QED
      BY <1>a, <1>3, <2>3, <2>4
  <1>5. ASSUME NEW d \in 1..N PROVE w[d] = w[d + 1] * g[d + 1]
    <2>1. Rank - d \in 1..N /\ d \in Dims /\ d + 1 \in Dims
          /\ (Rank - d) - 1 = Rank - (d + 1) /\ Rank - (Rank - d) + 1 = d + 1
      BY <1>0
    <2>2. f[Rank - d] = h[Rank - d][f[Rank - (d + 1)]] /\ f[Rank - (d + 1)] \in Int
      BY <1>0, <1>3, <2>1
    <2>3. f[Rank - d] = f[Rank - (d + 1)] * g[d + 1]
      BY <1>2, <2>1, <2>2
    <2> QED
      BY <2>1, <2>3
  <1> HIDE DEF w
  <1>6. IsWeight(w, g)
    BY <1>4, <1>5 DEF IsWeight
  <1> QED
    BY <1>6

\* What the recursive functions of ReadPlan compute.
LEMMA NumPointsIs ==
    ASSUME NEW s, \A d \in Dims : Length(s[d]) \in Int
    PROVE  \E p : IsProduct(p, Lens(s)) /\ NumPoints(s) = p[Rank]
  <1> DEFINE g == Lens(s)
  <1>1. g \in [Dims -> Int] /\ \A d \in Dims : g[d] = Length(s[d])
    BY DEF Lens
  <1> HIDE DEF g
  <1>2. PICK p : IsProduct(p, g)
    BY <1>1, ProductExists
  <1>3. p = [d \in 0..Rank |-> IF d = 0 THEN 1 ELSE p[d - 1] * Length(s[d])]
    <2>1. \A d \in 0..Rank : d # 0 => d \in Dims
      BY PlanAssumption DEF Dims
    <2> QED
      BY <1>1, <1>2, <2>1 DEF IsProduct
  <1> DEFINE P == CHOOSE q : q = [d \in 0..Rank |-> IF d = 0 THEN 1 ELSE q[d - 1] * Length(s[d])]
  <1>4. P = [d \in 0..Rank |-> IF d = 0 THEN 1 ELSE P[d - 1] * Length(s[d])]
    BY <1>3
  <1>5. NumPoints(s) = P[Rank]
    BY DEF NumPoints
  <1> HIDE DEF P
  <1>6. 0..Rank \subseteq {d \in 0..Rank : P[d] \in Int}
    <2> DEFINE S == {d \in 0..Rank : P[d] \in Int}
    <2>1. Rank \in Nat /\ Dims = 1..Rank
      BY PlanAssumption DEF Dims
    <2>2. 0 \in S
      BY <1>4, <2>1
    <2>3. ASSUME NEW d \in 0..(Rank - 1), d \in S PROVE d + 1 \in S
      <3>1. d + 1 \in Dims /\ d + 1 \in 0..Rank /\ (d + 1) - 1 = d /\ d + 1 # 0
        BY <2>1
      <3>2. P[d + 1] = P[d] * Length(s[d + 1])
        BY <1>4, <3>1
      <3> QED
        BY <2>3, <3>1, <3>2
    <2> HIDE DEF S
    <2>4. 0..Rank \subseteq S
      BY <2>1, <2>2, <2>3, InductionUp
    <2> QED
      BY <2>4 DEF S
  <1>7. IsProduct(P, g)
    <2>1. P \in [0..Rank -> Int]
      BY <1>4, <1>6
    <2>2. P[0] = 1 /\ \A d \in Dims : P[d] = P[d - 1] * g[d]
      BY <1>1, <1>4, PlanAssumption DEF Dims
    <2> QED
      BY <2>1, <2>2 DEF IsProduct
  <1> QED
    BY <1>5, <1>7 DEF g

\* How many elements a step of dimension c has, and the extents it is
\* computed from.
OthersOf(s, c) == LET p[e \in 0..Rank] ==
                        IF e = 0 THEN 1
                        ELSE IF e = c THEN p[e - 1]
                        ELSE p[e - 1] * (s[e].stop - s[e].start)
                  IN  p[Rank]

Sizes(s) == [e \in Dims |-> s[e].stop - s[e].start]

\* The product of the lengths without that of c, as RV_dataset_read computes
\* it, is one of the lengths with 1 in the place of c.
LEMMA OthersIs ==
    ASSUME NEW s, NEW c \in Dims, \A e \in Dims : s[e].stop - s[e].start \in Int
    PROVE  \E p : IsProduct(p, [Sizes(s) EXCEPT ![c] = 1]) /\ OthersOf(s, c) = p[Rank]
  <1> DEFINE g == [Sizes(s) EXCEPT ![c] = 1]
  <1>0. Rank \in Nat /\ Dims = 1..Rank
    BY PlanAssumption DEF Dims
  <1>1. /\ g \in [Dims -> Int] /\ g[c] = 1
        /\ \A e \in Dims : e # c => g[e] = s[e].stop - s[e].start
    BY DEF Sizes
  <1> HIDE DEF g
  <1>2. PICK p : IsProduct(p, g)
    BY <1>1, ProductExists
  <1>3. p = [e \in 0..Rank |-> IF e = 0 THEN 1 ELSE IF e = c THEN p[e - 1]
                               ELSE p[e - 1] * (s[e].stop - s[e].start)]
    <2>1. \A e \in 0..Rank : e # 0 => e \in Dims
      BY <1>0
    <2>2. \A e \in Dims : p[e - 1] \in Int
      BY <1>0, <1>2 DEF IsProduct
    <2>3. p[c] = p[c - 1]
      BY <1>1, <1>2, <2>2 DEF IsProduct
    <2> QED
      BY <1>1, <1>2, <2>1, <2>3 DEF IsProduct
  <1> DEFINE P == CHOOSE q : q = [e \in 0..Rank |-> IF e = 0 THEN 1 ELSE IF e = c THEN q[e - 1]
                                                   ELSE q[e - 1] * (s[e].stop - s[e].start)]
  <1>4. P = [e \in 0..Rank |-> IF e = 0 THEN 1 ELSE IF e = c THEN P[e - 1]
                               ELSE P[e - 1] * (s[e].stop - s[e].start)]
    BY <1>3
  <1>5. OthersOf(s, c) = P[Rank]
    BY DEF OthersOf
  <1> HIDE DEF P
  <1>6. \A d \in 0..Rank : P[d] \in Int
    <2> DEFINE S == {d \in 0..Rank : P[d] \in Int}
    <2>1. 0 \in S
      BY <1>0, <1>4
    <2>2. ASSUME NEW d \in 0..(Rank - 1), d \in S PROVE d + 1 \in S
      <3>1. d + 1 \in Dims /\ d + 1 \in 0..Rank /\ (d + 1) - 1 = d /\ d + 1 # 0
        BY <1>0
      <3>2. P[d + 1] = IF d + 1 = c THEN P[d] ELSE P[d] * (s[d + 1].stop - s[d + 1].start)
        BY <1>4, <3>1
      <3> QED
        BY <2>2, <3>1, <3>2
    <2> HIDE DEF S
    <2>3. 0..Rank \subseteq S
      BY <1>0, <2>1, <2>2, InductionUp
    <2> QED
      BY <2>3 DEF S
  <1>7. IsProduct(P, g)
    <2>1. P \in [0..Rank -> Int] /\ P[0] = 1
      BY <1>0, <1>4, <1>6
    <2>2. ASSUME NEW d \in Dims PROVE P[d] = P[d - 1] * g[d]
      <3>1. d \in 0..Rank /\ d # 0 /\ d - 1 \in 0..Rank
        BY <1>0
      <3>2. P[d] = IF d = c THEN P[d - 1] ELSE P[d - 1] * (s[d].stop - s[d].start)
        BY <1>4, <3>1
      <3>3. P[d - 1] \in Int
        BY <1>6, <3>1
      <3> QED
        BY <1>1, <3>2, <3>3
    <2> QED
      BY <2>1, <2>2 DEF IsProduct
  <1> QED
    BY <1>5, <1>7 DEF g

\* The row-major order is that of the weights of the lengths.
LEMMA RowMajorIs ==
    ASSUME NEW s, \A d \in Dims : Length(s[d]) \in Int
    PROVE  \E w : /\ IsWeight(w, Lens(s))
                  /\ RowMajor(s) =
                       [k \in 1..NumPoints(s) |->
                          [d \in Dims |-> s[d].start +
                             (((k - 1) \div w[d]) % Length(s[d])) * s[d].step]]
  <1> DEFINE g == Lens(s)
  <1>0. Rank \in Nat \ {0} /\ Dims = 1..Rank
    BY PlanAssumption DEF Dims
  <1>1. g \in [Dims -> Int] /\ \A d \in Dims : g[d] = Length(s[d])
    BY DEF Lens
  <1> HIDE DEF g
  <1>2. PICK w : IsWeight(w, g)
    BY <1>1, WeightExists
  <1>3. w = [d \in Dims |-> IF d = Rank THEN 1 ELSE w[d + 1] * Length(s[d + 1])]
    <2>1. \A d \in Dims : d # Rank => d \in 1..(Rank - 1) /\ d + 1 \in Dims
      BY <1>0
    <2> QED
      BY <1>1, <1>2, <2>1 DEF IsWeight
  <1> DEFINE W == CHOOSE v : v = [d \in Dims |-> IF d = Rank THEN 1
                                                 ELSE v[d + 1] * Length(s[d + 1])]
  <1>4. W = [d \in Dims |-> IF d = Rank THEN 1 ELSE W[d + 1] * Length(s[d + 1])]
    BY <1>3
  <1>5. RowMajor(s) = [k \in 1..NumPoints(s) |->
                         [d \in Dims |-> s[d].start +
                            (((k - 1) \div W[d]) % Length(s[d])) * s[d].step]]
    BY DEF RowMajor
  <1> HIDE DEF W
  <1>6. \A d \in Dims : W[d] \in Int
    <2> DEFINE S == {d \in 0..Rank : d = 0 \/ W[d] \in Int}
    <2>1. Rank \in S
      BY <1>0, <1>4
    <2>2. ASSUME NEW d \in 1..Rank, d \in S PROVE d - 1 \in S
      <3>1. CASE d = 1
        BY <1>0, <3>1
      <3>2. CASE d # 1
        <4>1. d - 1 \in Dims /\ d - 1 # Rank /\ (d - 1) + 1 = d /\ d \in Dims /\ d # 0
          BY <1>0, <3>2
        <4>2. W[d - 1] = W[d] * Length(s[d])
          BY <1>4, <4>1
        <4> QED
          BY <1>0, <2>2, <4>1, <4>2
      <3> QED
        BY <3>1, <3>2
    <2> HIDE DEF S
    <2>3. 0..Rank \subseteq S
      BY <1>0, <2>1, <2>2, InductionDown
    <2> QED
      BY <1>0, <2>3 DEF S
  <1>7. IsWeight(W, g)
    <2>1. W \in [Dims -> Int] /\ W[Rank] = 1
      BY <1>0, <1>4, <1>6
    <2>2. ASSUME NEW d \in 1..(Rank - 1) PROVE W[d] = W[d + 1] * g[d + 1]
      BY <1>0, <1>1, <1>4
    <2> QED
      BY <2>1, <2>2 DEF IsWeight
  <1> QED
    BY <1>5, <1>7 DEF g

\* The bytes of the parts z, added up as total_size adds them.
IsTotal(q, z) == /\ q \in [0..n -> Int] /\ q[0] = 0
                 /\ \A k \in 1..n : q[k] = q[k - 1] + z[k - 1] * MemTypeSize

\* The memory allocated for a dataset is a running sum of the sizes of its
\* parts.
LEMMA TotalIs ==
    ASSUME Node_Size \in [Parts -> Int]
    PROVE  \E q : IsTotal(q, Node_Size) /\ total_size = q[n]
  <1> DEFINE z == Node_Size
             h == [k \in 1..n |-> [x \in Int |-> x + z[k - 1] * MemTypeSize]]
             a == 0
  <1>0. n \in Nat /\ MemTypeSize \in Int /\ a \in Int /\ a = 0
    BY PlanAssumption, nAssumption
  <1>1. \A k \in 1..n : z[k - 1] \in Int /\ z[k - 1] * MemTypeSize \in Int
    <2>1. \A k \in 1..n : k - 1 \in Parts
      BY nAssumption DEF Parts
    <2> QED
      BY <1>0, <2>1
  <1> HIDE DEF z, a
  <1>2. h \in [1..n -> [Int -> Int]]
    BY <1>1
  <1>3. \A k \in 1..n : \A x \in Int : h[k][x] = x + z[k - 1] * MemTypeSize
    OBVIOUS
  <1> HIDE DEF h
  <1>4. PICK f \in [0..n -> Int] : f[0] = a /\ \A k \in 1..n : f[k] = h[k][f[k - 1]]
    BY <1>0, <1>2, Recurrence
  <1>5. \A k \in 1..n : f[k - 1] \in Int
    BY <1>0
  <1>6. \A k \in 1..n : f[k] = f[k - 1] + z[k - 1] * MemTypeSize
    BY <1>3, <1>4, <1>5
  <1>7. f = [k \in 0..n |-> IF k = 0 THEN 0 ELSE f[k - 1] + z[k - 1] * MemTypeSize]
    BY <1>0, <1>4, <1>6
  <1> DEFINE P == CHOOSE q : q = [k \in 0..n |-> IF k = 0 THEN 0
                                                 ELSE q[k - 1] + z[k - 1] * MemTypeSize]
  <1>8. P = [k \in 0..n |-> IF k = 0 THEN 0 ELSE P[k - 1] + z[k - 1] * MemTypeSize]
    BY <1>7
  <1>9. total_size = P[n]
    BY DEF total_size, z
  <1> HIDE DEF P
  <1>10. \A k \in 0..n : P[k] \in Int
    <2> DEFINE S == {k \in 0..n : P[k] \in Int}
    <2>1. 0 \in S
      BY <1>0, <1>8
    <2>2. ASSUME NEW k \in 0..(n - 1), k \in S PROVE k + 1 \in S
      <3>1. k + 1 \in 1..n /\ k + 1 \in 0..n /\ (k + 1) - 1 = k /\ k + 1 # 0
        BY <1>0
      <3>2. P[k + 1] = P[k] + z[k] * MemTypeSize
        BY <1>8, <3>1
      <3>3. z[k] * MemTypeSize \in Int
        BY <1>1, <3>1
      <3> QED
        BY <2>2, <3>1, <3>2, <3>3
    <2> HIDE DEF S
    <2>3. 0..n \subseteq S
      BY <1>0, <2>1, <2>2, InductionUp
    <2> QED
      BY <2>3 DEF S
  <1>11. IsTotal(P, z)
    <2>1. P \in [0..n -> Int] /\ P[0] = 0
      BY <1>0, <1>8, <1>10
    <2>2. ASSUME NEW k \in 1..n PROVE P[k] = P[k - 1] + z[k - 1] * MemTypeSize
      BY <1>0, <1>8
    <2> QED
      BY <2>1, <2>2 DEF IsTotal
  <1> QED
    BY <1>9, <1>11 DEF z

(***************************************************************************)
(* Arithmetic of products and weights                                      *)
(***************************************************************************)

\* A product of natural numbers, positive if they are.
LEMMA ProductNat ==
    ASSUME NEW a \in Nat, NEW b \in Nat
    PROVE  a * b \in Nat /\ (a > 0 /\ b > 0 => a * b > 0)
  OBVIOUS

\* The number of elements is positive when no length is zero, and only then.
LEMMA ProductIsNat ==
    ASSUME NEW g \in [Dims -> Nat], NEW p, IsProduct(p, g)
    PROVE  /\ p[Rank] \in Nat
           /\ (\A d \in Dims : g[d] > 0) => p[Rank] > 0
           /\ p[Rank] > 0 => \A d \in Dims : g[d] > 0
  <1>0. Rank \in Nat \ {0} /\ Dims = 1..Rank
    BY PlanAssumption DEF Dims
  <1> DEFINE S == {d \in 0..Rank : /\ p[d] \in Nat
                                   /\ (\A e \in 1..d : g[e] > 0) => p[d] > 0
                                   /\ p[d] > 0 => \A e \in 1..d : g[e] > 0}
  <1>1. 0 \in S
    BY <1>0 DEF IsProduct
  <1>2. ASSUME NEW d \in 0..(Rank - 1), d \in S PROVE d + 1 \in S
    <2>1. d + 1 \in Dims /\ d + 1 \in 0..Rank /\ 1..(d + 1) = (1..d) \cup {d + 1}
      BY <1>0
    <2>2. p[d + 1] = p[d] * g[d + 1] /\ p[d] \in Nat /\ g[d + 1] \in Nat
      BY <1>2, <2>1 DEF IsProduct
    <2>3. p[d + 1] \in Nat /\ (p[d] > 0 /\ g[d + 1] > 0 => p[d + 1] > 0)
      BY <2>2, ProductNat
    <2>4. p[d + 1] > 0 => p[d] > 0 /\ g[d + 1] > 0
      BY <2>2
    <2> QED
      BY <1>2, <2>1, <2>3, <2>4
  <1> HIDE DEF S
  <1>3. 0..Rank \subseteq S
    BY <1>0, <1>1, <1>2, InductionUp
  <1> QED
    BY <1>0, <1>3 DEF S

\* Two running products of the same lengths are one.
LEMMA ProductUnique ==
    ASSUME NEW g \in [Dims -> Int], NEW p, NEW q, IsProduct(p, g), IsProduct(q, g)
    PROVE  p[Rank] = q[Rank]
  <1>0. Rank \in Nat /\ Dims = 1..Rank
    BY PlanAssumption DEF Dims
  <1> DEFINE S == {d \in 0..Rank : p[d] = q[d]}
  <1>1. 0 \in S
    BY <1>0 DEF IsProduct
  <1>2. ASSUME NEW d \in 0..(Rank - 1), d \in S PROVE d + 1 \in S
    BY <1>0, <1>2 DEF IsProduct
  <1> HIDE DEF S
  <1>3. 0..Rank \subseteq S
    BY <1>0, <1>1, <1>2, InductionUp
  <1> QED
    BY <1>0, <1>3 DEF S

\* The lengths g with that of dimension c left out.
Without(g, c) == [g EXCEPT ![c] = 1]

\* A running product grows by one length.
LEMMA ProductStep ==
    ASSUME NEW g, NEW p, IsProduct(p, g), NEW d \in Int, d + 1 \in Dims
    PROVE  p[d + 1] = p[d] * g[d + 1] /\ p[d] \in Int
  <1>0. Rank \in Nat /\ Dims = 1..Rank
    BY PlanAssumption DEF Dims
  <1>1. (d + 1) - 1 = d /\ d \in 0..Rank
    BY <1>0
  <1> DEFINE e == d + 1
  <1>2. e \in Dims /\ e - 1 = d
    BY <1>1
  <1> HIDE DEF e
  <1>3. p[e] = p[e - 1] * g[e]
    BY <1>2 DEF IsProduct
  <1>4. p[e] = p[d] * g[e]
    BY <1>2, <1>3
  <1> QED
    BY <1>1, <1>4 DEF IsProduct, e

\* A product is a length times the product of the others.
LEMMA ProductSplits ==
    ASSUME NEW g \in [Dims -> Int], NEW c \in Dims, NEW p, NEW q,
           IsProduct(p, g), IsProduct(q, Without(g, c))
    PROVE  p[Rank] = g[c] * q[Rank]
  <1>0. Rank \in Nat /\ Dims = 1..Rank
    BY PlanAssumption DEF Dims
  <1> DEFINE h == Without(g, c)
  <1>1. h[c] = 1 /\ \A d \in Dims : d # c => h[d] = g[d]
    BY DEF Without
  <1>2. IsProduct(q, h)
    OBVIOUS
  <1> HIDE DEF h
  <1> DEFINE S == {d \in 0..Rank : p[d] = IF d < c THEN q[d] ELSE g[c] * q[d]}
  <1>3. 0 \in S
    BY <1>0, <1>2 DEF IsProduct
  <1>4. ASSUME NEW d \in 0..(Rank - 1), d \in S PROVE d + 1 \in S
    <2>1. d + 1 \in Dims /\ d + 1 \in 0..Rank /\ (d + 1) - 1 = d
      BY <1>0
    <2>p. p[d + 1] = p[d] * g[d + 1] /\ p[d] \in Int
      BY <2>1, ProductStep
    <2>q. q[d + 1] = q[d] * h[d + 1] /\ q[d] \in Int
      BY <1>2, <2>1, ProductStep
    <2>2. p[d + 1] = p[d] * g[d + 1] /\ q[d + 1] = q[d] * h[d + 1] /\ p[d] \in Int /\ q[d] \in Int
      BY <2>p, <2>q
    <2>3. g[c] \in Int /\ g[d + 1] \in Int
      BY <2>1
    <2>4. p[d] = IF d < c THEN q[d] ELSE g[c] * q[d]
      BY <1>4
    <2>5. CASE d + 1 = c
      <3>1. q[d + 1] = q[d] /\ p[d] = q[d]
        BY <1>0, <1>1, <2>2, <2>4, <2>5
      <3>2. p[d + 1] = g[c] * q[d + 1]
        BY <2>2, <2>3, <2>5, <3>1
      <3> QED
        BY <2>1, <2>5, <3>2
    <2>6. CASE d + 1 < c
      <3>1. p[d + 1] = q[d + 1]
        BY <1>0, <1>1, <2>1, <2>2, <2>4, <2>6
      <3> QED
        BY <2>1, <2>6, <3>1
    <2>7. CASE d + 1 > c
      <3>1. q[d + 1] = q[d] * g[d + 1] /\ p[d] = g[c] * q[d] /\ ~ (d + 1 < c)
        BY <1>0, <1>1, <2>1, <2>2, <2>4, <2>7
      <3>2. p[d + 1] = g[c] * q[d + 1]
        BY <2>2, <2>3, <3>1
      <3> QED
        BY <2>1, <3>1, <3>2
    <2> QED
      BY <1>0, <2>1, <2>5, <2>6, <2>7
  <1> HIDE DEF S
  <1>5. 0..Rank \subseteq S
    BY <1>0, <1>2, <1>3, <1>4, InductionUp
  <1> QED
    BY <1>0, <1>5 DEF S

\* The product of all lengths is the first length times its weight.
LEMMA ProductIsWeight ==
    ASSUME NEW g \in [Dims -> Int], NEW p, NEW w, IsProduct(p, g), IsWeight(w, g)
    PROVE  p[Rank] = w[1] * g[1]
  <1>0. Rank \in Nat \ {0} /\ Dims = 1..Rank
    BY PlanAssumption DEF Dims
  <1> DEFINE S == {d \in 0..Rank : d = 0 \/ p[Rank] = p[d - 1] * (w[d] * g[d])}
  <1>1. Rank \in S
    <2>1. p[Rank] = p[Rank - 1] * g[Rank] /\ w[Rank] = 1 /\ g[Rank] \in Int
      BY <1>0 DEF IsProduct, IsWeight
    <2> QED
      BY <1>0, <2>1
  <1>2. ASSUME NEW d \in 1..Rank, d \in S PROVE d - 1 \in S
    <2>1. CASE d = 1
      BY <1>0, <2>1
    <2>2. CASE d # 1
      <3>1. /\ d - 1 \in Dims /\ d - 1 \in 1..(Rank - 1) /\ (d - 1) + 1 = d /\ d \in Dims
            /\ d - 2 \in 0..Rank /\ (d - 1) - 1 = d - 2 /\ d - 1 \in 0..Rank
        BY <1>0, <2>2
      <3>2. w[d - 1] = w[d] * g[d] /\ p[d - 1] = p[d - 2] * g[d - 1]
        BY <3>1 DEF IsProduct, IsWeight
      <3>3. p[d - 2] \in Int /\ g[d - 1] \in Int /\ w[d] \in Int /\ g[d] \in Int /\ w[d - 1] \in Int
        BY <3>1 DEF IsProduct, IsWeight
      <3>4. p[Rank] = p[d - 1] * w[d - 1]
        BY <1>2, <3>2
      <3>5. p[Rank] = p[d - 2] * (w[d - 1] * g[d - 1])
        BY <3>2, <3>3, <3>4
      <3> QED
        BY <3>1, <3>5
    <2> QED
      BY <2>1, <2>2
  <1> HIDE DEF S
  <1>3. 0..Rank \subseteq S
    BY <1>0, <1>1, <1>2, InductionDown
  <1>4. p[Rank] = p[0] * (w[1] * g[1]) /\ p[0] = 1
    BY <1>0, <1>3 DEF S, IsProduct
  <1>5. w[1] * g[1] \in Int
    BY <1>0 DEF IsWeight
  <1> QED
    BY <1>4, <1>5

\* A weight is a natural number, positive when no length is zero; the weight
\* and length of an inner dimension divide the weight of an outer one.
LEMMA WeightIsNat ==
    ASSUME NEW g \in [Dims -> Nat], NEW w, IsWeight(w, g)
    PROVE  \A d \in Dims : /\ w[d] \in Nat
                           /\ (\A e \in Dims : e > d => g[e] > 0) => w[d] > 0
  <1>0. Rank \in Nat \ {0} /\ Dims = 1..Rank
    BY PlanAssumption DEF Dims
  <1> DEFINE S == {d \in 0..Rank : d = 0 \/ /\ w[d] \in Nat
                                            /\ (\A e \in Dims : e > d => g[e] > 0) => w[d] > 0}
  <1>1. Rank \in S
    BY <1>0 DEF IsWeight
  <1>2. ASSUME NEW d \in 1..Rank, d \in S PROVE d - 1 \in S
    <2>1. CASE d = 1
      BY <1>0, <2>1
    <2>2. CASE d # 1
      <3>1. d - 1 \in 1..(Rank - 1) /\ (d - 1) + 1 = d /\ d \in Dims /\ d - 1 \in 0..Rank
        BY <1>0, <2>2
      <3>2. w[d - 1] = w[d] * g[d] /\ w[d] \in Nat /\ g[d] \in Nat
        BY <1>2, <3>1 DEF IsWeight
      <3>3. w[d - 1] \in Nat /\ (w[d] > 0 /\ g[d] > 0 => w[d - 1] > 0)
        BY <3>2, ProductNat
      <3>4. ASSUME \A e \in Dims : e > d - 1 => g[e] > 0 PROVE w[d] > 0 /\ g[d] > 0
        BY <1>0, <1>2, <3>1, <3>4
      <3> QED
        BY <3>1, <3>3, <3>4
    <2> QED
      BY <2>1, <2>2
  <1> HIDE DEF S
  <1>3. 0..Rank \subseteq S
    BY <1>0, <1>1, <1>2, InductionDown
  <1> QED
    BY <1>0, <1>3 DEF S

\* Products in any order.
LEMMA TimesAssoc ==
    ASSUME NEW a \in Int, NEW b \in Int, NEW c \in Int
    PROVE  (a * b) * c = a * (b * c) /\ a * b = b * a /\ a * b \in Int
  OBVIOUS

\* The elements of an inner dimension fit a whole number of times between two
\* steps of an outer one.
LEMMA WeightDivides ==
    ASSUME NEW g \in [Dims -> Nat], NEW w, IsWeight(w, g), NEW e \in Dims
    PROVE  \A d \in Dims : d < e => \E q \in Nat : w[d] = q * (w[e] * g[e])
  <1>0. Rank \in Nat \ {0} /\ Dims = 1..Rank
    BY PlanAssumption DEF Dims
  <1> DEFINE b == w[e] * g[e]
             Divides(d) == \E q \in Nat : w[d] = q * b
             S == {d \in 0..e : d = 0 \/ d = e \/ Divides(d)}
  <1>1. e \in S /\ e \in Nat
    BY <1>0
  <1>b. b \in Nat /\ w[e] \in Nat /\ g[e] \in Nat
    BY WeightIsNat, ProductNat
  <1>2. ASSUME NEW d \in 1..e, d \in S PROVE d - 1 \in S
    <2>1. CASE d = 1
      BY <1>0, <2>1
    <2>2. CASE d # 1
      <3>1. /\ d - 1 \in 1..(Rank - 1) /\ (d - 1) + 1 = d /\ d \in Dims /\ d - 1 \in Dims
            /\ d - 1 \in 0..e
        BY <1>0, <2>2
      <3>2. w[d - 1] = w[d] * g[d] /\ w[d] \in Nat /\ g[d] \in Nat
        BY <3>1, WeightIsNat DEF IsWeight
      <3>3. CASE d = e
        <4>1. w[d - 1] = 1 * b
          BY <1>b, <3>2, <3>3
        <4> QED
          BY <3>1, <4>1
      <3>4. CASE d # e
        <4> HIDE DEF b
        <4>1. PICK q \in Nat : w[d] = q * b
          BY <1>2, <3>1, <3>4
        <4>2. g[d] * q \in Nat
          BY <3>2, ProductNat
        <4>3. w[d - 1] = (g[d] * q) * b
          <5>1. w[d - 1] = g[d] * (q * b)
            BY <1>b, <3>2, <4>1, TimesAssoc
          <5> QED
            BY <1>b, <3>2, <5>1, TimesAssoc
        <4> QED
          BY <3>1, <4>2, <4>3
      <3> QED
        BY <3>3, <3>4
    <2> QED
      BY <2>1, <2>2
  <1> HIDE DEF S
  <1>3. 0..e \subseteq S
    BY <1>1, <1>2, InductionDown
  <1>4. ASSUME NEW d \in Dims, d < e PROVE Divides(d)
    BY <1>0, <1>3, <1>4 DEF S
  <1> QED
    BY <1>4

\* The weights of the inner dimensions depend on the inner lengths only.
LEMMA WeightsAgree ==
    ASSUME NEW g \in [Dims -> Int], NEW h \in [Dims -> Int], NEW v, NEW w,
           IsWeight(v, g), IsWeight(w, h), NEW c \in Dims,
           \A d \in Dims : d > c => g[d] = h[d]
    PROVE  \A d \in Dims : d >= c => v[d] = w[d]
  <1>0. Rank \in Nat \ {0} /\ Dims = 1..Rank
    BY PlanAssumption DEF Dims
  <1> DEFINE S == {d \in 0..Rank : d >= c => v[d] = w[d]}
  <1>1. Rank \in S
    BY <1>0 DEF IsWeight
  <1>2. ASSUME NEW d \in 1..Rank, d \in S PROVE d - 1 \in S
    <2>1. CASE d - 1 < c
      BY <1>0, <2>1
    <2>2. CASE d - 1 >= c
      <3>1. d - 1 \in 1..(Rank - 1) /\ (d - 1) + 1 = d /\ d \in Dims /\ d - 1 \in 0..Rank /\ d > c
        BY <1>0, <2>2
      <3>2. v[d - 1] = v[d] * g[d] /\ w[d - 1] = w[d] * h[d] /\ v[d] = w[d] /\ g[d] = h[d]
        BY <1>2, <3>1 DEF IsWeight
      <3> QED
        BY <3>1, <3>2
    <2> QED
      BY <1>0, <2>1, <2>2
  <1> HIDE DEF S
  <1>3. 0..Rank \subseteq S
    BY <1>0, <1>1, <1>2, InductionDown
  <1> QED
    BY <1>0, <1>3 DEF S

(***************************************************************************)
(* Quotients                                                               *)
(***************************************************************************)

\* The quotient and the remainder are the only ones.
LEMMA DivUnique ==
    ASSUME NEW b \in Nat, NEW q \in Nat, NEW r \in 0..(b - 1)
    PROVE  /\ q * b + r \in Nat
           /\ (q * b + r) \div b = q /\ (q * b + r) % b = r
  <1> DEFINE a == q * b + r
             x == a \div b
             y == a % b
             m == q * b
  <1>1. b \in Nat \ {0} /\ m \in Nat
    BY ProductNat
  <1>2. a \in Nat
    BY <1>1
  <1> HIDE DEF a
  <1>3. x \in Nat /\ y \in 0..(b - 1) /\ a = b * x + y
    BY <1>1, <1>2
  <1> HIDE DEF x, y
  <1>4. b * x + y = q * b + r
    BY <1>3 DEF a
  <1>5. x = q
    <2>1. CASE x < q
      <3>1. b * (x + 1) <= b * q
        <4>1. PICK k \in Nat : q = (x + 1) + k
          <5>1. q - (x + 1) \in Nat /\ q = (x + 1) + (q - (x + 1))
            BY <1>3, <2>1
          <5> QED
            BY <5>1
        <4>2. b * k \in Nat
          BY ProductNat
        <4>3. b * q = b * (x + 1) + b * k
          BY <1>1, <1>3, <4>1
        <4>4. b * (x + 1) \in Nat
          BY <1>3, ProductNat
        <4> QED
          BY <4>2, <4>3, <4>4
      <3>2. b * (x + 1) = b * x + b /\ b * x \in Nat /\ b * q = q * b
        BY <1>3, ProductNat
      <3> QED
        BY <1>1, <1>3, <1>4, <3>1, <3>2
    <2>2. CASE q < x
      <3>1. b * (q + 1) <= b * x
        <4>1. PICK k \in Nat : x = (q + 1) + k
          <5>1. x - (q + 1) \in Nat /\ x = (q + 1) + (x - (q + 1))
            BY <1>3, <2>2
          <5> QED
            BY <5>1
        <4>2. b * k \in Nat
          BY ProductNat
        <4>3. b * x = b * (q + 1) + b * k
          BY <1>1, <1>3, <4>1
        <4>4. b * (q + 1) \in Nat
          BY <1>3, ProductNat
        <4> QED
          BY <4>2, <4>3, <4>4
      <3>2. b * (q + 1) = b * q + b /\ b * q = q * b /\ b * x \in Nat
        BY <1>3, ProductNat
      <3> QED
        BY <1>1, <1>3, <1>4, <3>1, <3>2
    <2> QED
      BY <1>3, <2>1, <2>2
  <1>6. y = r
    <2>1. b * x = m
      BY <1>3, <1>5
    <2> HIDE DEF m
    <2>2. b * x + y = m + r
      BY <1>4 DEF m
    <2> QED
      BY <1>1, <1>3, <2>1, <2>2
  <1> QED
    BY <1>2, <1>5, <1>6 DEF a, x, y

\* A multiple of the divisor does not change a remainder.
LEMMA ModStep ==
    ASSUME NEW b \in Nat \ {0}, NEW m \in Nat, NEW z \in Nat
    PROVE  m * b + z \in Nat /\ (m * b + z) % b = z % b
  <1> DEFINE q == z \div b
             r == z % b
             k == m + q
  <1>1. q \in Nat /\ r \in 0..(b - 1) /\ z = b * q + r
    OBVIOUS
  <1> HIDE DEF q, r
  <1>2. k * b = m * b + b * q /\ m * b \in Nat /\ b * q \in Nat /\ k \in Nat
    BY <1>1, ProductNat
  <1>3. m * b + z = k * b + r
    BY <1>1, <1>2
  <1> HIDE DEF k
  <1>4. (k * b + r) % b = r /\ k * b + r \in Nat
    BY <1>1, <1>2, DivUnique
  <1> QED
    BY <1>3, <1>4 DEF r

\* The digit of an inner dimension is not changed by whole steps of an outer
\* one, whose weight is a multiple of the inner one's weight and length.
WholeSteps(m, r, v, b) == \E x, q \in Nat : m = x * (q * (v * b)) + r
Digit(m, v, b) == (m \div v) % b

\* The index of an inner dimension repeats.
LEMMA InnerDigit ==
    ASSUME NEW v \in Nat \ {0}, NEW b \in Nat \ {0}, NEW u \in Nat, NEW r \in Nat,
           WholeSteps(u, r, v, b)
    PROVE  Digit(u, v, b) = Digit(r, v, b)
  <1>a. PICK x \in Nat, q \in Nat : u = x * (q * (v * b)) + r
    BY DEF WholeSteps
  <1> DEFINE W == q * (v * b)
  <1> DEFINE y == r \div v
             z == r % v
             m == x * q
             k == m * b + y
  <1>1. y \in Nat /\ z \in 0..(v - 1) /\ r = v * y + z
    OBVIOUS
  <1>2. m \in Nat
    BY ProductNat
  <1>3. x * W = (m * b) * v
    <2>1. v * b \in Nat /\ v * b = b * v
      BY ProductNat
    <2>2. x * W = m * (b * v)
      BY <2>1, TimesAssoc
    <2> HIDE DEF m
    <2> QED
      BY <1>2, <2>2, TimesAssoc
  <1> HIDE DEF y, z, m
  <1> HIDE DEF W
  <1>4. m * b \in Nat /\ k \in Nat
    BY <1>1, <1>2, ProductNat
  <1>5. k * v = (m * b) * v + v * y /\ (m * b) * v \in Nat /\ v * y \in Nat
    <2> DEFINE mb == m * b
    <2>1. mb \in Nat /\ k = mb + y
      BY <1>4
    <2> HIDE DEF mb, k
    <2>2. (mb + y) * v = mb * v + v * y /\ mb * v \in Nat /\ v * y \in Nat
      BY <1>1, <2>1, ProductNat
    <2> QED
      BY <2>1, <2>2 DEF mb
  <1> DEFINE a == (m * b) * v
             c == v * y
  <1>6. a \in Nat /\ c \in Nat /\ k * v = a + c
    BY <1>5
  <1>7. x * W + r = a + (c + z)
    BY <1>1, <1>3
  <1> HIDE DEF a, c
  <1>8. x * W + r = k * v + z
    BY <1>1, <1>6, <1>7
  <1>9. (k * v + z) \div v = k
    <2> HIDE DEF k
    <2> QED
      BY <1>1, <1>4, DivUnique
  <1>10. (m * b + y) % b = y % b
    BY <1>1, <1>2, ModStep
  <1>11. u \div v = k
    BY <1>a, <1>8, <1>9 DEF W
  <1> QED
    BY <1>10, <1>11 DEF y, Digit

\* The indices y are those of place m.
IsPlace(m, w, g, y) == \A e \in Dims : (m \div w[e]) % g[e] = y[e]

\* Every combination of indices is that of one place in the row-major order.
LEMMA PlaceExists ==
    ASSUME NEW g \in [Dims -> Nat], NEW w, IsWeight(w, g),
           NEW y \in [Dims -> Nat], \A d \in Dims : y[d] < g[d]
    PROVE  \E m \in 0..(w[1] * g[1] - 1) : IsPlace(m, w, g, y)
  <1>0. Rank \in Nat \ {0} /\ Dims = 1..Rank
    BY PlanAssumption DEF Dims
  <1>g. \A d \in Dims : /\ g[d] \in Nat \ {0} /\ w[d] \in Nat \ {0}
                        /\ y[d] \in 0..(g[d] - 1)
    BY WeightIsNat
  <1> DEFINE Good(d, m) == /\ m \in 0..(w[d] * g[d] - 1)
                           /\ \A e \in d..Rank : (m \div w[e]) % g[e] = y[e]
             S == {d \in 0..Rank : d = 0 \/ \E m \in Nat : Good(d, m)}
  <1>d. ASSUME NEW d \in Dims, NEW r \in 0..(w[d] - 1)
        PROVE  /\ y[d] * w[d] + r \in 0..(w[d] * g[d] - 1)
               /\ y[d] * w[d] \in Nat
               /\ ((y[d] * w[d] + r) \div w[d]) % g[d] = y[d]
    <2> DEFINE a == y[d]
               b == g[d]
               v == w[d]
    <2>1. a \in 0..(b - 1) /\ b \in Nat \ {0} /\ v \in Nat \ {0} /\ r \in 0..(v - 1) /\ a \in Nat
      BY <1>g
    <2> HIDE DEF a, b, v
    <2>2. (a * v + r) \div v = a
      BY <2>1, DivUnique
    <2>3. a % b = a
      BY <2>1
    <2>4. (a + 1) * v <= b * v
      <3>1. b - (a + 1) \in Nat
        BY <2>1
      <3>2. (b - (a + 1)) * v \in Nat
        BY <2>1, <3>1, ProductNat
      <3>3. b * v = (a + 1) * v + (b - (a + 1)) * v
        BY <2>1, <3>1
      <3>4. (a + 1) * v \in Nat
        BY <2>1, ProductNat
      <3> QED
        BY <3>2, <3>3, <3>4
    <2>5. (a + 1) * v = a * v + v /\ a * v \in Nat /\ b * v = v * b
      BY <2>1, ProductNat
    <2>6. a * v + r \in 0..(v * b - 1)
      BY <2>1, <2>4, <2>5
    <2> QED
      BY <2>2, <2>3, <2>5, <2>6 DEF a, b, v
  <1>1. Rank \in S
    <2>1. w[Rank] = 1 /\ Rank \in Dims /\ 0 \in 0..(w[Rank] - 1)
      BY <1>0 DEF IsWeight
    <2> DEFINE m == y[Rank] * w[Rank] + 0
    <2>2. m \in 0..(w[Rank] * g[Rank] - 1) /\ (m \div w[Rank]) % g[Rank] = y[Rank]
      BY <1>d, <2>1
    <2> HIDE DEF m
    <2>3. Good(Rank, m)
      BY <1>0, <2>2
    <2>4. m \in Nat
      <3>1. w[Rank] * g[Rank] \in Nat
        BY <1>g, <2>1, ProductNat
      <3> QED
        BY <2>2, <3>1
    <2> HIDE DEF Good
    <2> QED
      BY <1>0, <2>3, <2>4
  <1>2. ASSUME NEW d \in 1..Rank, d \in S PROVE d - 1 \in S
    <2>1. CASE d = 1
      BY <1>0, <2>1
    <2>2. CASE d # 1
      <3> DEFINE c == d - 1
      <3>1. c \in 1..(Rank - 1) /\ c + 1 = d /\ d \in Dims /\ c \in Dims /\ c \in 0..Rank
        BY <1>0, <2>2
      <3> HIDE DEF c
      <3>2. w[c] = w[d] * g[d]
        BY <3>1 DEF IsWeight
      <3>3. PICK r \in Nat : Good(d, r)
        BY <1>0, <1>2, <3>1
      <3>4. r \in 0..(w[c] - 1) /\ \A e \in d..Rank : (r \div w[e]) % g[e] = y[e]
        BY <3>2, <3>3
      <3> DEFINE k == y[c] * w[c]
                 m == k + r
      <3>5. m \in 0..(w[c] * g[c] - 1) /\ (m \div w[c]) % g[c] = y[c] /\ k \in Nat
        BY <1>d, <3>1, <3>4
      <3>6. ASSUME NEW e \in d..Rank PROVE (m \div w[e]) % g[e] = y[e]
        <4>1. e \in Dims /\ c < e
          BY <1>0, <3>1
        <4>2. PICK q \in Nat : w[c] = q * (w[e] * g[e])
          BY <3>1, <4>1, WeightDivides
        <4> DEFINE v == w[e]
                   b == g[e]
                   x == y[c]
        <4>a. v \in Nat \ {0} /\ b \in Nat \ {0} /\ x \in Nat /\ m = x * (q * (v * b)) + r
          BY <1>g, <3>1, <4>1, <4>2
        <4>b. m \in Nat /\ r \in Nat
          BY <3>3, <3>5
        <4> HIDE DEF v, b, x, m
        <4>c. WholeSteps(m, r, v, b)
          BY <4>a, <4>2 DEF WholeSteps
        <4>3. (m \div w[e]) % g[e] = (r \div w[e]) % g[e]
          <5>0. v \in Nat \ {0} /\ b \in Nat \ {0}
            BY <4>a
          <5>1. Digit(m, v, b) = Digit(r, v, b)
            BY ONLY <4>b, <4>c, <5>0, InnerDigit
          <5> QED
            BY <5>1 DEF Digit, v, b
        <4> QED
          BY <3>4, <4>3
      <3> HIDE DEF m
      <3>7. \A e \in c..Rank : e = c \/ e \in d..Rank
        BY <1>0, <3>1
      <3>8. Good(c, m)
        BY <3>5, <3>6, <3>7
      <3>9. m \in Nat
        BY <3>3, <3>5 DEF m
      <3> HIDE DEF Good
      <3> QED
        BY <3>1, <3>8, <3>9 DEF c
    <2> QED
      BY <2>1, <2>2
  <1>3. 1 \in S
    <2> HIDE DEF S
    <2>1. 0..Rank \subseteq S
      BY <1>0, <1>1, <1>2, InductionDown
    <2> QED
      BY <1>0, <2>1
  <1>4. PICK m \in Nat : Good(1, m)
    BY <1>3
  <1> QED
    BY <1>0, <1>4 DEF IsPlace

(***************************************************************************)
(* Boxes: selections of stride 1, as the servers read them                 *)
(***************************************************************************)
IsBox(s) ==
  s \in [Dims -> {r \in [start : Nat, stop : Nat, step : {1}] : r.start <= r.stop}]

Box(s) == {x \in [Dims -> Nat] : \A d \in Dims : s[d].start <= x[d] /\ x[d] < s[d].stop}

\* The lengths of a box, its stride being 1, are those from corner to corner.
LEMMA BoxSizes ==
    ASSUME NEW s, IsBox(s)
    PROVE  /\ \A d \in Dims : /\ s[d].start \in Nat /\ s[d].stop \in Nat /\ s[d].step = 1
                              /\ s[d].start <= s[d].stop
                              /\ Length(s[d]) = s[d].stop - s[d].start
                              /\ Sizes(s)[d] = s[d].stop - s[d].start
           /\ Sizes(s) \in [Dims -> Nat] /\ Lens(s) = Sizes(s)
  <1>1. ASSUME NEW d \in Dims
        PROVE  /\ s[d].start \in Nat /\ s[d].stop \in Nat /\ s[d].step = 1
               /\ s[d].start <= s[d].stop
    BY DEF IsBox
  <1>2. ASSUME NEW d \in Dims PROVE Length(s[d]) = s[d].stop - s[d].start
    BY <1>1 DEF Length
  <1> QED
    BY <1>1, <1>2 DEF Sizes, Lens

\* The row-major order of a box, and the number of its elements.
LEMMA BoxRowMajor ==
    ASSUME NEW s, IsBox(s)
    PROVE  /\ NumPoints(s) \in Nat
           /\ NumPoints(s) > 0 <=> \A d \in Dims : Sizes(s)[d] > 0
           /\ \E w : /\ IsWeight(w, Sizes(s)) /\ NumPoints(s) = w[1] * Sizes(s)[1]
                     /\ RowMajor(s) =
                          [k \in 1..NumPoints(s) |->
                             [d \in Dims |-> s[d].start + (((k - 1) \div w[d]) % Sizes(s)[d])]]
  <1> DEFINE g == Sizes(s)
  <1>1. /\ g \in [Dims -> Nat] /\ Lens(s) = g
        /\ \A d \in Dims : s[d].step = 1 /\ Length(s[d]) = g[d] /\ s[d].start \in Nat
    BY BoxSizes
  <1>2. \A d \in Dims : Length(s[d]) \in Int
    BY <1>1
  <1> HIDE DEF g
  <1>3. PICK p : IsProduct(p, g) /\ NumPoints(s) = p[Rank]
    BY <1>1, <1>2, NumPointsIs
  <1>4. PICK w : /\ IsWeight(w, g)
                 /\ RowMajor(s) = [k \in 1..NumPoints(s) |->
                       [d \in Dims |-> s[d].start + (((k - 1) \div w[d]) % Length(s[d])) * s[d].step]]
    BY <1>1, <1>2, RowMajorIs
  <1>5. NumPoints(s) \in Nat /\ (NumPoints(s) > 0 <=> \A d \in Dims : g[d] > 0)
    BY <1>1, <1>3, ProductIsNat
  <1>6. NumPoints(s) = w[1] * g[1]
    BY <1>1, <1>3, <1>4, ProductIsWeight
  <1>7. ASSUME NEW k \in 1..NumPoints(s), NEW d \in Dims
        PROVE  s[d].start + (((k - 1) \div w[d]) % Length(s[d])) * s[d].step
                 = s[d].start + (((k - 1) \div w[d]) % g[d])
    <2>1. g[d] \in Nat \ {0} /\ w[d] \in Nat \ {0} /\ k - 1 \in Nat
      <3>1. NumPoints(s) > 0 /\ k - 1 \in Nat
        BY <1>5
      <3>2. \A e \in Dims : g[e] > 0 /\ g[e] \in Nat
        BY <1>1, <1>5, <3>1
      <3>3. w[d] \in Nat /\ w[d] > 0
        BY <1>1, <1>4, <3>2, WeightIsNat
      <3> QED
        BY <3>1, <3>2, <3>3
    <2>2. (k - 1) \div w[d] \in Nat
      BY <2>1
    <2>3. ((k - 1) \div w[d]) % g[d] \in Nat
      BY <2>1, <2>2
    <2> QED
      BY <1>1, <2>3
  <1>8. RowMajor(s) = [k \in 1..NumPoints(s) |->
                         [d \in Dims |-> s[d].start + (((k - 1) \div w[d]) % g[d])]]
    BY <1>4, <1>7
  <1> QED
    BY <1>4, <1>5, <1>6, <1>8 DEF g

\* The row-major order of a box goes through all of it and nothing else.
LEMMA RowMajorCovers ==
    ASSUME NEW s, IsBox(s)
    PROVE  {RowMajor(s)[k] : k \in 1..NumPoints(s)} = Box(s)
  <1> DEFINE g == Sizes(s)
             N == NumPoints(s)
  <1>0. Rank \in Nat \ {0} /\ Dims = 1..Rank
    BY PlanAssumption DEF Dims
  <1>1. /\ g \in [Dims -> Nat]
        /\ \A d \in Dims : s[d].start \in Nat /\ s[d].stop \in Nat /\ g[d] = s[d].stop - s[d].start
    BY BoxSizes
  <1>2. N \in Nat /\ (N > 0 <=> \A d \in Dims : g[d] > 0)
    BY BoxRowMajor
  <1>3. PICK w : /\ IsWeight(w, g) /\ N = w[1] * g[1]
                 /\ RowMajor(s) =
                      [k \in 1..N |-> [d \in Dims |-> s[d].start + (((k - 1) \div w[d]) % g[d])]]
    BY BoxRowMajor
  <1> HIDE DEF g, N
  <1>4. ASSUME NEW k \in 1..N PROVE RowMajor(s)[k] \in Box(s)
    <2> DEFINE x == [d \in Dims |-> s[d].start + (((k - 1) \div w[d]) % g[d])]
    <2>1. RowMajor(s)[k] = x
      BY <1>3
    <2>2. ASSUME NEW d \in Dims PROVE x[d] \in Nat /\ s[d].start <= x[d] /\ x[d] < s[d].stop
      <3>1. g[d] \in Nat \ {0} /\ w[d] \in Nat \ {0} /\ k - 1 \in Nat
        <4>1. N > 0 /\ k - 1 \in Nat
          BY <1>2
        <4>2. \A e \in Dims : g[e] > 0 /\ g[e] \in Nat
          BY <1>1, <1>2, <4>1
        <4>3. w[d] \in Nat /\ w[d] > 0
          BY <1>1, <1>3, <4>2, WeightIsNat
        <4> QED
          BY <4>1, <4>2, <4>3
      <3> DEFINE y == (k - 1) \div w[d]
      <3>2. y \in Nat
        BY <3>1
      <3>3. x[d] = s[d].start + (y % g[d])
        OBVIOUS
      <3> HIDE DEF y, x
      <3>4. y % g[d] \in 0..(g[d] - 1)
        BY <3>1, <3>2
      <3> QED
        BY <1>1, <3>1, <3>3, <3>4
    <2>3. x \in Box(s)
      BY <2>2 DEF Box
    <2> QED
      BY <2>1, <2>3
  <1>5. ASSUME NEW x \in Box(s) PROVE \E k \in 1..N : RowMajor(s)[k] = x
    <2> DEFINE y == [d \in Dims |-> x[d] - s[d].start]
    <2>1. x \in [Dims -> Nat] /\ \A d \in Dims : s[d].start <= x[d] /\ x[d] < s[d].stop
      BY DEF Box
    <2>2. y \in [Dims -> Nat] /\ \A d \in Dims : y[d] < g[d] /\ s[d].start + y[d] = x[d]
      BY <1>1, <2>1
    <2> HIDE DEF y
    <2>a. PICK m \in 0..(w[1] * g[1] - 1) : IsPlace(m, w, g, y)
      BY <1>1, <1>3, <2>2, PlaceExists
    <2>3. m \in 0..(w[1] * g[1] - 1) /\ \A e \in Dims : (m \div w[e]) % g[e] = y[e]
      BY <2>a DEF IsPlace
    <2> DEFINE k == m + 1
    <2>4. k \in 1..N /\ k - 1 = m
      BY <1>2, <1>3, <2>3
    <2> HIDE DEF k
    <2>5. RowMajor(s)[k] = [d \in Dims |-> x[d]]
      BY <1>3, <2>2, <2>3, <2>4
    <2>6. [d \in Dims |-> x[d]] = x
      BY <2>1
    <2> QED
      BY <2>4, <2>5, <2>6
  <1> QED
    BY <1>4, <1>5 DEF N

\* The elements of a box, counted along one of its dimensions.
LEMMA BoxParts ==
    ASSUME NEW s, IsBox(s), NEW c \in Dims
    PROVE  /\ OthersOf(s, c) \in Nat
           /\ NumPoints(s) = (s[c].stop - s[c].start) * OthersOf(s, c)
  <1> DEFINE g == Sizes(s)
             h == [g EXCEPT ![c] = 1]
  <1>1. /\ g \in [Dims -> Nat] /\ Lens(s) = g /\ g[c] = s[c].stop - s[c].start
        /\ \A d \in Dims : Length(s[d]) \in Int /\ s[d].stop - s[d].start \in Int
    BY BoxSizes
  <1> HIDE DEF g
  <1>2. PICK p : IsProduct(p, g) /\ NumPoints(s) = p[Rank]
    BY <1>1, NumPointsIs
  <1>3. PICK q : IsProduct(q, h) /\ OthersOf(s, c) = q[Rank]
    BY <1>1, OthersIs DEF g
  <1>4. h \in [Dims -> Nat] /\ g \in [Dims -> Int]
    BY <1>1
  <1>5. p[Rank] = g[c] * q[Rank]
    <2>1. IsProduct(q, Without(g, c))
      BY <1>3 DEF Without
    <2> QED
      BY <1>2, <1>4, <2>1, ProductSplits
  <1>6. q[Rank] \in Nat
    BY <1>3, <1>4, ProductIsNat
  <1> QED
    BY <1>1, <1>2, <1>3, <1>5, <1>6

\* The product of the other lengths does not depend on the length left out.
LEMMA OthersSame ==
    ASSUME NEW s, NEW r, NEW c \in Dims,
           \A d \in Dims : /\ s[d].stop - s[d].start \in Int /\ r[d].stop - r[d].start \in Int
                           /\ d # c => s[d].stop - s[d].start = r[d].stop - r[d].start
    PROVE  OthersOf(s, c) = OthersOf(r, c)
  <1> DEFINE g == [Sizes(s) EXCEPT ![c] = 1]
             h == [Sizes(r) EXCEPT ![c] = 1]
  <1>1. g = h /\ g \in [Dims -> Int]
    <2>1. \A d \in Dims : /\ Sizes(s)[d] \in Int /\ Sizes(r)[d] \in Int
                          /\ d # c => Sizes(s)[d] = Sizes(r)[d]
      BY DEF Sizes
    <2>2. Sizes(s) \in [Dims -> Int] /\ Sizes(r) \in [Dims -> Int]
      BY DEF Sizes
    <2>3. \A d \in Dims : g[d] = h[d] /\ g[d] \in Int
      BY <2>1, <2>2
    <2>4. DOMAIN g = Dims /\ DOMAIN h = Dims
      BY <2>2
    <2>5. g = [d \in Dims |-> g[d]] /\ h = [d \in Dims |-> h[d]]
      BY <2>2, <2>4
    <2> HIDE DEF g, h
    <2> QED
      BY <2>3, <2>5
  <1>2. PICK p : IsProduct(p, g) /\ OthersOf(s, c) = p[Rank]
    BY OthersIs
  <1>3. PICK q : IsProduct(q, h) /\ OthersOf(r, c) = q[Rank]
    BY OthersIs
  <1> HIDE DEF g, h
  <1> QED
    BY <1>1, <1>2, <1>3, ProductUnique

(***************************************************************************)
(* The inductive invariant of the plan                                     *)
(***************************************************************************)

\* The last cut was one of the selection s.
CutOf(s) == /\ s # All /\ dim \in Dims
            /\ offset = s[dim].start /\ count = s[dim].stop /\ sum = OthersOf(s, dim)

\* What node k is asked for, and where its answer goes.
PartOf(s, k) == [d \in Dims |-> IF d = dim
                                  THEN [start |-> starts[k], stop |-> ends[k], step |-> 1]
                                  ELSE [s[d] EXCEPT !.step = 1]]
PlaceOf(k) == ((starts[k] - offset) * sum) * MemTypeSize

\* A single server: one transfer, one buffer and one request per dataset.
AloneInv ==
  /\ t <= Len(selections) /\ Len(capacity) = t
  /\ rpc \in {"split", "layout"} =>
       /\ t < Len(selections)
       /\ rpc = "split" \/ selections[t + 1] # All => CutOf(selections[t + 1])
       /\ rpc = "layout" /\ selections[t + 1] # All => i = n
  /\ \A k \in 1..t :
       /\ buffer[k] = [base |-> k, at |-> 0] /\ requests[k] = Whole(selections[k])
       /\ selections[k] # All =>
            capacity[k] = NumPoints(ServerReads(selections[k])) * MemTypeSize

\* Several servers, the first dataset: a part per server, each behind the one
\* before.  The memory of a dataset that is read as a whole is of no size.
SharedInv ==
  /\ rpc \in {"split", "layout"} => t < n
  /\ rpc = "split" => t = 0 /\ flag_Node
  /\ t = 0 => capacity = <<>>
  /\ flag_Node => /\ CutOf(selections[1]) /\ (rpc # "split" => i = n)
                  /\ t > 0 => capacity = <<((count - offset) * sum) * MemTypeSize>>
                  /\ \A k \in 1..t : /\ buffer[k] = [base |-> 1, at |-> PlaceOf(k - 1)]
                                     /\ requests[k] = PartOf(selections[1], k - 1)
  /\ ~flag_Node => /\ Node_Size = Zero
                   /\ t > 0 => selections[1] = All /\ capacity = <<0>>
                   /\ \A k \in 1..t : /\ buffer[k] = [base |-> 1, at |-> 0]
                                      /\ requests[k] = WholeDataset

Requests == [Dims -> [start : Nat, stop : Nat, step : Nat]]

ShapeInv ==
  /\ \E c \in 1..MaxCount : selections \in [1..c -> Selections]
  /\ rpc \in {"plan", "split", "layout", "done", "undefined"} /\ t \in Nat
  /\ flag_Node \in BOOLEAN
  /\ requests \in Seq(Requests) /\ Len(requests) = t
  /\ buffer \in Seq([base : Nat, at : Int]) /\ Len(buffer) = t
  /\ capacity \in Seq(Int)

DoneInv == rpc = "done" => /\ Last /\ ~Overflows
                           /\ result = [d \in DOMAIN selections |-> Merged(d)]

PlanInv ==
  /\ ShapeInv /\ SplitInv /\ DoneInv
  /\ n = 1 => AloneInv
  /\ n > 1 => t <= n /\ (t < n \/ Len(selections) = 1 => SharedInv)

(***************************************************************************)
(* Selections                                                              *)
(***************************************************************************)

\* A selection of the application's that is not of the whole dataset.
LEMMA SelectionIs ==
    ASSUME NEW s \in Selections, s # All
    PROVE  /\ \A d \in Dims : /\ s[d].start \in Nat /\ s[d].stop \in Nat /\ s[d].step \in Nat
                              /\ s[d].start < s[d].stop
                              /\ s[d] = [start |-> s[d].start, stop |-> s[d].stop, step |-> s[d].step]
           /\ s \in Requests /\ s \in [Dims -> Ranges]
  <1>1. s \in [Dims -> Ranges]
    BY DEF Selections
  <1>2. Extent \in Nat \ {0} /\ Steps \subseteq Nat
    BY PlanAssumption
  <1>3. ASSUME NEW d \in Dims
        PROVE  /\ s[d].start \in Nat /\ s[d].stop \in Nat /\ s[d].step \in Nat
               /\ s[d].start < s[d].stop
               /\ s[d] = [start |-> s[d].start, stop |-> s[d].stop, step |-> s[d].step]
    <2>1. s[d] \in Ranges
      BY <1>1
    <2> DEFINE r == s[d]
    <2>2. r \in [start : 0..(Extent - 1), stop : 1..Extent, step : Steps] /\ r.start < r.stop
      BY <2>1 DEF Ranges
    <2> HIDE DEF r
    <2>3. /\ r.start \in 0..(Extent - 1) /\ r.stop \in 1..Extent /\ r.step \in Steps
          /\ r = [start |-> r.start, stop |-> r.stop, step |-> r.step]
      BY <2>2
    <2>4. r.start \in Nat /\ r.stop \in Nat /\ r.step \in Nat
      BY <1>2, <2>3
    <2> QED
      BY <2>2, <2>3, <2>4 DEF r
  <1>4. s \in Requests
    <2>1. ASSUME NEW d \in Dims PROVE s[d] \in [start : Nat, stop : Nat, step : Nat]
      <3> DEFINE a == s[d].start
                 b == s[d].stop
                 c == s[d].step
      <3>1. a \in Nat /\ b \in Nat /\ c \in Nat /\ s[d] = [start |-> a, stop |-> b, step |-> c]
        BY <1>3
      <3> HIDE DEF a, b, c
      <3>2. [start |-> a, stop |-> b, step |-> c] \in [start : Nat, stop : Nat, step : Nat]
        BY <3>1
      <3> QED
        BY <3>1, <3>2
    <2> QED
      BY <1>1, <2>1 DEF Requests
  <1> QED
    BY <1>1, <1>3, <1>4

\* The whole dataset is a box, and not an empty one.
LEMMA WholeIs == WholeDataset \in Requests /\ IsBox(WholeDataset)
                 /\ \A d \in Dims : Sizes(WholeDataset)[d] > 0
  <1>1. Extent \in Nat \ {0}
    BY PlanAssumption
  <1>2. [start |-> 0, stop |-> Extent, step |-> 1] \in
          {r \in [start : Nat, stop : Nat, step : {1}] : r.start <= r.stop}
    BY <1>1
  <1>3. WholeDataset \in Requests
    BY <1>1 DEF Requests, WholeDataset
  <1>4. IsBox(WholeDataset)
    BY <1>2 DEF IsBox, WholeDataset
  <1>5. \A d \in Dims : Sizes(WholeDataset)[d] > 0
    BY <1>1 DEF Sizes, WholeDataset
  <1> QED
    BY <1>3, <1>4, <1>5

\* What a server reads for a request is a box; for a box, the box.
LEMMA ReadsOf ==
    ASSUME NEW s \in Requests, \A d \in Dims : s[d].start <= s[d].stop
    PROVE  /\ IsBox(ServerReads(s))
           /\ \A d \in Dims : /\ ServerReads(s)[d].start = s[d].start
                              /\ ServerReads(s)[d].stop = s[d].stop
  <1>1. ASSUME NEW d \in Dims
        PROVE  /\ [s[d] EXCEPT !.step = 1] \in
                    {r \in [start : Nat, stop : Nat, step : {1}] : r.start <= r.stop}
               /\ [s[d] EXCEPT !.step = 1].start = s[d].start
               /\ [s[d] EXCEPT !.step = 1].stop = s[d].stop
    <2>1. s[d] \in [start : Nat, stop : Nat, step : Nat]
      BY DEF Requests
    <2> QED
      BY <2>1
  <1> QED
    BY <1>1 DEF IsBox, ServerReads

\* What a server reads for a box is the box.
LEMMA ReadsOfBox ==
    ASSUME NEW s, IsBox(s)
    PROVE  ServerReads(s) = s
  <1>1. ASSUME NEW d \in Dims PROVE [s[d] EXCEPT !.step = 1] = s[d]
    <2>1. s[d] \in [start : Nat, stop : Nat, step : {1}]
      BY DEF IsBox
    <2> QED
      BY <2>1
  <1>2. s = [d \in Dims |-> s[d]]
    BY DEF IsBox
  <1>3. ServerReads(s) = [d \in Dims |-> s[d]]
    BY <1>1 DEF ServerReads
  <1> QED
    BY <1>2, <1>3

\* The number of elements read for a selection, counted along dimension c.
LEMMA ReadsPoints ==
    ASSUME NEW s \in Selections, s # All, NEW c \in Dims
    PROVE  /\ IsBox(ServerReads(s)) /\ OthersOf(s, c) \in Nat
           /\ NumPoints(ServerReads(s)) = (s[c].stop - s[c].start) * OthersOf(s, c)
           /\ NumPoints(ServerReads(s)) \in Nat \ {0}
  <1> DEFINE r == ServerReads(s)
  <1>1. /\ s \in Requests
        /\ \A d \in Dims : s[d].start \in Nat /\ s[d].stop \in Nat /\ s[d].start < s[d].stop
    BY SelectionIs
  <1>2. IsBox(r) /\ \A d \in Dims : r[d].start = s[d].start /\ r[d].stop = s[d].stop
    BY <1>1, ReadsOf
  <1> HIDE DEF r
  <1>3. \A d \in Dims : Sizes(r)[d] > 0
    BY <1>1, <1>2 DEF Sizes
  <1>4. OthersOf(s, c) = OthersOf(r, c)
    BY <1>1, <1>2, OthersSame
  <1> QED
    BY <1>1, <1>2, <1>3, <1>4, BoxParts, BoxRowMajor DEF r

(***************************************************************************)
(* Parts                                                                   *)
(***************************************************************************)

\* A call of splitRangeAndGetInfo begins with no part written.
LEMMA SplitBegins ==
    ASSUME SplitInv, NEW lo \in Nat, NEW hi \in Nat, lo <= hi, NEW m \in Nat,
           SplitBegin(lo, hi, m)
    PROVE  SplitInv'
  <1>1. /\ offset' = lo /\ count' = hi /\ sum' = m /\ i' = 0 /\ currentStart' = lo
        /\ starts' = starts /\ ends' = ends /\ Node_Size' = Node_Size
    BY DEF SplitBegin
  <1>2. SplitTypeOK'
    BY <1>1, nAssumption DEF SplitInv, SplitTypeOK
  <1>3. StartInv'
    <2>1. rangeSize' \in Nat /\ rangeSize' = hi - lo
      BY <1>1 DEF rangeSize
    <2> DEFINE q == rangeSize' \div n
               r == rangeSize' % n
    <2>2. q \in Nat /\ r \in 0..(n - 1)
      BY <2>1, DivMod, nAssumption
    <2>3. elementsPerPart' = q /\ remainingElements' = r
      BY DEF elementsPerPart, remainingElements
    <2> HIDE DEF q, r
    <2>a. 0 * q = 0
      BY <2>2
    <2>4. currentStart' = offset' + i' * q + (IF i' < r THEN i' ELSE r)
      BY <1>1, <2>2, <2>a
    <2> QED
      BY <2>3, <2>4 DEF StartInv
  <1>4. ChainInv' /\ LengthInv'
    BY <1>1 DEF ChainInv, LengthInv, Parts
  <1> QED
    BY <1>2, <1>3, <1>4 DEF SplitInv

\* The parts follow one another inside the range.
LEMMA PartsAre ==
    ASSUME SplitInv, i = n
    PROVE  /\ offset \in Nat /\ count \in Nat /\ offset <= count /\ sum \in Nat
           /\ starts[0] = offset /\ ends[n - 1] = count
           /\ \A k \in Parts : k > 0 => starts[k] = ends[k - 1]
           /\ \A k \in Parts : /\ starts[k] \in Nat /\ ends[k] \in Nat
                               /\ starts[k] <= ends[k]
                               /\ Node_Size[k] = (ends[k] - starts[k]) * sum
  <1>1. PartsCover
    BY PartsCoverNow
  <1>2. elementsPerPart \in Nat
    BY Quotient DEF SplitInv
  <1>3. SplitTypeOK /\ LengthInv
    BY DEF SplitInv
  <1>4. ASSUME NEW k \in Parts
        PROVE  /\ starts[k] \in Nat /\ ends[k] \in Nat /\ starts[k] <= ends[k]
               /\ Node_Size[k] = (ends[k] - starts[k]) * sum
    <2>1. starts[k] \in Nat /\ ends[k] \in Nat /\ k < i
      BY <1>3, nAssumption DEF SplitTypeOK, Parts
    <2> QED
      BY <1>2, <1>3, <2>1 DEF LengthInv
  <1> QED
    BY <1>1, <1>3, <1>4 DEF PartsCover, SplitTypeOK

\* An earlier part ends before a later one starts.
LEMMA PartsInOrder ==
    ASSUME SplitInv, i = n
    PROVE  /\ \A k, m \in Parts : k < m => ends[k] <= starts[m]
           /\ \A k \in Parts : offset <= starts[k] /\ ends[k] <= count
  <1>0. n \in Nat \ {0} /\ n - 1 \in Nat /\ Parts = 0..(n - 1)
    BY nAssumption DEF Parts
  <1>1. ASSUME NEW k \in Parts PROVE \A m \in Parts : k < m => ends[k] <= starts[m]
    <2> DEFINE S == {m \in 0..(n - 1) : k < m => ends[k] <= starts[m]}
    <2>1. 0 \in S
      BY <1>0
    <2>2. ASSUME NEW m \in 0..((n - 1) - 1), m \in S PROVE m + 1 \in S
      <3>1. m \in Parts /\ m + 1 \in Parts /\ (m + 1) - 1 = m /\ m + 1 > 0
        BY <1>0
      <3>2. starts[m + 1] = ends[m] /\ starts[m] <= ends[m]
            /\ starts[m] \in Nat /\ ends[m] \in Nat /\ ends[k] \in Nat
        BY <3>1, PartsAre
      <3>3. CASE k < m
        BY <1>0, <2>2, <3>1, <3>2, <3>3
      <3>4. CASE k = m
        BY <1>0, <3>1, <3>2, <3>4
      <3>5. CASE m < k
        BY <1>0, <3>1, <3>5
      <3> QED
        BY <1>0, <3>3, <3>4, <3>5
    <2> HIDE DEF S
    <2>3. 0..(n - 1) \subseteq S
      BY <1>0, <2>1, <2>2, InductionUp
    <2> QED
      BY <1>0, <2>3 DEF S
  <1>2. ASSUME NEW k \in Parts PROVE offset <= starts[k] /\ ends[k] <= count
    <2>0. 0 \in Parts /\ n - 1 \in Parts /\ k \in 0..(n - 1)
      BY <1>0
    <2>1. offset <= starts[k]
      <3>1. CASE k = 0
        BY <2>0, <3>1, PartsAre
      <3>2. CASE k # 0
        <4>1. ends[0] <= starts[k]
          BY <1>1, <2>0, <3>2
        <4> QED
          BY <2>0, <4>1, PartsAre
      <3> QED
        BY <3>1, <3>2
    <2>2. ends[k] <= count
      <3>1. CASE k = n - 1
        BY <2>0, <3>1, PartsAre
      <3>2. CASE k # n - 1
        <4>1. ends[k] <= starts[n - 1]
          <5>1. k < n - 1
            BY <1>0, <2>0, <3>2
          <5> QED
            BY <1>1, <2>0, <5>1
        <4>2. starts[n - 1] <= ends[n - 1] /\ ends[n - 1] = count /\ starts[n - 1] \in Nat
              /\ ends[n - 1] \in Nat /\ ends[k] \in Nat
          BY <2>0, PartsAre
        <4> QED
          BY <4>1, <4>2
      <3> QED
        BY <3>1, <3>2
    <2> QED
      BY <2>1, <2>2
  <1> QED
    BY <1>1, <1>2

\* Two parts that meet, in bytes.
LEMMA Distribute ==
    ASSUME NEW a \in Int, NEW b \in Int, NEW c \in Int, NEW m \in Int, NEW k \in Int
    PROVE  ((a - b) * m) * k + ((c - a) * m) * k = ((c - b) * m) * k
  OBVIOUS

\* The memory of a dataset whose range was cut is that of all its parts.
LEMMA TotalOfParts ==
    ASSUME SplitInv, i = n
    PROVE  total_size = ((count - offset) * sum) * MemTypeSize
  <1>0. n \in Nat \ {0} /\ n - 1 \in Nat /\ Parts = 0..(n - 1) /\ MemTypeSize \in Int
    BY nAssumption, PlanAssumption DEF Parts
  <1>1. Node_Size \in [Parts -> Int]
    BY DEF SplitInv, SplitTypeOK
  <1>2. PICK q : IsTotal(q, Node_Size) /\ total_size = q[n]
    BY <1>1, TotalIs
  <1> DEFINE Upto(k) == ((ends[k] - offset) * sum) * MemTypeSize
             S == {k \in 0..(n - 1) : q[k + 1] = Upto(k)}
  <1>3. 0 \in S
    <2>1. q[1] = q[0] + Node_Size[0] * MemTypeSize /\ q[0] = 0
      <3>1. 1 \in 1..n /\ 1 - 1 = 0
        BY <1>0
      <3> QED
        BY <1>2, <3>1 DEF IsTotal
    <2>2. Node_Size[0] = (ends[0] - offset) * sum /\ Node_Size[0] \in Int
      BY <1>0, <1>1, PartsAre
    <2>3. Node_Size[0] * MemTypeSize = Upto(0) /\ Node_Size[0] * MemTypeSize \in Int
      BY <1>0, <2>2
    <2> QED
      BY <1>0, <2>1, <2>3
  <1>4. ASSUME NEW k \in 0..((n - 1) - 1), k \in S PROVE k + 1 \in S
    <2>1. /\ k \in Parts /\ k + 1 \in Parts /\ (k + 1) + 1 \in 1..n /\ (k + 1) - 1 = k
          /\ k + 1 > 0 /\ ((k + 1) + 1) - 1 = k + 1
      BY <1>0
    <2>2. q[(k + 1) + 1] = q[k + 1] + Node_Size[k + 1] * MemTypeSize
      BY <1>2, <2>1 DEF IsTotal
    <2>3. /\ Node_Size[k + 1] = (ends[k + 1] - ends[k]) * sum
          /\ ends[k] \in Int /\ ends[k + 1] \in Int /\ offset \in Int /\ sum \in Int
      BY <2>1, PartsAre
    <2>4. q[k + 1] = Upto(k)
      BY <1>4
    <2>5. Upto(k) + ((ends[k + 1] - ends[k]) * sum) * MemTypeSize = Upto(k + 1)
      <3> DEFINE x == ends[k]
                 y == ends[k + 1]
      <3>1. x \in Int /\ y \in Int /\ offset \in Int /\ sum \in Int /\ MemTypeSize \in Int
        BY <1>0, <2>3
      <3> HIDE DEF x, y
      <3>2. ((x - offset) * sum) * MemTypeSize + ((y - x) * sum) * MemTypeSize
              = ((y - offset) * sum) * MemTypeSize
        BY ONLY <3>1, Distribute
      <3> QED
        BY <3>2 DEF x, y
    <2> HIDE DEF Upto
    <2>6. q[(k + 1) + 1] = Upto(k + 1)
      BY <2>2, <2>3, <2>4, <2>5
    <2>7. k + 1 \in 0..(n - 1)
      BY <1>0, <2>1
    <2> QED
      BY <2>6, <2>7
  <1> HIDE DEF S
  <1>5. 0..(n - 1) \subseteq S
    BY <1>0, <1>3, <1>4, InductionUp
  <1>6. q[(n - 1) + 1] = Upto(n - 1) /\ (n - 1) + 1 = n /\ ends[n - 1] = count
    BY <1>0, <1>5, PartsAre DEF S
  <1> QED
    BY <1>2, <1>6

\* That of a dataset that was not cut before any other was is empty.
LEMMA TotalOfNothing ==
    ASSUME Node_Size = Zero
    PROVE  total_size = 0
  <1>0. n \in Nat /\ MemTypeSize \in Int
    BY nAssumption, PlanAssumption
  <1>1. Node_Size \in [Parts -> Int] /\ \A k \in Parts : Node_Size[k] = 0
    BY DEF Zero
  <1>2. PICK q : IsTotal(q, Node_Size) /\ total_size = q[n]
    BY <1>1, TotalIs
  <1> DEFINE S == {k \in 0..n : q[k] = 0}
  <1>3. 0 \in S
    BY <1>0, <1>2 DEF IsTotal
  <1>4. ASSUME NEW k \in 0..(n - 1), k \in S PROVE k + 1 \in S
    <2>1. k \in Parts /\ k + 1 \in 1..n /\ (k + 1) - 1 = k
      BY <1>0 DEF Parts
    <2>2. q[k + 1] = q[k] + Node_Size[k] * MemTypeSize /\ Node_Size[k] = 0 /\ q[k] = 0
      BY <1>1, <1>2, <1>4, <2>1 DEF IsTotal
    <2> QED
      BY <1>0, <2>2
  <1> HIDE DEF S
  <1>5. 0..n \subseteq S
    BY <1>0, <1>3, <1>4, InductionUp
  <1> QED
    BY <1>0, <1>2, <1>5 DEF S

(***************************************************************************)
(* The plan is inductive                                                   *)
(***************************************************************************)

\* Nothing is planned before the first transfer.
LEMMA PlanInit == RPInit => PlanInv
  <1> SUFFICES ASSUME RPInit PROVE PlanInv
    OBVIOUS
  <1>1. PICK c \in 1..MaxCount : selections \in [1..c -> Selections]
    BY DEF RPInit
  <1>2. Len(selections) = c /\ c \in Nat \ {0}
    BY <1>1, PlanAssumption
  <1>3. ShapeInv
    <2>1. <<>> \in Seq(Requests) /\ <<>> \in Seq([base : Nat, at : Int]) /\ <<>> \in Seq(Int)
          /\ Len(<<>>) = 0
      OBVIOUS
    <2>2. /\ requests = <<>> /\ buffer = <<>> /\ capacity = <<>> /\ t = 0
          /\ rpc = "plan" /\ flag_Node = FALSE
      BY DEF RPInit
    <2> QED
      BY <1>1, <2>1, <2>2 DEF ShapeInv
  <1>4. SplitInv
    <2>1. SplitInit
      BY DEF RPInit, SplitInit
    <2> QED
      BY <2>1, SplitInitInv
  <1>5. DoneInv
    BY DEF RPInit, DoneInv
  <1>6. AloneInv
    BY <1>2 DEF RPInit, AloneInv
  <1>7. t <= n /\ SharedInv
    BY nAssumption DEF RPInit, SharedInv
  <1> QED
    BY <1>3, <1>4, <1>5, <1>6, <1>7 DEF PlanInv

\* The two ways a transfer belongs to a dataset.
LEMMA TransferIs ==
    ASSUME PlanInv
    PROVE  /\ Len(selections) \in Nat \ {0} /\ DOMAIN selections = 1..Len(selections)
           /\ \A d \in 1..Len(selections) : selections[d] \in Selections
           /\ n = 1 => /\ Node = 0 /\ Selection = selections[t + 1]
                       /\ Last <=> t = Len(selections)
           /\ n > 1 /\ t < n => Node = t /\ Selection = selections[1] /\ ~Last
           /\ n > 1 /\ t = n => (Last <=> Len(selections) = 1)
           /\ n > 1 /\ t = n /\ ~Last => Selection = selections[2] /\ 2 <= Len(selections)
  <1>1. PICK c \in 1..MaxCount : selections \in [1..c -> Selections]
    BY DEF PlanInv, ShapeInv
  <1>2. Len(selections) = c /\ c \in Nat \ {0} /\ DOMAIN selections = 1..c
    BY <1>1, PlanAssumption
  <1> DEFINE L == Len(selections)
  <1>3. t \in Nat /\ n \in Nat \ {0} /\ L \in Nat \ {0}
    BY <1>2, nAssumption DEF PlanInv, ShapeInv
  <1> HIDE DEF L
  <1>4. n = 1 => t % n = 0 /\ t \div n = t /\ L * n = L
    BY <1>3
  <1>5. n > 1 /\ t < n => t % n = t /\ t \div n = 0 /\ L * n >= n
    <2>1. t < n => t % n = t /\ t \div n = 0
      BY <1>3
    <2>2. L * n = n + (L - 1) * n /\ (L - 1) * n \in Nat
      BY <1>3, ProductNat
    <2> QED
      BY <1>3, <2>1, <2>2
  <1>7. n > 1 => n % n = 0 /\ n \div n = 1
    BY <1>3
  <1>6. n > 1 => (n = L * n <=> L = 1)
    <2>1. CASE L = 1
      BY <1>3, <2>1
    <2>2. CASE L # 1
      <3>1. L * n = n + (L - 1) * n /\ (L - 1) * n \in Nat \ {0}
        BY <1>3, <2>2, ProductNat
      <3> QED
        BY <1>3, <2>2, <3>1
    <2> QED
      BY <2>1, <2>2
  <1> QED
    BY <1>1, <1>2, <1>3, <1>4, <1>5, <1>6, <1>7 DEF Node, Selection, Last, ServerNodeNum, L

\* A transfer that is laid out is one of these.
LEMMA LaidOut ==
    ASSUME PlanInv, rpc = "layout", ~Undefined
    PROVE  \/ n = 1 /\ AloneInv /\ t < Len(selections)
           \/ n > 1 /\ SharedInv /\ t < n /\ (t < n \/ Len(selections) = 1)
  BY nAssumption DEF PlanInv, ShapeInv, Undefined, ServerNodeNum, AloneInv

\* splitRangeAndGetInfo is called for the first transfer of a dataset.
LEMMA StartSplitPlan ==
    ASSUME PlanInv, StartSplit PROVE PlanInv'
  <1>1. PICK d \in Dims : /\ FirstDim(d) /\ dim' = d
                          /\ SplitBegin(Selection[d].start, Selection[d].stop, Others(d))
    BY DEF StartSplit
  <1>2. /\ rpc = "plan" /\ ~Last /\ Node = 0 /\ Selection # All /\ flag_Node' = TRUE
        /\ rpc' = "split" /\ selections' = selections /\ t' = t /\ requests' = requests
        /\ buffer' = buffer /\ capacity' = capacity /\ result' = result
    BY DEF StartSplit
  <1> DEFINE s == Selection
  <1>s. s \in Selections
    <2>1. \/ n = 1 /\ t < Len(selections)
          \/ n > 1 /\ t < n
          \/ n > 1 /\ t = n /\ Len(selections) # 1
      <3>1. t \in Nat /\ n \in Nat \ {0} /\ Len(selections) \in Nat \ {0}
        BY TransferIs, nAssumption DEF PlanInv, ShapeInv
      <3>2. n = 1 => t <= Len(selections) /\ t # Len(selections)
        BY <1>2, TransferIs DEF PlanInv, AloneInv
      <3>3. n > 1 => t <= n /\ (t = n => Len(selections) # 1)
        BY <1>2, TransferIs DEF PlanInv
      <3> QED
        BY <3>1, <3>2, <3>3
    <2>2. CASE n = 1 /\ t < Len(selections)
      <3>1. t + 1 \in 1..Len(selections)
        BY <2>2, TransferIs DEF PlanInv, ShapeInv
      <3> QED
        BY <2>2, <3>1, TransferIs
    <2>3. CASE n > 1 /\ t < n
      BY <2>3, TransferIs
    <2>4. CASE n > 1 /\ t = n /\ Len(selections) # 1
      BY <1>2, <2>4, TransferIs
    <2> QED
      BY <2>1, <2>2, <2>3, <2>4
  <1>q. PlanInv'
    <2>1. /\ s[d].start \in Nat /\ s[d].stop \in Nat /\ s[d].start <= s[d].stop
          /\ Others(d) = OthersOf(s, d) /\ OthersOf(s, d) \in Nat
      <3>1. Others(d) = OthersOf(s, d)
        BY DEF Others, OthersOf
      <3>2. s # All
        BY <1>2
      <3> HIDE DEF s
      <3>3. s[d].start \in Nat /\ s[d].stop \in Nat /\ s[d].start < s[d].stop
        BY <1>s, <3>2, SelectionIs
      <3>4. OthersOf(s, d) \in Nat
        BY <1>s, <3>2, ReadsPoints
      <3> QED
        BY <3>1, <3>3, <3>4
    <2>2. SplitInv'
      BY <1>1, <2>1, SplitBegins DEF PlanInv
    <2>3. offset' = s[d].start /\ count' = s[d].stop /\ sum' = OthersOf(s, d) /\ dim' = d
          /\ s # All
      BY <1>1, <1>2, <2>1 DEF SplitBegin
    <2>4. ShapeInv' /\ DoneInv'
      BY <1>2 DEF PlanInv, ShapeInv, DoneInv
    <2>5. ASSUME n = 1 PROVE AloneInv'
      <3>1. s = selections[t + 1] /\ t # Len(selections)
        BY <1>2, <2>5, TransferIs
      <3> HIDE DEF s
      <3>2. t < Len(selections)
        BY <2>5, <3>1, TransferIs DEF PlanInv, AloneInv, ShapeInv
      <3> QED
        BY <1>1, <1>2, <2>3, <2>5, <3>1, <3>2 DEF PlanInv, AloneInv, CutOf
    <2>6. ASSUME n > 1, t < n \/ Len(selections) = 1 PROVE SharedInv'
      <3>1. t < n
        BY <1>2, <2>6, TransferIs, nAssumption DEF PlanInv, ShapeInv
      <3>2. s = selections[1] /\ t = 0
        BY <1>2, <2>6, <3>1, TransferIs
      <3> HIDE DEF s
      <3> QED
        BY <1>1, <1>2, <2>3, <2>6, <3>1, <3>2 DEF PlanInv, SharedInv, CutOf
    <2> QED
      BY <1>2, <2>2, <2>4, <2>5, <2>6 DEF PlanInv
  <1> QED
    BY <1>q

\* A turn of its loop changes nothing of the plan.
LEMMA SplitPlan ==
    ASSUME PlanInv, Split PROVE PlanInv'
  <1>1. SplitStep /\ rpc = "split" /\ UNCHANGED planVars
    BY DEF Split
  <1>2. SplitInv'
    BY <1>1, SplitStepInv DEF PlanInv
  <1>3. offset' = offset /\ count' = count /\ sum' = sum
    BY <1>1 DEF SplitStep
  <1>4. ShapeInv' /\ DoneInv'
    BY <1>1 DEF PlanInv, ShapeInv, DoneInv, planVars
  <1>5. ASSUME n = 1 PROVE AloneInv'
    BY <1>1, <1>3, <1>5 DEF PlanInv, AloneInv, CutOf, planVars
  <1>6. ASSUME n > 1, t < n \/ Len(selections) = 1 PROVE SharedInv'
    <2>1. SharedInv /\ t = 0 /\ flag_Node
      BY <1>1, <1>6 DEF PlanInv, SharedInv
    <2> QED
      BY <1>1, <1>3, <2>1, nAssumption DEF SharedInv, CutOf, planVars
  <1> QED
    BY <1>1, <1>2, <1>4, <1>5, <1>6 DEF PlanInv, planVars

\* It returns with all the parts.
LEMMA SplitReturnsPlan ==
    ASSUME PlanInv, SplitReturns PROVE PlanInv'
  <1>1. /\ rpc = "split" /\ i = n /\ rpc' = "layout"
        /\ UNCHANGED <<splitVars, selections, t, dim, flag_Node, requests, buffer, capacity, result>>
    BY DEF SplitReturns
  <1>2. SplitInv'
    BY <1>1, SplitStepInv DEF PlanInv
  <1>4. ShapeInv' /\ DoneInv'
    BY <1>1 DEF PlanInv, ShapeInv, DoneInv
  <1>5. ASSUME n = 1 PROVE AloneInv'
    BY <1>1, <1>5 DEF PlanInv, AloneInv, CutOf, splitVars
  <1>6. ASSUME n > 1, t < n \/ Len(selections) = 1 PROVE SharedInv'
    <2>1. SharedInv /\ t = 0 /\ flag_Node
      BY <1>1, <1>6 DEF PlanInv, SharedInv
    <2> QED
      BY <1>1, <2>1, nAssumption DEF SharedInv, CutOf, splitVars
  <1> QED
    BY <1>1, <1>2, <1>4, <1>5, <1>6 DEF PlanInv

\* Nothing is cut: with one server only when the whole dataset is read.
LEMMA NoSplitPlan ==
    ASSUME PlanInv, NoSplit PROVE PlanInv'
  <1>1. /\ rpc = "plan" /\ ~Last /\ rpc' = "layout"
        /\ ~ (Node = 0 /\ Selection # All /\ \E d \in Dims : CanCut(d))
        /\ UNCHANGED <<splitVars, selections, t, dim, flag_Node, requests, buffer, capacity, result>>
    BY DEF NoSplit
  <1>2. SplitInv'
    BY <1>1, SplitStepInv DEF PlanInv
  <1>4. ShapeInv' /\ DoneInv'
    BY <1>1 DEF PlanInv, ShapeInv, DoneInv
  <1>5. ASSUME n = 1 PROVE AloneInv'
    <2>1. t < Len(selections)
      BY <1>1, <1>5, TransferIs DEF PlanInv, AloneInv, ShapeInv
    <2>2. Selection = selections[t + 1] /\ Selection \in Selections /\ Node = 0
      BY <1>5, <2>1, TransferIs DEF PlanInv, ShapeInv
    <2>3. Selection = All
      <3> SUFFICES ASSUME Selection # All PROVE FALSE
        OBVIOUS
      <3>1. 1 \in Dims
        BY PlanAssumption DEF Dims
      <3>2. Selection[1].stop \in Nat /\ Selection[1].start \in Nat
            /\ Selection[1].start < Selection[1].stop
        BY <2>2, <3>1, SelectionIs
      <3>3. CanCut(1)
        BY <1>5, <3>2 DEF CanCut, ServerNodeNum
      <3> QED
        BY <1>1, <2>2, <3>1, <3>3
    <2> QED
      BY <1>1, <1>5, <2>1, <2>2, <2>3 DEF PlanInv, AloneInv, splitVars
  <1>6. ASSUME n > 1, t < n \/ Len(selections) = 1 PROVE SharedInv'
    <2>1. SharedInv /\ t < n
      BY <1>1, <1>6, TransferIs, nAssumption DEF PlanInv, ShapeInv
    <2> QED
      BY <1>1, <2>1, nAssumption DEF SharedInv, CutOf, PartOf, PlaceOf, splitVars
  <1> QED
    BY <1>1, <1>2, <1>4, <1>5, <1>6 DEF PlanInv

\* Nothing that the invariant speaks of changes but rpc, which stops.
LEMMA StopsPlan ==
    ASSUME PlanInv, rpc' = rpc \/ (rpc' = "undefined" /\ rpc # "split"),
           UNCHANGED <<splitVars, selections, t, dim, flag_Node, requests, buffer, capacity, result>>
    PROVE  PlanInv'
  <1>2. SplitInv'
    BY SplitStepInv DEF PlanInv
  <1>4. ShapeInv'
    BY DEF PlanInv, ShapeInv
  <1>5. ASSUME n = 1 PROVE AloneInv'
    BY <1>5 DEF PlanInv, AloneInv, CutOf, splitVars
  <1>6. ASSUME n > 1, t < n \/ Len(selections) = 1 PROVE SharedInv'
    <2>1. SharedInv
      BY <1>6 DEF PlanInv
    <2>3. /\ rpc' \in {"split", "layout"} => rpc' = rpc
          /\ rpc' = "split" => rpc = "split"
      OBVIOUS
    <2>4. /\ i' = i /\ Node_Size' = Node_Size /\ count' = count /\ offset' = offset
          /\ sum' = sum /\ starts' = starts /\ ends' = ends
      BY DEF splitVars
    <2>5. CASE flag_Node
      <3>1. CutOf(selections[1])'
        BY <2>1, <2>4, <2>5 DEF SharedInv, CutOf
      <3>2. ASSUME NEW k \in 1..t
            PROVE  /\ buffer'[k] = [base |-> 1, at |-> PlaceOf(k - 1)']
                   /\ requests'[k] = PartOf(selections[1], k - 1)'
        <4>1. buffer[k] = [base |-> 1, at |-> PlaceOf(k - 1)]
              /\ requests[k] = PartOf(selections[1], k - 1)
          BY <2>1, <2>5 DEF SharedInv
        <4>2. PlaceOf(k - 1)' = PlaceOf(k - 1)
          BY <2>4 DEF PlaceOf
        <4>3. PartOf(selections[1], k - 1)' = PartOf(selections[1], k - 1)
          BY <2>4 DEF PartOf
        <4> QED
          BY <4>1, <4>2, <4>3
      <3>3. /\ rpc' \in {"split", "layout"} => t < n
            /\ rpc' = "split" => t = 0
            /\ t = 0 => capacity = <<>>
            /\ rpc' # "split" => i = n
            /\ t > 0 => capacity = <<((count - offset) * sum) * MemTypeSize>>
        BY <2>1, <2>3, <2>5 DEF SharedInv
      <3> QED
        BY <2>4, <2>5, <3>1, <3>2, <3>3 DEF SharedInv
    <2>6. CASE ~flag_Node
      BY <2>1, <2>3, <2>4, <2>6 DEF SharedInv
    <2> QED
      BY <2>5, <2>6
  <1>7. DoneInv'
    <2>1. /\ Last' <=> Last
          /\ Overflows' <=> Overflows
          /\ \A d : Merged(d)' = Merged(d)
      BY DEF Last, Overflows, DataEnd, Merged
    <2> QED
      BY <2>1 DEF PlanInv, DoneInv
  <1> QED
    BY <1>2, <1>4, <1>5, <1>6, <1>7 DEF PlanInv

\* The answers fit and are delivered.
LEMMA DeliverPlan ==
    ASSUME PlanInv, Deliver PROVE PlanInv'
  <1>1. /\ rpc = "plan" /\ Last /\ ~Overflows /\ rpc' = "done"
        /\ result' = [d \in DOMAIN selections |-> Merged(d)]
        /\ UNCHANGED <<splitVars, selections, t, dim, flag_Node, requests, buffer, capacity>>
    BY DEF Deliver
  <1>2. SplitInv'
    BY <1>1, SplitStepInv DEF PlanInv
  <1>4. ShapeInv'
    BY <1>1 DEF PlanInv, ShapeInv
  <1>5. ASSUME n = 1 PROVE AloneInv'
    BY <1>1, <1>5 DEF PlanInv, AloneInv, CutOf, splitVars
  <1>6. ASSUME n > 1, t < n \/ Len(selections) = 1 PROVE SharedInv'
    BY <1>1, <1>6 DEF PlanInv, SharedInv, CutOf, PartOf, PlaceOf, splitVars
  <1>7. DoneInv'
    <2>1. Last' <=> Last
      BY <1>1 DEF Last
    <2>2. Overflows' <=> Overflows
      BY <1>1 DEF Overflows, DataEnd
    <2>3. \A d : Merged(d)' = Merged(d)
      <3>1. buffer' = buffer /\ requests' = requests /\ selections' = selections
        BY <1>1
      <3> QED
        BY <3>1 DEF Merged
    <2> QED
      BY <1>1, <2>1, <2>2, <2>3 DEF PlanInv, DoneInv
  <1> QED
    BY <1>1, <1>2, <1>4, <1>5, <1>6, <1>7 DEF PlanInv

\* The only server: the dataset gets a buffer of its own.
LEMMA LayoutAlone ==
    ASSUME PlanInv, Layout, n = 1, AloneInv, t < Len(selections)
    PROVE  /\ AloneInv' /\ Request \in Requests /\ total_size \in Int
           /\ buffer' = Append(buffer, [base |-> t + 1, at |-> 0])
           /\ capacity' = Append(capacity, total_size)
  <1>1. /\ rpc = "layout" /\ rpc' = "plan" /\ t' = t + 1
        /\ requests' = Append(requests, Request)
        /\ capacity' = IF Node = 0 THEN Append(capacity, total_size) ELSE capacity
        /\ buffer' = Append(buffer, IF Node = 0 THEN NewBuffer
                                    ELSE [base |-> buffer[Node].base, at |-> PartOffset])
        /\ UNCHANGED <<splitVars, selections, dim, flag_Node, result>>
    BY DEF Layout
  <1> DEFINE s == selections[t + 1]
  <1>2. /\ t \in Nat /\ Len(requests) = t /\ Len(buffer) = t /\ Len(capacity) = t
        /\ requests \in Seq(Requests) /\ buffer \in Seq([base : Nat, at : Int])
        /\ capacity \in Seq(Int)
    BY DEF PlanInv, ShapeInv, AloneInv
  <1>3. Node = 0 /\ Selection = s /\ s \in Selections /\ Len(selections) \in Nat
        /\ t + 1 \in 1..Len(selections)
    <2>1. Len(selections) \in Nat
      BY TransferIs
    <2>2. t + 1 \in 1..Len(selections)
      BY <1>2, <2>1
    <2> QED
      BY <2>1, <2>2, TransferIs
  <1>4. NewBuffer = [base |-> t + 1, at |-> 0]
    BY <1>2 DEF NewBuffer
  <1>5. Request = Whole(s) /\ Request \in Requests
    BY <1>3, SelectionIs, WholeIs DEF Request, Whole, ServerNodeNum
  <1>6. total_size \in Int
    <2>1. Node_Size \in [Parts -> Int]
      BY DEF PlanInv, SplitInv, SplitTypeOK
    <2>2. PICK q : IsTotal(q, Node_Size) /\ total_size = q[n]
      BY <2>1, TotalIs
    <2> QED
      BY <2>2, nAssumption DEF IsTotal
  <1>7. s # All => total_size = NumPoints(ServerReads(s)) * MemTypeSize
    <2> SUFFICES ASSUME s # All PROVE total_size = NumPoints(ServerReads(s)) * MemTypeSize
      OBVIOUS
    <2>1. CutOf(s) /\ i = n
      BY <1>1 DEF AloneInv
    <2>2. total_size = ((count - offset) * sum) * MemTypeSize
      BY <2>1, TotalOfParts DEF PlanInv
    <2> HIDE DEF s
    <2>3. NumPoints(ServerReads(s)) = (count - offset) * sum
      BY <1>3, <2>1, ReadsPoints DEF CutOf
    <2> QED
      BY <2>2, <2>3
  <1> DEFINE z == total_size
             r == Request
             b == [base |-> t + 1, at |-> 0]
  <1>8. /\ capacity' = Append(capacity, z) /\ buffer' = Append(buffer, b)
        /\ requests' = Append(requests, r)
    BY <1>1, <1>3, <1>4
  <1>9. r = Whole(s) /\ (s # All => z = NumPoints(ServerReads(s)) * MemTypeSize)
    BY <1>5, <1>7
  <1> HIDE DEF z, r
  <1>10. /\ Len(capacity') = t + 1
         /\ capacity'[t + 1] = z /\ buffer'[t + 1] = b /\ requests'[t + 1] = r
         /\ \A k \in 1..t : /\ capacity'[k] = capacity[k] /\ buffer'[k] = buffer[k]
                            /\ requests'[k] = requests[k]
    BY <1>2, <1>8
  <1> HIDE DEF s
  <1>11. AloneInv'
    <2>1. ASSUME NEW k \in 1..(t + 1)
          PROVE  /\ buffer'[k] = [base |-> k, at |-> 0] /\ requests'[k] = Whole(selections[k])
                 /\ selections[k] # All =>
                       capacity'[k] = NumPoints(ServerReads(selections[k])) * MemTypeSize
      <3>1. CASE k = t + 1
        BY <1>9, <1>10, <3>1 DEF s
      <3>2. CASE k # t + 1
        <4>1. k \in 1..t
          BY <1>2, <3>2
        <4> QED
          BY <1>10, <4>1 DEF AloneInv
      <3> QED
        BY <3>1, <3>2
    <2>2. t + 1 <= Len(selections)
      BY <1>3
    <2> QED
      BY <1>1, <1>10, <2>1, <2>2 DEF AloneInv
  <1> QED
    BY <1>1, <1>3, <1>4, <1>5, <1>6, <1>11

\* One of several servers: its part is put behind the one before.
LEMMA LayoutShared ==
    ASSUME PlanInv, Layout, n > 1, SharedInv, t < n
    PROVE  /\ SharedInv' /\ Request \in Requests /\ total_size \in Int
           /\ \E a \in Int : buffer' = Append(buffer, [base |-> 1, at |-> a])
           /\ capacity' = IF t = 0 THEN Append(capacity, total_size) ELSE capacity
  <1>1. /\ rpc = "layout" /\ rpc' = "plan" /\ t' = t + 1 /\ ~Undefined
        /\ requests' = Append(requests, Request)
        /\ capacity' = IF Node = 0 THEN Append(capacity, total_size) ELSE capacity
        /\ buffer' = Append(buffer, IF Node = 0 THEN NewBuffer
                                    ELSE [base |-> buffer[Node].base, at |-> PartOffset])
        /\ UNCHANGED <<splitVars, selections, dim, flag_Node, result>>
    BY DEF Layout
  <1> DEFINE s == selections[1]
  <1>2. /\ t \in Nat /\ Len(requests) = t /\ Len(buffer) = t
        /\ requests \in Seq(Requests) /\ buffer \in Seq([base : Nat, at : Int])
        /\ capacity \in Seq(Int) /\ (t = 0 => capacity = <<>>)
        /\ n \in Nat /\ MemTypeSize \in Nat
    BY nAssumption, PlanAssumption DEF PlanInv, ShapeInv, SharedInv
  <1>3. Node = t /\ Selection = s /\ s \in Selections /\ t \in Parts
    <2>1. 1 \in 1..Len(selections)
      BY TransferIs
    <2>2. t \in Parts
      BY <1>2 DEF Parts
    <2> QED
      BY <2>1, <2>2, TransferIs
  <1>4. NewBuffer = [base |-> 1, at |-> 0] \/ t # 0
    BY <1>2 DEF NewBuffer
  <1>5. ~flag_Node => s = All
    BY <1>1, <1>3 DEF Undefined, ServerNodeNum
  <1>6. total_size \in Int
    <2>1. Node_Size \in [Parts -> Int]
      BY DEF PlanInv, SplitInv, SplitTypeOK
    <2>2. PICK q : IsTotal(q, Node_Size) /\ total_size = q[n]
      BY <2>1, TotalIs
    <2> QED
      BY <2>2, nAssumption DEF IsTotal
  <1>7. ASSUME flag_Node PROVE CutOf(s) /\ i = n
    BY <1>1, <1>7 DEF SharedInv
  <1>8. Request = IF flag_Node THEN PartOf(s, t) ELSE WholeDataset
    <2>1. CASE flag_Node
      <3>1. s # All
        BY <1>7, <2>1 DEF CutOf
      <3>2. Request = PartRequest
        BY <1>3, <3>1 DEF Request, ServerNodeNum
      <3> HIDE DEF s
      <3> QED
        BY <1>3, <2>1, <3>2 DEF PartRequest, PartOf
    <2>2. CASE ~flag_Node
      BY <1>3, <1>5, <2>2 DEF Request
    <2> QED
      BY <2>1, <2>2
  <1>9. Request \in Requests
    <2>1. CASE flag_Node
      <3>1. s # All
        BY <1>7, <2>1 DEF CutOf
      <3> HIDE DEF s
      <3>2. starts[t] \in Nat /\ ends[t] \in Nat /\ s \in Requests
        BY <1>3, <1>7, <2>1, <3>1, PartsAre, SelectionIs DEF PlanInv
      <3>3. ASSUME NEW d \in Dims
            PROVE  (IF d = dim THEN [start |-> starts[t], stop |-> ends[t], step |-> 1]
                               ELSE [s[d] EXCEPT !.step = 1]) \in [start : Nat, stop : Nat, step : Nat]
        <4>1. s[d] \in [start : Nat, stop : Nat, step : Nat]
          BY <3>2 DEF Requests
        <4>2. [s[d] EXCEPT !.step = 1] \in [start : Nat, stop : Nat, step : Nat]
          BY <4>1
        <4>3. [start |-> starts[t], stop |-> ends[t], step |-> 1] \in [start : Nat, stop : Nat, step : Nat]
          BY <3>2
        <4> QED
          BY <4>2, <4>3
      <3> QED
        BY <1>8, <2>1, <3>3 DEF PartOf, Requests
    <2>2. CASE ~flag_Node
      BY <1>8, <2>2, WholeIs
    <2> QED
      BY <2>1, <2>2
  <1> DEFINE place == IF flag_Node THEN PlaceOf(t) ELSE 0
  <1>10. place \in Int /\ buffer' = Append(buffer, [base |-> 1, at |-> place])
    <2>1. place \in Int
      <3>1. CASE flag_Node
        <4>1. starts[t] \in Int /\ offset \in Int /\ sum \in Int
          BY <1>3, <1>7, <3>1, PartsAre DEF PlanInv
        <4> QED
          BY <1>2, <3>1, <4>1 DEF PlaceOf
      <3> QED
        BY <3>1
    <2>2. CASE t = 0
      <3>1. place = 0
        <4>1. CASE flag_Node
          <5>1. starts[0] = offset /\ offset \in Int /\ sum \in Int
            BY <1>7, <4>1, PartsAre DEF PlanInv
          <5>2. ((offset - offset) * sum) * MemTypeSize = 0
            BY <1>2, <5>1
          <5> QED
            BY <2>2, <5>1, <5>2 DEF PlaceOf
        <4> QED
          BY <4>1
      <3> HIDE DEF place
      <3> QED
        BY <1>1, <1>3, <1>4, <2>1, <2>2, <3>1
    <2>3. CASE t # 0
      <3>1. t \in 1..t /\ t - 1 \in Parts
        BY <1>2, <1>3, <2>3 DEF Parts
      <3>2. buffer[t].base = 1 /\ PartOffset = place
        <4>1. CASE flag_Node
          <5>1. buffer[t] = [base |-> 1, at |-> PlaceOf(t - 1)]
            BY <3>1, <4>1 DEF SharedInv
          <5>2. /\ starts[t - 1] \in Int /\ ends[t - 1] \in Int /\ offset \in Int /\ sum \in Int
                /\ Node_Size[t - 1] = (ends[t - 1] - starts[t - 1]) * sum
                /\ starts[t] = ends[t - 1]
            <6>1. SplitInv /\ i = n
              BY <1>7, <4>1 DEF PlanInv
            <6>2. t - 1 \in Parts /\ t \in Parts /\ t > 0
              BY <1>2, <1>3, <2>3, <3>1
            <6> QED
              BY <6>1, <6>2, PartsAre
          <5>3. PlaceOf(t - 1) + Node_Size[t - 1] * MemTypeSize = PlaceOf(t)
            <6> DEFINE x == starts[t - 1]
                       y == ends[t - 1]
                       z == Node_Size[t - 1]
            <6>1. x \in Int /\ y \in Int /\ offset \in Int /\ sum \in Int
                  /\ MemTypeSize \in Int /\ z = (y - x) * sum
              BY <1>2, <5>2
            <6> HIDE DEF x, y, z
            <6>2. ((x - offset) * sum) * MemTypeSize + ((y - x) * sum) * MemTypeSize
                    = ((y - offset) * sum) * MemTypeSize
              BY ONLY <6>1, Distribute
            <6>3. ((x - offset) * sum) * MemTypeSize + z * MemTypeSize
                    = ((y - offset) * sum) * MemTypeSize
              BY <6>1, <6>2
            <6> QED
              BY <5>2, <6>3 DEF PlaceOf, x, y, z
          <5> QED
            BY <1>3, <4>1, <5>1, <5>3 DEF PartOffset
        <4>2. CASE ~flag_Node
          <5>1. buffer[t] = [base |-> 1, at |-> 0] /\ Node_Size = Zero
            BY <3>1, <4>2 DEF SharedInv
          <5>2. Node_Size[t - 1] = 0
            BY <3>1, <5>1 DEF Zero
          <5> QED
            BY <1>2, <1>3, <4>2, <5>1, <5>2 DEF PartOffset
        <4> QED
          BY <4>1, <4>2
      <3> HIDE DEF place
      <3> QED
        BY <1>1, <1>3, <2>1, <2>3, <3>2
    <2> QED
      BY <2>2, <2>3
  <1>11. t = 0 => capacity' = <<IF flag_Node THEN ((count - offset) * sum) * MemTypeSize ELSE 0>>
    <2> SUFFICES ASSUME t = 0
                 PROVE  capacity' = <<IF flag_Node THEN ((count - offset) * sum) * MemTypeSize ELSE 0>>
      OBVIOUS
    <2>1. total_size = IF flag_Node THEN ((count - offset) * sum) * MemTypeSize ELSE 0
      <3>1. CASE flag_Node
        BY <1>7, <3>1, TotalOfParts DEF PlanInv
      <3>2. CASE ~flag_Node
        BY <3>2, TotalOfNothing DEF SharedInv
      <3> QED
        BY <3>1, <3>2
    <2>2. capacity' = <<total_size>>
      BY <1>1, <1>2, <1>3
    <2> QED
      BY <2>1, <2>2
  <1>12. t # 0 => capacity' = capacity
    BY <1>1, <1>3
  <1> DEFINE r == Request
             b == [base |-> 1, at |-> place]
  <1>13. buffer' = Append(buffer, b) /\ requests' = Append(requests, r)
    BY <1>1, <1>10
  <1>14. r = (IF flag_Node THEN PartOf(s, t) ELSE WholeDataset)
    BY <1>8
  <1>15. b = [base |-> 1, at |-> IF flag_Node THEN PlaceOf(t) ELSE 0]
    OBVIOUS
  <1> HIDE DEF r, b, place
  <1>16. /\ buffer'[t + 1] = b /\ requests'[t + 1] = r
         /\ \A k \in 1..t : buffer'[k] = buffer[k] /\ requests'[k] = requests[k]
    BY <1>2, <1>13
  <1>17. ASSUME NEW k \in 1..(t + 1)
         PROVE  /\ flag_Node => /\ buffer'[k] = [base |-> 1, at |-> PlaceOf(k - 1)]
                                /\ requests'[k] = PartOf(s, k - 1)
                /\ ~flag_Node => /\ buffer'[k] = [base |-> 1, at |-> 0]
                                 /\ requests'[k] = WholeDataset
    <2>1. CASE k = t + 1
      <3>1. k - 1 = t
        BY <1>2, <2>1
      <3> QED
        BY <1>14, <1>15, <1>16, <2>1, <3>1
    <2>2. CASE k # t + 1
      <3>1. k \in 1..t
        BY <1>2, <2>2
      <3> QED
        BY <1>16, <3>1 DEF SharedInv
    <2> QED
      BY <2>1, <2>2
  <1>18. /\ i' = i /\ Node_Size' = Node_Size /\ count' = count /\ offset' = offset
         /\ sum' = sum /\ starts' = starts /\ ends' = ends /\ dim' = dim
         /\ selections' = selections /\ flag_Node' = flag_Node
    BY <1>1 DEF splitVars
  <1>19. SharedInv'
    <2>1. CASE flag_Node
      <3>1. CutOf(s)' /\ i' = n
        BY <1>7, <1>18, <2>1 DEF CutOf
      <3>2. capacity' = <<((count - offset) * sum) * MemTypeSize>>
        BY <1>2, <1>11, <1>12, <2>1 DEF SharedInv
      <3>3. ASSUME NEW k \in 1..(t + 1)
            PROVE  /\ buffer'[k] = [base |-> 1, at |-> PlaceOf(k - 1)']
                   /\ requests'[k] = PartOf(selections[1], k - 1)'
        <4>1. PlaceOf(k - 1)' = PlaceOf(k - 1)
          BY <1>18 DEF PlaceOf
        <4>2. PartOf(selections[1], k - 1)' = PartOf(selections[1], k - 1)
          BY <1>18 DEF PartOf
        <4> QED
          BY <1>17, <2>1, <4>1, <4>2
      <3>4. rpc' # "split" /\ rpc' # "layout" /\ t' = t + 1 /\ t' # 0
        BY <1>1, <1>2
      <3> QED
        BY <1>18, <2>1, <3>1, <3>2, <3>3, <3>4 DEF SharedInv
    <2>2. CASE ~flag_Node
      <3>1. Node_Size' = Zero /\ s = All /\ capacity' = <<0>>
        BY <1>2, <1>5, <1>11, <1>12, <1>18, <2>2 DEF SharedInv
      <3>4. rpc' # "split" /\ rpc' # "layout" /\ t' = t + 1 /\ t' # 0
        BY <1>1, <1>2
      <3> QED
        BY <1>17, <1>18, <2>2, <3>1, <3>4 DEF SharedInv
    <2> QED
      BY <2>1, <2>2
  <1> QED
    BY <1>1, <1>3, <1>6, <1>9, <1>10, <1>19

\* Laying out a transfer, of either kind.
LEMMA LayoutPlan ==
    ASSUME PlanInv, Layout PROVE PlanInv'
  <1>1. /\ rpc = "layout" /\ rpc' = "plan" /\ t' = t + 1 /\ ~Undefined
        /\ requests' = Append(requests, Request)
        /\ UNCHANGED <<splitVars, selections, dim, flag_Node, result>>
    BY DEF Layout
  <1>2. SplitInv'
    BY <1>1, SplitStepInv DEF PlanInv
  <1>3. DoneInv'
    BY <1>1 DEF DoneInv
  <1> DEFINE r == Request
             z == total_size
  <1>4. /\ r \in Requests /\ z \in Int
        /\ \E b \in [base : Nat, at : Int] : buffer' = Append(buffer, b)
        /\ capacity' = capacity \/ capacity' = Append(capacity, z)
        /\ n = 1 => AloneInv'
        /\ n > 1 => SharedInv' /\ t < n
    <2>1. CASE n = 1 /\ AloneInv /\ t < Len(selections)
      <3>1. t + 1 \in Nat
        BY DEF PlanInv, ShapeInv
      <3>2. [base |-> t + 1, at |-> 0] \in [base : Nat, at : Int]
        BY <3>1
      <3> QED
        BY <2>1, <3>2, LayoutAlone
    <2>2. CASE n > 1 /\ SharedInv /\ t < n
      <3>1. PICK a \in Int : buffer' = Append(buffer, [base |-> 1, at |-> a])
        BY <2>2, LayoutShared
      <3>2. [base |-> 1, at |-> a] \in [base : Nat, at : Int]
        OBVIOUS
      <3> QED
        BY <2>2, <3>1, <3>2, LayoutShared
    <2> QED
      BY <1>1, <2>1, <2>2, LaidOut
  <1>5. ShapeInv'
    <2> HIDE DEF r, z
    <2>1. t + 1 \in Nat /\ requests \in Seq(Requests) /\ Len(requests) = t
          /\ buffer \in Seq([base : Nat, at : Int]) /\ Len(buffer) = t /\ capacity \in Seq(Int)
      BY DEF PlanInv, ShapeInv
    <2>2. requests' = Append(requests, r)
      BY <1>1 DEF r
    <2>3. requests' \in Seq(Requests) /\ Len(requests') = t + 1
      BY <1>4, <2>1, <2>2
    <2> DEFINE B == [base : Nat, at : Int]
    <2>4. PICK b \in B : buffer' = Append(buffer, b)
      BY <1>4
    <2>5. buffer \in Seq(B)
      BY <2>1
    <2> HIDE DEF B
    <2>6. buffer' \in Seq(B) /\ Len(buffer') = t + 1
      BY <2>1, <2>4, <2>5
    <2>7. capacity' \in Seq(Int)
      <3>1. z \in Int /\ capacity \in Seq(Int)
        BY <1>4, <2>1
      <3>2. capacity' = capacity \/ capacity' = Append(capacity, z)
        BY <1>4
      <3> QED
        BY <3>1, <3>2
    <2> QED
      BY <1>1, <2>1, <2>3, <2>6, <2>7 DEF PlanInv, ShapeInv, B
  <1>6. n > 1 => t' <= n
    BY <1>1, <1>4, nAssumption DEF PlanInv, ShapeInv
  <1> QED
    BY <1>2, <1>3, <1>4, <1>5, <1>6 DEF PlanInv

\* Every step of the plan keeps it.
LEMMA PlanNext == PlanInv /\ [RPNext]_rpVars => PlanInv'
  <1> SUFFICES ASSUME PlanInv, [RPNext]_rpVars PROVE PlanInv'
    OBVIOUS
  <1>1. CASE LayoutUndefined
    BY <1>1, StopsPlan DEF LayoutUndefined
  <1>2. CASE DeliverOverflows
    BY <1>2, StopsPlan DEF DeliverOverflows
  <1>3. CASE UNCHANGED rpVars
    <2>1. rpc' = rpc /\ UNCHANGED <<splitVars, selections, t, dim, flag_Node, requests, buffer, capacity, result>>
      BY <1>3 DEF rpVars, splitVars
    <2> QED
      BY <2>1, StopsPlan
  <1> QED
    BY <1>1, <1>2, <1>3, StartSplitPlan, SplitPlan, SplitReturnsPlan, NoSplitPlan, LayoutPlan,
       DeliverPlan DEF RPNext, Stopped

(***************************************************************************)
(* A selection whose range was cut                                         *)
(***************************************************************************)

\* What a server is asked for is a box, of the size it was said to have.
LEMMA PartIs ==
    ASSUME SplitInv, i = n, NEW s \in Selections, CutOf(s), NEW k \in Parts
    PROVE  /\ IsBox(PartOf(s, k))
           /\ PartOf(s, k)[dim].start = starts[k] /\ PartOf(s, k)[dim].stop = ends[k]
           /\ \A d \in Dims : d # dim => /\ PartOf(s, k)[d].start = s[d].start
                                         /\ PartOf(s, k)[d].stop = s[d].stop
           /\ NumPoints(PartOf(s, k)) = (ends[k] - starts[k]) * sum
  <1> DEFINE r == PartOf(s, k)
  <1>1. dim \in Dims /\ s # All /\ sum = OthersOf(s, dim)
    BY DEF CutOf
  <1>2. starts[k] \in Nat /\ ends[k] \in Nat /\ starts[k] <= ends[k]
    BY PartsAre
  <1>3. \A d \in Dims : s[d].start \in Nat /\ s[d].stop \in Nat /\ s[d].step \in Nat
                        /\ s[d].start < s[d].stop
    BY <1>1, SelectionIs
  <1>4. s \in Requests
    BY <1>1, SelectionIs
  <1>5. r[dim] = [start |-> starts[k], stop |-> ends[k], step |-> 1]
    BY <1>1 DEF PartOf
  <1>6. ASSUME NEW d \in Dims, d # dim
        PROVE  /\ r[d] \in [start : Nat, stop : Nat, step : {1}]
               /\ r[d].start = s[d].start /\ r[d].stop = s[d].stop
    <2>1. s[d] \in [start : Nat, stop : Nat, step : Nat]
      BY <1>4 DEF Requests
    <2>2. r[d] = [s[d] EXCEPT !.step = 1]
      BY <1>6 DEF PartOf
    <2> HIDE DEF r
    <2> QED
      BY <2>1, <2>2
  <1>7. r[dim] \in [start : Nat, stop : Nat, step : {1}]
        /\ r[dim].start = starts[k] /\ r[dim].stop = ends[k]
    BY <1>2, <1>5
  <1>8. DOMAIN r = Dims /\ r = [d \in Dims |-> r[d]]
    BY DEF PartOf
  <1> HIDE DEF r
  <1>9. IsBox(r)
    BY <1>2, <1>3, <1>6, <1>7, <1>8 DEF IsBox
  <1>10. OthersOf(s, dim) = OthersOf(r, dim)
    BY <1>1, <1>2, <1>3, <1>6, <1>7, OthersSame
  <1>11. NumPoints(r) = (ends[k] - starts[k]) * sum
    BY <1>1, <1>7, <1>9, <1>10, BoxParts
  <1> QED
    BY <1>6, <1>7, <1>9, <1>11 DEF r

\* A product grows with a factor.
LEMMA Monotone ==
    ASSUME NEW a \in Nat, NEW b \in Nat, NEW m \in Nat, a <= b
    PROVE  a * m \in Nat /\ b * m \in Nat /\ a * m <= b * m
  <1>1. b - a \in Nat /\ (b - a) * m \in Nat
    BY ProductNat
  <1>2. b * m = a * m + (b - a) * m /\ a * m \in Nat
    BY ProductNat
  <1> QED
    BY <1>1, <1>2

\* A factor determines the other.
LEMMA Cancel ==
    ASSUME NEW a \in Int, NEW b \in Int, NEW m \in Nat \ {0}, a * m = b * m
    PROVE  a = b
  OBVIOUS

\* The elements before, and up to the end of, part k.
Begin(k) == (starts[k] - offset) * sum
End(k) == (ends[k] - offset) * sum

\* The parts tile the selection, in the order of the nodes.
LEMMA Tiles ==
    ASSUME SplitInv, i = n, NEW s \in Selections, CutOf(s)
    PROVE  /\ NumPoints(ServerReads(s)) = (count - offset) * sum
           /\ \A k \in Parts : /\ Begin(k) \in Nat /\ End(k) \in Nat
                               /\ NumPoints(PartOf(s, k)) \in Nat
                               /\ End(k) = Begin(k) + NumPoints(PartOf(s, k))
                               /\ End(k) <= NumPoints(ServerReads(s))
           /\ \A k, m \in Parts : k < m => End(k) <= Begin(m)
           /\ Begin(0) = 0 /\ End(n - 1) = NumPoints(ServerReads(s))
           /\ \A k \in Parts : k > 0 => Begin(k) = End(k - 1)
  <1>1. /\ offset \in Nat /\ count \in Nat /\ offset <= count /\ sum \in Nat
        /\ starts[0] = offset /\ ends[n - 1] = count
        /\ \A k \in Parts : k > 0 => starts[k] = ends[k - 1]
        /\ \A k \in Parts : starts[k] \in Nat /\ ends[k] \in Nat /\ starts[k] <= ends[k]
    BY PartsAre
  <1>2. /\ \A k, m \in Parts : k < m => ends[k] <= starts[m]
        /\ \A k \in Parts : offset <= starts[k] /\ ends[k] <= count
    BY PartsInOrder
  <1>3. NumPoints(ServerReads(s)) = (count - offset) * sum
    BY ReadsPoints DEF CutOf
  <1>4. ASSUME NEW k \in Parts
        PROVE  /\ Begin(k) \in Nat /\ End(k) \in Nat
               /\ NumPoints(PartOf(s, k)) \in Nat
               /\ End(k) = Begin(k) + NumPoints(PartOf(s, k))
               /\ End(k) <= (count - offset) * sum
    <2>1. starts[k] - offset \in Nat /\ ends[k] - offset \in Nat /\ ends[k] - starts[k] \in Nat
      BY <1>1, <1>2
    <2>2. NumPoints(PartOf(s, k)) = (ends[k] - starts[k]) * sum
      BY PartIs
    <2>3. (ends[k] - offset) * sum = (starts[k] - offset) * sum + (ends[k] - starts[k]) * sum
      BY <1>1, <2>1
    <2>4. (starts[k] - offset) * sum \in Nat /\ (ends[k] - starts[k]) * sum \in Nat
          /\ (ends[k] - offset) * sum \in Nat
      BY <1>1, <2>1, ProductNat
    <2>5. (ends[k] - offset) * sum <= (count - offset) * sum
      <3>1. count - offset \in Nat /\ ends[k] - offset <= count - offset
        BY <1>1, <1>2
      <3> QED
        BY <1>1, <2>1, <3>1, Monotone
    <2> QED
      BY <2>2, <2>3, <2>4, <2>5 DEF Begin, End
  <1>5. ASSUME NEW k \in Parts, NEW m \in Parts, k < m PROVE End(k) <= Begin(m)
    <2>1. ends[k] - offset \in Nat /\ starts[m] - offset \in Nat
          /\ ends[k] - offset <= starts[m] - offset
      BY <1>1, <1>2, <1>5
    <2> QED
      BY <1>1, <2>1, Monotone DEF Begin, End
  <1>6. Begin(0) = 0 /\ End(n - 1) = (count - offset) * sum
    <2>1. (offset - offset) * sum = 0
      BY <1>1
    <2> QED
      BY <1>1, <2>1 DEF Begin, End
  <1>7. ASSUME NEW k \in Parts, k > 0 PROVE Begin(k) = End(k - 1)
    BY <1>1, <1>7 DEF Begin, End
  <1> QED
    BY <1>3, <1>4, <1>5, <1>6, <1>7

(***************************************************************************)
(* The answers fit into the buffers                                        *)
(***************************************************************************)
\* A call that several servers answer plans one dataset.
LEMMA PlannedCuts ==
    ASSUME PlanInv, Last, n > 1
    PROVE  /\ t = n /\ Len(selections) = 1 /\ SharedInv
           /\ selections[1] \in Selections
           /\ \A d \in DOMAIN selections : d = 1
           /\ ~flag_Node => selections[1] = All
  <1>1. t \in Nat /\ n \in Nat /\ t <= n /\ Len(selections) \in Nat
    BY TransferIs, nAssumption DEF PlanInv, ShapeInv
  <1>2. t = n /\ Len(selections) = 1
    <2>1. ~(t < n)
      BY TransferIs
    <2>2. t = n
      BY <1>1, <2>1
    <2> QED
      BY <2>2, TransferIs
  <1>3. SharedInv
    BY <1>2 DEF PlanInv
  <1>4. selections[1] \in Selections /\ DOMAIN selections = 1..1
    BY <1>2, TransferIs
  <1> QED
    BY <1>1, <1>2, <1>3, <1>4 DEF SharedInv

\* The data of each part end where the next begins, or before the memory does.
LEMMA FitsNow ==
    ASSUME FileTypeSize <= MemTypeSize, PlanInv PROVE OnlyTerminatorBehind
  <1> SUFFICES ASSUME rpc = "plan", Last, \A d \in DOMAIN selections : selections[d] # All,
                      NEW k \in DOMAIN buffer
               PROVE  buffer[k].at + NumPoints(ServerReads(requests[k])) * FileTypeSize <= RoomEnd(k)
    BY DEF OnlyTerminatorBehind, AllPlanned, DataEnd
  <1> DEFINE F == FileTypeSize
             M == MemTypeSize
             P == NumPoints(ServerReads(requests[k]))
  <1>0. F \in Nat /\ M \in Nat /\ F <= M /\ n \in Nat \ {0}
    BY PlanAssumption, nAssumption
  <1>1. k \in 1..t /\ t \in Nat
    BY DEF PlanInv, ShapeInv
  <1>2. CASE n = 1
    <2>1. AloneInv /\ t = Len(selections)
      BY <1>2, TransferIs DEF PlanInv
    <2> DEFINE s == selections[k]
    <2>2. s \in Selections /\ s # All
      BY <1>1, <2>1, TransferIs
    <2>3. buffer[k] = [base |-> k, at |-> 0] /\ requests[k] = s
          /\ capacity[k] = NumPoints(ServerReads(s)) * M
      BY <1>1, <2>1, <2>2 DEF AloneInv, Whole
    <2>4. 1 \in Dims
      BY PlanAssumption DEF Dims
    <2>5. NumPoints(ServerReads(s)) \in Nat
      <3> HIDE DEF s
      <3> QED
        BY <2>2, <2>4, ReadsPoints
    <2>6. P * F \in Nat /\ P * M \in Nat /\ P * F <= P * M
      <3>1. P \in Nat
        BY <2>3, <2>5
      <3> HIDE DEF P, F, M
      <3>2. F * P \in Nat /\ M * P \in Nat /\ F * P <= M * P
        BY <1>0, <3>1, Monotone
      <3>3. F * P = P * F /\ M * P = P * M
        BY <1>0, <3>1
      <3> QED
        BY <3>2, <3>3
    <2>7. buffer[k].at = 0 /\ RoomEnd(k) = P * M
      <3>1. ASSUME k + 1 \in DOMAIN buffer PROVE buffer[k + 1].base = k + 1
        <4>1. k + 1 \in 1..t
          BY <3>1 DEF PlanInv, ShapeInv
        <4>2. buffer[k + 1] = [base |-> k + 1, at |-> 0]
          BY <2>1, <4>1 DEF AloneInv
        <4> QED
          BY <4>2
      <3>2. buffer[k].at = 0 /\ buffer[k].base = k /\ capacity[k] = P * M /\ k + 1 # k
        BY <1>1, <2>3
      <3> HIDE DEF P, M
      <3> QED
        BY <3>1, <3>2 DEF RoomEnd
    <2> HIDE DEF P, F, M
    <2>8. buffer[k].at + P * F <= RoomEnd(k)
      BY <2>6, <2>7
    <2> QED
      BY <2>8 DEF P, F
  <1>3. CASE n > 1
    <2> DEFINE s == selections[1]
    <2>1. t = n /\ SharedInv /\ s \in Selections /\ s # All /\ flag_Node
      BY <1>3, PlannedCuts, TransferIs
    <2>2. /\ CutOf(s) /\ i = n
          /\ capacity = <<((count - offset) * sum) * M>>
          /\ buffer[k] = [base |-> 1, at |-> PlaceOf(k - 1)]
          /\ requests[k] = PartOf(s, k - 1)
      <3>1. t > 0 /\ rpc # "split"
        BY <1>1
      <3>2. CutOf(s) /\ i = n /\ capacity = <<((count - offset) * sum) * M>>
        BY <2>1, <3>1 DEF SharedInv
      <3>3. buffer[k] = [base |-> 1, at |-> PlaceOf(k - 1)] /\ requests[k] = PartOf(s, k - 1)
        BY <1>1, <2>1 DEF SharedInv
      <3> QED
        BY <3>2, <3>3
    <2>3. k - 1 \in Parts
      BY <1>1, <2>1 DEF Parts
    <2> HIDE DEF s
    <2> DEFINE r == PartOf(s, k - 1)
               b == Begin(k - 1)
               e == End(k - 1)
               v == (count - offset) * sum
               p == NumPoints(r)
    <2>4. b \in Nat /\ p \in Nat /\ e \in Nat /\ e = b + p /\ e <= v /\ v \in Nat
      <3>1. 1 \in Dims
        BY PlanAssumption DEF Dims
      <3> QED
        BY <2>1, <2>2, <2>3, <3>1, Tiles, ReadsPoints DEF PlanInv
    <2>5. P = p
      <3>1. IsBox(r)
        BY <2>1, <2>2, <2>3, PartIs DEF PlanInv
      <3> QED
        BY <2>2, <3>1, ReadsOfBox
    <2>6. buffer[k].at = b * M /\ RoomEnd(k) \in {v * M, e * M}
      <3>1. buffer[k].at = b * M /\ capacity[buffer[k].base] = v * M
        BY <2>2 DEF PlaceOf, Begin
      <3>2. ASSUME k + 1 \in DOMAIN buffer PROVE buffer[k + 1].at = e * M
        <4>1. k + 1 \in 1..t /\ k \in Parts /\ k > 0
          BY <1>1, <2>1, <3>2 DEF PlanInv, ShapeInv, Parts
        <4>2. buffer[k + 1] = [base |-> 1, at |-> PlaceOf(k)]
          <5>1. \A m \in 1..t : buffer[m] = [base |-> 1, at |-> PlaceOf(m - 1)]
            BY <2>1 DEF SharedInv
          <5>2. (k + 1) - 1 = k
            BY <1>1
          <5> QED
            BY <4>1, <5>1, <5>2
        <4>3. Begin(k) = e
          BY <2>1, <2>2, <4>1, Tiles DEF PlanInv
        <4> QED
          BY <4>2, <4>3 DEF PlaceOf, Begin
      <3> QED
        BY <3>1, <3>2 DEF RoomEnd
    <2> HIDE DEF r, b, e, v, p, P, F, M
    <2>7. p * F \in Nat /\ p * M \in Nat /\ p * F <= p * M
      <3>2. F * p \in Nat /\ M * p \in Nat /\ F * p <= M * p
        BY <1>0, <2>4, Monotone
      <3>3. F * p = p * F /\ M * p = p * M
        BY <1>0, <2>4
      <3> QED
        BY <3>2, <3>3
    <2>8. b * M \in Nat /\ e * M = b * M + p * M
      BY <1>0, <2>4, ProductNat
    <2>9. e * M <= v * M /\ e * M \in Nat /\ v * M \in Nat
      BY <1>0, <2>4, Monotone
    <2>10. buffer[k].at + P * F <= RoomEnd(k)
      BY <2>5, <2>6, <2>7, <2>8, <2>9
    <2> QED
      BY <2>10 DEF P, F
  <1> QED
    BY <1>0, <1>2, <1>3

(***************************************************************************)
(* What the caller receives                                                *)
(***************************************************************************)

\* Element j of answer k is what is copied to place c of the caller's buffer.
Hits(d, k, j, c) == /\ k \in DOMAIN buffer /\ buffer[k].base = d
                    /\ j \in 1..NumPoints(ServerReads(requests[k]))
                    /\ buffer[k].at + (j - 1) * FileTypeSize = (c - 1) * FileTypeSize

\* The caller's element c is the only one that is copied there.
LEMMA MergedElement ==
    ASSUME NEW d, NEW c \in 1..NumPoints(Whole(selections[d])), NEW k, NEW j,
           Hits(d, k, j, c), \A l, m : Hits(d, l, m, c) => l = k /\ m = j
    PROVE  Merged(d)[c] = RowMajor(ServerReads(requests[k]))[j]
  <1> DEFINE mine == {l \in DOMAIN buffer : buffer[l].base = d}
             answer == [l \in mine |-> RowMajor(ServerReads(requests[l]))]
             all == UNION {{l} \X DOMAIN answer[l] : l \in mine}
             stored == {e \in all : buffer[e[1]].at + (e[2] - 1) * FileTypeSize
                                      = (c - 1) * FileTypeSize}
  <1>1. Merged(d)[c] = IF stored = {} THEN NoElement
                       ELSE LET e == CHOOSE e \in stored : TRUE IN answer[e[1]][e[2]]
    BY DEF Merged
  <1>2. \A l \in mine : DOMAIN answer[l] = 1..NumPoints(ServerReads(requests[l]))
    BY DEF RowMajor
  <1>3. ASSUME NEW e \in stored PROVE e = <<k, j>>
    <2>0. e \in all /\ buffer[e[1]].at + (e[2] - 1) * FileTypeSize = (c - 1) * FileTypeSize
      OBVIOUS
    <2>1. PICK l \in mine : e \in {l} \X DOMAIN answer[l]
      BY <2>0
    <2>2. e[1] = l /\ e[2] \in DOMAIN answer[l] /\ e = <<e[1], e[2]>>
      <3> DEFINE D == DOMAIN answer[l]
      <3>1. e \in {l} \X D
        BY <2>1
      <3> HIDE DEF D
      <3>2. e[1] = l /\ e[2] \in D /\ e = <<e[1], e[2]>>
        BY <3>1
      <3> QED
        BY <3>2 DEF D
    <2>3. e[2] \in 1..NumPoints(ServerReads(requests[l]))
      BY <1>2, <2>2
    <2>4. Hits(d, l, e[2], c)
      BY <2>0, <2>1, <2>2, <2>3 DEF Hits
    <2> QED
      BY <2>2, <2>4
  <1>4. <<k, j>> \in stored
    <2>1. k \in mine /\ j \in DOMAIN answer[k]
      BY <1>2 DEF Hits
    <2>2. <<k, j>> \in {k} \X DOMAIN answer[k]
      <3> DEFINE D == DOMAIN answer[k]
      <3>1. j \in D
        BY <2>1
      <3> HIDE DEF D
      <3>2. <<k, j>> \in {k} \X D
        BY <3>1
      <3> QED
        BY <3>2 DEF D
    <2>3. <<k, j>> \in all
      BY <2>1, <2>2
    <2>4. buffer[k].at + (j - 1) * FileTypeSize = (c - 1) * FileTypeSize
      BY DEF Hits
    <2> QED
      BY <2>3, <2>4
  <1>5. stored = {<<k, j>>}
    <2> HIDE DEF stored
    <2> QED
      BY <1>3, <1>4
  <1>6. (CHOOSE e \in stored : TRUE) = <<k, j>>
    <2> HIDE DEF stored
    <2> QED
      BY <1>5
  <1>7. k \in mine
    BY DEF Hits
  <1>8. answer[k] = RowMajor(ServerReads(requests[k]))
    BY <1>7
  <1> HIDE DEF stored, answer, mine
  <1> QED
    BY <1>1, <1>5, <1>6, <1>8

\* The caller gets one element for each of the selection.
LEMMA MergedIsFunction ==
    ASSUME NEW d
    PROVE  Merged(d) = [c \in 1..NumPoints(Whole(selections[d])) |-> Merged(d)[c]]
  <1> DEFINE mine == {k \in DOMAIN buffer : buffer[k].base = d}
             answer == [k \in mine |-> RowMajor(ServerReads(requests[k]))]
             stored(c) == {e \in UNION {{k} \X DOMAIN answer[k] : k \in mine} :
                             buffer[e[1]].at + (e[2] - 1) * FileTypeSize
                               = (c - 1) * FileTypeSize}
             At(c) == IF stored(c) = {} THEN NoElement
                      ELSE LET e == CHOOSE e \in stored(c) : TRUE IN answer[e[1]][e[2]]
             N == NumPoints(Whole(selections[d]))
  <1>1. Merged(d) = [c \in 1..N |-> At(c)]
    BY DEF Merged
  <1> HIDE DEF At, N
  <1>2. Merged(d) = [c \in 1..N |-> Merged(d)[c]]
    BY <1>1
  <1> QED
    BY <1>2 DEF N

\* A contiguous selection is a box.
LEMMA ContiguousIs ==
    ASSUME NEW s \in Selections, Contiguous(s)
    PROVE  /\ IsBox(Whole(s)) /\ ServerReads(Whole(s)) = Whole(s)
           /\ NumPoints(Whole(s)) \in Nat \ {0}
  <1>1. CASE s = All
    <2>1. Whole(s) = WholeDataset
      BY <1>1 DEF Whole
    <2>2. NumPoints(WholeDataset) \in Nat \ {0}
      BY WholeIs, BoxRowMajor
    <2> QED
      BY <2>1, <2>2, WholeIs, ReadsOfBox
  <1>2. CASE s # All
    <2>1. Whole(s) = s /\ s \in Requests /\ s \in [Dims -> Ranges]
          /\ \A d \in Dims : s[d].start \in Nat /\ s[d].stop \in Nat /\ s[d].start < s[d].stop
      BY <1>2, SelectionIs DEF Whole
    <2>2. \A d \in Dims : s[d].step = 1
      BY <2>1 DEF Contiguous
    <2>3. ASSUME NEW d \in Dims
          PROVE  s[d] \in {r \in [start : Nat, stop : Nat, step : {1}] : r.start <= r.stop}
      <3>1. s[d] \in [start : Nat, stop : Nat, step : Nat]
        BY <2>1 DEF Requests
      <3>2. s[d].start <= s[d].stop /\ s[d].step = 1
        BY <2>1, <2>2
      <3> QED
        BY <3>1, <3>2
    <2>4. IsBox(s)
      BY <2>1, <2>3 DEF IsBox
    <2>5. ServerReads(s) = s
      BY <2>4, ReadsOfBox
    <2>6. NumPoints(s) \in Nat \ {0}
      <3>1. 1 \in Dims
        BY PlanAssumption DEF Dims
      <3>2. NumPoints(ServerReads(s)) \in Nat \ {0}
        BY <1>2, <3>1, ReadsPoints
      <3> QED
        BY <2>5, <3>2
    <2> QED
      BY <2>1, <2>4, <2>5, <2>6
  <1> QED
    BY <1>1, <1>2

\* One server: its answer is what the caller receives.
LEMMA AloneDone ==
    ASSUME PlanInv, rpc = "done", n = 1,
           NEW d \in DOMAIN selections, Contiguous(selections[d])
    PROVE  InOrder(d)
  <1> DEFINE s == Whole(selections[d])
             N == NumPoints(s)
  <1>1. AloneInv /\ t = Len(selections) /\ d \in 1..t /\ t \in Nat /\ Len(buffer) = t
        /\ result[d] = Merged(d)
    BY TransferIs DEF PlanInv, ShapeInv, DoneInv
  <1>2. selections[d] \in Selections
    BY <1>1, TransferIs
  <1>3. ServerReads(s) = s /\ N \in Nat
    BY <1>2, ContiguousIs
  <1>4. DOMAIN buffer = 1..t /\ \A k \in 1..t : buffer[k] = [base |-> k, at |-> 0]
    BY <1>1 DEF PlanInv, ShapeInv, AloneInv
  <1>5. requests[d] = s
    BY <1>1 DEF AloneInv
  <1>6. FileTypeSize \in Nat \ {0}
    BY PlanAssumption
  <1> HIDE DEF s
  <1>7. ASSUME NEW c \in 1..N PROVE Merged(d)[c] = RowMajor(s)[c]
    <2>1. Hits(d, d, c, c)
      <3>1. buffer[d].base = d /\ buffer[d].at = 0
        BY <1>1, <1>4
      <3>2. (c - 1) * FileTypeSize \in Int
        BY <1>3, <1>6
      <3> QED
        BY <1>1, <1>3, <1>4, <1>5, <3>1, <3>2 DEF Hits
    <2>2. ASSUME NEW l, NEW m, Hits(d, l, m, c) PROVE l = d /\ m = c
      <3>1. l \in 1..t /\ buffer[l].base = d
        BY <1>4, <2>2 DEF Hits
      <3>2. l = d /\ buffer[l].at = 0
        BY <1>4, <3>1
      <3>3. m \in 1..N /\ 0 + (m - 1) * FileTypeSize = (c - 1) * FileTypeSize
        BY <1>3, <1>5, <2>2, <3>2 DEF Hits
      <3>4. m - 1 \in Int /\ c - 1 \in Int /\ (m - 1) * FileTypeSize = (c - 1) * FileTypeSize
        BY <1>3, <1>6, <3>3
      <3>5. m - 1 = c - 1
        BY <1>6, <3>4, Cancel
      <3> QED
        BY <1>3, <3>2, <3>3, <3>5
    <2>3. c \in 1..NumPoints(Whole(selections[d]))
      BY DEF s
    <2> QED
      BY <1>3, <1>5, <2>1, <2>2, <2>3, MergedElement
  <1>8. Merged(d) = [c \in 1..N |-> Merged(d)[c]]
    BY MergedIsFunction DEF s
  <1>9. RowMajor(s) = [c \in 1..N |-> RowMajor(s)[c]]
    BY DEF RowMajor
  <1>10. Merged(d) = RowMajor(s)
    BY <1>7, <1>8, <1>9
  <1> QED
    BY <1>1, <1>10 DEF InOrder, s

\* Every place of the caller's buffer lies in one part.
LEMMA PartOfPlace ==
    ASSUME SplitInv, i = n, NEW s \in Selections, CutOf(s),
           NEW c \in 1..NumPoints(ServerReads(s))
    PROVE  \E k \in Parts : c - Begin(k) \in 1..NumPoints(PartOf(s, k))
  <1> DEFINE S == {k \in Parts : c <= End(k)}
  <1>0. n \in Nat \ {0} /\ Parts = 0..(n - 1) /\ n - 1 \in Parts
    BY nAssumption DEF Parts
  <1>1. NumPoints(ServerReads(s)) \in Nat /\ c \in Nat /\ c > 0
    <2>1. End(n - 1) \in Nat /\ NumPoints(ServerReads(s)) = End(n - 1)
      BY <1>0, Tiles
    <2> QED
      BY <2>1
  <1>2. S \in SUBSET Nat /\ S # {}
    <2>1. n - 1 \in S
      BY <1>0, Tiles
    <2> QED
      BY <1>0, <2>1
  <1>3. PICK k \in S : \A m \in S : k <= m
    BY <1>2, LeastNatural
  <1>4. k \in Parts /\ c <= End(k)
    BY <1>3
  <1>5. c > Begin(k)
    <2>1. CASE k = 0
      BY <1>1, <2>1, Tiles
    <2>2. CASE k # 0
      <3>1. k > 0 /\ k - 1 \in Parts /\ k - 1 \notin S
        BY <1>0, <1>3, <1>4, <2>2
      <3>2. ~(c <= End(k - 1)) /\ Begin(k) = End(k - 1) /\ End(k - 1) \in Nat
        BY <1>4, <3>1, Tiles
      <3> QED
        BY <1>1, <3>2
    <2> QED
      BY <2>1, <2>2
  <1>6. c - Begin(k) \in 1..NumPoints(PartOf(s, k))
    <2>1. Begin(k) \in Nat /\ NumPoints(PartOf(s, k)) \in Nat
          /\ End(k) = Begin(k) + NumPoints(PartOf(s, k))
      BY <1>4, Tiles
    <2> QED
      BY <1>1, <1>4, <1>5, <2>1
  <1> QED
    BY <1>4, <1>6

\* The boxes of the parts are together that of the selection.
LEMMA BoxOfParts ==
    ASSUME SplitInv, i = n, NEW s \in Selections, CutOf(s)
    PROVE  \A x : x \in Box(s) <=> \E k \in Parts : x \in Box(PartOf(s, k))
  <1>0. n \in Nat \ {0} /\ Parts = 0..(n - 1) /\ n - 1 \in Parts
    BY nAssumption DEF Parts
  <1>1. /\ dim \in Dims /\ offset \in Nat /\ count \in Nat
        /\ s[dim].start = offset /\ s[dim].stop = count
        /\ starts[0] = offset /\ ends[n - 1] = count
        /\ \A k \in Parts : k > 0 => starts[k] = ends[k - 1]
        /\ \A k \in Parts : starts[k] \in Nat /\ ends[k] \in Nat
    BY PartsAre DEF CutOf
  <1>2. \A k \in Parts : offset <= starts[k] /\ ends[k] <= count
    BY PartsInOrder
  <1>3. ASSUME NEW k \in Parts, NEW x
        PROVE  x \in Box(PartOf(s, k)) <=>
                 /\ x \in [Dims -> Nat] /\ starts[k] <= x[dim] /\ x[dim] < ends[k]
                 /\ \A d \in Dims : d # dim => s[d].start <= x[d] /\ x[d] < s[d].stop
    BY <1>1, PartIs DEF Box
  <1>4. ASSUME NEW k \in Parts, NEW x \in Box(PartOf(s, k)) PROVE x \in Box(s)
    <2>1. x \in [Dims -> Nat] /\ x[dim] \in Nat /\ starts[k] <= x[dim] /\ x[dim] < ends[k]
      BY <1>1, <1>3
    <2>2. s[dim].start <= x[dim] /\ x[dim] < s[dim].stop
      BY <1>1, <1>2, <2>1
    <2> QED
      BY <1>3, <2>1, <2>2 DEF Box
  <1>5. ASSUME NEW x \in Box(s) PROVE \E k \in Parts : x \in Box(PartOf(s, k))
    <2> DEFINE S == {k \in Parts : x[dim] < ends[k]}
    <2>1. x \in [Dims -> Nat] /\ x[dim] \in Nat /\ offset <= x[dim] /\ x[dim] < count
      BY <1>1 DEF Box
    <2>2. S \in SUBSET Nat /\ S # {}
      <3>1. n - 1 \in S
        BY <1>0, <1>1, <2>1
      <3> QED
        BY <1>0, <3>1
    <2>3. PICK k \in S : \A m \in S : k <= m
      BY <2>2, LeastNatural
    <2>4. k \in Parts /\ x[dim] < ends[k]
      BY <2>3
    <2>5. starts[k] <= x[dim]
      <3>1. CASE k = 0
        BY <1>1, <2>1, <3>1
      <3>2. CASE k # 0
        <4>1. k > 0 /\ k - 1 \in Parts /\ k - 1 \notin S
          BY <1>0, <2>3, <2>4, <3>2
        <4>2. ~(x[dim] < ends[k - 1]) /\ starts[k] = ends[k - 1] /\ ends[k - 1] \in Nat
          BY <1>1, <2>4, <4>1
        <4> QED
          BY <2>1, <4>2
      <3> QED
        BY <3>1, <3>2
    <2> QED
      BY <1>3, <2>1, <2>4, <2>5 DEF Box
  <1> QED
    BY <1>4, <1>5

\* Several servers: what they delivered, put behind one another.
LEMMA SharedDone ==
    ASSUME PlanInv, rpc = "done", n > 1
    PROVE  /\ Len(selections) = 1 /\ selections[1] \in Selections /\ selections[1] # All
           /\ CutOf(selections[1]) /\ i = n
           /\ DOMAIN buffer = 1..n
           /\ \A k \in 1..n : /\ buffer[k] = [base |-> 1, at |-> PlaceOf(k - 1)]
                              /\ requests[k] = PartOf(selections[1], k - 1)
           /\ result[1] = Merged(1)
  <1> DEFINE s == selections[1]
  <1>1. /\ t = n /\ Len(selections) = 1 /\ SharedInv /\ s \in Selections
        /\ ~Overflows /\ result[1] = Merged(1) /\ ShapeInv /\ n \in Nat
    <2>1. Last /\ ~Overflows /\ result = [d \in DOMAIN selections |-> Merged(d)]
      BY DEF PlanInv, DoneInv
    <2>2. 1 \in DOMAIN selections
      BY TransferIs
    <2> QED
      BY <2>1, <2>2, PlannedCuts, nAssumption DEF PlanInv
  <1>2. DOMAIN buffer = 1..n
    BY <1>1 DEF ShapeInv
  <1>3. flag_Node
    <2> SUFFICES ASSUME ~flag_Node PROVE FALSE
      OBVIOUS
    <2>1. 1 \in 1..t
      BY <1>1
    <2>2. buffer[1] = [base |-> 1, at |-> 0] /\ requests[1] = WholeDataset
      BY <1>1, <2>1 DEF SharedInv
    <2>3. capacity = <<0>>
      BY <1>1 DEF SharedInv
    <2>4. NumPoints(WholeDataset) \in Nat \ {0} /\ ServerReads(WholeDataset) = WholeDataset
      BY WholeIs, BoxRowMajor, ReadsOfBox
    <2>5. NumPoints(WholeDataset) * FileTypeSize > 0
      BY <2>4, ProductNat, PlanAssumption
    <2>6. buffer[1].at + NumPoints(ServerReads(requests[1])) * FileTypeSize
            > capacity[buffer[1].base]
      BY <2>2, <2>3, <2>4, <2>5, PlanAssumption
    <2> QED
      BY <1>1, <1>2, <2>1, <2>6 DEF Overflows, DataEnd
  <1>4. CutOf(s) /\ i = n
    BY <1>1, <1>3 DEF SharedInv
  <1>5. \A k \in 1..n : /\ buffer[k] = [base |-> 1, at |-> PlaceOf(k - 1)]
                        /\ requests[k] = PartOf(s, k - 1)
    BY <1>1, <1>3 DEF SharedInv
  <1>6. s # All
    BY <1>4 DEF CutOf
  <1> QED
    BY <1>1, <1>2, <1>4, <1>5, <1>6

\* The elements of part k are those from place Begin(k) on.
LEMMA MergedParts ==
    ASSUME PlanInv, rpc = "done", n > 1, FileTypeSize = MemTypeSize,
           Contiguous(selections[1]),
           NEW k \in Parts, NEW j \in 1..NumPoints(PartOf(selections[1], k))
    PROVE  /\ Begin(k) + j \in 1..NumPoints(Whole(selections[1]))
           /\ Merged(1)[Begin(k) + j] = RowMajor(PartOf(selections[1], k))[j]
  <1> DEFINE s == selections[1]
             N == NumPoints(s)
             F == FileTypeSize
             c == Begin(k) + j
  <1>1. /\ s \in Selections /\ s # All /\ CutOf(s) /\ i = n /\ DOMAIN buffer = 1..n
        /\ \A m \in 1..n : /\ buffer[m] = [base |-> 1, at |-> PlaceOf(m - 1)]
                           /\ requests[m] = PartOf(s, m - 1)
    BY SharedDone
  <1>2. SplitInv
    BY DEF PlanInv
  <1>3. F \in Nat \ {0} /\ n \in Nat \ {0} /\ F = MemTypeSize
    BY PlanAssumption, nAssumption
  <1>4. Whole(s) = s /\ ServerReads(s) = s
    <2>1. Whole(s) = s
      BY <1>1 DEF Whole
    <2> QED
      BY <1>1, <2>1, ContiguousIs
  <1> HIDE DEF s
  <1>5. /\ \A m \in Parts : /\ Begin(m) \in Nat /\ End(m) \in Nat
                            /\ NumPoints(PartOf(s, m)) \in Nat
                            /\ End(m) = Begin(m) + NumPoints(PartOf(s, m))
                            /\ End(m) <= N
        /\ \A l, m \in Parts : l < m => End(l) <= Begin(m)
        /\ End(n - 1) = N
    BY <1>1, <1>2, <1>4, Tiles
  <1>6. \A m \in 1..n : m - 1 \in Parts
    BY <1>3 DEF Parts
  <1>7. ASSUME NEW m \in 1..n
        PROVE  /\ ServerReads(requests[m]) = PartOf(s, m - 1)
               /\ buffer[m].base = 1 /\ buffer[m].at = Begin(m - 1) * F
    <2>1. IsBox(PartOf(s, m - 1))
      BY <1>1, <1>2, <1>6, PartIs
    <2>2. ServerReads(PartOf(s, m - 1)) = PartOf(s, m - 1)
      BY <2>1, ReadsOfBox
    <2> QED
      BY <1>1, <1>3, <2>2 DEF PlaceOf, Begin
  <1>8. j \in Nat /\ j > 0 /\ c \in 1..N /\ N \in Nat
    <2>1. n - 1 \in Parts
      BY <1>3 DEF Parts
    <2>2. j \in 1..NumPoints(PartOf(s, k))
      BY DEF s
    <2> QED
      BY <1>5, <2>1, <2>2
  <1>9. Hits(1, k + 1, j, c)
    <2>1. k + 1 \in 1..n /\ (k + 1) - 1 = k
      BY <1>3 DEF Parts
    <2>2. Begin(k) * F + (j - 1) * F = (c - 1) * F
      <3> DEFINE b == Begin(k)
      <3>1. b \in Nat
        BY <1>5
      <3> HIDE DEF b
      <3>2. b * F + (j - 1) * F = ((b + j) - 1) * F
        BY <1>3, <1>8, <3>1
      <3> QED
        BY <3>2 DEF b
    <2>3. j \in 1..NumPoints(PartOf(s, k))
      BY DEF s
    <2> QED
      BY <1>1, <1>7, <2>1, <2>2, <2>3 DEF Hits
  <1>10. ASSUME NEW l, NEW m, Hits(1, l, m, c) PROVE l = k + 1 /\ m = j
    <2>1. l \in 1..n /\ l - 1 \in Parts
      BY <1>1, <1>6, <1>10 DEF Hits
    <2>2. m \in 1..NumPoints(PartOf(s, l - 1)) /\ Begin(l - 1) * F + (m - 1) * F = (c - 1) * F
      BY <1>7, <1>10, <2>1 DEF Hits
    <2>3. c = Begin(l - 1) + m
      <3> DEFINE b == Begin(l - 1)
      <3>1. b \in Nat /\ m \in Nat /\ c \in Int
        BY <1>5, <1>8, <2>1, <2>2
      <3>2. b * F + (m - 1) * F = (c - 1) * F
        BY <2>2
      <3> HIDE DEF b, c
      <3>3. ((b + m) - 1) * F = (c - 1) * F
        BY <1>3, <3>1, <3>2
      <3>4. (b + m) - 1 = c - 1
        BY <1>3, <3>1, <3>3, Cancel
      <3>5. c = b + m
        BY <3>1, <3>4
      <3> QED
        BY <3>5 DEF b
    <2> DEFINE u == l - 1
    <2>4. u \in Parts /\ m \in 1..NumPoints(PartOf(s, u)) /\ c = Begin(u) + m /\ u \in Int /\ k \in Int
      BY <1>3, <2>1, <2>2, <2>3 DEF Parts
    <2> HIDE DEF u
    <2>5. u = k
      <3>1. j \in 1..NumPoints(PartOf(s, k))
        BY DEF s
      <3>2. ~(u < k)
        <4> SUFFICES ASSUME u < k PROVE FALSE
          OBVIOUS
        <4>1. End(u) <= Begin(k) /\ End(u) = Begin(u) + NumPoints(PartOf(s, u))
          BY <1>5, <2>4
        <4> QED
          BY <1>5, <1>8, <2>4, <4>1
      <3>3. ~(k < u)
        <4> SUFFICES ASSUME k < u PROVE FALSE
          OBVIOUS
        <4>1. End(k) <= Begin(u) /\ End(k) = Begin(k) + NumPoints(PartOf(s, k))
          BY <1>5, <2>4
        <4> QED
          BY <1>5, <1>8, <2>4, <3>1, <4>1
      <3> QED
        BY <2>4, <3>2, <3>3
    <2> QED
      BY <1>5, <1>8, <2>1, <2>4, <2>5 DEF u
  <1>11. Merged(1)[c] = RowMajor(ServerReads(requests[k + 1]))[j]
    <2>1. c \in 1..NumPoints(Whole(selections[1]))
      BY <1>4, <1>8 DEF s
    <2> HIDE DEF c
    <2> QED
      BY <1>9, <1>10, <2>1, MergedElement
  <1>12. ServerReads(requests[k + 1]) = PartOf(s, k)
    <2>1. k + 1 \in 1..n /\ (k + 1) - 1 = k
      BY <1>3 DEF Parts
    <2> QED
      BY <1>7, <2>1
  <1> QED
    BY <1>4, <1>8, <1>11, <1>12 DEF s

\* Every element of the selection once, and nothing else.
LEMMA OnceNow ==
    ASSUME n = 1 \/ FileTypeSize = MemTypeSize, PlanInv PROVE EachElementOnce
  <1> SUFFICES ASSUME rpc = "done", NEW d \in DOMAIN selections, Contiguous(selections[d])
               PROVE  {result[d][k] : k \in DOMAIN result[d]}
                        = {RowMajor(Whole(selections[d]))[k] :
                             k \in DOMAIN RowMajor(Whole(selections[d]))}
    BY DEF EachElementOnce
  <1>1. CASE n = 1
    <2>1. result[d] = RowMajor(Whole(selections[d]))
      BY <1>1, AloneDone DEF InOrder
    <2> QED
      BY <2>1
  <1>2. CASE n # 1
    <2>0. n > 1 /\ FileTypeSize = MemTypeSize
      BY <1>2, nAssumption
    <2>1. d = 1
      BY <2>0, PlannedCuts DEF PlanInv, DoneInv
    <2> DEFINE s == selections[1]
               N == NumPoints(s)
               R == Merged(1)
    <2>2. /\ s \in Selections /\ s # All /\ CutOf(s) /\ i = n /\ result[1] = R
          /\ Contiguous(s)
      BY <2>0, <2>1, SharedDone
    <2>3. Whole(s) = s /\ ServerReads(s) = s /\ IsBox(s)
      <3>1. Whole(s) = s
        BY <2>2 DEF Whole
      <3> QED
        BY <2>2, <3>1, ContiguousIs
    <2>4. R = [c \in 1..N |-> R[c]]
      BY <2>3, MergedIsFunction
    <2>5. \A k \in Parts : \A j \in 1..NumPoints(PartOf(s, k)) :
             Begin(k) + j \in 1..N /\ R[Begin(k) + j] = RowMajor(PartOf(s, k))[j]
      BY <2>0, <2>2, <2>3, MergedParts
    <2> HIDE DEF R, s, N
    <2>6. SplitInv
      BY DEF PlanInv
    <2>7. \A x : x \in Box(s) <=> \E k \in Parts : x \in Box(PartOf(s, k))
      BY <2>2, <2>6, BoxOfParts
    <2>8. \A k \in Parts : {RowMajor(PartOf(s, k))[j] : j \in 1..NumPoints(PartOf(s, k))}
                             = Box(PartOf(s, k))
      BY <2>2, <2>6, PartIs, RowMajorCovers
    <2>9. ASSUME NEW c \in 1..N PROVE R[c] \in Box(s)
      <3>1. PICK k \in Parts : c - Begin(k) \in 1..NumPoints(PartOf(s, k))
        BY <2>2, <2>3, <2>6, PartOfPlace DEF N
      <3> DEFINE j == c - Begin(k)
      <3>2. j \in 1..NumPoints(PartOf(s, k)) /\ Begin(k) + j = c
        <4>1. Begin(k) \in Nat /\ c \in Int
          BY <2>2, <2>6, Tiles
        <4> QED
          BY <3>1, <4>1
      <3> HIDE DEF j
      <3>3. R[c] = RowMajor(PartOf(s, k))[j]
        BY <2>5, <3>2
      <3>4. R[c] \in Box(PartOf(s, k))
        BY <2>8, <3>2, <3>3
      <3> QED
        BY <2>7, <3>4
    <2>10. ASSUME NEW x \in Box(s) PROVE \E c \in 1..N : R[c] = x
      <3>1. PICK k \in Parts : x \in Box(PartOf(s, k))
        BY <2>7
      <3>2. PICK j \in 1..NumPoints(PartOf(s, k)) : RowMajor(PartOf(s, k))[j] = x
        BY <2>8, <3>1
      <3> QED
        BY <2>5, <3>2
    <2>11. DOMAIN R = 1..N
      BY <2>4
    <2>12. {R[c] : c \in DOMAIN R} = Box(s)
      BY <2>9, <2>10, <2>11
    <2>13. {RowMajor(s)[k] : k \in 1..N} = Box(s)
      BY <2>3, RowMajorCovers DEF N
    <2>14. DOMAIN RowMajor(s) = 1..N
      BY DEF RowMajor, N
    <2>15. {RowMajor(s)[k] : k \in DOMAIN RowMajor(s)} = Box(s)
      BY <2>13, <2>14
    <2>16. result[d] = R /\ Whole(selections[d]) = s
      BY <2>1, <2>2, <2>3 DEF s
    <2>17. {result[d][k] : k \in DOMAIN result[d]} = {R[c] : c \in DOMAIN R}
      BY <2>16
    <2>18. {RowMajor(Whole(selections[d]))[k] : k \in DOMAIN RowMajor(Whole(selections[d]))}
             = {RowMajor(s)[k] : k \in DOMAIN RowMajor(s)}
      BY <2>16
    <2> QED
      BY <2>12, <2>15, <2>17, <2>18
  <1> QED
    BY <1>1, <1>2

(***************************************************************************)
(* The order of the parts                                                  *)
(***************************************************************************)

\* Where every dimension before c has one index, a step of c passes over the
\* elements of all the other dimensions.
LEMMA WeightIsOthers ==
    ASSUME NEW s, IsBox(s), NEW c \in Dims, \A d \in Dims : Sizes(s)[d] > 0,
           \A e \in Dims : e < c => Sizes(s)[e] = 1,
           NEW w, IsWeight(w, Sizes(s)), NumPoints(s) = w[1] * Sizes(s)[1]
    PROVE  w[c] = OthersOf(s, c)
  <1> DEFINE g == Sizes(s)
             S == {d \in 0..(c - 1) : w[d + 1] * g[d + 1] = w[1] * g[1]}
  <1>0. Rank \in Nat \ {0} /\ Dims = 1..Rank /\ c \in 1..Rank /\ c - 1 \in Nat
    BY PlanAssumption DEF Dims
  <1>1. /\ g \in [Dims -> Nat] /\ g[c] = s[c].stop - s[c].start
        /\ \A d \in Dims : g[d] > 0 /\ w[d] \in Nat
        /\ \A e \in Dims : e < c => g[e] = 1
    BY BoxSizes, WeightIsNat
  <1>2. 0 \in S
    BY <1>0
  <1>3. ASSUME NEW d \in 0..((c - 1) - 1), d \in S PROVE d + 1 \in S
    <2>1. /\ d + 1 \in 1..(Rank - 1) /\ d + 1 \in Dims /\ d + 1 < c /\ d + 1 \in 0..(c - 1)
          /\ (d + 1) + 1 \in Dims
      BY <1>0
    <2>2. w[d + 1] = w[(d + 1) + 1] * g[(d + 1) + 1]
      BY <2>1 DEF IsWeight
    <2>3. g[d + 1] = 1 /\ w[d + 1] \in Nat
      BY <1>1, <2>1
    <2>4. w[d + 1] * g[d + 1] = w[d + 1]
      BY <2>3
    <2>5. w[d + 1] * g[d + 1] = w[1] * g[1]
      BY <1>3
    <2> QED
      BY <2>1, <2>2, <2>4, <2>5
  <1> HIDE DEF S
  <1>4. 0..(c - 1) \subseteq S
    BY <1>0, <1>2, <1>3, InductionUp
  <1>5. w[c] * g[c] = w[1] * g[1]
    <2>1. c - 1 \in S /\ (c - 1) + 1 = c
      BY <1>0, <1>4
    <2> QED
      BY <2>1 DEF S
  <1>6. NumPoints(s) = g[c] * OthersOf(s, c) /\ OthersOf(s, c) \in Nat
    BY <1>1, BoxParts
  <1> DEFINE a == w[c]
             b == OthersOf(s, c)
             m == g[c]
  <1>7. a \in Nat /\ b \in Nat /\ m \in Nat \ {0} /\ a * m = m * b
    BY <1>1, <1>5, <1>6
  <1> HIDE DEF a, b, m
  <1>8. a * m = b * m
    BY <1>7
  <1>9. a = b
    BY <1>7, <1>8, Cancel
  <1> QED
    BY <1>9 DEF a, b

\* An index of the dimension that was cut, counted from the part's start: r
\* is among the elements of b indices, of weight w each.
InPart(r, b, w) == r \in 0..(b * w - 1)

\* The index of the dimension that was cut goes on from one part to the next.
LEMMA OuterDigit ==
    ASSUME NEW w \in Nat \ {0}, NEW a \in Nat, NEW b \in Nat, NEW g \in Nat,
           a + b <= g, NEW r, InPart(r, b, w)
    PROVE  /\ r \div w \in 0..(b - 1)
           /\ (r \div w) % b = r \div w
           /\ a * w + r \in Nat
           /\ ((a * w + r) \div w) % g = a + (r \div w)
  <1> DEFINE q == r \div w
             z == r % w
  <1>0. b * w \in Nat /\ r \in Nat /\ r < b * w
    BY ProductNat DEF InPart
  <1>1. q \in Nat /\ z \in 0..(w - 1) /\ r = w * q + z
    BY <1>0
  <1> HIDE DEF q, z
  <1>2. q < b
    <2> SUFFICES ASSUME b <= q PROVE FALSE
      BY <1>1
    <2>1. b * w <= q * w /\ q * w = w * q /\ q * w \in Nat
      BY <1>1, Monotone
    <2> QED
      BY <1>0, <1>1, <2>1
  <1>3. q % b = q
    BY <1>1, <1>2
  <1>4. (a + q) * w = a * w + w * q /\ a * w \in Nat /\ w * q \in Nat
    BY <1>1, ProductNat
  <1>5. a * w + r = (a + q) * w + z
    BY <1>1, <1>4
  <1>6. ((a + q) * w + z) \div w = a + q
    <2> DEFINE u == a + q
    <2>1. u \in Nat
      BY <1>1
    <2> HIDE DEF u
    <2>2. (u * w + z) \div w = u
      BY <1>1, <2>1, DivUnique
    <2> QED
      BY <2>2 DEF u
  <1>7. (a + q) % g = a + q
    <2>1. a + q \in 0..(g - 1) /\ g \in Nat \ {0}
      BY <1>1, <1>2
    <2> QED
      BY <2>1
  <1>8. (a * w + r) \div w = a + q
    BY <1>5, <1>6
  <1>9. a * w + r \in Nat
    BY <1>0, <1>4
  <1> QED
    BY <1>1, <1>2, <1>3, <1>7, <1>8, <1>9 DEF q

\* A part of a selection that is cut at its outermost dimension is a piece of
\* its row-major order.
LEMMA PartInOrder ==
    ASSUME SplitInv, i = n, NEW s \in Selections, CutOf(s), IsBox(s),
           \A d \in Dims : Sizes(s)[d] > 0, \A e \in Dims : e < dim => Sizes(s)[e] = 1,
           NEW k \in Parts, NEW j \in 1..NumPoints(PartOf(s, k)),
           Begin(k) + j \in 1..NumPoints(s)
    PROVE  RowMajor(PartOf(s, k))[j] = RowMajor(s)[Begin(k) + j]
  <1> DEFINE r == PartOf(s, k)
             g == Sizes(s)
             h == Sizes(r)
             a == starts[k] - offset
             b == ends[k] - starts[k]
             c == Begin(k) + j
             z == j - 1
  <1>0. dim \in Dims /\ sum = OthersOf(s, dim) /\ offset = s[dim].start /\ count = s[dim].stop
        /\ Rank \in Nat \ {0} /\ Dims = 1..Rank
    BY PlanAssumption DEF CutOf, Dims
  <1>1. /\ IsBox(r) /\ r[dim].start = starts[k] /\ r[dim].stop = ends[k]
        /\ \A d \in Dims : d # dim => r[d].start = s[d].start /\ r[d].stop = s[d].stop
        /\ NumPoints(r) = b * sum
    BY PartIs
  <1>2. /\ offset \in Nat /\ count \in Nat /\ sum \in Nat
        /\ starts[k] \in Nat /\ ends[k] \in Nat /\ a \in Nat /\ b \in Nat
        /\ a + b <= count - offset
    <2>1. /\ offset \in Nat /\ count \in Nat /\ sum \in Nat
          /\ starts[k] \in Nat /\ ends[k] \in Nat /\ starts[k] <= ends[k]
      BY PartsAre
    <2>2. offset <= starts[k] /\ ends[k] <= count
      BY PartsInOrder
    <2> QED
      BY <2>1, <2>2
  <1>3. /\ g \in [Dims -> Nat] /\ g[dim] = count - offset
        /\ \A d \in Dims : s[d].start \in Nat
    BY <1>0, BoxSizes
  <1> HIDE DEF r
  <1>4. h \in [Dims -> Nat] /\ h[dim] = b /\ \A d \in Dims : d # dim => h[d] = g[d]
    <2>1. h \in [Dims -> Nat] /\ \A d \in Dims : h[d] = r[d].stop - r[d].start
      BY <1>1, BoxSizes
    <2>2. \A d \in Dims : g[d] = s[d].stop - s[d].start
      BY BoxSizes
    <2> HIDE DEF g, h
    <2> QED
      BY <1>0, <1>1, <2>1, <2>2
  <1>5. PICK w : /\ IsWeight(w, g) /\ NumPoints(s) = w[1] * g[1]
                 /\ RowMajor(s) = [x \in 1..NumPoints(s) |->
                       [d \in Dims |-> s[d].start + (((x - 1) \div w[d]) % g[d])]]
    BY BoxRowMajor
  <1>6. PICK v : /\ IsWeight(v, h)
                 /\ RowMajor(r) = [x \in 1..NumPoints(r) |->
                       [d \in Dims |-> r[d].start + (((x - 1) \div v[d]) % h[d])]]
    BY <1>1, BoxRowMajor
  <1>7. w[dim] = sum
    BY <1>0, <1>5, WeightIsOthers
  <1>8. \A d \in Dims : g[d] > 0
    OBVIOUS
  <1>9. j \in 1..NumPoints(r) /\ NumPoints(r) \in Nat /\ \A d \in Dims : h[d] > 0
    <2>1. j \in 1..NumPoints(r)
      BY DEF r
    <2>2. NumPoints(r) \in Nat /\ (NumPoints(r) > 0 => \A d \in Dims : h[d] > 0)
      BY <1>1, BoxRowMajor
    <2> QED
      BY <2>1, <2>2
  <1>10. Begin(k) = a * sum /\ c \in 1..NumPoints(s)
    BY DEF Begin
  <1> HIDE DEF g, h
  <1>11. \A d \in Dims : w[d] \in Nat \ {0} /\ v[d] \in Nat \ {0}
    <2>1. \A d \in Dims : w[d] \in Nat /\ w[d] > 0
      BY <1>3, <1>5, <1>8, WeightIsNat
    <2>2. \A d \in Dims : v[d] \in Nat /\ v[d] > 0
      BY <1>4, <1>6, <1>9, WeightIsNat
    <2> QED
      BY <2>1, <2>2
  <1>12. \A d \in Dims : d >= dim => v[d] = w[d]
    <2>1. \A d \in Dims : d > dim => h[d] = g[d]
      BY <1>0, <1>4
    <2>2. h \in [Dims -> Int] /\ g \in [Dims -> Int]
      BY <1>3, <1>4
    <2>3. dim \in Dims /\ IsWeight(v, h) /\ IsWeight(w, g)
      BY <1>0, <1>5, <1>6
    <2> QED
      BY <2>1, <2>2, <2>3, WeightsAgree
  <1> HIDE DEF a, b
  <1>13. z \in 0..(b * sum - 1) /\ z \in Nat /\ c - 1 = a * sum + z /\ a * sum \in Nat
    <2>1. a * sum \in Nat /\ b * sum \in Nat
      BY <1>2, ProductNat
    <2>2. j \in 1..(b * sum)
      BY <1>1, <1>9 DEF r
    <2> QED
      BY <1>10, <2>1, <2>2
  <1> HIDE DEF c, z
  <1>14. ASSUME NEW d \in Dims
         PROVE  r[d].start + ((z \div v[d]) % h[d]) = s[d].start + (((c - 1) \div w[d]) % g[d])
    <2>1. CASE d < dim
      <3>1. g[d] = 1 /\ h[d] = 1 /\ r[d].start = s[d].start
        BY <1>0, <1>1, <1>4, <2>1 DEF g
      <3> DEFINE x == z \div v[d]
                 y == (c - 1) \div w[d]
      <3>2. x \in Nat /\ y \in Nat
        <4>1. c - 1 \in Nat
          BY <1>13
        <4> QED
          BY <1>11, <1>13, <4>1
      <3> HIDE DEF x, y
      <3>3. x % 1 = 0 /\ y % 1 = 0
        BY <3>2
      <3> QED
        BY <3>1, <3>3 DEF x, y
    <2>2. CASE d = dim
      <3>1. r[d].start = starts[k] /\ s[d].start = offset /\ h[d] = b /\ g[d] = count - offset
            /\ v[d] = sum /\ w[d] = sum /\ sum \in Nat \ {0}
        BY <1>0, <1>1, <1>3, <1>4, <1>7, <1>11, <1>12, <2>2
      <3> DEFINE q == count - offset
      <3>2. q \in Nat /\ a + b <= q
        BY <1>2
      <3> HIDE DEF q
      <3>3. /\ z \div sum \in 0..(b - 1) /\ (z \div sum) % b = z \div sum
            /\ ((a * sum + z) \div sum) % q = a + (z \div sum)
        <4>1. sum \in Nat \ {0} /\ a \in Nat /\ b \in Nat /\ q \in Nat /\ a + b <= q
              /\ InPart(z, b, sum)
          BY <1>2, <1>13, <3>1, <3>2 DEF InPart
        <4> QED
          BY ONLY <4>1, OuterDigit
      <3>4. /\ r[d].start + ((z \div v[d]) % h[d]) = starts[k] + (z \div sum)
            /\ s[d].start + (((c - 1) \div w[d]) % g[d]) = offset + (a + (z \div sum))
        BY <1>13, <3>1, <3>3 DEF q
      <3>5. a = starts[k] - offset
        BY DEF a
      <3> DEFINE u == z \div sum
      <3>6. u \in Int
        BY <1>2, <3>3
      <3> HIDE DEF u
      <3>7. starts[k] + u = offset + (a + u)
        BY <1>2, <3>5, <3>6
      <3> QED
        BY <3>4, <3>7 DEF u
    <2>3. CASE d > dim
      <3>1. r[d].start = s[d].start /\ h[d] = g[d] /\ v[d] = w[d]
            /\ w[d] \in Nat \ {0} /\ g[d] \in Nat \ {0}
        BY <1>0, <1>1, <1>3, <1>4, <1>8, <1>11, <1>12, <2>3
      <3>2. PICK q \in Nat : w[dim] = q * (w[d] * g[d])
        <4>1. g \in [Dims -> Nat] /\ IsWeight(w, g) /\ dim \in Dims /\ dim < d
          BY <1>0, <1>3, <1>5, <2>3
        <4> QED
          BY ONLY <4>1, d \in Dims, WeightDivides
      <3>3. c - 1 \in Nat /\ c - 1 = a * (q * (w[d] * g[d])) + z
        BY <1>7, <1>13, <3>2
      <3>4. WholeSteps(c - 1, z, w[d], g[d])
        BY <1>2, <3>3 DEF WholeSteps
      <3>5. ((c - 1) \div w[d]) % g[d] = (z \div w[d]) % g[d]
        <4> DEFINE m == c - 1
                   x == w[d]
                   y == g[d]
        <4>1. m \in Nat /\ x \in Nat \ {0} /\ y \in Nat \ {0} /\ z \in Nat
              /\ WholeSteps(m, z, x, y)
          BY <1>13, <3>1, <3>3, <3>4
        <4> HIDE DEF m, x, y
        <4>2. Digit(m, x, y) = Digit(z, x, y)
          BY ONLY <4>1, InnerDigit
        <4> QED
          BY <4>2 DEF Digit, m, x, y
      <3> QED
        BY <3>1, <3>5
    <2> QED
      BY <1>0, <2>1, <2>2, <2>3
  <1>15. RowMajor(r)[j] = [d \in Dims |-> r[d].start + ((z \div v[d]) % h[d])]
    BY <1>6, <1>9 DEF z
  <1>16. RowMajor(s)[c] = [d \in Dims |-> s[d].start + (((c - 1) \div w[d]) % g[d])]
    BY <1>5, <1>10 DEF c
  <1>17. RowMajor(r)[j] = RowMajor(s)[c]
    BY <1>14, <1>15, <1>16
  <1> QED
    BY <1>17 DEF r, c

\* So the parts put behind one another are the row-major order.
LEMMA OuterNow ==
    ASSUME FileTypeSize = MemTypeSize, PlanInv PROVE OuterCutInOrder
  <1> DEFINE s == selections[1]
             N == NumPoints(s)
             R == Merged(1)
  <1> SUFFICES ASSUME rpc = "done", n > 1, Contiguous(s),
                      \A e \in Dims : e < dim => Length(Whole(s)[e]) = 1
               PROVE  InOrder(1)
    BY DEF OuterCutInOrder, ServerNodeNum
  <1>1. s \in Selections /\ s # All /\ CutOf(s) /\ i = n /\ result[1] = R /\ SplitInv
    BY SharedDone DEF PlanInv
  <1>2. Whole(s) = s /\ ServerReads(s) = s /\ IsBox(s) /\ N \in Nat \ {0}
    <2>1. Whole(s) = s
      BY <1>1 DEF Whole
    <2> QED
      BY <1>1, <2>1, ContiguousIs
  <1>3. R = [c \in 1..N |-> R[c]]
    BY <1>2, MergedIsFunction
  <1>4. \A k \in Parts : \A j \in 1..NumPoints(PartOf(s, k)) :
           Begin(k) + j \in 1..N /\ R[Begin(k) + j] = RowMajor(PartOf(s, k))[j]
    BY <1>2, MergedParts
  <1>5. \A e \in Dims : e < dim => Length(s[e]) = 1
    BY <1>2
  <1> HIDE DEF R, s
  <1>6. /\ \A d \in Dims : Sizes(s)[d] > 0
        /\ \A e \in Dims : e < dim => Sizes(s)[e] = 1
    <2>1. \A e \in Dims : e < dim => Sizes(s)[e] = 1
      BY <1>2, <1>5, BoxSizes
    <2> QED
      BY <1>2, <2>1, BoxRowMajor
  <1>7. ASSUME NEW c \in 1..N PROVE R[c] = RowMajor(s)[c]
    <2>1. PICK k \in Parts : c - Begin(k) \in 1..NumPoints(PartOf(s, k))
      BY <1>1, <1>2, PartOfPlace
    <2> DEFINE j == c - Begin(k)
    <2>2. j \in 1..NumPoints(PartOf(s, k)) /\ Begin(k) + j = c
      <3>1. Begin(k) \in Nat /\ c \in Int
        BY <1>1, Tiles
      <3> QED
        BY <2>1, <3>1
    <2> HIDE DEF j
    <2>3. R[c] = RowMajor(PartOf(s, k))[j]
      BY <1>4, <2>2
    <2>4. RowMajor(PartOf(s, k))[j] = RowMajor(s)[Begin(k) + j]
      BY <1>1, <1>2, <1>6, <2>2, PartInOrder
    <2> QED
      BY <2>2, <2>3, <2>4
  <1>8. RowMajor(s) = [c \in 1..N |-> RowMajor(s)[c]]
    BY DEF RowMajor
  <1>9. R = RowMajor(s)
    <2> HIDE DEF N
    <2> QED
      BY <1>3, <1>7, <1>8
  <1> QED
    BY <1>1, <1>2, <1>9 DEF InOrder, s

(***************************************************************************)
(* The theorems of the plan                                                *)
(***************************************************************************)

\* The plan of a read, as RV_dataset_read builds it transfer by transfer:
\* what each server is asked for and where in which buffer its answer goes.
THEOREM PlanInvariant == RPSpec => []PlanInv
  BY PlanInit, PlanNext, PTL DEF RPSpec

\* The parts splitRangeAndGetInfo cuts for a dataset make up its range, at
\* every return of it in every call of RV_dataset_read.
THEOREM PlanCovers == RPSpec => []PartsCover
  <1>1. PlanInv => PartsCover
    BY PartsCoverNow DEF PlanInv
  <1> QED
    BY <1>1, PlanInvariant, PTL

\* No server is asked for more indices than another by more than one.
THEOREM PlanBalances == RPSpec => []PartsBalanced
  <1>1. PlanInv => PartsBalanced
    BY PartsBalancedNow DEF PlanInv
  <1> QED
    BY <1>1, PlanInvariant, PTL

\* The write callback copies without looking at the size, and stores a '\0'
\* behind the data.  The data of every answer to a selection end at the latest
\* where the part of the next one begins, and the last at the latest where the
\* memory RV_dataset_read allocated does, if an element is not larger in the
\* file than in memory: the memory is allocated for elements of the memory
\* type, the servers answer with elements of the file's.
THEOREM PlanFits ==
    ASSUME FileTypeSize <= MemTypeSize PROVE RPSpec => []OnlyTerminatorBehind
  <1>1. PlanInv => OnlyTerminatorBehind
    BY FitsNow
  <1> QED
    BY <1>1, PlanInvariant, PTL

\* The caller receives each element of a contiguous selection, and nothing
\* else.  Several servers' answers meet without a gap only if an element has
\* the same size in the file and in memory: the places are computed with the
\* size in memory.
THEOREM PlanOnce ==
    ASSUME n = 1 \/ FileTypeSize = MemTypeSize PROVE RPSpec => []EachElementOnce
  <1>1. PlanInv => EachElementOnce
    BY OnceNow
  <1> QED
    BY <1>1, PlanInvariant, PTL

\* It receives them in the order of the selection, if every dimension before
\* the one that was cut contributes one index.
THEOREM PlanInOrder ==
    ASSUME FileTypeSize = MemTypeSize PROVE RPSpec => []OuterCutInOrder
  <1>1. PlanInv => OuterCutInOrder
    BY OuterNow
  <1> QED
    BY <1>1, PlanInvariant, PTL
=============================================================================
