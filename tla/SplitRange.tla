----------------------------- MODULE SplitRange -----------------------------
(***************************************************************************)
(* splitRangeAndGetInfo of src/src/vol-rest/src/rest_vol_dataset.c: cut    *)
(* the range offset..count of one dimension into n consecutive parts, one  *)
(* per server node, whose lengths differ by at most one.  The loop is a    *)
(* state machine, one step per turn, so that what it computes for every n  *)
(* and every range is an invariant.                                        *)
(***************************************************************************)
EXTENDS Integers

CONSTANTS n               \* the number of parts (ServerNodeNum)

ASSUME nAssumption == n \in Nat \ {0}

VARIABLES offset, count,  \* of the dimension, as they are on entry
          sum,            \* how many elements one step of the dimension has
          i, currentStart,
          starts, ends,   \* what part k asks for: starts[k]..ends[k]-1
          Node_Size       \* how many elements part k has

splitVars == <<offset, count, sum, i, currentStart, starts, ends, Node_Size>>

Parts == 0..(n - 1)
Zero  == [k \in Parts |-> 0]

rangeSize         == count - offset
elementsPerPart   == rangeSize \div n
remainingElements == rangeSize % n

\* The call: a selection of at least one element in every dimension.
SplitBegin(lo, hi, s) == /\ offset' = lo /\ count' = hi /\ sum' = s
                         /\ i' = 0 /\ currentStart' = lo
                         /\ UNCHANGED <<starts, ends, Node_Size>>

\* Faulty variant: the remainder is dropped.
ElementsNoRemainder == elementsPerPart

\* Faulty variant: the first part takes the whole remainder.
ElementsFirstTakesAll == IF i = 0 THEN elementsPerPart + remainingElements
                                  ELSE elementsPerPart

\* Faulty variant: every part is rounded up.
ElementsRoundedUp == elementsPerPart + 1

elementsInThisPart == IF i < remainingElements THEN elementsPerPart + 1
                                               ELSE elementsPerPart

\* Faulty variant: sizes are computed before the remainder is added.
SplitStepSizeShort == LET currentEnd == currentStart + elementsInThisPart
                      IN  /\ i < n
                          /\ starts' = [starts EXCEPT ![i] = currentStart]
                          /\ ends' = [ends EXCEPT ![i] = currentEnd]
                          /\ Node_Size' = [Node_Size EXCEPT
                                             ![i] = elementsPerPart * sum]
                          /\ currentStart' = currentEnd
                          /\ i' = i + 1
                          /\ UNCHANGED <<offset, count, sum>>

\* Faulty variant: one turn too many (<= for <).
SplitStepOneMore == LET currentEnd == currentStart + elementsInThisPart
                    IN  /\ i <= n
                        /\ starts' = [starts EXCEPT ![i] = currentStart]
                        /\ ends' = [ends EXCEPT ![i] = currentEnd]
                        /\ Node_Size' = [Node_Size EXCEPT
                                           ![i] = (currentEnd - currentStart) * sum]
                        /\ currentStart' = currentEnd
                        /\ i' = i + 1
                        /\ UNCHANGED <<offset, count, sum>>

\* One turn of the loop.
SplitStep == LET currentEnd == currentStart + elementsInThisPart
             IN  /\ i < n
                 /\ starts' = [starts EXCEPT ![i] = currentStart]
                 /\ ends' = [ends EXCEPT ![i] = currentEnd]
                 /\ Node_Size' = [Node_Size EXCEPT
                                    ![i] = (currentEnd - currentStart) * sum]
                 /\ currentStart' = currentEnd
                 /\ i' = i + 1
                 /\ UNCHANGED <<offset, count, sum>>

\* The function on its own: any range, any number of elements per step.
SplitInit == /\ offset \in Nat /\ count \in Nat /\ offset <= count
             /\ sum \in Nat
             /\ i = 0 /\ currentStart = offset
             /\ starts = Zero /\ ends = Zero /\ Node_Size = Zero

SplitSpec == SplitInit /\ [][SplitStep]_splitVars

(***************************************************************************)
(* Properties                                                              *)
(***************************************************************************)
SplitTypeOK == /\ offset \in Nat /\ count \in Nat /\ offset <= count
               /\ sum \in Nat
               /\ i \in 0..n /\ currentStart \in Nat
               /\ starts \in [Parts -> Nat] /\ ends \in [Parts -> Nat]
               /\ Node_Size \in [Parts -> Nat]

\* When the loop has ended, the parts are consecutive and cover the range:
\* no element of the selection is asked for twice and none is left out.
PartsCover == i = n => /\ starts[0] = offset
                       /\ ends[n - 1] = count
                       /\ \A k \in Parts : k > 0 => starts[k] = ends[k - 1]

\* No node gets more than one step of the dimension more than another.
PartsBalanced == i = n => \A k, m \in Parts :
                            ends[k] - starts[k] <= ends[m] - starts[m] + 1

\* What is allocated for a part is what the part asks for.
SizesMatch == i = n => \A k \in Parts :
                         Node_Size[k] = (ends[k] - starts[k]) * sum
=============================================================================
