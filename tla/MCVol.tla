-------------------------------- MODULE MCVol --------------------------------
EXTENDS Vol, TLC

Symmetry == Permutations(Slots) \cup Permutations(Names)

(* What the next step depends on: the history of the latest call is only   *)
(* looked at by action properties, which are checked on every step.        *)
View == <<curl, headers, heap, open, iter, failed, rehomed>>
==============================================================================
