---------------------------- MODULE MCCurlMulti ----------------------------
(* Model-checking instances of CurlMulti: one loop over two datasets where   *)
(* everything may go wrong, or three loops on one buffer where errors happen. *)
EXTENDS CurlMulti

OneLoop    == [nodes |-> 1, datasets |-> 2, faults |-> FaultKinds]
ThreeLoops == [nodes |-> 3, datasets |-> 1, faults |-> {"error"}]
MCSettings == {OneLoop, ThreeLoops}

\* Only denials.
MCDenied == {[OneLoop EXCEPT !.faults = {"503"}]}
=============================================================================
