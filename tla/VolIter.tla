------------------------------- MODULE VolIter -------------------------------
(***************************************************************************)
(* What the three iterations have in common: H5Literate/H5Lvisit,          *)
(* H5Aiterate and H5Ovisit run the application's function in the middle of *)
(* a callback, and that function may call the connector again.  One        *)
(* iteration is in progress at a time.                                     *)
(***************************************************************************)
EXTENDS Session

(* The callback up to the first call of the application's function.        *)
Starts(k, S, f) ==
  /\ iter = NoIter
  /\ \E s \in S :
       /\ Return(s)
       /\ iter' = IF s.ok
                    THEN [kind |-> k, at |-> s.got, host |-> s.heap[f].name, phase |-> 1,
                          dom |-> IF s.got = NoSlot THEN f ELSE s.heap[s.got].dom]
                    ELSE NoIter
  /\ UNCHANGED <<open, rehomed>>

(* The object the application's function is given goes with the iteration. *)
CloseIterObject(s) == IF iter.at = NoSlot THEN s ELSE CloseObj(s, iter.at)

(* It returned zero to the end, or a positive value: the clean-up runs.    *)
Finishes(k, Done(_)) ==
  /\ iter.kind = k
  /\ Return(Done(CloseIterObject(Begin)))
  /\ iter' = NoIter
  /\ UNCHANGED <<open, rehomed>>

(* It returned a negative value: the callback returns where it stands, and *)
(* the iteration object and its reference are never given back.            *)
Aborts(k) ==
  /\ iter.kind = k
  /\ Return(Error(IF iter.at = NoSlot THEN Begin
                                      ELSE [Begin EXCEPT !.heap[iter.at] = Freed]))
  /\ iter' = NoIter
  /\ UNCHANGED <<open, rehomed>>
==============================================================================
