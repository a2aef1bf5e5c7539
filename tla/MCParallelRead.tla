--------------------------- MODULE MCParallelRead ---------------------------
(* Model-checking instance of ParallelRead. *)
EXTENDS ParallelRead

MCTransfers == Transfers
=============================================================================
