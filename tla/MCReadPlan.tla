----------------------------- MODULE MCReadPlan -----------------------------
(* Model-checking instances of ReadPlan. *)
EXTENDS ReadPlan
=============================================================================
