----------------------------- MODULE MCWorkflow -----------------------------
(***************************************************************************)
(* Instances of Workflow for TLC.  Requests are interchangeable.           *)
(***************************************************************************)
EXTENDS Workflow, TLC

RequestSymmetry == Permutations(Requests)
=============================================================================
