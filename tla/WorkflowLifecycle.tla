-------------------------- MODULE WorkflowLifecycle --------------------------
(***************************************************************************)
(* What the workflow service promises about one approval request, apart    *)
(* from how its handlers reach the database: a request is opened, goes     *)
(* under review, leaves the review by exactly one decision, and is either  *)
(* closed by it or opened again for another round.  It may be removed, and *)
(* what is removed never comes back.                                       *)
(***************************************************************************)
EXTENDS Naturals

CONSTANT Workflows

VARIABLES phase,   \* where each workflow stands
          rounds   \* how many times it has been put under review

lifecycleVars == <<phase, rounds>>

Phases == {"none", "open", "review", "closed", "gone"}

LifecycleInit ==
  /\ phase \in [Workflows -> {"none", "open"}]
  /\ rounds = [w \in Workflows |-> 0]

Move(w, from, to) ==
  /\ phase[w] \in from
  /\ phase' = [phase EXCEPT ![w] = to]

Open(w)   == Move(w, {"none"}, "open") /\ UNCHANGED rounds
Review(w) == Move(w, {"open"}, "review") /\ rounds' = [rounds EXCEPT ![w] = @ + 1]
Reopen(w) == Move(w, {"review"}, "open") /\ UNCHANGED rounds
Close(w)  == Move(w, {"review"}, "closed") /\ UNCHANGED rounds
Remove(w) == Move(w, {"open", "review", "closed"}, "gone") /\ UNCHANGED rounds

LifecycleNext ==
  \E w \in Workflows : Open(w) \/ Review(w) \/ Reopen(w) \/ Close(w) \/ Remove(w)

LifecycleSpec == LifecycleInit /\ [][LifecycleNext]_lifecycleVars
=============================================================================
