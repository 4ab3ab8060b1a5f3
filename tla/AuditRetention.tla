---------------------------- MODULE AuditRetention ----------------------------
(***************************************************************************)
(* How long audit-service keeps events.  Each month of audit_events is a   *)
(* partition; a loop drops the partitions older than AUDIT_RETENTION_MONTHS *)
(* with a cutoff it takes from the date (time.AddDate, which carries a day *)
(* the target month lacks into the month after it), while events are       *)
(* inserted and queries of the log create partitions, old ones included.   *)
(*                                                                         *)
(* A date is a month and a day of it.  How two handlers race to create the *)
(* same partition is in AuditTrail.                                        *)
(***************************************************************************)
EXTENDS Integers

CONSTANTS
  Events,
  Pruners,    \* the replicas of audit-service, each with its loop
  LastMonth,  \* bound: the clock stops at the end of it
  Days,       \* the number of days of each month
  Retention   \* AUDIT_RETENTION_MONTHS; 0 disables the loop

Months == 1 .. LastMonth

\* A day that a month lacks is a day of the next one, as in every calendar.
ASSUME RetentionAssumption ==
  /\ LastMonth \in Nat \ {0} /\ Retention \in Nat \ {0}
  /\ Days \in [Months -> Nat \ {0}]
  /\ \A m, n \in Months : n < LastMonth => Days[m] - Days[n] <= Days[n + 1]

VARIABLES
  month, day, \* today
  parts,      \* the months with a partition
  est,        \* an event: not there yet, its partition ensured, stored, ...
  bornM, bornD, \* its created_at: month and day
  loop,       \* a pruner: waiting for its ticker, or dropping
  cutoff,     \* the first month it keeps
  todo        \* the partitions it has read from pg_inherits and not looked at

today  == <<month, day>>
events == <<est, bornM, bornD>>
prune  == <<loop, cutoff, todo>>
vars   == <<month, day, parts, est, bornM, bornD, loop, cutoff, todo>>

EventSteps == {"new", "ensured", "stored", "refused", "dropped"}

Init ==
  /\ month = 1 /\ day = 1 /\ parts = {1, 2} \cap Months
  /\ est = [e \in Events |-> "new"]
  /\ bornM = [e \in Events |-> 1] /\ bornD = [e \in Events |-> 1]
  /\ loop = [p \in Pruners |-> "waiting"]
  /\ cutoff = [p \in Pruners |-> 0] /\ todo = [p \in Pruners |-> {}]

-----------------------------------------------------------------------------
(* Events and queries *)

\* Insert takes the time, and EnsureForTime sees to the partition of the month.
Ensure(e) ==
  /\ est[e] = "new"
  /\ est' = [est EXCEPT ![e] = "ensured"]
  /\ bornM' = [bornM EXCEPT ![e] = month] /\ bornD' = [bornD EXCEPT ![e] = day]
  /\ parts' = parts \cup {month}
  /\ UNCHANGED <<today, prune>>

\* The INSERT, an arbitrary time later: without a partition it is an error.
InsertEvent(e) ==
  /\ est[e] = "ensured"
  /\ est' = [est EXCEPT ![e] = IF bornM[e] \in parts THEN "stored" ELSE "refused"]
  /\ UNCHANGED <<today, parts, bornM, bornD, prune>>

\* The INSERT fails for another reason.
InsertFails(e) ==
  /\ est[e] = "ensured"
  /\ est' = [est EXCEPT ![e] = "refused"]
  /\ UNCHANGED <<today, parts, bornM, bornD, prune>>

\* One step of EnsureRange for a query of the log: its dates may be any.
QueryEnsures(m) ==
  /\ parts' = parts \cup {m}
  /\ UNCHANGED <<today, events, prune>>

-----------------------------------------------------------------------------
(* PruneOldPartitions *)

\* For comparison: the day is left out of the cutoff and the month is one too late.
LateCutoffMonth == month - Retention + 1

\* The month of time.AddDate(0, -Retention, 0).
CutoffMonth ==
  LET target == month - Retention IN
  IF target \in Months /\ day > Days[target] THEN target + 1 ELSE target

\* The loop reads the clock and the names of the partitions.
PruneStart(p) ==
  /\ loop[p] = "waiting"
  /\ loop' = [loop EXCEPT ![p] = "dropping"]
  /\ cutoff' = [cutoff EXCEPT ![p] = CutoffMonth]
  /\ todo' = [todo EXCEPT ![p] = parts]
  /\ UNCHANGED <<today, parts, events>>

\* The events of a partition go with it.
WithoutMonth(m) ==
  [e \in Events |-> IF est[e] = "stored" /\ bornM[e] = m THEN "dropped" ELSE est[e]]

\* For comparison: the cutoff month goes too.
GreedyDrop(p, m) ==
  /\ loop[p] = "dropping" /\ m \in todo[p]
  /\ todo' = [todo EXCEPT ![p] = @ \ {m}]
  /\ IF m <= cutoff[p]
     THEN parts' = parts \ {m} /\ est' = WithoutMonth(m)
     ELSE UNCHANGED <<parts, est>>
  /\ UNCHANGED <<today, bornM, bornD, loop, cutoff>>

\* For comparison: only the month that has just passed the cutoff is dropped.
NarrowDrop(p, m) ==
  /\ loop[p] = "dropping" /\ m \in todo[p]
  /\ todo' = [todo EXCEPT ![p] = @ \ {m}]
  /\ IF m = cutoff[p] - 1
     THEN parts' = parts \ {m} /\ est' = WithoutMonth(m)
     ELSE UNCHANGED <<parts, est>>
  /\ UNCHANGED <<today, bornM, bornD, loop, cutoff>>

\* One partition of the list: DROP TABLE IF EXISTS when it is before the cutoff.
DropOld(p, m) ==
  /\ loop[p] = "dropping" /\ m \in todo[p]
  /\ todo' = [todo EXCEPT ![p] = @ \ {m}]
  /\ IF m < cutoff[p]
     THEN parts' = parts \ {m} /\ est' = WithoutMonth(m)
     ELSE UNCHANGED <<parts, est>>
  /\ UNCHANGED <<today, bornM, bornD, loop, cutoff>>

\* The list is done, or a statement failed: the loop waits for its ticker.
PruneEnd(p) ==
  /\ loop[p] = "dropping"
  /\ loop' = [loop EXCEPT ![p] = "waiting"]
  /\ todo' = [todo EXCEPT ![p] = {}]
  /\ UNCHANGED <<today, parts, events, cutoff>>

-----------------------------------------------------------------------------
NextDay ==
  /\ \/ day < Days[month] /\ day' = day + 1 /\ UNCHANGED month
     \/ day = Days[month] /\ month < LastMonth /\ day' = 1 /\ month' = month + 1
  /\ UNCHANGED <<parts, events, prune>>

Next ==
  \/ NextDay
  \/ \E e \in Events : Ensure(e) \/ InsertEvent(e) \/ InsertFails(e)
  \/ \E m \in Months : QueryEnsures(m)
  \/ \E p \in Pruners : \/ PruneStart(p) \/ PruneEnd(p)
                        \/ \E m \in Months : DropOld(p, m)

\* Time passes, the ticker of a loop fires and its run ends; a DROP that is due again
\* and again succeeds at last.
Fairness ==
  /\ WF_vars(NextDay)
  /\ \A p \in Pruners :
       /\ WF_vars(PruneStart(p)) /\ WF_vars(PruneEnd(p))
       /\ \A m \in Months : SF_vars(DropOld(p, m))

Spec == Init /\ [][Next]_vars /\ Fairness

-----------------------------------------------------------------------------
(* Properties *)

\* Every variable has its type, a date is one of the calendar, and a stored event is
\* in a partition.
TypeOK ==
  /\ month \in Months /\ day \in 1 .. Days[month] /\ parts \subseteq Months
  /\ est \in [Events -> EventSteps] /\ bornM \in [Events -> Months]
  /\ bornD \in [Events -> Nat] /\ \A e \in Events : bornD[e] \in 1 .. Days[bornM[e]]
  /\ loop \in [Pruners -> {"waiting", "dropping"}]
  /\ cutoff \in [Pruners -> Int] /\ todo \in [Pruners -> SUBSET Months]
  /\ \A e \in Events : est[e] = "stored" => bornM[e] \in parts

\* An event of this date is Retention months old: the same day of the month, or the
\* last one of a shorter month, has come.
OldEnough(m, d) ==
  \/ m + Retention < month
  \/ m + Retention = month /\ (day >= d \/ day = Days[month])

\* An event is kept for the whole of its retention, whatever AddDate does with the
\* last days of a month, and however runs of the loop overlap inserts, queries and
\* the passing of time (CutoffMonth is taken at the start of a run).
KeptLongEnough ==
  [][\A e \in Events : est[e] = "stored" /\ est'[e] = "dropped" =>
       OldEnough(bornM[e], bornD[e])]_vars

\* Pruning never takes the partition from under an insertion of the same month.
EnsuredStays ==
  \A e \in Events : est[e] = "ensured" /\ bornM[e] = month => month \in parts

\* Nothing is kept for ever: an event whose month is more than Retention months back
\* is dropped, though queries create partitions and runs fail.
OldEventsGo ==
  \A e \in Events : (est[e] = "stored" /\ bornM[e] + Retention < month) ~> est[e] = "dropped"
=============================================================================
