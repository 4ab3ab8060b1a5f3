------------------------- MODULE AuditRetentionProofs -------------------------
(***************************************************************************)
(* Proofs about AuditRetention: its type invariant, that an event is kept  *)
(* for the whole of its retention, and that pruning never takes the        *)
(* partition from under an insertion, for every calendar, retention,       *)
(* number of events and number of pruners.                                 *)
(***************************************************************************)
EXTENDS AuditRetention, TLAPS

-----------------------------------------------------------------------------
(* The inductive invariant *)

\* A run drops only months all of whose days are old enough, also later in the run.
CutoffSound ==
  \A p \in Pruners : loop[p] = "dropping" =>
    \A m \in Months : m < cutoff[p] => \A d \in 1 .. Days[m] : OldEnough(m, d)

\* No event is from the future.
Born == \A e \in Events : bornM[e] <= month

IInv == TypeOK /\ CutoffSound /\ Born /\ EnsuredStays

-----------------------------------------------------------------------------
\* The month of AddDate, whatever the day: all that lies before it is old enough.
LEMMA CutoffIsSound ==
  ASSUME TypeOK, NEW m \in Months, m < CutoffMonth, NEW d \in 1 .. Days[m]
  PROVE  OldEnough(m, d)
<1>1. /\ month \in Nat /\ day \in Nat /\ m \in Nat /\ d \in Nat
      /\ Retention \in Nat \ {0} /\ Days[m] \in Nat
  BY RetentionAssumption DEF TypeOK, Months
<1>2. CASE m + Retention < month
  BY <1>2 DEF OldEnough
<1>3. CASE ~(m + Retention < month)
  <2>1. m = month - Retention /\ day > Days[m]
    BY <1>1, <1>3 DEF CutoffMonth
  <2> QED BY <1>1, <2>1 DEF OldEnough
<1> QED BY <1>2, <1>3

\* A month that is old enough is over.
LEMMA OldIsPast ==
  ASSUME IInv, NEW p \in Pruners, loop[p] = "dropping", NEW m \in Months, m < cutoff[p]
  PROVE  m < month
<1>1. 1 \in 1 .. Days[m]
  BY RetentionAssumption DEF Months
<1>2. OldEnough(m, 1)
  BY <1>1 DEF IInv, CutoffSound
<1> QED BY <1>2, RetentionAssumption DEF IInv, TypeOK, Months, OldEnough

\* The initial states satisfy the invariant.
LEMMA InitInv == Init => IInv
BY RetentionAssumption DEF Init, IInv, TypeOK, CutoffSound, Born, EnsuredStays, Months, EventSteps

\* The actions of events and queries keep the invariant.
LEMMA EventStep ==
  ASSUME IInv, NEW e \in Events, Ensure(e) \/ InsertEvent(e) \/ InsertFails(e)
  PROVE  IInv'
<1> USE DEF IInv
<1>1. TypeOK'
  <2>1. CASE Ensure(e)
    <3>1. month \in Months /\ day \in Nat /\ day \in 1 .. Days[month]
      BY RetentionAssumption DEF TypeOK
    <3>2. bornM' \in [Events -> Months] /\ bornD' \in [Events -> Nat]
      BY <2>1, <3>1 DEF TypeOK, Ensure
    <3>3. \A q \in Events : bornD'[q] \in 1 .. Days[bornM'[q]]
      BY <2>1, <3>1 DEF TypeOK, Ensure
    <3>4. est' \in [Events -> EventSteps] /\ parts' \subseteq Months
      BY <2>1, <3>1 DEF TypeOK, Ensure, EventSteps
    <3>5. \A q \in Events : est'[q] = "stored" => bornM'[q] \in parts'
      BY <2>1 DEF TypeOK, Ensure
    <3> QED BY <2>1, <3>2, <3>3, <3>4, <3>5 DEF TypeOK, Ensure, today, prune
  <2>2. CASE InsertEvent(e) \/ InsertFails(e)
    BY <2>2 DEF TypeOK, InsertEvent, InsertFails, today, prune, EventSteps
  <2> QED BY <2>1, <2>2
<1>2. CutoffSound'
  BY DEF CutoffSound, OldEnough, Ensure, InsertEvent, InsertFails, today, prune
<1>3. Born'
  BY DEF TypeOK, Born, Ensure, InsertEvent, InsertFails, today, Months
<1>4. EnsuredStays'
  BY DEF TypeOK, EnsuredStays, Ensure, InsertEvent, InsertFails, today, EventSteps
<1> QED BY <1>1, <1>2, <1>3, <1>4

\* A partition made for a query keeps the invariant.
LEMMA QueryStep ==
  ASSUME IInv, NEW m \in Months, QueryEnsures(m)
  PROVE  IInv'
BY DEF IInv, TypeOK, CutoffSound, OldEnough, Born, EnsuredStays, QueryEnsures, today, events, prune

\* The start of a run keeps the invariant.
LEMMA PruneStartStep ==
  ASSUME IInv, NEW p \in Pruners, PruneStart(p)
  PROVE  IInv'
<1> USE DEF IInv
<1>1. CutoffMonth \in Int
  BY RetentionAssumption DEF TypeOK, CutoffMonth, Months
<1>2. TypeOK'
  BY <1>1 DEF TypeOK, PruneStart, today, events
<1>3. CutoffSound'
  <2> SUFFICES ASSUME NEW q \in Pruners, loop'[q] = "dropping", NEW m \in Months, m < cutoff'[q],
                      NEW d \in 1 .. Days[m]
               PROVE  OldEnough(m, d)
    BY DEF CutoffSound, OldEnough, PruneStart, today
  <2>1. CASE q = p
    BY <2>1, CutoffIsSound DEF TypeOK, PruneStart
  <2>2. CASE q # p
    BY <2>2 DEF TypeOK, CutoffSound, PruneStart
  <2> QED BY <2>1, <2>2
<1>4. Born' /\ EnsuredStays'
  BY DEF Born, EnsuredStays, PruneStart, today, events
<1> QED BY <1>2, <1>3, <1>4

\* What becomes of one partition in a run keeps the invariant.
LEMMA DropStep ==
  ASSUME IInv, NEW p \in Pruners, NEW m \in Months, DropOld(p, m)
  PROVE  IInv'
<1> USE DEF IInv
<1>1. TypeOK'
  <2>1. est' \in [Events -> EventSteps] /\ parts' \subseteq Months
    BY DEF TypeOK, DropOld, WithoutMonth, EventSteps
  <2>2. \A e \in Events : est'[e] = "stored" => bornM[e] \in parts'
    BY DEF TypeOK, DropOld, WithoutMonth
  <2> QED BY <2>1, <2>2 DEF TypeOK, DropOld, today
<1>2. CutoffSound' /\ Born'
  BY DEF CutoffSound, OldEnough, Born, DropOld, today
<1>3. EnsuredStays'
  <2>1. \A e \in Events : est'[e] = "ensured" => est[e] = "ensured"
    BY DEF TypeOK, DropOld, WithoutMonth
  <2>2. month \in parts => month \in parts'
    BY OldIsPast DEF TypeOK, DropOld, Months
  <2> QED BY <2>1, <2>2 DEF EnsuredStays, DropOld, today
<1> QED BY <1>1, <1>2, <1>3

\* The end of a run keeps the invariant.
LEMMA PruneEndStep ==
  ASSUME IInv, NEW p \in Pruners, PruneEnd(p)
  PROVE  IInv'
<1> USE DEF IInv
<1>1. TypeOK'
  BY DEF TypeOK, PruneEnd, today, events
<1>2. CutoffSound' /\ Born' /\ EnsuredStays'
  BY DEF TypeOK, CutoffSound, OldEnough, Born, EnsuredStays, PruneEnd, today, events
<1> QED BY <1>1, <1>2

\* The next day keeps the invariant: what is old enough stays so.
LEMMA NextDayStep ==
  ASSUME IInv, NextDay
  PROVE  IInv'
<1> USE DEF IInv
<1>1. /\ month \in Nat \ {0} /\ day \in Nat /\ month <= LastMonth /\ day <= Days[month]
      /\ LastMonth \in Nat /\ Retention \in Nat
      /\ \A m \in Months : m \in Nat /\ Days[m] \in Nat \ {0}
  BY RetentionAssumption DEF TypeOK, Months
<1>2. \/ day < Days[month] /\ day' = day + 1 /\ month' = month
      \/ day = Days[month] /\ month < LastMonth /\ day' = 1 /\ month' = month + 1
  BY DEF NextDay
<1>3. month' \in Months /\ day' \in 1 .. Days[month']
  <2>1. month' \in Months
    BY <1>1, <1>2 DEF Months
  <2>2. Days[month'] \in Nat \ {0}
    BY <1>1, <2>1
  <2> QED BY <1>1, <1>2, <2>1, <2>2
<1>4. TypeOK'
  BY <1>3 DEF TypeOK, NextDay, events, prune
<1>5. ASSUME NEW m \in Months, NEW d \in 1 .. Days[m], OldEnough(m, d)
      PROVE  OldEnough(m, d)'
  <2>1. m \in Nat /\ d \in Nat
    BY <1>1
  <2>2. CASE m + Retention < month
    BY <1>1, <1>2, <2>1, <2>2 DEF OldEnough
  <2>3. CASE m + Retention = month /\ (day >= d \/ day = Days[month])
    BY <1>1, <1>2, <2>1, <2>3 DEF OldEnough
  <2> QED BY <1>5, <2>2, <2>3 DEF OldEnough
<1>6. CutoffSound'
  BY <1>5 DEF CutoffSound, NextDay, prune
<1>7. Born' /\ EnsuredStays'
  <2>1. \A e \in Events : bornM[e] \in Nat /\ bornM[e] <= month
    BY <1>1 DEF TypeOK, Born
  <2> QED BY <1>1, <1>2, <2>1 DEF Born, EnsuredStays, NextDay, events
<1> QED BY <1>4, <1>6, <1>7

-----------------------------------------------------------------------------
(* The theorems *)

\* Every step keeps the invariant.
LEMMA StepInv == IInv /\ [Next]_vars => IInv'
<1> SUFFICES ASSUME IInv, [Next]_vars
             PROVE  IInv'
  OBVIOUS
<1>1. CASE UNCHANGED vars
  BY <1>1 DEF vars, IInv, TypeOK, CutoffSound, OldEnough, Born, EnsuredStays
<1>2. ASSUME NEW e \in Events, Ensure(e) \/ InsertEvent(e) \/ InsertFails(e)
      PROVE  IInv'
  BY <1>2, EventStep
<1>3. ASSUME NEW m \in Months, QueryEnsures(m)
      PROVE  IInv'
  BY <1>3, QueryStep
<1>4. ASSUME NEW p \in Pruners, PruneStart(p) \/ PruneEnd(p) \/ \E m \in Months : DropOld(p, m)
      PROVE  IInv'
  BY <1>4, PruneStartStep, PruneEndStep, DropStep
<1>5. CASE NextDay
  BY <1>5, NextDayStep
<1> QED BY <1>1, <1>2, <1>3, <1>4, <1>5 DEF Next

\* IInv holds in every state of every behaviour.
LEMMA Invariant == Spec => []IInv
BY InitInv, StepInv, PTL DEF Spec

\* Every variable of the retention loop has its type, and a stored event its partition.
THEOREM TypeCorrect == Spec => []TypeOK
BY Invariant, PTL DEF IInv

\* Pruning never takes the partition from under an insertion of the same month.
THEOREM InsertionsAreSafe == Spec => []EnsuredStays
BY Invariant, PTL DEF IInv

\* An event is kept for the whole of its retention, in every calendar.
THEOREM RetentionIsKept == Spec => KeptLongEnough
<1>1. IInv /\ [Next]_vars =>
        [\A e \in Events : est[e] = "stored" /\ est'[e] = "dropped" =>
           OldEnough(bornM[e], bornD[e])]_vars
  <2> SUFFICES ASSUME IInv, Next, NEW e \in Events, est[e] = "stored", est'[e] = "dropped"
               PROVE  OldEnough(bornM[e], bornD[e])
    OBVIOUS
  <2>1. PICK p \in Pruners, m \in Months : DropOld(p, m)
    BY DEF Next, NextDay, Ensure, InsertEvent, InsertFails, QueryEnsures, PruneStart, PruneEnd,
       events, IInv, TypeOK, EventSteps
  <2>2. bornM[e] = m /\ m < cutoff[p] /\ loop[p] = "dropping"
    BY <2>1 DEF DropOld, WithoutMonth, IInv, TypeOK
  <2> QED BY <2>2 DEF IInv, CutoffSound, TypeOK
<1> QED BY <1>1, Invariant, PTL DEF Spec, KeptLongEnough
=============================================================================
