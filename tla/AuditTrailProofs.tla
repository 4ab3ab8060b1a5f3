--------------------------- MODULE AuditTrailProofs ---------------------------
(***************************************************************************)
(* Proofs about the audit log, written and read.  AuditTrail: its type     *)
(* invariant, that mutations are recorded, that outcomes are true, that    *)
(* duplicates need a lost answer, that a race for a partition costs one    *)
(* retry, and that it implements AtLeastOnce, for any requests and months. *)
(* AuditLog: that a walk through its pages is whole, that an empty page    *)
(* means an empty log, and that the exported file is whole, for any log,   *)
(* filters and page size.                                                  *)
(***************************************************************************)
EXTENDS AuditTrail, AuditLog, FiniteSetTheorems, TLAPS

-----------------------------------------------------------------------------
(* The inductive invariant *)

\* An attempt is over for its task: it was not heard, or it was answered with an error.
Spent(r, t) == t \in unseen[r] \/ post[r][t] \in {"refused", "raced"}

\* The rows are the attempts answered "stored", and errors have their causes.
Ledger ==
  \A r \in Requests, t \in Tries :
    /\ t \in rows[r] <=> post[r][t] = "stored"
    /\ post[r][t] = "refused" => ~Storable(r)
    /\ post[r][t] = "error" => t \in unseen[r]
    /\ post[r][t] \in {"insert", "raced"} => stamp[r][t] \in parts

\* A task starts with its request's answer, has attempts left while it sends, is given
\* up after the third and ends with a stored attempt.
TaskShape ==
  \A r \in Requests :
    /\ rpc[r] \in {"idle", "inside", "served"} => task[r] = "none" /\ tries[r] = 0
    /\ task[r] = "send" => tries[r] < 3
    /\ task[r] = "wait" => tries[r] >= 1
    /\ task[r] = "ended" => tries[r] \in rows[r]
    /\ task[r] = "failed" => tries[r] = 3

\* Every attempt but the last is spent, and the last one once the task has moved on.
EarlierSpent ==
  \A r \in Requests : \A t \in Tries :
    /\ t < tries[r] => Spent(r, t)
    /\ t <= tries[r] /\ task[r] \in {"send", "failed"} => Spent(r, t)

\* After a lost race a later attempt of the same month is not about to create.
RaceSettled ==
  \A r \in Requests : \A t, u \in Tries :
    /\ t < u /\ post[r][t] = "raced" /\ post[r][u] \in {"create", "raced"}
    /\ t \notin unseen[r]
    => stamp[r][t] # stamp[r][u]

IInv == TypeOK /\ Ledger /\ TaskShape /\ EarlierSpent /\ RaceSettled

-----------------------------------------------------------------------------
\* The initial states satisfy the invariant.
LEMMA InitInv == Init => IInv
BY AuditAssumption DEF Init, IInv, TypeOK, Ledger, TaskShape, EarlierSpent, RaceSettled,
   Months, Tries, Rpcs, Tasks, Steps, Spent

\* Whatever happens to a request before its event is emitted keeps the invariant.
LEMMA RequestStep ==
  ASSUME IInv, NEW r \in Requests, Request(r)
  PROVE  IInv'
<1> USE DEF IInv
<1>1. TypeOK'
  BY DEF TypeOK, Request, Arrive, Serve, Emit, Hangup, service, Rpcs, Tasks, Audited
<1>2. Ledger'
  BY DEF Ledger, Request, Arrive, Serve, Emit, Hangup, service, Storable
<1>3. TaskShape'
  BY DEF TypeOK, TaskShape, Request, Arrive, Serve, Emit, Hangup, service, Rpcs, Tasks, Audited
<1>4. EarlierSpent'
  <2>1. \A q, t : Spent(q, t) <=> Spent(q, t)'
    BY DEF Spent, Request, Arrive, Serve, Emit, Hangup, service
  <2>2. tries' = tries /\ \A q \in Requests : task'[q] = "send" => task[q] = "send" \/ tries[q] = 0
    BY DEF TypeOK, TaskShape, Request, Arrive, Serve, Emit, Hangup
  <2>3. \A q \in Requests : task'[q] = "failed" => task[q] = "failed"
    BY DEF TypeOK, Request, Arrive, Serve, Emit, Hangup
  <2> QED BY <2>1, <2>2, <2>3 DEF EarlierSpent, Tries
<1>5. RaceSettled'
  BY DEF RaceSettled, Request, Arrive, Serve, Emit, Hangup, service
<1> QED BY <1>1, <1>2, <1>3, <1>4, <1>5

\* The end of the gateway keeps the invariant.
LEMMA GatewayStopsStep ==
  ASSUME IInv, GatewayStops
  PROVE  IInv'
<1> USE DEF IInv
<1>1. TypeOK'
  BY DEF TypeOK, Ledger, TaskShape, GatewayStops, service, Tries, Tasks, Steps, Rpcs, Months
<1>2. Ledger'
  BY DEF TypeOK, Ledger, GatewayStops, service, Storable, Tries, Steps
<1>3. TaskShape'
  BY DEF TypeOK, Ledger, TaskShape, GatewayStops, service, Tries, Tasks, Rpcs
<1>4. EarlierSpent'
  BY DEF TypeOK, Ledger, TaskShape, EarlierSpent, Spent, GatewayStops, service, Tries, Tasks
<1>5. RaceSettled'
  BY DEF TypeOK, Ledger, EarlierSpent, RaceSettled, Spent, GatewayStops, service, Tries
<1> QED BY <1>1, <1>2, <1>3, <1>4, <1>5

\* The start of an attempt keeps the invariant.
LEMMA SendStep ==
  ASSUME IInv, NEW r \in Requests, Send(r)
  PROVE  IInv'
<1> USE DEF IInv
<1>1. TypeOK'
  BY DEF TypeOK, Ledger, TaskShape, Send, Tries, Tasks, Steps, Rpcs, Months
<1>2. Ledger'
  BY DEF TypeOK, Ledger, Send, Storable, Tries, Steps
<1>3. TaskShape'
  BY DEF TypeOK, Ledger, TaskShape, Send, Tries, Tasks, Rpcs
<1>4. EarlierSpent'
  BY DEF TypeOK, Ledger, TaskShape, EarlierSpent, Spent, Send, Tries, Tasks
<1>5. RaceSettled'
  BY DEF TypeOK, Ledger, EarlierSpent, RaceSettled, Spent, Send, Tries
<1> QED BY <1>1, <1>2, <1>3, <1>4, <1>5

\* An attempt that does not reach audit-service keeps the invariant.
LEMMA SendFailsStep ==
  ASSUME IInv, NEW r \in Requests, SendFails(r)
  PROVE  IInv'
<1> USE DEF IInv
<1>1. TypeOK'
  BY DEF TypeOK, Ledger, TaskShape, SendFails, Onwards, service, Tries, Tasks, Steps, Rpcs, Months
<1>2. Ledger'
  BY DEF TypeOK, Ledger, SendFails, Onwards, service, Storable, Tries, Steps
<1>3. TaskShape'
  BY DEF TypeOK, Ledger, TaskShape, SendFails, Onwards, service, Tries, Tasks, Rpcs
<1>4. EarlierSpent'
  <2>1. /\ tries' = [tries EXCEPT ![r] = tries[r] + 1] /\ tries[r] \in 0 .. 3
        /\ unseen' = [unseen EXCEPT ![r] = unseen[r] \cup {tries[r] + 1}] /\ post' = post
    BY DEF TypeOK, SendFails, service
  <2>2. \A q \in Requests, v \in Tries : Spent(q, v) => Spent(q, v)'
    BY <2>1 DEF TypeOK, Spent
  <2>3. \A v \in Tries : v <= tries'[r] => Spent(r, v)'
    <3> SUFFICES ASSUME NEW v \in Tries, v <= tries'[r] PROVE Spent(r, v)'
      OBVIOUS
    <3>1. CASE v = tries[r] + 1
      BY <2>1, <3>1 DEF TypeOK, Spent
    <3>2. CASE v # tries[r] + 1
      <4>1. v <= tries[r] /\ task[r] = "send"
        BY <2>1, <3>2 DEF TypeOK, Tries, SendFails
      <4> QED BY <2>2, <4>1 DEF EarlierSpent
    <3> QED BY <3>1, <3>2
  <2>4. \A q \in Requests \ {r} : tries'[q] = tries[q] /\ task'[q] = task[q]
    BY <2>1 DEF TypeOK, SendFails, Onwards
  <2>5. tries'[r] \in Nat
    BY <2>1 DEF TypeOK
  <2>6. ASSUME NEW q \in Requests, NEW t \in Tries
        PROVE  /\ t < tries'[q] => Spent(q, t)'
               /\ t <= tries'[q] /\ task'[q] \in {"send", "failed"} => Spent(q, t)'
    BY <2>2, <2>3, <2>4, <2>5 DEF EarlierSpent, Tries
  <2> QED BY <2>6 DEF EarlierSpent
<1>5. RaceSettled'
  BY DEF TypeOK, Ledger, EarlierSpent, RaceSettled, Spent, SendFails, Onwards, service, Tries
<1> QED BY <1>1, <1>2, <1>3, <1>4, <1>5

\* An answer that is heard keeps the invariant.
LEMMA HearStep ==
  ASSUME IInv, NEW r \in Requests, Hear(r)
  PROVE  IInv'
<1> USE DEF IInv
<1>1. TypeOK'
  <2>1. task' \in [Requests -> Tasks]
    BY DEF TypeOK, Hear, Onwards, Tasks
  <2> QED BY <2>1 DEF TypeOK, Hear, service
<1>2. Ledger'
  BY DEF TypeOK, Ledger, Hear, Onwards, Over, service, Storable, Tries, Steps
<1>3. TaskShape'
  BY DEF TypeOK, Ledger, TaskShape, Hear, Onwards, Over, service, Tries, Tasks, Rpcs
<1>4. EarlierSpent'
  BY DEF TypeOK, Ledger, TaskShape, EarlierSpent, Spent, Hear, Onwards, Over, service, Tries, Tasks
<1>5. RaceSettled'
  BY DEF TypeOK, Ledger, EarlierSpent, RaceSettled, Spent, Hear, Onwards, Over, service, Tries
<1> QED BY <1>1, <1>2, <1>3, <1>4, <1>5

\* A lost answer keeps the invariant.
LEMMA LoseStep ==
  ASSUME IInv, NEW r \in Requests, Lose(r)
  PROVE  IInv'
<1> USE DEF IInv
<1>1. TypeOK'
  BY DEF TypeOK, Ledger, TaskShape, Lose, Onwards, service, Tries, Tasks, Steps, Rpcs, Months
<1>2. Ledger'
  BY DEF TypeOK, Ledger, Lose, Onwards, service, Storable, Tries, Steps
<1>3. TaskShape'
  <2>1. /\ UNCHANGED <<rpc, rows, tries>> /\ task[r] = "wait"
        /\ task' = [task EXCEPT ![r] = IF tries[r] < 3 THEN "send" ELSE "failed"]
    BY DEF Lose, Onwards, service
  <2> SUFFICES ASSUME NEW q \in Requests
               PROVE  /\ rpc[q] \in {"idle", "inside", "served"} =>
                           task'[q] = "none" /\ tries[q] = 0
                      /\ task'[q] = "send" => tries[q] < 3
                      /\ task'[q] = "wait" => tries[q] >= 1
                      /\ task'[q] = "ended" => tries[q] \in rows[q]
                      /\ task'[q] = "failed" => tries[q] = 3
    BY <2>1 DEF TaskShape
  <2>2. CASE q = r
    <3>1. task'[r] = IF tries[r] < 3 THEN "send" ELSE "failed"
      BY <2>1 DEF TypeOK
    <3>2. tries[r] \in 0 .. 3 /\ rpc[r] \notin {"idle", "inside", "served"}
      BY <2>1 DEF TypeOK, TaskShape
    <3> QED BY <2>2, <3>1, <3>2
  <2>3. CASE q # r
    BY <2>1, <2>3 DEF TypeOK, TaskShape
  <2> QED BY <2>2, <2>3
<1>4. EarlierSpent'
  BY DEF TypeOK, Ledger, TaskShape, EarlierSpent, Spent, Lose, Onwards, service, Tries, Tasks
<1>5. RaceSettled'
  BY DEF TypeOK, Ledger, EarlierSpent, RaceSettled, Spent, Lose, Onwards, service, Tries
<1> QED BY <1>1, <1>2, <1>3, <1>4, <1>5

\* The check for a partition keeps the invariant.
LEMMA CheckStep ==
  ASSUME IInv, NEW r \in Requests, NEW t \in Tries, Check(r, t)
  PROVE  IInv'
<1> USE DEF IInv
<1>1. TypeOK'
  <2>1. PICK x \in Steps : post' = [post EXCEPT ![r][t] = x] /\ post[r][t] # "none"
    BY DEF Check, To, Steps
  <2>2. UNCHANGED stamp \/ stamp' = [stamp EXCEPT ![r][t] = month]
    BY DEF Check
  <2>3. post' \in [Requests -> [Tries -> Steps]]
    BY <2>1 DEF TypeOK
  <2>4. stamp' \in [Requests -> [Tries -> Months]]
    <3>1. CASE UNCHANGED stamp
      BY <3>1 DEF TypeOK
    <3>2. CASE stamp' = [stamp EXCEPT ![r][t] = month]
      <4>1. month \in Months /\ stamp \in [Requests -> [Tries -> Months]]
        BY DEF TypeOK
      <4>2. [stamp[r] EXCEPT ![t] = month] \in [Tries -> Months]
        BY <4>1
      <4> QED BY <3>2, <4>1, <4>2
    <3> QED BY <2>2, <3>1, <3>2
  <2>5. \A q \in Requests, v \in Tries : post'[q][v] # "none" => post[q][v] # "none"
    BY <2>1 DEF TypeOK
  <2>6. parts' \subseteq Months
    BY DEF TypeOK, Check
  <2> QED BY <2>3, <2>4, <2>5, <2>6 DEF TypeOK, Check, gateway
<1>2. Ledger'
  BY DEF TypeOK, Ledger, Check, To, gateway, Storable, Tries, Steps
<1>3. TaskShape'
  BY DEF TypeOK, Ledger, TaskShape, Check, To, gateway, Tries, Tasks, Rpcs
<1>4. EarlierSpent'
  <2>1. \A q \in Requests, v \in Tries : Spent(q, v) => Spent(q, v)'
    BY DEF TypeOK, Spent, Check, To
  <2> QED BY <2>1 DEF EarlierSpent, Check, gateway
<1>5. RaceSettled'
  BY DEF TypeOK, Ledger, EarlierSpent, RaceSettled, Spent, Check, To, gateway, Tries
<1> QED BY <1>1, <1>2, <1>3, <1>4, <1>5

\* The creation of a partition keeps the invariant.
LEMMA CreatePartitionStep ==
  ASSUME IInv, NEW r \in Requests, NEW t \in Tries, CreatePartition(r, t)
  PROVE  IInv'
<1> USE DEF IInv
<1>1. TypeOK'
  <2>1. PICK x \in Steps : post' = [post EXCEPT ![r][t] = x] /\ post[r][t] # "none"
    BY DEF CreatePartition, To, Steps
  <2>2. UNCHANGED stamp
    BY DEF CreatePartition
  <2>3. post' \in [Requests -> [Tries -> Steps]]
    BY <2>1 DEF TypeOK
  <2>4. stamp' \in [Requests -> [Tries -> Months]]
    BY <2>2 DEF TypeOK
  <2>5. \A q \in Requests, v \in Tries : post'[q][v] # "none" => post[q][v] # "none"
    BY <2>1 DEF TypeOK
  <2>6. parts' \subseteq Months
    BY DEF TypeOK, CreatePartition
  <2> QED BY <2>3, <2>4, <2>5, <2>6 DEF TypeOK, CreatePartition, gateway
<1>2. Ledger'
  BY DEF TypeOK, Ledger, CreatePartition, To, gateway, Storable, Tries, Steps
<1>3. TaskShape'
  BY DEF TypeOK, Ledger, TaskShape, CreatePartition, To, gateway, Tries, Tasks, Rpcs
<1>4. EarlierSpent'
  <2>1. PICK x \in Steps : post' = [post EXCEPT ![r][t] = x] /\ post[r][t] = "create"
    BY DEF CreatePartition, To, Steps
  <2>2. UNCHANGED unseen
    BY DEF CreatePartition
  <2>3. \A q \in Requests, v \in Tries : Spent(q, v) => Spent(q, v)'
    BY <2>1, <2>2 DEF TypeOK, Spent
  <2> QED BY <2>3 DEF EarlierSpent, CreatePartition, gateway
<1>5. RaceSettled'
  BY DEF TypeOK, Ledger, EarlierSpent, RaceSettled, Spent, CreatePartition, To, gateway, Tries
<1> QED BY <1>1, <1>2, <1>3, <1>4, <1>5

\* The insertion of an event keeps the invariant.
LEMMA InsertEventStep ==
  ASSUME IInv, NEW r \in Requests, NEW t \in Tries, InsertEvent(r, t)
  PROVE  IInv'
<1> USE DEF IInv
<1>1. TypeOK'
  BY DEF TypeOK, Ledger, TaskShape, InsertEvent, To, gateway, Tries, Tasks, Steps, Rpcs, Months
<1>2. Ledger'
  BY DEF TypeOK, Ledger, InsertEvent, To, gateway, Storable, Tries, Steps
<1>3. TaskShape'
  BY DEF TypeOK, Ledger, TaskShape, InsertEvent, To, gateway, Tries, Tasks, Rpcs
<1>4. EarlierSpent'
  BY DEF TypeOK, Ledger, TaskShape, EarlierSpent, Spent, InsertEvent, To, gateway, Tries, Tasks
<1>5. RaceSettled'
  BY DEF TypeOK, Ledger, EarlierSpent, RaceSettled, Spent, InsertEvent, To, gateway, Tries
<1> QED BY <1>1, <1>2, <1>3, <1>4, <1>5

\* The failure of a handler keeps the invariant.
LEMMA HandlerFailsStep ==
  ASSUME IInv, NEW r \in Requests, NEW t \in Tries, HandlerFails(r, t)
  PROVE  IInv'
<1> USE DEF IInv
<1>1. TypeOK'
  BY DEF TypeOK, Ledger, TaskShape, HandlerFails, To, gateway, Tries, Tasks, Steps, Rpcs, Months
<1>2. Ledger'
  BY DEF TypeOK, Ledger, HandlerFails, To, gateway, Storable, Tries, Steps
<1>3. TaskShape'
  BY DEF TypeOK, Ledger, TaskShape, HandlerFails, To, gateway, Tries, Tasks, Rpcs
<1>4. EarlierSpent'
  BY DEF TypeOK, Ledger, TaskShape, EarlierSpent, Spent, HandlerFails, To, gateway, Tries, Tasks
<1>5. RaceSettled'
  BY DEF TypeOK, Ledger, EarlierSpent, RaceSettled, Spent, HandlerFails, To, gateway, Tries
<1> QED BY <1>1, <1>2, <1>3, <1>4, <1>5

\* A partition created by others keeps the invariant.
LEMMA OthersCreateStep ==
  ASSUME IInv, NEW m \in Months, OthersCreate(m)
  PROVE  IInv'
<1> USE DEF IInv
<1>1. TypeOK'
  BY DEF TypeOK, Ledger, TaskShape, OthersCreate, gateway, Tries, Tasks, Steps, Rpcs, Months
<1>2. Ledger'
  BY DEF TypeOK, Ledger, OthersCreate, gateway, Storable, Tries, Steps
<1>3. TaskShape'
  BY DEF TypeOK, Ledger, TaskShape, OthersCreate, gateway, Tries, Tasks, Rpcs
<1>4. EarlierSpent'
  BY DEF TypeOK, Ledger, TaskShape, EarlierSpent, Spent, OthersCreate, gateway, Tries, Tasks
<1>5. RaceSettled'
  BY DEF TypeOK, Ledger, EarlierSpent, RaceSettled, Spent, OthersCreate, gateway, Tries
<1> QED BY <1>1, <1>2, <1>3, <1>4, <1>5

\* The passing of a month keeps the invariant.
LEMMA NextMonthStep ==
  ASSUME IInv, NextMonth
  PROVE  IInv'
<1> USE DEF IInv
<1>1. TypeOK'
  BY AuditAssumption DEF TypeOK, NextMonth, gateway, Months
<1>2. Ledger'
  BY DEF TypeOK, Ledger, NextMonth, gateway, Storable, Tries, Steps
<1>3. TaskShape'
  BY DEF TypeOK, Ledger, TaskShape, NextMonth, gateway, Tries, Tasks, Rpcs
<1>4. EarlierSpent'
  BY DEF TypeOK, Ledger, TaskShape, EarlierSpent, Spent, NextMonth, gateway, Tries, Tasks
<1>5. RaceSettled'
  BY DEF TypeOK, Ledger, EarlierSpent, RaceSettled, Spent, NextMonth, gateway, Tries
<1> QED BY <1>1, <1>2, <1>3, <1>4, <1>5

-----------------------------------------------------------------------------
(* The theorems *)

\* IInv holds in every state of every behaviour.
LEMMA Invariant == Spec => []IInv
<1>1. IInv /\ [Next]_vars => IInv'
  <2> SUFFICES ASSUME IInv, [Next]_vars
               PROVE  IInv'
    OBVIOUS
  <2>1. CASE UNCHANGED vars
    BY <2>1 DEF vars, IInv, TypeOK, Ledger, TaskShape, EarlierSpent, RaceSettled, Spent, Storable
  <2>2. ASSUME NEW r \in Requests, Request(r)
        PROVE  IInv'
    BY <2>2, RequestStep
  <2>3. ASSUME NEW r \in Requests, Attempt(r) \/ Hear(r) \/ Lose(r)
        PROVE  IInv'
    BY <2>3, SendStep, SendFailsStep, HearStep, LoseStep DEF Attempt
  <2>4. ASSUME NEW r \in Requests, NEW t \in Tries, Handle(r, t)
        PROVE  IInv'
    BY <2>4, CheckStep, CreatePartitionStep, InsertEventStep, HandlerFailsStep DEF Handle
  <2>5. ASSUME NEW m \in Months, OthersCreate(m)
        PROVE  IInv'
    BY <2>5, OthersCreateStep
  <2>6. CASE GatewayStops \/ NextMonth
    BY <2>6, GatewayStopsStep, NextMonthStep
  <2> QED BY <2>1, <2>2, <2>3, <2>4, <2>5, <2>6 DEF Next
<1> QED BY InitInv, <1>1, PTL DEF Spec

\* Every variable of the audit trail has its type.
THEOREM TypeCorrect == Spec => []TypeOK
BY Invariant, PTL DEF IInv

\* A task that ended has stored its event, and a storable event is given up only after
\* three attempts that failed, for any requests and months.
THEOREM OutcomesAreTrue == Spec => []OutcomeIsTrue
<1>1. IInv => OutcomeIsTrue
  <2> SUFFICES ASSUME IInv, NEW r \in Requests
               PROVE  /\ task[r] = "ended" => tries[r] \in rows[r]
                      /\ task[r] = "failed" /\ Storable(r) =>
                           \A t \in Tries : t \in unseen[r] \/ post[r][t] = "raced"
    BY DEF OutcomeIsTrue
  <2>1. task[r] = "ended" => tries[r] \in rows[r]
    BY DEF IInv, TaskShape
  <2>2. ASSUME task[r] = "failed", Storable(r), NEW t \in Tries
        PROVE  t \in unseen[r] \/ post[r][t] = "raced"
    <3>1. Spent(r, t)
      BY <2>2 DEF IInv, TaskShape, EarlierSpent, Tries
    <3> QED BY <2>2, <3>1 DEF IInv, Ledger, Spent
  <2> QED BY <2>1, <2>2
<1> QED BY <1>1, Invariant, PTL

\* A retry stores an event again only after a lost answer, and losing the race for a
\* partition costs an event one retry in a month.
THEOREM RetriesAreSound == Spec => [](DuplicatesNeedLoss /\ RaceCostsOneRetry)
<1>1. IInv => DuplicatesNeedLoss
  BY DEF IInv, TypeOK, Ledger, EarlierSpent, Spent, DuplicatesNeedLoss, Tries
<1>2. IInv => RaceCostsOneRetry
  BY DEF IInv, RaceSettled, RaceCostsOneRetry
<1> QED BY <1>1, <1>2, Invariant, PTL
-----------------------------------------------------------------------------
(* What becomes of a mutation *)

\* Only mutations take effect, and an audited request that has been answered has its task.
Emitted ==
  \A r \in Requests :
    /\ r \in applied => kind[r] = "mutation"
    /\ rpc[r] = "answered" /\ Audited(r) => task[r] # "none"

\* The steps of a request keep this: the answer and the task come in one step.
LEMMA EmittedByRequest ==
  ASSUME TypeOK, Emitted, NEW r \in Requests, Request(r)
  PROVE  Emitted'
<1> USE DEF TypeOK, Emitted, Audited
<1>1. CASE Arrive(r) \/ Hangup(r)
  BY <1>1 DEF Arrive, Hangup
<1>2. CASE Serve(r)
  BY <1>2 DEF Serve
<1>3. CASE Emit(r)
  BY <1>3 DEF Emit
<1> QED BY <1>1, <1>2, <1>3 DEF Request

\* So do the steps of a task, which has begun and never goes back to "none".
LEMMA EmittedByTask ==
  ASSUME TypeOK, Emitted, NEW r \in Requests, Attempt(r) \/ Hear(r) \/ Lose(r)
  PROVE  Emitted'
<1>1. PICK t \in Tasks \ {"none"} : task' = [task EXCEPT ![r] = t]
  BY DEF TypeOK, Attempt, Send, SendFails, Hear, Lose, Onwards, Tasks
<1>2. UNCHANGED <<rpc, kind, applied>>
  BY DEF Attempt, Send, SendFails, Hear, Lose, service
<1> QED BY <1>1, <1>2 DEF TypeOK, Emitted, Audited

\* And so does every step.
LEMMA EmittedStep ==
  ASSUME TypeOK, Emitted, [Next]_vars
  PROVE  Emitted'
<1>1. ASSUME NEW r \in Requests, NEW t \in Tries, Handle(r, t) PROVE Emitted'
  BY <1>1 DEF Emitted, Audited, Handle, Check, CreatePartition, InsertEvent, HandlerFails, gateway
<1>2. ASSUME NEW m \in Months, OthersCreate(m) PROVE Emitted'
  BY <1>2 DEF Emitted, Audited, OthersCreate, gateway
<1>3. CASE GatewayStops
  BY <1>3 DEF TypeOK, Emitted, Audited, GatewayStops, Rpcs, Tasks
<1>4. CASE NextMonth \/ UNCHANGED vars
  BY <1>4 DEF Emitted, Audited, NextMonth, gateway, vars
<1> QED BY <1>1, <1>2, <1>3, <1>4, EmittedByRequest, EmittedByTask DEF Next

\* Whatever retries, losses, races and failures there are on the way: a mutation that was
\* answered and whose task is over has a row or was counted as a failure, unless the gateway
\* stopped (audit/mod.rs, persist_event).
THEOREM MutationsAreRecorded == Spec => []MutationsRecorded
<1>1. Init => Emitted
  BY DEF Init, Emitted
<1>2. TypeOK /\ Emitted /\ [Next]_vars => Emitted'
  BY EmittedStep
<1>3. IInv /\ Emitted => MutationsRecorded
  <2> SUFFICES ASSUME IInv, Emitted, NEW r \in applied, rpc[r] = "answered",
                      task[r] \notin {"send", "wait", "dead"}, task[r] # "failed"
               PROVE  rows[r] # {}
    BY DEF MutationsRecorded
  <2>1. r \in Requests /\ task[r] \in Tasks
    BY DEF IInv, TypeOK
  <2>2. task[r] = "ended"
    BY <2>1 DEF Emitted, Audited, Tasks
  <2> QED BY <2>1, <2>2 DEF IInv, TaskShape
<1> QED BY <1>1, <1>2, <1>3, Invariant, TypeCorrect, PTL DEF Spec

-----------------------------------------------------------------------------
(* The implementation of AtLeastOnce *)

\* Faults befall attempts that were made; the one a task waits for went wrong only if its
\* handler did; and a handler that is past the binding has an event that can be stored.
Attempted ==
  \A r \in Requests :
    /\ task[r] = "none" => tries[r] = 0
    /\ \A t \in Tries :
         /\ t \in unseen[r] => t <= tries[r]
         /\ task[r] = "wait" /\ t = tries[r] /\ t \in unseen[r] => post[r][t] = "error"
         /\ post[r][t] \in {"create", "insert", "raced", "stored"} => Storable(r)

\* The steps of a request and of its task keep this.
LEMMA AttemptedByTask ==
  ASSUME IInv, Attempted, NEW r \in Requests, Request(r) \/ Attempt(r) \/ Hear(r) \/ Lose(r)
  PROVE  Attempted'
<1> USE DEF IInv, TypeOK, TaskShape, Attempted, Storable
<1>1. CASE Request(r)
  BY <1>1 DEF Request, Arrive, Serve, Emit, Hangup, service
<1>2. CASE Send(r)
  BY <1>2 DEF Send, Tries, Steps
<1>3. CASE SendFails(r)
  BY <1>3 DEF SendFails, Onwards, service, Tries
<1>4. CASE Hear(r)
  BY <1>4 DEF Hear, Onwards, service, Tries
<1>5. CASE Lose(r)
  BY <1>5 DEF Lose, Onwards, service, Tries
<1> QED BY <1>1, <1>2, <1>3, <1>4, <1>5 DEF Attempt

\* So do those of audit-service.
LEMMA AttemptedByHandler ==
  ASSUME IInv, Attempted, NEW r \in Requests, NEW t \in Tries, Handle(r, t)
  PROVE  Attempted'
<1> USE DEF IInv, TypeOK, Attempted, Storable, To, gateway
<1>1. CASE Check(r, t)
  <2>1. PICK x \in {"insert", "create", "refused"} :
          /\ post' = [post EXCEPT ![r][t] = x] /\ post[r][t] = "begin"
          /\ x \in {"insert", "create"} => Storable(r)
    BY <1>1 DEF Check
  <2> QED BY <1>1, <2>1 DEF Check
<1>2. CASE CreatePartition(r, t)
  <2>1. PICK x \in {"raced", "insert"} :
          post' = [post EXCEPT ![r][t] = x] /\ post[r][t] = "create"
    BY <1>2 DEF CreatePartition
  <2> QED BY <1>2, <2>1 DEF CreatePartition
<1>3. CASE InsertEvent(r, t)
  BY <1>3 DEF InsertEvent
<1>4. CASE HandlerFails(r, t)
  BY <1>4 DEF HandlerFails, Tries
<1> QED BY <1>1, <1>2, <1>3, <1>4 DEF Handle

\* And so does every step.
LEMMA AttemptedStep ==
  ASSUME IInv, Attempted, [Next]_vars
  PROVE  Attempted'
<1> USE DEF IInv, TypeOK, Attempted, Storable, gateway
<1>1. ASSUME NEW m \in Months, OthersCreate(m) PROVE Attempted'
  BY <1>1 DEF OthersCreate
<1>2. CASE GatewayStops
  BY <1>2 DEF GatewayStops, service
<1>3. CASE NextMonth \/ UNCHANGED vars
  BY <1>3 DEF NextMonth, vars
<1> QED BY <1>1, <1>2, <1>3, AttemptedByTask, AttemptedByHandler DEF Next

\* The abstract state of an event's sender, and of its attempts.
Fate   == [r \in Requests |-> FateOf(r)]
Sound  == [r \in Requests |-> Storable(r)]
Faulty == [r \in Requests |-> Faults(r)]

\* A step of one task changes the fate of its event only.
LEMMA FateMoves ==
  ASSUME TypeOK, NEW r \in Requests, NEW k \in Tasks, task' = [task EXCEPT ![r] = k]
  PROVE  Fate' = [Fate EXCEPT ![r] = FateOf(r)'] /\ Fate[r] = FateOf(r) /\ task'[r] = k
<1>1. task'[r] = k /\ \A q \in Requests \ {r} : task'[q] = task[q]
  BY DEF TypeOK
<1>2. \A q \in Requests \ {r} : FateOf(q)' = FateOf(q)
  BY <1>1 DEF FateOf
<1> QED BY <1>1, <1>2 DEF Fate

\* A task that waits instead of sending, or goes on to send, has an event as pending as before.
LEMMA FateStays ==
  ASSUME TypeOK, NEW r \in Requests, task[r] \in {"send", "wait"},
         NEW k \in {"send", "wait"}, task' = [task EXCEPT ![r] = k]
  PROVE  Fate' = Fate
<1>1. FateOf(r)' = FateOf(r)
  BY DEF FateOf, TypeOK
<1>2. Fate' = [Fate EXCEPT ![r] = FateOf(r)'] /\ Fate[r] = FateOf(r)
  BY FateMoves DEF Tasks
<1> QED BY <1>1, <1>2 DEF Fate

\* While the attempts that are unseen or have lost a race are the same, so are the faults;
\* one attempt more is one fault more.
LEMMA FaultsMove ==
  ASSUME TypeOK, NEW r \in Requests, NEW t \in Tries,
         \A q \in Requests, u \in Tries :
           (u \in unseen'[q] \/ post'[q][u] = "raced")
             <=> (u \in unseen[q] \/ post[q][u] = "raced" \/ (q = r /\ u = t)),
         unseen' \in [Requests -> SUBSET Tries]
  PROVE  Faulty' = [Faulty EXCEPT ![r] = @ \cup {t}]
<1>1. \A q \in Requests \ {r} : Faults(q)' = Faults(q)
  BY DEF Faults, TypeOK
<1>2. Faults(r)' = Faults(r) \cup {t}
  BY DEF Faults, TypeOK
<1> QED BY <1>1, <1>2 DEF Faulty

LEMMA FaultsStay ==
  ASSUME TypeOK, unseen' = unseen,
         \A q \in Requests, u \in Tries : post'[q][u] = "raced" <=> post[q][u] = "raced"
  PROVE  Faulty' = Faulty
BY DEF Faulty, Faults

\* A sender that gives up does so for a reason AtLeastOnce accepts.
LEMMA GivesUp ==
  ASSUME IInv, IInv', Sound' = Sound, NEW r \in Requests, task[r] \in {"send", "wait"},
         task' = [task EXCEPT ![r] = "failed"]
  PROVE  Delivery!GiveUp(r)
<1>1. Fate' = [Fate EXCEPT ![r] = FateOf(r)'] /\ Fate[r] = FateOf(r) /\ task'[r] = "failed"
  BY FateMoves DEF IInv, Tasks
<1>2. FateOf(r) = "pending" /\ FateOf(r)' = "given_up"
  BY <1>1 DEF FateOf
<1>3. Storable(r)' => Faults(r)' = Tries
  <2>1. \A t \in Tries : Spent(r, t)'
    BY <1>1 DEF IInv, TaskShape, EarlierSpent, Tries
  <2> QED BY <2>1 DEF IInv, TypeOK, Ledger, Spent, Faults
<1>4. Storable(r)' <=> Storable(r)
  BY DEF Sound, Storable
<1>5. Sound[r] => Faulty'[r] = Tries
  BY <1>3, <1>4 DEF Sound, Faulty
<1> QED BY <1>1, <1>2, <1>5 DEF Delivery!GiveUp, Delivery!Settle, Fate, Sound, Faulty

\* Task, handlers and partitions implement AtLeastOnce: each of their steps is one of its
\* steps or invisible to it.
THEOREM Refinement == Spec => DeliversAtLeastOnce
<1>1. Init => Delivery!DeliveryInit
  <2> SUFFICES ASSUME Init PROVE Delivery!DeliveryInit
    OBVIOUS
  <2>1. \A r \in Requests : FateOf(r) = "none" /\ Faults(r) = {} /\ Storable(r) \in BOOLEAN
    BY DEF Init, FateOf, Faults, Storable
  <2> QED BY <2>1 DEF Init, Delivery!DeliveryInit
<1>2. Init => Attempted
  <2> SUFFICES ASSUME Init, NEW r \in Requests
               PROVE  /\ tries[r] = 0 /\ unseen[r] = {}
                      /\ \A t \in Tries : post[r][t] = "none"
    BY DEF Attempted
  <2> QED BY DEF Init
<1>3. IInv /\ Attempted /\ [Next]_vars => Attempted'
  BY AttemptedStep
<1>4. IInv /\ Attempted /\ IInv' /\ [Next]_vars
        => [Delivery!DeliveryNext]_(Delivery!deliveryVars)
  <2> SUFFICES ASSUME IInv, Attempted, IInv', [Next]_vars
               PROVE  [Delivery!DeliveryNext]_(Delivery!deliveryVars)
    OBVIOUS
  <2> DEFINE Still == Fate' = Fate /\ Sound' = Sound /\ rows' = rows /\ Faulty' = Faulty
             Goal  == \/ Still \/ Delivery!Crash
                      \/ \E r \in Requests : \/ Delivery!Emit(r) \/ Delivery!Confirm(r)
                                             \/ Delivery!Abandon(r)
                      \/ \E r \in Requests, t \in Tries : Delivery!Store(r, t) \/ Delivery!Fault(r, t)
  <2>g. SUFFICES Goal
    BY DEF Delivery!DeliveryNext, Delivery!deliveryVars, Fate, Sound, Faulty
  <2>t. TypeOK
    BY DEF IInv
  \* What is left alone.
  <2>f. task' = task => Fate' = Fate
    BY DEF Fate, FateOf
  <2>s. kind' = kind => Sound' = Sound
    BY DEF Sound, Storable
  <2>u. post' = post /\ unseen' = unseen => Faulty' = Faulty
    BY DEF Faulty, Faults
  <2>e. \A r \in Requests, t \in Tries : post[r][t] # "none" => Fate[r] # "none"
    <3> SUFFICES ASSUME NEW r \in Requests, NEW t \in Tries, post[r][t] # "none"
                 PROVE  Fate[r] # "none"
      OBVIOUS
    <3>1. task[r] \in Tasks \ {"none"}
      BY <2>t DEF TypeOK, Attempted, Tries
    <3> QED BY <3>1 DEF Fate, FateOf, Tasks
  <2> HIDE DEF Goal
  <2>1. ASSUME NEW r \in Requests, Request(r) PROVE Goal
    <3>1. rows' = rows /\ kind' = kind /\ post' = post /\ unseen' = unseen
      BY <2>1 DEF Request, Arrive, Serve, Emit, Hangup, service
    <3>2. CASE task' = task
      BY <3>1, <3>2, <2>f, <2>s, <2>u DEF Goal
    <3>3. CASE task' # task
      <4>1. Emit(r) /\ task' = [task EXCEPT ![r] = IF Audited(r) THEN "send" ELSE "none"]
        BY <2>1, <3>3 DEF Request, Arrive, Serve, Emit, Hangup
      <4>2. task[r] = "none" /\ task' = [task EXCEPT ![r] = "send"]
        <5>1. task[r] = "none" /\ task \in [Requests -> Tasks]
          BY <4>1, <2>t DEF Emit, IInv, TaskShape, TypeOK
        <5>2. task = [task EXCEPT ![r] = "none"]
          BY <5>1
        <5>3. Audited(r)
          BY <4>1, <5>2, <3>3 DEF Audited
        <5> QED BY <4>1, <5>1, <5>3
      <4>3. Fate' = [Fate EXCEPT ![r] = FateOf(r)'] /\ Fate[r] = FateOf(r) /\ task'[r] = "send"
        BY <2>t, <4>2, FateMoves DEF Tasks
      <4>4. FateOf(r) = "none" /\ FateOf(r)' = "pending"
        BY <4>2, <4>3 DEF FateOf
      <4>5. Delivery!Emit(r)
        BY <3>1, <4>3, <4>4, <2>s, <2>u DEF Delivery!Emit, Delivery!Settle, Fate, Sound, Faulty
      <4> QED BY <4>5 DEF Goal
    <3> QED BY <3>2, <3>3
  <2>2. ASSUME NEW r \in Requests, Send(r) PROVE Goal
    <3>1. Fate' = Fate
      BY <2>2, <2>t, FateStays DEF Send
    <3>2. \A q \in Requests, t \in Tries : post'[q][t] = "raced" <=> post[q][t] = "raced"
      BY <2>2, <2>t DEF Send, TypeOK, Tries
    <3>3. Faulty' = Faulty
      BY <2>2, <2>t, <3>2, FaultsStay DEF Send
    <3> QED BY <2>2, <3>1, <3>3, <2>s DEF Goal, Send
  <2>3. ASSUME NEW r \in Requests, NEW t \in Tries, post' = post, rows' = rows, kind' = kind,
               unseen' = [unseen EXCEPT ![r] = @ \cup {t}], task[r] \in {"send", "wait"},
               \/ task' = [task EXCEPT ![r] = "send"]
               \/ task' = [task EXCEPT ![r] = "failed"]
        PROVE  Goal
    <3>1. Faulty' = [Faulty EXCEPT ![r] = @ \cup {t}]
      <4>1. unseen' \in [Requests -> SUBSET Tries]
        BY <2>3, <2>t DEF TypeOK
      <4>2. \A q \in Requests, v \in Tries :
              (v \in unseen'[q] \/ post'[q][v] = "raced")
                <=> (v \in unseen[q] \/ post[q][v] = "raced" \/ (q = r /\ v = t))
        BY <2>3, <2>t DEF TypeOK
      <4> QED BY <4>1, <4>2, <2>t, FaultsMove
    <3>2. Sound' = Sound
      BY <2>3, <2>s
    <3>3. Fate' = Fate \/ Delivery!GiveUp(r)
      <4>1. CASE task' = [task EXCEPT ![r] = "send"]
        BY <2>3, <2>t, <4>1, FateStays
      <4>2. CASE task' = [task EXCEPT ![r] = "failed"]
        BY <2>3, <3>2, <4>2, GivesUp
      <4> QED BY <2>3, <4>1, <4>2
    <3>4. Fate[r] # "none"
      BY <2>3 DEF Fate, FateOf
    <3>5. Delivery!Fault(r, t)
      BY <2>3, <3>1, <3>2, <3>3, <3>4 DEF Delivery!Fault, Fate, Sound, Faulty
    <3> QED BY <3>5 DEF Goal
  <2>4. ASSUME NEW r \in Requests, SendFails(r) PROVE Goal
    <3>1. PICK t \in Tries : t = tries[r] + 1
      BY <2>4, <2>t DEF SendFails, IInv, TaskShape, TypeOK, Tries
    <3> QED BY <2>3, <2>4, <3>1 DEF SendFails, Onwards, service
  <2>5. ASSUME NEW r \in Requests, Lose(r) PROVE Goal
    <3>1. PICK t \in Tries : t = tries[r]
      BY <2>5, <2>t DEF Lose, IInv, TaskShape, TypeOK, Tries
    <3> QED BY <2>3, <2>5, <3>1 DEF Lose, Onwards, service
  <2>6. ASSUME NEW r \in Requests, Hear(r) PROVE Goal
    <3>1. rows' = rows /\ Sound' = Sound /\ Faulty' = Faulty /\ task[r] = "wait"
      BY <2>6, <2>s, <2>u DEF Hear, service
    <3>2. CASE task' = [task EXCEPT ![r] = "send"]
      BY <2>t, <3>1, <3>2, FateStays DEF Goal
    <3>3. CASE task' = [task EXCEPT ![r] = "failed"]
      <4>1. Delivery!GiveUp(r)
        BY <3>1, <3>3, GivesUp
      <4>2. Delivery!Abandon(r)
        BY <3>1, <4>1 DEF Delivery!Abandon, Sound, Faulty
      <4> QED BY <4>2 DEF Goal
    <3>4. CASE post[r][tries[r]] = "stored" /\ task' = [task EXCEPT ![r] = "ended"]
      <4>1. Fate' = [Fate EXCEPT ![r] = FateOf(r)'] /\ Fate[r] = FateOf(r) /\ task'[r] = "ended"
        BY <2>t, <3>4, FateMoves DEF Tasks
      <4>2. FateOf(r) = "pending" /\ FateOf(r)' = "confirmed"
        BY <3>1, <4>1 DEF FateOf
      <4>3. tries[r] \in rows[r] /\ tries[r] \notin Faulty[r]
        <5>1. tries[r] \in Tries
          BY <2>t, <3>1 DEF IInv, TaskShape, TypeOK, Tries
        <5> QED BY <3>1, <3>4, <5>1 DEF IInv, Ledger, Attempted, Faulty, Faults
      <4>4. Delivery!Confirm(r)
        BY <3>1, <4>1, <4>2, <4>3 DEF Delivery!Confirm, Delivery!Settle, Fate, Sound, Faulty
      <4> QED BY <4>4 DEF Goal
    <3> QED BY <2>6, <3>2, <3>3, <3>4 DEF Hear, Onwards
  <2>7. ASSUME NEW r \in Requests, NEW t \in Tries, Check(r, t) PROVE Goal
    <3>1. PICK x \in {"insert", "create", "refused"} :
            post' = [post EXCEPT ![r][t] = x] /\ post[r][t] = "begin"
      BY <2>7 DEF Check, To
    <3>2. \A q \in Requests, v \in Tries : post'[q][v] = "raced" <=> post[q][v] = "raced"
      BY <3>1, <2>t DEF TypeOK
    <3>3. Faulty' = Faulty
      BY <2>7, <2>t, <3>2, FaultsStay DEF Check
    <3> QED BY <2>7, <3>3, <2>f, <2>s DEF Goal, Check, gateway
  \* A handler whose attempt goes wrong.
  <2>8. ASSUME NEW r \in Requests, NEW t \in Tries, rows' = rows, kind' = kind, task' = task,
               post[r][t] # "none", unseen' \in [Requests -> SUBSET Tries],
               \A q \in Requests, v \in Tries :
                 (v \in unseen'[q] \/ post'[q][v] = "raced")
                   <=> (v \in unseen[q] \/ post[q][v] = "raced" \/ (q = r /\ v = t))
        PROVE  Goal
    <3>1. Faulty' = [Faulty EXCEPT ![r] = @ \cup {t}]
      BY <2>8, <2>t, FaultsMove
    <3>2. Delivery!Fault(r, t)
      BY <2>8, <3>1, <2>e, <2>f, <2>s DEF Delivery!Fault, Fate, Sound, Faulty
    <3> QED BY <3>2 DEF Goal
  <2>9. ASSUME NEW r \in Requests, NEW t \in Tries, CreatePartition(r, t) PROVE Goal
    <3>1. rows' = rows /\ kind' = kind /\ task' = task /\ unseen' = unseen /\ post[r][t] = "create"
      BY <2>9 DEF CreatePartition, gateway
    <3>2. CASE post' = [post EXCEPT ![r][t] = "insert"]
      <4>1. \A q \in Requests, v \in Tries : post'[q][v] = "raced" <=> post[q][v] = "raced"
        BY <2>t, <3>1, <3>2 DEF TypeOK
      <4>2. Faulty' = Faulty
        BY <2>t, <3>1, <4>1, FaultsStay
      <4> QED BY <3>1, <4>2, <2>f, <2>s DEF Goal
    <3>3. CASE post' = [post EXCEPT ![r][t] = "raced"]
      <4>1. \A q \in Requests, v \in Tries :
              (v \in unseen'[q] \/ post'[q][v] = "raced")
                <=> (v \in unseen[q] \/ post[q][v] = "raced" \/ (q = r /\ v = t))
        BY <2>t, <3>1, <3>3 DEF TypeOK
      <4>2. post[r][t] # "none" /\ unseen' \in [Requests -> SUBSET Tries]
        BY <2>t, <3>1 DEF TypeOK
      <4> QED BY <3>1, <4>1, <4>2, <2>8
    <3> QED BY <2>9, <3>2, <3>3 DEF CreatePartition, To
  <2>10. ASSUME NEW r \in Requests, NEW t \in Tries, HandlerFails(r, t) PROVE Goal
    <3>1. /\ rows' = rows /\ kind' = kind /\ task' = task /\ post[r][t] \notin {"none", "raced"}
          /\ post' = [post EXCEPT ![r][t] = "error"] /\ unseen' = [unseen EXCEPT ![r] = @ \cup {t}]
      BY <2>10 DEF HandlerFails, To, gateway
    <3>2. \A q \in Requests, v \in Tries :
            (v \in unseen'[q] \/ post'[q][v] = "raced")
              <=> (v \in unseen[q] \/ post[q][v] = "raced" \/ (q = r /\ v = t))
      BY <2>t, <3>1 DEF TypeOK
    <3>3. unseen' \in [Requests -> SUBSET Tries]
      BY <2>t, <3>1 DEF TypeOK
    <3> QED BY <3>1, <3>2, <3>3, <2>8
  <2>11. ASSUME NEW r \in Requests, NEW t \in Tries, InsertEvent(r, t) PROVE Goal
    <3>1. /\ rows' = [rows EXCEPT ![r] = @ \cup {t}] /\ post' = [post EXCEPT ![r][t] = "stored"]
          /\ kind' = kind /\ task' = task /\ unseen' = unseen /\ post[r][t] = "insert"
      BY <2>11 DEF InsertEvent, To, gateway
    <3>2. Faulty' = Faulty
      <4>1. \A q \in Requests, v \in Tries : post'[q][v] = "raced" <=> post[q][v] = "raced"
        BY <2>t, <3>1 DEF TypeOK
      <4> QED BY <2>t, <3>1, <4>1, FaultsStay
    <3>3. Sound[r] /\ Fate[r] # "none"
      BY <3>1, <2>e DEF Attempted, Sound
    <3>4. rows[r] \subseteq Faulty[r] \/ t \in Faulty[r]
      <4>1. t <= tries[r] /\ tries[r] \in 0 .. 3
        BY <2>t, <3>1 DEF TypeOK
      <4>2. CASE t < tries[r]
        BY <3>1, <4>2 DEF IInv, EarlierSpent, Spent, Faulty, Faults
      <4>3. ASSUME t = tries[r], NEW v \in rows[r] PROVE v \in unseen[r]
        <5>1. v \in Tries /\ post[r][v] = "stored" /\ v <= tries[r]
          BY <2>t DEF IInv, Ledger, TypeOK
        <5>2. v < tries[r]
          BY <3>1, <4>1, <4>3, <5>1 DEF Tries
        <5> QED BY <5>1, <5>2 DEF IInv, EarlierSpent, Spent
      <4> QED BY <4>1, <4>2, <4>3 DEF Faulty, Faults, Tries
    <3>5. Delivery!Store(r, t)
      BY <3>1, <3>2, <3>3, <3>4, <2>f, <2>s DEF Delivery!Store, Fate, Sound, Faulty
    <3> QED BY <3>5 DEF Goal
  <2>12. CASE GatewayStops
    <3>1. rows' = rows /\ kind' = kind /\ post' = post /\ unseen' = unseen
      BY <2>12 DEF GatewayStops, service
    <3>2. \A r \in Requests : FateOf(r)' = IF FateOf(r) = "pending" THEN "lost" ELSE FateOf(r)
      <4> SUFFICES ASSUME NEW r \in Requests
                   PROVE  FateOf(r)' = IF FateOf(r) = "pending" THEN "lost" ELSE FateOf(r)
        OBVIOUS
      <4>1. task'[r] = IF task[r] \in {"send", "wait"} THEN "dead" ELSE task[r]
        BY <2>12 DEF GatewayStops
      <4> QED BY <4>1 DEF FateOf
    <3>3. Delivery!Crash
      BY <3>1, <3>2, <2>s, <2>u DEF Delivery!Crash, Fate, Sound, Faulty
    <3> QED BY <3>3 DEF Goal
  <2>13. ASSUME NEW m \in Months, OthersCreate(m) PROVE Goal
    BY <2>13, <2>f, <2>s, <2>u DEF OthersCreate, gateway, Goal
  <2>14. CASE NextMonth \/ UNCHANGED vars
    BY <2>14, <2>f, <2>s, <2>u DEF NextMonth, gateway, vars, Goal
  <2> QED BY <2>1, <2>2, <2>4, <2>5, <2>6, <2>7, <2>9, <2>10, <2>11, <2>12, <2>13, <2>14
          DEF Next, Attempt, Handle
<1> QED BY <1>1, <1>2, <1>3, <1>4, Invariant, PTL DEF Spec, DeliversAtLeastOnce, Delivery!DeliverySpec

-----------------------------------------------------------------------------
(* Reading the log                                                          *)

\* An answer from the service.
Answer == [items : SUBSET Events, total : 0..Last, all : SUBSET Events, at : Nat]

\* What a request can be at.
Fetches == {NoFetch, [st |-> "asked"]}
             \cup [st : {"counted"}, total : 0..Last] \cup [st : {"listed"}, answer : Answer]

\* What the log, the page, its requests and the history hold.
LogTyped ==
  /\ stored \subseteq Events /\ dropped \subseteq Old /\ changes \in Nat
  /\ page \in 0..Last /\ appliedFilter \in Filters
  /\ cache \in [Queries -> Answer \cup {None}] /\ fetch \in [Queries -> Fetches]
  /\ export \in Filters \cup {None}
  /\ walk # NoWalk => walk \in [base : SUBSET Events, seen : SUBSET Events, at : Nat]

\* The answers to a query that the client has or is about to get.
Held(q) == (IF cache[q] = None THEN {} ELSE {cache[q]})
             \cup (IF fetch[q].st = "listed" THEN {fetch[q].answer} ELSE {})

\* The place of an event, counted from the newest.
Rank(all, e) == Cardinality({x \in all : x > e})

\* The page exists: the first one always does.
Exists(all, q) == q[1] = 0 \/ q[1] * PageSize < Cardinality(all)

\* An answer is the page of what its filter matched; until the table changes that is what it
\* matches, and what retention is not to drop stays.
Faithful(q, a) ==
  /\ a.items = Slice(a.all, PageSize, q[1] * PageSize)
  /\ a.at <= changes /\ a.all \ Due \subseteq Matching(q[2])
  /\ a.at = changes => a.all = Matching(q[2])
AnswersFaithful == \A q \in Queries : \A a \in Held(q) : Faithful(q, a)

\* Of two answers the later one has what the earlier one had, but for what retention drops.
Growing == \A q, r \in Queries : q[2] = r[2] =>
  \A a \in Held(q), b \in Held(r) : a.at <= b.at => a.all \ Due \subseteq b.all

\* As long as nothing has been dropped, every page that is looked at exists.
Looked(q) == q = Query \/ fetch[q] # NoFetch \/ cache[q] # None
PagesExist == dropped = {} => \A q \in Queries :
  /\ Looked(q) => Exists(Matching(q[2]), q)
  /\ fetch[q].st = "counted" => fetch[q].total <= Cardinality(Matching(q[2]))
  /\ \A a \in Held(q) : a.total <= Cardinality(Matching(q[2])) /\ Exists(a.all, q)

\* What the walk started from is in `all', and the user has seen all of it that `all' has on
\* the pages behind the one shown.
Covered(all) == \A e \in walk.base \ Due :
  e \in all /\ (Rank(all, e) < page * PageSize => e \in walk.seen)

\* That holds of every answer that may be shown next.
WalkCovered == walk # NoWalk =>
  /\ Covered(Matching(appliedFilter))
  /\ \A q \in Queries : q[2] = appliedFilter =>
       \A a \in Held(q) : a.at >= walk.at => Covered(a.all)

ReadingInv == LogTyped /\ AnswersFaithful /\ Growing /\ PagesExist /\ WalkCovered /\ ExportIsWhole

-----------------------------------------------------------------------------
(* Ranks                                                                    *)

USE AuditLogAssumption

\* Every set of events is finite.
LEMMA EventSets ==
  \A S \in SUBSET Events : IsFiniteSet(S) /\ Cardinality(S) \in 0..Last
<1>1. IsFiniteSet(Events) /\ Cardinality(Events) = Last
  BY FS_Interval DEF Events
<1> QED BY <1>1, FS_Subset, FS_CardinalityType

\* The rank of an event of a set is below the size of the set.
LEMMA RankBound ==
  ASSUME NEW S \in SUBSET Events, NEW e \in Events
  PROVE  /\ Rank(S, e) \in Nat /\ Rank(S, e) <= Cardinality(S)
         /\ e \in S => Rank(S, e) < Cardinality(S)
<1> DEFINE above == {x \in S : x > e}
<1>1. IsFiniteSet(S) /\ Cardinality(S) \in Nat /\ Cardinality(above) \in Nat
  BY EventSets
<1>2. Cardinality(above) <= Cardinality(S)
  BY <1>1, FS_Subset
<1>3. ASSUME e \in S PROVE Cardinality(above) # Cardinality(S)
  <2>1. above # S
    BY <1>3 DEF Events
  <2> HIDE DEF above
  <2> QED BY <1>1, <2>1, FS_Subset DEF above
<1> QED BY <1>1, <1>2, <1>3 DEF Rank

\* Events that come, and old ones that go, only push an event that stays further down.
LEMMA RankGrows ==
  ASSUME NEW A \in SUBSET Events, NEW B \in SUBSET Events, A \ Due \subseteq B,
         NEW e \in Events \ Due
  PROVE  Rank(A, e) <= Rank(B, e)
<1>1. \A x \in A : x > e => x \notin Due
  <2> SUFFICES ASSUME NEW x \in A, x \in Due, x > e PROVE FALSE
    OBVIOUS
  <2>1. x < e
    OBVIOUS
  <2> QED BY <2>1 DEF Events
<1>2. IsFiniteSet({x \in B : x > e})
  BY EventSets
<1>3. {x \in A : x > e} \subseteq {x \in B : x > e}
  BY <1>1
<1> QED BY <1>2, <1>3, FS_Subset DEF Rank

\* Every place is taken: the ranks of n events are 0 .. n - 1.
LEMMA RankHits ==
  ASSUME NEW S \in SUBSET Events, NEW n \in Nat, n < Cardinality(S)
  PROVE  \E e \in S : Rank(S, e) = n
<1>1. IsFiniteSet(S) /\ Cardinality(S) \in Nat
  BY EventSets
<1> DEFINE last == Cardinality(S) - 1
           T == 0..last
           F == [e \in S |-> Rank(S, e)]
<1>2. IsFiniteSet(T) /\ Cardinality(T) = Cardinality(S)
  <2>1. last \in Nat /\ last + 1 = Cardinality(S)
    BY <1>1
  <2> HIDE DEF last
  <2>2. 0 \in Int /\ last \in Int /\ ~(0 > last) /\ last - 0 + 1 = last + 1
    BY <2>1
  <2>3. IsFiniteSet(T) /\ Cardinality(T) = last - 0 + 1
    BY <2>2, FS_Interval
  <2> QED BY <2>1, <2>2, <2>3
<1>3. F \in [S -> T]
  <2>1. \A e \in S : Rank(S, e) \in T
    BY <1>1, RankBound
  <2> QED BY <2>1
<1>4. ASSUME NEW e \in S, NEW f \in S, e < f PROVE Rank(S, f) < Rank(S, e)
  <2> DEFINE A == {x \in S : x > f}
             B == {x \in S : x > e}
  <2>0. f \in Nat /\ e \in Nat /\ \A x \in S : x \in Nat
    BY DEF Events
  <2>1. A \subseteq B /\ f \in B /\ f \notin A
    <3>1. \A x \in S : x > f => x > e
      BY <1>4, <2>0
    <3>2. f > e /\ ~(f > f)
      BY <1>4, <2>0
    <3>3. A \subseteq B
      BY <3>1
    <3> QED BY <3>2, <3>3
  <2>2. IsFiniteSet(B) /\ Cardinality(A) \in Nat /\ Cardinality(B) \in Nat
    BY EventSets
  <2> HIDE DEF A, B
  <2>3. Cardinality(A) <= Cardinality(B) /\ Cardinality(A) # Cardinality(B)
    BY <2>1, <2>2, FS_Subset
  <2> QED BY <2>2, <2>3 DEF Rank, A, B
<1>5. \A e, f \in S : F[e] = F[f] => e = f
  <2> SUFFICES ASSUME NEW e \in S, NEW f \in S, Rank(S, e) = Rank(S, f) PROVE e = f
    OBVIOUS
  <2>1. Rank(S, e) \in Nat
    BY RankBound
  <2>2. ~(e < f) /\ ~(f < e)
    BY <1>4, <2>1
  <2> QED BY <2>2 DEF Events
<1>6. n \in T
  BY <1>1
<1> HIDE DEF F, T
<1>7. F \in Injection(S, T)
  BY <1>3, <1>5 DEF Injection, IsInjective
<1>8. F \in Surjection(S, T)
  BY <1>2, <1>7, FS_Injection
<1>9. PICK e \in S : F[e] = n
  BY <1>6, <1>8 DEF Surjection
<1> QED BY <1>9 DEF F

\* A limit that is not too large is taken as it is, so that a slice is a range of ranks.
LEMMA SliceRanks ==
  ASSUME NEW all \in SUBSET Events, NEW limit \in 1..MaxLimit, NEW offset \in Nat,
         NEW e \in all
  PROVE  e \in Slice(all, limit, offset) <=> offset <= Rank(all, e) /\ Rank(all, e) < offset + limit
<1>1. NormalizeLimit(limit) = limit
  BY DEF NormalizeLimit
<1>2. Rank(all, e) \in Nat
  BY RankBound
<1> QED BY <1>1, <1>2 DEF Slice, Rank

\* A slice is empty only behind the last event.
LEMMA SliceEmpty ==
  ASSUME NEW all \in SUBSET Events, NEW offset \in Nat, Slice(all, PageSize, offset) = {}
  PROVE  Cardinality(all) <= offset
<1> SUFFICES ASSUME offset < Cardinality(all) PROVE FALSE
  BY EventSets
<1>1. PICK e \in all : Rank(all, e) = offset
  BY RankHits
<1> QED BY <1>1, SliceRanks

\* Where the pages start.
LEMMA PageStarts ==
  /\ \A p \in Nat : p * PageSize \in Nat /\ (p + 1) * PageSize = p * PageSize + PageSize
  /\ PageSize \in Nat \ {0} /\ 0 * PageSize = 0
OBVIOUS
-----------------------------------------------------------------------------
(* Types                                                                    *)

\* What a request is at tells what it holds.
LEMMA FetchKinds ==
  ASSUME NEW r \in Fetches
  PROVE  /\ r = NoFetch <=> r.st = "none"
         /\ r.st = "counted" => r.total \in 0..Last
         /\ r.st = "listed" => r.answer \in Answer
BY DEF Fetches, NoFetch

\* A query, its page and its filter.
LEMMA QueryParts ==
  /\ \A q \in Queries : q[1] \in 0..Last /\ q[2] \in Filters /\ q = <<q[1], q[2]>>
  /\ \A p \in 0..Last, f \in Filters :
       <<p, f>> \in Queries /\ <<p, f>>[1] = p /\ <<p, f>>[2] = f
  /\ LogTyped => Query \in Queries /\ Query[1] = page /\ Query[2] = appliedFilter
BY DEF Queries, Query, LogTyped

\* What is held is an answer.
LEMMA HeldAnswers ==
  ASSUME LogTyped, NEW q \in Queries, NEW a \in Held(q)
  PROVE  /\ a \in Answer /\ a.items \subseteq Events /\ a.all \in SUBSET Events
         /\ a.total \in 0..Last /\ a.at \in Nat
<1>1. a \in Answer
  <2>1. fetch[q] \in Fetches /\ cache[q] \in Answer \cup {None}
    BY DEF LogTyped
  <2> QED BY <2>1, FetchKinds DEF Held
<1> QED BY <1>1 DEF Answer

\* What a filter matches are events.
LEMMA MatchingEvents ==
  ASSUME LogTyped, NEW f \in Filters
  PROVE  Matching(f) \in SUBSET Events /\ Cardinality(Matching(f)) \in 0..Last
<1>1. Matching(f) \in SUBSET Events
  BY DEF LogTyped, Matching
<1> QED BY <1>1, EventSets

\* Whoever looks at a query leaves what is held, and asks at most for that query.
LEMMA LookStep ==
  ASSUME LogTyped, NEW q \in Queries, Look(q), cache' = cache
  PROVE  /\ fetch' \in [Queries -> Fetches]
         /\ \A r \in Queries : Held(r)' = Held(r) /\ (fetch[r] # NoFetch => fetch'[r] = fetch[r])
         /\ \A r \in Queries : fetch'[r] = fetch[r] \/ (r = q /\ fetch'[r] = [st |-> "asked"])
<1>1. [st |-> "asked"] \in Fetches /\ [st |-> "asked"] # NoFetch
  BY DEF Fetches, NoFetch
<1>2. fetch \in [Queries -> Fetches]
  BY DEF LogTyped
<1>3. fetch' = [fetch EXCEPT ![q] = IF fetch[q] = NoFetch THEN [st |-> "asked"] ELSE fetch[q]]
  BY DEF Look
<1>4. /\ \A r \in Queries : fetch'[r] = fetch[r] \/ (r = q /\ fetch'[r] = [st |-> "asked"])
      /\ \A r \in Queries : fetch[r] # NoFetch => fetch'[r] = fetch[r]
      /\ fetch' \in [Queries -> Fetches]
  BY <1>1, <1>2, <1>3
<1>5. ASSUME NEW r \in Queries PROVE Held(r)' = Held(r)
  <2>1. CASE fetch'[r] = fetch[r]
    BY <2>1 DEF Held
  <2>2. CASE fetch'[r] # fetch[r]
    <3>1. fetch[r] = NoFetch /\ fetch'[r] = [st |-> "asked"]
      BY <1>4, <2>2
    <3> QED BY <3>1 DEF Held, NoFetch
  <2> QED BY <2>1, <2>2
<1> QED BY <1>4, <1>5

\* The user walks, and the page stays in its range: a page behind it exists.
LEMMA NextInRange ==
  ASSUME LogTyped, HasNext
  PROVE  /\ Shown # None /\ Shown \in Held(Query) /\ Shown \in Answer
         /\ page + 1 \in 0..Last /\ (page + 1) * PageSize < Shown.total
<1>1. Shown # None /\ (page + 1) * PageSize < Shown.total
  BY DEF HasNext, Items
<1>2. Shown \in Held(Query) /\ Query \in Queries
  BY <1>1, QueryParts DEF Shown, Held
<1>3. Shown \in Answer /\ Shown.total \in 0..Last
  BY <1>2, HeldAnswers
<1>4. page \in Nat /\ PageSize \in Nat \ {0}
  BY PageStarts DEF LogTyped
<1>5. page + 1 <= (page + 1) * PageSize
  <2>1. \A m \in Nat, k \in Nat \ {0} : m <= m * k
    OBVIOUS
  <2> QED BY <1>4, <2>1
<1>6. (page + 1) * PageSize \in Nat
  BY <1>4, PageStarts
<1> QED BY <1>1, <1>2, <1>3, <1>4, <1>5, <1>6

\* A step of a request keeps its type.
LEMMA FetchStep ==
  ASSUME LogTyped, NEW q \in Queries, NEW r \in Fetches, fetch' = [fetch EXCEPT ![q] = r]
  PROVE  /\ fetch' \in [Queries -> Fetches] /\ fetch'[q] = r
         /\ \A p \in Queries : p # q => fetch'[p] = fetch[p]
BY DEF LogTyped

\* The steps of the request of a query.
ServeQuery(q) == Count(q) \/ List(q) \/ Land(q) \/ Retry(q) \/ GiveUp(q) \/ Forget(q)

\* A request leaves the table and the user alone.
LEMMA ServeAlone ==
  ASSUME NEW q \in Queries, ServeQuery(q)
  PROVE  UNCHANGED <<stored, dropped, changes, page, appliedFilter, export, file, walk>>
BY DEF ServeQuery, Count, List, Land, Retry, GiveUp, Forget, table

\* What COUNT and SELECT find has its type.
LEMMA ListTyped ==
  ASSUME LogTyped, NEW q \in Queries, List(q)
  PROVE  LET a == [items |-> Slice(Matching(q[2]), PageSize, q[1] * PageSize),
                   total |-> fetch[q].total, all |-> Matching(q[2]), at |-> changes]
         IN  /\ a \in Answer /\ [st |-> "listed", answer |-> a] \in Fetches
             /\ fetch' = [fetch EXCEPT ![q] = [st |-> "listed", answer |-> a]]
             /\ fetch[q].st = "counted" /\ cache' = cache
<1> DEFINE items == Slice(Matching(q[2]), PageSize, q[1] * PageSize)
           a == [items |-> items, total |-> fetch[q].total, all |-> Matching(q[2]), at |-> changes]
<1>1. Matching(q[2]) \in SUBSET Events
  BY QueryParts, MatchingEvents
<1>2. items \in SUBSET Events
  BY <1>1 DEF Slice
<1>3. fetch[q].st = "counted" /\ fetch[q] \in Fetches
  BY DEF List, Under, LogTyped
<1>4. fetch[q].total \in 0..Last
  BY <1>3, FetchKinds
<1>5. a \in Answer
  <2> HIDE DEF items
  <2> QED BY <1>1, <1>2, <1>4 DEF Answer, LogTyped
<1>6. [st |-> "listed", answer |-> a] \in Fetches
  <2> HIDE DEF a
  <2> QED BY <1>5 DEF Fetches
<1> QED BY <1>3, <1>5, <1>6 DEF List

\* A request keeps the types.
LEMMA ServeTyped ==
  ASSUME LogTyped, NEW q \in Queries, ServeQuery(q)
  PROVE  LogTyped'
<1> SUFFICES fetch' \in [Queries -> Fetches] /\ cache' \in [Queries -> Answer \cup {None}]
  <2>1. UNCHANGED <<stored, dropped, changes, page, appliedFilter, export, file, walk>>
    BY ServeAlone
  <2> QED BY <2>1 DEF LogTyped
<1>1. NoFetch \in Fetches /\ [st |-> "asked"] \in Fetches
  BY DEF Fetches
<1>2. cache \in [Queries -> Answer \cup {None}] /\ fetch \in [Queries -> Fetches]
  BY DEF LogTyped
<1>3. CASE Count(q)
  <2>1. Cardinality(Matching(q[2])) \in 0..Last
    BY QueryParts, MatchingEvents
  <2>2. [st |-> "counted", total |-> Cardinality(Matching(q[2]))] \in Fetches
    BY <2>1 DEF Fetches
  <2> QED BY <1>2, <1>3, <2>2, FetchStep DEF Count
<1>4. CASE List(q)
  BY <1>2, <1>4, ListTyped, FetchStep
<1>5. CASE Land(q)
  <2>1. fetch[q].answer \in Answer
    BY <1>2, <1>5, FetchKinds DEF Land, Under
  <2> QED BY <1>1, <1>2, <1>5, <2>1, FetchStep DEF Land
<1>6. CASE Retry(q) \/ GiveUp(q)
  BY <1>1, <1>2, <1>6, FetchStep DEF Retry, GiveUp
<1>7. CASE Forget(q)
  BY <1>2, <1>7 DEF Forget
<1> QED BY <1>3, <1>4, <1>5, <1>6, <1>7 DEF ServeQuery

\* What the user has seen so far has its type.
LEMMA SeenTyped ==
  ASSUME LogTyped, Shown \in Answer, Seen # NoWalk
  PROVE  Seen \in [base : SUBSET Events, seen : SUBSET Events, at : Nat]
<1>1. Shown.all \in SUBSET Events /\ Shown.items \in SUBSET Events /\ Shown.at \in Nat
  BY DEF Answer
<1>2. CASE page = 0
  <2>1. Seen = [base |-> Shown.all, seen |-> Shown.items, at |-> Shown.at]
    BY <1>2 DEF Seen
  <2> QED BY <1>1, <2>1
<1>3. CASE page # 0 /\ page > 0 /\ walk # NoWalk /\ Shown.at >= walk.at
  <2>1. Seen = [walk EXCEPT !.seen = @ \cup Shown.items, !.at = Shown.at]
    BY <1>3 DEF Seen
  <2>2. walk \in [base : SUBSET Events, seen : SUBSET Events, at : Nat]
    BY <1>3 DEF LogTyped
  <2> QED BY <1>1, <2>1, <2>2
<1>4. CASE page # 0 /\ ~(page > 0 /\ walk # NoWalk /\ Shown.at >= walk.at)
  BY <1>4 DEF Seen
<1> QED BY <1>2, <1>3, <1>4

\* A move of the user keeps the types.
LEMMA GoTyped ==
  ASSUME LogTyped, NEW p \in 0..Last, NEW f \in Filters, NEW seen,
         seen # NoWalk => seen \in [base : SUBSET Events, seen : SUBSET Events, at : Nat],
         Go(p, f, seen)
  PROVE  LogTyped'
<1>1. <<p, f>> \in Queries /\ Look(<<p, f>>) /\ cache' = cache
  BY QueryParts DEF Go
<1>2. fetch' \in [Queries -> Fetches]
  BY <1>1, LookStep
<1> QED BY <1>2 DEF Go, LogTyped, table

\* Every step keeps the types.
LEMMA LogTypeStep == ASSUME LogTyped, [LogNext]_logVars PROVE LogTyped'
<1>1. ASSUME NEW e \in Events, Insert(e) PROVE LogTyped'
  BY <1>1 DEF Insert, LogTyped, client
<1>2. ASSUME NEW m \in Old, Drop(m) PROVE LogTyped'
  BY <1>2 DEF Drop, LogTyped, client
<1>3. ASSUME NEW q \in Queries, ServeQuery(q) PROVE LogTyped'
  BY <1>3, ServeTyped
<1>4. ASSUME NextPage PROVE LogTyped'
  BY <1>4, NextInRange, SeenTyped, GoTyped DEF NextPage, LogTyped
<1>5. ASSUME PrevPage PROVE LogTyped'
  <2>1. page - 1 \in 0..Last /\ appliedFilter \in Filters
    BY <1>5 DEF PrevPage, LogTyped
  <2> QED BY <1>5, <2>1, GoTyped DEF PrevPage
<1>6. ASSUME NEW f \in Filters, Apply(f) \/ Return PROVE LogTyped'
  BY <1>6, GoTyped DEF Apply, Return
<1>7. ASSUME Refocus PROVE LogTyped'
  <2>1. fetch' \in [Queries -> Fetches]
    BY <1>7, QueryParts, LookStep DEF Refocus
  <2> QED BY <1>7, <2>1 DEF Refocus, LogTyped, table
<1>8. ASSUME Export \/ ExportDone \/ ExportFailed PROVE LogTyped'
  BY <1>8 DEF Export, ExportDone, ExportFailed, LogTyped, table, client
<1>9. CASE UNCHANGED logVars
  BY <1>9 DEF logVars, LogTyped, table, client
<1> QED BY <1>1, <1>2, <1>3, <1>4, <1>5, <1>6, <1>7, <1>8, <1>9 DEF LogNext, ServeQuery
-----------------------------------------------------------------------------
(* Answers                                                                  *)

\* An answer that is only moved, or dropped, leaves them as they are.
LEMMA FaithfulKept ==
  ASSUME AnswersFaithful, Growing, UNCHANGED <<stored, dropped, changes>>,
         \A q \in Queries : Held(q)' \subseteq Held(q)
  PROVE  AnswersFaithful' /\ Growing'
<1>1. ASSUME NEW q \in Queries, NEW a, Faithful(q, a) PROVE Faithful(q, a)'
  BY <1>1 DEF Faithful, Matching
<1>2. AnswersFaithful'
  BY <1>1 DEF AnswersFaithful
<1>3. Growing'
  BY DEF Growing
<1> QED BY <1>2, <1>3

\* What a request leaves is what was there, but for the answer of its SELECT.
LEMMA ServeHeld ==
  ASSUME LogTyped, NEW q \in Queries, ServeQuery(q), NEW r \in Queries
  PROVE  /\ ~(r = q /\ List(q)) => Held(r)' \subseteq Held(r)
         /\ Looked(r)' => Looked(r)
         /\ fetch'[r].st = "counted" =>
              fetch'[r] = fetch[r] \/ fetch'[r].total = Cardinality(Matching(r[2]))
<1> USE DEF Under, NoFetch
<1>0. cache \in [Queries -> Answer \cup {None}] /\ fetch \in [Queries -> Fetches]
  BY DEF LogTyped
<1>1. Query' = Query
  BY ServeAlone DEF Query
<1>2. CASE r # q
  <2>1. cache'[r] = cache[r] /\ fetch'[r] = fetch[r]
    BY <1>0, <1>2 DEF ServeQuery, Count, List, Land, Retry, GiveUp, Forget
  <2> QED BY <1>1, <1>2, <2>1 DEF Held, Looked
<1>3. CASE r = q /\ Count(q)
  <2>1. cache' = cache /\ fetch[r].st = "asked"
        /\ fetch'[r] = [st |-> "counted", total |-> Cardinality(Matching(q[2]))]
    BY <1>0, <1>3 DEF Count
  <2> QED BY <1>1, <1>3, <2>1 DEF Held, Looked
<1>4. CASE r = q /\ List(q)
  <2>1. fetch'[r].st = "listed" /\ fetch[r].st = "counted" /\ cache' = cache
    BY <1>0, <1>4 DEF List
  <2> QED BY <1>1, <1>4, <2>1 DEF Looked
<1>5. CASE r = q /\ Land(q)
  <2>1. fetch[r].st = "listed" /\ fetch'[r] = NoFetch /\ cache'[r] = fetch[r].answer
    BY <1>0, <1>5 DEF Land
  <2> QED BY <1>1, <1>5, <2>1 DEF Held, Looked
<1>6. CASE r = q /\ (Retry(q) \/ GiveUp(q))
  <2>1. cache' = cache /\ fetch[r] # NoFetch /\ fetch'[r].st \in {"asked", "none"}
    BY <1>0, <1>6 DEF Retry, GiveUp
  <2> QED BY <1>1, <1>6, <2>1 DEF Held, Looked
<1>7. CASE r = q /\ Forget(q)
  <2>1. cache'[r] = None /\ fetch' = fetch /\ cache[r] # None
    BY <1>0, <1>7 DEF Forget
  <2> QED BY <1>1, <1>7, <2>1 DEF Held, Looked
<1> QED BY <1>2, <1>3, <1>4, <1>5, <1>6, <1>7 DEF ServeQuery

\* The SELECT adds one answer, of what the filter matches now.
LEMMA ListHeld ==
  ASSUME LogTyped, NEW q \in Queries, List(q)
  PROVE  \E a \in Answer :
           /\ a.items = Slice(Matching(q[2]), PageSize, q[1] * PageSize)
           /\ a.total = fetch[q].total /\ a.all = Matching(q[2]) /\ a.at = changes
           /\ \A r \in Queries : Held(r)' \subseteq Held(r) \cup (IF r = q THEN {a} ELSE {})
           /\ fetch[q].st = "counted"
<1> DEFINE items == Slice(Matching(q[2]), PageSize, q[1] * PageSize)
           a == [items |-> items, total |-> fetch[q].total, all |-> Matching(q[2]), at |-> changes]
<1>1. /\ a \in Answer /\ [st |-> "listed", answer |-> a] \in Fetches
      /\ fetch' = [fetch EXCEPT ![q] = [st |-> "listed", answer |-> a]]
      /\ fetch[q].st = "counted" /\ cache' = cache
  BY ListTyped
<1>2. a.items = items /\ a.total = fetch[q].total /\ a.all = Matching(q[2]) /\ a.at = changes
  OBVIOUS
<1> HIDE DEF a
<1>3. ASSUME NEW r \in Queries
      PROVE  Held(r)' \subseteq Held(r) \cup (IF r = q THEN {a} ELSE {})
  <2>1. CASE r = q
    <3>1. fetch'[r] = [st |-> "listed", answer |-> a]
      BY <1>1, <2>1 DEF LogTyped
    <3>2. fetch'[r].answer = a /\ cache'[r] = cache[r]
      BY <1>1, <3>1
    <3> QED BY <2>1, <3>2 DEF Held
  <2>2. CASE r # q
    <3>1. fetch'[r] = fetch[r] /\ cache'[r] = cache[r]
      BY <1>1, <2>2 DEF LogTyped
    <3> QED BY <3>1 DEF Held
  <2> QED BY <2>1, <2>2
<1> QED BY <1>1, <1>2, <1>3

\* A request answers faithfully.
LEMMA ServeFaithful ==
  ASSUME LogTyped, AnswersFaithful, Growing, NEW q \in Queries, ServeQuery(q)
  PROVE  AnswersFaithful' /\ Growing'
<1>1. UNCHANGED <<stored, dropped, changes>>
  BY ServeAlone
<1>2. CASE ~List(q)
  BY <1>1, <1>2, ServeHeld, FaithfulKept
<1>3. CASE List(q)
  <2>1. PICK a \in Answer :
          /\ a.items = Slice(Matching(q[2]), PageSize, q[1] * PageSize)
          /\ a.all = Matching(q[2]) /\ a.at = changes
          /\ \A r \in Queries : Held(r)' \subseteq Held(r) \cup (IF r = q THEN {a} ELSE {})
    BY <1>3, ListHeld
  <2>2. changes \in Nat
    BY DEF LogTyped
  <2>3. ASSUME NEW r \in Queries, NEW b, Faithful(r, b) PROVE Faithful(r, b)'
    BY <1>1, <2>3 DEF Faithful, Matching
  <2>4. Faithful(q, a)
    BY <2>1, <2>2 DEF Faithful
  <2>5. AnswersFaithful'
    BY <2>1, <2>3, <2>4 DEF AnswersFaithful
  <2>6. Growing'
    <3> SUFFICES ASSUME NEW r \in Queries, NEW s \in Queries, r[2] = s[2],
                        NEW b \in Held(r)', NEW c \in Held(s)', b.at <= c.at
                 PROVE  b.all \ Due \subseteq c.all
      BY DEF Growing
    <3>1. CASE b \in Held(r) /\ c \in Held(s)
      BY <3>1 DEF Growing
    <3>2. CASE s = q /\ c = a
      <4>1. Faithful(r, b) \/ (r = q /\ b = a)
        BY <2>1 DEF AnswersFaithful
      <4> QED BY <2>1, <3>2, <4>1 DEF Faithful
    <3>3. CASE r = q /\ b = a /\ c \in Held(s)
      <4>1. Faithful(s, c) /\ c.at \in Nat
        BY <3>3, HeldAnswers DEF AnswersFaithful
      <4>2. c.at = changes
        BY <2>1, <2>2, <3>3, <4>1 DEF Faithful
      <4> QED BY <2>1, <3>3, <4>1, <4>2 DEF Faithful
    <3> QED BY <2>1, <3>1, <3>2, <3>3
  <2> QED BY <2>5, <2>6
<1> QED BY <1>2, <1>3

\* So does the table when it changes.
LEMMA TableFaithful ==
  ASSUME LogTyped, AnswersFaithful, Growing, UNCHANGED client, changes' = changes + 1,
         stored \ Due \subseteq stored'
  PROVE  AnswersFaithful' /\ Growing'
<1>1. \A r \in Queries : Held(r)' = Held(r)
  BY DEF Held, client
<1>2. ASSUME NEW r \in Queries, NEW a \in Held(r) PROVE Faithful(r, a)'
  <2>1. Faithful(r, a) /\ a.at \in Nat /\ changes \in Nat
    BY HeldAnswers DEF AnswersFaithful, LogTyped
  <2>2. a.all \ Due \subseteq Matching(r[2])'
    BY <2>1 DEF Faithful, Matching
  <2>3. a.at <= changes' /\ a.at # changes'
    BY <2>1 DEF Faithful
  <2> QED BY <2>1, <2>2, <2>3 DEF Faithful
<1> QED BY <1>1, <1>2 DEF AnswersFaithful, Growing
-----------------------------------------------------------------------------
(* Pages                                                                    *)

\* A request leaves the pages where they are.
LEMMA ServePages ==
  ASSUME LogTyped, PagesExist, NEW q \in Queries, ServeQuery(q)
  PROVE  PagesExist'
<1> SUFFICES ASSUME dropped = {}, NEW r \in Queries
             PROVE  /\ Looked(r)' => Exists(Matching(r[2]), r)
                    /\ fetch'[r].st = "counted" => fetch'[r].total <= Cardinality(Matching(r[2]))
                    /\ \A a \in Held(r)' : a.total <= Cardinality(Matching(r[2])) /\ Exists(a.all, r)
  BY ServeAlone DEF PagesExist, Matching, Exists
<1>1. Cardinality(Matching(r[2])) \in Nat
  BY QueryParts, MatchingEvents
<1>2. Looked(r)' => Exists(Matching(r[2]), r)
  BY ServeHeld DEF PagesExist
<1>3. fetch'[r].st = "counted" => fetch'[r].total <= Cardinality(Matching(r[2]))
  BY <1>1, ServeHeld DEF PagesExist
<1>4. ASSUME NEW a \in Held(r)'
      PROVE  a.total <= Cardinality(Matching(r[2])) /\ Exists(a.all, r)
  <2>1. CASE ~(r = q /\ List(q))
    BY <2>1, ServeHeld DEF PagesExist
  <2>2. CASE r = q /\ List(q)
    <3>1. PICK b \in Answer :
            /\ b.total = fetch[q].total /\ b.all = Matching(q[2])
            /\ Held(r)' \subseteq Held(r) \cup {b} /\ fetch[q].st = "counted"
      BY <2>2, ListHeld
    <3>2. Looked(q)
      BY <3>1 DEF Looked, NoFetch
    <3> QED BY <2>2, <3>1, <3>2 DEF PagesExist
  <2> QED BY <2>1, <2>2
<1> QED BY <1>2, <1>3, <1>4

\* An event moves the end of the log further away.
LEMMA InsertPages ==
  ASSUME LogTyped, PagesExist, NEW e \in Events, Insert(e)
  PROVE  PagesExist'
<1>1. UNCHANGED <<dropped, page, appliedFilter, cache, fetch>> /\ stored' = stored \cup {e}
  BY DEF Insert, client
<1> SUFFICES ASSUME dropped = {}, NEW r \in Queries
             PROVE  /\ Looked(r) => Exists(Matching(r[2])', r)
                    /\ fetch[r].st = "counted" => fetch[r].total <= Cardinality(Matching(r[2])')
                    /\ \A a \in Held(r) : a.total <= Cardinality(Matching(r[2])') /\ Exists(a.all, r)
  BY <1>1 DEF PagesExist, Looked, Query, Held, Exists
<1>2. Matching(r[2])' \in SUBSET Events /\ Matching(r[2]) \subseteq Matching(r[2])'
  BY <1>1, QueryParts DEF Matching, LogTyped
<1>3. /\ Cardinality(Matching(r[2])) \in Nat /\ Cardinality(Matching(r[2])') \in Nat
      /\ Cardinality(Matching(r[2])) <= Cardinality(Matching(r[2])')
  BY <1>2, EventSets, FS_Subset
<1>4. r[1] * PageSize \in Nat
  BY QueryParts, PageStarts
<1>5. fetch[r].st = "counted" => fetch[r].total \in Nat
  BY FetchKinds DEF LogTyped
<1>6. \A a \in Held(r) : a.total \in Nat
  BY HeldAnswers
<1> QED BY <1>3, <1>4, <1>5, <1>6 DEF PagesExist, Exists

\* The user goes to a page that exists.
LEMMA GoPages ==
  ASSUME LogTyped, PagesExist, NEW p \in 0..Last, NEW f \in Filters, NEW seen, Go(p, f, seen),
         dropped = {} => Exists(Matching(f), <<p, f>>)
  PROVE  PagesExist'
<1>1. /\ UNCHANGED <<stored, dropped, changes, cache>> /\ page' = p /\ appliedFilter' = f
      /\ Look(<<p, f>>) /\ <<p, f>> \in Queries
  BY QueryParts DEF Go, table
<1>2. /\ \A r \in Queries : Held(r)' = Held(r)
      /\ \A r \in Queries : fetch'[r] = fetch[r] \/ (r = <<p, f>> /\ fetch'[r] = [st |-> "asked"])
  BY <1>1, LookStep
<1>3. \A r \in Queries : Looked(r)' => Looked(r) \/ r = <<p, f>>
  BY <1>1, <1>2 DEF Looked, Query
<1>4. \A r \in Queries : fetch'[r].st = "counted" => fetch'[r] = fetch[r]
  BY <1>2
<1>5. \A r \in Queries : Matching(r[2])' = Matching(r[2])
  BY <1>1 DEF Matching
<1> SUFFICES ASSUME dropped = {}, NEW r \in Queries
             PROVE  /\ Looked(r)' => Exists(Matching(r[2]), r)
                    /\ fetch'[r].st = "counted" => fetch'[r].total <= Cardinality(Matching(r[2]))
                    /\ \A a \in Held(r) : a.total <= Cardinality(Matching(r[2])) /\ Exists(a.all, r)
  BY <1>1, <1>2, <1>5 DEF PagesExist, Exists
<1>6. Looked(r)' => Exists(Matching(r[2]), r)
  BY <1>3 DEF PagesExist, Exists
<1> QED BY <1>4, <1>6 DEF PagesExist

\* A page reached by the buttons, or the first one, exists.
LEMMA ButtonPages ==
  ASSUME LogTyped, PagesExist,
         NextPage \/ PrevPage \/ Return \/ \E f \in Filters : Apply(f)
  PROVE  PagesExist'
<1>1. CASE NextPage
  <2>1. /\ Shown \in Held(Query) /\ Shown.total \in 0..Last /\ page + 1 \in 0..Last
        /\ (page + 1) * PageSize < Shown.total /\ Query \in Queries /\ Query[2] = appliedFilter
    BY <1>1, NextInRange, QueryParts DEF NextPage, Answer
  <2>2. appliedFilter \in Filters /\ Cardinality(Matching(appliedFilter)) \in Nat
        /\ (page + 1) * PageSize \in Nat
    BY <2>1, MatchingEvents, PageStarts DEF LogTyped
  <2>3. dropped = {} => (page + 1) * PageSize < Cardinality(Matching(appliedFilter))
    BY <2>1, <2>2 DEF PagesExist
  <2>4. dropped = {} => Exists(Matching(appliedFilter), <<page + 1, appliedFilter>>)
    BY <2>3 DEF Exists
  <2>5. Go(page + 1, appliedFilter, Seen)
    BY <1>1 DEF NextPage
  <2> QED BY <2>1, <2>2, <2>4, <2>5, GoPages
<1>2. CASE PrevPage
  <2>1. page \in Nat /\ page > 0 /\ page - 1 \in 0..Last /\ appliedFilter \in Filters
        /\ Cardinality(Matching(appliedFilter)) \in Nat
    BY <1>2, MatchingEvents DEF PrevPage, LogTyped
  <2>2. Looked(Query) /\ Query \in Queries /\ Query[1] = page /\ Query[2] = appliedFilter
    BY QueryParts DEF Looked
  <2>3. dropped = {} => page * PageSize < Cardinality(Matching(appliedFilter))
    BY <2>1, <2>2 DEF PagesExist, Exists
  <2>4. (page - 1) * PageSize \in Nat /\ page * PageSize = (page - 1) * PageSize + PageSize
    <3>1. page - 1 \in Nat /\ (page - 1) + 1 = page
      BY <2>1
    <3> QED BY <3>1, PageStarts
  <2>5. dropped = {} => Exists(Matching(appliedFilter), <<page - 1, appliedFilter>>)
    BY <2>1, <2>3, <2>4, PageStarts DEF Exists
  <2>6. Go(page - 1, appliedFilter, NoWalk)
    BY <1>2 DEF PrevPage
  <2> QED BY <2>1, <2>5, <2>6, GoPages
<1>3. ASSUME NEW f \in Filters, Go(0, f, NoWalk) PROVE PagesExist'
  <2>1. Exists(Matching(f), <<0, f>>) /\ 0 \in 0..Last
    BY DEF Exists
  <2> QED BY <1>3, <2>1, GoPages
<1> QED BY <1>1, <1>2, <1>3 DEF Apply, Return

\* Every step leaves the pages that are looked at.
LEMMA PagesStep ==
  ASSUME LogTyped, PagesExist, [LogNext]_logVars
  PROVE  PagesExist'
<1>1. ASSUME NEW e \in Events, Insert(e) PROVE PagesExist'
  BY <1>1, InsertPages
<1>2. ASSUME NEW m \in Old, Drop(m) PROVE PagesExist'
  BY <1>2 DEF Drop, PagesExist
<1>3. ASSUME NEW q \in Queries, ServeQuery(q) PROVE PagesExist'
  BY <1>3, ServePages
<1>4. CASE Refocus
  <2>1. /\ UNCHANGED <<stored, dropped, page, appliedFilter, cache>> /\ Query \in Queries
        /\ Look(Query)
    BY <1>4, QueryParts DEF Refocus, table
  <2>2. /\ \A r \in Queries : Held(r)' = Held(r)
        /\ \A r \in Queries : fetch'[r] = fetch[r] \/ (r = Query /\ fetch'[r] = [st |-> "asked"])
    BY <2>1, LookStep
  <2>3. \A r \in Queries : /\ Looked(r)' => Looked(r)
                           /\ fetch'[r].st = "counted" => fetch'[r] = fetch[r]
    BY <2>1, <2>2 DEF Looked, Query
  <2> QED BY <2>1, <2>2, <2>3 DEF PagesExist, Exists, Matching
<1>5. ASSUME UNCHANGED <<table, client>> PROVE PagesExist'
  BY <1>5 DEF PagesExist, Exists, Matching, Looked, Query, Held, table, client
<1>6. CASE Export \/ ExportDone \/ ExportFailed \/ UNCHANGED logVars
  BY <1>5, <1>6 DEF Export, ExportDone, ExportFailed, logVars
<1> QED BY <1>1, <1>2, <1>3, <1>4, <1>6, ButtonPages DEF LogNext, ServeQuery

-----------------------------------------------------------------------------
(* The walk                                                                 *)

\* What was covered stays covered when events come and old ones go.
LEMMA CoveredGrows ==
  ASSUME NEW A \in SUBSET Events, NEW B \in SUBSET Events, A \ Due \subseteq B, Covered(A),
         page \in Nat
  PROVE  Covered(B)
<1> SUFFICES ASSUME NEW e \in walk.base \ Due
             PROVE  e \in B /\ (Rank(B, e) < page * PageSize => e \in walk.seen)
  BY DEF Covered
<1>1. e \in A /\ e \in B /\ e \in Events
  BY DEF Covered
<1>2. Rank(A, e) <= Rank(B, e)
  BY <1>1, RankGrows
<1>3. Rank(A, e) \in Nat /\ Rank(B, e) \in Nat /\ page * PageSize \in Nat
  BY <1>1, RankBound, PageStarts
<1> QED BY <1>1, <1>2, <1>3 DEF Covered

\* What the page shown adds: of what the walk started from, its answer has all, and the user
\* has seen what it has up to the end of this page.
LEMMA SeenCovers ==
  ASSUME LogTyped, AnswersFaithful, WalkCovered, Shown # None, Seen # NoWalk,
         NEW e \in Seen.base \ Due
  PROVE  e \in Shown.all /\ (Rank(Shown.all, e) < (page + 1) * PageSize => e \in Seen.seen)
<1> DEFINE A == Shown.all
<1>1. Query \in Queries /\ Query[1] = page /\ Query[2] = appliedFilter /\ page \in Nat
  BY QueryParts DEF LogTyped
<1>2. Shown \in Held(Query)
  BY DEF Shown, Held
<1>3. /\ Shown.all \in SUBSET Events /\ Shown.items = Slice(Shown.all, PageSize, page * PageSize)
      /\ Shown.at \in Nat
  BY <1>1, <1>2, HeldAnswers DEF AnswersFaithful, Faithful
<1>4. page * PageSize \in Nat /\ (page + 1) * PageSize = page * PageSize + PageSize
  BY <1>1, PageStarts
<1>5. ASSUME e \in A, ~(Rank(A, e) < page * PageSize), Rank(A, e) < (page + 1) * PageSize
      PROVE  e \in Shown.items
  <2>1. Rank(A, e) \in Nat
    BY <1>3, <1>5, RankBound
  <2>2. page * PageSize <= Rank(A, e) /\ Rank(A, e) < page * PageSize + PageSize
    BY <1>4, <1>5, <2>1
  <2> QED BY <1>3, <1>4, <1>5, <2>2, SliceRanks
<1>6. CASE page = 0
  <2>1. Seen = [base |-> Shown.all, seen |-> Shown.items, at |-> Shown.at]
    BY <1>6 DEF Seen
  <2>2. e \in A /\ Rank(A, e) \in Nat /\ ~(Rank(A, e) < page * PageSize)
    BY <1>3, <1>6, <2>1, PageStarts, RankBound
  <2> QED BY <1>5, <2>1, <2>2
<1>7. CASE page # 0 /\ page > 0 /\ walk # NoWalk /\ Shown.at >= walk.at
  <2>1. Seen = [walk EXCEPT !.seen = walk.seen \cup Shown.items, !.at = Shown.at]
    BY <1>7 DEF Seen
  <2>2. walk \in [base : SUBSET Events, seen : SUBSET Events, at : Nat]
    BY <1>7 DEF LogTyped
  <2>3. Seen.base = walk.base /\ Seen.seen = walk.seen \cup Shown.items
    BY <2>1, <2>2
  <2>4. Covered(Shown.all)
    BY <1>1, <1>2, <1>7 DEF WalkCovered
  <2>5. e \in A /\ (Rank(A, e) < page * PageSize => e \in walk.seen)
    BY <2>3, <2>4 DEF Covered
  <2> QED BY <1>5, <2>3, <2>5
<1>8. CASE page # 0 /\ ~(page > 0 /\ walk # NoWalk /\ Shown.at >= walk.at)
  BY <1>8 DEF Seen
<1> QED BY <1>6, <1>7, <1>8

\* A request leaves the walk covered.
LEMMA ServeWalk ==
  ASSUME LogTyped, AnswersFaithful, WalkCovered, NEW q \in Queries, ServeQuery(q)
  PROVE  WalkCovered'
<1>1. UNCHANGED <<stored, page, appliedFilter, walk>>
  BY ServeAlone
<1>2. \A all : Covered(all)' <=> Covered(all)
  BY <1>1 DEF Covered
<1> SUFFICES ASSUME walk # NoWalk, NEW r \in Queries, r[2] = appliedFilter, NEW a \in Held(r)',
                    a.at >= walk.at
             PROVE  Covered(a.all)
  BY <1>1, <1>2 DEF WalkCovered, Matching, Covered
<1>3. CASE a \in Held(r)
  BY <1>3 DEF WalkCovered
<1>4. CASE a \notin Held(r)
  <2>1. r = q /\ List(q)
    BY <1>4, ServeHeld
  <2>2. PICK b \in Answer : b.all = Matching(q[2]) /\ Held(r)' \subseteq Held(r) \cup {b}
    BY <2>1, ListHeld
  <2> QED BY <1>4, <2>1, <2>2 DEF WalkCovered
<1> QED BY <1>3, <1>4

\* So does the table.
LEMMA TableWalk ==
  ASSUME LogTyped, LogTyped', WalkCovered, UNCHANGED <<client, walk>>,
         stored \ Due \subseteq stored'
  PROVE  WalkCovered'
<1>1. UNCHANGED <<page, appliedFilter, cache, fetch, walk>> /\ appliedFilter \in Filters
      /\ page \in Nat
  BY DEF client, LogTyped
<1>3. \A r \in Queries : Held(r)' = Held(r)
  BY <1>1 DEF Held
<1>4. Matching(appliedFilter) \in SUBSET Events /\ Matching(appliedFilter)' \in SUBSET Events
      /\ Matching(appliedFilter) \ Due \subseteq Matching(appliedFilter)'
  BY <1>1 DEF Matching, LogTyped
<1> SUFFICES ASSUME walk # NoWalk
             PROVE  /\ Covered(Matching(appliedFilter)')
                    /\ \A r \in Queries : r[2] = appliedFilter =>
                         \A a \in Held(r) : a.at >= walk.at => Covered(a.all)
  BY <1>1, <1>3 DEF WalkCovered, Matching, Covered
<1>5. Covered(Matching(appliedFilter)')
  BY <1>1, <1>4, CoveredGrows DEF WalkCovered
<1> QED BY <1>5 DEF WalkCovered

\* The user walks on: what follows the page shown has what its answer has.
LEMMA NextWalk ==
  ASSUME LogTyped, LogTyped', AnswersFaithful, Growing, WalkCovered, NextPage
  PROVE  WalkCovered'
<1>1. /\ Shown # None /\ Shown \in Held(Query) /\ Shown \in Answer /\ page + 1 \in 0..Last
  BY NextInRange DEF NextPage
<1>2. Query \in Queries /\ Query[2] = appliedFilter /\ appliedFilter \in Filters /\ page \in Nat
  BY QueryParts DEF LogTyped
<1>3. /\ page' = page + 1 /\ walk' = Seen /\ UNCHANGED <<stored, appliedFilter, cache>>
      /\ Look(<<page + 1, appliedFilter>>) /\ <<page + 1, appliedFilter>> \in Queries
  BY <1>1, <1>2, QueryParts DEF NextPage, Go, table
<1>4. \A r \in Queries : Held(r)' = Held(r)
  BY <1>3, LookStep
<1> SUFFICES ASSUME Seen # NoWalk PROVE WalkCovered'
  BY <1>3 DEF WalkCovered
<1> DEFINE A == Shown.all
<1>5. A \in SUBSET Events /\ Shown.at \in Nat /\ Seen.at = Shown.at
  <2>1. A \in SUBSET Events /\ Shown.at \in Nat
    BY <1>1 DEF Answer
  <2>2. CASE page = 0
    BY <2>1, <2>2 DEF Seen
  <2>3. CASE page # 0 /\ page > 0 /\ walk # NoWalk /\ Shown.at >= walk.at
    <3>1. Seen = [walk EXCEPT !.seen = walk.seen \cup Shown.items, !.at = Shown.at]
      BY <2>3 DEF Seen
    <3>2. walk \in [base : SUBSET Events, seen : SUBSET Events, at : Nat]
      BY <2>3 DEF LogTyped
    <3> QED BY <2>1, <3>1, <3>2
  <2>4. CASE page # 0 /\ ~(page > 0 /\ walk # NoWalk /\ Shown.at >= walk.at)
    BY <2>4 DEF Seen
  <2> QED BY <2>1, <2>2, <2>3, <2>4
<1>6. ASSUME NEW B \in SUBSET Events, A \ Due \subseteq B PROVE Covered(B)'
  <2> SUFFICES ASSUME NEW e \in Seen.base \ Due
               PROVE  e \in B /\ (Rank(B, e) < (page + 1) * PageSize => e \in Seen.seen)
    BY <1>3 DEF Covered
  <2>1. e \in A /\ (Rank(A, e) < (page + 1) * PageSize => e \in Seen.seen)
    BY <1>1, SeenCovers
  <2>2. Rank(A, e) <= Rank(B, e)
    BY <1>5, <1>6, <2>1, RankGrows
  <2>3. Rank(A, e) \in Nat /\ Rank(B, e) \in Nat /\ (page + 1) * PageSize \in Nat
    BY <1>2, <1>5, <1>6, <2>1, RankBound, PageStarts
  <2> QED BY <1>6, <2>1, <2>2, <2>3
<1>7. Covered(Matching(appliedFilter))'
  <2>1. Matching(appliedFilter)' = Matching(appliedFilter) /\ Matching(appliedFilter) \in SUBSET Events
    BY <1>2, <1>3, MatchingEvents DEF Matching
  <2>2. A \ Due \subseteq Matching(appliedFilter)
    BY <1>1, <1>2 DEF AnswersFaithful, Faithful
  <2>3. Covered(Matching(appliedFilter))' <=>
          \A e \in walk'.base \ Due : e \in Matching(appliedFilter)
            /\ (Rank(Matching(appliedFilter), e) < page' * PageSize => e \in walk'.seen)
    BY <2>1 DEF Covered
  <2> QED BY <1>6, <2>1, <2>2, <2>3 DEF Covered
<1>8. ASSUME NEW r \in Queries, r[2] = appliedFilter, NEW a \in Held(r), a.at >= Seen.at
      PROVE  Covered(a.all)'
  <2>1. a.all \in SUBSET Events /\ a.at \in Nat
    BY HeldAnswers
  <2>2. A \ Due \subseteq a.all
    BY <1>1, <1>2, <1>5, <1>8, <2>1 DEF Growing
  <2> QED BY <1>6, <2>1, <2>2
<1> QED BY <1>3, <1>4, <1>7, <1>8 DEF WalkCovered

\* Every step leaves the walk covered.
LEMMA WalkStep ==
  ASSUME LogTyped, LogTyped', AnswersFaithful, Growing, WalkCovered, [LogNext]_logVars
  PROVE  WalkCovered'
<1>1. ASSUME NEW e \in Events, Insert(e) PROVE WalkCovered'
  BY <1>1, TableWalk DEF Insert
<1>2. ASSUME NEW m \in Old, Drop(m) PROVE WalkCovered'
  <2>1. m \subseteq Due
    BY DEF Due
  <2> QED BY <1>2, <2>1, TableWalk DEF Drop
<1>3. ASSUME NEW q \in Queries, ServeQuery(q) PROVE WalkCovered'
  BY <1>3, ServeWalk
<1>4. CASE PrevPage \/ Return \/ \E f \in Filters : Apply(f)
  BY <1>4 DEF PrevPage, Return, Apply, Go, WalkCovered
<1>5. ASSUME UNCHANGED <<stored, page, appliedFilter, walk>>, \A r \in Queries : Held(r)' = Held(r)
      PROVE  WalkCovered'
  <2>1. ASSUME walk # NoWalk PROVE Covered(Matching(appliedFilter))'
    <3>1. Covered(Matching(appliedFilter))
      BY <2>1 DEF WalkCovered
    <3> QED BY <1>5, <3>1 DEF Covered, Matching
  <2>2. ASSUME walk # NoWalk, NEW r \in Queries, r[2] = appliedFilter, NEW a \in Held(r),
               a.at >= walk.at
        PROVE  Covered(a.all)'
    <3>1. Covered(a.all)
      BY <2>2 DEF WalkCovered
    <3> QED BY <1>5, <3>1 DEF Covered
  <2> QED BY <1>5, <2>1, <2>2 DEF WalkCovered
<1>6. CASE Refocus
  <2>1. \A r \in Queries : Held(r)' = Held(r)
    BY <1>6, QueryParts, LookStep DEF Refocus
  <2> QED BY <1>5, <1>6, <2>1 DEF Refocus, table
<1>7. CASE Export \/ ExportDone \/ ExportFailed \/ UNCHANGED logVars
  <2>1. UNCHANGED <<table, client, walk>>
    BY <1>7 DEF Export, ExportDone, ExportFailed, logVars
  <2> QED BY <1>5, <2>1 DEF Held, table, client
<1> QED BY <1>1, <1>2, <1>3, <1>4, <1>6, <1>7, NextWalk DEF LogNext, ServeQuery

\* Every step leaves the answers faithful.
LEMMA AnswerStep ==
  ASSUME LogTyped, AnswersFaithful, Growing, [LogNext]_logVars
  PROVE  AnswersFaithful' /\ Growing'
<1>1. ASSUME NEW e \in Events, Insert(e) PROVE AnswersFaithful' /\ Growing'
  BY <1>1, TableFaithful DEF Insert
<1>2. ASSUME NEW m \in Old, Drop(m) PROVE AnswersFaithful' /\ Growing'
  <2>1. m \subseteq Due
    BY DEF Due
  <2> QED BY <1>2, <2>1, TableFaithful DEF Drop
<1>3. ASSUME NEW q \in Queries, ServeQuery(q) PROVE AnswersFaithful' /\ Growing'
  BY <1>3, ServeFaithful
<1>4. ASSUME NEW q \in Queries, Look(q), UNCHANGED <<table, cache>>
      PROVE  AnswersFaithful' /\ Growing'
  BY <1>4, LookStep, FaithfulKept DEF table
<1>5. ASSUME NEW p \in 0..Last, NEW f \in Filters, NEW seen, Go(p, f, seen)
      PROVE  AnswersFaithful' /\ Growing'
  BY <1>4, <1>5, QueryParts DEF Go
<1>6. CASE NextPage
  BY <1>5, <1>6, NextInRange DEF NextPage, LogTyped
<1>7. CASE PrevPage
  <2>1. page - 1 \in 0..Last /\ appliedFilter \in Filters
    BY <1>7 DEF PrevPage, LogTyped
  <2> QED BY <1>5, <1>7, <2>1 DEF PrevPage
<1>8. CASE Return \/ \E f \in Filters : Apply(f)
  BY <1>5, <1>8 DEF Return, Apply
<1>9. CASE Refocus
  BY <1>4, <1>9, QueryParts DEF Refocus
<1>10. CASE Export \/ ExportDone \/ ExportFailed \/ UNCHANGED logVars
  <2>1. UNCHANGED <<table, client>>
    BY <1>10 DEF Export, ExportDone, ExportFailed, logVars
  <2> QED BY <2>1, FaithfulKept DEF Held, table, client
<1> QED BY <1>1, <1>2, <1>3, <1>6, <1>7, <1>8, <1>9, <1>10 DEF LogNext, ServeQuery

\* The file is what the SELECT of the export finds.
LEMMA ExportStep ==
  ASSUME LogTyped, ExportIsWhole, [LogNext]_logVars
  PROVE  ExportIsWhole'
<1>1. CASE ExportDone
  <2> DEFINE all == Matching(export)
  <2>1. file' = [items |-> Slice(all, ExportLimit, 0), all |-> all] /\ all \in SUBSET Events
    BY <1>1, MatchingEvents DEF ExportDone, LogTyped
  <2>2. \A e \in all : e \in Slice(all, ExportLimit, 0) \/ Rank(all, e) >= ExportLimit
    <3> SUFFICES ASSUME NEW e \in all, Rank(all, e) < ExportLimit
                 PROVE  e \in Slice(all, ExportLimit, 0)
      BY <2>1, RankBound
    <3>1. Rank(all, e) \in Nat
      BY <2>1, RankBound
    <3> HIDE DEF all
    <3> QED BY <2>1, <3>1, SliceRanks
  <2> HIDE DEF all
  <2>3. file'.all = all /\ file'.items = Slice(all, ExportLimit, 0)
    BY <2>1
  <2> QED BY <2>2, <2>3 DEF ExportIsWhole, Rank
<1>2. CASE file' = file
  BY <1>2 DEF ExportIsWhole
<1>3. ASSUME NEW q \in Queries, ServeQuery(q) PROVE file' = file
  BY <1>3, ServeAlone
<1>4. file' = file \/ ExportDone
  BY <1>3 DEF LogNext, ServeQuery, Insert, Drop, NextPage, PrevPage, Apply, Return, Go, Refocus, Export,
              ExportFailed, logVars
<1> QED BY <1>1, <1>2, <1>4

\* All this holds at first.
LEMMA ReadingInit == LogInit => ReadingInv
<1> SUFFICES ASSUME LogInit PROVE ReadingInv
  OBVIOUS
<1>1. stored \subseteq Events /\ dropped = {} /\ changes = 0 /\ page = 0
      /\ appliedFilter = NoFilter /\ walk = NoWalk /\ export = None /\ file = None
      /\ cache = [q \in Queries |-> None]
  BY DEF LogInit
<1>2. \A q \in Queries : fetch[q] \in Fetches /\ fetch[q].st \in {"asked", "none"}
                         /\ (fetch[q] # NoFetch => q = Query)
  BY DEF LogInit, Fetches, NoFetch
<1>3. LogTyped
  <2>1. fetch \in [Queries -> Fetches]
    BY <1>2 DEF LogInit
  <2> QED BY <1>1, <2>1 DEF LogTyped
<1>4. \A q \in Queries : Held(q) = {}
  BY <1>1, <1>2 DEF Held
<1>5. \A q \in Queries : Looked(q) => q[1] = 0
  BY <1>1, <1>2, <1>3, QueryParts DEF Looked
<1>6. PagesExist
  BY <1>2, <1>4, <1>5 DEF PagesExist, Exists
<1>7. AnswersFaithful /\ Growing /\ WalkCovered
  BY <1>1, <1>4 DEF AnswersFaithful, Growing, WalkCovered
<1>8. ExportIsWhole
  BY <1>1 DEF ExportIsWhole
<1> QED BY <1>3, <1>6, <1>7, <1>8 DEF ReadingInv

\* ReadingInv holds in every state of every behaviour.
LEMMA ReadingInvariant == LogSpec => []ReadingInv
<1>1. ReadingInv /\ [LogNext]_logVars => ReadingInv'
  BY LogTypeStep, AnswerStep, PagesStep, WalkStep, ExportStep DEF ReadingInv
<1> QED BY <1>1, ReadingInit, PTL DEF LogSpec

\* Whoever walks to the last page has seen every event of the first one's list that
\* retention is not to drop, whatever arrives and is dropped meanwhile and whatever the cache
\* shows: later answers are of a log that has only grown at its newer end and inside
\* (AuditPage.tsx, PAGE_SIZE and the next button; repository.go, LIMIT and OFFSET).
THEOREM WalksAreWhole == LogSpec => []WalkIsWhole
<1>1. ReadingInv => WalkIsWhole
  <2> SUFFICES ASSUME ReadingInv, Shown # None, ~HasNext, Seen # NoWalk,
                      Shown.total >= Cardinality(Shown.all), NEW e \in Seen.base \ Due
               PROVE  e \in Seen.seen
    BY DEF WalkIsWhole
  <2> DEFINE A == Shown.all
  <2>1. Query \in Queries /\ Query[1] = page /\ page \in Nat
    BY QueryParts DEF ReadingInv, LogTyped
  <2>2. Shown \in Held(Query)
    BY DEF Shown, Held
  <2>3. /\ A \in SUBSET Events /\ Shown.items = Slice(A, PageSize, page * PageSize)
        /\ Shown.total \in Nat
    BY <2>1, <2>2, HeldAnswers DEF ReadingInv, AnswersFaithful, Faithful
  <2>4. e \in A /\ (Rank(A, e) < (page + 1) * PageSize => e \in Seen.seen)
    BY SeenCovers DEF ReadingInv
  <2>5. Rank(A, e) < Cardinality(A) /\ Rank(A, e) \in Nat /\ Cardinality(A) \in Nat
    BY <2>3, <2>4, RankBound, EventSets
  <2>6. page * PageSize \in Nat /\ (page + 1) * PageSize = page * PageSize + PageSize
        /\ PageSize \in Nat /\ (page + 1) * PageSize \in Nat
    BY <2>1, PageStarts
  <2>7. CASE Shown.items = {}
    <3>1. Cardinality(A) <= page * PageSize
      BY <2>3, <2>6, <2>7, SliceEmpty
    <3> QED BY <2>4, <2>5, <2>6, <3>1
  <2>8. CASE Shown.items # {}
    <3>1. (page + 1) * PageSize >= Shown.total
      BY <2>3, <2>6, <2>8 DEF HasNext, Items
    <3> QED BY <2>3, <2>4, <2>5, <2>6, <3>1
  <2> QED BY <2>7, <2>8
<1> QED BY <1>1, ReadingInvariant, PTL

\* A page without events means a log without them, unless retention has dropped some: the
\* buttons lead to pages that exist, and while nothing is dropped they go on existing
\* (AuditPage.tsx, "no events").
THEOREM EmptyPagesMeanNone == LogSpec => []EmptyMeansNone
<1>1. ReadingInv => EmptyMeansNone
  <2> SUFFICES ASSUME ReadingInv, Shown # None, Items = {}, dropped = {}
               PROVE  Shown.all = {}
    BY DEF EmptyMeansNone, Settled
  <2> DEFINE A == Shown.all
  <2>1. Query \in Queries /\ Query[1] = page /\ page \in Nat /\ page * PageSize \in Nat
    BY QueryParts, PageStarts DEF ReadingInv, LogTyped
  <2>2. Shown \in Held(Query)
    BY DEF Shown, Held
  <2>3. A \in SUBSET Events /\ Slice(A, PageSize, page * PageSize) = {}
    BY <2>1, <2>2, HeldAnswers DEF ReadingInv, AnswersFaithful, Faithful, Items
  <2>4. Cardinality(A) <= page * PageSize /\ Cardinality(A) \in Nat /\ IsFiniteSet(A)
    BY <2>1, <2>3, SliceEmpty, EventSets
  <2>5. page = 0 \/ page * PageSize < Cardinality(A)
    BY <2>1, <2>2 DEF ReadingInv, PagesExist, Exists
  <2>6. Cardinality(A) = 0
    BY <2>1, <2>4, <2>5, PageStarts
  <2> QED BY <2>4, <2>6, FS_EmptySet
<1> QED BY <1>1, ReadingInvariant, PTL

\* The exported file has everything the filter matches, or the newest EXPORT_LIMIT of it
\* (AuditPage.tsx, exportCsv; repository.go, normalizeLimit).
THEOREM ExportsAreWhole == LogSpec => []ExportIsWhole
<1>1. ReadingInv => ExportIsWhole
  BY DEF ReadingInv
<1> QED BY <1>1, ReadingInvariant, PTL
=============================================================================
