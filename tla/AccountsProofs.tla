---------------------------- MODULE AccountsProofs ----------------------------
(***************************************************************************)
(* Proofs about Accounts: its type invariant, that a token is signed only  *)
(* for a request during which its user, the tenant and the password were   *)
(* in order, that only overlapping updates put a column back, and that a   *)
(* deleted user stays deleted, for any users, tenants, updates and clients. *)
(***************************************************************************)
EXTENDS Accounts, TLAPS

-----------------------------------------------------------------------------
(* The inductive invariant *)

\* A creation has its word and its tenant, only users are deleted, and what an update
\* has read is not a fresh id.
AskSound ==
  \A a \in Updates :
    /\ upc[a] = "create" =>
         ask[a].word \in Words /\ (Target(a) \in Users => Home[Target(a)] \in alive)
    /\ upc[a] = "delete" => Target(a) \in Users
    /\ upc[a] = "write" => Target(a) \notin fresh

\* The columns in which the row to be written differs from the one there is were asked
\* for, or others have written them.
CopySound ==
  \A a \in Updates : upc[a] = "write" /\ Target(a) \in alive =>
    \A f \in Columns :
      copy[a][f] # table[Target(a)][f] => Asked(a, f) \/ f \in behind[a]

\* A request under way has seen what is true now.
SeesNow ==
  \A c \in Clients : cpc[c] # "idle" => FactsOf(alive, table, who[c], given[c]) \subseteq seen[c]

\* What the checks a request has passed have looked at.
ChecksSeen ==
  \A c \in Clients : cpc[c] \in {"user", "sign"} => "tenant" \in seen[c]

IInv == TypeOK /\ AskSound /\ CopySound /\ SeesNow /\ ChecksSeen /\ TokenIsEarned

-----------------------------------------------------------------------------
(* Facts about the operators *)

\* The fields of a request laid over a row make a row, and differ from it only in
\* columns the request names.
LEMMA OntoRow ==
  ASSUME NEW r \in Row, NEW k \in Ask
  PROVE  /\ Onto(r, k) \in Row
         /\ k.status = "keep" => Onto(r, k).status = r.status
         /\ k.word = Keep => Onto(r, k).word = r.word
BY DEF Onto, Row, Ask, Statuses

\* Statuses and words are what a row has in its two columns.
LEMMA ColumnsOfRow ==
  ASSUME NEW r \in Row, NEW q \in Row, NEW f \in Columns, r[f] # q[f]
  PROVE  \/ f = "status" /\ r.status # q.status
         \/ f = "word" /\ r.word # q.word
BY DEF Columns

\* FactsOf is a set of facts.
LEMMA FactsAreFacts ==
  ASSUME NEW al, NEW tb, NEW u, NEW w
  PROVE  FactsOf(al, tb, u, w) \subseteq Facts
BY DEF FactsOf

-----------------------------------------------------------------------------
LEMMA InitInv == Init => IInv
<1> SUFFICES ASSUME Init PROVE IInv
  OBVIOUS
<1>1. Ask # {}
  <2>1. PICK t \in Tenants : TRUE
    BY AccountAssumption
  <2>2. [op |-> "update", row |-> t, status |-> "keep", word |-> Keep] \in Ask
    BY <2>1 DEF Ask, Rows
  <2> QED BY <2>2
<1>2. Row # {}
  <2>1. PICK w \in Words : TRUE
    BY AccountAssumption
  <2>2. [status |-> "active", word |-> w] \in Row
    BY <2>1 DEF Row, Statuses
  <2> QED BY <2>2
<1>3. table \in [Rows -> Row]
  BY AccountAssumption DEF Init, Row
<1>4. ask \in [Updates -> Ask] /\ copy \in [Updates -> Row]
  BY <1>1, <1>2 DEF Init
<1>5. TypeOK
  BY <1>3, <1>4 DEF Init, TypeOK, Places, Steps
<1>6. AskSound /\ CopySound /\ SeesNow /\ ChecksSeen /\ TokenIsEarned
  BY DEF Init, AskSound, CopySound, SeesNow, ChecksSeen, TokenIsEarned
<1> QED BY <1>5, <1>6 DEF IInv

-----------------------------------------------------------------------------
(* The clients *)

\* A change of the rows leaves the clients sound: they see it.
LEMMA ChangeIsSeen ==
  ASSUME IInv, NEW al, NEW tb, Change(al, tb), UNCHANGED <<cpc, who, given, token>>
  PROVE  /\ seen' \in [Clients -> SUBSET Facts]
         /\ SeesNow' /\ ChecksSeen' /\ TokenIsEarned'
<1>1. \A c \in Clients :
        seen'[c] = IF cpc[c] = "idle" THEN seen[c]
                   ELSE seen[c] \cup FactsOf(al, tb, who[c], given[c])
  BY DEF Change, Observed
<1>2. alive' = al /\ table' = tb
  BY DEF Change
<1>3. seen' \in [Clients -> SUBSET Facts]
  BY FactsAreFacts DEF IInv, TypeOK, Change, Observed
<1>4. \A c \in Clients : seen[c] \subseteq seen'[c]
  BY <1>1
<1>5. SeesNow'
  BY <1>1, <1>2 DEF SeesNow
<1>6. ChecksSeen'
  BY <1>4 DEF IInv, ChecksSeen
<1>7. TokenIsEarned'
  BY <1>4 DEF IInv, TokenIsEarned
<1> QED BY <1>3, <1>5, <1>6, <1>7

\* The same when the rows stay.
LEMMA RowsStay ==
  ASSUME IInv, UNCHANGED <<rows, clients>>
  PROVE  SeesNow' /\ ChecksSeen' /\ TokenIsEarned'
BY DEF IInv, rows, clients, SeesNow, ChecksSeen, TokenIsEarned, FactsOf, Active

\* The steps of a client keep the invariant.
LEMMA ClientKeeps ==
  ASSUME IInv, NEW c \in Clients, ClientStep(c)
  PROVE  IInv'
<1> USE DEF IInv
<1>0. UNCHANGED <<rows, updates>>
  BY DEF ClientStep, Login, Refresh, Request, Gate, Service, ReadTenant, ReadUser, Check,
         Sign, ClientFail, Expire
<1>1. AskSound' /\ CopySound'
  BY <1>0 DEF rows, updates, AskSound, CopySound, Target, Asked
<1>2. ASSUME NEW u \in Users, NEW w \in Words \cup {Keep}, NEW s \in {"tenant", "gate"},
             Request(c, u, w, s)
      PROVE  IInv'
  <2>1. FactsOf(alive, table, u, w) \subseteq Facts
    BY FactsAreFacts
  <2>2. TypeOK'
    BY <1>2, <1>0, <2>1 DEF Request, TypeOK, Steps, rows, updates
  <2>3. SeesNow'
    <3> SUFFICES ASSUME NEW d \in Clients, cpc'[d] # "idle"
                 PROVE  FactsOf(alive', table', who'[d], given'[d]) \subseteq seen'[d]
      BY DEF SeesNow
    <3>1. CASE d = c
      BY <3>1, <1>2, <1>0 DEF Request, TypeOK, rows
    <3>2. CASE d # c
      BY <3>2, <1>2, <1>0 DEF Request, TypeOK, SeesNow, rows
    <3> QED BY <3>1, <3>2
  <2>4. ChecksSeen' /\ TokenIsEarned'
    BY <1>2 DEF Request, TypeOK, ChecksSeen, TokenIsEarned
  <2> QED BY <2>2, <2>3, <2>4, <1>1
<1>3. CASE Login(c)
  BY <1>3, <1>2 DEF Login
<1>4. CASE Refresh(c)
  <2>1. who[c] \in Users /\ Keep \in Words \cup {Keep}
    BY DEF TypeOK
  <2> QED BY <1>4, <1>2, <2>1 DEF Refresh
<1>5. CASE Gate(c) \/ Service(c) \/ ReadTenant(c) \/ ReadUser(c)
  <2>1. TypeOK'
    BY <1>5, <1>0 DEF Gate, Service, ReadTenant, ReadUser, Check, TypeOK, Steps, rows, updates
  <2>2. SeesNow'
    BY <1>5, <1>0 DEF Gate, Service, ReadTenant, ReadUser, Check, TypeOK, SeesNow, rows
  <2>3. ChecksSeen'
    BY <1>5 DEF Gate, Service, ReadTenant, ReadUser, Check, TypeOK, ChecksSeen,
                SeesNow, FactsOf, Facts, TenantActive
  <2>4. TokenIsEarned'
    <3>1. CASE ReadUser(c)
      <4>1. cpc'[c] = "sign" =>
              {"tenant", "user"} \cup (IF given[c] = Keep THEN {} ELSE {"word"}) \subseteq seen[c]
        BY <3>1 DEF ReadUser, Check, TypeOK, ChecksSeen, SeesNow, FactsOf, Facts, Active
      <4> QED BY <3>1, <4>1 DEF ReadUser, Check, TypeOK, TokenIsEarned
    <3>2. CASE Gate(c) \/ Service(c) \/ ReadTenant(c)
      BY <3>2 DEF Gate, Service, ReadTenant, Check, TypeOK, TokenIsEarned
    <3> QED BY <1>5, <3>1, <3>2
  <2> QED BY <2>1, <2>2, <2>3, <2>4, <1>1
<1>6. CASE Sign(c) \/ ClientFail(c) \/ Expire(c)
  <2>1. TypeOK'
    BY <1>6, <1>0 DEF Sign, ClientFail, Expire, TypeOK, Steps, rows, updates
  <2>2. SeesNow' /\ ChecksSeen' /\ TokenIsEarned'
    BY <1>6, <1>0 DEF Sign, ClientFail, Expire, TypeOK, SeesNow, ChecksSeen, TokenIsEarned,
                      rows
  <2> QED BY <2>1, <2>2, <1>1
<1> QED BY <1>3, <1>4, <1>5, <1>6 DEF ClientStep

-----------------------------------------------------------------------------
(* The updates *)

LEMMA ArriveKeeps ==
  ASSUME IInv, NEW a \in Updates, Arrive(a)
  PROVE  IInv'
<1> USE DEF IInv
<1>1. PICK k \in Ask :
        /\ k.op = "create" => k.row \in fresh /\ k.status = "keep" /\ k.word # Keep
        /\ k.op = "create" /\ k.row \in Users => Home[k.row] \in alive
        /\ k.op = "delete" => k.row \in Users /\ k.status = "keep" /\ k.word = Keep
        /\ ask' = [ask EXCEPT ![a] = k]
        /\ Step(a, "idle", IF k.op = "update" THEN "read" ELSE k.op)
  BY DEF Arrive
<1>2. UNCHANGED <<rows, copy, behind, clients>>
  BY DEF Arrive
<1>3. k.op \in {"create", "update", "delete"} /\ k.word \in Words \cup {Keep}
  BY DEF Ask
<1>4. /\ ask' \in [Updates -> Ask] /\ upc' \in [Updates -> Places]
      /\ upc'[a] \in {"create", "read", "delete"} /\ ask'[a] = k
      /\ \A b \in Updates \ {a} : upc'[b] = upc[b] /\ ask'[b] = ask[b]
  BY <1>1, <1>3 DEF TypeOK, Step, Places
<1>5. TypeOK'
  BY <1>2, <1>4 DEF TypeOK, rows, clients
<1>6. AskSound'
  <2>1. upc'[a] = "create" => k.op = "create"
    BY <1>1, <1>3 DEF Step, TypeOK
  <2>2. upc'[a] = "delete" => k.op = "delete"
    BY <1>1, <1>3 DEF Step, TypeOK
  <2> QED BY <1>1, <1>2, <1>3, <1>4, <2>1, <2>2 DEF AskSound, Target, rows
<1>7. CopySound'
  BY <1>2, <1>4 DEF CopySound, Target, Asked, rows
<1>8. SeesNow' /\ ChecksSeen' /\ TokenIsEarned'
  BY <1>2, RowsStay DEF rows
<1> QED BY <1>5, <1>6, <1>7, <1>8

LEMMA CreateKeeps ==
  ASSUME IInv, NEW a \in Updates, Create(a)
  PROVE  IInv'
<1> USE DEF IInv
<1> DEFINE x == Target(a)
           r == [status |-> "active", word |-> ask[a].word]
<1>1. /\ upc[a] = "create" /\ x \in fresh /\ x \in Rows /\ x \notin alive /\ r \in Row
  BY DEF Create, Step, TypeOK, AskSound, Row, Statuses
<1>2. /\ fresh' = fresh \ {x} /\ alive' = alive \cup {x} /\ table' = [table EXCEPT ![x] = r]
      /\ upc' = [upc EXCEPT ![a] = "done"]
      /\ UNCHANGED <<ask, copy, behind, cpc, who, given, token>>
  BY DEF Create, Change, Step
<1>3. seen' \in [Clients -> SUBSET Facts] /\ SeesNow' /\ ChecksSeen' /\ TokenIsEarned'
  BY ChangeIsSeen DEF Create
<1>4. TypeOK'
  <2>1. \A u \in alive' \cap Users : Home[u] \in alive'
    BY <1>1, <1>2 DEF TypeOK, AskSound
  <2> QED BY <1>1, <1>2, <1>3, <2>1 DEF TypeOK, Places
<1>5. AskSound'
  BY <1>2 DEF AskSound, Target, TypeOK
<1>6. CopySound'
  <2> SUFFICES ASSUME NEW b \in Updates, upc'[b] = "write", Target(b)' \in alive',
                      NEW f \in Columns, copy'[b][f] # table'[Target(b)'][f]
               PROVE  Asked(b, f)' \/ f \in behind'[b]
    BY DEF CopySound
  <2>1. b # a /\ upc[b] = "write" /\ Target(b)' = Target(b)
    BY <1>2 DEF TypeOK, Target
  <2>2. Target(b) # x
    BY <1>1, <2>1 DEF AskSound
  <2> QED BY <1>2, <2>1, <2>2 DEF CopySound, Asked, TypeOK
<1> QED BY <1>3, <1>4, <1>5, <1>6

LEMMA ReadKeeps ==
  ASSUME IInv, NEW a \in Updates, ReadRow(a)
  PROVE  IInv'
<1> USE DEF IInv
<1> DEFINE x == Target(a)
           r == Onto(table[x], ask[a])
<1>1. x \in alive /\ x \in Rows /\ table[x] \in Row /\ ask[a] \in Ask
  BY DEF ReadRow, TypeOK
<1>2. /\ upc[a] = "read" /\ upc' = [upc EXCEPT ![a] = "write"]
      /\ copy' = [copy EXCEPT ![a] = r] /\ behind' = [behind EXCEPT ![a] = {}]
      /\ UNCHANGED <<rows, ask, clients>>
  BY DEF ReadRow, Step
<1>3. /\ r \in Row /\ (ask[a].status = "keep" => r.status = table[x].status)
      /\ (ask[a].word = Keep => r.word = table[x].word)
  BY <1>1, OntoRow
<1>4. TypeOK'
  BY <1>2, <1>3 DEF TypeOK, Places, rows, clients
<1>5. AskSound'
  BY <1>1, <1>2 DEF AskSound, Target, TypeOK, rows
<1>6. CopySound'
  <2> SUFFICES ASSUME NEW b \in Updates, upc'[b] = "write", Target(b)' \in alive',
                      NEW f \in Columns, copy'[b][f] # table'[Target(b)'][f]
               PROVE  Asked(b, f)' \/ f \in behind'[b]
    BY DEF CopySound
  <2>0. Target(b)' = Target(b) /\ table' = table /\ alive' = alive
    BY <1>2 DEF Target, rows
  <2>1. CASE b = a
    <3>1. r[f] # table[x][f]
      BY <1>2, <2>0, <2>1 DEF TypeOK
    <3>2. \/ f = "status" /\ r.status # table[x].status
          \/ f = "word" /\ r.word # table[x].word
      BY <1>1, <1>3, <3>1, ColumnsOfRow
    <3> QED BY <1>2, <1>3, <2>1, <3>2 DEF Asked
  <2>2. CASE b # a
    BY <1>2, <2>0, <2>2 DEF CopySound, Asked, TypeOK
  <2> QED BY <2>1, <2>2
<1>7. SeesNow' /\ ChecksSeen' /\ TokenIsEarned'
  BY <1>2, RowsStay
<1> QED BY <1>4, <1>5, <1>6, <1>7

LEMMA WriteKeeps ==
  ASSUME IInv, NEW a \in Updates, WriteRow(a)
  PROVE  IInv'
<1> USE DEF IInv
<1> DEFINE x == Target(a)
<1>1. x \in alive /\ x \in Rows /\ copy[a] \in Row
  BY DEF WriteRow, TypeOK
<1>2. /\ upc[a] = "write" /\ upc' = [upc EXCEPT ![a] = "done"]
      /\ alive' = alive /\ table' = [table EXCEPT ![x] = copy[a]]
      /\ behind' = Overtaken(a, x, copy[a])
      /\ UNCHANGED <<fresh, ask, copy, cpc, who, given, token>>
  BY DEF WriteRow, Change, Step
<1>3. seen' \in [Clients -> SUBSET Facts] /\ SeesNow' /\ ChecksSeen' /\ TokenIsEarned'
  BY ChangeIsSeen DEF WriteRow
<1>4. behind' \in [Updates -> SUBSET Columns]
  BY <1>2 DEF TypeOK, Overtaken
<1>5. TypeOK'
  BY <1>1, <1>2, <1>3, <1>4 DEF TypeOK, Places
<1>6. AskSound'
  BY <1>2 DEF AskSound, Target, TypeOK
<1>7. CopySound'
  <2> SUFFICES ASSUME NEW b \in Updates, upc'[b] = "write", Target(b)' \in alive',
                      NEW f \in Columns, copy'[b][f] # table'[Target(b)'][f]
               PROVE  Asked(b, f)' \/ f \in behind'[b]
    BY DEF CopySound
  <2>1. /\ b # a /\ upc[b] = "write" /\ Target(b)' = Target(b) /\ Target(b) \in alive
        /\ Target(b) \in Rows /\ Asked(b, f)' = Asked(b, f) /\ copy' = copy
    BY <1>2 DEF TypeOK, Target, Asked
  <2>2. CASE Target(b) # x
    BY <1>2, <2>1, <2>2 DEF CopySound, TypeOK, Overtaken
  <2>3. CASE Target(b) = x
    <3>1. behind'[b] = behind[b] \cup {g \in Columns : table[x][g] # copy[a][g]}
      BY <1>2, <2>1, <2>3 DEF Overtaken
    <3>2. copy[b][f] # copy[a][f]
      BY <1>1, <1>2, <2>1, <2>3 DEF TypeOK
    <3>3. CASE table[x][f] = copy[a][f]
      BY <2>1, <2>3, <3>1, <3>2, <3>3 DEF CopySound
    <3>4. CASE table[x][f] # copy[a][f]
      BY <3>1, <3>4
    <3> QED BY <3>3, <3>4
  <2> QED BY <2>2, <2>3
<1> QED BY <1>3, <1>5, <1>6, <1>7

LEMMA DeleteKeeps ==
  ASSUME IInv, NEW a \in Updates, Delete(a)
  PROVE  IInv'
<1> USE DEF IInv
<1> DEFINE x == Target(a)
<1>1. upc[a] = "delete" /\ x \in Users /\ x \notin Tenants
  BY AccountAssumption DEF Delete, Step, AskSound
<1>2. /\ alive' = alive \ {x} /\ table' = table /\ upc' = [upc EXCEPT ![a] = "done"]
      /\ UNCHANGED <<fresh, ask, copy, behind, cpc, who, given, token>>
  BY DEF Delete, Change, Step
<1>3. seen' \in [Clients -> SUBSET Facts] /\ SeesNow' /\ ChecksSeen' /\ TokenIsEarned'
  BY ChangeIsSeen DEF Delete
<1>4. \A u \in Users : Home[u] # x
  BY <1>1, AccountAssumption
<1>5. TypeOK'
  BY <1>2, <1>3, <1>4 DEF TypeOK, Places
<1>6. AskSound'
  BY <1>2, <1>4 DEF AskSound, Target, TypeOK
<1>7. CopySound'
  BY <1>2 DEF CopySound, Target, Asked, TypeOK
<1> QED BY <1>3, <1>5, <1>6, <1>7

LEMMA EndKeeps ==
  ASSUME IInv, NEW a \in Updates, Missing(a) \/ UpdateFail(a)
  PROVE  IInv'
<1> USE DEF IInv
<1>1. upc' = [upc EXCEPT ![a] = "done"] /\ UNCHANGED <<rows, ask, copy, behind, clients>>
  BY DEF Missing, UpdateFail, Step
<1>2. TypeOK'
  BY <1>1 DEF TypeOK, Places, rows, clients
<1>3. AskSound' /\ CopySound'
  BY <1>1 DEF AskSound, CopySound, Target, Asked, TypeOK, rows
<1>4. SeesNow' /\ ChecksSeen' /\ TokenIsEarned'
  BY <1>1, RowsStay
<1> QED BY <1>2, <1>3, <1>4

-----------------------------------------------------------------------------
(* The invariant and the theorems *)

LEMMA StepInv == IInv /\ [Next]_vars => IInv'
<1> SUFFICES ASSUME IInv, [Next]_vars PROVE IInv'
  OBVIOUS
<1>1. CASE \E a \in Updates : UpdateStep(a)
  BY <1>1, ArriveKeeps, CreateKeeps, ReadKeeps, WriteKeeps, DeleteKeeps, EndKeeps
  DEF UpdateStep
<1>2. CASE \E c \in Clients : ClientStep(c)
  BY <1>2, ClientKeeps
<1>3. CASE UNCHANGED vars
  <2>1. UNCHANGED <<rows, updates, clients>>
    BY <1>3 DEF vars, rows, updates, clients
  <2>2. TypeOK' /\ AskSound' /\ CopySound'
    BY <2>1 DEF IInv, TypeOK, AskSound, CopySound, Target, Asked, rows, updates, clients
  <2> QED BY <2>1, <2>2, RowsStay DEF IInv
<1> QED BY <1>1, <1>2, <1>3 DEF Next

LEMMA Invariant == Spec => []IInv
<1>1. Init => IInv
  BY InitInv
<1>2. IInv /\ [Next]_vars => IInv'
  BY StepInv
<1> QED BY <1>1, <1>2, PTL DEF Spec

\* Every reachable state is typed, a user's tenant is always there, and no id is used
\* again, whatever requests overlap (UpdateUser, UpdateTenant, DeleteUser, CreateUser).
THEOREM TypeCorrect == Spec => []TypeOK
BY Invariant, PTL DEF IInv

\* Login, RefreshSession and ResolveOidc sign a token only for a request during which
\* the tenant, the user and the password were in order, for any number of clients.
THEOREM TokensAreEarned == Spec => []TokenIsEarned
BY Invariant, PTL DEF IInv

\* UpdateUser and UpdateTenant change a column they were not asked for only when another
\* update overlaps them, for any number of updates.
THEOREM OnlyOverlapsRevert == Spec => OnlyOverlapReverts
<1>1. IInv /\ [Next]_vars =>
        [\A a \in Updates, f \in Columns :
           /\ upc[a] = "write" /\ upc'[a] = "done"
           /\ table'[Target(a)][f] # table[Target(a)][f]
           => Asked(a, f) \/ f \in behind[a]]_vars
  <2> SUFFICES ASSUME IInv, Next, NEW a \in Updates, NEW f \in Columns,
                      upc[a] = "write", upc'[a] = "done",
                      table'[Target(a)][f] # table[Target(a)][f]
               PROVE  Asked(a, f) \/ f \in behind[a]
    OBVIOUS
  <2>1. \A b \in Updates : UpdateStep(b) => b = a
    BY DEF UpdateStep, Arrive, Create, ReadRow, WriteRow, Missing, Delete, UpdateFail, Step,
           IInv, TypeOK
  <2>2. \A c \in Clients : ClientStep(c) => upc' = upc
    BY DEF ClientStep, Login, Refresh, Request, Gate, Service, ReadTenant, ReadUser, Check,
           Sign, ClientFail, Expire, updates
  <2>3. UpdateStep(a)
    BY <2>1, <2>2 DEF Next
  <2>4. WriteRow(a)
    BY <2>3 DEF UpdateStep, Arrive, Create, ReadRow, Missing, Delete, UpdateFail, Step, rows
  <2>5. /\ Target(a) \in alive /\ Target(a) \in Rows
        /\ table' = [table EXCEPT ![Target(a)] = copy[a]]
    BY <2>4 DEF WriteRow, Change, IInv, TypeOK
  <2>6. copy[a][f] # table[Target(a)][f]
    BY <2>5 DEF IInv, TypeOK
  <2> QED BY <2>5, <2>6 DEF IInv, CopySound
<1> QED BY <1>1, Invariant, PTL DEF Spec, OnlyOverlapReverts

\* No update that overlaps its deletion brings a user back.
THEOREM DeletedStayGone == Spec => DeletedStaysGone
<1>1. IInv /\ [Next]_vars =>
        [\A x \in Rows : x \notin alive \cup fresh => x \notin alive' \cup fresh']_vars
  BY DEF Next, UpdateStep, ClientStep, Arrive, Create, ReadRow, WriteRow, Missing, Delete,
         UpdateFail, Change, Login, Refresh, Request, Gate, Service, ReadTenant, ReadUser,
         Check, Sign, ClientFail, Expire, rows
<1> QED BY <1>1, Invariant, PTL DEF Spec, DeletedStaysGone
=============================================================================
