------------------------------- MODULE Accounts -------------------------------
(***************************************************************************)
(* Users, tenants and sessions.  user-service changes a user or a tenant   *)
(* by reading its row and writing every column back, in two statements;    *)
(* logins and refreshes look at the tenant, then at the user, and sign a   *)
(* token; the gateway looks at the tenant of every request but not at the  *)
(* user.  Statements of concurrent requests interleave.                    *)
(*                                                                         *)
(* Users and tenants are rows of one shape: a status, and the other column *)
(* the model tells apart (the password of a user, the name of a tenant).   *)
(* Display names are left out: an update that asks for nothing else asks   *)
(* for nothing here, and writes the row all the same.                      *)
(***************************************************************************)
EXTENDS Naturals

CONSTANTS
  Users, Tenants,
  Home,        \* the tenant of each user
  Words,       \* passwords, and names of tenants
  Keep,        \* an update that does not ask for a word, a session without a password
  Updates,     \* the requests that change a row, each used once
  Clients      \* web clients: each holds one token at most

ASSUME AccountAssumption ==
  /\ Home \in [Users -> Tenants] /\ Keep \notin Words /\ Words # {}
  /\ Users \cap Tenants = {} /\ Tenants # {}

VARIABLES
  alive, fresh,  \* the rows there are, the ids no row has had yet
  table,         \* status and word of each row
  upc, ask,      \* an update: its next statement, and what it asks for
  copy,          \* the row it is going to write
  behind,        \* history: the columns others have written since it read the row
  cpc, who,      \* a client's request: its next step, and its user
  given,         \* the password it presents
  token,         \* the client holds a token that has not expired
  seen           \* history: what has been true of its user since the request began

rows    == <<alive, fresh, table>>
updates == <<upc, ask, copy, behind>>
clients == <<cpc, who, given, token, seen>>
vars    == <<alive, fresh, table, upc, ask, copy, behind, cpc, who, given, token, seen>>

-----------------------------------------------------------------------------
Rows     == Users \cup Tenants
Columns  == {"status", "word"}
Statuses == {"active", "disabled"}
Row      == [status : Statuses, word : Words]
Ask      == [op : {"create", "update", "delete"}, row : Rows,
             status : Statuses \cup {"keep"}, word : Words \cup {Keep}]
Places   == {"idle", "create", "read", "write", "delete", "done"}
Steps    == {"idle", "gate", "service", "tenant", "user", "sign"}
Facts    == {"tenant", "user", "word"}

Active(al, tb, x) == x \in al /\ tb[x].status = "active"

\* What is true of the user of client c, in the table tb of the rows al.
FactsOf(al, tb, u, word) ==
  {f \in Facts :
     \/ f = "tenant" /\ Active(al, tb, Home[u])
     \/ f = "user" /\ Active(al, tb, u)
     \/ f = "word" /\ u \in al /\ tb[u].word = word}

\* A change of the table is observed by the clients whose request is under way, and a
\* write by the updates that have read the row.
Observed(al, tb) ==
  seen' = [c \in Clients |-> IF cpc[c] = "idle" THEN seen[c]
                             ELSE seen[c] \cup FactsOf(al, tb, who[c], given[c])]

Change(al, tb) == alive' = al /\ table' = tb /\ Observed(al, tb)

Init ==
  /\ alive \in SUBSET Rows /\ \A u \in alive \cap Users : Home[u] \in alive
  /\ fresh = Rows \ alive
  /\ table \in [Rows -> [status : Statuses, word : {CHOOSE w \in Words : TRUE}]]
  /\ upc = [a \in Updates |-> "idle"]
  /\ ask = [a \in Updates |-> CHOOSE k \in Ask : TRUE]       \* set when it arrives
  /\ copy = [a \in Updates |-> CHOOSE r \in Row : TRUE]
  /\ behind = [a \in Updates |-> {}]
  /\ cpc = [c \in Clients |-> "idle"] /\ who \in [Clients -> Users]
  /\ given = [c \in Clients |-> Keep] /\ token = [c \in Clients |-> FALSE]
  /\ seen = [c \in Clients |-> {}]

-----------------------------------------------------------------------------
(* Changing a row *)

Target(a) == ask[a].row
Onto(r, k) == [status |-> IF k.status = "keep" THEN r.status ELSE k.status,
               word   |-> IF k.word = Keep THEN r.word ELSE k.word]

Step(a, from, to) == upc[a] = from /\ upc' = [upc EXCEPT ![a] = to]

\* A request arrives.  Creation takes a word and no status, deletion is for users, and
\* a tenant's update names a column.
Arrive(a) ==
  /\ \E k \in Ask :
       /\ k.op = "create" => k.row \in fresh /\ k.status = "keep" /\ k.word # Keep
       /\ k.op = "create" /\ k.row \in Users => Home[k.row] \in alive
       /\ k.op = "delete" => k.row \in Users /\ k.status = "keep" /\ k.word = Keep
       /\ k.op = "update" /\ k.row \in Tenants => k.status # "keep" \/ k.word # Keep
       /\ ask' = [ask EXCEPT ![a] = k]
       /\ Step(a, "idle", IF k.op = "update" THEN "read" ELSE k.op)
  /\ UNCHANGED <<rows, copy, behind, clients>>

\* INSERT: the status is active by default.  An id is taken once.
Create(a) ==
  /\ Step(a, "create", "done") /\ Target(a) \in fresh
  /\ fresh' = fresh \ {Target(a)}
  /\ Change(alive \cup {Target(a)},
            [table EXCEPT ![Target(a)] = [status |-> "active", word |-> ask[a].word]])
  /\ UNCHANGED <<ask, copy, behind, cpc, who, given, token>>

\* GetUserByID or GetTenantByID, and the fields of the request laid over the row.
ReadRow(a) ==
  /\ Target(a) \in alive /\ Step(a, "read", "write")
  /\ copy' = [copy EXCEPT ![a] = Onto(table[Target(a)], ask[a])]
  /\ behind' = [behind EXCEPT ![a] = {}]
  /\ UNCHANGED <<rows, ask, clients>>

\* The columns a write of row r over x changes, seen by the updates that have read x.
Overtaken(a, x, r) ==
  [b \in Updates |->
     IF b # a /\ upc[b] = "write" /\ Target(b) = x
     THEN behind[b] \cup {f \in Columns : table[x][f] # r[f]} ELSE behind[b]]

\* For comparison: the columns the request does not name are written as empty ones,
\* here as those of another row.
EmptyWrite(a) ==
  /\ Target(a) \in alive /\ Step(a, "write", "done")
  /\ \E r \in Row : Change(alive, [table EXCEPT ![Target(a)] = Onto(r, ask[a])])
  /\ UNCHANGED <<fresh, ask, copy, behind, cpc, who, given, token>>

\* UPDATE: both columns, wherever they come from.
WriteRow(a) ==
  /\ Target(a) \in alive /\ Step(a, "write", "done")
  /\ Change(alive, [table EXCEPT ![Target(a)] = copy[a]])
  /\ behind' = Overtaken(a, Target(a), copy[a])
  /\ UNCHANGED <<fresh, ask, copy, cpc, who, given, token>>

\* A statement finds no row: 404, or 500 when it is the UPDATE.
Missing(a) ==
  /\ Target(a) \notin alive /\ upc[a] \in {"read", "write", "delete"}
  /\ Step(a, upc[a], "done")
  /\ UNCHANGED <<rows, ask, copy, behind, clients>>

Delete(a) ==
  /\ Target(a) \in alive /\ Step(a, "delete", "done")
  /\ Change(alive \ {Target(a)}, table)
  /\ UNCHANGED <<fresh, ask, copy, behind, cpc, who, given, token>>

\* A statement fails.
UpdateFail(a) ==
  /\ upc[a] \notin {"idle", "done"} /\ Step(a, upc[a], "done")
  /\ UNCHANGED <<rows, ask, copy, behind, clients>>

-----------------------------------------------------------------------------
(* A client's request for a token *)

Request(c, u, word, step) ==
  /\ cpc[c] = "idle" /\ cpc' = [cpc EXCEPT ![c] = step]
  /\ who' = [who EXCEPT ![c] = u] /\ given' = [given EXCEPT ![c] = word]
  /\ seen' = [seen EXCEPT ![c] = FactsOf(alive, table, u, word)]
  /\ UNCHANGED <<rows, updates, token>>

\* POST /api/auth/login with a password, or the identity provider's callback (Keep).
Login(c) == ~token[c] /\ \E u \in Users, w \in Words \cup {Keep} : Request(c, u, w, "tenant")

\* POST /api/auth/refresh: validate_token.
Refresh(c) == token[c] /\ Request(c, who[c], Keep, "gate")

\* A check of the request: on to the next step, or the answer 401.
Check(c, from, ok, to) ==
  /\ cpc[c] = from /\ cpc' = [cpc EXCEPT ![c] = IF ok THEN to ELSE "idle"]
  /\ UNCHANGED <<rows, updates, who, given, token, seen>>

TenantActive(c) == Active(alive, table, Home[who[c]])

\* ensure_tenant_active in the gateway, then RequireActiveTenant in user-service.
Gate(c)    == Check(c, "gate", TenantActive(c), "service")
Service(c) == Check(c, "service", TenantActive(c), "tenant")

\* For comparison: the slug is looked up without AND status = 'active'.
BlindReadTenant(c) == Check(c, "tenant", TRUE, "user")

\* GetTenantIDBySlug of a login, GetTenantStatus of a refresh.
ReadTenant(c) == Check(c, "tenant", TenantActive(c), "user")

\* For comparison: a refresh only looks whether the user is there.
EasyReadUser(c) ==
  Check(c, "user",
        /\ who[c] \in alive
        /\ given[c] # Keep => /\ table[who[c]].status = "active"
                              /\ table[who[c]].word = given[c], "sign")

\* The row of the user: its status and, in a login, its password hash.
ReadUser(c) ==
  Check(c, "user",
        /\ Active(alive, table, who[c])
        /\ given[c] # Keep => table[who[c]].word = given[c], "sign")

\* issueToken; the permissions and their version are in PermVersion.
Sign(c) ==
  /\ cpc[c] = "sign" /\ cpc' = [cpc EXCEPT ![c] = "idle"]
  /\ token' = [token EXCEPT ![c] = TRUE]
  /\ UNCHANGED <<rows, updates, who, given, seen>>

\* A statement fails, or the client goes away.
ClientFail(c) ==
  /\ cpc[c] # "idle" /\ cpc' = [cpc EXCEPT ![c] = "idle"]
  /\ UNCHANGED <<rows, updates, who, given, token, seen>>

\* The token expires, or the client drops it.
Expire(c) ==
  /\ token[c] /\ token' = [token EXCEPT ![c] = FALSE]
  /\ UNCHANGED <<rows, updates, cpc, who, given, seen>>

UpdateStep(a) ==
  Arrive(a) \/ Create(a) \/ ReadRow(a) \/ WriteRow(a) \/ Missing(a) \/ Delete(a) \/ UpdateFail(a)
ClientStep(c) ==
  \/ Login(c) \/ Refresh(c) \/ Gate(c) \/ Service(c) \/ ReadTenant(c) \/ ReadUser(c)
  \/ Sign(c) \/ ClientFail(c) \/ Expire(c)

Next == (\E a \in Updates : UpdateStep(a)) \/ (\E c \in Clients : ClientStep(c))

\* Tokens carry their end.  Nothing else is assumed to happen.
Spec == Init /\ [][Next]_vars /\ \A c \in Clients : WF_vars(Expire(c))

-----------------------------------------------------------------------------
(* Properties *)

\* Every variable has its type; a row is there or fresh or gone, never two of them, and
\* the user of a row has a tenant.
TypeOK ==
  /\ alive \subseteq Rows /\ fresh \subseteq Rows /\ alive \cap fresh = {}
  /\ table \in [Rows -> Row] /\ upc \in [Updates -> Places] /\ ask \in [Updates -> Ask]
  /\ copy \in [Updates -> Row] /\ behind \in [Updates -> SUBSET Columns]
  /\ cpc \in [Clients -> Steps] /\ who \in [Clients -> Users]
  /\ given \in [Clients -> Words \cup {Keep}] /\ token \in [Clients -> BOOLEAN]
  /\ seen \in [Clients -> SUBSET Facts]
  /\ \A u \in alive \cap Users : Home[u] \in alive

Asked(a, f) == IF f = "status" THEN ask[a].status # "keep" ELSE ask[a].word # Keep

\* UpdateUser and UpdateTenant write every column, and yet a column their request does
\* not name changes only if another request changed it after they had read the row.
OnlyOverlapReverts ==
  [][\A a \in Updates, f \in Columns :
       /\ upc[a] = "write" /\ upc'[a] = "done"
       /\ table'[Target(a)][f] # table[Target(a)][f]
       => Asked(a, f) \/ f \in behind[a]]_vars

\* A deleted user stays deleted, though updates that read the row before the deletion
\* write it afterwards.
DeletedStaysGone ==
  [][\A x \in Rows : x \notin alive \cup fresh => x \notin alive' \cup fresh']_vars

\* A token is signed only for a request during which the tenant was active, the user
\* was active and the password was the user's, each at some moment: one that comes
\* after a disabling, a deletion or a change of password gets nothing.
TokenIsEarned ==
  \A c \in Clients : cpc[c] = "sign" =>
    {"tenant", "user"} \cup (IF given[c] = Keep THEN {} ELSE {"word"}) \subseteq seen[c]

\* Tokens are not revoked when their user is disabled or deleted, or the tenant
\* disabled, and yet the access ends: they expire, and from some moment on no refresh
\* renews them, however many are under way.
AccessFadesOut ==
  \A u \in Users : \A x \in {u, Home[u]} :
    <>[](~Active(alive, table, x)) =>
      <>[](\A c \in Clients : who[c] = u => ~token[c])

=============================================================================
