--------------------------- MODULE WebUploadsProofs ---------------------------
(***************************************************************************)
(* Proofs about the web client.  WebUploads, and so WebPage and ListQuery: *)
(* for any rows, columns and bounds.  WebSession: that the permissions of  *)
(* a session are its own, that its token keeps up with them, and that an   *)
(* admitted page is refused only on account of a commit that the version   *)
(* has not counted, for any users, lists, hooks and number of refreshes.   *)
(***************************************************************************)
EXTENDS WebUploads, WebSession, FiniteSetTheorems, TLAPS

There(r) == r \in Rows /\ server[r] # NoRow

\* What a form says of a row is what the service has, or somebody wrote there since.
FormSound(row, form, at, blind) ==
  row # New =>
    /\ There(row) /\ at <= changes
    /\ server[row] # Gone /\ ~blind =>
         \A c \in Columns : form[c] = server[row].cols[c] \/ wrote[row][c] > at

\* A snapshot of the list lists only rows of the service, and is a form for each of them.
ListSound(snapshot) ==
  /\ snapshot.at <= changes
  /\ \A r \in Present(snapshot.rows) : FormSound(r, snapshot.rows[r].cols, snapshot.at, FALSE)
ListsSound ==
  /\ shown # NoData => ListSound(shown)
  /\ fetch = "answered" => ListSound(answer)

\* The dialogs are about rows of the service, and what was typed in them about their row.
DialogsSound ==
  /\ FormSound(dialog.row, dialog.form, dialog.at, dialog.blind)
  /\ dialog.shown => \A f \in Fields : dialog.typed[f] \in {Nobody, dialog.row}
  /\ detail.shown => There(detail.row)
  /\ detail.comment \in {Nobody, detail.row}

\* So are the requests, which repeat them.
RequestSound(q) ==
  /\ q.kind = "save" => FormSound(q.row, q.form, q.at, q.blind)
  /\ q.row # New => There(q.row)
  /\ \A f \in Fields : q.typed[f] \in {Nobody, q.row}
  /\ q.comment \in {Nobody, q.row}
  /\ page = "roles" => q.kind = "save"
RequestsSound == \A i \in Slots : reqs[i] \in Requests => RequestSound(reqs[i])

\* Two pages have no rows to edit; the rows of another are always there.
PagesDiffer ==
  /\ page \in {"search", "notifications"} => dialog.row = New
  /\ page = "roles" => \A r \in Rows :
       /\ server[r] \in Row
       /\ shown # NoData => shown.rows[r] \in Row
       /\ fetch = "answered" => answer.rows[r] \in Row

\* What is owed is shown, or the list is being fetched, or has failed to be; and only a
\* mounted page is owed anything.
Owing ==
  /\ owed <= changes /\ (~open => owed = 0 /\ ~early)
  /\ fetch = "answered" /\ ~early => answer.at >= owed
  /\ AcknowledgedIsShown
  /\ \A i \in Slots : reqs[i] \in Requests =>
       /\ reqs[i].mine => open
       /\ reqs[i].st = "done" => reqs[i].pos <= changes

\* The batches: what they have stored, and the zone of the visit that started one.
Stored ==
  \A i \in 1..MaxRuns : Active(i) =>
    /\ runs[i].stored = [k \in 1..Len(runs[i].stored) |-> k]
    /\ Len(runs[i].stored) = IF runs[i].st = "stored" THEN runs[i].names + 1 ELSE runs[i].names
    /\ ~runs[i].good
    /\ runs[i].mine => open
    /\ runs[i].st = "stored" => runs[i].pos <= changes
Zone ==
  /\ \A i \in 1..MaxRuns : Active(i) /\ runs[i].mine => queue = runs[i].names + 1
  /\ \A i, j \in 1..MaxRuns :
       Active(i) /\ runs[i].mine /\ Active(j) /\ runs[j].mine => i = j
  /\ queue # 0 => \E i \in 1..MaxRuns : Active(i) /\ runs[i].mine

PageInv == PageTypeOK /\ ListsSound /\ DialogsSound /\ RequestsSound /\ PagesDiffer /\ Owing
IInv    == TypeOK /\ PageInv /\ Stored /\ Zone /\ BatchIsPrefix

USE RowsAssumption DEF Stages, Kinds, Table, Snapshots, Forms, Comments, Inputs, Requests,
  Fetching, Fields, Pages, Unused, told
-----------------------------------------------------------------------------
\* The initial states satisfy the invariant.
LEMMA InitPage == PageInit => PageInv
<1> SUFFICES ASSUME PageInit PROVE PageInv
  OBVIOUS
<1> USE DEF PageInit, QueryInit
<1>1. PICK known \in SUBSET Rows, stage \in [Rows -> PageStages] :
        /\ page = "roles" => known = Rows
        /\ server = [r \in Rows |-> IF r \in known
             THEN [cols |-> [c \in Columns |-> r], stage |-> stage[r]] ELSE NoRow]
  OBVIOUS
<1>2. \A r \in Rows : server[r] = NoRow \/ server[r] \in Row
  BY <1>1 DEF PageStages, Row
<1>3. server \in Table
  <2>1. server = [r \in Rows |-> server[r]]
    BY <1>1
  <2> QED BY <2>1, <1>2, Zenon DEF Table
<1>4. page = "roles" => \A r \in Rows : server[r] \in Row
  BY <1>1 DEF PageStages, Row
<1>5. PageTypeOK
  BY <1>3 DEF PageTypeOK, CleanDialog, CleanDetail, Blanks, Untyped, Slots
<1>6. ListsSound /\ DialogsSound /\ RequestsSound
  BY DEF ListsSound, DialogsSound, RequestsSound, FormSound, CleanDialog, CleanDetail
<1>7. PagesDiffer /\ Owing
  BY <1>4 DEF PagesDiffer, Owing, AcknowledgedIsShown, Settled, CleanDialog
<1> QED BY <1>5, <1>6, <1>7 DEF PageInv

LEMMA InitIInv == Init => IInv
<1> SUFFICES ASSUME Init PROVE IInv
  OBVIOUS
<1>1. PageInv
  BY InitPage DEF Init
<1>2. TypeOK
  BY <1>1 DEF Init, TypeOK, PageInv, NoRun
<1>3. Stored /\ Zone /\ BatchIsPrefix
  BY DEF Init, Stored, Zone, BatchIsPrefix, Active, NoRun
<1> QED BY <1>1, <1>2, <1>3 DEF IInv
-----------------------------------------------------------------------------
(* What a change of the service does to the rows.                           *)

Grows(rows) ==
  /\ rows \in Table
  /\ \A r \in Rows : /\ server[r] # NoRow => rows[r] # NoRow
                     /\ server[r] = Gone => rows[r] = Gone
                     /\ page = "roles" /\ server[r] \in Row => rows[r] \in Row

\* Rows are neither forgotten nor revived, and a value that changes is the newest.
Moves ==
  /\ Grows(server') /\ changes' = changes + 1 /\ wrote' \in [Rows -> [Columns -> Nat]]
  /\ \A r \in Rows, c \in Columns :
       \/ server'[r] \notin Row \/ server[r] \notin Row
       \/ server'[r].cols[c] = server[r].cols[c] /\ wrote'[r][c] = wrote[r][c]
       \/ wrote'[r][c] = changes + 1
Stays == UNCHANGED <<page, server, wrote, changes>>

LEMMA ChangeMoves ==
  ASSUME PageTypeOK, NEW rows, Grows(rows), Change(rows)
  PROVE  Moves
<1>1. server' = rows /\ changes' = changes + 1
  BY DEF Change
<1>2. wrote' \in [Rows -> [Columns -> Nat]]
  BY DEF Change, PageTypeOK
<1>3. \A r \in Rows : server[r] \in Row <=> server[r] \notin {NoRow, Gone}
  BY DEF PageTypeOK
<1>4. \A r \in Rows : rows[r] \in Row <=> rows[r] \notin {NoRow, Gone}
  BY DEF Grows
<1>5. ASSUME NEW r \in Rows, NEW c \in Columns, rows[r] \in Row, server[r] \in Row
      PROVE  \/ rows[r].cols[c] = server[r].cols[c] /\ wrote'[r][c] = wrote[r][c]
             \/ wrote'[r][c] = changes + 1
  <2>1. r \in Present(server) \cap Present(rows)
    BY <1>3, <1>4, <1>5 DEF Present
  <2> QED BY <2>1 DEF Change
<1> QED BY <1>1, <1>2, <1>5 DEF Moves

LEMMA EffectsGrow ==
  ASSUME PageTypeOK, NEW q \in Requests, RequestSound(q), NEW rows \in Effects(q)
  PROVE  Grows(rows)
<1>0. \A r \in Rows : server[r] \in Row <=> server[r] \notin {NoRow, Gone}
  BY DEF PageTypeOK
<1>1. CASE q.row = New
  <2>1. PICK r \in Rows : server[r] = NoRow /\ rows = [server EXCEPT ![r] = Fresh(r)]
    BY <1>1 DEF Effects
  <2>2. Fresh(r) \in Row
    BY DEF Fresh, Row
  <2> QED BY <2>1, <2>2 DEF PageTypeOK, Grows
<1>2. CASE q.row # New
  <2>1. q.row \in Rows /\ server[q.row] # NoRow
    BY <1>2 DEF RequestSound, There
  <2>2. server[q.row] # Gone
    BY <1>2 DEF Effects
  <2>3. server[q.row] \in Row
    BY <2>1, <2>2, <1>0
  <2>4. ASSUME NEW row \in Row, rows = [server EXCEPT ![q.row] = row] PROVE Grows(rows)
    BY <2>1, <2>2, <2>4 DEF PageTypeOK, Grows
  <2>5. CASE q.kind = "save"
    <3>1. rows = [server EXCEPT ![q.row].cols = Written(q)]
      BY <1>2, <2>2, <2>5 DEF Effects
    <3>2. Written(q) \in [Columns -> Rows \cup Nat]
      BY DEF Written, PageTypeOK
    <3>3. [server[q.row] EXCEPT !.cols = Written(q)] \in Row
      BY <2>3, <3>2 DEF Row
    <3> QED BY <3>1, <3>3, <2>4
  <2>6. CASE q.kind = "delete"
    <3>1. page # "roles"
      BY <2>6 DEF RequestSound
    <3>2. rows = [server EXCEPT ![q.row] = Gone]
      BY <1>2, <2>2, <2>6 DEF Effects
    <3> QED BY <2>1, <2>2, <3>1, <3>2 DEF PageTypeOK, Grows
  <2>7. CASE q.kind \notin {"save", "delete"}
    <3>1. PICK s \in Stages : rows = [server EXCEPT ![q.row].stage = s]
      BY <1>2, <2>2, <2>7 DEF Effects
    <3>2. [server[q.row] EXCEPT !.stage = s] \in Row
      BY <2>3 DEF Row
    <3> QED BY <3>1, <3>2, <2>4
  <2> QED BY <2>5, <2>6, <2>7
<1> QED BY <1>1, <1>2

LEMMA PerformMoves ==
  ASSUME PageInv, NEW i \in Slots, Perform(i)
  PROVE  reqs[i] \in Requests /\ Moves
<1>1. reqs[i] \in Requests
  BY DEF Perform, PageInv, PageTypeOK
<1>2. RequestSound(reqs[i])
  BY <1>1 DEF PageInv, RequestsSound
<1>3. PICK rows \in Effects(reqs[i]) : Change(rows)
  BY DEF Perform
<1>4. Grows(rows)
  BY <1>1, <1>2, EffectsGrow DEF PageInv
<1> QED BY <1>1, <1>3, <1>4, ChangeMoves DEF PageInv

LEMMA OthersMove ==
  ASSUME PageInv, Others
  PROVE  Moves
<1>1. PICK r \in Present(server) :
        \/ page \in {"users", "tenants", "roles", "workflows"} /\ \E c \in Columns :
             Change([server EXCEPT ![r].cols[c] = changes + 1])
        \/ page = "workflows" /\ \E s \in Stages \ {server[r].stage} :
             Change([server EXCEPT ![r].stage = s])
        \/ page \notin {"tenants", "roles", "notifications"} /\ Change([server EXCEPT ![r] = Gone])
  BY DEF Others
<1>2. r \in Rows /\ server[r] \in Row
  BY DEF Present, PageInv, PageTypeOK
<1>3. server \in Table /\ changes \in Nat /\ server[r] # Gone
  BY <1>2 DEF PageInv, PageTypeOK
<1>4. \A row \in Row : Grows([server EXCEPT ![r] = row])
  BY <1>2, <1>3 DEF Grows
<1>5. ASSUME NEW c \in Columns, Change([server EXCEPT ![r].cols[c] = changes + 1]) PROVE Moves
  <2>1. [server[r] EXCEPT !.cols[c] = changes + 1] \in Row
    BY <1>2, <1>3 DEF Row
  <2>2. Grows([server EXCEPT ![r].cols[c] = changes + 1])
    BY <2>1, <1>4
  <2> QED BY <1>5, <2>2, ChangeMoves DEF PageInv
<1>6. ASSUME NEW s \in Stages, Change([server EXCEPT ![r].stage = s]) PROVE Moves
  <2>1. [server[r] EXCEPT !.stage = s] \in Row
    BY <1>2 DEF Row
  <2>2. Grows([server EXCEPT ![r].stage = s])
    BY <2>1, <1>4
  <2> QED BY <1>6, <2>2, ChangeMoves DEF PageInv
<1>7. ASSUME page # "roles", Change([server EXCEPT ![r] = Gone]) PROVE Moves
  <2>1. Grows([server EXCEPT ![r] = Gone])
    BY <1>2, <1>3, <1>7 DEF Grows
  <2> QED BY <1>7, <2>1, ChangeMoves DEF PageInv
<1> QED BY <1>1, <1>5, <1>6, <1>7

\* A form that was sound stays so.
LEMMA FormKept ==
  ASSUME PageTypeOK, Moves \/ Stays,
         NEW row \in Rows \cup {New}, NEW form, NEW at \in Nat, NEW blind, FormSound(row, form, at, blind)
  PROVE  FormSound(row, form, at, blind)'
<1>1. \A r \in Rows : server[r] \in Row <=> server[r] \notin {NoRow, Gone}
  BY DEF PageTypeOK
<1>2. CASE Stays
  BY <1>2 DEF Stays, FormSound, There
<1>3. CASE Moves
  <2> SUFFICES ASSUME row # New PROVE FormSound(row, form, at, blind)'
    BY DEF FormSound
  <2>1. \A r \in Rows : server'[r] \in Row <=> server'[r] \notin {NoRow, Gone}
    BY <1>3 DEF Moves, Grows
  <2>2. There(row)' /\ (server[row] = Gone => server'[row] = Gone)
    BY <1>3 DEF FormSound, There, Moves, Grows
  <2>3. at <= changes /\ at <= changes'
    BY <1>3 DEF FormSound, Moves, PageTypeOK
  <2>4. ASSUME server'[row] # Gone, ~blind, NEW c \in Columns
        PROVE  form[c] = server'[row].cols[c] \/ wrote'[row][c] > at
    <3>1. server[row] \in Row /\ server'[row] \in Row /\ row \in Rows
      BY <2>1, <2>2, <2>4, <1>1 DEF FormSound, There
    <3>2. form[c] = server[row].cols[c] \/ wrote[row][c] > at
      BY <3>1, <2>4 DEF FormSound
    <3>3. changes + 1 > at
      BY <2>3 DEF PageTypeOK
    <3> QED BY <1>3, <3>1, <3>2, <3>3 DEF Moves
  <2> QED BY <2>2, <2>3, <2>4 DEF FormSound
<1> QED BY <1>2, <1>3
-----------------------------------------------------------------------------
(* Every step of a page is one of a few shapes.                             *)

Asks == \E q \in Requests :
  Mutate(q) /\ q.st = "sent" /\ q.mine /\ RequestSound(q)
Opens == \E row \in Rows \cup {New}, form \in Forms, at \in Nat, blind \in BOOLEAN :
  /\ Open(row, form, at, blind) /\ FormSound(row, form, at, blind)
  /\ page \in {"search", "notifications"} => row = New
Types == \E f \in Fields : \E by \in {Nobody, dialog.row} : Fill(f, by)
Views == \E r \in Rows : View(r) /\ There(r)
Hears == \E i \in Slots :
  /\ Told(i, Kinds)
  /\ dialog' \in {dialog, Closed, CleanDialog}
  /\ detail' \in {detail, CleanDetail, [detail EXCEPT !.comment = Nobody]}

\* The rows a page lists can be edited: the form is what the list says.
LEMMA ListedForm ==
  ASSUME PageInv, shown # NoData, NEW r \in Rows, page = "roles" \/ r \in Present(shown.rows)
  PROVE  There(r) /\ shown.rows[r] \in Row /\ FormSound(r, shown.rows[r].cols, shown.at, FALSE)
<1>1. shown \in Snapshots
  BY DEF PageInv, PageTypeOK
<1>2. r \in Present(shown.rows)
  BY <1>1 DEF PageInv, PagesDiffer, Present
<1>3. shown.rows[r] \in Row
  BY <1>1, <1>2 DEF Present
<1>4. FormSound(r, shown.rows[r].cols, shown.at, FALSE)
  BY <1>2 DEF PageInv, ListsSound, ListSound
<1> QED BY <1>3, <1>4 DEF FormSound

LEMMA EmptyOpens ==
  ASSUME OpenEmpty PROVE Opens
BY DEF OpenEmpty, Opens, Blanks, FormSound

LEMMA RowOpens ==
  ASSUME PageInv, shown # NoData, NEW r \in Rows, page = "roles" \/ r \in Present(shown.rows),
         page \notin {"search", "notifications"}, OpenRow(r)
  PROVE  Opens
<1>1. shown \in Snapshots
  BY DEF PageInv, PageTypeOK
<1>2. RowForm(r) \in Forms /\ FormSound(r, RowForm(r), shown.at, FALSE)
  BY ListedForm DEF RowForm, Row
<1> QED BY <1>1, <1>2 DEF OpenRow, Opens

\* A request about a row of the service.
LEMMA RowAsks ==
  ASSUME PageInv, page # "roles", NEW r, There(r), NEW kind \in Kinds \ {"save"},
         NEW q, Mutate(q),
         \/ q = Request(kind, r)
         \/ q = [Request(kind, r) EXCEPT !.comment = detail.comment] /\ detail.comment \in {Nobody, r}
  PROVE  Asks
<1>1. /\ q \in Requests /\ q.st = "sent" /\ q.mine /\ q.kind = kind /\ q.row = r
      /\ q.comment \in {Nobody, r} /\ q.typed = Untyped
  <2>1. Blanks \in Forms /\ Untyped \in Inputs
    BY DEF Blanks, Untyped
  <2> HIDE DEF Forms, Inputs
  <2>2. CASE q = Request(kind, r)
    BY <2>1, <2>2 DEF Request, There
  <2>3. CASE q = [Request(kind, r) EXCEPT !.comment = detail.comment]
    BY <2>1, <2>3 DEF Request, There
  <2> QED BY <2>2, <2>3
<1>2. RequestSound(q)
  BY <1>1 DEF RequestSound, Untyped
<1> QED BY <1>1, <1>2 DEF Asks

\* What the form dialog sends repeats what holds of the dialog.
LEMMA SubmitAsks ==
  ASSUME PageInv, Submit PROVE Asks
<1> DEFINE q == [Request("save", dialog.row) EXCEPT !.form = dialog.form, !.typed = dialog.typed,
                   !.at = dialog.at, !.blind = dialog.blind]
<1>1. /\ q \in Requests /\ q.st = "sent" /\ q.mine /\ q.kind = "save" /\ q.row = dialog.row
      /\ q.comment = Nobody /\ q.form = dialog.form /\ q.typed = dialog.typed
      /\ q.at = dialog.at /\ q.blind = dialog.blind
  BY DEF Request, Blanks, Untyped, PageInv, PageTypeOK
<1>2. RequestSound(q)
  BY <1>1 DEF RequestSound, PageInv, DialogsSound, FormSound, Submit
<1>3. Mutate(q)
  BY DEF Submit
<1> QED BY <1>1, <1>2, <1>3 DEF Asks

\* Something happens to the rows that the page does not see.
Elsewhere == Moves /\ UNCHANGED <<query, page, dialog, detail, reqs, told>>
\* A batch has told the page of a change.
Finishes == \E mine \in BOOLEAN, pos \in Nat :
  /\ pos <= changes /\ (mine => open) /\ Hear(mine, pos)
  /\ UNCHANGED <<page, server, wrote, changes, dialog, detail, reqs>>

Shape ==
  \/ Asks \/ Opens \/ Types \/ Views \/ WorkflowsComment \/ Hears \/ CloseDialogs
  \/ Elsewhere \/ Finishes \/ Leave \/ Look \/ \E i \in Slots : Perform(i) \/ Fail(i)

LEMMA UsersShape == ASSUME PageInv, Users PROVE Shape
<1>1. CASE UsersCreate
  BY <1>1, EmptyOpens DEF UsersCreate, Shape
<1>2. CASE UsersSave
  BY <1>2, SubmitAsks DEF UsersSave, Shape
<1>3. CASE \E f \in Fields : UsersType(f)
  BY <1>3 DEF UsersType, Types, Shape
<1>4. ASSUME NEW r \in Rows, UsersEdit(r) \/ UsersDelete(r) PROVE Shape
  <2>1. shown # NoData /\ r \in Present(shown.rows) /\ page = "users"
    BY <1>4 DEF UsersEdit, UsersDelete, Loaded
  <2>2. There(r)
    BY <2>1, ListedForm
  <2>3. CASE UsersEdit(r)
    BY <2>1, <2>3, RowOpens DEF UsersEdit, Shape
  <2>4. CASE UsersDelete(r)
    BY <2>1, <2>2, <2>4, RowAsks DEF UsersDelete, Shape
  <2> QED BY <1>4, <2>3, <2>4
<1>5. ASSUME NEW i \in Slots, UsersSaved(i) \/ UsersDeleted(i) PROVE Shape
  BY <1>5 DEF UsersSaved, UsersDeleted, Saved, Deleted, Told, Hears, Shape
<1> QED BY <1>1, <1>2, <1>3, <1>4, <1>5 DEF Users

LEMMA TenantsShape == ASSUME PageInv, Tenants PROVE Shape
<1>1. CASE TenantsCreate
  BY <1>1, EmptyOpens DEF TenantsCreate, Shape
<1>2. CASE TenantsSave
  BY <1>2, SubmitAsks DEF TenantsSave, Shape
<1>3. CASE \E c \in Columns : TenantsType(c)
  BY <1>3 DEF TenantsType, Types, Shape
<1>4. ASSUME NEW r \in Rows, TenantsEdit(r) PROVE Shape
  <2>1. shown # NoData /\ r \in Present(shown.rows) /\ page = "tenants"
    BY <1>4 DEF TenantsEdit, Listed, Loaded
  <2> QED BY <2>1, <1>4, RowOpens DEF TenantsEdit, Shape
<1>5. ASSUME NEW i \in Slots, TenantsSaved(i) PROVE Shape
  BY <1>5 DEF TenantsSaved, Saved, Told, Hears, Shape
<1> QED BY <1>1, <1>2, <1>3, <1>4, <1>5 DEF Tenants

LEMMA RolesShape == ASSUME PageInv, Roles PROVE Shape
<1>1. ASSUME NEW r \in Rows, RolesEdit(r) PROVE Shape
  <2>1. There(r)
    BY <1>1 DEF RolesEdit, PageInv, PagesDiffer, There
  <2>2. CASE shown = NoData
    <3>1. Blanks \in Forms /\ FormSound(r, Blanks, 0, TRUE)
      BY <2>1 DEF Blanks, FormSound, PageInv, PageTypeOK
    <3> QED BY <1>1, <2>2, <3>1 DEF RolesEdit, Opens, Shape
  <2>3. CASE shown # NoData
    BY <1>1, <2>3, RowOpens DEF RolesEdit, Shape
  <2> QED BY <2>2, <2>3
<1>2. ASSUME NEW c \in Columns, RolesToggle(c) PROVE Shape
  BY <1>2 DEF RolesToggle, Types, Shape
<1>3. CASE RolesSave
  BY <1>3, SubmitAsks DEF RolesSave, Shape
<1>4. ASSUME NEW i \in Slots, RolesSaved(i) PROVE Shape
  BY <1>4 DEF RolesSaved, Saved, Told, Hears, Shape
<1> QED BY <1>1, <1>2, <1>3, <1>4 DEF Roles

LEMMA WorkflowsShape == ASSUME PageInv, Workflows PROVE Shape
<1>1. CASE WorkflowsCreate
  BY <1>1, EmptyOpens DEF WorkflowsCreate, Shape
<1>2. CASE WorkflowsSave
  BY <1>2, SubmitAsks DEF WorkflowsSave, Shape
<1>3. CASE \E c \in Columns : WorkflowsType(c)
  BY <1>3 DEF WorkflowsType, Types, Shape
<1>4. ASSUME NEW r \in Rows, WorkflowsEdit(r) \/ WorkflowsView(r) PROVE Shape
  <2>1. shown # NoData /\ r \in Present(shown.rows) /\ page = "workflows"
    BY <1>4 DEF WorkflowsEdit, WorkflowsView, View, Listed, Loaded
  <2>2. There(r)
    BY <2>1, ListedForm
  <2>3. CASE WorkflowsEdit(r)
    BY <2>1, <2>3, RowOpens DEF WorkflowsEdit, Shape
  <2>4. CASE WorkflowsView(r)
    BY <2>2, <2>4 DEF WorkflowsView, Views, Shape
  <2> QED BY <1>4, <2>3, <2>4
<1>5. CASE WorkflowsSubmit \/ WorkflowsDelete
  <2>1. There(detail.row) /\ detail.comment \in {Nobody, detail.row} /\ page = "workflows"
    BY <1>5 DEF WorkflowsSubmit, WorkflowsDelete, PageInv, DialogsSound
  <2>2. Asks
    BY <1>5, <2>1, RowAsks DEF WorkflowsSubmit, WorkflowsDelete
  <2> QED BY <2>2 DEF Shape
<1>6. CASE WorkflowsApprove \/ WorkflowsReject \/ WorkflowsChanges
  <2>1. PICK kind \in {"approve", "reject", "changes"} : Judge(kind)
    BY <1>6 DEF WorkflowsApprove, WorkflowsReject, WorkflowsChanges
  <2>2. There(detail.row) /\ detail.comment \in {Nobody, detail.row} /\ page = "workflows"
    BY <2>1 DEF Judge, PageInv, DialogsSound
  <2>3. Asks
    BY <2>1, <2>2, RowAsks DEF Judge
  <2> QED BY <2>3 DEF Shape
<1>7. ASSUME NEW i \in Slots,
             WorkflowsSaved(i) \/ WorkflowsSubmitted(i) \/ WorkflowsJudged(i) \/ WorkflowsDeleted(i)
      PROVE  Shape
  BY <1>7 DEF WorkflowsSaved, WorkflowsSubmitted, WorkflowsJudged, WorkflowsDeleted, Saved,
     Deleted, Told, Hears, Shape
<1>8. CASE WorkflowsComment
  BY <1>8 DEF Shape
<1> QED BY <1>1, <1>2, <1>3, <1>4, <1>5, <1>6, <1>7, <1>8 DEF Workflows

LEMMA SearchShape == ASSUME PageInv, Search PROVE Shape
<1>1. CASE SearchCreate
  BY <1>1, EmptyOpens DEF SearchCreate, Shape
<1>2. CASE SearchSave
  BY <1>2, SubmitAsks DEF SearchSave, Shape
<1>3. CASE \E c \in Columns : SearchType(c)
  BY <1>3 DEF SearchType, Types, Shape, PageInv, PagesDiffer
<1>4. ASSUME NEW r \in Rows, SearchDelete(r) PROVE Shape
  <2>1. shown # NoData /\ r \in Present(shown.rows) /\ page = "search"
    BY <1>4 DEF SearchDelete, Listed, Loaded
  <2>2. There(r)
    BY <2>1, ListedForm
  <2> QED BY <2>1, <2>2, <1>4, RowAsks DEF SearchDelete, Shape
<1>5. ASSUME NEW i \in Slots, SearchSaved(i) \/ SearchDeleted(i) PROVE Shape
  BY <1>5 DEF SearchSaved, SearchDeleted, Saved, Deleted, Told, Hears, Shape
<1> QED BY <1>1, <1>2, <1>3, <1>4, <1>5 DEF Search

LEMMA NotificationsShape == ASSUME PageInv, Notifications PROVE Shape
<1>1. CASE NotificationsCreate
  BY <1>1, EmptyOpens DEF NotificationsCreate, Shape
<1>2. CASE NotificationsSave
  BY <1>2, SubmitAsks DEF NotificationsSave, Shape
<1>3. CASE \E c \in Columns : NotificationsType(c)
  BY <1>3 DEF NotificationsType, Types, Shape, PageInv, PagesDiffer
<1>4. ASSUME NEW r \in Rows, NotificationsMark(r) PROVE Shape
  <2>1. shown # NoData /\ r \in Present(shown.rows) /\ page = "notifications"
    BY <1>4 DEF NotificationsMark, Listed, Loaded
  <2>2. There(r)
    BY <2>1, ListedForm
  <2> QED BY <2>1, <2>2, <1>4, RowAsks DEF NotificationsMark, Shape
<1>5. ASSUME NEW i \in Slots, NotificationsSaved(i) \/ NotificationsMarked(i) PROVE Shape
  BY <1>5 DEF NotificationsSaved, NotificationsMarked, Saved, Told, Hears, Shape
<1> QED BY <1>1, <1>2, <1>3, <1>4, <1>5 DEF Notifications

LEMMA FilesShape == ASSUME PageInv, Files PROVE Shape
<1>1. ASSUME NEW r \in Rows, FilesAsk(r) PROVE Shape
  <2>1. shown # NoData /\ r \in Present(shown.rows)
    BY <1>1 DEF FilesAsk, View, Listed, Loaded
  <2>2. There(r)
    BY <2>1, ListedForm
  <2> QED BY <2>2, <1>1 DEF FilesAsk, Views, Shape
<1>2. CASE FilesDelete
  <2>1. There(detail.row) /\ page = "files"
    BY <1>2 DEF FilesDelete, PageInv, DialogsSound
  <2> QED BY <1>2, <2>1, RowAsks DEF FilesDelete, Shape
<1>3. ASSUME NEW i \in Slots, FilesDeleted(i) PROVE Shape
  BY <1>3 DEF FilesDeleted, Deleted, Told, Hears, Shape
<1> QED BY <1>1, <1>2, <1>3 DEF Files

LEMMA PageShape == ASSUME PageInv, PageNext PROVE Shape
<1>1. Others => Elsewhere
  BY OthersMove DEF Others, Elsewhere
<1> QED BY <1>1, UsersShape, TenantsShape, RolesShape, WorkflowsShape, SearchShape, NotificationsShape,
   FilesShape DEF PageNext, Shape
-----------------------------------------------------------------------------
(* The steps of a page keep the invariant, shape by shape.                  *)

\* Every shape leaves the rows alone or moves them.
LEMMA ShapeMoves == ASSUME PageInv, Shape PROVE page' = page /\ (Moves \/ Stays)
<1>1. CASE Elsewhere
  BY <1>1 DEF Elsewhere
<1>2. ASSUME NEW i \in Slots, Perform(i) PROVE page' = page /\ (Moves \/ Stays)
  BY <1>2, PerformMoves DEF Perform
<1>3. CASE Asks \/ Opens \/ Types \/ Views \/ WorkflowsComment \/ Hears \/ Finishes
  BY <1>3 DEF Asks, Mutate, Opens, Open, Types, Fill, Views, View, WorkflowsComment, Hears, Told,
     Finishes, Stays
<1>4. CASE CloseDialogs \/ Leave \/ Look \/ \E i \in Slots : Fail(i)
  BY <1>4 DEF CloseDialogs, Leave, Look, pageVars, Fail, Stays
<1> QED BY <1>1, <1>2, <1>3, <1>4 DEF Shape

\* A list that was sound stays so, and the service's own rows are.
LEMMA SnapshotKept ==
  ASSUME PageTypeOK, Moves \/ Stays, NEW snapshot \in Snapshots, ListSound(snapshot)
  PROVE  ListSound(snapshot)'
<1>1. snapshot.at <= changes'
  BY DEF ListSound, Moves, Stays, PageTypeOK
<1>2. ASSUME NEW r \in Present(snapshot.rows)
      PROVE  FormSound(r, snapshot.rows[r].cols, snapshot.at, FALSE)'
  BY <1>2, FormKept DEF ListSound, Present
<1> QED BY <1>1, <1>2 DEF ListSound, Present

LEMMA OwnSnapshot == ASSUME PageTypeOK PROVE Snapshot \in Snapshots /\ ListSound(Snapshot)
BY DEF Snapshot, PageTypeOK, ListSound, Present, FormSound, There

\* What a shape does to the list.
LEMMA ShapeList ==
  ASSUME PageInv, Shape
  PROVE  /\ shown' = shown \/ (fetch = "answered" /\ shown' = answer)
         /\ fetch' = "answered" =>
              \/ fetch = "answered" /\ answer' = answer
              \/ answer' = Snapshot /\ UNCHANGED <<page, server, wrote, changes>>
<1> USE DEF query
<1>1. CASE Asks \/ Opens \/ Types \/ Views \/ WorkflowsComment
  BY <1>1 DEF Asks, Mutate, Opens, Open, Types, Fill, Views, View, WorkflowsComment
<1>2. CASE CloseDialogs \/ Elsewhere \/ \E i \in Slots : Perform(i) \/ Fail(i)
  BY <1>2 DEF CloseDialogs, Elsewhere, Perform, Fail
<1>3. CASE Hears \/ Finishes
  BY <1>3 DEF Hears, Told, Finishes, Hear, Refetch, Invalidate
<1>4. CASE Leave
  BY <1>4 DEF Leave, Unmount
<1>5. CASE Look
  BY <1>5 DEF Look, QueryStep, Mount, Refocus, Answer, Land, GiveUp, pageVars
<1> QED BY <1>1, <1>2, <1>3, <1>4, <1>5 DEF Shape

ListTypes ==
  /\ open \in BOOLEAN /\ fetch \in Fetching /\ broken \in BOOLEAN
  /\ answer \in Snapshots \cup {NoData} /\ shown \in Snapshots \cup {NoData}
  /\ fetch = "answered" => answer \in Snapshots
RowTypes ==
  /\ page \in Pages /\ server \in Table /\ wrote \in [Rows -> [Columns -> Nat]]
  /\ changes \in Nat /\ owed \in Nat /\ early \in BOOLEAN
Dialogs == [shown : BOOLEAN, row : Rows \cup {New}, form : Forms, typed : Inputs,
            at : Nat, blind : BOOLEAN]
Details == [shown : BOOLEAN, row : Rows \cup {NoRow}, stage : Stages, comment : Comments]
RequestTypes == reqs \in [Slots -> Requests \cup {Unused, [st |-> "over"]}]

LEMMA TypeParts ==
  PageTypeOK <=> ListTypes /\ RowTypes /\ dialog \in Dialogs /\ detail \in Details /\ RequestTypes
BY DEF PageTypeOK, ListTypes, RowTypes, Dialogs, Details, RequestTypes

LEMMA CleanTypes ==
  /\ CleanDialog \in Dialogs /\ CleanDetail \in Details
  /\ dialog \in Dialogs => Closed \in Dialogs
  /\ detail \in Details => [detail EXCEPT !.comment = Nobody] \in Details
  /\ Untyped \in Inputs
BY DEF CleanDialog, CleanDetail, Dialogs, Details, Closed, Untyped, Blanks

HIDE DEF Forms, Inputs, Comments, Snapshots, Table

LEMMA ListTyped == ASSUME PageTypeOK, Shape PROVE ListTypes'
<1> USE DEF ListTypes, query
<1>0. ListTypes /\ Snapshot \in Snapshots
  BY TypeParts, OwnSnapshot
<1>1. CASE Asks \/ Opens \/ Types \/ Views \/ WorkflowsComment
  BY <1>0, <1>1 DEF Asks, Mutate, Opens, Open, Types, Fill, Views, View, WorkflowsComment
<1>2. CASE CloseDialogs \/ Elsewhere \/ \E i \in Slots : Perform(i) \/ Fail(i)
  BY <1>0, <1>2 DEF CloseDialogs, Elsewhere, Perform, Fail
<1>3. CASE Hears \/ Finishes
  BY <1>0, <1>3 DEF Hears, Told, Finishes, Hear, Refetch, Invalidate
<1>4. CASE Leave
  BY <1>0, <1>4 DEF Leave, Unmount
<1>5. CASE Look
  BY <1>0, <1>5 DEF Look, QueryStep, Mount, Refocus, Answer, Land, GiveUp
<1> QED BY <1>1, <1>2, <1>3, <1>4, <1>5 DEF Shape

LEMMA RowTyped == ASSUME PageInv, Shape PROVE RowTypes'
<1>1. RowTypes /\ RequestTypes
  BY TypeParts DEF PageInv
<1>2. page' = page /\ (Moves \/ Stays)
  BY ShapeMoves
<1>3. /\ page' \in Pages /\ server' \in Table /\ wrote' \in [Rows -> [Columns -> Nat]]
      /\ changes' \in Nat
  BY <1>1, <1>2 DEF RowTypes, Moves, Grows, Stays
<1>4. owed' \in Nat /\ early' \in BOOLEAN
  <2>1. CASE Hears \/ Finishes
    <3>1. \E mine, pos : pos \in Nat /\ Hear(mine, pos)
      <4>1. CASE Finishes
        BY <4>1 DEF Finishes
      <4>2. CASE Hears
        <5>1. PICK i \in Slots : Told(i, Kinds)
          BY <4>2 DEF Hears
        <5>2. reqs[i].pos \in Nat /\ Hear(reqs[i].mine, reqs[i].pos)
          BY <1>1, <5>1 DEF RequestTypes, Requests, Told, Unused
        <5> QED BY <5>2
      <4> QED BY <2>1, <4>1, <4>2
    <3>2. PICK mine, pos : pos \in Nat /\ Hear(mine, pos)
      BY <3>1
    <3>3. owed' \in {owed, pos}
      BY <3>2, Zenon DEF Hear
    <3>4. early' \in BOOLEAN
      BY <3>2, Zenon DEF Hear
    <3> QED BY <1>1, <3>2, <3>3, <3>4 DEF RowTypes
  <2>2. CASE Asks \/ Opens \/ Types \/ Views \/ WorkflowsComment
    BY <1>1, <2>2 DEF RowTypes, Asks, Mutate, Opens, Open, Types, Fill, Views, View, WorkflowsComment
  <2>3. CASE CloseDialogs \/ Elsewhere \/ Look
    BY <1>1, <2>3 DEF RowTypes, CloseDialogs, Elsewhere, Look, pageVars
  <2>4. CASE \E i \in Slots : Perform(i) \/ Fail(i)
    BY <1>1, <2>4 DEF RowTypes, Perform, Fail
  <2>5. CASE Leave
    BY <2>5 DEF Leave
  <2> QED BY <2>1, <2>2, <2>3, <2>4, <2>5 DEF Shape
<1> QED BY <1>3, <1>4 DEF RowTypes

LEMMA DialogTyped == ASSUME PageTypeOK, Shape PROVE (dialog \in Dialogs /\ detail \in Details)'
<1>0. dialog \in Dialogs /\ detail \in Details
  BY TypeParts
<1>1. CASE Asks \/ Elsewhere \/ Finishes \/ Look \/ \E i \in Slots : Perform(i) \/ Fail(i)
  BY <1>0, <1>1 DEF Asks, Mutate, Elsewhere, Finishes, Look, pageVars, Perform, Fail
<1>2. CASE Opens
  BY <1>0, <1>2, CleanTypes DEF Opens, Open, StartTyped, Dialogs
<1>3. CASE Types
  <2>1. PICK f \in Fields, by \in {Nobody, dialog.row} : Fill(f, by)
    BY <1>3 DEF Types
  <2>2. [dialog.typed EXCEPT ![f] = by] \in Inputs
    BY <1>0, <2>1 DEF Dialogs, Inputs
  <2> QED BY <1>0, <2>1, <2>2 DEF Fill, Dialogs
<1>4. CASE Views
  <2>1. PICK r \in Rows : View(r)
    BY <1>4 DEF Views
  <2>2. shown \in Snapshots /\ r \in Present(shown.rows)
    BY <2>1, TypeParts DEF View, Listed, Loaded, ListTypes
  <2>3. shown.rows[r].stage \in Stages
    BY <2>2 DEF Present, Row, Snapshots, Table
  <2> QED BY <1>0, <2>1, <2>3 DEF View, Details, Comments
<1>5. CASE WorkflowsComment
  BY <1>0, <1>5 DEF WorkflowsComment, Details, Comments
<1>6. CASE Hears \/ CloseDialogs
  BY <1>0, <1>6, CleanTypes DEF Hears, CloseDialogs
<1>7. CASE Leave
  BY <1>7, CleanTypes DEF Leave
<1> QED BY <1>1, <1>2, <1>3, <1>4, <1>5, <1>6, <1>7 DEF Shape

LEMMA RequestTyped == ASSUME PageInv, Shape PROVE RequestTypes'
<1> USE DEF RequestTypes, Slots
<1>0. RequestTypes /\ RowTypes /\ page' = page
  BY TypeParts, ShapeMoves DEF PageInv
<1>1. CASE Asks
  <2>1. PICK q \in Requests : Mutate(q)
    BY <1>1 DEF Asks
  <2> HIDE DEF Requests
  <2> QED BY <1>0, <2>1 DEF Mutate
<1>2. CASE Opens \/ Types \/ Views \/ WorkflowsComment \/ CloseDialogs \/ Elsewhere
            \/ Finishes \/ Look
  BY <1>0, <1>2 DEF Opens, Open, Types, Fill, Views, View, WorkflowsComment, CloseDialogs, Elsewhere,
     Finishes, Look, pageVars
<1>3. CASE Hears \/ \E i \in Slots : Fail(i)
  BY <1>0, <1>3 DEF Hears, Told, Fail
<1>4. CASE Leave
  <2>1. \A q \in Requests : [q EXCEPT !.mine = FALSE] \in Requests
    OBVIOUS
  <2>2. \A i \in Slots : reqs[i].st \in {"sent", "done"} => reqs[i] \in Requests
    BY <1>0
  <2> HIDE DEF Requests
  <2> QED BY <1>0, <1>4, <2>1, <2>2 DEF Leave
<1>5. ASSUME NEW i \in Slots, Perform(i) PROVE RequestTypes'
  <2>1. \A q \in Requests, n \in Nat : [q EXCEPT !.st = "done", !.pos = n] \in Requests
    OBVIOUS
  <2>2. reqs[i] \in Requests /\ changes + 1 \in Nat
    BY <1>0, <1>5, PerformMoves DEF RowTypes
  <2>3. [reqs[i] EXCEPT !.st = "done", !.pos = changes + 1] \in Requests
    BY <2>1, <2>2
  <2> HIDE DEF Requests
  <2> QED BY <1>0, <1>5, <2>3 DEF Perform
<1> QED BY <1>1, <1>2, <1>3, <1>4, <1>5 DEF Shape

LEMMA TypeKept == ASSUME PageInv, Shape PROVE PageTypeOK'
<1>1. PageTypeOK
  BY DEF PageInv
<1>2. ListTypes' /\ RowTypes' /\ (dialog \in Dialogs /\ detail \in Details)' /\ RequestTypes'
  BY <1>1, ListTyped, RowTyped, DialogTyped, RequestTyped
<1> QED BY <1>2, TypeParts, PTL

LEMMA ListsKept == ASSUME PageInv, Shape PROVE ListsSound'
<1>1. Moves \/ Stays
  BY ShapeMoves
<1>2. PageTypeOK /\ PageTypeOK'
  BY TypeKept DEF PageInv
<1>3. ASSUME NEW snapshot \in Snapshots, ListSound(snapshot) PROVE ListSound(snapshot)'
  BY <1>1, <1>2, <1>3, SnapshotKept
<1>4. ASSUME shown' # NoData PROVE ListSound(shown)'
  <2>1. \E snapshot \in Snapshots : ListSound(snapshot) /\ shown' = snapshot
    BY <1>2, <1>4, ShapeList DEF PageInv, ListsSound, PageTypeOK
  <2>2. PICK snapshot \in Snapshots : ListSound(snapshot) /\ shown' = snapshot
    BY <2>1
  <2>3. ListSound(snapshot)'
    BY <1>3, <2>2
  <2> QED BY <2>2, <2>3 DEF ListSound
<1>5. ASSUME fetch' = "answered" PROVE ListSound(answer)'
  <2>1. \E snapshot \in Snapshots : ListSound(snapshot) /\ answer' = snapshot
    BY <1>2, <1>5, ShapeList, OwnSnapshot DEF PageInv, ListsSound, PageTypeOK
  <2>2. PICK snapshot \in Snapshots : ListSound(snapshot) /\ answer' = snapshot
    BY <2>1
  <2>3. ListSound(snapshot)'
    BY <1>3, <2>2
  <2> QED BY <2>2, <2>3 DEF ListSound
<1> QED BY <1>4, <1>5 DEF ListsSound

LEMMA TypesNow ==
  ASSUME PageInv
  PROVE  PageTypeOK /\ ListTypes /\ RowTypes /\ dialog \in Dialogs /\ detail \in Details /\ RequestTypes
BY TypeParts DEF PageInv

LEMMA DialogsKept == ASSUME PageInv, Shape PROVE DialogsSound'
<1>0. (Moves \/ Stays) /\ DialogsSound /\ dialog \in Dialogs /\ detail \in Details /\ PageTypeOK
  BY ShapeMoves, TypesNow DEF PageInv
<1>1. ASSUME NEW d \in Dialogs, FormSound(d.row, d.form, d.at, d.blind),
             dialog' = d, d.shown => \A f \in Fields : d.typed[f] \in {Nobody, d.row}
      PROVE  /\ FormSound(dialog.row, dialog.form, dialog.at, dialog.blind)'
             /\ dialog'.shown => \A f \in Fields : dialog'.typed[f] \in {Nobody, dialog'.row}
  <2>1. FormSound(d.row, d.form, d.at, d.blind)'
    BY <1>0, <1>1, FormKept DEF Dialogs
  <2> QED BY <1>1, <2>1 DEF FormSound, There
<1>2. ASSUME NEW d \in Details, detail' = d, d.shown => There(d.row), d.comment \in {Nobody, d.row}
      PROVE  /\ detail'.shown => There(detail.row)'
             /\ detail'.comment \in {Nobody, detail'.row}
  BY <1>0, <1>2 DEF There, Moves, Stays, Grows
<1>3. /\ FormSound(CleanDialog.row, CleanDialog.form, CleanDialog.at, CleanDialog.blind)
      /\ FormSound(Closed.row, Closed.form, Closed.at, Closed.blind)
      /\ ~CleanDialog.shown /\ ~Closed.shown /\ ~CleanDetail.shown /\ CleanDetail.comment = Nobody
  BY DEF FormSound, CleanDialog, Closed, CleanDetail
<1>4. CASE dialog' = dialog /\ detail' = detail
  BY <1>0, <1>1, <1>2, <1>4 DEF DialogsSound
<1>5. CASE Opens
  <2>1. PICK row \in Rows \cup {New}, form \in Forms, at \in Nat, blind \in BOOLEAN :
          Open(row, form, at, blind) /\ FormSound(row, form, at, blind)
    BY <1>5 DEF Opens
  <2>2. detail' = detail /\ dialog' \in Dialogs
    BY <2>1, CleanTypes DEF Open, StartTyped, Dialogs
  <2>3. PICK d \in Dialogs : dialog' = d
    BY <2>2
  <2>4. /\ d.row = row /\ d.form = form /\ d.at = at /\ d.blind = blind
        /\ \A f \in Fields : d.typed[f] = Nobody
    BY <2>1, <2>3 DEF Open, StartTyped, Untyped
  <2>5. FormSound(d.row, d.form, d.at, d.blind)
    BY <2>1, <2>4
  <2> QED BY <1>0, <1>1, <1>2, <2>2, <2>3, <2>4, <2>5 DEF DialogsSound
<1>6. CASE Types
  <2>1. PICK f \in Fields, by \in {Nobody, dialog.row} : Fill(f, by)
    BY <1>6 DEF Types
  <2>2. detail' = detail /\ dialog' \in Dialogs
    BY <2>1, <1>6, DialogTyped, TypesNow DEF Shape, Fill
  <2>3. PICK d \in Dialogs : dialog' = d
    BY <2>2
  <2>4. /\ d.row = dialog.row /\ d.form = dialog.form /\ d.at = dialog.at /\ d.blind = dialog.blind
        /\ \A g \in Fields : d.typed[g] \in {dialog.typed[g], by}
        /\ dialog.shown
    BY <1>0, <2>1, <2>3 DEF Fill, Dialogs, Inputs
  <2>5. FormSound(d.row, d.form, d.at, d.blind) /\ \A g \in Fields : d.typed[g] \in {Nobody, d.row}
    BY <1>0, <2>1, <2>4 DEF DialogsSound
  <2> QED BY <1>0, <1>1, <1>2, <2>2, <2>3, <2>5 DEF DialogsSound
<1>7. CASE Views
  <2>1. PICK r \in Rows : View(r) /\ There(r)
    BY <1>7 DEF Views
  <2>2. dialog' = dialog /\ detail' \in Details
    BY <2>1, <1>7, DialogTyped, TypesNow DEF Shape, View
  <2>3. PICK d \in Details : detail' = d
    BY <2>2
  <2>4. d.row = r /\ d.comment = Nobody
    BY <2>1, <2>3 DEF View
  <2> QED BY <1>0, <1>1, <1>2, <2>1, <2>2, <2>3, <2>4 DEF DialogsSound
<1>8. CASE WorkflowsComment
  <2>1. dialog' = dialog /\ detail' \in Details
    BY <1>8, DialogTyped, TypesNow DEF Shape, WorkflowsComment
  <2>2. PICK d \in Details : detail' = d
    BY <2>1
  <2>3. d.row = detail.row /\ d.comment = detail.row /\ d.shown = detail.shown
    BY <1>0, <1>8, <2>2 DEF WorkflowsComment, Details
  <2> QED BY <1>0, <1>1, <1>2, <2>1, <2>2, <2>3 DEF DialogsSound
<1>9. CASE Hears \/ CloseDialogs \/ Leave
  <2>1. /\ dialog' \in {dialog, Closed, CleanDialog}
        /\ detail' \in {detail, CleanDetail, [detail EXCEPT !.comment = Nobody]}
    BY <1>9 DEF Hears, CloseDialogs, Leave
  <2>2. PICK d \in Dialogs : d \in {dialog, Closed, CleanDialog} /\ dialog' = d
    BY <1>0, <2>1, CleanTypes
  <2>3. PICK e \in Details :
          e \in {detail, CleanDetail, [detail EXCEPT !.comment = Nobody]} /\ detail' = e
    BY <1>0, <2>1, CleanTypes
  <2>4. /\ FormSound(d.row, d.form, d.at, d.blind)
        /\ d.shown => \A f \in Fields : d.typed[f] \in {Nobody, d.row}
    BY <1>0, <1>3, <2>2 DEF DialogsSound
  <2>5. (e.shown => There(e.row)) /\ e.comment \in {Nobody, e.row}
    BY <1>0, <1>3, <2>3 DEF DialogsSound, Details
  <2> QED BY <1>1, <1>2, <2>2, <2>3, <2>4, <2>5 DEF DialogsSound
<1>10. CASE Asks \/ Elsewhere \/ Finishes \/ Look \/ \E i \in Slots : Perform(i) \/ Fail(i)
  BY <1>4, <1>10 DEF Asks, Mutate, Elsewhere, Finishes, Look, pageVars, Perform, Fail
<1> QED BY <1>5, <1>6, <1>7, <1>8, <1>9, <1>10 DEF Shape

-----------------------------------------------------------------------------
\* The parts of a request that RequestSound is about.
Content(q) == <<q.kind, q.row, q.form, q.typed, q.comment, q.at, q.blind>>

LEMMA RequestsKept == ASSUME PageInv, Shape PROVE RequestsSound'
<1>0. /\ page' = page /\ (Moves \/ Stays) /\ RequestsSound /\ RequestTypes /\ RequestTypes'
      /\ PageTypeOK
  BY ShapeMoves, RequestTyped, TypesNow DEF PageInv
<1>1. ASSUME NEW q \in Requests, RequestSound(q) PROVE RequestSound(q)'
  <2>1. q.kind = "save" => FormSound(q.row, q.form, q.at, q.blind)'
    <3> SUFFICES ASSUME q.kind = "save" PROVE FormSound(q.row, q.form, q.at, q.blind)'
      OBVIOUS
    <3>1. FormSound(q.row, q.form, q.at, q.blind)
      BY <1>1 DEF RequestSound
    <3>2. q.row \in Rows \cup {New} /\ q.at \in Nat
      BY <3>1 DEF FormSound, There
    <3> QED BY <1>0, <3>1, <3>2, FormKept
  <2>2. q.row # New => There(q.row)'
    BY <1>0, <1>1 DEF RequestSound, There, Moves, Stays, Grows
  <2> QED BY <1>0, <1>1, <2>1, <2>2 DEF RequestSound
<1>2. SUFFICES ASSUME NEW j \in Slots, reqs'[j] \in Requests PROVE RequestSound(reqs[j])'
  BY <1>0 DEF RequestsSound, Slots
<1>3. ASSUME NEW q \in Requests, RequestSound(q), Content(reqs'[j]) = Content(q)
      PROVE  RequestSound(reqs[j])'
  BY <1>1, <1>3 DEF Content, RequestSound, FormSound, There
<1>4. CASE reqs'[j] = reqs[j]
  BY <1>0, <1>2, <1>3, <1>4 DEF RequestsSound
<1>5. CASE Asks
  <2>1. PICK q \in Requests : Mutate(q) /\ RequestSound(q)
    BY <1>5 DEF Asks
  <2>2. reqs'[j] \in {reqs[j], q}
    BY <1>0, <2>1 DEF Mutate, RequestTypes
  <2> QED BY <1>3, <1>4, <2>1, <2>2
<1>6. CASE Hears \/ \E i \in Slots : Fail(i)
  <2>1. reqs'[j] \in {reqs[j], [st |-> "over"]}
    BY <1>0, <1>6 DEF Hears, Told, Fail, RequestTypes
  <2>2. reqs'[j] # [st |-> "over"]
    BY <1>2
  <2> QED BY <1>4, <2>1, <2>2
<1>7. CASE Leave
  <2>1. reqs'[j] \in {reqs[j], [reqs[j] EXCEPT !.mine = FALSE]}
    BY <1>0, <1>7 DEF Leave
  <2>2. reqs[j] \in Requests
    BY <1>0, <1>2, <1>7 DEF Leave, RequestTypes
  <2>3. Content(reqs'[j]) = Content(reqs[j])
    BY <2>1, <2>2 DEF Content
  <2> QED BY <1>0, <1>3, <2>2, <2>3 DEF RequestsSound
<1>8. ASSUME NEW i \in Slots, Perform(i) PROVE RequestSound(reqs[j])'
  <2>1. reqs[i] \in Requests
    BY <1>8, PerformMoves
  <2>2. CASE i = j
    <3>1. Content(reqs'[j]) = Content(reqs[j])
      BY <1>0, <1>8, <2>1, <2>2 DEF Content, Perform, RequestTypes
    <3> QED BY <1>0, <1>3, <2>1, <2>2, <3>1 DEF RequestsSound
  <2>3. CASE i # j
    BY <1>0, <1>4, <1>8, <2>3 DEF Perform, RequestTypes
  <2> QED BY <2>2, <2>3
<1>9. CASE Opens \/ Types \/ Views \/ WorkflowsComment \/ CloseDialogs \/ Elsewhere
            \/ Finishes \/ Look
  BY <1>4, <1>9 DEF Opens, Open, Types, Fill, Views, View, WorkflowsComment, CloseDialogs, Elsewhere,
     Finishes, Look, pageVars
<1> QED BY <1>5, <1>6, <1>7, <1>8, <1>9 DEF Shape

-----------------------------------------------------------------------------
LEMMA PagesKept == ASSUME PageInv, Shape PROVE PagesDiffer'
<1>0. page' = page /\ (Moves \/ Stays) /\ PagesDiffer
  BY ShapeMoves DEF PageInv
<1>1. ASSUME page \in {"search", "notifications"} PROVE dialog'.row = New
  <2>0. dialog.row = New /\ dialog \in Dialogs
    BY <1>0, <1>1, TypesNow DEF PagesDiffer
  <2>1. CASE Opens
    BY <1>1, <2>1 DEF Opens, Open
  <2>2. CASE Types
    BY <2>0, <2>2 DEF Types, Fill, Dialogs
  <2>3. CASE Hears \/ CloseDialogs \/ Leave
    BY <2>0, <2>3 DEF Hears, CloseDialogs, Leave, Closed, CleanDialog
  <2>4. CASE \/ Asks \/ Views \/ WorkflowsComment \/ Elsewhere \/ Finishes \/ Look
             \/ \E i \in Slots : Perform(i) \/ Fail(i)
    BY <2>0, <2>4 DEF Asks, Mutate, Views, View, WorkflowsComment, Elsewhere, Finishes, Look, pageVars, Perform, Fail
  <2> QED BY <2>1, <2>2, <2>3, <2>4 DEF Shape
<1>2. ASSUME page = "roles", NEW r \in Rows
      PROVE  /\ server'[r] \in Row
             /\ shown' # NoData => shown'.rows[r] \in Row
             /\ fetch' = "answered" => answer'.rows[r] \in Row
  <2>1. server[r] \in Row /\ server'[r] \in Row
    BY <1>0, <1>2 DEF PagesDiffer, Moves, Stays, Grows
  <2>2. shown' # NoData => shown'.rows[r] \in Row
    BY <1>0, <1>2, ShapeList, TypesNow DEF PagesDiffer
  <2>3. fetch' = "answered" => answer'.rows[r] \in Row
    BY <1>0, <1>2, <2>1, ShapeList DEF PagesDiffer, Snapshot
  <2> QED BY <2>1, <2>2, <2>3
<1> QED BY <1>0, <1>1, <1>2 DEF PagesDiffer

\* What the list owes, apart from the requests.
Owed ==
  /\ owed <= changes /\ (~open => owed = 0 /\ ~early)
  /\ fetch = "answered" /\ ~early => answer.at >= owed
  /\ AcknowledgedIsShown

\* A page that hears of a change has its list fetched anew, unless the list has failed to
\* come, or its first fetch is under way.
LEMMA HeardOwed ==
  ASSUME PageInv, NEW mine \in BOOLEAN, NEW pos \in Nat, pos <= changes, mine => open,
         changes' = changes, Hear(mine, pos)
  PROVE  Owed'
<1>1. Owed /\ ListTypes /\ RowTypes
  BY TypesNow DEF PageInv, Owing, Owed
<1>2. owed' \in Nat /\ owed' <= changes' /\ (~mine => owed' = owed) /\ (owed' # owed => open)
  BY <1>1 DEF Hear, RowTypes, Owed
<1>3. CASE open /\ (fetch = "idle" \/ shown # NoData)
  <2>1. fetch' = "asked" /\ open'
    BY <1>3 DEF Hear, Refetch, Invalidate
  <2> QED BY <1>2, <2>1 DEF Owed, AcknowledgedIsShown, Settled
<1>4. CASE ~(open /\ (fetch = "idle" \/ shown # NoData))
  <2>1. UNCHANGED query
    BY <1>4 DEF Hear, Refetch, Invalidate, query
  <2>2. CASE ~open
    <3>1. owed' = owed /\ owed = 0 /\ ~early /\ ~mine
      BY <1>1, <1>2, <2>2 DEF Owed
    <3>2. ~early'
      BY <3>1 DEF Hear
    <3> QED BY <1>1, <1>2, <2>1, <2>2, <3>1, <3>2 DEF Owed, AcknowledgedIsShown, Settled, query
  <2>3. CASE open
    <3>1. fetch # "idle" /\ shown = NoData
      BY <1>4, <2>3
    <3>2. fetch = "answered" /\ ~early' => ~early /\ ~mine
      BY <3>1 DEF Hear, RowTypes
    <3> QED BY <1>1, <1>2, <2>1, <2>3, <3>1, <3>2 DEF Owed, AcknowledgedIsShown, Settled, query
  <2> QED BY <2>2, <2>3
<1> QED BY <1>3, <1>4

LEMMA OwedKept == ASSUME PageInv, Shape PROVE Owed'
<1> USE DEF query, AcknowledgedIsShown, Settled, Owed
<1>0. Owed /\ Owing /\ RequestTypes /\ ListTypes /\ RowTypes /\ (Moves \/ Stays)
  BY ShapeMoves, TypesNow DEF PageInv, Owing
<1>1. owed \in Nat /\ changes \in Nat /\ changes' \in {changes, changes + 1}
  BY <1>0 DEF Moves, Stays, RowTypes
<1>2. CASE Asks \/ Opens \/ Types \/ Views \/ WorkflowsComment
  BY <1>0, <1>1, <1>2 DEF Asks, Mutate, Opens, Open, Types, Fill, Views, View, WorkflowsComment
<1>3. CASE CloseDialogs \/ Elsewhere \/ \E i \in Slots : Perform(i) \/ Fail(i)
  <2>1. UNCHANGED <<open, fetch, answer, shown, broken, told>>
    BY <1>3 DEF CloseDialogs, Elsewhere, Perform, Fail
  <2> QED BY <1>0, <1>1, <2>1
<1>4. CASE Hears
  <2>1. PICK i \in Slots : Told(i, Kinds)
    BY <1>4 DEF Hears
  <2>2. reqs[i] \in Requests /\ reqs[i].pos <= changes /\ (reqs[i].mine => open)
    BY <1>0, <2>1 DEF Told, RequestTypes, Owing
  <2>3. changes' = changes /\ Hear(reqs[i].mine, reqs[i].pos)
    BY <2>1 DEF Told
  <2> QED BY <2>2, <2>3, HeardOwed DEF Requests
<1>5. CASE Leave
  <2>1. owed' = 0 /\ ~early' /\ ~open' /\ fetch' = fetch /\ answer' = answer
    BY <1>5 DEF Leave, Unmount
  <2>2. fetch = "answered" => answer.at \in Nat
    BY <1>0 DEF ListTypes, Snapshots
  <2> QED BY <1>1, <2>1, <2>2
<1>6. CASE Look
  <2>1. /\ owed' = owed /\ changes' = changes
        /\ early' = (early /\ (fetch = "idle" => fetch' = "idle"))
    BY <1>6 DEF Look
  <2>2. CASE Answer(Snapshot)
    BY <1>0, <2>1, <2>2 DEF Answer, Snapshot
  <2>3. CASE Mount \/ Refocus \/ Land \/ GiveUp
    BY <1>0, <2>1, <2>3 DEF Mount, Refocus, Land, GiveUp
  <2> QED BY <1>6, <2>2, <2>3 DEF Look, QueryStep
<1>7. CASE Finishes
  <2>1. PICK mine \in BOOLEAN, pos \in Nat :
          pos <= changes /\ (mine => open) /\ Hear(mine, pos) /\ changes' = changes
    BY <1>7 DEF Finishes
  <2> QED BY <2>1, HeardOwed
<1> QED BY <1>2, <1>3, <1>4, <1>5, <1>6, <1>7 DEF Shape

LEMMA OwingKept == ASSUME PageInv, Shape PROVE Owing'
<1>0. /\ Owing /\ RequestTypes /\ RequestTypes' /\ RowTypes /\ page' = page /\ (Moves \/ Stays)
  BY ShapeMoves, RequestTyped, TypesNow DEF PageInv
<1>1. changes \in Nat /\ changes' \in {changes, changes + 1}
  BY <1>0 DEF Moves, Stays, RowTypes
<1>2. ASSUME NEW j \in Slots, reqs'[j] \in Requests
      PROVE  (reqs'[j].mine => open') /\ (reqs'[j].st = "done" => reqs'[j].pos <= changes')
  <2> USE DEF query
  <2>1. ASSUME reqs'[j] = reqs[j], open' = open
        PROVE  (reqs'[j].mine => open') /\ (reqs'[j].st = "done" => reqs'[j].pos <= changes')
    BY <1>0, <1>1, <1>2, <2>1 DEF Owing
  <2>2. CASE Asks
    <3>1. PICK q \in Requests : Mutate(q) /\ q.st = "sent"
      BY <2>2 DEF Asks
    <3>2. reqs'[j] \in {reqs[j], q} /\ open /\ open' = open
      BY <1>0, <3>1 DEF Mutate, RequestTypes
    <3> QED BY <2>1, <3>1, <3>2
  <2>3. CASE Hears \/ \E i \in Slots : Fail(i)
    <3>1. reqs'[j] \in {reqs[j], [st |-> "over"]}
      BY <1>0, <2>3 DEF Hears, Told, Fail, RequestTypes
    <3>2. reqs'[j] # [st |-> "over"] /\ open' = open
      BY <1>2, <2>3 DEF Hears, Told, Hear, Refetch, Invalidate, Fail
    <3> QED BY <2>1, <3>1, <3>2
  <2>4. CASE Leave
    <3>1. reqs[j] \in Requests /\ reqs'[j] = [reqs[j] EXCEPT !.mine = FALSE]
      BY <1>0, <1>2, <2>4 DEF Leave, RequestTypes
    <3>2. ~reqs'[j].mine /\ reqs'[j].st = reqs[j].st /\ reqs'[j].pos = reqs[j].pos
      BY <3>1
    <3>3. changes' = changes
      BY <2>4 DEF Leave
    <3> QED BY <1>0, <3>1, <3>2, <3>3 DEF Owing
  <2>5. ASSUME NEW i \in Slots, Perform(i)
        PROVE  (reqs'[j].mine => open') /\ (reqs'[j].st = "done" => reqs'[j].pos <= changes')
    <3>1. reqs[i] \in Requests /\ changes' = changes + 1 /\ open' = open
      BY <2>5, PerformMoves DEF Perform, Moves
    <3>2. CASE i = j
      <4>1. reqs'[j] = [reqs[i] EXCEPT !.st = "done", !.pos = changes + 1]
        BY <1>0, <2>5, <3>2 DEF Perform, RequestTypes
      <4>2. reqs'[j].mine = reqs[j].mine /\ reqs'[j].pos = changes + 1
        BY <3>1, <3>2, <4>1
      <4> QED BY <1>0, <1>1, <3>1, <3>2, <4>2 DEF Owing
    <3>3. CASE i # j
      BY <1>0, <2>1, <2>5, <3>1, <3>3 DEF Perform, RequestTypes
    <3> QED BY <3>2, <3>3
  <2>6. CASE Look
    <3>1. reqs' = reqs /\ (open => open') /\ changes' = changes
      BY <2>6 DEF Look, pageVars, QueryStep, Mount, Refocus, Answer, Land, GiveUp
    <3> QED BY <1>0, <1>2, <3>1 DEF Owing
  <2>7. CASE Opens \/ Types \/ Views \/ WorkflowsComment \/ CloseDialogs \/ Elsewhere
             \/ Finishes
    BY <2>1, <2>7 DEF Opens, Open, Types, Fill, Views, View, WorkflowsComment, CloseDialogs,
       Elsewhere, Finishes, Hear, Refetch, Invalidate
  <2> QED BY <2>2, <2>3, <2>4, <2>5, <2>6, <2>7 DEF Shape
<1>3. Slots' = Slots
  BY <1>0 DEF Slots
<1> QED BY <1>2, <1>3, OwedKept DEF Owing, Owed

\* All steps of a page, and what batches do to it, keep the invariant.
LEMMA ShapeKept == ASSUME PageInv, Shape PROVE PageInv'
<1>1. PageTypeOK' /\ ListsSound' /\ DialogsSound' /\ RequestsSound' /\ PagesDiffer' /\ Owing'
  BY TypeKept, ListsKept, DialogsKept, RequestsKept, PagesKept, OwingKept
<1> QED BY <1>1 DEF PageInv
-----------------------------------------------------------------------------
(* The batches.                                                             *)

Going == [st : {"read", "send", "stored"}, count : Counts, names : Nat, stored : Seq(Nat),
          pos : Nat, mine : BOOLEAN, good : BOOLEAN]
Ended == [st : {"over"}, count : Counts, names : Nat, stored : Seq(Nat), good : BOOLEAN]
RunTypes == queue \in Nat /\ runs \in [1..MaxRuns -> {NoRun} \cup Going \cup Ended]

LEMMA RunTypeParts == TypeOK <=> PageTypeOK /\ RunTypes
BY DEF TypeOK, RunTypes, Going, Ended

LEMMA ActiveGoing == ASSUME RunTypes, NEW i \in 1..MaxRuns PROVE Active(i) <=> runs[i] \in Going
BY DEF RunTypes, Active, Going, Ended, NoRun

\* Of the page, a step of a batch changes what one of the shapes changes, or nothing.
LEMMA NextPage == ASSUME IInv, [Next]_vars PROVE PageInv' /\ changes' \in {changes, changes + 1}
<1>0. PageInv /\ changes \in Nat /\ RunTypes
  BY TypesNow, RunTypeParts DEF IInv, RowTypes
<1>1. CASE Shape
  BY <1>0, <1>1, ShapeKept, ShapeMoves DEF Moves, Stays
<1>2. CASE UNCHANGED <<query, pageVars>>
  <2> USE DEF query, pageVars
  <2>1. PageTypeOK' /\ ListsSound' /\ DialogsSound' /\ RequestsSound' /\ PagesDiffer' /\ Owing'
    BY <1>0, <1>2 DEF PageInv, PageTypeOK, ListsSound, ListSound, Present, DialogsSound,
       RequestsSound, RequestSound, FormSound, There, PagesDiffer, Owing, AcknowledgedIsShown,
       Settled, Slots
  <2> QED BY <1>2, <2>1 DEF PageInv
<1>3. ASSUME NEW i \in 1..MaxRuns, Store(i) PROVE Shape
  <2>1. PICK r \in Rows : server[r] = NoRow /\ Change([server EXCEPT ![r] = Fresh(r)])
    BY <1>3 DEF Store
  <2>2. Grows([server EXCEPT ![r] = Fresh(r)])
    BY <1>0, <2>1, TypesNow DEF Grows, RowTypes, Table, Fresh, Row
  <2>3. Moves
    BY <1>0, <2>1, <2>2, ChangeMoves, TypesNow
  <2> QED BY <1>3, <2>3 DEF Store, Elsewhere, Shape
<1>4. ASSUME NEW i \in 1..MaxRuns, Finish(i) PROVE Shape
  <2>1. runs[i] \in Going /\ runs[i].pos <= changes /\ (runs[i].mine => open)
    BY <1>0, <1>4, ActiveGoing DEF IInv, Stored, Finish, Active
  <2>2. runs[i].mine \in BOOLEAN /\ runs[i].pos \in Nat
    BY <2>1 DEF Going
  <2>3. Finishes
    BY <1>4, <2>1, <2>2 DEF Finish, Finishes
  <2> QED BY <2>3 DEF Shape
<1>5. CASE PageStep
  BY <1>0, <1>1, <1>5, PageShape DEF PageStep
<1>6. CASE \/ \E files \in Batches : Select(files)
           \/ \E i \in 1..MaxRuns : Read(i) \/ NextFile(i) \/ Break(i)
  BY <1>2, <1>6 DEF Select, Read, NextFile, Break
<1>7. CASE UNCHANGED vars
  BY <1>2, <1>7 DEF vars
<1> QED BY <1>1, <1>3, <1>4, <1>5, <1>6, <1>7 DEF Next

\* What is known of each batch.
InOrder(files) == files = [k \in 1..Len(files) |-> k]
RunSound(run) ==
  /\ InOrder(run.stored)
  /\ Len(run.stored) = IF run.st = "stored" THEN run.names + 1 ELSE run.names
  /\ ~run.good /\ (run.mine => open)
  /\ run.st = "stored" => run.pos <= changes
EndSound(run) ==
  /\ InOrder(run.stored)
  /\ Len(run.stored) \in {run.names, run.names + 1}
  /\ run.good => Len(run.stored) = run.count
Batch(run) == run = NoRun \/ (run \in Going /\ RunSound(run)) \/ (run \in Ended /\ EndSound(run))

AllBatches == \A i \in 1..MaxRuns : Batch(runs[i])

LEMMA RunsBySteps ==
  /\ \A run \in Going : run.st \in {"read", "send", "stored"} /\ run.names \in Nat /\ run.pos \in Nat
  /\ \A run \in Ended : run.st = "over" /\ run.names \in Nat
  /\ NoRun.st = "unused"
BY DEF Going, Ended, NoRun

LEMMA OrderStays == \A files : InOrder(files)' <=> InOrder(files)
BY DEF InOrder

LEMMA BatchParts ==
  RunTypes => (Stored /\ BatchIsPrefix <=> AllBatches)
<1> USE DEF AllBatches
<1> SUFFICES ASSUME RunTypes PROVE Stored /\ BatchIsPrefix <=> \A i \in 1..MaxRuns : Batch(runs[i])
  OBVIOUS
<1>1. ASSUME Stored, BatchIsPrefix, NEW i \in 1..MaxRuns PROVE Batch(runs[i])
  BY <1>1, ActiveGoing DEF RunTypes, Batch, InOrder, RunSound, EndSound, Stored, BatchIsPrefix, Ended, NoRun
<1>2. ASSUME \A i \in 1..MaxRuns : Batch(runs[i]), NEW i \in 1..MaxRuns, Active(i)
      PROVE  RunSound(runs[i])
  BY <1>2, RunsBySteps DEF Batch, Active
<1>3. ASSUME \A i \in 1..MaxRuns : Batch(runs[i]), NEW i \in 1..MaxRuns, runs[i].st # "unused"
      PROVE  EndSound(runs[i])
  BY <1>3, RunsBySteps DEF Batch, RunSound, EndSound
<1> QED BY <1>1, <1>2, <1>3 DEF Stored, BatchIsPrefix, InOrder, RunSound, EndSound

\* A batch keeps what is known of it while the page and the service go on.
LEMMA BatchKept ==
  ASSUME NEW run, Batch(run), changes \in Nat, changes' \in {changes, changes + 1}, open => open'
  PROVE  Batch(run)'
<1>1. run \in Going /\ RunSound(run) => RunSound(run)'
  BY RunsBySteps, OrderStays DEF RunSound
<1>2. EndSound(run) => EndSound(run)'
  BY OrderStays DEF EndSound
<1> QED BY <1>1, <1>2 DEF Batch, Going, Ended, NoRun

\* The next file of a batch has been stored.
LEMMA AppendNext ==
  ASSUME NEW files \in Seq(Nat), InOrder(files)
  PROVE  LET more == Append(files, Len(files) + 1)
         IN  more \in Seq(Nat) /\ Len(more) = Len(files) + 1 /\ InOrder(more)
BY DEF InOrder

\* Updates of a batch, field by field.
LEMMA BatchUpdates ==
  \A run \in Going, n \in Nat, more \in Seq(Nat) :
    /\ [run EXCEPT !.st = "stored", !.pos = n, !.stored = more] \in Going
    /\ [run EXCEPT !.st = "read", !.names = n] \in Going
BY DEF Going

LEMMA BatchesKept ==
  ASSUME IInv, [Next]_vars PROVE RunTypes' /\ \A i \in 1..MaxRuns : Batch(runs[i])'
<1> DEFINE Goal == RunTypes' /\ \A i \in 1..MaxRuns : Batch(runs[i])'
<1>0. /\ RunTypes /\ changes \in Nat /\ changes' \in {changes, changes + 1}
      /\ \A i \in 1..MaxRuns : Batch(runs[i])
  BY NextPage, RunTypeParts, BatchParts, TypesNow DEF IInv, RowTypes, AllBatches
<1>1. ASSUME NEW i \in 1..MaxRuns, NEW run \in Going \cup Ended, Batch(run)',
             runs' = [runs EXCEPT ![i] = run], queue' \in Nat, open => open'
      PROVE  Goal
  <2>1. RunTypes'
    BY <1>0, <1>1 DEF RunTypes
  <2>2. ASSUME NEW j \in 1..MaxRuns PROVE Batch(runs[j])'
    <3>1. CASE j = i
      <4>1. runs'[j] = run
        BY <1>0, <1>1, <3>1 DEF RunTypes
      <4> QED BY <1>1, <4>1 DEF Batch, RunSound, EndSound
    <3>2. CASE j # i
      <4>1. runs'[j] = runs[j]
        BY <1>0, <1>1, <3>2 DEF RunTypes
      <4>2. PICK old : old = runs[j]
        OBVIOUS
      <4>3. Batch(old)'
        BY <1>0, <1>1, <4>2, BatchKept
      <4> QED BY <4>1, <4>2, <4>3 DEF Batch, RunSound, EndSound
    <3> QED BY <3>1, <3>2
  <2> QED BY <2>1, <2>2
<1>2. ASSUME UNCHANGED uploadVars, open => open' PROVE Goal
  <2>1. ASSUME NEW j \in 1..MaxRuns PROVE Batch(runs[j])'
    <3>1. PICK old : old = runs[j]
      OBVIOUS
    <3>2. Batch(old)'
      BY <1>0, <1>2, <3>1, BatchKept
    <3> QED BY <1>2, <3>1, <3>2 DEF Batch, RunSound, EndSound, uploadVars
  <2> QED BY <1>0, <1>2, <2>1 DEF RunTypes, uploadVars
<1>3. ASSUME NEW i \in 1..MaxRuns, Active(i)
      PROVE  runs[i] \in Going /\ RunSound(runs[i])
  BY <1>0, <1>3, ActiveGoing, RunsBySteps DEF Batch, Active
<1>4. ASSUME NEW files \in Batches, Select(files) PROVE Goal
  <2>1. PICK i \in 1..MaxRuns :
          runs' = [runs EXCEPT ![i] = [st |-> "read", count |-> Len(Sized(files)), names |-> 0,
                     stored |-> <<>>, pos |-> 0, mine |-> TRUE, good |-> FALSE]]
    BY <1>4 DEF Select
  <2> DEFINE run == [st |-> "read", count |-> Len(Sized(files)), names |-> 0,
                     stored |-> <<>>, pos |-> 0, mine |-> TRUE, good |-> FALSE]
  <2>2. run \in Going
    BY DEF Going, Counts
  <2>3. open' /\ queue' \in Nat
    BY <1>4 DEF Select, ZoneOpen, query
  <2>4. RunSound(run)'
    BY <2>3 DEF RunSound, InOrder
  <2> QED BY <1>1, <2>1, <2>2, <2>3, <2>4 DEF Batch
<1>5. ASSUME NEW i \in 1..MaxRuns, Read(i) PROVE Goal
  <2>1. runs[i] \in Going /\ RunSound(runs[i]) /\ runs[i].st = "read"
    BY <1>3, <1>5 DEF Read, Active
  <2>2. [runs[i] EXCEPT !.st = "send"] \in Going
    BY <2>1 DEF Going
  <2>3. PICK run \in Going : run = [runs[i] EXCEPT !.st = "send"]
    BY <2>2
  <2>4. /\ run.st = "send" /\ run.stored = runs[i].stored /\ run.names = runs[i].names
        /\ run.good = runs[i].good /\ run.mine = runs[i].mine
    BY <2>1, <2>3 DEF Going
  <2>5. open' = open /\ queue' \in Nat
    BY <1>0, <1>5 DEF Read, query, RunTypes
  <2>6. RunSound(run)'
    BY <2>1, <2>4, <2>5, OrderStays DEF RunSound
  <2>7. runs' = [runs EXCEPT ![i] = run]
    BY <1>5, <2>3 DEF Read
  <2> QED BY <1>1, <2>5, <2>6, <2>7 DEF Batch
<1>6. ASSUME NEW i \in 1..MaxRuns, Store(i) PROVE Goal
  <2> DEFINE more == Append(runs[i].stored, runs[i].names + 1)
             next == [runs[i] EXCEPT !.st = "stored", !.pos = changes + 1, !.stored = more]
  <2>1. runs[i] \in Going /\ RunSound(runs[i]) /\ runs[i].st = "send"
    BY <1>3, <1>6 DEF Store, Active
  <2>2. runs[i].stored \in Seq(Nat) /\ Len(runs[i].stored) = runs[i].names
    BY <2>1 DEF Going, RunSound
  <2>3. more \in Seq(Nat) /\ Len(more) = runs[i].names + 1 /\ InOrder(more)
    BY <2>1, <2>2, AppendNext DEF RunSound
  <2> HIDE DEF more
  <2>4. next \in Going
    <3>1. changes + 1 \in Nat
      BY <1>0
    <3> QED BY <2>1, <2>3, <3>1, BatchUpdates, Zenon
  <2>5. PICK run \in Going : run = next
    BY <2>4
  <2>6. /\ run.st = "stored" /\ run.stored = more /\ run.names = runs[i].names
        /\ run.good = runs[i].good /\ run.mine = runs[i].mine /\ run.pos = changes + 1
    BY <2>1, <2>5 DEF Going
  <2>7. open' = open /\ changes' = changes + 1 /\ queue' \in Nat
    BY <1>0, <1>6 DEF Store, Change, query, RunTypes
  <2>8. RunSound(run)'
    BY <1>0, <2>1, <2>3, <2>6, <2>7, OrderStays DEF RunSound
  <2>9. runs' = [runs EXCEPT ![i] = run]
    BY <1>6, <2>5 DEF Store, more
  <2> QED BY <1>1, <2>7, <2>8, <2>9 DEF Batch
<1>7. ASSUME NEW i \in 1..MaxRuns, NextFile(i) PROVE Goal
  <2> DEFINE next == [runs[i] EXCEPT !.st = "read", !.names = runs[i].names + 1]
  <2>1. runs[i] \in Going /\ RunSound(runs[i]) /\ runs[i].st = "stored"
    BY <1>3, <1>7 DEF NextFile, Active
  <2>2. runs[i].names \in Nat
    BY <2>1, RunsBySteps
  <2>3. next \in Going
    <3>1. <<>> \in Seq(Nat) /\ runs[i].names + 1 \in Nat
      BY <2>2
    <3> QED BY <2>1, <3>1, BatchUpdates, Zenon
  <2>4. PICK run \in Going : run = next
    BY <2>3
  <2>5. /\ run.st = "read" /\ run.stored = runs[i].stored /\ run.names = runs[i].names + 1
        /\ run.good = runs[i].good /\ run.mine = runs[i].mine
    BY <2>1, <2>4 DEF Going
  <2>6. runs' = [runs EXCEPT ![i] = run]
    BY <1>7, <2>4 DEF NextFile
  <2>7. open' = open /\ queue' \in {runs[i].names + 1 + 1, queue}
    BY <1>7 DEF NextFile, query
  <2>8. queue' \in Nat
    <3>1. \A n \in Nat : n + 1 \in Nat /\ n + 1 + 1 \in Nat
      OBVIOUS
    <3>2. queue \in Nat
      BY <1>0 DEF RunTypes
    <3> QED BY <2>2, <2>7, <3>1, <3>2
  <2>9. RunSound(run)'
    BY <2>1, <2>5, <2>7, OrderStays DEF RunSound
  <2> QED BY <1>1, <2>6, <2>7, <2>8, <2>9 DEF Batch
<1>8. ASSUME NEW i \in 1..MaxRuns, NEW names \in Nat, NEW good \in BOOLEAN, Active(i),
             names = runs[i].names \/ (runs[i].st = "stored" /\ names = runs[i].names + 1),
             good => runs[i].st = "stored" /\ names = runs[i].names + 1 /\ names = runs[i].count,
             runs' = [runs EXCEPT ![i] = Over(i, names, good)], Reset(i), open' = open
      PROVE  Goal
  <2>1. runs[i] \in Going /\ RunSound(runs[i])
    BY <1>3, <1>8
  <2>2. Over(i, names, good) \in Ended
    BY <1>8, <2>1 DEF Over, Going, Ended
  <2>3. PICK run \in Ended : run = Over(i, names, good)
    BY <2>2
  <2>4. /\ run.stored = runs[i].stored /\ run.names = names
        /\ run.good = good /\ run.count = runs[i].count
    BY <2>3 DEF Over
  <2>5. EndSound(run)
    BY <1>8, <2>1, <2>4, RunsBySteps DEF RunSound, EndSound
  <2>6. Batch(run)'
    BY <2>5, OrderStays DEF Batch, EndSound
  <2>7. queue' \in Nat
    BY <1>0, <1>8 DEF Reset, RunTypes
  <2> QED BY <1>1, <1>8, <2>3, <2>6, <2>7
<1>9. ASSUME NEW i \in 1..MaxRuns, Finish(i) PROVE Goal
  <2>1. Active(i) /\ runs[i].names + 1 \in Nat /\ open' = open
    BY <1>3, <1>9, RunsBySteps DEF Finish, Active, Hear, Refetch, Invalidate
  <2> QED BY <1>8, <1>9, <2>1 DEF Finish
<1>10. ASSUME NEW i \in 1..MaxRuns, Break(i) PROVE Goal
  <2>1. Active(i) /\ runs[i].names \in Nat /\ open' = open
    BY <1>3, <1>10, RunsBySteps DEF Break, query
  <2> QED BY <1>8, <1>10, <2>1 DEF Break
<1>11. CASE PageStep
  <2>1. CASE open /\ ~open'
    <3>1. ASSUME NEW j \in 1..MaxRuns
          PROVE  runs'[j] \in {NoRun} \cup Going \cup Ended /\ Batch(runs[j])'
      <4>1. CASE Active(j)
        <5>1. runs[j] \in Going /\ RunSound(runs[j])
          BY <1>3, <4>1
        <5>2. runs'[j] = [runs[j] EXCEPT !.mine = FALSE]
          BY <1>0, <1>11, <2>1, <4>1 DEF PageStep, RunTypes
        <5>3. runs'[j] \in Going
          BY <5>1, <5>2 DEF Going
        <5>4. PICK run \in Going : run = runs'[j]
          BY <5>3
        <5>5. /\ run.st = runs[j].st /\ run.stored = runs[j].stored /\ run.names = runs[j].names
              /\ run.good = runs[j].good /\ ~run.mine /\ run.pos = runs[j].pos
          BY <5>1, <5>2, <5>4 DEF Going
        <5>6. RunSound(run)'
          <6>1. InOrder(run.stored)'
            BY <5>1, <5>5, OrderStays DEF RunSound
          <6>2. run.pos \in Nat /\ (run.st = "stored" => run.pos <= changes)
            BY <5>1, <5>5, RunsBySteps DEF RunSound
          <6>3. run.st = "stored" => run.pos <= changes'
            BY <1>0, <6>2
          <6>4. Len(run.stored) = IF run.st = "stored" THEN run.names + 1 ELSE run.names
            BY <5>1, <5>5 DEF RunSound
          <6> QED BY <5>1, <5>5, <6>1, <6>3, <6>4 DEF RunSound
        <5> QED BY <5>4, <5>6 DEF Batch, RunSound
      <4>2. CASE ~Active(j)
        <5>1. runs'[j] = runs[j]
          BY <1>0, <1>11, <2>1, <4>2 DEF PageStep, RunTypes
        <5>2. runs[j] \in {NoRun} \cup Ended /\ (runs[j] \in Ended => EndSound(runs[j]))
          BY <1>0, <4>2, ActiveGoing, RunsBySteps DEF RunTypes, Batch
        <5> QED BY <5>1, <5>2 DEF Batch, EndSound
      <4> QED BY <4>1, <4>2
    <3>2. queue' \in Nat /\ runs' = [j \in 1..MaxRuns |-> runs'[j]]
      BY <1>0, <1>11, <2>1 DEF PageStep, RunTypes
    <3> QED BY <3>1, <3>2 DEF RunTypes
  <2>2. CASE ~(open /\ ~open')
    <3>1. open \in BOOLEAN /\ open' \in BOOLEAN
      BY NextPage, TypesNow DEF IInv, ListTypes, PageInv, PageTypeOK
    <3> QED BY <1>2, <1>11, <2>2, <3>1 DEF PageStep
  <2> QED BY <2>1, <2>2
<1>12. CASE UNCHANGED vars
  BY <1>2, <1>12 DEF vars, query
<1> QED BY <1>4, <1>5, <1>6, <1>7, <1>9, <1>10, <1>11, <1>12 DEF Next

LEMMA ZoneKept == ASSUME IInv, [Next]_vars PROVE Zone'
<1>0. RunTypes /\ Zone
  BY RunTypeParts DEF IInv
<1>1. \A i \in 1..MaxRuns : Active(i) => runs[i] \in Going /\ runs[i].names \in Nat
  BY <1>0, ActiveGoing, RunsBySteps
<1>2. ASSUME NEW i \in 1..MaxRuns, Active(i), Active(i)', runs'[i].mine = runs[i].mine,
             \A j \in 1..MaxRuns \ {i} : runs'[j] = runs[j],
             queue' = IF runs[i].mine THEN runs'[i].names + 1 ELSE queue
      PROVE  Zone'
  BY <1>0, <1>1, <1>2 DEF Zone, Active
<1>3. ASSUME NEW i \in 1..MaxRuns, Active(i), ~Active(i)',
             \A j \in 1..MaxRuns \ {i} : runs'[j] = runs[j], Reset(i)
      PROVE  Zone'
  BY <1>0, <1>3 DEF Zone, Active, Reset
<1>4. ASSUME UNCHANGED uploadVars PROVE Zone'
  BY <1>0, <1>4 DEF Zone, Active, uploadVars
<1>5. ASSUME NEW files \in Batches, Select(files) PROVE Zone'
  <2>1. queue = 0 /\ queue' = 1
    BY <1>5 DEF Select, ZoneOpen
  <2>2. \A j \in 1..MaxRuns : ~(Active(j) /\ runs[j].mine)
    BY <1>0, <1>1, <2>1 DEF Zone
  <2>3. PICK i \in 1..MaxRuns :
          runs' = [runs EXCEPT ![i] = [st |-> "read", count |-> Len(Sized(files)), names |-> 0,
                     stored |-> <<>>, pos |-> 0, mine |-> TRUE, good |-> FALSE]]
    BY <1>5 DEF Select
  <2>4. /\ runs'[i].st = "read" /\ runs'[i].names = 0 /\ runs'[i].mine
        /\ \A j \in 1..MaxRuns \ {i} : runs'[j] = runs[j]
    BY <1>0, <2>3 DEF RunTypes
  <2> QED BY <2>1, <2>2, <2>4 DEF Zone, Active
<1>6. ASSUME NEW i \in 1..MaxRuns, Read(i) \/ Store(i) PROVE Zone'
  <2>1. Active(i) /\ queue' = queue
    BY <1>6 DEF Read, Store, Active
  <2>2. /\ runs'[i].st \in {"send", "stored"} /\ runs'[i].names = runs[i].names
        /\ runs'[i].mine = runs[i].mine /\ \A j \in 1..MaxRuns \ {i} : runs'[j] = runs[j]
    <3>1. PICK old \in Going : old = runs[i]
      BY <1>1, <2>1
    <3>2. PICK more : more = Append(old.stored, old.names + 1)
      OBVIOUS
    <3>3. \/ runs' = [runs EXCEPT ![i] = [old EXCEPT !.st = "send"]]
          \/ runs' = [runs EXCEPT ![i] = [old EXCEPT !.st = "stored", !.pos = changes + 1, !.stored = more]]
      BY <1>0, <1>6, <3>1, <3>2 DEF Read, Store, RunTypes
    <3>4. runs'[i] \in {[old EXCEPT !.st = "send"],
                        [old EXCEPT !.st = "stored", !.pos = changes + 1, !.stored = more]}
      BY <1>0, <3>3 DEF RunTypes
    <3>5. /\ runs'[i].st \in {"send", "stored"} /\ runs'[i].names = old.names
          /\ runs'[i].mine = old.mine
      BY <3>4 DEF Going
    <3>6. \A j \in 1..MaxRuns \ {i} : runs'[j] = runs[j]
      BY <1>0, <3>3 DEF RunTypes
    <3> QED BY <3>1, <3>5, <3>6
  <2> QED BY <1>0, <1>2, <2>1, <2>2 DEF Active, Zone
<1>7. ASSUME NEW i \in 1..MaxRuns, NextFile(i) PROVE Zone'
  <2>1. Active(i) /\ queue' = IF runs[i].mine THEN runs[i].names + 1 + 1 ELSE queue
    BY <1>7 DEF NextFile, Active
  <2>2. /\ runs'[i].st = "read" /\ runs'[i].names = runs[i].names + 1
        /\ runs'[i].mine = runs[i].mine /\ \A j \in 1..MaxRuns \ {i} : runs'[j] = runs[j]
    BY <1>0, <1>1, <1>7, <2>1 DEF NextFile, RunTypes, Going
  <2> QED BY <1>2, <2>1, <2>2 DEF Active
<1>8. ASSUME NEW i \in 1..MaxRuns, Finish(i) \/ Break(i) PROVE Zone'
  <2>1. Active(i) /\ Reset(i)
    BY <1>8 DEF Finish, Break, Active
  <2>2. runs'[i].st = "over" /\ \A j \in 1..MaxRuns \ {i} : runs'[j] = runs[j]
    <3>1. PICK names, good : runs' = [runs EXCEPT ![i] = Over(i, names, good)]
      BY <1>8 DEF Finish, Break
    <3>2. Over(i, names, good).st = "over"
      BY DEF Over
    <3> QED BY <1>0, <3>1, <3>2 DEF RunTypes
  <2> QED BY <1>3, <2>1, <2>2 DEF Active
<1>9. CASE PageStep
  <2>1. CASE open /\ ~open'
    <3>1. queue' = 0 /\ \A j \in 1..MaxRuns : ~(Active(j)' /\ runs'[j].mine)
      <4>1. queue' = 0
        BY <1>9, <2>1 DEF PageStep
      <4>2. ASSUME NEW j \in 1..MaxRuns PROVE ~(Active(j)' /\ runs'[j].mine)
        <5>1. runs'[j] = IF Active(j) THEN [runs[j] EXCEPT !.mine = FALSE] ELSE runs[j]
          BY <1>0, <1>9, <2>1 DEF PageStep, RunTypes
        <5>2. Active(j) => runs'[j].mine = FALSE
          BY <1>1, <5>1 DEF Going
        <5> QED BY <5>1, <5>2 DEF Active
      <4> QED BY <4>1, <4>2
    <3> QED BY <3>1 DEF Zone
  <2>2. CASE ~(open /\ ~open')
    BY <1>4, <1>9, <2>2 DEF PageStep
  <2> QED BY <2>1, <2>2
<1>10. CASE UNCHANGED vars
  BY <1>4, <1>10 DEF vars
<1> QED BY <1>5, <1>6, <1>7, <1>8, <1>9, <1>10 DEF Next

LEMMA Invariance == Spec => []IInv
<1>1. ASSUME IInv, [Next]_vars PROVE IInv'
  <2>1. PageInv' /\ RunTypes' /\ Zone' /\ \A i \in 1..MaxRuns : Batch(runs[i])'
    BY <1>1, NextPage, BatchesKept, ZoneKept
  <2>2. RunTypes' => (Stored' /\ BatchIsPrefix' <=> AllBatches')
    BY BatchParts, PTL
  <2>3. TypeOK'
    <3>1. TypeOK' <=> PageTypeOK' /\ RunTypes'
      BY RunTypeParts, PTL
    <3> QED BY <2>1, <3>1 DEF PageInv
  <2> QED BY <2>1, <2>2, <2>3 DEF IInv, AllBatches
<1> QED BY InitIInv, <1>1, PTL DEF Spec
-----------------------------------------------------------------------------
\* Every behaviour of the pages is typed.
THEOREM TypeCorrect == Spec => []TypeOK
<1>1. IInv => TypeOK
  BY DEF IInv
<1> QED BY <1>1, Invariance, PTL

\* What was typed for one row, a password or a comment, is sent for no other.
THEOREM InputStays == Spec => []InputStaysWithItsRow
<1>1. IInv => InputStaysWithItsRow
  <2> SUFFICES ASSUME IInv, NEW i \in Slots, reqs[i].st \in {"sent", "done"}
               PROVE  /\ \A f \in Fields : reqs[i].typed[f] \in {Nobody, reqs[i].row}
                      /\ reqs[i].comment \in {Nobody, reqs[i].row}
    BY DEF InputStaysWithItsRow
  <2>1. reqs[i] \in Requests
    BY TypesNow DEF IInv, RequestTypes
  <2> QED BY <2>1 DEF IInv, PageInv, RequestsSound, RequestSound
<1> QED BY <1>1, Invariance, PTL

\* A list at rest shows every change its page has been told of, unless it is that of a first
\* fetch which had been answered by then (the invalidateQueries of all onSuccess).
THEOREM AcknowledgedAreShown == Spec => []AcknowledgedIsShown
<1>1. IInv => AcknowledgedIsShown
  BY DEF IInv, PageInv, Owing
<1> QED BY <1>1, Invariance, PTL

\* The zone is closed while a batch of this visit runs, and a batch leaves a prefix.
THEOREM BatchesAreSound == Spec => [](ZoneFollowsBatch /\ BatchIsPrefix)
<1>1. IInv => BatchIsPrefix
  BY DEF IInv
<1>2. ASSUME IInv PROVE ZoneFollowsBatch
  <2> DEFINE mine == {i \in 1..MaxRuns : Active(i) /\ runs[i].mine}
  <2>1. CASE mine = {}
    <3>1. queue = 0 /\ Cardinality(mine) = 0
      BY <1>2, <2>1, FS_EmptySet DEF IInv, Zone
    <3> QED BY <2>1, <3>1 DEF ZoneFollowsBatch
  <2>2. ASSUME NEW i \in mine PROVE ZoneFollowsBatch
    <3>1. mine = {i}
      BY <1>2, <2>2 DEF IInv, Zone
    <3>2. Cardinality(mine) = 1
      BY <3>1, FS_Singleton
    <3>3. \A j \in mine : queue = runs[j].names + 1
      BY <1>2 DEF IInv, Zone
    <3>4. (CHOOSE j \in mine : TRUE) \in mine
      BY <2>2
    <3> QED BY <2>2, <3>2, <3>3, <3>4 DEF ZoneFollowsBatch
  <2> QED BY <2>1, <2>2
<1> QED BY <1>1, <1>2, Invariance, PTL

\* Only the service does what a request asks for.
LEMMA OnlyPerform ==
  ASSUME PageInv, Shape, NEW i \in Slots, reqs[i].st = "sent", reqs'[i].st = "done"
  PROVE  Perform(i)
<1>0. RequestTypes
  BY TypesNow
<1>1. reqs'[i] # reqs[i]
  OBVIOUS
<1>2. ~Asks
  <2> SUFFICES ASSUME NEW q \in Requests, Mutate(q) PROVE FALSE
    BY DEF Asks
  <2>1. PICK j \in Slots : reqs[j] = Unused /\ reqs' = [reqs EXCEPT ![j] = q]
    BY DEF Mutate
  <2>2. i # j
    BY <2>1
  <2> QED BY <1>0, <1>1, <2>1, <2>2 DEF RequestTypes
<1>3. ~Hears /\ ~\E j \in Slots : Fail(j)
  <2> SUFFICES ASSUME NEW j \in Slots, reqs' = [reqs EXCEPT ![j] = [st |-> "over"]] PROVE FALSE
    BY DEF Hears, Told, Fail
  <2> QED BY <1>0, <1>1 DEF RequestTypes
<1>4. ~Leave
  <2> SUFFICES ASSUME Leave PROVE FALSE
    OBVIOUS
  <2>1. reqs[i] \in Requests
    BY <1>0 DEF RequestTypes
  <2>2. reqs'[i] = [reqs[i] EXCEPT !.mine = FALSE]
    BY DEF Leave
  <2> QED BY <2>1, <2>2
<1>5. ~(Opens \/ Types \/ Views \/ WorkflowsComment \/ CloseDialogs \/ Elsewhere \/ Finishes \/ Look)
  BY <1>1 DEF Opens, Open, Types, Fill, Views, View, WorkflowsComment, CloseDialogs, Elsewhere,
     Finishes, Look, pageVars
<1>6. PICK j \in Slots : Perform(j)
  BY <1>2, <1>3, <1>4, <1>5 DEF Shape
<1>7. i = j
  BY <1>0, <1>1, <1>6 DEF Perform, RequestTypes
<1> QED BY <1>6, <1>7

\* What the service keeps of a column nobody typed in.
LEMMA Overlap ==
  ASSUME PageInv, NEW i \in Slots, Perform(i), reqs[i].kind = "save", reqs[i].row # New,
         NEW c \in Columns, reqs[i].typed[c] = Nobody, ~reqs[i].blind
  PROVE  \/ server'[reqs[i].row].cols[c] = server[reqs[i].row].cols[c]
         \/ wrote[reqs[i].row][c] > reqs[i].at
<1>1. RowTypes /\ RequestTypes
  BY TypesNow
<1>2. PICK q \in Requests : q = reqs[i]
  BY PerformMoves
<1>3. FormSound(q.row, q.form, q.at, q.blind)
  BY <1>2 DEF PageInv, RequestsSound, RequestSound
<1>4. PICK rows \in Effects(q) : server' = rows
  BY <1>2 DEF Perform, Change
<1>5. server[q.row] # Gone /\ rows = [server EXCEPT ![q.row].cols = Written(q)]
  BY <1>2, <1>4 DEF Effects
<1>6. q.row \in Rows /\ server[q.row] \in Row
  BY <1>1, <1>2, <1>3, <1>5 DEF FormSound, There, RowTypes, Table
<1>7. server'[q.row].cols[c] = Written(q)[c]
  BY <1>1, <1>4, <1>5, <1>6 DEF RowTypes, Table, Row
<1>8. q.form[c] = server[q.row].cols[c] \/ wrote[q.row][c] > q.at
  BY <1>2, <1>3, <1>5 DEF FormSound
<1>9. server[q.row].cols[c] # Blank
  BY <1>6 DEF Row
<1>10. q.form[c] # Blank => Written(q)[c] = q.form[c]
  BY <1>2 DEF Written
<1> QED BY <1>2, <1>7, <1>8, <1>9, <1>10

\* A form overwrites what nobody typed only with what is there, or with what was there
\* when its list was read and has been changed by somebody else since.
THEOREM OnlyOverlapsOverwrite == Spec => OnlyOverlapOverwrites
<1> DEFINE Overlaps(i) ==
      (reqs[i].st = "sent" /\ reqs'[i].st = "done" /\ reqs[i].kind = "save" /\ reqs[i].row # New)
        => \A c \in Columns :
             \/ reqs[i].typed[c] # Nobody \/ reqs[i].blind
             \/ server'[reqs[i].row].cols[c] = server[reqs[i].row].cols[c]
             \/ wrote[reqs[i].row][c] > reqs[i].at
<1>1. ASSUME IInv, [Next]_vars PROVE [\A i \in Slots : Overlaps(i)]_<<query, pageVars>>
  <2>1. PageInv
    BY <1>1 DEF IInv
  <2>2. CASE PageStep
    <3>1. Shape
      BY <2>1, <2>2, PageShape DEF PageStep
    <3>2. \A i \in Slots : Overlaps(i)
      BY <2>1, <3>1, OnlyPerform, Overlap
    <3> QED BY <3>2
  <2>3. CASE reqs' = reqs
    BY <2>3
  <2>4. CASE \/ \E files \in Batches : Select(files)
             \/ \E i \in 1..MaxRuns : Read(i) \/ Store(i) \/ NextFile(i) \/ Finish(i) \/ Break(i)
    <3>1. reqs' = reqs
      BY <2>4 DEF Select, Read, Store, NextFile, Finish, Break, pageVars
    <3> QED BY <2>3, <3>1
  <2>5. CASE UNCHANGED vars
    BY <2>3, <2>5 DEF vars, pageVars
  <2> QED BY <1>1, <2>2, <2>4, <2>5 DEF Next
<1> QED BY <1>1, Invariance, PTL DEF Spec, OnlyOverlapOverwrites

-----------------------------------------------------------------------------
(* The session                                                              *)

HIDE RowsAssumption DEF Stages, Kinds, Requests, Fetching, Fields, Pages, Unused

\* What a user is granted, and what a token carries.
GrantIds == [user : SessionUsers, rev : Nat \ {0}]
TokenIds == [user : SessionUsers, rev : Nat \ {0}, ver : Nat, straddled : SUBSET Nat]

\* A list that the user has had, or still has.
Issued(g) == g \in GrantIds /\ g.rev <= Len(hist[g.user])

\* Every commit after the list of a token is counted against it, unless its increment is still
\* to come, or came before the token was signed.
Accounted(t) ==
  \A n \in t.rev + 1 .. Len(hist[t.user]) :
    n \in owing[t.user] \/ n \in t.straddled \/ t.ver < version[t.user]
IssuedToken(t) ==
  t \in TokenIds /\ t.rev <= Len(hist[t.user]) /\ t.ver <= version[t.user] /\ Accounted(t)

\* A list of the user of the token, and no older than that of the token.
Follows(g) == Issued(g) /\ g.user = store.token.user /\ g.rev >= store.token.rev

\* What a server has answered so far: nothing, the list, the token.
Answers == GrantIds \cup TokenIds \cup {None}
AnswerOK(st, a, u) ==
  /\ st = "signing"  => Issued(a) /\ a.user = u
  /\ st = "answered" => IssuedToken(a) /\ a.user = u

HistOK ==
  /\ hist \in [SessionUsers -> Seq(Grants)] /\ \A u \in SessionUsers : Len(hist[u]) > 0
  /\ version \in [SessionUsers -> Nat] /\ owing \in [SessionUsers -> SUBSET Nat]

\* The stored permissions are of the user of the token and no older; and so is the stored
\* user, unless a refresh of another session has landed in this one.
StoreOK ==
  /\ store \in [token : TokenIds \cup {None}, user : SessionUsers \cup {None},
                perms : GrantIds \cup {None}]
  /\ store.token # None =>
       /\ IssuedToken(store.token) /\ Follows(store.perms)
       /\ ~mixed => store.user = store.token.user

\* A query belongs to a token, and what it holds is of its user and no older.
PermOK ==
  /\ perm \in [fetch : {"idle", "asked", "answered"}, answer : GrantIds \cup {None},
               data : GrantIds \cup {None}, error : {"no", "401", "api"}]
  /\ perm # NoQuery => store.token # None
  /\ perm.fetch = "answered" => Follows(perm.answer)
  /\ perm.data # None => Follows(perm.data)

Refresh == [st : {"asked", "signing", "answered"}, kind : {"data", "error"}, user : SessionUsers,
            own : BOOLEAN, ref : Hooks \cup {"none"}, answer : Answers]

\* A refresh asks for its user, who is that of the session that it belongs to.
RefreshOK(r) == r # Free =>
  /\ r \in Refresh
  /\ AnswerOK(r.st, r.answer, r.user)
  /\ r.own => store.token # None /\ (~mixed => r.user = store.token.user)
AllOK(rs) == rs \in [1..MaxRefreshes -> Refresh \cup {Free}]
             /\ \A i \in 1..MaxRefreshes : RefreshOK(rs[i])

\* A login asks for its user.
LoginOK == login # Free =>
  /\ login \in [st : {"asked", "signing", "answered"}, user : SessionUsers, answer : Answers]
  /\ AnswerOK(login.st, login.answer, login.user)

\* A page that was admitted to was granted by the permissions of the token or by later ones;
\* the gateway passes on what those of the token allow.
Granted(t, p) == \E n \in t.rev..Len(hist[t.user]) : RoutePermission[p] \in hist[t.user][n]
VisitOK == visit # Free =>
  /\ visit \in [st : {"asked", "passed", "200", "401", "403"}, page : RoutedPages, token : TokenIds]
  /\ IssuedToken(visit.token)
  /\ visit.st \in {"asked", "passed"} /\ visit.page # "dashboard" =>
       Granted(visit.token, visit.page)
  /\ visit.st = "passed" => GatewayPermission[visit.page] \in Codes(visit.token)

\* The token carries the permissions the client goes by, or a refresh is under way.
UnderWay == \E i \in 1..MaxRefreshes : refreshes[i] # Free
Synced  == store.token # None /\ ~failed => Codes(store.token) = Codes(store.perms) \/ UnderWay

SessionInv ==
  /\ mixed \in BOOLEAN /\ failed \in BOOLEAN
  /\ HistOK /\ StoreOK /\ PermOK /\ AllOK(refreshes) /\ LoginOK /\ VisitOK /\ Synced

-----------------------------------------------------------------------------
(* Grants                                                                   *)

USE SessionAssumption

\* The list of a user is issued, and no other is newer.
LEMMA NowIssued ==
  ASSUME HistOK, NEW u \in SessionUsers
  PROVE  /\ Issued(Now(u)) /\ Now(u).user = u /\ Now(u) # None
         /\ \A t : IssuedToken(t) /\ t.user = u => t.rev <= Now(u).rev
<1>1. Len(hist[u]) \in Nat \ {0}
  BY DEF HistOK
<1>2. Now(u) \in GrantIds /\ Now(u).user = u /\ Now(u).rev = Len(hist[u])
  BY <1>1 DEF Now, GrantIds
<1> QED BY <1>1, <1>2 DEF Issued, IssuedToken, GrantIds

\* What is issued is not None.
LEMMA IssuedReal ==
  /\ \A g : Issued(g) => g # None /\ g \in GrantIds
  /\ \A t : IssuedToken(t) => t # None /\ t \in TokenIds
BY DEF Issued, IssuedToken, GrantIds, TokenIds

\* A token is signed with its list, and every commit that the version counts by then straddles.
LEMMA SignedIssued ==
  ASSUME HistOK, NEW g, Issued(g)
  PROVE  IssuedToken(Signed(g)) /\ Signed(g).user = g.user
<1>1. g.user \in SessionUsers /\ g.rev \in Nat \ {0} /\ g.rev <= Len(hist[g.user])
  BY DEF Issued, GrantIds
<1>2. Len(hist[g.user]) \in Nat /\ version[g.user] \in Nat
  BY <1>1 DEF HistOK
<1> DEFINE t == Signed(g)
           e == (g.rev + 1 .. Len(hist[g.user])) \ owing[g.user]
<1>3. e \in SUBSET Nat
  BY <1>1, <1>2
<1>4. \A n \in g.rev + 1 .. Len(hist[g.user]) : n \in owing[g.user] \/ n \in e
  OBVIOUS
<1> HIDE DEF e
<1>5. t = [user |-> g.user, rev |-> g.rev, ver |-> version[g.user], straddled |-> e]
  BY DEF Signed, e
<1>6. t \in TokenIds
  BY <1>1, <1>2, <1>3, <1>5 DEF TokenIds
<1>7. t.user = g.user /\ t.rev = g.rev /\ t.ver = version[g.user] /\ t.straddled = e
  BY <1>5
<1> HIDE DEF t
<1>8. Accounted(t)
  BY <1>4, <1>7 DEF Accounted
<1> QED BY <1>1, <1>2, <1>6, <1>7, <1>8 DEF IssuedToken, t

\* The list of a token.
LEMMA ListIssued ==
  ASSUME HistOK, NEW t, IssuedToken(t)
  PROVE  /\ Issued(List(t)) /\ List(t).user = t.user /\ List(t).rev = t.rev
         /\ List(t) # None /\ List(t) \in GrantIds /\ Codes(List(t)) = Codes(t)
<1>1. t \in TokenIds /\ t # None /\ t.rev <= Len(hist[t.user])
  BY IssuedReal DEF IssuedToken
<1>2. List(t) = [user |-> t.user, rev |-> t.rev] /\ List(t) \in GrantIds
  BY <1>1 DEF List, TokenIds, GrantIds
<1>3. List(t).user = t.user /\ List(t).rev = t.rev
  BY <1>2
<1>4. Issued(List(t))
  BY <1>1, <1>2, <1>3 DEF Issued
<1> QED BY <1>1, <1>2, <1>3, <1>4, IssuedReal DEF Codes

\* The permissions of a grant never change.
LEMMA GrantStep ==
  ASSUME HistOK, NEW u \in SessionUsers, NEW s \in Grants, Grant(u, s)
  PROVE  /\ HistOK'
         /\ \A v \in SessionUsers : Len(hist[v]) <= Len(hist'[v])
         /\ \A v \in SessionUsers : \A n \in 1..Len(hist[v]) : hist'[v][n] = hist[v][n]
         /\ \A t : IssuedToken(t) => IssuedToken(t)'
<1>1. /\ hist \in [SessionUsers -> Seq(Grants)] /\ hist' = [hist EXCEPT ![u] = Append(hist[u], s)]
      /\ owing \in [SessionUsers -> SUBSET Nat] /\ version \in [SessionUsers -> Nat]
      /\ owing' = [owing EXCEPT ![u] = owing[u] \cup {Len(hist[u]) + 1}] /\ version' = version
  BY DEF HistOK, Grant
<1>2. ASSUME NEW v \in SessionUsers
      PROVE  /\ hist'[v] \in Seq(Grants) /\ Len(hist[v]) <= Len(hist'[v])
             /\ \A n \in 1..Len(hist[v]) : hist'[v][n] = hist[v][n]
             /\ \A n \in 1..Len(hist'[v]) : n \in 1..Len(hist[v]) \/ n \in owing'[v]
             /\ owing[v] \subseteq owing'[v] /\ owing'[v] \in SUBSET Nat
  <2>1. CASE v = u
    <3>1. hist'[v] = Append(hist[v], s) /\ hist[v] \in Seq(Grants)
          /\ owing'[v] = owing[v] \cup {Len(hist[v]) + 1}
      BY <1>1, <2>1
    <3> QED BY <1>1, <3>1
  <2>2. CASE v # u
    <3>1. hist'[v] = hist[v] /\ hist[v] \in Seq(Grants) /\ owing'[v] = owing[v]
      BY <1>1, <2>2
    <3> QED BY <1>1, <3>1
  <2> QED BY <2>1, <2>2
<1>3. HistOK'
  <2>1. hist' \in [SessionUsers -> Seq(Grants)] /\ owing' \in [SessionUsers -> SUBSET Nat]
    BY <1>1, <1>2
  <2>2. \A v \in SessionUsers : Len(hist'[v]) > 0
    BY <1>2, <1>1, <2>1 DEF HistOK
  <2> QED BY <1>1, <2>1, <2>2 DEF HistOK
<1>4. ASSUME NEW t, IssuedToken(t) PROVE IssuedToken(t)'
  <2>1. /\ t \in TokenIds /\ t.user \in SessionUsers /\ t.rev \in Nat \ {0}
        /\ t.rev <= Len(hist[t.user]) /\ t.ver <= version[t.user]
    BY <1>4 DEF IssuedToken, TokenIds
  <2>2. Len(hist[t.user]) \in Nat /\ Len(hist'[t.user]) \in Nat
    BY <1>3, <2>1, <1>1 DEF HistOK
  <2>3. t.rev <= Len(hist'[t.user]) /\ t.ver <= version'[t.user]
    BY <1>1, <1>2, <2>1, <2>2
  <2>4. ASSUME NEW n \in t.rev + 1 .. Len(hist'[t.user])
        PROVE  n \in owing'[t.user] \/ n \in t.straddled \/ t.ver < version'[t.user]
    <3>1. n \in 1..Len(hist'[t.user]) /\ n \in Int /\ t.rev + 1 <= n
      BY <2>1, <2>2
    <3>2. CASE n \in owing'[t.user]
      BY <3>2
    <3>3. CASE n \in 1..Len(hist[t.user])
      <4>1. n \in t.rev + 1 .. Len(hist[t.user])
        BY <2>1, <2>2, <3>1, <3>3
      <4>2. n \in owing[t.user] \/ n \in t.straddled \/ t.ver < version[t.user]
        BY <1>4, <4>1 DEF IssuedToken, Accounted
      <4> QED BY <1>1, <1>2, <2>1, <4>2
    <3> QED BY <1>2, <2>1, <3>1, <3>2, <3>3
  <2> QED BY <2>1, <2>3, <2>4 DEF IssuedToken, Accounted
<1> QED BY <1>2, <1>3, <1>4

\* An increment counts its commit against every token that has been signed before.
LEMMA BumpStep ==
  ASSUME HistOK, NEW u \in SessionUsers, NEW n \in owing[u], Bump(u, n)
  PROVE  HistOK' /\ \A t : IssuedToken(t) => IssuedToken(t)'
<1>1. /\ version \in [SessionUsers -> Nat] /\ version' = [version EXCEPT ![u] = version[u] + 1]
      /\ owing \in [SessionUsers -> SUBSET Nat] /\ owing' = [owing EXCEPT ![u] = owing[u] \ {n}]
      /\ hist' = hist
  BY DEF HistOK, Bump
<1>2. HistOK'
  BY <1>1 DEF HistOK
<1>3. ASSUME NEW t, IssuedToken(t) PROVE IssuedToken(t)'
  <2>1. t \in TokenIds /\ t.user \in SessionUsers /\ t.ver \in Nat /\ version[t.user] \in Nat
        /\ t.rev <= Len(hist[t.user]) /\ t.ver <= version[t.user]
    BY <1>1, <1>3 DEF IssuedToken, TokenIds
  <2>2. CASE t.user = u
    <3>1. version'[t.user] = version[t.user] + 1
      BY <1>1, <2>1, <2>2
    <3>2. t.ver < version'[t.user] /\ t.ver <= version'[t.user]
      BY <2>1, <3>1
    <3> QED BY <1>1, <2>1, <3>2 DEF IssuedToken, Accounted
  <2>3. CASE t.user # u
    <3>1. version'[t.user] = version[t.user] /\ owing'[t.user] = owing[t.user]
      BY <1>1, <2>1, <2>3
    <3> QED BY <1>1, <1>3, <2>1, <3>1 DEF IssuedToken, Accounted
  <2> QED BY <2>2, <2>3
<1> QED BY <1>2, <1>3

-----------------------------------------------------------------------------
(* Refreshes                                                                *)

\* As long as the session stays, a refresh does.
LEMMA RefreshKept ==
  ASSUME NEW r, RefreshOK(r), UNCHANGED <<hist, version, owing, mixed>>, store'.token = store.token
  PROVE  RefreshOK(r)'
BY DEF RefreshOK, AnswerOK, Issued, IssuedToken, Accounted

\* A refresh that its hook or its session has left is one.
LEMMA RefreshLeft ==
  ASSUME NEW r \in Refresh, RefreshOK(r)
  PROVE  /\ r # Free /\ [r EXCEPT !.ref = "none"] \in Refresh
         /\ RefreshOK([r EXCEPT !.ref = "none"]) /\ [r EXCEPT !.ref = "none"] # Free
         /\ [r EXCEPT !.own = FALSE, !.ref = "none"] \in Refresh
         /\ [r EXCEPT !.own = FALSE, !.ref = "none"] # Free
<1> DEFINE s == [r EXCEPT !.ref = "none"]
           t == [r EXCEPT !.own = FALSE, !.ref = "none"]
<1>1. r \in [st : {"asked", "signing", "answered"}, kind : {"data", "error"},
             user : SessionUsers, own : BOOLEAN, ref : Hooks \cup {"none"}, answer : Answers]
  BY DEF Refresh
<1>2. s \in Refresh /\ t \in Refresh
  BY <1>1 DEF Refresh
<1>3. \A x \in Refresh : x # Free
  BY DEF Refresh, Free
<1>4. s.st = r.st /\ s.answer = r.answer /\ s.user = r.user /\ s.own = r.own
  BY <1>1
<1> HIDE DEF s
<1>5. RefreshOK(s)
  BY <1>2, <1>3, <1>4 DEF RefreshOK
<1> QED BY <1>2, <1>3, <1>5 DEF s

\* The refreshes of hooks that unmount go on.
LEMMA OrphanedOK ==
  ASSUME NEW rs, AllOK(rs), NEW hooks
  PROVE  /\ AllOK(Orphaned(rs, hooks))
         /\ \A i \in 1..MaxRefreshes : Orphaned(rs, hooks)[i] = Free <=> rs[i] = Free
<1> DEFINE os == Orphaned(rs, hooks)
<1>1. ASSUME NEW i \in 1..MaxRefreshes
      PROVE  /\ os[i] \in Refresh \cup {Free} /\ RefreshOK(os[i]) /\ (os[i] = Free <=> rs[i] = Free)
  <2>1. os[i] = IF rs[i] # Free /\ rs[i].ref \in hooks THEN [rs[i] EXCEPT !.ref = "none"] ELSE rs[i]
    BY DEF Orphaned
  <2>2. rs[i] \in Refresh \cup {Free} /\ RefreshOK(rs[i])
    BY DEF AllOK
  <2>3. CASE rs[i] # Free /\ rs[i].ref \in hooks
    <3>1. os[i] = [rs[i] EXCEPT !.ref = "none"]
      BY <2>1, <2>3
    <3> HIDE DEF os
    <3> QED BY <2>2, <2>3, <3>1, RefreshLeft
  <2>4. CASE ~(rs[i] # Free /\ rs[i].ref \in hooks)
    <3>1. os[i] = rs[i]
      BY <2>1, <2>4
    <3> QED BY <2>2, <3>1
  <2> QED BY <2>3, <2>4
<1>2. os \in [1..MaxRefreshes -> Refresh \cup {Free}]
  <2>1. os = [i \in 1..MaxRefreshes |-> os[i]]
    BY DEF Orphaned
  <2> HIDE DEF os
  <2> QED BY <1>1, <2>1
<1> QED BY <1>1, <1>2 DEF AllOK

\* When one has ended the others are as they were.
LEMMA WithoutOK ==
  ASSUME AllOK(refreshes), NEW i \in 1..MaxRefreshes
  PROVE  AllOK(Without(i))
<1>1. MaxRefreshes \in Nat
  OBVIOUS
<1> DEFINE rs == Without(i)
<1>2. ASSUME NEW j \in 1..MaxRefreshes PROVE rs[j] \in Refresh \cup {Free} /\ RefreshOK(rs[j])
  <2>1. rs[j] = IF j < i THEN refreshes[j]
                ELSE IF j < MaxRefreshes THEN refreshes[j + 1] ELSE Free
    BY DEF Without
  <2>2. \A k \in 1..MaxRefreshes : refreshes[k] \in Refresh \cup {Free} /\ RefreshOK(refreshes[k])
    BY DEF AllOK
  <2>3. RefreshOK(Free)
    BY DEF RefreshOK
  <2>4. rs[j] = Free \/ \E k \in 1..MaxRefreshes : rs[j] = refreshes[k]
    <3>1. j < MaxRefreshes => j + 1 \in 1..MaxRefreshes
      BY <1>1
    <3> QED BY <2>1, <3>1
  <2> HIDE DEF rs
  <2> QED BY <2>2, <2>3, <2>4
<1>3. rs = [j \in 1..MaxRefreshes |-> rs[j]]
  BY DEF Without
<1> HIDE DEF rs
<1>4. rs \in [1..MaxRefreshes -> Refresh \cup {Free}]
  BY <1>2, <1>3
<1> QED BY <1>2, <1>4 DEF AllOK, rs

\* The refreshes of a session that is over go on, and belong to none.
LEMMA DisownedOK ==
  ASSUME NEW rs, AllOK(rs), UNCHANGED <<hist, version, owing>>
  PROVE  AllOK(Disowned(rs))'
<1> DEFINE ds == Disowned(rs)
<1>0. Disowned(rs)' = ds
  BY DEF Disowned
<1>1. ASSUME NEW i \in 1..MaxRefreshes
      PROVE  ds[i] \in Refresh \cup {Free} /\ RefreshOK(ds[i])'
  <2>1. ds[i] = IF rs[i] = Free THEN Free ELSE [rs[i] EXCEPT !.own = FALSE, !.ref = "none"]
    BY DEF Disowned
  <2>2. rs[i] \in Refresh \cup {Free} /\ RefreshOK(rs[i])
    BY DEF AllOK
  <2>3. CASE rs[i] = Free
    BY <2>1, <2>3 DEF RefreshOK
  <2>4. CASE rs[i] # Free
    <3>1. ds[i] = [rs[i] EXCEPT !.own = FALSE, !.ref = "none"] /\ rs[i] \in Refresh
      BY <2>1, <2>2, <2>4
    <3>2. ds[i].st = rs[i].st /\ ds[i].answer = rs[i].answer /\ ds[i].user = rs[i].user
          /\ ds[i].own = FALSE
      BY <3>1 DEF Refresh
    <3>3. ds[i] \in Refresh
      BY <2>2, <3>1, RefreshLeft
    <3> HIDE DEF ds
    <3> QED BY <2>2, <2>4, <3>2, <3>3 DEF RefreshOK, AnswerOK, Issued, IssuedToken, Accounted
  <2> QED BY <2>3, <2>4
<1>2. ds \in [1..MaxRefreshes -> Refresh \cup {Free}]
  <2>1. ds = [i \in 1..MaxRefreshes |-> ds[i]]
    BY DEF Disowned
  <2> HIDE DEF ds
  <2> QED BY <1>1, <2>1
<1>3. Refresh' = Refresh
  BY DEF Refresh, Answers, GrantIds, TokenIds, Hooks
<1> HIDE DEF ds
<1> QED BY <1>0, <1>1, <1>2, <1>3 DEF AllOK

\* A new refresh belongs to the session.
LEMMA NewRefreshOK ==
  ASSUME StoreOK, store.token # None, NEW kind \in {"data", "error"}, NEW ref \in Hooks \cup {"none"}
  PROVE  /\ NewRefresh(kind, ref) \in Refresh /\ NewRefresh(kind, ref) # Free
         /\ RefreshOK(NewRefresh(kind, ref))
<1> DEFINE r == NewRefresh(kind, ref)
<1>1. store.token.user \in SessionUsers
  BY DEF StoreOK, IssuedToken, TokenIds
<1>2. r = [st |-> "asked", kind |-> kind, user |-> store.token.user, own |-> TRUE, ref |-> ref,
           answer |-> None]
  BY DEF NewRefresh
<1>3. r \in Refresh /\ r.st = "asked" /\ r.user = store.token.user
  BY <1>1, <1>2 DEF Refresh, Answers
<1>4. r # Free
  BY <1>3 DEF Refresh, Free
<1> HIDE DEF r
<1>5. RefreshOK(r)
  BY <1>3, <1>4 DEF RefreshOK, AnswerOK
<1> QED BY <1>3, <1>4, <1>5 DEF r

\* Hooks start refreshes of the session, and leave those under way; the route starts one or
\* has one under way.
LEMMA StartOK ==
  ASSUME StoreOK, store.token # None, NEW rs, AllOK(rs), NEW hooks \in SUBSET Hooks,
         NEW kind \in {"data", "error"}, Start(rs, hooks, kind)
  PROVE  /\ AllOK(refreshes')
         /\ \A i \in 1..MaxRefreshes : rs[i] # Free => refreshes'[i] # Free
         /\ "route" \in hooks => \E i \in 1..MaxRefreshes : refreshes'[i] # Free
<1> DEFINE idle == {h \in hooks : ~Busy(rs, h)}
<1>1. PICK f \in [idle -> FreeSlots(rs)] :
        refreshes' = [i \in 1..MaxRefreshes |->
          IF \E h \in idle : f[h] = i
          THEN NewRefresh(kind, CHOOSE h \in idle : f[h] = i) ELSE rs[i]]
  BY DEF Start
<1> HIDE DEF idle
<1>2. ASSUME NEW i \in 1..MaxRefreshes, \E h \in idle : f[h] = i
      PROVE  /\ rs[i] = Free /\ refreshes'[i] \in Refresh /\ refreshes'[i] # Free
             /\ RefreshOK(refreshes'[i])
  <2> DEFINE h == CHOOSE h \in idle : f[h] = i
  <2>1. h \in idle /\ f[h] = i
    BY <1>2
  <2>2. refreshes'[i] = NewRefresh(kind, h)
    BY <1>1, <1>2
  <2> HIDE DEF h
  <2>3. h \in Hooks
    BY <2>1 DEF idle
  <2>4. rs[i] = Free
    BY <1>1, <2>1 DEF FreeSlots
  <2> QED BY <2>2, <2>3, <2>4, NewRefreshOK
<1>3. ASSUME NEW i \in 1..MaxRefreshes, ~\E h \in idle : f[h] = i
      PROVE  refreshes'[i] = rs[i]
  BY <1>1, <1>3
<1>4. \A i \in 1..MaxRefreshes : refreshes'[i] \in Refresh \cup {Free} /\ RefreshOK(refreshes'[i])
  BY <1>2, <1>3 DEF AllOK
<1>5. refreshes' \in [1..MaxRefreshes -> Refresh \cup {Free}]
  <2>1. refreshes' = [i \in 1..MaxRefreshes |-> refreshes'[i]]
    BY <1>1
  <2> QED BY <1>4, <2>1
<1>6. AllOK(refreshes')
  BY <1>4, <1>5 DEF AllOK
<1>7. \A i \in 1..MaxRefreshes : rs[i] # Free => refreshes'[i] # Free
  BY <1>2, <1>3
<1>8. ASSUME "route" \in hooks PROVE \E i \in 1..MaxRefreshes : refreshes'[i] # Free
  <2>1. CASE Busy(rs, "route")
    BY <1>7, <2>1 DEF Busy
  <2>2. CASE ~Busy(rs, "route")
    <3>1. "route" \in idle
      BY <1>8, <2>2 DEF idle
    <3>2. f["route"] \in 1..MaxRefreshes
      BY <1>1, <3>1 DEF FreeSlots
    <3> QED BY <1>2, <3>1, <3>2
  <2> QED BY <2>1, <2>2
<1> QED BY <1>6, <1>7, <1>8

\* So does a hook that unmounts at once.
LEMMA StartOrphanOK ==
  ASSUME StoreOK, store.token # None, NEW rs, AllOK(rs), StartOrphan(rs)
  PROVE  /\ AllOK(refreshes')
         /\ \A i \in 1..MaxRefreshes : rs[i] # Free => refreshes'[i] # Free
<1>1. PICK i \in FreeSlots(rs) : refreshes' = [rs EXCEPT ![i] = NewRefresh("error", "none")]
  BY DEF StartOrphan
<1>2. NewRefresh("error", "none") \in Refresh /\ NewRefresh("error", "none") # Free
      /\ RefreshOK(NewRefresh("error", "none"))
  BY NewRefreshOK
<1> QED BY <1>1, <1>2 DEF AllOK

\* A session with nothing in it.
LEMMA EmptyRecords ==
  /\ SignedOut.token = None /\ NoQuery.fetch = "idle" /\ NoQuery.data = None
  /\ SignedOut \in [token : TokenIds \cup {None}, user : SessionUsers \cup {None},
                    perms : GrantIds \cup {None}]
  /\ {NoQuery, NewQuery} \subseteq [fetch : {"idle", "asked", "answered"},
       answer : GrantIds \cup {None}, data : GrantIds \cup {None}, error : {"no", "401", "api"}]
  /\ NewQuery.fetch = "asked" /\ NewQuery.data = None /\ NewQuery.answer = None
BY DEF SignedOut, NoQuery, NewQuery

\* When only they are left, all are refreshes.
LEMMA DisownedAll ==
  ASSUME NEW rs, AllOK(rs), UNCHANGED <<hist, version, owing>>, refreshes' = Disowned(rs)
  PROVE  AllOK(refreshes)'
<1>1. AllOK(Disowned(rs))'
  BY DisownedOK
<1>2. Disowned(rs)' = Disowned(rs)
  BY DEF Disowned
<1>3. AllOK(refreshes)' <=> AllOK(Disowned(rs))'
  BY <1>2 DEF AllOK
<1> QED BY <1>1, <1>3

\* After clearSession nothing belongs to the session.
LEMMA ClearedOK ==
  ASSUME NEW rs, AllOK(rs), UNCHANGED <<hist, version, owing>>, Cleared(rs)
  PROVE  StoreOK' /\ PermOK' /\ AllOK(refreshes)' /\ Synced' /\ mixed' \in BOOLEAN
         /\ failed' \in BOOLEAN
<1>1. store' = SignedOut /\ perm' = NoQuery /\ refreshes' = Disowned(rs)
      /\ mixed' = FALSE /\ failed' = FALSE
  BY DEF Cleared
<1>2. AllOK(refreshes)'
  BY <1>1, DisownedAll
<1>3. StoreOK' /\ Synced'
  BY <1>1, EmptyRecords DEF StoreOK, Synced
<1>4. PermOK'
  BY <1>1, EmptyRecords DEF PermOK
<1> QED BY <1>1, <1>2, <1>3, <1>4

\* A session that begins, and one whose token is replaced, have the list of the new token.
LEMMA LandedOK ==
  ASSUME HistOK, NEW t, IssuedToken(t), UNCHANGED <<hist, version, owing>>,
         NEW u \in SessionUsers \cup {None},
         store' = [token |-> t, user |-> u, perms |-> List(t)], perm' = NewQuery,
         ~mixed' => u = t.user
  PROVE  StoreOK' /\ PermOK' /\ Synced'
<1> DEFINE g == List(t)
<1>1. t \in TokenIds /\ t # None /\ IssuedToken(t)'
  BY IssuedReal DEF IssuedToken, Accounted
<1>2. /\ g \in GrantIds /\ Issued(g) /\ g.user = t.user /\ g.rev = t.rev
      /\ Codes(g) = Codes(t)
  BY ListIssued
<1> HIDE DEF g
<1>3. store'.token = t /\ store'.user = u /\ store'.perms = g
  BY DEF g
<1>4. t.rev \in Nat
  BY <1>1 DEF TokenIds
<1>5. StoreOK'
  <2>1. store' \in [token : TokenIds \cup {None}, user : SessionUsers \cup {None},
                    perms : GrantIds \cup {None}]
    BY <1>1, <1>2 DEF g
  <2>2. Follows(store.perms)'
    BY <1>1, <1>2, <1>3, <1>4 DEF Follows, Issued
  <2>3. IssuedToken(store.token)'
    BY <1>1, <1>3 DEF IssuedToken, Accounted
  <2> QED BY <1>3, <2>1, <2>2, <2>3 DEF StoreOK
<1>6. PermOK'
  BY <1>1, <1>3, EmptyRecords DEF PermOK
<1>7. Synced'
  BY <1>2, <1>3 DEF Synced, Codes
<1> QED BY <1>5, <1>6, <1>7

-----------------------------------------------------------------------------
(* Steps                                                                    *)

\* Refreshes of the session are refreshes of the session as it goes on.
LEMMA AllKept ==
  ASSUME AllOK(refreshes'), UNCHANGED <<hist, version, owing, mixed>>, store'.token = store.token
  PROVE  AllOK(refreshes)'
<1>1. Refresh' = Refresh
  BY DEF Refresh, Answers, GrantIds, TokenIds, Hooks
<1>2. ASSUME NEW i \in 1..MaxRefreshes PROVE RefreshOK(refreshes[i])'
  <2>1. RefreshOK(refreshes'[i])
    BY DEF AllOK
  <2> QED BY <1>1, <2>1 DEF RefreshOK, AnswerOK, Issued, IssuedToken, Accounted
<1> QED BY <1>1, <1>2 DEF AllOK

\* Each part of the invariant depends on some variables.
LEMMA PartsKept ==
  ASSUME SessionInv, UNCHANGED <<hist, version, owing>>
  PROVE  /\ HistOK'
         /\ UNCHANGED <<store, mixed>> => StoreOK'
         /\ store'.token = store.token /\ perm' = perm => PermOK'
         /\ login' = login => LoginOK'
         /\ visit' = visit => VisitOK'
         /\ UNCHANGED <<store, failed>>
              /\ (\A i \in 1..MaxRefreshes : refreshes[i] # Free => refreshes'[i] # Free) => Synced'
<1>1. HistOK' /\ (login' = login => LoginOK') /\ (visit' = visit => VisitOK')
  BY DEF SessionInv, HistOK, LoginOK, VisitOK, Granted, Codes, AnswerOK, Issued, IssuedToken, Accounted
<1>2. UNCHANGED <<store, mixed>> => StoreOK'
  BY DEF SessionInv, StoreOK, Follows, Issued, IssuedToken, Accounted
<1>3. store'.token = store.token /\ perm' = perm => PermOK'
  BY DEF SessionInv, PermOK, Issued, Follows
<1>4. ASSUME UNCHANGED <<store, failed>>,
             \A i \in 1..MaxRefreshes : refreshes[i] # Free => refreshes'[i] # Free
      PROVE  Synced'
  BY <1>4 DEF SessionInv, Synced, UnderWay, Codes
<1> QED BY <1>1, <1>2, <1>3, <1>4

\* Whenever there is a query there is a session, of a user.
LEMMA QueryHasToken ==
  ASSUME SessionInv
  PROVE  /\ perm # NoQuery => store.token # None
         /\ perm.fetch # "idle" \/ perm.error = "401" => perm # NoQuery
         /\ store.token # None => store.token \in TokenIds /\ store.token.user \in SessionUsers
BY DEF SessionInv, PermOK, StoreOK, IssuedToken, TokenIds, NoQuery

\* What a server does leaves the client as it was, and what has been granted before.
LEMMA ServerSession ==
  ASSUME SessionInv, UNCHANGED <<store, perm, refreshes, login, visit, mixed, failed>>, HistOK',
         \A v \in SessionUsers : Len(hist[v]) <= Len(hist'[v]),
         \A v \in SessionUsers : \A n \in 1..Len(hist[v]) : hist'[v][n] = hist[v][n],
         \A t : IssuedToken(t) => IssuedToken(t)'
  PROVE  SessionInv'
<1>1. UNCHANGED <<store, perm, refreshes, login, visit, mixed, failed>>
  OBVIOUS
<1>2. ASSUME NEW g, Issued(g) \/ IssuedToken(g) PROVE (Issued(g) => Issued(g)') /\ Codes(g)' = Codes(g)
  <2>1. g.user \in SessionUsers /\ g.rev \in Nat \ {0} /\ g.rev <= Len(hist[g.user])
    BY <1>2 DEF Issued, IssuedToken, GrantIds, TokenIds
  <2>2. Len(hist[g.user]) \in Nat /\ Len(hist'[g.user]) \in Nat
    BY <2>1 DEF SessionInv, HistOK
  <2>3. g.rev <= Len(hist'[g.user]) /\ g.rev \in 1..Len(hist[g.user])
    BY <2>1, <2>2
  <2>4. hist'[g.user][g.rev] = hist[g.user][g.rev]
    BY <2>1, <2>3
  <2> QED BY <2>3, <2>4 DEF Issued, Codes
<1>3. StoreOK'
  BY <1>1, <1>2 DEF SessionInv, StoreOK, Follows
<1>4. PermOK'
  BY <1>1, <1>2 DEF SessionInv, PermOK, Follows
<1>5. AllOK(refreshes)'
  <2>1. Refresh' = Refresh
    BY DEF Refresh, Answers, GrantIds, TokenIds, Hooks
  <2>2. \A i \in 1..MaxRefreshes : RefreshOK(refreshes[i])'
    BY <1>1, <1>2, <2>1 DEF SessionInv, AllOK, RefreshOK, AnswerOK
  <2> QED BY <1>1, <2>1, <2>2 DEF SessionInv, AllOK
<1>6. LoginOK'
  BY <1>1, <1>2 DEF SessionInv, LoginOK, AnswerOK
<1>7. VisitOK'
  <2> SUFFICES ASSUME visit # Free
               PROVE  IssuedToken(visit.token)' /\ Codes(visit.token)' = Codes(visit.token)
                      /\ (Granted(visit.token, visit.page) => Granted(visit.token, visit.page)')
    BY <1>1 DEF SessionInv, VisitOK
  <2>1. /\ IssuedToken(visit.token) /\ visit.token.user \in SessionUsers
        /\ visit.token.rev \in Nat \ {0}
    BY DEF SessionInv, VisitOK, IssuedToken, TokenIds
  <2>2. IssuedToken(visit.token)' /\ Codes(visit.token)' = Codes(visit.token)
    <3>1. Codes(visit.token)' = Codes(visit.token)
      BY <1>1, <1>2, <2>1 DEF Codes
    <3>2. IssuedToken(visit.token)'
      BY <1>1, <2>1 DEF IssuedToken, Accounted
    <3> QED BY <3>1, <3>2
  <2>3. ASSUME Granted(visit.token, visit.page) PROVE Granted(visit.token, visit.page)'
    <3> DEFINE v == visit.token.user
    <3>1. PICK n \in visit.token.rev..Len(hist[v]) : RoutePermission[visit.page] \in hist[v][n]
      BY <2>3 DEF Granted
    <3>2. Len(hist[v]) \in Nat /\ Len(hist'[v]) \in Nat
      BY <2>1 DEF SessionInv, HistOK
    <3>3. n \in 1..Len(hist[v]) /\ n \in visit.token.rev..Len(hist'[v])
      BY <2>1, <3>1, <3>2
    <3>4. hist'[v][n] = hist[v][n]
      BY <2>1, <3>3
    <3> QED BY <1>1, <3>1, <3>3, <3>4 DEF Granted
  <2> QED BY <2>2, <2>3
<1>8. Synced'
  <2> SUFFICES ASSUME store.token # None PROVE Codes(store.token)' = Codes(store.token)
                 /\ Codes(store.perms)' = Codes(store.perms)
    BY <1>1 DEF SessionInv, Synced, UnderWay
  <2>1. IssuedToken(store.token) /\ Issued(store.perms)
    BY DEF SessionInv, StoreOK, Follows
  <2> QED BY <1>1, <1>2, <2>1 DEF Codes
<1> QED BY <1>1, <1>3, <1>4, <1>5, <1>6, <1>7, <1>8 DEF SessionInv

LEMMA GrantSession ==
  ASSUME SessionInv, NEW u \in SessionUsers, NEW s \in Grants, Grant(u, s)
  PROVE  SessionInv'
<1>1. UNCHANGED <<store, perm, refreshes, login, visit, mixed, failed>> /\ HistOK
  BY DEF Grant, clientVars, SessionInv
<1> QED BY <1>1, GrantStep, ServerSession

LEMMA BumpSession ==
  ASSUME SessionInv, NEW u \in SessionUsers, NEW n \in owing[u], Bump(u, n)
  PROVE  SessionInv'
<1>1. UNCHANGED <<store, perm, refreshes, login, visit, mixed, failed, hist>> /\ HistOK
  BY DEF Bump, clientVars, SessionInv
<1>2. \A v \in SessionUsers : Len(hist[v]) \in Nat
  BY <1>1 DEF HistOK
<1>3. \A v \in SessionUsers : Len(hist[v]) <= Len(hist'[v])
  BY <1>1, <1>2
<1>4. HistOK' /\ \A t : IssuedToken(t) => IssuedToken(t)'
  BY <1>1, BumpStep
<1> QED BY <1>1, <1>3, <1>4, ServerSession

\* The query is answered with the latest list.
LEMMA PermAnswerSession == ASSUME SessionInv, PermAnswer PROVE SessionInv'
<1>1. /\ perm.fetch = "asked"
      /\ perm' = [perm EXCEPT !.fetch = "answered", !.answer = Now(store.token.user)]
      /\ UNCHANGED <<hist, version, owing, store, refreshes, login, visit, mixed, failed, events>>
  BY DEF PermAnswer, serverVars
<1>2. store.token # None /\ store.token \in TokenIds /\ store.token.user \in SessionUsers
  BY <1>1, QueryHasToken
<1> DEFINE g == Now(store.token.user)
<1>3. Follows(g) /\ g \in GrantIds
  <2>1. Issued(g) /\ g.user = store.token.user /\ \A t : IssuedToken(t) /\ t.user = store.token.user
                                                        => t.rev <= g.rev
    BY <1>2, NowIssued DEF SessionInv
  <2>2. store.token.rev <= g.rev /\ g \in GrantIds
    BY <1>2, <2>1 DEF SessionInv, StoreOK, Issued
  <2> QED BY <1>2, <2>1, <2>2 DEF Follows, GrantIds, TokenIds
<1> HIDE DEF g
<1>4. /\ perm' \in [fetch : {"idle", "asked", "answered"}, answer : GrantIds \cup {None},
                    data : GrantIds \cup {None}, error : {"no", "401", "api"}]
      /\ perm'.answer = g /\ perm'.data = perm.data
  BY <1>1, <1>3 DEF SessionInv, PermOK, g
<1>5. PermOK'
  BY <1>1, <1>2, <1>3, <1>4 DEF SessionInv, PermOK, Follows, Issued
<1>6. AllOK(refreshes)'
  BY <1>1, AllKept DEF SessionInv
<1> QED BY <1>1, <1>5, <1>6, PartsKept DEF SessionInv

\* The stored permissions are replaced by those of the answer, and a difference starts a
\* refresh, unless one is under way.
LEMMA PermDataSession == ASSUME SessionInv, PermData PROVE SessionInv'
<1> DEFINE g == perm.answer
<1>1. /\ perm.fetch = "answered" /\ perm' = [NoQuery EXCEPT !.data = g]
      /\ store' = [store EXCEPT !.perms = g]
      /\ IF Same(g, store.perms) THEN UNCHANGED refreshes ELSE Start(refreshes, Hooks, "data")
      /\ UNCHANGED <<hist, version, owing, login, visit, mixed, failed, events>>
  BY DEF PermData, serverVars
<1>2. store.token # None /\ Follows(g) /\ g \in GrantIds
  BY <1>1, QueryHasToken DEF SessionInv, PermOK, Follows, Issued
<1> HIDE DEF g
<1>3. store'.token = store.token /\ store'.user = store.user /\ store'.perms = g
      /\ store' \in [token : TokenIds \cup {None}, user : SessionUsers \cup {None},
                     perms : GrantIds \cup {None}]
  BY <1>1, <1>2 DEF SessionInv, StoreOK
<1>4. StoreOK'
  BY <1>1, <1>2, <1>3 DEF SessionInv, StoreOK, Follows, Issued, IssuedToken, Accounted
<1>5. PermOK'
  <2>1. perm' = [fetch |-> "idle", answer |-> None, data |-> g, error |-> "no"]
    BY <1>1 DEF NoQuery
  <2>2. perm' \in [fetch : {"idle", "asked", "answered"}, answer : GrantIds \cup {None},
                   data : GrantIds \cup {None}, error : {"no", "401", "api"}]
        /\ perm'.fetch = "idle" /\ perm'.data = g
    BY <1>2, <2>1
  <2> QED BY <1>1, <1>2, <1>3, <2>2 DEF PermOK, Follows, Issued
<1>6. AllOK(refreshes)' /\ Synced'
  <2>1. CASE Same(g, store.perms)
    <3>1. AllOK(refreshes)'
      BY <1>1, <1>3, <2>1, AllKept DEF SessionInv
    <3>2. Codes(g) = Codes(store.perms)
      BY <2>1 DEF Same
    <3>3. Codes(store.token)' = Codes(store.token) /\ Codes(store.perms)' = Codes(g)
      BY <1>1, <1>3 DEF Codes
    <3>4. refreshes' = refreshes
      BY <1>1, <2>1
    <3> QED BY <1>1, <1>2, <3>1, <3>2, <3>3, <3>4 DEF SessionInv, Synced, UnderWay
  <2>2. CASE ~Same(g, store.perms)
    <3>1. AllOK(refreshes') /\ \E i \in 1..MaxRefreshes : refreshes'[i] # Free
      BY <1>1, <1>2, <2>2, StartOK DEF SessionInv, Hooks
    <3> QED BY <1>1, <1>3, <3>1, AllKept DEF Synced, UnderWay
  <2> QED BY <2>1, <2>2
<1> QED BY <1>1, <1>4, <1>5, <1>6, PartsKept DEF SessionInv

\* Steps that change the query without new data, and start refreshes.
LEMMA QuerySession ==
  ASSUME SessionInv, UNCHANGED <<hist, version, owing, store, mixed, failed, login>>, VisitOK',
         perm' \in [fetch : {"idle", "asked", "answered"}, answer : GrantIds \cup {None},
                    data : GrantIds \cup {None}, error : {"no", "401", "api"}],
         perm' # NoQuery => store.token # None,
         perm'.fetch = "answered" => Follows(perm'.answer),
         perm'.data # None => perm'.data = perm.data,
         AllOK(refreshes'),
         \A i \in 1..MaxRefreshes : refreshes[i] # Free => refreshes'[i] # Free
  PROVE  SessionInv'
<1>1. PermOK'
  BY DEF SessionInv, PermOK, Follows, Issued
<1> QED BY <1>1, AllKept, PartsKept DEF SessionInv

\* An error starts refreshes.
LEMMA PermErrorSession ==
  ASSUME SessionInv, NEW error \in {"401", "api", "net"}, PermError(error)
  PROVE  SessionInv'
<1>1. perm.fetch # "idle" /\ UNCHANGED <<hist, version, owing, store, login, visit, mixed, failed>>
  BY DEF PermError, serverVars
<1>2. store.token # None /\ StoreOK /\ AllOK(refreshes)
  BY <1>1, QueryHasToken DEF SessionInv
<1>3. perm \in [fetch : {"idle", "asked", "answered"}, answer : GrantIds \cup {None},
                data : GrantIds \cup {None}, error : {"no", "401", "api"}]
  BY DEF SessionInv, PermOK
<1>4. /\ perm' \in [fetch : {"idle", "asked", "answered"}, answer : GrantIds \cup {None},
                    data : GrantIds \cup {None}, error : {"no", "401", "api"}]
      /\ perm'.fetch # "answered" /\ (perm'.data # None => perm'.data = perm.data)
  <2>1. CASE perm.data = None
    <3>1. perm' = NewQuery
      BY <2>1 DEF PermError
    <3> QED BY <3>1, EmptyRecords
  <2>2. CASE perm.data # None /\ error = "401"
    <3>1. perm' = [NewQuery EXCEPT !.data = perm.data, !.error = "401"]
      BY <2>2 DEF PermError
    <3>2. perm' = [fetch |-> "asked", answer |-> None, data |-> perm.data, error |-> "401"]
      BY <3>1 DEF NewQuery, NoQuery
    <3> QED BY <1>3, <3>2
  <2>3. CASE perm.data # None /\ error # "401"
    <3> DEFINE e == IF error = "api" THEN "api" ELSE "no"
    <3>1. perm' = [NoQuery EXCEPT !.data = perm.data, !.error = e]
      BY <2>3 DEF PermError
    <3>2. perm' = [fetch |-> "idle", answer |-> None, data |-> perm.data, error |-> e]
      BY <3>1 DEF NoQuery
    <3> QED BY <1>3, <3>2
  <2> QED BY <2>1, <2>2, <2>3
<1>5. AllOK(refreshes') /\ \A i \in 1..MaxRefreshes : refreshes[i] # Free => refreshes'[i] # Free
  <2> DEFINE os == Orphaned(refreshes, Hooks)
  <2>1. AllOK(os) /\ \A i \in 1..MaxRefreshes : os[i] = Free <=> refreshes[i] = Free
    BY <1>2, OrphanedOK
  <2> HIDE DEF os
  <2>2. CASE error = "net"
    <3>1. refreshes' = refreshes
      BY <2>2 DEF PermError
    <3> QED BY <1>2, <3>1
  <2>3. CASE error = "401" /\ Busy(refreshes, "route")
    <3>1. refreshes' = os
      BY <2>3 DEF PermError, os
    <3> QED BY <2>1, <3>1
  <2>4. CASE error = "401" /\ ~Busy(refreshes, "route")
    <3>1. StartOrphan(os)
      BY <2>4 DEF PermError, os
    <3> QED BY <1>2, <2>1, <3>1, StartOrphanOK
  <2>5. CASE error = "api"
    <3> DEFINE hooks == IF perm.data # None THEN Hooks ELSE {"route"}
    <3>1. Start(refreshes, hooks, "error")
      BY <2>5 DEF PermError
    <3>2. hooks \in SUBSET Hooks
      BY DEF Hooks
    <3> HIDE DEF hooks
    <3> QED BY <1>2, <3>1, <3>2, StartOK
  <2> QED BY <2>2, <2>3, <2>4, <2>5
<1>6. VisitOK'
  BY <1>1, PartsKept
<1> QED BY <1>1, <1>2, <1>4, <1>5, <1>6, QuerySession

LEMMA RedirectSession == ASSUME SessionInv, Redirect PROVE SessionInv'
<1>1. /\ perm.error = "401" /\ StartOrphan(refreshes)
      /\ UNCHANGED <<hist, version, owing, store, perm, login, visit, mixed, failed>>
  BY DEF Redirect, serverVars
<1>2. store.token # None /\ StoreOK /\ AllOK(refreshes)
  BY <1>1, QueryHasToken DEF SessionInv
<1>3. AllOK(refreshes') /\ \A i \in 1..MaxRefreshes : refreshes[i] # Free => refreshes'[i] # Free
  BY <1>1, <1>2, StartOrphanOK
<1> QED BY <1>1, <1>3, AllKept, PartsKept DEF SessionInv

LEMMA RefocusSession == ASSUME SessionInv, SessionRefocus PROVE SessionInv'
<1>1. /\ perm # NoQuery /\ perm' = [perm EXCEPT !.fetch = "asked"]
      /\ UNCHANGED <<hist, version, owing, store, refreshes, login, visit, mixed, failed>>
  BY DEF SessionRefocus, serverVars
<1>2. /\ perm' \in [fetch : {"idle", "asked", "answered"}, answer : GrantIds \cup {None},
                    data : GrantIds \cup {None}, error : {"no", "401", "api"}]
      /\ perm'.fetch = "asked" /\ perm'.data = perm.data
  BY <1>1 DEF SessionInv, PermOK
<1>3. VisitOK' /\ AllOK(refreshes') /\ store.token # None
  BY <1>1, PartsKept DEF SessionInv, PermOK
<1> QED BY <1>1, <1>2, <1>3, QuerySession

\* Steps of a refresh on its way: the list, then the token of its user.
LEMMA OnItsWay ==
  ASSUME SessionInv, NEW i \in 1..MaxRefreshes, NEW st \in {"signing", "answered"}, NEW a \in Answers,
         refreshes[i] # Free, AnswerOK(st, a, refreshes[i].user),
         refreshes' = [refreshes EXCEPT ![i].st = st, ![i].answer = a],
         UNCHANGED <<hist, version, owing, store, perm, login, visit, mixed, failed>>
  PROVE  SessionInv'
<1> DEFINE r == refreshes[i]
           s == [r EXCEPT !.st = st, !.answer = a]
<1>1. RefreshOK(r) /\ r \in Refresh /\ refreshes' = [refreshes EXCEPT ![i] = s]
  BY DEF SessionInv, AllOK, RefreshOK
<1>2. s \in Refresh /\ s.st = st /\ s.answer = a /\ s.user = r.user /\ s.own = r.own
  BY <1>1 DEF Refresh
<1>3. s # Free
  BY <1>2 DEF Refresh, Free
<1> HIDE DEF s
<1>4. RefreshOK(s)
  BY <1>1, <1>2, <1>3 DEF RefreshOK
<1>5. AllOK(refreshes') /\ \A j \in 1..MaxRefreshes : refreshes[j] # Free => refreshes'[j] # Free
  BY <1>1, <1>2, <1>3, <1>4 DEF SessionInv, AllOK
<1> QED BY <1>5, AllKept, PartsKept DEF SessionInv

LEMMA RefreshReadSession ==
  ASSUME SessionInv, NEW i \in 1..MaxRefreshes, RefreshRead(i)
  PROVE  SessionInv'
<1> DEFINE g == Now(refreshes[i].user)
<1>1. /\ refreshes[i].st = "asked"
      /\ refreshes' = [refreshes EXCEPT ![i].st = "signing", ![i].answer = g]
      /\ UNCHANGED <<hist, version, owing, store, perm, login, visit, mixed, failed>>
  BY DEF RefreshRead, serverVars
<1>2. refreshes[i] # Free
  BY <1>1 DEF Free
<1>3. refreshes[i].user \in SessionUsers /\ HistOK
  BY <1>2 DEF SessionInv, AllOK, RefreshOK, Refresh
<1>4. Issued(g) /\ g.user = refreshes[i].user
  BY <1>3, NowIssued
<1> HIDE DEF g
<1>5. g \in Answers /\ AnswerOK("signing", g, refreshes[i].user)
  BY <1>4, IssuedReal DEF Answers, AnswerOK
<1> QED BY <1>1, <1>2, <1>5, OnItsWay

LEMMA RefreshSignSession ==
  ASSUME SessionInv, NEW i \in 1..MaxRefreshes, RefreshSign(i)
  PROVE  SessionInv'
<1> DEFINE t == Signed(refreshes[i].answer)
<1>1. /\ refreshes[i].st = "signing"
      /\ refreshes' = [refreshes EXCEPT ![i].st = "answered", ![i].answer = t]
      /\ UNCHANGED <<hist, version, owing, store, perm, login, visit, mixed, failed>>
  BY DEF RefreshSign, serverVars
<1>2. refreshes[i] # Free
  BY <1>1 DEF Free
<1>3. Issued(refreshes[i].answer) /\ refreshes[i].answer.user = refreshes[i].user /\ HistOK
  BY <1>1, <1>2 DEF SessionInv, AllOK, RefreshOK, AnswerOK
<1>4. IssuedToken(t) /\ t.user = refreshes[i].user
  BY <1>3, SignedIssued
<1> HIDE DEF t
<1>5. t \in Answers /\ AnswerOK("answered", t, refreshes[i].user)
  BY <1>4, IssuedReal DEF Answers, AnswerOK
<1> QED BY <1>1, <1>2, <1>5, OnItsWay

\* A new token: of the user of the session when the refresh belongs to it.
LEMMA RefreshLandSession ==
  ASSUME SessionInv, NEW i \in 1..MaxRefreshes, RefreshLand(i)
  PROVE  SessionInv'
<1> DEFINE r == refreshes[i]
           g == r.answer
           rs == Without(i)
           os == Orphaned(rs, Below)
<1>1. /\ r.st = "answered" /\ store' = [store EXCEPT !.token = g, !.perms = List(g)]
      /\ perm' = NewQuery /\ refreshes' = os
      /\ mixed' = (mixed \/ ~r.own) /\ failed' = FALSE
      /\ UNCHANGED <<hist, version, owing, login, visit, events>>
  BY DEF RefreshLand, serverVars
<1>2. r # Free /\ RefreshOK(r) /\ r \in Refresh
  BY <1>1 DEF SessionInv, AllOK, RefreshOK, Free
<1>3. IssuedToken(g) /\ g.user = r.user /\ g \in TokenIds /\ g # None
  BY <1>1, <1>2, IssuedReal DEF RefreshOK, AnswerOK
<1>4. AllOK(os)
  <2>1. AllOK(rs)
    BY WithoutOK DEF SessionInv
  <2> HIDE DEF rs
  <2> QED BY <2>1, OrphanedOK
<1> HIDE DEF g, os
<1>5. store' = [token |-> g, user |-> store.user, perms |-> List(g)]
      /\ store.user \in SessionUsers \cup {None}
  BY <1>1 DEF SessionInv, StoreOK
<1>6. ~mixed' => ~mixed /\ r.own /\ store.token # None /\ r.user = store.token.user
                 /\ store.user = g.user
  <2>1. ~mixed' => ~mixed /\ r.own
    BY <1>1, <1>2 DEF SessionInv, Refresh
  <2> QED BY <1>2, <1>3, <2>1 DEF SessionInv, RefreshOK, StoreOK
<1>7. StoreOK' /\ PermOK' /\ Synced'
  BY <1>1, <1>3, <1>5, <1>6, LandedOK DEF SessionInv
<1>8. AllOK(refreshes)'
  <2>1. Refresh' = Refresh
    BY DEF Refresh, Answers, GrantIds, TokenIds, Hooks
  <2>2. store'.token = g
    BY <1>5
  <2>3. ASSUME NEW j \in 1..MaxRefreshes PROVE RefreshOK(refreshes[j])'
    <3>1. RefreshOK(os[j])
      BY <1>4 DEF AllOK
    <3> QED BY <1>1, <1>3, <1>6, <2>1, <2>2, <3>1 DEF RefreshOK, AnswerOK, Issued, IssuedToken, Accounted
  <2> QED BY <1>1, <1>4, <2>1, <2>3 DEF AllOK
<1>9. mixed' \in BOOLEAN /\ failed' \in BOOLEAN
  BY <1>1
<1> QED BY <1>1, <1>7, <1>8, <1>9, PartsKept DEF SessionInv

LEMMA RefreshFailSession ==
  ASSUME SessionInv, NEW i \in 1..MaxRefreshes, RefreshFail(i)
  PROVE  SessionInv'
<1> DEFINE rs == Without(i)
<1>1. AllOK(rs)
  BY WithoutOK DEF SessionInv
<1>2. UNCHANGED <<hist, version, owing, login, visit>>
  BY DEF RefreshFail, serverVars
<1> HIDE DEF rs
<1>3. CASE refreshes[i].kind = "error"
  <2>1. Cleared(rs)
    BY <1>3 DEF RefreshFail, rs
  <2> QED BY <1>1, <1>2, <2>1, ClearedOK, PartsKept DEF SessionInv
<1>4. CASE refreshes[i].kind # "error"
  <2>1. refreshes' = rs /\ failed' = TRUE /\ UNCHANGED <<store, perm, mixed>>
    BY <1>4 DEF RefreshFail, rs
  <2>2. AllOK(refreshes)'
    BY <1>1, <1>2, <2>1, AllKept
  <2> QED BY <1>2, <2>1, <2>2, PartsKept DEF SessionInv, Synced
<1> QED BY <1>3, <1>4

\* A login asks for its user.
LEMMA AskedOK ==
  ASSUME NEW u \in SessionUsers, login' = [st |-> "asked", user |-> u, answer |-> None]
  PROVE  LoginOK'
<1>1. login' \in [st : {"asked", "signing", "answered"}, user : SessionUsers, answer : Answers]
      /\ login'.st = "asked"
  BY DEF Answers
<1> QED BY <1>1 DEF LoginOK, AnswerOK, Answers, GrantIds, TokenIds

LEMMA LoginAskSession ==
  ASSUME SessionInv, NEW u \in SessionUsers, LoginAsk(u)
  PROVE  SessionInv'
<1>1. /\ login' = [st |-> "asked", user |-> u, answer |-> None]
      /\ UNCHANGED <<hist, version, owing, store, perm, refreshes, visit, mixed, failed>>
  BY DEF LoginAsk, serverVars
<1>2. AllOK(refreshes)' /\ LoginOK'
  BY <1>1, AllKept, AskedOK DEF SessionInv
<1> QED BY <1>1, <1>2, PartsKept DEF SessionInv

\* So does its list, and then its token.
LEMMA LoginOnItsWay ==
  ASSUME SessionInv, NEW st \in {"signing", "answered"}, NEW a \in Answers,
         login # Free, AnswerOK(st, a, login.user),
         login' = [login EXCEPT !.st = st, !.answer = a],
         UNCHANGED <<hist, version, owing, store, perm, refreshes, visit, mixed, failed>>
  PROVE  SessionInv'
<1>1. /\ login' \in [st : {"asked", "signing", "answered"}, user : SessionUsers, answer : Answers]
      /\ login'.st = st /\ login'.answer = a /\ login'.user = login.user
  BY DEF SessionInv, LoginOK
<1>2. LoginOK'
  <2>1. Answers' = Answers
    BY DEF Answers, GrantIds, TokenIds
  <2> QED BY <1>1, <2>1 DEF LoginOK, AnswerOK, Issued, IssuedToken, Accounted
<1>3. AllOK(refreshes)'
  BY AllKept DEF SessionInv
<1> QED BY <1>2, <1>3, PartsKept DEF SessionInv

LEMMA LoginReadSession == ASSUME SessionInv, LoginRead PROVE SessionInv'
<1> DEFINE g == Now(login.user)
<1>1. /\ login.st = "asked" /\ login' = [login EXCEPT !.st = "signing", !.answer = g]
      /\ UNCHANGED <<hist, version, owing, store, perm, refreshes, visit, mixed, failed>>
  BY DEF LoginRead, serverVars
<1>2. login # Free
  BY <1>1 DEF Free
<1>3. Issued(g) /\ g.user = login.user
  BY <1>2, NowIssued DEF SessionInv, LoginOK
<1> HIDE DEF g
<1>4. g \in Answers /\ AnswerOK("signing", g, login.user)
  BY <1>3, IssuedReal DEF Answers, AnswerOK
<1> QED BY <1>1, <1>2, <1>4, LoginOnItsWay

LEMMA LoginSignSession == ASSUME SessionInv, LoginSign PROVE SessionInv'
<1> DEFINE t == Signed(login.answer)
<1>1. /\ login.st = "signing" /\ login' = [login EXCEPT !.st = "answered", !.answer = t]
      /\ UNCHANGED <<hist, version, owing, store, perm, refreshes, visit, mixed, failed>>
  BY DEF LoginSign, serverVars
<1>2. login # Free
  BY <1>1 DEF Free
<1>3. Issued(login.answer) /\ login.answer.user = login.user /\ HistOK
  BY <1>1, <1>2 DEF SessionInv, LoginOK, AnswerOK
<1>4. IssuedToken(t) /\ t.user = login.user
  BY <1>3, SignedIssued
<1> HIDE DEF t
<1>5. t \in Answers /\ AnswerOK("answered", t, login.user)
  BY <1>4, IssuedReal DEF Answers, AnswerOK
<1> QED BY <1>1, <1>2, <1>5, LoginOnItsWay

LEMMA LoginLandSession == ASSUME SessionInv, LoginLand PROVE SessionInv'
<1> DEFINE g == login.answer
<1>1. /\ login.st = "answered" /\ store' = [token |-> g, user |-> login.user, perms |-> List(g)]
      /\ perm' = NewQuery /\ login' = Free /\ refreshes' = Disowned(refreshes)
      /\ mixed' = FALSE /\ failed' = FALSE /\ UNCHANGED <<hist, version, owing, visit, events>>
  BY DEF LoginLand, Session, serverVars
<1>2. login # Free
  BY <1>1 DEF Free
<1>3. IssuedToken(g) /\ g.user = login.user /\ login.user \in SessionUsers
  BY <1>1, <1>2 DEF SessionInv, LoginOK, AnswerOK
<1> HIDE DEF g
<1>4. StoreOK' /\ PermOK' /\ Synced'
  BY <1>1, <1>3, LandedOK DEF SessionInv
<1>5. AllOK(refreshes)'
  BY <1>1, DisownedAll DEF SessionInv
<1>6. LoginOK'
  BY <1>1 DEF LoginOK
<1> QED BY <1>1, <1>4, <1>5, <1>6, PartsKept DEF SessionInv

LEMMA LoginFailSession == ASSUME SessionInv, LoginFail PROVE SessionInv'
<1>1. /\ login' = Free
      /\ perm' = IF store.token # None /\ perm = NoQuery THEN NewQuery ELSE perm
      /\ UNCHANGED <<hist, version, owing, store, refreshes, visit, mixed, failed, events>>
  BY DEF LoginFail, serverVars
<1>2. PermOK'
  <2>1. CASE store.token # None /\ perm = NoQuery
    <3>1. perm' = NewQuery
      BY <1>1, <2>1
    <3> QED BY <1>1, <2>1, <3>1, EmptyRecords DEF PermOK
  <2>2. CASE ~(store.token # None /\ perm = NoQuery)
    <3>1. perm' = perm
      BY <1>1, <2>2
    <3> QED BY <1>1, <3>1, PartsKept
  <2> QED BY <2>1, <2>2
<1>3. LoginOK' /\ AllOK(refreshes)'
  BY <1>1, AllKept DEF LoginOK, SessionInv
<1> QED BY <1>1, <1>2, <1>3, PartsKept DEF SessionInv

\* A reload loses what is under way, and counts as a failure of the refreshes lost.
LEMMA ReloadSession ==
  ASSUME SessionInv, NEW back \in BOOLEAN, NEW u, back => u \in SessionUsers, Reload(back, u)
  PROVE  SessionInv'
<1>1. /\ refreshes' = [i \in 1..MaxRefreshes |-> Free] /\ visit' = Free
      /\ failed' = (failed \/ \E i \in 1..MaxRefreshes : refreshes[i] # Free)
      /\ login' = IF back THEN [st |-> "asked", user |-> u, answer |-> None] ELSE Free
      /\ perm'  = IF back \/ store.token = None THEN NoQuery ELSE NewQuery
      /\ UNCHANGED <<hist, version, owing, store, mixed>>
  BY DEF Reload, serverVars
<1>2. PermOK'
  <2>1. CASE back \/ store.token = None
    <3>1. perm' = NoQuery
      BY <1>1, <2>1
    <3> QED BY <3>1, EmptyRecords DEF PermOK
  <2>2. CASE ~(back \/ store.token = None)
    <3>1. perm' = NewQuery
      BY <1>1, <2>2
    <3> QED BY <1>1, <2>2, <3>1, EmptyRecords DEF PermOK
  <2> QED BY <2>1, <2>2
<1>3. AllOK(refreshes)' /\ VisitOK'
  BY <1>1 DEF AllOK, RefreshOK, VisitOK
<1>4. LoginOK'
  <2>1. CASE back
    BY <1>1, <2>1, AskedOK
  <2>2. CASE ~back
    BY <1>1, <2>2 DEF LoginOK
  <2> QED BY <2>1, <2>2
<1>5. Synced'
  <2> SUFFICES ASSUME store.token # None, ~failed' PROVE Codes(store.token)' = Codes(store.perms)'
    BY <1>1 DEF Synced
  <2>1. ~failed /\ ~UnderWay
    BY <1>1 DEF UnderWay
  <2>2. Codes(store.token) = Codes(store.perms)
    BY <2>1 DEF SessionInv, Synced
  <2> QED BY <1>1, <2>2 DEF Codes
<1>6. failed' \in BOOLEAN
  BY <1>1
<1> QED BY <1>1, <1>2, <1>3, <1>4, <1>5, <1>6, PartsKept DEF SessionInv

LEMMA SignOutSession == ASSUME SessionInv, SignOut PROVE SessionInv'
<1>1. Cleared(refreshes) /\ UNCHANGED <<hist, version, owing, events>> /\ login' = login /\ visit' = visit
      /\ AllOK(refreshes)
  BY DEF SignOut, SessionInv, serverVars
<1>2. StoreOK' /\ PermOK' /\ AllOK(refreshes)' /\ Synced' /\ mixed' \in BOOLEAN
      /\ failed' \in BOOLEAN
  BY <1>1, ClearedOK
<1> QED BY <1>1, <1>2, PartsKept DEF SessionInv

\* What admits to a page was granted at the commit of the token's list or later.
LEMMA AdmittedGranted ==
  ASSUME SessionInv, store.token # None, NEW p \in RoutedPages, p # "dashboard", Admitted(p)
  PROVE  Granted(store.token, p)
<1>1. ASSUME NEW g, Follows(g), RoutePermission[p] \in Codes(g)
      PROVE  Granted(store.token, p)
  <2>1. /\ g \in GrantIds /\ g # None /\ g.rev <= Len(hist[g.user]) /\ g.user = store.token.user
        /\ g.rev >= store.token.rev /\ store.token \in TokenIds
    BY <1>1, IssuedReal, QueryHasToken DEF Follows, Issued
  <2>2. g.rev \in Nat /\ store.token.rev \in Nat /\ Len(hist[g.user]) \in Nat
    BY <2>1 DEF GrantIds, TokenIds, SessionInv, HistOK
  <2>3. g.rev \in store.token.rev..Len(hist[store.token.user])
    BY <2>1, <2>2
  <2>4. RoutePermission[p] \in hist[store.token.user][g.rev]
    BY <1>1, <2>1 DEF Codes
  <2> QED BY <2>3, <2>4 DEF Granted
<1>2. CASE RoutePermission[p] \in Codes(perm.data)
  <2>1. Follows(perm.data)
    BY <1>2 DEF Codes, SessionInv, PermOK
  <2> QED BY <1>1, <1>2, <2>1
<1>3. CASE RoutePermission[p] \in Codes(store.perms)
  <2>1. Follows(store.perms)
    BY DEF SessionInv, StoreOK
  <2> QED BY <1>1, <1>3, <2>1
<1> QED BY <1>2, <1>3 DEF Admitted

\* A page is opened.
LEMMA VisitSession ==
  ASSUME SessionInv, NEW p \in Visited, Visit(p)
  PROVE  SessionInv'
<1>1. /\ Shown /\ Admitted(p) /\ visit' = [st |-> "asked", page |-> p, token |-> store.token]
      /\ UNCHANGED <<hist, version, owing, store, login, mixed, failed, events>>
  BY DEF Visit, serverVars
<1>2. store.token # None /\ perm # NoQuery /\ StoreOK /\ AllOK(refreshes)
  BY <1>1 DEF Shown, SessionInv
<1>3. VisitOK'
  <2>1. p \in RoutedPages /\ store.token \in TokenIds /\ IssuedToken(store.token)
    BY <1>2 DEF StoreOK, IssuedToken
  <2>2. /\ visit' \in [st : {"asked", "passed", "200", "401", "403"}, page : RoutedPages,
                      token : TokenIds]
        /\ visit'.st = "asked" /\ visit'.page = p /\ visit'.token = store.token
    BY <1>1, <2>1
  <2>3. p # "dashboard" => Granted(store.token, p)
    BY <1>1, <1>2, <2>1, AdmittedGranted
  <2> QED BY <1>1, <2>1, <2>2, <2>3 DEF VisitOK, IssuedToken, Accounted, Granted
<1> DEFINE os == Orphaned(refreshes, Below)
<1>4. AllOK(os) /\ \A i \in 1..MaxRefreshes : os[i] = Free <=> refreshes[i] = Free
  BY <1>2, OrphanedOK
<1> HIDE DEF os
<1>5. CASE perm.error = "no"
  <2>1. refreshes' = os /\ perm' = perm
    BY <1>5 DEF Visit, os
  <2> QED BY <1>1, <1>3, <1>4, <2>1, AllKept, PartsKept DEF SessionInv
<1>6. CASE perm.error # "no"
  <2>1. Start(os, Below, "error")
        /\ perm' = [perm EXCEPT !.fetch = IF perm.fetch = "idle" THEN "asked" ELSE perm.fetch]
    BY <1>6 DEF Visit, os
  <2>2. AllOK(refreshes') /\ \A i \in 1..MaxRefreshes : refreshes[i] # Free => refreshes'[i] # Free
    BY <1>2, <1>4, <2>1, StartOK DEF Hooks
  <2>3. /\ perm' \in [fetch : {"idle", "asked", "answered"}, answer : GrantIds \cup {None},
                      data : GrantIds \cup {None}, error : {"no", "401", "api"}]
        /\ perm'.fetch = "answered" => perm.fetch = "answered"
        /\ perm'.data = perm.data /\ perm'.answer = perm.answer
    BY <2>1 DEF SessionInv, PermOK
  <2>4. perm'.fetch = "answered" => Follows(perm'.answer)
    BY <2>3 DEF SessionInv, PermOK
  <2> QED BY <1>1, <1>2, <1>3, <2>2, <2>3, <2>4, QuerySession
<1> QED BY <1>5, <1>6

\* The checks leave all but the status of the visit as it is.
LEMMA CheckedSession ==
  ASSUME SessionInv, visit # Free, NEW st \in {"passed", "200", "401", "403"},
         visit.st \in {"asked", "passed"}, visit' = [visit EXCEPT !.st = st],
         st = "passed" => GatewayPermission[visit.page] \in Codes(visit.token),
         UNCHANGED <<hist, version, owing, store, perm, refreshes, login, mixed, failed>>
  PROVE  SessionInv'
<1>1. /\ visit' \in [st : {"asked", "passed", "200", "401", "403"}, page : RoutedPages,
                    token : TokenIds]
      /\ visit'.st = st /\ visit'.page = visit.page /\ visit'.token = visit.token
  BY DEF SessionInv, VisitOK
<1>2. IssuedToken(visit.token)'
  BY <1>1 DEF SessionInv, VisitOK, IssuedToken, Accounted
<1>4. VisitOK'
  BY <1>1, <1>2 DEF SessionInv, VisitOK, Granted, Codes
<1>5. AllOK(refreshes)'
  BY AllKept DEF SessionInv
<1> QED BY <1>4, <1>5, PartsKept DEF SessionInv

LEMMA GatewaySession == ASSUME SessionInv, GatewayCheck PROVE SessionInv'
<1> DEFINE t  == visit.token
           st == IF t.ver < version[t.user] THEN "401"
                 ELSE IF GatewayPermission[visit.page] \notin Codes(t) THEN "403" ELSE "passed"
<1>1. /\ visit.st = "asked" /\ visit' = [visit EXCEPT !.st = st]
      /\ UNCHANGED <<hist, version, owing, store, perm, refreshes, login, mixed, failed>>
  BY DEF GatewayCheck, serverVars
<1>2. visit # Free
  BY <1>1 DEF Free
<1>3. st \in {"passed", "200", "401", "403"}
      /\ (st = "passed" => GatewayPermission[visit.page] \in Codes(visit.token))
  OBVIOUS
<1> HIDE DEF st
<1> QED BY <1>1, <1>2, <1>3, CheckedSession

LEMMA ServiceSession == ASSUME SessionInv, ServiceCheck PROVE SessionInv'
<1>1. /\ visit.st = "passed"
      /\ visit' = [visit EXCEPT !.st = "403"] \/ visit' = [visit EXCEPT !.st = "200"]
      /\ UNCHANGED <<hist, version, owing, store, perm, refreshes, login, mixed, failed>>
  BY DEF ServiceCheck, serverVars
<1>2. visit # Free
  BY <1>1 DEF Free
<1> QED BY <1>1, <1>2, CheckedSession

LEMMA VisitHearSession == ASSUME SessionInv, VisitHear PROVE SessionInv'
<1>1. visit' = Free /\ UNCHANGED <<hist, version, owing, login, events>> /\ AllOK(refreshes)
  BY DEF VisitHear, SessionInv, serverVars
<1>2. VisitOK'
  BY <1>1 DEF VisitOK
<1>3. CASE visit.st = "200"
  <2>1. UNCHANGED <<store, perm, refreshes, mixed, failed>>
    BY <1>3 DEF VisitHear
  <2> QED BY <1>1, <1>2, <2>1, AllKept, PartsKept DEF SessionInv
<1>4. CASE visit.st # "200"
  <2>1. Cleared(refreshes)
    BY <1>4 DEF VisitHear
  <2>2. StoreOK' /\ PermOK' /\ AllOK(refreshes)' /\ Synced' /\ mixed' \in BOOLEAN
        /\ failed' \in BOOLEAN
    BY <1>1, <2>1, ClearedOK
  <2> QED BY <1>1, <1>2, <2>2, PartsKept DEF SessionInv
<1> QED BY <1>3, <1>4

-----------------------------------------------------------------------------
(* Theorems                                                                 *)

LEMMA SessionFirst == SessionInit => SessionInv
<1> SUFFICES ASSUME SessionInit PROVE SessionInv
  OBVIOUS
<1>1. /\ hist \in [SessionUsers -> {<<g>> : g \in FirstGrants}]
      /\ version = [u \in SessionUsers |-> 1] /\ owing = [u \in SessionUsers |-> {}]
      /\ store = SignedOut /\ perm = NoQuery /\ refreshes = [i \in 1..MaxRefreshes |-> Free]
      /\ login = Free /\ visit = Free /\ mixed = FALSE /\ failed = FALSE
  BY DEF SessionInit
<1>2. HistOK
  <2>1. ASSUME NEW s \in {<<g>> : g \in FirstGrants} PROVE s \in Seq(Grants) /\ Len(s) > 0
    <3>1. PICK g \in Grants : s = <<g>>
      OBVIOUS
    <3> QED BY <3>1
  <2>2. hist \in [SessionUsers -> Seq(Grants)]
    BY <1>1, <2>1
  <2>3. \A u \in SessionUsers : Len(hist[u]) > 0
    BY <1>1, <2>1
  <2> QED BY <1>1, <2>2, <2>3 DEF HistOK
<1>3. StoreOK /\ PermOK /\ Synced
  BY <1>1, EmptyRecords DEF StoreOK, PermOK, Synced
<1>4. AllOK(refreshes) /\ LoginOK /\ VisitOK
  BY <1>1 DEF AllOK, RefreshOK, LoginOK, VisitOK
<1> QED BY <1>1, <1>2, <1>3, <1>4 DEF SessionInv

\* The parts of the invariant hold in every state of every behaviour.
LEMMA SessionInvariant == SessionSpec => []SessionInv
<1>1. ASSUME SessionInv, [SessionNext]_sessionVars PROVE SessionInv'
  <2>1. CASE UNCHANGED sessionVars
    <3>1. UNCHANGED <<hist, version, owing, store, perm, refreshes, login, visit, mixed, failed>>
      BY <2>1 DEF sessionVars
    <3>2. AllOK(refreshes)'
      BY <1>1, <3>1, AllKept DEF SessionInv
    <3> QED BY <1>1, <3>1, <3>2, PartsKept DEF SessionInv
  <2>2. ASSUME NEW u \in Changed, NEW s \in Grants, Grant(u, s) PROVE SessionInv'
    BY <1>1, <2>2, GrantSession
  <2>11. ASSUME NEW u \in Changed, NEW n \in owing[u], Bump(u, n) PROVE SessionInv'
    <3>1. u \in SessionUsers
      OBVIOUS
    <3> QED BY <1>1, <2>11, <3>1, BumpSession
  <2>3. ASSUME NEW e \in {"401", "api", "net"}, PermError(e) PROVE SessionInv'
    BY <1>1, <2>3, PermErrorSession
  <2>4. CASE PermAnswer \/ PermData \/ Redirect \/ SessionRefocus
    BY <1>1, <2>4, PermAnswerSession, PermDataSession, RedirectSession, RefocusSession
  <2>5. ASSUME NEW i \in 1..MaxRefreshes,
               RefreshRead(i) \/ RefreshSign(i) \/ RefreshLand(i) \/ RefreshFail(i)
        PROVE  SessionInv'
    BY <1>1, <2>5, RefreshReadSession, RefreshSignSession, RefreshLandSession,
       RefreshFailSession
  <2>6. ASSUME NEW u \in SessionUsers, LoginAsk(u) \/ Reload(TRUE, u) PROVE SessionInv'
    BY <1>1, <2>6, LoginAskSession, ReloadSession
  <2>7. CASE LoginRead \/ LoginSign \/ LoginLand \/ LoginFail \/ SignOut
    BY <1>1, <2>7, LoginReadSession, LoginSignSession, LoginLandSession, LoginFailSession,
       SignOutSession
  <2>8. CASE Reload(FALSE, None)
    BY <1>1, <2>8, ReloadSession
  <2>9. ASSUME NEW p \in Visited, Visit(p) PROVE SessionInv'
    BY <1>1, <2>9, VisitSession
  <2>10. CASE GatewayCheck \/ ServiceCheck \/ VisitHear
    BY <1>1, <2>10, GatewaySession, ServiceSession, VisitHearSession
  <2> QED BY <1>1, <2>1, <2>2, <2>3, <2>4, <2>5, <2>6, <2>7, <2>8, <2>9, <2>10, <2>11
       DEF SessionNext
<1> QED BY <1>1, SessionFirst, PTL DEF SessionSpec

\* Whatever the order in which logins, sign-outs, refreshes and queries end, the stored token,
\* user and permissions are of one user, unless a refresh of an earlier session has landed
\* (stores/auth.ts, updateSessionToken).
THEOREM PermissionsOwn == SessionSpec => []PermissionsAreOwn
<1>1. SessionInv => PermissionsAreOwn
  BY DEF SessionInv, StoreOK, Follows, PermissionsAreOwn
<1> QED BY <1>1, SessionInvariant, PTL

\* However many hooks refresh at once, when all is quiet the token carries the permissions
\* the client goes by, unless the last refresh failed (hooks/usePermissionsSync.ts).
THEOREM SettledTokensMatch == SessionSpec => []SettledTokenMatches
<1>1. SessionInv => SettledTokenMatches
  BY DEF SessionInv, Synced, UnderWay, Quiet, SettledTokenMatches
<1> QED BY <1>1, SessionInvariant, PTL

\* A visit is refused for want of a permission by one of the two checks.
LEMMA RefusedByCheck ==
  ASSUME SessionNext, visit.st # "free", visit.st # "403", visit'.st = "403"
  PROVE  GatewayCheck \/ ServiceCheck
<1>1. ASSUME visit' = visit PROVE FALSE
  BY <1>1
<1>2. ASSUME visit' = Free PROVE FALSE
  BY <1>2 DEF Free
<1>3. ASSUME NEW u, NEW g, Grant(u, g) PROVE FALSE
  BY <1>1, <1>3 DEF Grant, clientVars
<1>4. ASSUME NEW u, NEW n, Bump(u, n) PROVE FALSE
  BY <1>1, <1>4 DEF Bump, clientVars
<1>5. CASE PermAnswer \/ PermData \/ Redirect \/ SessionRefocus
  BY <1>1, <1>5 DEF PermAnswer, PermData, Redirect, SessionRefocus
<1>6. ASSUME NEW e, PermError(e) PROVE FALSE
  BY <1>1, <1>6 DEF PermError
<1>7. ASSUME NEW i, RefreshRead(i) \/ RefreshSign(i) \/ RefreshLand(i) \/ RefreshFail(i) PROVE FALSE
  BY <1>1, <1>7 DEF RefreshRead, RefreshSign, RefreshLand, RefreshFail
<1>8. ASSUME NEW u, LoginAsk(u) PROVE FALSE
  BY <1>1, <1>8 DEF LoginAsk
<1>9. CASE LoginRead \/ LoginSign \/ LoginLand \/ LoginFail \/ SignOut
  BY <1>1, <1>9 DEF LoginRead, LoginSign, LoginLand, LoginFail, SignOut
<1>10. ASSUME NEW b, NEW u, Reload(b, u) PROVE FALSE
  BY <1>2, <1>10 DEF Reload
<1>11. ASSUME NEW p, Visit(p) PROVE FALSE
  BY <1>11 DEF Visit, Free
<1>12. CASE VisitHear
  BY <1>2, <1>12 DEF VisitHear
<1> QED BY <1>3, <1>4, <1>5, <1>6, <1>7, <1>8, <1>9, <1>10, <1>11, <1>12 DEF SessionNext

\* An admitted page is refused for want of a permission only on account of a commit that the
\* version has not counted against the token of the request (App.tsx, RequirePermission;
\* gateway/src/routing/rbac.rs; user-service service.go, SetRolePermissions).
THEOREM RefusalsExplained == SessionSpec => OnlyMissedChangesForbid
<1> DEFINE t    == visit.token
           code == RoutePermission[visit.page]
           last == Len(hist[t.user])
           Explained ==
             visit.st # "free" /\ visit'.st = "403" /\ visit.st # "403" /\ visit.page # "dashboard" =>
               \/ visit.st = "asked"  /\ \E n \in Missed(t) : code \in hist[t.user][n]
               \/ visit.st = "passed" /\ (last \in Missed(t) \/ version[t.user] > t.ver)
<1>1. ASSUME SessionInv, SessionNext, visit.st # "free", visit'.st = "403", visit.st # "403",
             visit.page # "dashboard"
      PROVE  \/ visit.st = "asked"  /\ \E n \in Missed(t) : code \in hist[t.user][n]
             \/ visit.st = "passed" /\ (last \in Missed(t) \/ version[t.user] > t.ver)
  <2>1. GatewayCheck \/ ServiceCheck
    BY <1>1, RefusedByCheck
  <2>2. visit # Free
    BY <1>1 DEF Free
  <2>3. /\ visit.page \in RoutedPages /\ IssuedToken(t) /\ t # None /\ t.user \in SessionUsers
        /\ t.rev \in Nat \ {0} /\ t.ver \in Nat
    BY <1>1, <2>2, IssuedReal DEF SessionInv, VisitOK, TokenIds
  <2>4. last \in Nat /\ version[t.user] \in Nat /\ t.rev <= last
    BY <1>1, <2>3 DEF SessionInv, HistOK, IssuedToken
  <2>5. GatewayPermission[visit.page] = code
    BY <1>1, <2>3 DEF GatewayPermission, RoutePermission, RoutedPages
  <2>6. ASSUME NEW n \in t.rev + 1 .. last, ~(t.ver < version[t.user]) PROVE n \in Missed(t)
    BY <2>3, <2>6 DEF IssuedToken, Accounted, Missed
  <2>7. CASE GatewayCheck
    <3>1. visit.st = "asked" /\ ~(t.ver < version[t.user]) /\ code \notin hist[t.user][t.rev]
      BY <1>1, <2>2, <2>3, <2>5, <2>7 DEF GatewayCheck, Codes, SessionInv, VisitOK
    <3>2. PICK n \in t.rev .. last : code \in hist[t.user][n]
      BY <1>1, <2>2, <3>1 DEF SessionInv, VisitOK, Granted
    <3>3. n \in t.rev + 1 .. last
      BY <2>3, <2>4, <3>1, <3>2
    <3> QED BY <2>6, <3>1, <3>2, <3>3
  <2>8. CASE ServiceCheck
    <3>1. visit.st = "passed" /\ code \notin Codes(Now(t.user))
      BY <1>1, <2>2, <2>5, <2>8 DEF ServiceCheck, SessionInv, VisitOK
    <3>2. code \notin hist[t.user][last]
      <4>1. Now(t.user) # None /\ Now(t.user).user = t.user /\ Now(t.user).rev = last
        BY <1>1, <2>3, NowIssued DEF SessionInv, Now
      <4> QED BY <3>1, <4>1 DEF Codes
    <3>3. code \in hist[t.user][t.rev]
      BY <1>1, <2>2, <2>3, <2>5, <3>1 DEF SessionInv, VisitOK, Codes
    <3>4. last \in t.rev + 1 .. last
      <4>1. t.rev # last
        BY <3>2, <3>3
      <4> QED BY <2>3, <2>4, <4>1
    <3> QED BY <2>3, <2>4, <2>6, <3>1, <3>4
  <2> QED BY <2>1, <2>7, <2>8
<1>2. SessionInv /\ [SessionNext]_sessionVars => [Explained]_sessionVars
  BY <1>1
<1> QED BY <1>2, SessionInvariant, PTL DEF SessionSpec, OnlyMissedChangesForbid
=============================================================================
