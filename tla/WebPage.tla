------------------------------- MODULE WebPage -------------------------------
(***************************************************************************)
(* One page of the web client that lists rows of a service and changes     *)
(* them: users, tenants, roles, workflows, search, notifications or files. *)
(* The state is the React state of the page (the form dialog, the detail   *)
(* dialog, the mutations under way), its list (ListQuery), and the rows in *)
(* the service, which other users change as well.                          *)
(*                                                                         *)
(* The value of a column is the number of the change that wrote it, or the *)
(* row itself for a value from before.                                     *)
(***************************************************************************)
EXTENDS ListQuery, FiniteSets

CONSTANTS
  Rows,         \* identifiers of rows, of those to come too
  Columns,      \* the columns the form of the page edits
  Password,     \* the field of the form of a user that is no column of the list
  NoRow,        \* no such row in the service yet
  Gone,         \* the row has been deleted; its identifier is not given again
  Nobody,       \* a field nobody has typed in
  New,          \* the row the create dialog is about
  Blank,        \* the content of a cleared field
  MaxReqs,      \* bound, by page: changes the page asks for
  MaxOthers     \* bound, by page: others make a change while there are fewer than this

Pages == {"users", "tenants", "roles", "workflows", "search", "notifications", "files"}

\* draft or changes requested, pending, and decided, of a workflow; a notification that has
\* been read is closed.
Stages == {"open", "pending", "closed"}
Row    == [cols : [Columns -> Rows \cup Nat], stage : Stages]

ASSUME RowsAssumption ==
  /\ Rows \cap Nat = {} /\ Columns \cap {Password} = {}
  /\ Rows \cap {NoRow, Gone, Nobody, New, Blank} = {} /\ Nobody # New
  /\ NoRow \notin Row /\ Gone \notin Row /\ NoRow # Gone /\ Blank \notin Nat
  /\ MaxReqs \in [Pages -> Nat] /\ MaxOthers \in [Pages -> Nat]

VARIABLES
  page,         \* which page it is
  server,       \* the rows in the service
  wrote,        \* the change that last gave each column another value
  changes,      \* the number of changes the service has made
  dialog,       \* the form dialog: its fields survive its closing
  detail,       \* the dialog on one row: `selected' and its comment, or `deleteTarget'
  reqs,         \* the mutations under way
  owed,         \* history: the last change this visit of the page has been told of
  early         \* history: the list is that of the first fetch, which the service had
                \* answered by the time the page was told of a change

told     == <<owed, early>>
pageVars == <<page, server, wrote, changes, dialog, detail, reqs, told>>

Fields  == Columns \cup {Password}

\* The stages its rows begin in.
PageStages == CASE page = "workflows"     -> {"open", "pending"}
                [] page = "notifications" -> {"open", "closed"}
                [] OTHER                  -> {"open"}

Slots    == 1..MaxReqs[page]
Snapshot == [rows |-> server, at |-> changes]

Blanks  == [c \in Columns |-> Blank]
Untyped == [f \in Fields |-> Nobody]

CleanDialog == [shown |-> FALSE, row |-> New, form |-> Blanks, typed |-> Untyped,
                at |-> 0, blind |-> FALSE]
CleanDetail == [shown |-> FALSE, row |-> NoRow, stage |-> "open", comment |-> Nobody]
Unused      == [st |-> "unused"]

PageInit ==
  /\ QueryInit
  /\ page \in Pages
  /\ \E known \in SUBSET Rows, stage \in [Rows -> PageStages] :
       /\ page = "roles" => known = Rows
       /\ server = [r \in Rows |-> IF r \in known
                       THEN [cols |-> [c \in Columns |-> r], stage |-> stage[r]] ELSE NoRow]
  /\ changes = 0 /\ owed = 0 /\ early = FALSE /\ wrote = [r \in Rows |-> [c \in Columns |-> 0]]
  /\ dialog = CleanDialog /\ detail = CleanDetail
  /\ reqs = [i \in Slots |-> Unused]
-----------------------------------------------------------------------------
(* What all pages have.                                                     *)

Present(rows) == {r \in Rows : rows[r] \notin {NoRow, Gone}}

\* The rows of the table, with and without an error.
Loaded == IF shown = NoData THEN {} ELSE Present(shown.rows)
Listed == IF broken THEN {} ELSE Loaded

\* A dialog covers the page.
Clear == open /\ ~dialog.shown /\ ~detail.shown

\* isPending of the mutation of this visit.
Pending(kind) == \E i \in Slots :
  reqs[i].st \in {"sent", "done"} /\ reqs[i].kind = kind /\ reqs[i].mine

Request(kind, row) ==
  [st |-> "sent", kind |-> kind, row |-> row, form |-> Blanks, typed |-> Untyped,
   comment |-> Nobody, at |-> 0, blind |-> FALSE, mine |-> TRUE, pos |-> 0]

\* mutate: the button is disabled while the last one is pending.
Mutate(q) ==
  /\ open /\ ~Pending(q.kind)
  /\ \E i \in Slots :
       /\ reqs[i] = Unused /\ \A j \in 1..i - 1 : reqs[j] # Unused
       /\ reqs' = [reqs EXCEPT ![i] = q]
  /\ UNCHANGED <<query, page, server, wrote, changes, dialog, detail, told>>

\* For comparison: a form that does not set a column, and one that keeps the password.
MissedForm(r) == [shown.rows[r].cols EXCEPT ![CHOOSE c \in Columns : TRUE] = Blank]
KeptTyped     == [Untyped EXCEPT ![Password] = dialog.typed[Password]]

\* Every field is set anew, from the row of the list.
RowForm(r) == shown.rows[r].cols
StartTyped == Untyped

Open(row, form, at, blind) ==
  /\ Clear
  /\ dialog' = [shown |-> TRUE, row |-> row, form |-> form, typed |-> StartTyped,
                at |-> at, blind |-> blind]
  /\ UNCHANGED <<query, page, server, wrote, changes, detail, reqs, told>>
OpenEmpty   == Open(New, Blanks, 0, FALSE)
OpenRow(r)  == Open(r, RowForm(r), shown.at, FALSE)

Fill(f, by) ==
  /\ open /\ dialog.shown /\ dialog.typed[f] # by
  /\ dialog' = [dialog EXCEPT !.typed[f] = by]
  /\ UNCHANGED <<query, page, server, wrote, changes, detail, reqs, told>>

\* The submit button: the whole form goes out.
Submit ==
  /\ dialog.shown
  /\ dialog.row = New => \E c \in Columns : dialog.typed[c] # Nobody     \* required
  /\ Mutate([Request("save", dialog.row) EXCEPT !.form = dialog.form, !.typed = dialog.typed,
               !.at = dialog.at, !.blind = dialog.blind])

\* A closed dialog keeps what was typed; what else it keeps is set anew before it counts.
Closed == [CleanDialog EXCEPT !.typed = dialog.typed]

\* Cancel, or a click beside the dialog.
CloseDialogs ==
  /\ open /\ (dialog.shown \/ detail.shown)
  /\ dialog' = Closed /\ detail' = CleanDetail
  /\ UNCHANGED <<query, page, server, wrote, changes, reqs, told>>

\* onSuccess begins with the invalidation of the list, in every mutation.
Forgotten == UNCHANGED query     \* for comparison: it does not
Refetch   == Invalidate

\* A first fetch is joined, not replaced: its answer may have been read before the change.
Hear(mine, pos) ==
  /\ Refetch
  /\ owed'  = IF mine /\ pos > owed THEN pos ELSE owed
  /\ early' = (fetch = "answered" /\ shown = NoData /\ (early \/ mine))

Told(i, kinds) ==
  /\ reqs[i].st = "done" /\ reqs[i].kind \in kinds /\ Hear(reqs[i].mine, reqs[i].pos)
  /\ reqs' = [reqs EXCEPT ![i] = [st |-> "over"]]
  /\ UNCHANGED <<page, server, wrote, changes>>

\* The success of a save closes whatever dialog is open now, of whatever row.
Saved(i, after) ==
  /\ Told(i, {"save"})
  /\ dialog' = IF reqs[i].mine THEN after ELSE dialog
  /\ UNCHANGED detail

Deleted(i) ==
  /\ Told(i, {"delete"})
  /\ detail' = IF reqs[i].mine THEN CleanDetail ELSE detail
  /\ UNCHANGED dialog

\* Refused, or the answer is lost: the page only says that it failed.
Fail(i) ==
  /\ reqs[i].st \in {"sent", "done"}
  /\ reqs' = [reqs EXCEPT ![i] = [st |-> "over"]]
  /\ UNCHANGED <<query, page, server, wrote, changes, dialog, detail, told>>
-----------------------------------------------------------------------------
(* Users.  The table stays under the message of an error.                   *)

UsersCreate     == page = "users" /\ OpenEmpty
UsersEdit(r)    == page = "users" /\ r \in Loaded /\ OpenRow(r)
UsersType(f)    == page = "users" /\ Fill(f, dialog.row)
\* The password is required of a new user, and sent only when it is not empty.
UsersSave       == page = "users" /\ (dialog.row = New => dialog.typed[Password] # Nobody) /\ Submit
UsersSaved(i)   == page = "users" /\ Saved(i, Closed)
UsersDelete(r)  == page = "users" /\ Clear /\ r \in Loaded /\ Mutate(Request("delete", r))
UsersDeleted(i) == page = "users" /\ Deleted(i)

Users ==
  \/ UsersCreate \/ UsersSave \/ (\E f \in Fields : UsersType(f))
  \/ (\E r \in Rows : UsersEdit(r) \/ UsersDelete(r))
  \/ (\E i \in Slots : UsersSaved(i) \/ UsersDeleted(i))
-----------------------------------------------------------------------------
(* Tenants.                                                                 *)

TenantsCreate   == page = "tenants" /\ OpenEmpty
TenantsEdit(r)  == page = "tenants" /\ r \in Listed /\ OpenRow(r)
TenantsType(c)  == page = "tenants" /\ Fill(c, dialog.row)
TenantsSave     == page = "tenants" /\ Submit
TenantsSaved(i) == page = "tenants" /\ Saved(i, Closed)

Tenants ==
  \/ TenantsCreate \/ TenantsSave \/ (\E c \in Columns : TenantsType(c))
  \/ (\E r \in Rows : TenantsEdit(r)) \/ (\E i \in Slots : TenantsSaved(i))
-----------------------------------------------------------------------------
(* Roles.  The rows come from a list of their own, a column is a box, and a *)
(* role whose bindings are not fetched has no box ticked.                   *)

RolesEdit(r) ==
  /\ page = "roles"
  /\ IF shown = NoData THEN Open(r, Blanks, 0, TRUE) ELSE OpenRow(r)
\* A box clicked twice is as it was.
RolesToggle(c) ==
  /\ page = "roles" /\ Fill(c, IF dialog.typed[c] = Nobody THEN dialog.row ELSE Nobody)
RolesSave     == page = "roles" /\ Submit
RolesSaved(i) == page = "roles" /\ Saved(i, Closed)

Roles ==
  \/ (\E r \in Rows : RolesEdit(r)) \/ (\E c \in Columns : RolesToggle(c))
  \/ RolesSave \/ (\E i \in Slots : RolesSaved(i))
-----------------------------------------------------------------------------
(* Workflows.  The buttons of a row go by the list, those of the detail     *)
(* dialog by the row as it was when the dialog was opened.                  *)

WorkflowsCreate == page = "workflows" /\ OpenEmpty
WorkflowsEdit(r) ==
  page = "workflows" /\ r \in Listed /\ shown.rows[r].stage = "open" /\ OpenRow(r)
WorkflowsType(c)  == page = "workflows" /\ Fill(c, dialog.row)
WorkflowsSave     == page = "workflows" /\ Submit
WorkflowsSaved(i) == page = "workflows" /\ Saved(i, Closed)

View(r) ==
  /\ Clear /\ r \in Listed
  /\ detail' = [shown |-> TRUE, row |-> r, stage |-> shown.rows[r].stage, comment |-> Nobody]
  /\ UNCHANGED <<query, page, server, wrote, changes, dialog, reqs, told>>
WorkflowsView(r) == page = "workflows" /\ View(r)

WorkflowsComment ==
  /\ open /\ detail.shown /\ detail.stage = "pending" /\ detail.comment # detail.row
  /\ detail' = [detail EXCEPT !.comment = detail.row]
  /\ UNCHANGED <<query, page, server, wrote, changes, dialog, reqs, told>>

Judge(kind) ==
  /\ page = "workflows" /\ detail.shown /\ detail.stage = "pending"
  /\ Mutate([Request(kind, detail.row) EXCEPT !.comment = detail.comment])

WorkflowsSubmit ==
  page = "workflows" /\ detail.shown /\ detail.stage = "open" /\ Mutate(Request("submit", detail.row))
WorkflowsApprove == Judge("approve")
WorkflowsReject  == detail.comment # Nobody /\ Judge("reject")
WorkflowsChanges == detail.comment # Nobody /\ Judge("changes")
WorkflowsDelete ==
  /\ page = "workflows" /\ detail.shown /\ detail.stage # "pending"
  /\ Mutate(Request("delete", detail.row))

\* The success of a verdict clears the comment, the one typed for another row since too.
WorkflowsSubmitted(i) == Told(i, {"submit"}) /\ UNCHANGED <<dialog, detail>>
WorkflowsJudged(i) ==
  /\ Told(i, {"approve", "reject", "changes"})
  /\ detail' = IF reqs[i].mine THEN [detail EXCEPT !.comment = Nobody] ELSE detail
  /\ UNCHANGED dialog
WorkflowsDeleted(i) == page = "workflows" /\ Deleted(i)

Workflows ==
  \/ WorkflowsCreate \/ WorkflowsSave \/ (\E c \in Columns : WorkflowsType(c))
  \/ (\E r \in Rows : WorkflowsEdit(r) \/ WorkflowsView(r))
  \/ WorkflowsComment \/ WorkflowsSubmit
  \/ WorkflowsApprove \/ WorkflowsReject \/ WorkflowsChanges \/ WorkflowsDelete
  \/ (\E i \in Slots : \/ WorkflowsSaved(i) \/ WorkflowsSubmitted(i)
                       \/ WorkflowsJudged(i) \/ WorkflowsDeleted(i))
-----------------------------------------------------------------------------
(* Search, notifications, files.                                            *)

SearchCreate     == page = "search" /\ OpenEmpty
SearchType(c)    == page = "search" /\ Fill(c, New)
SearchSave       == page = "search" /\ Submit
SearchSaved(i)   == page = "search" /\ Saved(i, CleanDialog)
SearchDelete(r)  == page = "search" /\ Clear /\ r \in Listed /\ Mutate(Request("delete", r))
SearchDeleted(i) == page = "search" /\ Deleted(i)

Search ==
  \/ SearchCreate \/ SearchSave \/ (\E c \in Columns : SearchType(c))
  \/ (\E r \in Rows : SearchDelete(r)) \/ (\E i \in Slots : SearchSaved(i) \/ SearchDeleted(i))

NotificationsCreate   == page = "notifications" /\ OpenEmpty
NotificationsType(c)  == page = "notifications" /\ Fill(c, New)
NotificationsSave     == page = "notifications" /\ Submit
NotificationsSaved(i) == page = "notifications" /\ Saved(i, CleanDialog)
NotificationsMark(r) ==
  /\ page = "notifications" /\ Clear /\ r \in Listed /\ shown.rows[r].stage # "closed"
  /\ Mutate(Request("read", r))
NotificationsMarked(i) == Told(i, {"read"}) /\ UNCHANGED <<dialog, detail>>

Notifications ==
  \/ NotificationsCreate \/ NotificationsSave \/ (\E c \in Columns : NotificationsType(c))
  \/ (\E r \in Rows : NotificationsMark(r))
  \/ (\E i \in Slots : NotificationsSaved(i) \/ NotificationsMarked(i))

\* The detail dialog of a file is the one that asks before the deletion.
FilesAsk(r)     == page = "files" /\ ~Pending("delete") /\ View(r)
FilesDelete     == page = "files" /\ detail.shown /\ Mutate(Request("delete", detail.row))
FilesDeleted(i) == page = "files" /\ Deleted(i)

Files ==
  \/ (\E r \in Rows : FilesAsk(r)) \/ FilesDelete \/ (\E i \in Slots : FilesDeleted(i))
-----------------------------------------------------------------------------
(* The service.                                                             *)

Written(q) == [c \in Columns |->
  IF q.typed[c] = Nobody /\ q.form[c] # Blank THEN q.form[c] ELSE changes + 1]

\* The service makes a change.
Change(rows) ==
  /\ server' = rows /\ changes' = changes + 1
  /\ wrote' = [r \in Rows |-> [c \in Columns |->
       IF r \in Present(server) \cap Present(rows) /\ rows[r].cols[c] # server[r].cols[c]
       THEN changes + 1 ELSE wrote[r][c]]]

\* A new row.
Fresh(r) == [cols |-> [c \in Columns |-> r], stage |-> "open"]

\* The rows a request can lead to; none when the service refuses it.
Effects(q) ==
  LET row == server[q.row]
      To(from, to) == IF row.stage # from THEN {}
                      ELSE {[server EXCEPT ![q.row].stage = to]}
  IN  CASE q.row = New ->
             {[server EXCEPT ![r] = Fresh(r)] : r \in {r \in Rows : server[r] = NoRow}}
        [] q.row # New /\ row = Gone -> {}
        [] q.row # New /\ row # Gone ->
             CASE q.kind = "save" ->
                    IF page = "workflows" /\ row.stage # "open" THEN {}
                    ELSE {[server EXCEPT ![q.row].cols = Written(q)]}
               [] q.kind = "delete" ->
                    IF page = "workflows" /\ row.stage = "pending" THEN {}
                    ELSE {[server EXCEPT ![q.row] = Gone]}
               [] q.kind = "submit"  -> To("open", "pending")
               [] q.kind = "changes" -> To("pending", "open")
               [] q.kind \in {"approve", "reject"} -> To("pending", "closed")
               [] q.kind = "read" -> {[server EXCEPT ![q.row].stage = "closed"]}

Perform(i) ==
  /\ reqs[i].st = "sent"
  /\ \E rows \in Effects(reqs[i]) : Change(rows)
  /\ reqs' = [reqs EXCEPT ![i].st = "done", ![i].pos = changes + 1]
  /\ UNCHANGED <<query, page, dialog, detail, told>>

\* Somebody else writes a column, moves a workflow or deletes a row.
Others ==
  /\ changes < MaxOthers[page]
  /\ \E r \in Present(server) :
       \/ page \in {"users", "tenants", "roles", "workflows"} /\ \E c \in Columns : Change([server EXCEPT ![r].cols[c] = changes + 1])
       \/ page = "workflows" /\ \E s \in Stages \ {server[r].stage} :
            Change([server EXCEPT ![r].stage = s])
       \/ page \notin {"tenants", "roles", "notifications"} /\ Change([server EXCEPT ![r] = Gone])
  /\ UNCHANGED <<query, page, dialog, detail, reqs, told>>
-----------------------------------------------------------------------------
\* The page unmounts: another route, or a refresh of the token.  Its state is lost, its
\* requests go on.
Leave ==
  /\ Unmount
  /\ dialog' = CleanDialog /\ detail' = CleanDetail /\ owed' = 0 /\ early' = FALSE
  /\ reqs' = [i \in Slots |->
                IF reqs[i].st \in {"sent", "done"} THEN [reqs[i] EXCEPT !.mine = FALSE] ELSE reqs[i]]
  /\ UNCHANGED <<page, server, wrote, changes>>

\* The query goes on; a fetch that begins is asked after all the page has been told of.
Look ==
  /\ QueryStep(Snapshot)
  /\ early' = (early /\ (fetch = "idle" => fetch' = "idle"))
  /\ UNCHANGED <<page, server, wrote, changes, dialog, detail, reqs, owed>>

PageNext ==
  \/ Users \/ Tenants \/ Roles \/ Workflows \/ Search \/ Notifications \/ Files
  \/ CloseDialogs \/ Others \/ Leave \/ Look
  \/ \E i \in Slots : Perform(i) \/ Fail(i)
-----------------------------------------------------------------------------
(* Properties.                                                              *)

Kinds     == {"save", "delete", "submit", "approve", "reject", "changes", "read"}
Table     == [Rows -> Row \cup {NoRow, Gone}]
Snapshots == [rows : Table, at : Nat]
Forms     == [Columns -> Rows \cup Nat \cup {Blank}]
Comments  == Rows \cup {NoRow, Nobody}
Inputs    == [Fields -> Rows \cup {Nobody, New}]

Requests ==
  [st : {"sent", "done"}, kind : Kinds, row : Rows \cup {New, NoRow}, form : Forms,
   typed : Inputs, comment : Comments, at : Nat, blind : BOOLEAN, mine : BOOLEAN, pos : Nat]

\* The types of the page and of its list; the answer that is taken is there.
PageTypeOK ==
  /\ open \in BOOLEAN /\ fetch \in Fetching /\ broken \in BOOLEAN
  /\ answer \in Snapshots \cup {NoData} /\ shown \in Snapshots \cup {NoData}
  /\ fetch = "answered" => answer \in Snapshots
  /\ page \in Pages /\ server \in Table /\ wrote \in [Rows -> [Columns -> Nat]]
  /\ changes \in Nat /\ owed \in Nat /\ early \in BOOLEAN
  /\ dialog \in [shown : BOOLEAN, row : Rows \cup {New}, form : Forms, typed : Inputs,
                 at : Nat, blind : BOOLEAN]
  /\ detail \in [shown : BOOLEAN, row : Rows \cup {NoRow}, stage : Stages, comment : Comments]
  /\ reqs \in [Slots -> Requests \cup {Unused, [st |-> "over"]}]

\* An edit writes back a column nobody typed in only with the value it has, unless
\* somebody else has written the column since the list was read (UsersPage.tsx:110,
\* TenantsPage.tsx:88, RolesPage.tsx:94, WorkflowsPage.tsx:207).  The exception of a role
\* whose bindings had not been fetched is `blind'.
OnlyOverlapOverwrites ==
  [][\A i \in Slots :
       (reqs[i].st = "sent" /\ reqs'[i].st = "done" /\ reqs[i].kind = "save" /\ reqs[i].row # New)
         => \A c \in Columns :
              \/ reqs[i].typed[c] # Nobody \/ reqs[i].blind
              \/ server'[reqs[i].row].cols[c] = server[reqs[i].row].cols[c]
              \/ wrote[reqs[i].row][c] > reqs[i].at]_<<query, pageVars>>

\* What was typed for one row, a password or a comment above all, is never sent for another,
\* however dialogs are closed, reopened and closed again by late answers (UsersPage.tsx:115,
\* WorkflowsPage.tsx:228).
InputStaysWithItsRow ==
  \A i \in Slots : reqs[i].st \in {"sent", "done"} =>
    /\ \A f \in Fields : reqs[i].typed[f] \in {Nobody, reqs[i].row}
    /\ reqs[i].comment \in {Nobody, reqs[i].row}

\* When the list is at rest it contains every change the page has been told of during this
\* visit, whatever refetches were under way (the invalidateQueries of all onSuccess).  The
\* exception is `early': a first fetch is not replaced, and when the service had answered it
\* before the page heard of a change, the list may lack the change until it is fetched anew.
AcknowledgedIsShown == Settled /\ shown # NoData /\ ~early => shown.at >= owed
=============================================================================
