# GateFrame in TLA+

GateFrame is a multi-tenant platform: a Rust gateway (axum) in front of Go services (gin,
pgx, PostgreSQL, Redis, MinIO) and a React client. Most of its logic is small per request;
what is hard about it lies *between* requests: handlers read with one SQL statement and
write with another, keep state in two stores with no transaction over them, and retry,
fail or are abandoned half-way. The modules here model that, one step per statement or
remote call, so that TLC interleaves and fails them everywhere the code allows it.

Every service runs its handlers concurrently (goroutines, tokio tasks), every SQL statement
outside a transaction is its own transaction (pgx, READ COMMITTED), and a request may end at
any `await` or call: an error, a broken connection, the end of the process. These three
facts are the scheduler of the services' modules. The browser runs one handler at a time, but
its requests are answered in any order, and after the page, or the session, that sent them.

## 1. Inventory

| component | state | operations | interacts with |
|---|---|---|---|
| workflow-service | `workflows` (status, content, reviewer_id, review_comment), `workflow_events` | create, update, delete, submit, approve, reject, request-changes; lists | gateway (permission of each route) |
| permission versions | `role_permissions`, `user_roles` (PostgreSQL), `perm:ver:<user>` (Redis), the tokens clients hold | login and refresh copy permissions and version into a token; `SetRolePermissions` replaces a role's permissions and increments the versions of its holders; `require_perm_version` compares | user-service, gateway, Redis |
| login limiter | `rl:login:<ip>` and its expiry | check, INCR, EXPIRE around `POST /api/auth/login` | gateway, Redis |
| file-service | `file_objects` rows, MinIO objects | upload, delete, download | PostgreSQL, MinIO |
| audit pipeline | spawned tasks of the gateway, `audit_events` and its monthly partitions | emit after the answer, post up to three times, create partition, insert | gateway, audit-service |
| audit retention | the partitions, the cutoff of a run | prune loop, inserts and queries that create partitions | audit-service replicas |
| users, tenants, sessions | `users`, `tenants`, tokens | create, update, delete; login, refresh; tenant checks in gateway and service | gateway, user-service |
| schema migrations | the schema and the seed rows | run at every start of a service | all services |
| OIDC login | `oidc:state:*` and nonce in Redis, `users.oidc_sub` | authorize, callback, link | gateway, user-service, identity provider |
| routing, RBAC, proxy | none; route table and required permissions | forward with identity headers | all |
| notification, search | independent rows | one statement each | gateway |
| web session | token, user and permissions in the browser's storage; the permissions query; the ref of each mounted hook | login, callback, sign-out; ask for the permissions, refresh a token that differs; clear after a 401 or 403 | gateway, all pages |
| web pages | per page: the list (TanStack Query), the form dialog, the dialog on one row, the mutations under way; the upload queue; the audit page's number, filter and export | open, type, save, delete, judge, mark; invalidate and fetch again; upload a batch; turn a page, filter, export | gateway, the other users |
| metrics, configuration, deployment | counters, environment | | |

Hard behaviours, and what "correct" means there (each with its line under `hazards` in
PROJECT.json):

* **Check, then act, in two statements.** workflow-service's edit and delete, its guarded
  transitions, `UpdateUser`/`UpdateTenant`, login's look at tenant and user. Correct: a
  review round has one opening and one verdict; the verdict is signed by the one who gave it;
  nobody gets a token without having been entitled to it during the request; a write nobody
  asked for happens only to columns another request changed in between.
* **Two stores, no transaction.** Permissions and versions; rows and objects; status and
  event log. Correct: revocation is final; a row has its object; an orphan object is
  reported to somebody; an acknowledged transition is logged and the log is true.
* **Retries and lost answers.** The audit task. Correct: success means stored, failure means
  three failed attempts, duplicates need a lost answer, the loop ends.
* **Races for creation.** Monthly partitions, first fill of a permission version. Correct: a
  race costs one retry; a first fill refuses nobody.
* **Counters and windows at their limits.** The limiter's overshoot and what a fixed window
  admits; the retention cutoff at the end of months of different length.
* **Late answers in the browser.** A refresh, a fetch or a mutation is answered after a
  sign-out, in another session or in another dialog. Correct: a session's token, user and
  permissions belong together; a difference between them leads to a refresh, and the
  refreshes end; a list at rest shows what the page has been told of.
* **Forms filled from lists that go stale, and dialogs that keep their state.** Correct: a
  form overwrites only what changed after its list was read; what was typed for one row is
  not sent for another.
* **Pages of a log that moves.** The audit page counts pages from the newest event while events
  arrive, retention drops others and the cache has old answers. Correct: a walk to the last
  page misses nothing that was there; an empty page means an empty log; the export is whole or
  says so by its length.
* **Batches.** Correct: a batch of uploads leaves a prefix of its files, and the zone opens
  again after each.
* **Half-way ends.** INCR without EXPIRE, commit without increments, DELETE without
  RemoveObject, a gateway that ends with spawned tasks.

## 2. Plan

The order, the most important behaviour first: Workflow (with its abstract specification
WorkflowLifecycle), PermVersion, LoginLimiter, FileStore (with FileLifecycle), AuditTrail (with
AtLeastOnce), AuditRetention, Accounts, WebSession, the pages (ListQuery, WebPage, WebUploads)
and AuditLog; each with its TLC instance and with proofs in a module `<Name>Proofs`, those of
AuditLog in AuditTrailProofs and those of the browser in WebUploadsProofs. Every safety
property that a run checks is proved, and so are the three refinements.

Worth doing next:

1. Compositions: WebSession with PermVersion's roles and its first fill of a version, and with the
   deletions and disablings of Accounts; and an abstract `Session` specification they implement.
2. The proof of that refinement.

## 3. Modules

In every module a variable `pc`-like names the *next statement* of a request; an action is that
statement, with everything the handler does up to the next one. Requests are used once
unless the module says otherwise. Variables marked *history* only remember; no guard reads
them, except where an action needs them to compute other history. Operators marked "For
comparison" and those named `Bad...` are variants with a plausible bug; they are part of no
specification, and serve to show that the properties would notice it.

### Workflow, WorkflowLifecycle, MCWorkflow
`repository.go` and `handler.go` of workflow-service. `status`, `content`, `reviewer`,
`remark` are the columns (content: who last wrote name, description, category, priority);
`events` the log. `UpdateRead`/`UpdateWrite`, `DeleteRead`/`DeleteWrite`,
`SubmitPeek`/`TransitionRead`/`TransitionWrite`/`InsertEvent` are the statements of the
functions of these names; only the transition's UPDATE repeats the status in its WHERE.
`Fail` is an error of any statement, and `ErrorCode` says that the INSERT of the event
after `Create` is not looked at. WorkflowLifecycle is what a user is promised: workflows
open, go under review, come back or are closed, and disappear; Workflow implements it
under `PhaseOf` (property `FollowsLifecycle`).

The table the migrations create lacks columns that the repository's statements use; the model
follows the statements.

### PermVersion, MCPermVersion
Login, refresh and OIDC resolution copy permissions (`ReadPerms`), then the version
(`ReadVersion`, and `FillVersion` when there is no key: GET, then SET 1). `SetRolePermissions`
is one transaction: `DeleteStart` takes the snapshot of the DELETE and waits for row locks,
`DeleteRows`, `Commit` inserts and commits (`RefuseCodes`: an unknown code rolls back), then
`ListHolders` and one `Bump` per user. `Accepted` is the gateway's comparison. One role;
all users hold it. `Seen` are the users whose key existed at the start.

### LoginLimiter
One address. `Enter` reads the count, `Answer` is user-service's reply, `Record` is INCR,
`Expire` is EXPIRE by the handler that read 1, `Abandon` the end of a handler anywhere.
`Tick` ages the key and the history `recent`, the set of the failures counted in the last
`Window` ticks, each with its age and its number in its tick. Handlers are reused.

### FileStore, FileLifecycle, MCFileStore
`PutObject`, `InsertRow` (upload), `FindRow`, `DropRow`, `RemoveObject` (delete), `FindRow`,
`GetObject`, `Copy` (download). `Fail` is a call that fails before its effect; the actions of
the calls themselves may also take effect and report an error. Object keys contain a fresh
UUID, so `Upload` takes a file nobody had. FileLifecycle is what the callers are promised, as if
there were one store: a file is staged, published, withdrawn by one caller and purged by the
same; `said` are the answers, each given once and at a moment at which it is true. FileStore
implements it (`ActsAsOneStore`) under `PhaseOf`, which reads the phase of a file off its row, its
object and who took the row.

### AuditTrail, AtLeastOnce
The gateway's side: `Arrive`, `Serve`, `Emit` (the middleware after `next.run`), `Hangup` (the
handler is dropped when the client leaves), `GatewayStops`; the spawned task: `Send`,
`SendFails`, `Hear`, `Lose`, with `Onwards` for what follows an attempt (three at most). The
service's: `Check` and `CreatePartition` (the two steps of `ensure_audit_partition`),
`InsertEvent`, `HandlerFails`. `Audited` and `Storable` are the pure checks at both ends. Time
is counted in months. AtLeastOnce is the promise without tasks, handlers and partitions: an event
has a fate (pending, confirmed, given up, lost), copies and faults; AuditTrail implements it
(`DeliversAtLeastOnce`), a lost race for a partition being one of the faults.

### AuditRetention, MCAuditRetention
A date is a month and a day; `CutoffMonth` is `AddDate(0, -n, 0)` truncated to the month,
including its carry when the target month lacks the day. `PruneStart` takes the cutoff and
the list of partitions, `DropOld` drops one (in any order), `PruneEnd` ends or abandons the
run. `Ensure`/`InsertEvent` are the two statements of an insertion; `QueryEnsures` is a query
that creates the partitions of its range.

### Accounts, MCAccounts
Users and tenants are rows of one shape, a status and a word (password, name).
`ReadRow`/`WriteRow` are `UpdateUser` and `UpdateTenant`, which write every column back;
`Create`, `Delete`, `Missing`, `UpdateFail` the rest. A client's request passes `Gate`
(`ensure_tenant_active`) and `Service` (`RequireActiveTenant`) when it is a refresh, then
`ReadTenant`, `ReadUser`, `Sign`. Not in it: display names (an update that asks for nothing
else asks for nothing, and still writes), the linking of OIDC subjects, what the
token says of permissions (PermVersion).

### WebSession
`stores/auth.ts`, `hooks/usePermissionsSync.ts`, `App.tsx` and `lib/api.ts`. `store` is what the
browser keeps (`setSession` in `LoginLand`, `updateSessionToken` in `RefreshLand`,
`clearSession` in `Cleared`); `perm` the query of the current token; `refreshes` the calls of
`refreshSession`, each with the hook whose `refreshingRef` it holds. The hook is called by the
route and by each component of `Below` (in App: the layout and the page's own part), so that
one difference may start several refreshes. `PermData` and `PermError` are its two
effects; `SessionRefocus` is TanStack Query's refetch on focus. `RoutedPages` are the pages with a route. `Visit` is a page's request, `GatewayCheck` the gateway's
comparison of the version and then of the token's permissions, `ServiceCheck` what user-service
looks up in PostgreSQL for its own pages (`OfUserService`), and `VisitHear` `apiRequest`'s reaction.
`Reload` loses what is under way and keeps the storage; with `back` it is the return from the
identity provider. `Admitted` is what a route compares, with `RoutePermission` from App.tsx and
`GatewayPermission` from `rbac.rs`. The services' side is the one of PermVersion as
one user sees it: `Grant` is the commit of a list of permissions (`hist`), and each commit owes an
increment of Redis' `version` (`owing`), which `Bump` makes later, in any order, or never. A
login and a refresh read the list (`LoginRead`, `RefreshRead`) and sign it afterwards with the
version of that moment (`LoginSign`, `RefreshSign`); the permissions query is answered out of
PostgreSQL (`Now`), without a version. The version begins at 1: its first fill is left to PermVersion,
and so is the role through which a user has the permissions. When a refresh ends, those in the slots
behind it move up, so that equal sets of refreshes are equal states.
`mixed`, `failed` and a token's `straddled` (the commits after its list that its version already
counts) are history, named where the properties except them.

### ListQuery, WebPage, WebUploads, MCWebPages
`ListQuery` is one `useQuery` as the pages use it (external: TanStack Query 5 with its
defaults): `Mount` joins a request under way, `Invalidate` replaces one unless it is the first.
`WebPage` is a page: its form dialog, its dialog on one row, its mutations (`Request`,
`Mutate`, then `Perform` in the service, then `Told` by `onSuccess` or `Fail`), its list, and the
rows, which `Others` change as well. `Hear` is what every success does to the history: `owed` is
the last change this visit has been told of, and `early` says that the list is the answer of
a first fetch which the service had already given when the page was told. `page` says which one; `UsersEdit`, `RolesEdit`,
`WorkflowsApprove`, ... are the handlers of the pages, each with the conditions of its
button. A value of a column is the number of the change that wrote it; `typed` says
for which row a field was filled in. `Leave` unmounts the page, `Mount` brings it back with
clean state, and mutations of an earlier visit (`mine`) still answer, invalidate, and no longer
reach the dialogs. `WebUploads` adds the loop of `handleFilesSelect`: filters, `Read`, `Store`,
`NextFile`, `Finish`, `Break`, on top of the page's steps (`PageStep`).

### AuditLog, MCAuditLog
`AuditPage.tsx` over the list of audit-service. An event is its place in the order of
`created_at`; the table gets events (`Insert`, an older one sometimes after a newer one) and loses
partitions (`Drop`; `Due` are the events retention is due for). A request of the page is two statements, `Count` and `List` (`Slice` is ORDER
BY, LIMIT and OFFSET, with the limit as `NormalizeLimit` leaves it); `Land`, `Retry`, `GiveUp` and
`Forget` are TanStack Query, whose cache holds an answer per page and filter. `NextPage` and
`PrevPage` exist while the page lists something (the pager is inside that condition),
`Apply` sets the filter and goes to page 0, `Return` opens the page anew, `Export` asks for
`ExportLimit` events of the applied filter. `walk` is history: what the user saw from the first
page on, as long as no page was older than the one before it. AuditRetention says which
partitions are dropped when; here the old ones may be dropped at any time.

## 4. Runs

| run | instance | shows |
|---|---|---|
| workflow_core | 1 workflow, 4 requests of any kind, symmetric | `OneMovePerRound`, `VerdictIsSigned`, `EventsAreTrue`, `AcknowledgedMoveIsLogged`; only requests past their check at the submission touch a pending workflow (`LateWritersAreRefused`); refinement `FollowsLifecycle` |
| workflow_edit_lock | 1 workflow, 2 requests | **violated**: `PendingIsLocked`, see 7 |
| perm_core | 2 users (1 with a key), 1 permission and an unknown code, 2 logins, 2 updates | `RevokedStaysRevoked`, `FreshPermissions`, `NoSpuriousRefusal` |
| limiter_core | 3 handlers, limit 2, window 3 | `CountBound`, `BurstBound`, `BlockIsDeserved`, liveness `LimitLapses` |
| files_core | 2 files, 4 requests, symmetric | `RowHasObject`, `OrphanIsReported`, `DownloadIsWhole`, refinement `ActsAsOneStore` |
| audit_core | 1 event of any kind, 3 months, the first with a partition | `DuplicatesNeedLoss`, `RaceCostsOneRetry`, `MutationsRecorded`, refinement `DeliversAtLeastOnce`, liveness `EventSettles` |
| audit_failed_login | 1 month | **violated**: `FailedLoginsRecorded` |
| retention_core | months of 3, 1, 4 and 3 days, retention 1 month, 1 event, 1 pruner | `EnsuredStays`, `KeptLongEnough`, liveness `OldEventsGo` |
| accounts_core | 1 user of 1 tenant, 2 words, 2 updates of any kind, 1 client | `TokenIsEarned`, `OnlyOverlapReverts`, liveness `AccessFadesOut` |
| web_session | 2 users, the permissions of one of them change between 2 sets, the users page, the route's hook and one below it, 3 refreshes at once, 3 events | `PermissionsAreOwn`, `SettledTokenMatches`, `OnlyMissedChangesForbid`, liveness `SyncSettles` |
| web_pages | any page, 2 rows, 1 column and a password, 1 or 2 mutations and 0 or 1 change of others by page, 2 batches of up to 2 files, symmetric | `InputStaysWithItsRow`, `OnlyOverlapOverwrites`, `AcknowledgedIsShown`, `ZoneFollowsBatch`, `BatchIsPrefix` |
| audit_log | 3 events, the oldest due for retention, 2 filters, pages of 1, an export of 2 at most, 3 clicks, 2 requests at once | `WalkIsWhole`, `EmptyMeansNone`, `ExportIsWhole` |

Why the bounds are enough. *Workflow*: rows of different workflows share nothing; a round
needs a submit and a verdict, a second round a change request and a second submit, and four
requests give every pair of racing verdicts, edits and deletions inside them; the proofs
lift the safety properties to any number. *PermVersion*: two updates
are what it takes for one to overlap the other's transaction and increments, two logins
for one to undo a first fill of the other; a user without a key besides one with it covers
both paths of `Current`; a permission is a row of its own that no statement relates to another,
so one that is granted or not shows what can happen to each. *LoginLimiter*: three handlers exceed a limit of two by more
than one, and a window of three ticks separates a failure at its start, inside and after it.
*FileStore*: two files so that a request can harm the wrong one; four requests for an upload, two
deletions and a download of one file. *AuditTrail*: the race for a partition is with
`OthersCreate`, so one event with its three attempts, whose handlers may all be under
way at once, is enough; three months so that each attempt may meet a new one.
*AuditRetention*: the calendar has every relation between neighbouring months that real ones
have (a shorter one before a longer one and the reverse), with carries from the last days.
*Accounts*: two updates that overlap, on the user, on the tenant or on both, with a client
whose request spans them. Runs whose requests are used once end: they check no deadlock.
workflow, perm, files, audit and retention are of this kind; limiter and accounts check it
(in the latter, clients may always ask again). *WebSession*: an event is a login, a reload, a
failed request or a change of permissions; three are a login, a change, and a failure, a
reload or a second login during the refreshes the change causes, and two of them may be
changes, the first of which is still owed at the second. Three refreshes are
those of the two hooks and one that outlives its session; two users so that it can be
another's, and the permissions of one change because no statement relates two users'. Only the
users page is visited: user-service checks it a second time, and the others differ from it in the
permission; that a route and the gateway agree on every page is in the theorem. All the
exceptions of `OnlyMissedChangesForbid` occur: a refusal of the gateway while an increment is owed
and after a login across a commit, and of the service with and without an increment since. *WebPage*: two rows so that a dialog can meet the wrong one, one column beside the
password because columns do not relate; the mutations of one page are two where it has few
other fields, and everywhere one meets a change of somebody else or another dialog. Batches of
two have a first, a last and a filtered file, and two batches a successor. *AuditLog*: three events
of one a page give a first, a middle and a last page, with events that arrive on either side of
the reader; a walk over them is two clicks, and one more is a filter, a way back or an
export; the limits are equal, as the code's are, and less than the events, so that an export is short of
the limit, at it, or truncated by it. Once its events,
or its mutations and the user's will, are used up, a browser rests: no deadlock is checked in
the web runs.

## 5. Fairness

Safety properties need none. The liveness properties assume:

* LoginLimiter: the clock ticks (`Tick`), and a handler that has sent EXPIRE goes on or ends:
  Redis answers or the connection breaks. Nothing about user-service.
* AuditTrail: a spawned task runs, audit-service's handlers go on to an answer or an error, an
  answer is heard or the connection breaks. reqwest is built without a time-out in the
  gateway, so a peer that stays silent on an open connection is outside this assumption, and
  with it `EventSettles` would fail.
* AuditRetention: days pass, the ticker fires, a run ends (weak fairness); and a DROP that is
  tried at every tick succeeds some time (strong fairness: it is enabled only during
  runs). A DROP that always fails keeps its month for ever.
* WebSession (`FairSessionSpec`): the permissions query is answered and its answer taken, and of the
  refreshes under way one goes on, through the read, the signature and the landing of its answer
  (weak fairness of each; less than that every refresh is answered). Failures are events and bounded; nothing is
  assumed of users, pages or the administrator.
* Accounts: tokens expire (`exp` is part of them). Nothing else; the clients need not go on.

## 6. Proofs

| module | theorems | inductive invariant |
|---|---|---|
| WorkflowProofs | `TypeCorrect`, `ReviewsAreSound` (the four invariants), `LateWritersRefused`, `Refinement` (Workflow implements WorkflowLifecycle) | TypeOK, `Progress` (what a request's place says it has done), `Rounds` (who moved in which round, and that a round with a verdict is over), `Stragglers` (a writer of a pending row is in `overlap`), and the invariants themselves |
| PermVersionProofs | `TypeCorrect`, `TokensAreSound` (RevokedStaysRevoked, NoSpuriousRefusal, FreshPermissions), `UpdatesReplace` | `Keys` (a key never vanishes and starts at 1), `Stamps` (a token is never ahead, and behind exactly when revoked), `Bumps`, `Misses` (what an update in progress explains), `Alone` (an update that overlaps no other sees all rows) |
| LoginLimiterProofs | `TypeCorrect`, `CountBounded`, `BurstBounded`, `BlocksAreDeserved` | TypeOK and `Budget`: the count plus the handlers past the check never exceeds `Max - 1` plus all handlers; `WindowInv`: the failures of a tick are numbered without gaps (`Numbered`), the recent ones are at most one key's fill and this key's count, and those after the tick of EXPIRE lack the first of the key (`Spent`), those since that tick are all that the key has counted (`Deserved`) |
| FileStoreProofs | `TypeCorrect`, `FilesAreSound`, `Refinement` (FileStore implements FileLifecycle) | `Owned` (an upload under way owns its key), `Taken`, `Known`, and the invariants |
| AuditTrailProofs | `TypeCorrect`, `OutcomesAreTrue`, `RetriesAreSound`, `MutationsAreRecorded`, `Refinement` (AuditTrail implements AtLeastOnce) | `Ledger` (rows are the attempts answered "stored"), `TaskShape`, `EarlierSpent`, `RaceSettled` (a lost race leaves a partition for its month), `Emitted` (who was answered has a task), `Attempted` (faults befall attempts that were made, and an attempt a task still waits for only with an error) |
| AuditTrailProofs, about AuditLog | `WalksAreWhole`, `EmptyPagesMeanNone`, `ExportsAreWhole` | `ReadingInv`: answers are slices of what was stored (`AnswersFaithful`), a later answer has what an earlier one had, but for what retention drops (`Growing`), the pages that are looked at exist until something is dropped (`PagesExist`), and a walk has seen every event that ranks before its page (`WalkCovered`) |
| AuditRetentionProofs | `TypeCorrect`, `RetentionIsKept`, `InsertionsAreSafe` | `CutoffSound` (a cutoff only ever covers months all of whose days are old enough, and time keeps it so), `Born` |
| AccountsProofs | `TypeCorrect`, `TokensAreEarned`, `OnlyOverlapsRevert`, `DeletedStayGone` | `AskSound`, `CopySound` (what a write will change unasked has been changed by others since its read), `SeesNow` and `ChecksSeen` (a passed check was true at some moment of the request) |
| WebUploadsProofs (also of WebPage and ListQuery) | `TypeCorrect`, `InputStays`, `AcknowledgedAreShown`, `BatchesAreSound` (ZoneFollowsBatch, BatchIsPrefix), `OnlyOverlapsOverwrite` | `FormSound` (what a form says of a row is what the service has, or was written there since) carried from the list (`ListsSound`) through the dialogs (`DialogsSound`) to the requests (`RequestsSound`); `PagesDiffer` (pages without rows to edit, the page whose rows are fixed); `Owing` (a change the page was told of is shown, or on its way, or failed to come, or was told of `early`); `Stored` and `Zone` for the batches |
| WebUploadsProofs, about WebSession | `PermissionsOwn`, `SettledTokensMatch`, `RefusalsExplained` | `SessionInv`: every user has a list of permissions (`HistOK`); what the store, the query, each refresh and a login hold was issued to the user it is held for and is no older than the token (`StoreOK`, `PermOK`, `AllOK`, `LoginOK`); every commit after the list of a token is owed, was counted before it was signed, or has put the version ahead of it (`Accounted`, in `IssuedToken`); a page asked for was granted by the token's permissions or later ones, and one past the gateway by the token's (`VisitOK`); and a token that differs from the permissions has a refresh under way (`Synced`) |

In each case the property is not inductive: an action may be enabled in an unreachable state
that breaks it (a transition with a stale `from` in a round already decided, a task that
"ended" with a handler of an earlier attempt still to insert, ...). The other conjuncts
exclude these. The proofs hold for every value of the constants that satisfies the
modules' ASSUMEs: FileStore needs one file at least; LoginLimiter a finite set of handlers, with
one at least; AuditLog limits that the service takes as they are (1 up to `MaxLimit`);
WebSession a sentinel that is no user, no list and no token; AuditRetention a calendar in which a day that one month lacks exists in the next, which the
Gregorian one satisfies; Accounts disjoint ids of users and tenants; WebPage rows and sentinels
that differ from each other and from the numbers of changes.

WebUploads has some sixty handlers, but only a few ways to touch the state. Its proof first
shows that each step has one of these shapes (`Shape`: a request is asked, a dialog opened,
typed in or closed, an answer heard, the service or the query moves), and proves each part of the
invariant per shape, with lemmas that a dialog filled from a sound list is sound, and that a
sound form remains so when rows change, because a write raises `wrote` above the form's `at`.

AuditLog's argument is one about ranks: the rank of an event is the number of matching events
that are newer. A page holds the ranks of one interval (`SliceRanks`), insertions only make ranks
grow (`RankGrows`), so that an event which one page did not reach is found by the next, and an
event of any rank within the total exists (`RankHits`). These lemmas are about the cardinality of
subsets of an interval, with FiniteSetTheorems.

LoginLimiter's bound is one about two windows: among the failures of the last `Window` ticks are
those this key has counted and those an earlier one had, and when a key expires its first failure is
already too old to be among them, which makes the bound sharp by one. The history is a set
of failures and not a number by tick because sums over functions need induction over data.

The proofs of a refinement have one step per action, which names the abstract action it maps to, and
lemmas on how the mapping's expressions move (`PhaseMoves`, `Saying`, `FateMoves`, `FaultsMove`).
What the concrete invariants lacked for it became part of them: that an object is not there
before its upload put it, and is there until its deletion removes it; that an answer which is heard
belongs to an attempt that is not yet counted as lost.

`UpdatesReplace` (an update of a role that overlaps no other leaves exactly what it asked for),
`DeletedStayGone` (no request brings a deleted row back), `OutcomesAreTrue` and the parts
`UploadsLast` and `DeletedOnce` of `FilesAreSound` (an acknowledged upload stays until a
deletion takes it, which happens once) have no run of their own; the refinements imply the last
three as far as they can be seen from outside.

Only model-checked: liveness (`LimitLapses`, `EventSettles`, `OldEventsGo`, `AccessFadesOut`,
`SyncSettles`), which is out of the prover's reach.

## 7. Where the code does not keep its word

With a run and its shortest behaviour:

* *Pending is not a lock* (`PendingIsLocked`): an edit or deletion whose SELECT saw `draft`
  writes after the submission; the UPDATE and DELETE do not repeat the condition.
* *Failed logins are not audited* (`FailedLoginsRecorded`): the event has an empty tenant id,
  which the service's binding refuses three times.
Seen while modelling, visible in the properties' exceptions or in the actions, and without a
run of their own:
a slow first login does SET 1 after another login and an increment, and a revoked token is
accepted again (`RevokedStaysRevoked` is about the users in `Seen`); an INCR without EXPIRE blocks an address for ever
(`LimitLapses` excludes `cut`, `BlockIsDeserved` `late`); `UpdateTenant` and `UpdateUser` write
back the status they read, so a rename may undo a disabling (`OnlyOverlapReverts`);
an update of a role that ends between its commit and its increments leaves old tokens
accepted (`FreshPermissions` excludes updates that have not answered ok); a client that hangs
up, or a gateway that ends, loses the event of a mutation that took effect
(`MutationsRecorded` excludes these); the limiter is called a sliding window in the README and
is a fixed one (`BurstBound` is what a fixed one gives); after a deletion whose removal fails,
the object stays (`OrphanIsReported` says who was told). In the browser: the
client clears the session at the 401 of any request but the two that synchronise
(`lib/api.ts:45`), also when that answer arrives after the refresh has brought a new token, or
in the session of the next login (`VisitHear`); a refresh that
outlives its session lands in the next one and mixes two users (`mixed`); after a reload that
loses a refresh the token stays behind until the permissions change again (`failed`); the
dashboard admits everybody and its request needs `user.read`, so a user without it is signed
out by the first visit (`OnlyMissedChangesForbid` excepts it); a page that its route admits may be
answered with 403, which ends the session, as long as the increment of a committed change is
still to come or has failed, after a login or a refresh that read the permissions before a
commit and the version after its increment, or when user-service looks up permissions that have
been taken away since the gateway's check (`OnlyMissedChangesForbid` says that there is no other reason);
a success that is heard during the first fetch of a list joins that fetch instead of replacing
it, because TanStack Query cancels a request only when there is data
(`NotificationsPage.tsx:55`, `UsersPage.tsx:72`, `WorkflowsPage.tsx:103`, `FilesPage.tsx:156`: "Add",
"Create" and "Upload" can be used while the list loads), and if the service had answered
it before, the list comes to rest without the new row until it is fetched again
(`AcknowledgedIsShown` excepts it, `early`); the roles page can be saved
before its bindings are fetched, and then clears the role (`blind`); the buttons of the workflow
dialog go by the row as it was when the dialog was opened (`WorkflowsApprove`); a failure in a batch
leaves the list without the files that were stored (`Break`); the keys of the list queries do not
contain the token, so the next user of the browser is shown the last one's lists until they
have been fetched again; on an audit page that retention has moved behind the end of the log,
the pager is hidden and the page says "No audit events yet." (`EmptyMeansNone` excepts it,
`Apply` and `Return` lead out); an event stored between the COUNT and the SELECT of the audit
list hides the page it creates (`WalkIsWhole` excepts it), and so does an answer
from the cache that is older than the page before it.

## 8. Not modelled

Schema migrations: what a second run does is what INSERT ... ON CONFLICT DO NOTHING says, and the
repository promises nothing about grants an administrator took away; their result is the models'
initial states. OIDC: a nonce is read and deleted by two commands, but what a second callback
with it gets is decided by the identity provider, which redeems a code once; the linking of a
subject is one UPDATE with a unique index. The gateway's route table and header forwarding are
fixed and without state; the permissions of the pages' routes are in WebSession, the
audited routes in AuditTrail. notification-service is single statements on independent rows, and
search-service is single statements over PostgreSQL's full-text search; their pages are in
WebPage. Of the web client: the dashboard, tabs and the filters of the other lists, the
timeline of a workflow, downloads, navigation and `PermissionGate` only show what a query
returned. Configuration checks, metrics, response formatting, manifests and
scripts have no state to get wrong between steps. Message texts, names, sizes and ids are
abstracted to what the properties tell apart. A silent peer (no time-out in the gateway's
HTTP clients) is named under fairness and not modelled.
