------------------------------- MODULE AuditLog -------------------------------
(***************************************************************************)
(* Reading the audit log: the audit page walks through the events of a     *)
(* filter page by page, newest first, and exports them; audit-service      *)
(* answers with a COUNT and then a SELECT with LIMIT and OFFSET; meanwhile *)
(* events arrive and retention drops old ones.  The client caches the      *)
(* answer of every page and filter it has looked at.                       *)
(*                                                                         *)
(* An event is its place in the order of created_at.  No two are created   *)
(* at the same time: PostgreSQL would list these in any order.             *)
(***************************************************************************)
EXTENDS Naturals, FiniteSets

CONSTANTS
  Last,         \* bound: the events are 1..Last
  Filters,      \* action, path and dates, as they are applied
  Matches,      \* the events each filter lets through
  NoFilter,     \* the filter of empty fields
  Old,          \* the partitions that retention has to drop, as sets of events
  PageSize,     \* PAGE_SIZE, 20
  ExportLimit,  \* EXPORT_LIMIT, 5000
  MaxLimit,     \* the largest limit audit-service accepts, 5000
  DefaultLimit, \* what it takes instead of a larger one, 50
  None,         \* nothing in the cache, no file yet
  MaxClicks,    \* bound: what the user does
  MaxFetches    \* bound: requests under way

Events == 1..Last
Due == UNION Old

ASSUME AuditLogAssumption ==
  /\ Last \in Nat /\ NoFilter \in Filters
  /\ Matches \in [Filters -> SUBSET Events] /\ Matches[NoFilter] = Events
  /\ Old \subseteq SUBSET Events /\ \A e \in Due, f \in Events \ Due : e < f
  /\ MaxLimit \in Nat /\ {PageSize, ExportLimit, DefaultLimit} \subseteq 1..MaxLimit
  /\ MaxClicks \in Nat /\ MaxFetches \in Nat

VARIABLES
  stored,       \* the events in the table
  dropped,      \* the partitions that have been dropped
  changes,      \* history: how often the table has changed
  page, appliedFilter, \* the page and the filter of AuditPage
  cache,        \* the last answer to each query
  fetch,        \* the request of each query
  failed,       \* queries whose last request has been given up
  export,       \* exporting: the filter of the request under way
  file,         \* the last file the user has been given
  clicks,       \* what the user has done
  walk          \* history: what the user saw on the pages from the first one to this

table  == <<stored, dropped, changes>>
client == <<page, appliedFilter, cache, fetch, failed>>
logVars == <<table, client, export, file, clicks, walk>>
-----------------------------------------------------------------------------
(* The query.                                                               *)

Queries == (0..Last) \X Filters
Query   == <<page, appliedFilter>>
NoFetch == [st |-> "none"]
NoWalk  == [at |-> 0]

\* The query of what the page shows, its data, and whether they are its last answer.
Shown   == cache[Query]
Items   == IF Shown = None THEN {} ELSE Shown.items
Settled == Shown # None /\ fetch[Query] = NoFetch /\ Query \notin failed
Loading == Shown = None /\ fetch[Query] # NoFetch

\* The filter in the WHERE clause.
Matching(filter) == stored \cap Matches[filter]

\* For comparison: the boundary itself is refused.
StrictLimit(limit) == IF limit >= MaxLimit THEN DefaultLimit ELSE limit

\* normalizeLimit; the limits asked for are positive.
NormalizeLimit(limit) == IF limit > MaxLimit THEN DefaultLimit ELSE limit

\* For comparison: ORDER BY created_at, the oldest first.
OldestFirst(all, limit, offset) ==
  {e \in all : Cardinality({x \in all : x < e}) \in offset..offset + NormalizeLimit(limit) - 1}

\* ORDER BY created_at DESC LIMIT limit OFFSET offset.
Slice(all, limit, offset) ==
  {e \in all : Cardinality({x \in all : x > e}) \in offset..offset + NormalizeLimit(limit) - 1}

LogInit ==
  /\ stored \in SUBSET Events /\ dropped = {} /\ changes = 0
  /\ page = 0 /\ appliedFilter = NoFilter
  /\ cache = [q \in Queries |-> None]
  /\ fetch = [q \in Queries |-> IF q = Query THEN [st |-> "asked"] ELSE NoFetch]
  /\ failed = {} /\ export = None /\ file = None /\ clicks = 0 /\ walk = NoWalk
-----------------------------------------------------------------------------
(* The table.                                                               *)

\* An event is stored, an older one sometimes after a newer one.
Insert(e) ==
  /\ e \notin stored \cup UNION dropped
  /\ stored' = stored \cup {e} /\ changes' = changes + 1
  /\ UNCHANGED <<dropped, client, export, file, clicks, walk>>

\* Retention drops a partition.
Drop(month) ==
  /\ month \notin dropped /\ dropped' = dropped \cup {month}
  /\ stored' = stored \ month /\ changes' = changes + 1
  /\ UNCHANGED <<client, export, file, clicks, walk>>
-----------------------------------------------------------------------------
(* A request of a query.                                                    *)

Under(q, st) == fetch[q].st = st

\* The handler counts first.
Count(q) ==
  /\ Under(q, "asked")
  /\ fetch' = [fetch EXCEPT ![q] = [st |-> "counted", total |-> Cardinality(Matching(q[2]))]]
  /\ UNCHANGED <<table, page, appliedFilter, cache, failed, export, file, clicks, walk>>

\* `all' and `at' are history: what the filter matched, and when.
List(q) ==
  LET all == Matching(q[2])
  IN  /\ Under(q, "counted")
      /\ fetch' = [fetch EXCEPT ![q] = [st |-> "listed", answer |->
                     [items |-> Slice(all, PageSize, q[1] * PageSize), total |-> fetch[q].total,
                      all |-> all, at |-> changes]]]
      /\ UNCHANGED <<table, page, appliedFilter, cache, failed, export, file, clicks, walk>>

Land(q) ==
  /\ Under(q, "listed")
  /\ cache' = [cache EXCEPT ![q] = fetch[q].answer] /\ failed' = failed \ {q}
  /\ fetch' = [fetch EXCEPT ![q] = NoFetch]
  /\ UNCHANGED <<table, page, appliedFilter, export, file, clicks, walk>>

\* A statement or the connection fails: the client tries again, or gives up.
Retry(q) ==
  /\ fetch[q].st \in {"counted", "listed"} /\ fetch' = [fetch EXCEPT ![q] = [st |-> "asked"]]
  /\ UNCHANGED <<table, page, appliedFilter, cache, failed, export, file, clicks, walk>>
GiveUp(q) ==
  /\ fetch[q] # NoFetch /\ fetch' = [fetch EXCEPT ![q] = NoFetch] /\ failed' = failed \cup {q}
  /\ UNCHANGED <<table, page, appliedFilter, cache, export, file, clicks, walk>>

\* The data of a query nobody looks at are dropped from the cache after a while.
Forget(q) ==
  /\ q # Query /\ fetch[q] = NoFetch /\ cache[q] # None
  /\ cache' = [cache EXCEPT ![q] = None] /\ failed' = failed \ {q}
  /\ UNCHANGED <<table, page, appliedFilter, fetch, export, file, clicks, walk>>
-----------------------------------------------------------------------------
(* The user.                                                                *)

Click == clicks < MaxClicks /\ clicks' = clicks + 1

\* A query that is looked at is fetched, unless it is being fetched.
Look(q) ==
  /\ fetch[q] = NoFetch => Cardinality({p \in Queries : fetch[p] # NoFetch}) < MaxFetches
  /\ fetch' = [fetch EXCEPT ![q] = IF @ = NoFetch THEN [st |-> "asked"] ELSE @]

Go(p, filter, seen) ==
  /\ Click /\ page' = p /\ appliedFilter' = filter /\ Look(<<p, filter>>) /\ walk' = seen
  /\ UNCHANGED <<table, cache, failed, export, file>>

\* Page n + 1 exists, by the total of the last answer: the next button.
HasNext == Items # {} /\ (page + 1) * PageSize < Shown.total

\* What the user has seen from the first page to this, if no page shown was older than the
\* one before it.
Seen ==
  CASE page = 0 -> [base |-> Shown.all, seen |-> Shown.items, at |-> Shown.at]
    [] page > 0 /\ walk # NoWalk /\ Shown.at >= walk.at ->
         [walk EXCEPT !.seen = @ \cup Shown.items, !.at = Shown.at]
    [] OTHER -> NoWalk

NextPage == HasNext /\ Go(page + 1, appliedFilter, Seen)
PrevPage == Items # {} /\ page > 0 /\ Go(page - 1, appliedFilter, NoWalk)

\* For comparison: the page stays.
ApplyInPlace(filter) == Go(page, filter, NoWalk)

\* Apply, and Clear for the empty filter.
Apply(filter) == Go(0, filter, NoWalk)

\* The page is left and opened again.
Return == Go(0, NoFilter, NoWalk)

\* The window gets the focus.
Refocus ==
  /\ Click /\ Look(Query)
  /\ UNCHANGED <<table, page, appliedFilter, cache, failed, export, file, walk>>

\* exportCsv: the filter is that of the click, and no page of the log.
Export ==
  /\ Click /\ export = None /\ ~Loading
  /\ export' = appliedFilter
  /\ UNCHANGED <<table, client, file, walk>>
ExportDone ==
  /\ export # None
  /\ file' = [items |-> Slice(Matching(export), ExportLimit, 0), all |-> Matching(export)]
  /\ export' = None
  /\ UNCHANGED <<table, client, clicks, walk>>
ExportFailed ==
  /\ export # None /\ export' = None
  /\ UNCHANGED <<table, client, file, clicks, walk>>

LogNext ==
  \/ \E e \in Events : Insert(e)
  \/ \E month \in Old : Drop(month)
  \/ \E q \in Queries : Count(q) \/ List(q) \/ Land(q) \/ Retry(q) \/ GiveUp(q) \/ Forget(q)
  \/ NextPage \/ PrevPage \/ (\E filter \in Filters : Apply(filter)) \/ Return \/ Refocus
  \/ Export \/ ExportDone \/ ExportFailed

LogSpec == LogInit /\ [][LogNext]_logVars
-----------------------------------------------------------------------------
(* Properties.                                                              *)

\* Whoever walks from the first page to the last has seen every event that was there
\* when the first page was listed and is not due for retention, although the pages are
\* counted from the newest event and events go on arriving.  No page may be older than the
\* one before it (a request under way is joined, so its answer may be), and no event may
\* arrive between the COUNT and the SELECT of the last page (handler.go:112-117): the page
\* behind it would be hidden.
WalkIsWhole ==
  Shown # None /\ ~HasNext /\ Seen # NoWalk /\ Shown.total >= Cardinality(Shown.all)
    => Seen.base \ Due \subseteq Seen.seen

\* The page says that there are no events only when the filter matches none, or after
\* retention has shortened the log behind the page the user is on (AuditPage.tsx:216).
EmptyMeansNone == Settled /\ Items = {} => Shown.all = {} \/ dropped # {}

\* The file has all events of the filter that was applied, or the newest EXPORT_LIMIT of
\* them: the limit the page asks for is the largest the service takes
\* (AuditPage.tsx:22, repository.go:44).
ExportIsWhole == file # None =>
  \A e \in file.all : e \in file.items \/ Cardinality({x \in file.all : x > e}) >= ExportLimit
=============================================================================
