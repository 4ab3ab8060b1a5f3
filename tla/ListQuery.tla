------------------------------ MODULE ListQuery ------------------------------
(***************************************************************************)
(* One useQuery of a page of the web client: the list the page shows, the  *)
(* request that fetches it, and what mounting, leaving, invalidation and   *)
(* answers do to them.  It is TanStack Query 5 as src/web uses it: one     *)
(* QueryClient with its defaults (main.tsx), so every list is stale at     *)
(* once, is fetched again when a page mounts or the window gets the focus, *)
(* and stays in memory while no page shows it.                             *)
(*                                                                         *)
(* The module describes no data: a snapshot of the service is a record     *)
(* whose field `at' says how many changes of the service precede it.       *)
(***************************************************************************)
EXTENDS Naturals

CONSTANT NoData     \* nothing has been fetched yet

VARIABLES
  open,      \* the page is mounted
  fetch,     \* the request for the list: "idle", "asked", or "answered" by the service
  answer,    \* the snapshot an answered request carries
  shown,     \* data: the snapshot the page shows
  broken     \* isError: the last request failed

query == <<open, fetch, answer, shown, broken>>

Fetching == {"idle", "asked", "answered"}

QueryInit ==
  /\ open = TRUE /\ fetch = "asked" /\ broken = FALSE
  /\ answer = NoData /\ shown = NoData

\* A page mounts: it joins a request under way, else the list is fetched (staleTime 0).
Mount ==
  /\ ~open /\ open' = TRUE
  /\ fetch' = IF fetch = "idle" THEN "asked" ELSE fetch
  /\ UNCHANGED <<answer, shown, broken>>

\* The last observer goes; the request goes on, its function reads no abort signal.
Unmount == open /\ open' = FALSE /\ UNCHANGED <<fetch, answer, shown, broken>>

\* refetchOnWindowFocus
Refocus == open /\ fetch = "idle" /\ fetch' = "asked" /\ UNCHANGED <<open, answer, shown, broken>>

\* The service reads its rows for the request.
Answer(snapshot) ==
  /\ fetch = "asked" /\ fetch' = "answered" /\ answer' = snapshot
  /\ UNCHANGED <<open, shown, broken>>

\* The answer arrives and is the data.
Land ==
  /\ fetch = "answered" /\ fetch' = "idle"
  /\ shown' = answer /\ answer' = NoData /\ broken' = FALSE
  /\ UNCHANGED open

\* The request and its retries fail; the data stay.
GiveUp ==
  /\ fetch = "asked" /\ fetch' = "idle" /\ broken' = TRUE
  /\ UNCHANGED <<open, answer, shown>>

\* invalidateQueries: a mounted list is fetched anew, in place of a request under way,
\* unless that is the first one, which is joined.  An unmounted one is only marked.
Invalidate ==
  LET anew == open /\ (fetch = "idle" \/ shown # NoData)
  IN  /\ fetch'  = IF anew THEN "asked" ELSE fetch
      /\ answer' = IF anew THEN NoData ELSE answer
      /\ UNCHANGED <<open, shown, broken>>

QueryStep(snapshot) == Mount \/ Refocus \/ Answer(snapshot) \/ Land \/ GiveUp

Settled == open /\ fetch = "idle" /\ ~broken
=============================================================================
