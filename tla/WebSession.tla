----------------------------- MODULE WebSession ------------------------------
(***************************************************************************)
(* The session of the web client: the stored token, user and permissions   *)
(* (stores/auth.ts), the query that asks for the permissions of the token, *)
(* the hook that refreshes a token that has fallen behind, which several   *)
(* components call at once (hooks/usePermissionsSync.ts), the routes that  *)
(* admit to pages (App.tsx), and the requests of the pages, whose refusal  *)
(* ends the session (lib/api.ts).                                          *)
(*                                                                         *)
(* A grant [user, rev] is the list of permissions that user had in         *)
(* PostgreSQL after the commit rev; a token carries a grant and the        *)
(* version that Redis had when it was signed.  The version follows the     *)
(* commits, or never does, and is read after the list (PermVersion has the *)
(* role, its holders, and the first version, which is always 1 here).      *)
(***************************************************************************)
EXTENDS Naturals, Sequences, FiniteSets

CONSTANTS
  SessionUsers,     \* the users who sign in
  Grants,           \* the sets of permissions a user may be given
  FirstGrants,      \* those a user may begin with
  Changed,          \* bound: the users whose permissions are changed
  Visited,          \* the pages the user opens
  None,             \* no token, no user, nothing fetched
  MaxEvents,        \* bound: logins, reloads, failed requests and changes of permissions
  MaxRefreshes,     \* bound: refreshes under way at once
  Below             \* the components below ProtectedRoute that call the hook

RoutedPages == {"dashboard", "users", "roles", "audit", "workflows", "search",
                "notifications", "files", "tenants"}

ASSUME SessionAssumption ==
  /\ None \notin SessionUsers /\ None \notin [user : SessionUsers, rev : Nat]
  /\ None \notin [user : SessionUsers, rev : Nat, ver : Nat, straddled : SUBSET Nat]
  /\ Visited \subseteq RoutedPages /\ FirstGrants \subseteq Grants /\ Changed \subseteq SessionUsers
  /\ "route" \notin Below /\ "none" \notin Below
  /\ {MaxEvents, MaxRefreshes} \subseteq Nat

VARIABLES
  hist,             \* PostgreSQL: the permissions each user has had, by commit
  version,          \* Redis: the version of each user's permissions
  owing,            \* the commits whose increment of it is under way, or has failed
  store,            \* token, user and permissions, persisted
  perm,             \* the permissions query of the current token
  refreshes,        \* the calls of refreshSession by the hook
  login,            \* the login or the OIDC callback under way
  visit,            \* the request of a page
  mixed,            \* a refresh of an earlier session has landed in this one
  failed,           \* a refresh has failed, or a reload has lost it
  events            \* for the bound

sessionVars == <<hist, version, owing, store, perm, refreshes, login, visit, mixed, failed, events>>
serverVars == <<hist, version, owing>>
clientVars == <<store, perm, refreshes, login, visit, mixed, failed>>

\* The permission a route asks for; the dashboard asks for none.
SwappedPermission ==
  [p \in RoutedPages |-> CASE p = "workflows" -> "user.read" [] p = "users" -> "workflow.read"
                     [] OTHER -> "none"]
RoutePermission ==
  [p \in RoutedPages |-> CASE p = "dashboard" -> "none" [] p = "users" -> "user.read"
                     [] p = "roles" -> "rbac.read" [] p = "audit" -> "audit.read"
                     [] p = "workflows" -> "workflow.read" [] p = "search" -> "search.read"
                     [] p = "notifications" -> "notification.read"
                     [] p = "files" -> "file.read" [] p = "tenants" -> "tenant.read"]

\* The permission the gateway asks for when the page fetches its data.
GatewayPermission ==
  [p \in RoutedPages |-> CASE p \in {"dashboard", "users"} -> "user.read"
                     [] p = "roles" -> "rbac.read" [] p = "audit" -> "audit.read"
                     [] p = "workflows" -> "workflow.read" [] p = "search" -> "search.read"
                     [] p = "notifications" -> "notification.read"
                     [] p = "files" -> "file.read" [] p = "tenants" -> "tenant.read"]

Now(u)   == [user |-> u, rev |-> Len(hist[u])]
Codes(g) == IF g = None THEN {} ELSE hist[g.user][g.rev]
List(t)  == [user |-> t.user, rev |-> t.rev]

\* issueToken signs the list it is given and the version of this moment; straddled is
\* history: the commits after the list that the version already counts.
Signed(g) ==
  [user |-> g.user, rev |-> g.rev, ver |-> version[g.user],
   straddled |-> (g.rev + 1 .. Len(hist[g.user])) \ owing[g.user]]

FewerOnly(g, h) == Codes(g) \subseteq Codes(h)
SameArray(g, h) == FALSE
Same(g, h)      == Codes(g) = Codes(h)

SignedOut == [token |-> None, user |-> None, perms |-> None]
NoQuery   == [fetch |-> "idle", answer |-> None, data |-> None, error |-> "no"]
NewQuery  == [NoQuery EXCEPT !.fetch = "asked"]
Free      == [st |-> "free"]

SessionInit ==
  /\ hist \in [SessionUsers -> {<<g>> : g \in FirstGrants}]
  /\ version = [u \in SessionUsers |-> 1] /\ owing = [u \in SessionUsers |-> {}]
  /\ store = SignedOut /\ perm = NoQuery
  /\ refreshes = [i \in 1..MaxRefreshes |-> Free]
  /\ login = Free /\ visit = Free
  /\ mixed = FALSE /\ failed = FALSE /\ events = 0

\* An administrator saves the permissions of the role of a user: the transaction commits.
Grant(u, g) ==
  /\ events < MaxEvents /\ events' = events + 1
  /\ hist' = [hist EXCEPT ![u] = Append(@, g)]
  /\ owing' = [owing EXCEPT ![u] = @ \cup {Len(hist[u]) + 1}]
  /\ UNCHANGED <<version, clientVars>>

\* INCR of the version, unless the holders could not be listed or Redis reached: then never.
Bump(u, n) ==
  /\ n \in owing[u] /\ owing' = [owing EXCEPT ![u] = @ \ {n}]
  /\ version' = [version EXCEPT ![u] = @ + 1]
  /\ UNCHANGED <<hist, clientVars, events>>
-----------------------------------------------------------------------------
(* What is mounted: ProtectedRoute calls the hook, and so do the parts of the page below  *)
(* it, which are gone while the query loads and while the route redirects to the login.   *)

Hooks   == {"route"} \cup Below
Loading == perm.fetch # "idle" /\ perm.data = None
Shown   == store.token # None /\ perm # NoQuery /\ ~Loading /\ perm.error # "401"

\* refreshingRef of a mounted hook.
Busy(rs, h) == \E i \in 1..MaxRefreshes : rs[i] # Free /\ rs[i].ref = h

\* The hooks that unmount take their refs along; their refreshes go on.
Orphaned(rs, hooks) ==
  [i \in 1..MaxRefreshes |->
     IF rs[i] # Free /\ rs[i].ref \in hooks THEN [rs[i] EXCEPT !.ref = "none"] ELSE rs[i]]

NewRefresh(kind, ref) ==
  [st |-> "asked", kind |-> kind, user |-> store.token.user, own |-> TRUE, ref |-> ref,
   answer |-> None]
FreeSlots(rs) == {i \in 1..MaxRefreshes : rs[i] = Free}

\* Each of the hooks whose ref is free calls refreshSession.
Start(rs, hooks, kind) ==
  LET idle == {h \in hooks : ~Busy(rs, h)}
  IN  \E f \in [idle -> FreeSlots(rs)] :
        /\ \A g, h \in idle : f[g] = f[h] => g = h
        /\ \A h \in idle : \A i \in FreeSlots(rs) : i < f[h] => \E g \in idle : f[g] = i
        /\ "route" \in idle => \A h \in idle : f["route"] <= f[h]
        /\ refreshes' = [i \in 1..MaxRefreshes |->
             IF \E h \in idle : f[h] = i
             THEN NewRefresh(kind, CHOOSE h \in idle : f[h] = i) ELSE rs[i]]

\* A hook that unmounts at once calls it.
StartOrphan(rs) ==
  \E i \in FreeSlots(rs) : /\ \A j \in FreeSlots(rs) : i <= j
                           /\ refreshes' = [rs EXCEPT ![i] = NewRefresh("error", "none")]

\* One has ended; those after it move up.
Without(i) ==
  [j \in 1..MaxRefreshes |-> IF j < i THEN refreshes[j]
                             ELSE IF j < MaxRefreshes THEN refreshes[j + 1] ELSE Free]

\* The session they belong to is over.
Disowned(rs) ==
  [i \in 1..MaxRefreshes |-> IF rs[i] = Free THEN Free
                             ELSE [rs[i] EXCEPT !.own = FALSE, !.ref = "none"]]

\* clearSession: every hook unmounts.
Cleared(rs) ==
  /\ store' = SignedOut /\ perm' = NoQuery /\ refreshes' = Disowned(rs)
  /\ mixed' = FALSE /\ failed' = FALSE
-----------------------------------------------------------------------------
(* The permissions query, and the hook's effects.                           *)

PermAnswer ==
  /\ perm.fetch = "asked"
  /\ perm' = [perm EXCEPT !.fetch = "answered", !.answer = Now(store.token.user)]
  /\ UNCHANGED <<serverVars, store, refreshes, login, visit, mixed, failed, events>>

\* The data effect: the permissions are stored, and a token that differs is refreshed.
PermData ==
  LET latest == perm.answer
  IN  /\ perm.fetch = "answered"
      /\ perm' = [NoQuery EXCEPT !.data = latest]
      /\ store' = [store EXCEPT !.perms = latest]
      /\ IF Same(latest, store.perms) THEN UNCHANGED refreshes
         ELSE Start(refreshes, Hooks, "data")
      /\ UNCHANGED <<serverVars, login, visit, mixed, failed, events>>

\* The error effect.  After a 401 the route redirects to the login and from there to the
\* dashboard: it mounts again and asks again, and as long as there are older permissions the
\* error stands and it redirects again (Redirect).  Without older permissions the page
\* mounts on any error, and asks again.  A network error starts no refresh.
PermError(error) ==
  LET old == perm.data # None
  IN  /\ perm.fetch # "idle" /\ events < MaxEvents /\ events' = events + 1
      /\ perm' = IF ~old THEN NewQuery
                 ELSE IF error = "401"
                 THEN [NewQuery EXCEPT !.data = perm.data, !.error = "401"]
                 ELSE [NoQuery EXCEPT !.data = perm.data,
                                      !.error = IF error = "api" THEN "api" ELSE "no"]
      /\ CASE error = "net" -> UNCHANGED refreshes
           [] error = "401" /\ Busy(refreshes, "route") -> refreshes' = Orphaned(refreshes, Hooks)
           [] error = "401" /\ ~Busy(refreshes, "route") -> StartOrphan(Orphaned(refreshes, Hooks))
           [] error = "api" -> Start(refreshes, IF old THEN Hooks ELSE {"route"}, "error")
      /\ UNCHANGED <<serverVars, store, login, visit, mixed, failed>>

Redirect ==
  /\ perm.error = "401" /\ StartOrphan(refreshes)
  /\ UNCHANGED <<serverVars, store, perm, login, visit, mixed, failed, events>>

\* The window gets the focus a minute later.
SessionRefocus ==
  /\ store.token # None /\ perm # NoQuery /\ perm.fetch = "idle"
  /\ perm' = [perm EXCEPT !.fetch = "asked"]
  /\ UNCHANGED <<serverVars, store, refreshes, login, visit, mixed, failed, events>>
-----------------------------------------------------------------------------
(* The refreshes.                                                           *)

\* RefreshSession reads the permissions first, and the version when it signs.
RefreshRead(i) ==
  /\ refreshes[i].st = "asked"
  /\ refreshes' = [refreshes EXCEPT ![i].st = "signing", ![i].answer = Now(refreshes[i].user)]
  /\ UNCHANGED <<serverVars, store, perm, login, visit, mixed, failed, events>>

RefreshSign(i) ==
  /\ refreshes[i].st = "signing"
  /\ refreshes' = [refreshes EXCEPT ![i].st = "answered", ![i].answer = Signed(refreshes[i].answer)]
  /\ UNCHANGED <<serverVars, store, perm, login, visit, mixed, failed, events>>

\* updateSessionToken, whatever the session is by now: a new token has a query of its own,
\* and the page unmounts while that loads.
RefreshLand(i) ==
  LET r == refreshes[i]
  IN  /\ r.st = "answered"
      /\ store' = [store EXCEPT !.token = r.answer, !.perms = List(r.answer)]
      /\ perm' = NewQuery
      /\ refreshes' = Orphaned(Without(i), Below)
      /\ mixed' = (mixed \/ ~r.own) /\ failed' = FALSE
      /\ UNCHANGED <<serverVars, login, visit, events>>

RefreshFail(i) ==
  /\ refreshes[i] # Free /\ events < MaxEvents /\ events' = events + 1
  /\ IF refreshes[i].kind = "error"
     THEN Cleared(Without(i))
     ELSE /\ refreshes' = Without(i) /\ failed' = TRUE
          /\ UNCHANGED <<store, perm, mixed>>
  /\ UNCHANGED <<serverVars, login, visit>>
-----------------------------------------------------------------------------
(* Login, sign-out, reload.                                                 *)

LoginAsk(u) ==
  /\ store.token = None /\ login = Free /\ events < MaxEvents /\ events' = events + 1
  /\ login' = [st |-> "asked", user |-> u, answer |-> None]
  /\ UNCHANGED <<serverVars, store, perm, refreshes, visit, mixed, failed>>

LoginRead ==
  /\ login.st = "asked"
  /\ login' = [login EXCEPT !.st = "signing", !.answer = Now(login.user)]
  /\ UNCHANGED <<serverVars, store, perm, refreshes, visit, mixed, failed, events>>

LoginSign ==
  /\ login.st = "signing"
  /\ login' = [login EXCEPT !.st = "answered", !.answer = Signed(login.answer)]
  /\ UNCHANGED <<serverVars, store, perm, refreshes, visit, mixed, failed, events>>

\* setSession; every query of the new token is new.
TokenOnly(answer) == [store EXCEPT !.token = answer]
Session(answer)   == [token |-> answer, user |-> login.user, perms |-> List(answer)]
LoginLand ==
  /\ login.st = "answered"
  /\ store' = Session(login.answer)
  /\ perm' = NewQuery /\ login' = Free
  /\ refreshes' = Disowned(refreshes)
  /\ mixed' = FALSE /\ failed' = FALSE
  /\ UNCHANGED <<serverVars, visit, events>>

LoginFail ==
  /\ login # Free /\ login' = Free
  /\ perm' = IF store.token # None /\ perm = NoQuery THEN NewQuery ELSE perm
  /\ UNCHANGED <<serverVars, store, refreshes, visit, mixed, failed, events>>

\* The page is loaded anew: requests under way are lost, the store is not.  On the way
\* back from the identity provider the callback page refreshes the token it is given.
Reload(back, u) ==
  /\ events < MaxEvents /\ events' = events + 1
  /\ refreshes' = [i \in 1..MaxRefreshes |-> Free] /\ visit' = Free
  /\ failed' = (failed \/ \E i \in 1..MaxRefreshes : refreshes[i] # Free)
  /\ login' = IF back THEN [st |-> "asked", user |-> u, answer |-> None] ELSE Free
  /\ perm'  = IF back \/ store.token = None THEN NoQuery ELSE NewQuery
  /\ UNCHANGED <<serverVars, store, mixed>>

SignOut ==
  /\ Shown /\ Cleared(refreshes)
  /\ UNCHANGED <<serverVars, login, visit, events>>
-----------------------------------------------------------------------------
(* The pages.                                                               *)

Admitted(p) ==
  p = "dashboard" \/ RoutePermission[p] \in Codes(perm.data) \cup Codes(store.perms)

\* The parts of the page mount anew; an error that stands takes effect in them as well.
Visit(p) ==
  /\ Shown /\ visit = Free /\ Admitted(p)
  /\ visit' = [st |-> "asked", page |-> p, token |-> store.token]
  /\ IF perm.error = "no"
     THEN refreshes' = Orphaned(refreshes, Below) /\ UNCHANGED perm
     ELSE /\ Start(Orphaned(refreshes, Below), Below, "error")
          /\ perm' = [perm EXCEPT !.fetch = IF @ = "idle" THEN "asked" ELSE @]
  /\ UNCHANGED <<serverVars, store, login, mixed, failed, events>>

\* The gateway looks at the version of the token first, at its permissions next.
GatewayCheck ==
  LET t == visit.token
      status == IF t.ver < version[t.user] THEN "401"
                ELSE IF GatewayPermission[visit.page] \notin Codes(t) THEN "403" ELSE "passed"
  IN  /\ visit.st = "asked" /\ visit' = [visit EXCEPT !.st = status]
      /\ UNCHANGED <<serverVars, store, perm, refreshes, login, mixed, failed, events>>

\* user-service asks PostgreSQL again; the other services go by what the gateway passes on.
OfUserService == {"dashboard", "users", "roles", "tenants"}
ServiceCheck ==
  LET lacks  == visit.page \in OfUserService
                /\ GatewayPermission[visit.page] \notin Codes(Now(visit.token.user))
  IN  /\ visit.st = "passed" /\ visit' = [visit EXCEPT !.st = IF lacks THEN "403" ELSE "200"]
      /\ UNCHANGED <<serverVars, store, perm, refreshes, login, mixed, failed, events>>

\* apiRequest: a refusal clears the session, whatever it is by now.
VisitHear ==
  /\ visit.st \in {"200", "401", "403"} /\ visit' = Free
  /\ IF visit.st = "200" THEN UNCHANGED <<store, perm, refreshes, mixed, failed>>
     ELSE Cleared(refreshes)
  /\ UNCHANGED <<serverVars, login, events>>

SessionNext ==
  \/ \E u \in Changed, g \in Grants : Grant(u, g)
  \/ \E u \in Changed : \E n \in owing[u] : Bump(u, n)
  \/ PermAnswer \/ PermData \/ Redirect \/ SessionRefocus
  \/ \E e \in {"401", "api", "net"} : PermError(e)
  \/ \E i \in 1..MaxRefreshes :
       RefreshRead(i) \/ RefreshSign(i) \/ RefreshLand(i) \/ RefreshFail(i)
  \/ \E u \in SessionUsers : LoginAsk(u)
  \/ LoginRead \/ LoginSign \/ LoginLand \/ LoginFail \/ SignOut
  \/ Reload(FALSE, None) \/ \E u \in SessionUsers : Reload(TRUE, u)
  \/ (\E p \in Visited : Visit(p)) \/ GatewayCheck \/ ServiceCheck \/ VisitHear

SessionSpec == SessionInit /\ [][SessionNext]_sessionVars

\* Every request of the hook is answered or fails, and the answer is taken.  Slots move up,
\* so that of the refreshes this says that one of them goes on.
FairSessionSpec ==
  /\ SessionSpec /\ WF_sessionVars(PermAnswer \/ PermData)
  /\ WF_sessionVars(\E i \in 1..MaxRefreshes : RefreshRead(i) \/ RefreshSign(i) \/ RefreshLand(i))
-----------------------------------------------------------------------------
\* The stored token, user and permissions are those of one user, except after a refresh
\* that outlived its session has landed (stores/auth.ts:44, usePermissionsSync.ts:22).
PermissionsAreOwn ==
  store.token # None /\ ~mixed =>
    store.user = store.token.user /\ store.perms.user = store.user

\* With nothing under way, the token carries the permissions the client goes by, unless the
\* last refresh failed: no difference is overlooked while another refresh is under way
\* (usePermissionsSync.ts:60).
Quiet == perm.fetch = "idle" /\ \A i \in 1..MaxRefreshes : refreshes[i] = Free
SettledTokenMatches ==
  Quiet /\ store.token # None /\ ~failed => Codes(store.token) = Codes(store.perms)

\* The commits after the permissions of a token that the version has not counted against it:
\* it counts them later, or never, or it counted them before the token was signed.
Missed(t) ==
  {n \in t.rev + 1 .. Len(hist[t.user]) : n \in owing[t.user] \cup t.straddled}

\* A page the routes have admitted to is refused for want of a permission only on account of
\* a missed commit: at the gateway one that gives it, at the service the last, which takes it
\* away, unless the version has gone up since the gateway looked.  The dashboard admits
\* everybody (App.tsx:45, gateway/src/routing/rbac.rs, user-service service.go:271-278).
OnlyMissedChangesForbid ==
  [][LET t == visit.token
         code == RoutePermission[visit.page]
     IN  visit.st # "free" /\ visit'.st = "403" /\ visit.st # "403" /\ visit.page # "dashboard" =>
           \/ visit.st = "asked"  /\ \E n \in Missed(t) : code \in hist[t.user][n]
           \/ visit.st = "passed" /\ (Len(hist[t.user]) \in Missed(t) \/ version[t.user] > t.ver)
    ]_sessionVars

\* The refreshes come to an end: a new token, its permissions, and no difference that
\* starts the next (usePermissionsSync.ts:54-85).
SyncSettles == []<>Quiet
=============================================================================
