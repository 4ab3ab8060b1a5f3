----------------------------- MODULE PermVersion -----------------------------
(***************************************************************************)
(* Permissions in tokens and their revocation.  user-service copies the    *)
(* permissions of a user from PostgreSQL into the token it issues, with    *)
(* the user's permission version from Redis; PUT .../roles/:id/permissions *)
(* replaces the permissions of a role in a transaction and then increments *)
(* the version of every holder; the gateway refuses a token whose version  *)
(* is behind.  No transaction spans the two stores, so tokens are issued   *)
(* between any two of those steps.                                         *)
(*                                                                         *)
(* One role, held by all Users.  A login (a password login, a refresh or   *)
(* an OIDC login) and an update are used once.                             *)
(***************************************************************************)
EXTENDS Naturals

CONSTANTS
  Users,      \* the holders of the role
  Seen,       \* those whose version key exists: they have had a token before
  Perms,      \* the permission codes in the table permissions
  Unknown,    \* a code that is not in it
  Logins,     \* the requests that issue a token
  Updates,    \* the requests that replace the role's permissions
  Seed,       \* who granted the permissions the role starts with
  NoKey       \* Redis has no such key

ASSUME PermVersionAssumption ==
  /\ Seen \subseteq Users /\ Unknown \notin Perms
  /\ Seed \notin Updates /\ NoKey \notin Nat

VARIABLES
  rows,       \* role_permissions: a committed tuple is a grant of a permission by a writer
  ver,        \* Redis perm:ver:<user>
  lpc, who, carried, stamp,          \* a login: its step, user, permissions, version
  upc, codes, snap, held, todo,      \* an update: its step, request, DELETE snapshot,
                                     \* tuples it has deleted, users left to increment
  revoked,    \* history: tokens that existed when their user's version was incremented
  missed,     \* history: the updates committed since a login read the permissions
  straddled,  \* history: those of them that reached Redis before it read the version
  bumped,     \* history: the users an update has incremented
  mixed       \* history: updates whose transaction overlapped another's

logins  == <<lpc, who, carried, stamp>>
updates == <<upc, codes, snap, held, todo>>
history == <<revoked, missed, straddled, bumped, mixed>>
vars    == <<rows, ver, lpc, who, carried, stamp, upc, codes, snap, held, todo,
             revoked, missed, straddled, bumped, mixed>>

-----------------------------------------------------------------------------
Grants     == [perm : Perms, by : Updates \cup {Seed}]
LoginSteps == {"idle", "version", "fill", "issued", "failed"}
Steps      == {"idle", "delete", "lock", "insert", "list", "bump", "ok", "failed"}
InTx       == {"lock", "insert"}          \* holding a snapshot or row locks

Granted(rs) == {g.perm : g \in rs}

\* is_stale_perm_ver, with a missing key read as 1 and a legacy 0 as 1.
Known(v)      == IF v = NoKey THEN 1 ELSE v
Norm(v)       == IF v = 0 THEN 1 ELSE v
BadStale(t, v)  == t > v
LateStale(t, v) == t <= v
Stale(t, v)     == t < v

\* What require_perm_version answers for the token of login l at this moment.
Accepted(l) == lpc[l] = "issued" /\ ~Stale(Norm(stamp[l]), Known(ver[who[l]]))

Init ==
  /\ rows \in {[perm : ps, by : {Seed}] : ps \in SUBSET Perms}
  /\ ver = [u \in Users |-> IF u \in Seen THEN 1 ELSE NoKey]
  /\ lpc = [l \in Logins |-> "idle"] /\ who \in [Logins -> Users]
  /\ carried = [l \in Logins |-> {}] /\ stamp = [l \in Logins |-> 0]
  /\ upc = [a \in Updates |-> "idle"] /\ codes = [a \in Updates |-> {}]
  /\ snap = [a \in Updates |-> {}] /\ held = [a \in Updates |-> {}]
  /\ todo = [a \in Updates |-> {}]
  /\ revoked = {} /\ mixed = {}
  /\ missed = [l \in Logins |-> {}] /\ straddled = [l \in Logins |-> {}]
  /\ bumped = [a \in Updates |-> {}]

-----------------------------------------------------------------------------
(* Issuing a token *)

\* The credentials or the old token are good, the user and the tenant active;
\* ListPermissionsForUser.
ReadPerms(l) ==
  /\ lpc[l] = "idle"
  /\ carried' = [carried EXCEPT ![l] = Granted(rows)]
  /\ lpc' = [lpc EXCEPT ![l] = "version"]
  /\ UNCHANGED <<rows, ver, who, stamp, updates, history>>

\* issueToken: GET in Current; a missing key is to be set, else the token is signed.
ReadVersion(l) ==
  /\ lpc[l] = "version"
  /\ IF ver[who[l]] = NoKey
     THEN lpc' = [lpc EXCEPT ![l] = "fill"] /\ UNCHANGED stamp
     ELSE /\ lpc' = [lpc EXCEPT ![l] = "issued"]
          /\ stamp' = [stamp EXCEPT ![l] = Norm(ver[who[l]])]
  /\ UNCHANGED <<rows, ver, who, carried, updates, history>>

\* SET perm:ver 1, whatever the key holds by now.
FillVersion(l) ==
  /\ lpc[l] = "fill"
  /\ ver' = [ver EXCEPT ![who[l]] = 1]
  /\ stamp' = [stamp EXCEPT ![l] = 1]
  /\ lpc' = [lpc EXCEPT ![l] = "issued"]
  /\ UNCHANGED <<rows, who, carried, updates, history>>

\* The GET or the SET fails and the login answers 500.
LoginFail(l) ==
  /\ lpc[l] \in {"version", "fill"}
  /\ lpc' = [lpc EXCEPT ![l] = "failed"]
  /\ UNCHANGED <<rows, ver, who, carried, stamp, updates, history>>

-----------------------------------------------------------------------------
(* Replacing the permissions of the role *)

\* The role exists; BEGIN.  One unknown code stands for a request with one in it.
UpdateBegin(a) ==
  /\ upc[a] = "idle"
  /\ \E cs \in (SUBSET Perms) \cup {{Unknown}} : codes' = [codes EXCEPT ![a] = cs]
  /\ upc' = [upc EXCEPT ![a] = "delete"]
  /\ UNCHANGED <<rows, ver, logins, snap, held, todo, history>>

\* DELETE FROM role_permissions starts: it sees the tuples committed by now.
DeleteStart(a) ==
  /\ upc[a] = "delete"
  /\ snap' = [snap EXCEPT ![a] = rows]
  /\ upc' = [upc EXCEPT ![a] = "lock"]
  /\ mixed' = LET others == {b \in Updates : upc[b] \in InTx} IN
              IF others = {} THEN mixed ELSE mixed \cup others \cup {a}
  /\ UNCHANGED <<rows, ver, logins, codes, held, todo, revoked, missed, straddled, bumped>>

\* The DELETE gets its row locks: it has waited for every transaction that deleted
\* one of those tuples, and passes over the ones that are gone.
DeleteRows(a) ==
  /\ upc[a] = "lock"
  /\ \A b \in Updates \ {a} : held[b] \cap snap[a] = {}
  /\ held' = [held EXCEPT ![a] = snap[a] \cap rows]
  /\ snap' = [snap EXCEPT ![a] = {}]
  /\ upc' = [upc EXCEPT ![a] = "insert"]
  /\ UNCHANGED <<rows, ver, logins, codes, todo, history>>

\* The INSERTs, ON CONFLICT DO NOTHING, and COMMIT.  A permission another
\* transaction is deleting is waited for.
Commit(a) ==
  /\ upc[a] = "insert" /\ Unknown \notin codes[a]
  /\ LET kept == rows \ held[a] IN
     /\ \A b \in Updates \ {a} : Granted(held[b] \cap kept) \cap codes[a] = {}
     /\ rows' = kept \cup [perm : codes[a] \ Granted(kept), by : {a}]
  /\ held' = [held EXCEPT ![a] = {}]
  /\ upc' = [upc EXCEPT ![a] = "list"]
  /\ missed' = [l \in Logins |-> IF lpc[l] \in {"version", "fill", "issued"}
                                 THEN missed[l] \cup {a} ELSE missed[l]]
  /\ UNCHANGED <<ver, logins, codes, snap, todo, revoked, straddled, bumped, mixed>>

\* An unknown code: ErrInvalidPermission, the deferred Rollback, 400.
RefuseCodes(a) ==
  /\ upc[a] = "insert" /\ Unknown \in codes[a]
  /\ upc' = [upc EXCEPT ![a] = "failed"]
  /\ held' = [held EXCEPT ![a] = {}]
  /\ UNCHANGED <<rows, ver, logins, codes, snap, todo, history>>

\* For comparison: the update answers without incrementing anything.
BadListHolders(a) ==
  /\ upc[a] = "list"
  /\ upc' = [upc EXCEPT ![a] = "ok"]
  /\ UNCHANGED <<rows, ver, logins, codes, snap, held, todo, history>>

\* ListUserIDsByRole.
ListHolders(a) ==
  /\ upc[a] = "list"
  /\ todo' = [todo EXCEPT ![a] = Users]
  /\ upc' = [upc EXCEPT ![a] = IF Users = {} THEN "ok" ELSE "bump"]
  /\ UNCHANGED <<rows, ver, logins, codes, snap, held, history>>

\* One INCR of the pipeline of BumpUsers; other clients' commands may run between
\* two of them.  After the last one the update answers 200.
Bump(a, u) ==
  /\ upc[a] = "bump" /\ u \in todo[a]
  /\ ver' = [ver EXCEPT ![u] = IF @ = NoKey THEN 1 ELSE @ + 1]
  /\ todo' = [todo EXCEPT ![a] = @ \ {u}]
  /\ upc' = [upc EXCEPT ![a] = IF todo[a] = {u} THEN "ok" ELSE "bump"]
  /\ bumped' = [bumped EXCEPT ![a] = @ \cup {u}]
  /\ revoked' = revoked \cup {l \in Logins : lpc[l] = "issued" /\ who[l] = u}
  /\ straddled' = [l \in Logins |-> IF lpc[l] = "version" /\ who[l] = u
                                    THEN straddled[l] \cup {a} ELSE straddled[l]]
  /\ UNCHANGED <<rows, logins, codes, snap, held, missed, mixed>>

\* A statement or the process fails: the transaction, if it is open, rolls back;
\* what is committed or incremented stays.
UpdateFail(a) ==
  /\ upc[a] \in {"delete", "lock", "insert", "list", "bump"}
  /\ upc' = [upc EXCEPT ![a] = "failed"]
  /\ held' = [held EXCEPT ![a] = {}] /\ snap' = [snap EXCEPT ![a] = {}]
  /\ UNCHANGED <<rows, ver, logins, codes, todo, history>>

Next ==
  \/ \E l \in Logins : \/ ReadPerms(l) \/ ReadVersion(l)
                       \/ FillVersion(l) \/ LoginFail(l)
  \/ \E a \in Updates : \/ UpdateBegin(a) \/ DeleteStart(a) \/ DeleteRows(a)
                        \/ Commit(a) \/ RefuseCodes(a) \/ ListHolders(a)
                        \/ UpdateFail(a)
                        \/ \E u \in Users : Bump(a, u)

Spec == Init /\ [][Next]_vars
-----------------------------------------------------------------------------
(* Properties *)

\* Every variable has its type; row locks are held only inside a transaction, and an
\* update has users left to increment only while it is incrementing.
TypeOK ==
  /\ rows \subseteq Grants
  /\ ver \in [Users -> Nat \cup {NoKey}]
  /\ lpc \in [Logins -> LoginSteps] /\ who \in [Logins -> Users]
  /\ carried \in [Logins -> SUBSET Perms] /\ stamp \in [Logins -> Nat]
  /\ upc \in [Updates -> Steps] /\ codes \in [Updates -> SUBSET (Perms \cup {Unknown})]
  /\ snap \in [Updates -> SUBSET Grants] /\ held \in [Updates -> SUBSET Grants]
  /\ todo \in [Updates -> SUBSET Users]
  /\ revoked \subseteq Logins /\ mixed \subseteq Updates
  /\ missed \in [Logins -> SUBSET Updates] /\ straddled \in [Logins -> SUBSET Updates]
  /\ bumped \in [Updates -> SUBSET Users]
  /\ \A a \in Updates : held[a] # {} => upc[a] = "insert"

\* A token that existed when its user's version was incremented is never accepted
\* again, whatever other logins, refreshes and updates do to the key (Current,
\* BumpUsers, ensure_current); here for the users whose key existed from the start.
RevokedStaysRevoked ==
  \A l \in revoked : who[l] \in Seen => ~Accepted(l)

\* What an accepted token says is what the role grants now, although permissions and
\* version are read from two stores: the exceptions are an update that has not
\* finished, one that failed after its commit, and a login whose two reads lie on
\* the two sides of an update's increment.
FreshPermissions ==
  \A l \in Logins :
    /\ Accepted(l) /\ who[l] \in Seen
    /\ straddled[l] = {} /\ \A a \in missed[l] : upc[a] = "ok"
    => carried[l] = Granted(rows)

\* A token is refused only because an update incremented its user's version after
\* the token's version was read: no login, and no first fill, locks a user out.
NoSpuriousRefusal ==
  \A l \in Logins : lpc[l] = "issued" /\ ~Accepted(l) => l \in revoked

\* A transaction that overlaps no other leaves the role with exactly the permissions
\* of its request, whatever the role had (SetRolePermissions: DELETE, then INSERTs).
UpdateReplaces ==
  [][\A a \in Updates \ mixed :
       upc[a] = "insert" /\ upc'[a] = "list" => Granted(rows') = codes[a]]_vars
=============================================================================
