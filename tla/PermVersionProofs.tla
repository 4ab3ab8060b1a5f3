-------------------------- MODULE PermVersionProofs --------------------------
(***************************************************************************)
(* Proofs about PermVersion, for any users, permissions, logins, updates.  *)
(***************************************************************************)
EXTENDS PermVersion, TLAPS

\* A key that exists counts from 1 and, for a user who has had a token, is never
\* missing: such a login does not fill it.
Keys ==
  /\ \A u \in Users : ver[u] # NoKey => ver[u] >= 1
  /\ \A u \in Seen : ver[u] # NoKey
  /\ \A l \in Logins : who[l] \in Seen => lpc[l] # "fill"

\* A token's version is never ahead of its user's key, is behind it once the key has
\* been incremented, and only then.
Stamps ==
  \A l \in Logins :
    /\ l \in revoked => lpc[l] = "issued"
    /\ lpc[l] = "issued" =>
         /\ ver[who[l]] # NoKey /\ stamp[l] >= 1
         /\ who[l] \in Seen => stamp[l] <= ver[who[l]]
         /\ who[l] \in Seen /\ l \in revoked => stamp[l] < ver[who[l]]
         /\ l \notin revoked => stamp[l] >= ver[who[l]]

\* Whom an update has incremented follows from its step.
Bumps ==
  \A a \in Updates :
    /\ upc[a] \notin {"bump", "ok", "failed"} => bumped[a] = {}
    /\ upc[a] = "bump" => Users \subseteq todo[a] \cup bumped[a]
    /\ upc[a] = "ok" => Users \subseteq bumped[a]

\* A login knows nothing of an update before it reads the permissions, and of one
\* that committed since then and has incremented its user it holds the old
\* permissions: either it is yet to read the version, or it is revoked.
Misses ==
  \A l \in Logins :
    /\ lpc[l] = "idle" => missed[l] = {}
    /\ \A a \in missed[l] : upc[a] \in {"list", "bump", "ok", "failed"}
    /\ \A a \in missed[l] :
         who[l] \in Seen /\ lpc[l] \in {"version", "issued"} /\ who[l] \in bumped[a] =>
           a \in straddled[l] \/ (lpc[l] = "issued" /\ l \in revoked)
    /\ lpc[l] \in {"version", "fill", "issued"} /\ missed[l] = {} =>
         carried[l] = Granted(rows)

\* A transaction that overlaps no other is alone, and has seen or locked all tuples.
Alone ==
  \A a \in Updates \ mixed :
    /\ upc[a] \in InTx => \A b \in Updates \ {a} : upc[b] \notin InTx
    /\ upc[a] = "lock" => snap[a] = rows
    /\ upc[a] = "insert" => held[a] = rows

IInv == TypeOK /\ Keys /\ Stamps /\ Bumps /\ Misses /\ Alone

-----------------------------------------------------------------------------
\* Norm and Known give naturals: the versions the gateway compares.
LEMMA Versions ==
  \A v \in Nat : /\ Norm(v) \in Nat /\ (v >= 1 => Norm(v) = v)
                 /\ Known(v) = v
  BY PermVersionAssumption DEF Norm, Known

\* A writer's grants are grants.
LEMMA GrantTypes ==
  \A a \in Updates : \A ps \in SUBSET Perms : [perm : ps, by : {a}] \subseteq Grants
  BY DEF Grants

\* The permissions granted by typed tuples are permissions.
LEMMA GrantedType == \A rs \in SUBSET Grants : Granted(rs) \subseteq Perms
  BY DEF Granted, Grants

\* The initial states are typed.
LEMMA InitType == Init => TypeOK
<1> SUFFICES ASSUME Init PROVE TypeOK
  OBVIOUS
<1>1. PICK ps \in SUBSET Perms : rows = [perm : ps, by : {Seed}]
  BY DEF Init
<1>2. rows \subseteq Grants
  BY <1>1 DEF Grants
<1> QED BY <1>2 DEF Init, TypeOK, LoginSteps, Steps

\* A step keeps the types.
LEMMA TypeStep == ASSUME TypeOK, [Next]_vars PROVE TypeOK'
<1> USE DEF TypeOK, logins, updates, history, LoginSteps, Steps
<1>1. ASSUME NEW l \in Logins, ReadPerms(l) PROVE TypeOK'
  BY <1>1, GrantedType DEF ReadPerms
<1>2. ASSUME NEW l \in Logins, ReadVersion(l) PROVE TypeOK'
  BY <1>2, Versions DEF ReadVersion
<1>3. ASSUME NEW l \in Logins, FillVersion(l) PROVE TypeOK'
  BY <1>3 DEF FillVersion
<1>4. ASSUME NEW l \in Logins, LoginFail(l) PROVE TypeOK'
  BY <1>4 DEF LoginFail
<1>5. ASSUME NEW a \in Updates, UpdateBegin(a) PROVE TypeOK'
  BY <1>5 DEF UpdateBegin
<1>6. ASSUME NEW a \in Updates, DeleteStart(a) PROVE TypeOK'
  BY <1>6 DEF DeleteStart
<1>7. ASSUME NEW a \in Updates, DeleteRows(a) PROVE TypeOK'
  BY <1>7 DEF DeleteRows
<1>8. ASSUME NEW a \in Updates, Commit(a) PROVE TypeOK'
  <2>1. codes[a] \in SUBSET Perms
    BY <1>8 DEF Commit
  <2>2. rows' \subseteq Grants
    BY <1>8, <2>1, GrantTypes DEF Commit
  <2> QED BY <1>8, <2>2 DEF Commit
<1>9. ASSUME NEW a \in Updates, RefuseCodes(a) PROVE TypeOK'
  BY <1>9 DEF RefuseCodes
<1>10. ASSUME NEW a \in Updates, ListHolders(a) PROVE TypeOK'
  BY <1>10 DEF ListHolders
<1>11. ASSUME NEW a \in Updates, UpdateFail(a) PROVE TypeOK'
  BY <1>11 DEF UpdateFail
<1>12. ASSUME NEW a \in Updates, NEW u \in Users, Bump(a, u) PROVE TypeOK'
  BY <1>12 DEF Bump
<1>13. CASE UNCHANGED vars
  BY <1>13 DEF vars
<1> QED BY <1>1, <1>2, <1>3, <1>4, <1>5, <1>6, <1>7, <1>8, <1>9, <1>10, <1>11, <1>12, <1>13 DEF Next

\* The variables hold what their columns, keys and the handlers' locals can hold.
THEOREM TypeCorrect == Spec => []TypeOK
<1>1. TypeOK /\ [Next]_vars => TypeOK'
  BY TypeStep
<1> QED BY InitType, <1>1, PTL DEF Spec

-----------------------------------------------------------------------------
\* Only Bump and FillVersion write a key; FillVersion never that of a user in Seen.
LEMMA KeysStep ==
  ASSUME TypeOK, Keys, [Next]_vars PROVE Keys'
<1> USE DEF TypeOK, Keys, logins, updates, history
<1>1. ASSUME NEW l \in Logins, ReadPerms(l) PROVE Keys'
  BY <1>1, PermVersionAssumption DEF ReadPerms
<1>2. ASSUME NEW l \in Logins, ReadVersion(l) PROVE Keys'
  BY <1>2, PermVersionAssumption DEF ReadVersion
<1>3. ASSUME NEW l \in Logins, FillVersion(l) PROVE Keys'
  BY <1>3, PermVersionAssumption DEF FillVersion
<1>4. ASSUME NEW l \in Logins, LoginFail(l) PROVE Keys'
  BY <1>4, PermVersionAssumption DEF LoginFail
<1>5. ASSUME NEW a \in Updates, UpdateBegin(a) PROVE Keys'
  BY <1>5, PermVersionAssumption DEF UpdateBegin
<1>6. ASSUME NEW a \in Updates, DeleteStart(a) PROVE Keys'
  BY <1>6, PermVersionAssumption DEF DeleteStart
<1>7. ASSUME NEW a \in Updates, DeleteRows(a) PROVE Keys'
  BY <1>7, PermVersionAssumption DEF DeleteRows
<1>8. ASSUME NEW a \in Updates, Commit(a) PROVE Keys'
  BY <1>8, PermVersionAssumption DEF Commit
<1>9. ASSUME NEW a \in Updates, RefuseCodes(a) PROVE Keys'
  BY <1>9, PermVersionAssumption DEF RefuseCodes
<1>10. ASSUME NEW a \in Updates, ListHolders(a) PROVE Keys'
  BY <1>10, PermVersionAssumption DEF ListHolders
<1>11. ASSUME NEW a \in Updates, UpdateFail(a) PROVE Keys'
  BY <1>11, PermVersionAssumption DEF UpdateFail
<1>12. ASSUME NEW a \in Updates, NEW u \in Users, Bump(a, u) PROVE Keys'
  BY <1>12, PermVersionAssumption DEF Bump
<1>13. CASE UNCHANGED vars
  BY <1>13, PermVersionAssumption DEF vars
<1> QED BY <1>1, <1>2, <1>3, <1>4, <1>5, <1>6, <1>7, <1>8, <1>9, <1>10, <1>11, <1>12, <1>13 DEF Next

\* Versions only rise, but for the first fill, which sets the key to the least one.
LEMMA StampsStep ==
  ASSUME TypeOK, Keys, Stamps, [Next]_vars PROVE Stamps'
<1> USE DEF TypeOK, Keys, Stamps, logins, updates, history
<1>1. ASSUME NEW l \in Logins, ReadPerms(l) PROVE Stamps'
  BY <1>1, PermVersionAssumption DEF ReadPerms
<1>2. ASSUME NEW l \in Logins, ReadVersion(l) PROVE Stamps'
  BY <1>2, PermVersionAssumption, Versions DEF ReadVersion
<1>3. ASSUME NEW l \in Logins, FillVersion(l) PROVE Stamps'
  BY <1>3, PermVersionAssumption DEF FillVersion
<1>4. ASSUME NEW l \in Logins, LoginFail(l) PROVE Stamps'
  BY <1>4, PermVersionAssumption DEF LoginFail
<1>5. ASSUME NEW a \in Updates, UpdateBegin(a) PROVE Stamps'
  BY <1>5, PermVersionAssumption DEF UpdateBegin
<1>6. ASSUME NEW a \in Updates, DeleteStart(a) PROVE Stamps'
  BY <1>6, PermVersionAssumption DEF DeleteStart
<1>7. ASSUME NEW a \in Updates, DeleteRows(a) PROVE Stamps'
  BY <1>7, PermVersionAssumption DEF DeleteRows
<1>8. ASSUME NEW a \in Updates, Commit(a) PROVE Stamps'
  BY <1>8, PermVersionAssumption DEF Commit
<1>9. ASSUME NEW a \in Updates, RefuseCodes(a) PROVE Stamps'
  BY <1>9, PermVersionAssumption DEF RefuseCodes
<1>10. ASSUME NEW a \in Updates, ListHolders(a) PROVE Stamps'
  BY <1>10, PermVersionAssumption DEF ListHolders
<1>11. ASSUME NEW a \in Updates, UpdateFail(a) PROVE Stamps'
  BY <1>11, PermVersionAssumption DEF UpdateFail
<1>12. ASSUME NEW a \in Updates, NEW u \in Users, Bump(a, u) PROVE Stamps'
  BY <1>12, PermVersionAssumption DEF Bump
<1>13. CASE UNCHANGED vars
  BY <1>13, PermVersionAssumption DEF vars
<1> QED BY <1>1, <1>2, <1>3, <1>4, <1>5, <1>6, <1>7, <1>8, <1>9, <1>10, <1>11, <1>12, <1>13 DEF Next

\* Every holder is in todo or already incremented until none is left.
LEMMA BumpsStep ==
  ASSUME TypeOK, Bumps, [Next]_vars PROVE Bumps'
<1> USE DEF TypeOK, Bumps, logins, updates, history
<1>1. ASSUME NEW l \in Logins, ReadPerms(l) PROVE Bumps'
  BY <1>1 DEF ReadPerms
<1>2. ASSUME NEW l \in Logins, ReadVersion(l) PROVE Bumps'
  BY <1>2 DEF ReadVersion
<1>3. ASSUME NEW l \in Logins, FillVersion(l) PROVE Bumps'
  BY <1>3 DEF FillVersion
<1>4. ASSUME NEW l \in Logins, LoginFail(l) PROVE Bumps'
  BY <1>4 DEF LoginFail
<1>5. ASSUME NEW a \in Updates, UpdateBegin(a) PROVE Bumps'
  BY <1>5 DEF UpdateBegin
<1>6. ASSUME NEW a \in Updates, DeleteStart(a) PROVE Bumps'
  BY <1>6 DEF DeleteStart
<1>7. ASSUME NEW a \in Updates, DeleteRows(a) PROVE Bumps'
  BY <1>7 DEF DeleteRows
<1>8. ASSUME NEW a \in Updates, Commit(a) PROVE Bumps'
  BY <1>8 DEF Commit
<1>9. ASSUME NEW a \in Updates, RefuseCodes(a) PROVE Bumps'
  BY <1>9 DEF RefuseCodes
<1>10. ASSUME NEW a \in Updates, ListHolders(a) PROVE Bumps'
  BY <1>10 DEF ListHolders
<1>11. ASSUME NEW a \in Updates, UpdateFail(a) PROVE Bumps'
  BY <1>11 DEF UpdateFail
<1>12. ASSUME NEW a \in Updates, NEW u \in Users, Bump(a, u) PROVE Bumps'
  BY <1>12 DEF Bump
<1>13. CASE UNCHANGED vars
  BY <1>13 DEF vars
<1> QED BY <1>1, <1>2, <1>3, <1>4, <1>5, <1>6, <1>7, <1>8, <1>9, <1>10, <1>11, <1>12, <1>13 DEF Next

\* Commit changes the grants and enters every login that has read them; Bump revokes.
LEMMA MissesStep ==
  ASSUME TypeOK, Keys, Stamps, Bumps, Misses, [Next]_vars PROVE Misses'
<1> USE DEF TypeOK, Keys, Bumps, Misses, logins, updates, history
<1>1. ASSUME NEW l \in Logins, ReadPerms(l) PROVE Misses'
  BY <1>1 DEF ReadPerms
<1>2. ASSUME NEW l \in Logins, ReadVersion(l) PROVE Misses'
  BY <1>2 DEF ReadVersion
<1>3. ASSUME NEW l \in Logins, FillVersion(l) PROVE Misses'
  BY <1>3 DEF FillVersion
<1>4. ASSUME NEW l \in Logins, LoginFail(l) PROVE Misses'
  BY <1>4 DEF LoginFail
<1>5. ASSUME NEW a \in Updates, UpdateBegin(a) PROVE Misses'
  BY <1>5 DEF UpdateBegin
<1>6. ASSUME NEW a \in Updates, DeleteStart(a) PROVE Misses'
  BY <1>6 DEF DeleteStart
<1>7. ASSUME NEW a \in Updates, DeleteRows(a) PROVE Misses'
  BY <1>7 DEF DeleteRows
<1>8. ASSUME NEW a \in Updates, Commit(a) PROVE Misses'
  BY <1>8 DEF Commit
<1>9. ASSUME NEW a \in Updates, RefuseCodes(a) PROVE Misses'
  BY <1>9 DEF RefuseCodes
<1>10. ASSUME NEW a \in Updates, ListHolders(a) PROVE Misses'
  BY <1>10 DEF ListHolders
<1>11. ASSUME NEW a \in Updates, UpdateFail(a) PROVE Misses'
  BY <1>11 DEF UpdateFail
<1>12. ASSUME NEW a \in Updates, NEW u \in Users, Bump(a, u) PROVE Misses'
  BY <1>12 DEF Bump
<1>13. CASE UNCHANGED vars
  BY <1>13 DEF vars
<1> QED BY <1>1, <1>2, <1>3, <1>4, <1>5, <1>6, <1>7, <1>8, <1>9, <1>10, <1>11, <1>12, <1>13 DEF Next

\* A transaction joins mixed with all those open when its DELETE starts.
LEMMA AloneStep ==
  ASSUME TypeOK, Alone, [Next]_vars PROVE Alone'
<1> USE DEF TypeOK, Alone, InTx, logins, updates, history
<1>1. ASSUME NEW l \in Logins, ReadPerms(l) PROVE Alone'
  BY <1>1 DEF ReadPerms
<1>2. ASSUME NEW l \in Logins, ReadVersion(l) PROVE Alone'
  BY <1>2 DEF ReadVersion
<1>3. ASSUME NEW l \in Logins, FillVersion(l) PROVE Alone'
  BY <1>3 DEF FillVersion
<1>4. ASSUME NEW l \in Logins, LoginFail(l) PROVE Alone'
  BY <1>4 DEF LoginFail
<1>5. ASSUME NEW a \in Updates, UpdateBegin(a) PROVE Alone'
  BY <1>5 DEF UpdateBegin
<1>6. ASSUME NEW a \in Updates, DeleteStart(a) PROVE Alone'
  BY <1>6 DEF DeleteStart
<1>7. ASSUME NEW a \in Updates, DeleteRows(a) PROVE Alone'
  BY <1>7 DEF DeleteRows
<1>8. ASSUME NEW a \in Updates, Commit(a) PROVE Alone'
  BY <1>8 DEF Commit
<1>9. ASSUME NEW a \in Updates, RefuseCodes(a) PROVE Alone'
  BY <1>9 DEF RefuseCodes
<1>10. ASSUME NEW a \in Updates, ListHolders(a) PROVE Alone'
  BY <1>10 DEF ListHolders
<1>11. ASSUME NEW a \in Updates, UpdateFail(a) PROVE Alone'
  BY <1>11 DEF UpdateFail
<1>12. ASSUME NEW a \in Updates, NEW u \in Users, Bump(a, u) PROVE Alone'
  BY <1>12 DEF Bump
<1>13. CASE UNCHANGED vars
  BY <1>13 DEF vars
<1> QED BY <1>1, <1>2, <1>3, <1>4, <1>5, <1>6, <1>7, <1>8, <1>9, <1>10, <1>11, <1>12, <1>13 DEF Next

-----------------------------------------------------------------------------
\* IInv is inductive and holds of every behaviour.
LEMMA Invariance == Spec => []IInv
<1>1. Init => IInv
  <2> SUFFICES ASSUME Init PROVE Keys /\ Stamps /\ Bumps /\ Misses /\ Alone
    BY InitType DEF IInv
  <2>1. Keys
    <3>1. \A u \in Users : (u \in Seen => ver[u] = 1) /\ (u \notin Seen => ver[u] = NoKey)
      BY DEF Init
    <3>2. \A l \in Logins : lpc[l] # "fill"
      BY DEF Init
    <3>3. 1 # NoKey
      BY PermVersionAssumption
    <3> QED BY <3>1, <3>2, <3>3, PermVersionAssumption DEF Keys
  <2>2. Stamps
    BY DEF Init, Stamps
  <2>3. Bumps
    BY DEF Init, Bumps
  <2>4. Misses
    BY DEF Init, Misses
  <2>5. Alone
    BY DEF Init, Alone, InTx
  <2> QED BY <2>1, <2>2, <2>3, <2>4, <2>5
<1>2. IInv /\ [Next]_vars => IInv'
  BY TypeStep, KeysStep, StampsStep, BumpsStep, MissesStep, AloneStep DEF IInv
<1> QED BY <1>1, <1>2, PTL DEF Spec

\* What a version increment has revoked stays revoked, for the users whose key
\* existed; tokens are refused for no other reason; and an accepted token says what
\* the role grants, the three exceptions of FreshPermissions aside.
THEOREM TokensAreSound == Spec => [](RevokedStaysRevoked /\ NoSpuriousRefusal /\ FreshPermissions)
<1>1. IInv => RevokedStaysRevoked
  BY Versions, PermVersionAssumption
  DEF IInv, TypeOK, Stamps, RevokedStaysRevoked, Accepted, Stale
<1>2. IInv => NoSpuriousRefusal
  BY Versions, PermVersionAssumption
  DEF IInv, TypeOK, Stamps, NoSpuriousRefusal, Accepted, Stale
<1>3. IInv => FreshPermissions
  <2> SUFFICES ASSUME IInv, NEW l \in Logins, Accepted(l), who[l] \in Seen,
                      straddled[l] = {}, \A a \in missed[l] : upc[a] = "ok"
               PROVE carried[l] = Granted(rows)
    BY DEF FreshPermissions
  <2>1. lpc[l] = "issued"
    BY DEF Accepted
  <2>2. l \notin revoked
    BY <1>1 DEF RevokedStaysRevoked
  <2>3. missed[l] = {}
    <3> SUFFICES ASSUME NEW a \in missed[l] PROVE FALSE
      OBVIOUS
    <3>1. a \in Updates /\ who[l] \in bumped[a]
      BY DEF IInv, TypeOK, Bumps
    <3> QED BY <2>1, <2>2, <3>1 DEF IInv, Misses
  <2> QED BY <2>1, <2>3 DEF IInv, Misses
<1> QED BY <1>1, <1>2, <1>3, Invariance, PTL

\* A transaction that overlaps no other replaces the permissions of the role by
\* those of its request.
THEOREM UpdatesReplace == Spec => UpdateReplaces
<1>1. IInv /\ [Next]_vars =>
        [\A a \in Updates \ mixed :
           upc[a] = "insert" /\ upc'[a] = "list" => Granted(rows') = codes[a]]_vars
  <2> SUFFICES ASSUME IInv, Next, NEW a \in Updates \ mixed,
                      upc[a] = "insert", upc'[a] = "list"
               PROVE Granted(rows') = codes[a]
    OBVIOUS
  <2>1. Commit(a)
    <3> USE DEF IInv, TypeOK, logins, updates, history
    <3>1. ASSUME NEW l \in Logins, ReadPerms(l) PROVE FALSE
      BY <3>1 DEF ReadPerms
    <3>2. ASSUME NEW l \in Logins, ReadVersion(l) PROVE FALSE
      BY <3>2 DEF ReadVersion
    <3>3. ASSUME NEW l \in Logins, FillVersion(l) PROVE FALSE
      BY <3>3 DEF FillVersion
    <3>4. ASSUME NEW l \in Logins, LoginFail(l) PROVE FALSE
      BY <3>4 DEF LoginFail
    <3>5. ASSUME NEW b \in Updates, UpdateBegin(b) PROVE FALSE
      BY <3>5 DEF UpdateBegin
    <3>6. ASSUME NEW b \in Updates, DeleteStart(b) PROVE FALSE
      BY <3>6 DEF DeleteStart
    <3>7. ASSUME NEW b \in Updates, DeleteRows(b) PROVE FALSE
      BY <3>7 DEF DeleteRows
    <3>8. ASSUME NEW b \in Updates, Commit(b) PROVE b = a
      BY <3>8 DEF Commit
    <3>9. ASSUME NEW b \in Updates, RefuseCodes(b) PROVE FALSE
      BY <3>9 DEF RefuseCodes
    <3>10. ASSUME NEW b \in Updates, ListHolders(b) PROVE FALSE
      BY <3>10 DEF ListHolders
    <3>11. ASSUME NEW b \in Updates, UpdateFail(b) PROVE FALSE
      BY <3>11 DEF UpdateFail
    <3>12. ASSUME NEW b \in Updates, NEW u \in Users, Bump(b, u) PROVE FALSE
      BY <3>12 DEF Bump
    <3> QED BY <3>1, <3>2, <3>3, <3>4, <3>5, <3>6, <3>7, <3>8, <3>9, <3>10, <3>11, <3>12 DEF Next
  <2>2. rows' = [perm : codes[a], by : {a}]
    <3>1. rows \ held[a] = {} /\ Granted({}) = {}
      BY DEF IInv, Alone, Granted
    <3> QED BY <2>1, <3>1 DEF Commit
  <2>3. Granted([perm : codes[a], by : {a}]) = codes[a]
    <3> DEFINE S == [perm : codes[a], by : {a}]
    <3>1. \A g \in S : g.perm \in codes[a]
      OBVIOUS
    <3>2. \A p \in codes[a] : \E g \in S : g.perm = p
      <4> SUFFICES ASSUME NEW p \in codes[a] PROVE \E g \in S : g.perm = p
        OBVIOUS
      <4>1. [perm |-> p, by |-> a] \in S /\ [perm |-> p, by |-> a].perm = p
        OBVIOUS
      <4> QED BY <4>1
    <3> HIDE DEF S
    <3>3. Granted(S) = codes[a]
      BY <3>1, <3>2 DEF Granted
    <3> QED BY <3>3 DEF S
  <2> QED BY <2>2, <2>3
<1> QED BY <1>1, Invariance, PTL DEF Spec, UpdateReplaces
=============================================================================
