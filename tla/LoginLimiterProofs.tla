-------------------------- MODULE LoginLimiterProofs --------------------------
(***************************************************************************)
(* Proofs about LoginLimiter, for any number of handlers, any limit and    *)
(* any window.                                                             *)
(***************************************************************************)
EXTENDS LoginLimiter, FiniteSetTheorems, TLAPS

\* The handlers that may still count a failure.
InFlight == {h \in Handlers : pc[h] \in {"inside", "failed"}}

\* Those that passed the check may all fail: the count and they together.
Budget == count + Cardinality(InFlight) <= Max - 1 + Cardinality(Handlers)

IInv == TypeOK /\ Budget

USE LimiterAssumption

-----------------------------------------------------------------------------
\* Failures a tick later.
Aged(S) == {<<f[1] + 1, f[2]>> : f \in S}

\* No two of them become one.
LEMMA AgedSize ==
  ASSUME NEW S, IsFiniteSet(S), S \subseteq Ages \X Nat
  PROVE  IsFiniteSet(Aged(S)) /\ Cardinality(Aged(S)) = Cardinality(S)
<1> DEFINE F == [f \in S |-> <<f[1] + 1, f[2]>>]
<1>1. \A f \in S : f[1] \in Int /\ f = <<f[1], f[2]>>
  BY DEF Ages
<1>2. F \in [S -> Aged(S)]
  BY DEF Aged
<1>3. \A f, g \in S : F[f] = F[g] => f = g
  <2> SUFFICES ASSUME NEW f \in S, NEW g \in S, F[f] = F[g] PROVE f = g
    OBVIOUS
  <2>1. f[1] + 1 = g[1] + 1 /\ f[2] = g[2]
    OBVIOUS
  <2>2. f[1] = g[1]
    BY <1>1, <2>1
  <2> QED BY <1>1, <2>1, <2>2
<1>4. \A y \in Aged(S) : \E f \in S : F[f] = y
  BY DEF Aged
<1> HIDE DEF F
<1>5. F \in Bijection(S, Aged(S))
  BY <1>2, <1>3, <1>4 DEF Bijection, Injection, IsInjective, Surjection
<1> QED BY <1>5, FS_Bijection DEF ExistsBijection

\* The failures of this tick are finitely many.
LEMMA FreshSize ==
  ASSUME TypeOK
  PROVE  IsFiniteSet(Fresh) /\ Cardinality(Fresh) \in Nat
BY FS_Subset, FS_CardinalityType DEF TypeOK, Fresh

\* The initial states are typed.
LEMMA InitType == Init => TypeOK
<1> SUFFICES ASSUME Init PROVE TypeOK
  OBVIOUS
<1>1. late \in BOOLEAN /\ cut \in BOOLEAN
  BY DEF Init
<1>2. recent \subseteq Ages \X Nat /\ IsFiniteSet(recent)
  BY FS_EmptySet DEF Init
<1>3. \A h \in Handlers : pc[h] = "idle"
  BY DEF Init
<1> QED BY <1>1, <1>2, <1>3 DEF Init, TypeOK, Places

\* A step keeps the types and the shape of the key.
LEMMA TypeStep == ASSUME TypeOK, [Next]_vars PROVE TypeOK'
<1> USE DEF TypeOK, Places, At, redis, history
<1>1. ASSUME Tick PROVE TypeOK'
  <2>1. recent' \subseteq Ages \X Nat /\ IsFiniteSet(recent')
    <3>1. recent' = Aged({f \in recent : f[1] + 1 < Window})
      BY <1>1 DEF Tick, Aged
    <3>2. \A f \in recent : f[1] \in Ages /\ f[2] \in Nat
      OBVIOUS
    <3>3. recent' \subseteq Ages \X Nat
      BY <3>1, <3>2 DEF Ages, Aged
    <3>4. IsFiniteSet({f \in recent : f[1] + 1 < Window})
      BY FS_Subset
    <3> QED BY <3>1, <3>3, <3>4, AgedSize
  <2>2. late' \in BOOLEAN /\ cut' \in BOOLEAN
    BY <1>1 DEF Tick
  <2>3. CASE ttl = 1
    <3>1. count' = 0 /\ ttl' = 0 /\ ~cut' /\ pc' = pc
      BY <1>1, <2>3 DEF Tick
    <3>2. \A h \in Handlers : pc[h] # "expire"
      BY <2>3
    <3> QED BY <2>1, <2>2, <3>1, <3>2
  <2>4. CASE ttl # 1
    <3>1. ttl' = (IF ttl = 0 THEN 0 ELSE ttl - 1) /\ count' = count /\ pc' = pc
      BY <1>1, <2>4 DEF Tick
    <3>2. cut' = cut
      BY <1>1, <2>4 DEF Tick
    <3> QED BY <2>1, <2>2, <2>4, <3>1, <3>2
  <2> QED BY <2>3, <2>4
<1>2. ASSUME NEW h \in Handlers, Enter(h) PROVE TypeOK'
  BY <1>2 DEF Enter
<1>3. ASSUME NEW h \in Handlers, Answer(h) PROVE TypeOK'
  BY <1>3 DEF Answer
<1>4. ASSUME NEW h \in Handlers, Record(h) PROVE TypeOK'
  <2>1. count' = count + 1 /\ recent' = recent \cup {<<0, Cardinality(Fresh) + 1>>}
    BY <1>4 DEF Record, Increment
  <2>2. recent' \subseteq Ages \X Nat /\ IsFiniteSet(recent')
    <3>1. <<0, Cardinality(Fresh) + 1>> \in Ages \X Nat
      BY FreshSize DEF Ages
    <3> QED BY <2>1, <3>1, FS_AddElement
  <2>3. CASE count = 0
    BY <1>4, <2>1, <2>2, <2>3 DEF Record, Increment
  <2>4. CASE count # 0
    BY <1>4, <2>1, <2>2, <2>4 DEF Record, Increment
  <2> QED BY <2>3, <2>4
<1>5. ASSUME NEW h \in Handlers, Expire(h) PROVE TypeOK'
  BY <1>5 DEF Expire
<1>6. ASSUME NEW h \in Handlers, Abandon(h) PROVE TypeOK'
  BY <1>6 DEF Abandon
<1>7. CASE UNCHANGED vars
  BY <1>7 DEF vars
<1> QED BY <1>1, <1>2, <1>3, <1>4, <1>5, <1>6, <1>7 DEF Next

\* The variables hold what Redis and the handlers can hold; the key has its shape.
THEOREM TypeCorrect == Spec => []TypeOK
<1>1. TypeOK /\ [Next]_vars => TypeOK'
  BY TypeStep
<1> QED BY InitType, <1>1, PTL DEF Spec

-----------------------------------------------------------------------------
\* The handlers in flight are some of finitely many.
LEMMA FlightSize ==
  /\ IsFiniteSet(InFlight) /\ Cardinality(InFlight) \in Nat
  /\ Cardinality(Handlers) \in Nat
  /\ Cardinality(InFlight) <= Cardinality(Handlers)
  BY FS_Subset, FS_CardinalityType DEF InFlight

\* A step that lets no handler in and counts nothing spends no budget.
LEMMA Shrink ==
  ASSUME TypeOK, Budget, count' <= count, count' \in Nat, InFlight' \subseteq InFlight
  PROVE  Budget'
<1>1. Cardinality(InFlight') <= Cardinality(InFlight) /\ Cardinality(InFlight') \in Nat
  BY FlightSize, FS_Subset, FS_CardinalityType
<1> QED BY <1>1, FlightSize DEF Budget, TypeOK

\* Only a handler let in below the limit adds to the budget, and only a handler in
\* flight takes from it.
LEMMA BudgetStep == ASSUME TypeOK, Budget, [Next]_vars PROVE Budget'
<1> USE DEF TypeOK, At, redis, history
<1>1. ASSUME Tick PROVE Budget'
  BY <1>1, Shrink DEF Tick, InFlight
<1>2. ASSUME NEW h \in Handlers, Enter(h) PROVE Budget'
  <2>1. InFlight' \subseteq Handlers
    BY DEF InFlight
  <2>2. Cardinality(InFlight') \in Nat /\ Cardinality(InFlight') <= Cardinality(Handlers)
    BY <2>1, FS_Subset, FS_CardinalityType
  <2>3. count' = count /\ count <= Max - 1
    BY <1>2 DEF Enter
  <2> QED BY <2>2, <2>3, FlightSize DEF Budget
<1>3. ASSUME NEW h \in Handlers, Answer(h) PROVE Budget'
  BY <1>3, Shrink DEF Answer, InFlight
<1>4. ASSUME NEW h \in Handlers, Record(h) PROVE Budget'
  <2>1. h \in InFlight /\ InFlight' = InFlight \ {h} /\ count' = count + 1
    BY <1>4 DEF Record, Increment, InFlight
  <2>2. Cardinality(InFlight \ {h}) = Cardinality(InFlight) - 1
    BY <2>1, FlightSize, FS_RemoveElement
  <2> QED BY <2>1, <2>2, FlightSize DEF Budget
<1>5. ASSUME NEW h \in Handlers, Expire(h) PROVE Budget'
  BY <1>5, Shrink DEF Expire, InFlight
<1>6. ASSUME NEW h \in Handlers, Abandon(h) PROVE Budget'
  BY <1>6, Shrink DEF Abandon, InFlight
<1>7. CASE UNCHANGED vars
  BY <1>7, Shrink DEF vars, InFlight
<1> QED BY <1>1, <1>2, <1>3, <1>4, <1>5, <1>6, <1>7 DEF Next

\* IInv holds in every state of every behaviour.
LEMMA Invariant == Spec => []IInv
<1>1. Init => IInv
  <2> SUFFICES ASSUME Init PROVE Budget
    BY InitType DEF IInv
  <2>1. InFlight = {} /\ count = 0
    BY DEF Init, InFlight
  <2> QED BY <2>1, FS_EmptySet, FlightSize DEF Budget
<1>2. IInv /\ [Next]_vars => IInv'
  BY TypeStep, BudgetStep DEF IInv
<1> QED BY <1>1, <1>2, PTL DEF Spec

\* The count never exceeds the limit by more than the other handlers, whatever the
\* order of their GETs and INCRs.
THEOREM CountBounded == Spec => []CountBound
<1>1. IInv => CountBound
  BY FlightSize DEF IInv, TypeOK, Budget, CountBound
<1> QED BY <1>1, Invariant, PTL
-----------------------------------------------------------------------------
(* What a fixed window admits, and whom it blocks *)

\* The failures of a tick are numbered without gaps.
Numbered == \E n \in Nat : Fresh = {0} \X (1..n)

\* The failures of ticks after the one of EXPIRE: when the key goes, the others are as old as
\* the window, the first of the key and those of earlier keys among them.
Since == {f \in recent : f[1] < Window - ttl}
Spent ==
  /\ Cardinality(recent) <= Max - 2 + Cardinality(Handlers) + count
  /\ ttl # 0 => Cardinality(Since) <= count - 1

\* The failures since the tick of EXPIRE, or of this tick when there was none: if that was
\* the tick of the first failure, they are those that the key has counted.
Span    == IF ttl = 0 THEN 0 ELSE Window - ttl
Current == {f \in recent : f[1] <= Span}
Deserved == ~late => count <= Cardinality(Current)

WindowInv == Numbered /\ Spent /\ Deserved

\* All these are finite.
LEMMA Sizes ==
  ASSUME TypeOK
  PROVE  /\ \A S \in SUBSET recent : IsFiniteSet(S) /\ Cardinality(S) \in Nat
                                     /\ Cardinality(S) <= Cardinality(recent)
         /\ Cardinality(Handlers) \in Nat \ {0}
<1>1. \A S \in SUBSET recent : IsFiniteSet(S) /\ Cardinality(S) \in Nat
                               /\ Cardinality(S) <= Cardinality(recent)
  BY FS_Subset, FS_CardinalityType DEF TypeOK
<1>2. Cardinality(Handlers) \in Nat /\ Cardinality(Handlers) # 0
  BY FS_CardinalityType, FS_EmptySet
<1> QED BY <1>1, <1>2

\* A new failure is counted as one more.
LEMMA OneMore ==
  ASSUME TypeOK, Numbered, Increment
  PROVE  LET f == <<0, Cardinality(Fresh) + 1>>
         IN  /\ f \notin recent /\ recent' = recent \cup {f}
             /\ Numbered'
<1> DEFINE k == Cardinality(Fresh)
           f == <<0, k + 1>>
<1>1. PICK n \in Nat : Fresh = {0} \X (1..n)
  BY DEF Numbered
<1>2. k = n
  <2>1. IsFiniteSet(1..n) /\ Cardinality(1..n) = n
    BY FS_Interval
  <2>2. IsFiniteSet({0}) /\ Cardinality({0}) = 1
    BY FS_Singleton
  <2>3. Cardinality({0} \X (1..n)) = 1 * n
    BY <2>1, <2>2, FS_Product
  <2> QED BY <1>1, <2>3
<1>3. f \notin recent
  <2>1. f[1] = 0 /\ f \notin {0} \X (1..n)
    BY <1>2
  <2> QED BY <1>1, <2>1 DEF Fresh
<1>4. recent' = recent \cup {f}
  BY DEF Increment
<1>5. Fresh' = Fresh \cup {f}
  <2>1. Fresh' = {g \in recent \cup {f} : g[1] = 0}
    BY <1>4 DEF Fresh
  <2>2. f[1] = 0
    OBVIOUS
  <2> QED BY <2>1, <2>2 DEF Fresh
<1>6. Fresh' = {0} \X (1..(n + 1))
  <2>1. 1..(n + 1) = (1..n) \cup {n + 1}
    OBVIOUS
  <2> QED BY <1>1, <1>2, <1>5, <2>1
<1>7. Numbered'
  BY <1>6 DEF Numbered
<1> QED BY <1>3, <1>4, <1>7

\* Counting a failure keeps the invariant.
LEMMA WindowRecord ==
  ASSUME TypeOK, WindowInv, NEW h \in Handlers, Record(h)
  PROVE  WindowInv'
<1> DEFINE f == <<0, Cardinality(Fresh) + 1>>
<1>1. Increment
  BY DEF Record
<1>2. f \notin recent /\ recent' = recent \cup {f} /\ Numbered'
  BY <1>1, OneMore DEF WindowInv
<1>3. count' = count + 1 /\ UNCHANGED <<ttl, late>> /\ f[1] = 0
  BY <1>1 DEF Increment
<1>4. Cardinality(recent') = Cardinality(recent) + 1
  BY <1>2, FS_AddElement DEF TypeOK
<1>5. ttl # 0 => Cardinality(Since') <= Cardinality(Since) + 1
  <2>1. Since' \subseteq Since \cup {f}
    BY <1>2, <1>3 DEF Since
  <2>2. IsFiniteSet(Since) /\ Cardinality(Since) \in Nat
    BY Sizes DEF Since
  <2> HIDE DEF f
  <2>3. IsFiniteSet(Since \cup {f}) /\ Cardinality(Since \cup {f}) <= Cardinality(Since) + 1
    <3>1. f \notin Since
      BY <1>2 DEF Since
    <3>2. IsFiniteSet(Since \cup {f}) /\ Cardinality(Since \cup {f}) = Cardinality(Since) + 1
      BY <2>2, <3>1, FS_AddElement
    <3> QED BY <2>2, <3>2
  <2>4. Cardinality(Since') <= Cardinality(Since \cup {f}) /\ Cardinality(Since') \in Nat
    BY <2>1, <2>3, FS_Subset, FS_CardinalityType
  <2>5. Cardinality(Since \cup {f}) \in Nat
    BY <2>3, FS_CardinalityType
  <2> QED BY <2>2, <2>3, <2>4, <2>5
<1>6. Cardinality(Current') = Cardinality(Current) + 1
  <2>1. Span' = Span /\ 0 <= Span
    BY <1>3 DEF Span, TypeOK
  <2>2. Current' = Current \cup {f}
    BY <1>2, <1>3, <2>1 DEF Current
  <2>3. f \notin Current /\ IsFiniteSet(Current)
    BY <1>2, Sizes DEF Current
  <2> QED BY <2>2, <2>3, FS_AddElement
<1>7. Cardinality(Since') \in Nat /\ Cardinality(Since) \in Nat /\ Cardinality(Current) \in Nat
      /\ Cardinality(recent) \in Nat
  <2>1. Since' \subseteq recent' /\ IsFiniteSet(recent')
    BY <1>2, FS_AddElement DEF Since, TypeOK
  <2> QED BY <2>1, Sizes, FS_Subset, FS_CardinalityType DEF Since, Current
<1>8. Spent'
  BY <1>3, <1>4, <1>5, <1>7, Sizes DEF WindowInv, Spent, TypeOK
<1>9. Deserved'
  BY <1>3, <1>6, <1>7 DEF WindowInv, Deserved, TypeOK
<1> QED BY <1>2, <1>8, <1>9 DEF WindowInv

\* EXPIRE starts the window with no failure after it.
LEMMA WindowExpire ==
  ASSUME TypeOK, WindowInv, NEW h \in Handlers, Expire(h)
  PROVE  WindowInv'
<1>1. ttl = 0 /\ ttl' = Window /\ count # 0 /\ UNCHANGED <<count, recent, late>>
  BY DEF Expire, At, TypeOK, history
<1>2. Since' = {} /\ Current' = Current
  <2>1. \A f \in recent : f[1] \in Ages
    BY DEF TypeOK
  <2>2. Since' = {}
    BY <1>1, <2>1 DEF Since, Ages
  <2>3. Span' = Span
    BY <1>1 DEF Span
  <2> QED BY <1>1, <2>2, <2>3 DEF Current
<1>3. Spent'
  BY <1>1, <1>2, FS_EmptySet DEF WindowInv, Spent, TypeOK
<1>4. Deserved' /\ Numbered'
  BY <1>1, <1>2 DEF WindowInv, Deserved, Numbered, Fresh
<1> QED BY <1>3, <1>4 DEF WindowInv

\* A tick makes everything a tick older; when the key goes, only failures after the tick
\* of EXPIRE remain.
LEMMA WindowTick ==
  ASSUME TypeOK, WindowInv, CountBound, Tick
  PROVE  WindowInv'
<1> DEFINE kept == {f \in recent : f[1] + 1 < Window}
<1>1. recent' = Aged(kept) /\ kept \subseteq recent
  BY DEF Tick, Aged
<1>2. \A S \in SUBSET recent : Cardinality(Aged(S)) = Cardinality(S) /\ IsFiniteSet(Aged(S))
  BY Sizes, AgedSize DEF TypeOK
<1>3. \A f \in recent : f[1] \in Ages
  BY DEF TypeOK
<1>4. Cardinality(recent') <= Cardinality(recent)
  BY <1>1, <1>2, Sizes
<1>5. Numbered'
  <2>1. Fresh' = {0} \X (1..0)
    BY <1>1, <1>3 DEF Fresh, Aged, Ages
  <2> QED BY <2>1 DEF Numbered
<1>6. CASE ttl = 1
  <2>1. count' = 0 /\ ttl' = 0
    BY <1>6 DEF Tick
  <2>2. kept = Since
    BY <1>3, <1>6 DEF Since, Ages
  <2>3. Cardinality(recent') = Cardinality(Since)
    <3> HIDE DEF kept
    <3> QED BY <1>1, <1>2, <2>2
  <2>7. Cardinality(recent') <= count - 1
    BY <1>6, <2>3 DEF WindowInv, Spent
  <2>4. Cardinality(Current') \in Nat /\ Cardinality(recent') \in Nat
    BY <1>1, <1>2, FS_Subset, FS_CardinalityType DEF Current
  <2>5. Spent'
    BY <2>1, <2>4, <2>7, Sizes DEF Spent, CountBound, TypeOK
  <2>6. Deserved'
    BY <2>1, <2>4 DEF Deserved
  <2> QED BY <1>5, <2>5, <2>6 DEF WindowInv
<1>7. CASE ttl = 0
  <2>1. count' = count /\ ttl' = 0 /\ late' = (late \/ count # 0)
    BY <1>7 DEF Tick
  <2>2. Cardinality(Current') \in Nat /\ Cardinality(recent') \in Nat
    BY <1>1, <1>2, FS_Subset, FS_CardinalityType DEF Current
  <2>3. Spent'
    BY <1>4, <2>1, <2>2, Sizes DEF WindowInv, Spent, TypeOK
  <2>4. Deserved'
    <3>1. ~late' => count = 0
      BY <2>1
    <3> QED BY <2>1, <2>2, <3>1 DEF Deserved
  <2> QED BY <1>5, <2>3, <2>4 DEF WindowInv
<1>8. CASE ttl > 1
  <2>1. count' = count /\ ttl' = ttl - 1 /\ ttl' # 0 /\ late' = late
    BY <1>8 DEF Tick, TypeOK
  <2>2. Since' = Aged(Since)
    <3>1. Since \subseteq kept
      BY <1>3, <1>8 DEF Since, Ages, TypeOK
    <3>2. \A f \in kept : f \in Since <=> f[1] + 1 < Window - ttl'
      BY <1>3, <2>1 DEF Since, Ages, TypeOK
    <3>3. Since' = {g \in Aged(kept) : g[1] < Window - ttl'}
      BY <1>1 DEF Since
    <3>4. ASSUME NEW g \in Since' PROVE g \in Aged(Since)
      <4>1. PICK f \in kept : g = <<f[1] + 1, f[2]>>
        BY <3>3 DEF Aged
      <4> QED BY <3>2, <3>3, <4>1 DEF Aged
    <3>5. ASSUME NEW g \in Aged(Since) PROVE g \in Since'
      <4>1. PICK f \in Since : g = <<f[1] + 1, f[2]>>
        BY DEF Aged
      <4>2. g \in Aged(kept)
        BY <3>1, <4>1 DEF Aged
      <4> QED BY <3>1, <3>2, <3>3, <4>1, <4>2
    <3> QED BY <3>4, <3>5
  <2>3. Aged(Current) \subseteq Current'
    <3>1. Current \subseteq kept
      BY <1>3, <1>8 DEF Current, Span, Ages, TypeOK
    <3>2. \A f \in Current : f[1] + 1 <= Span'
      BY <1>3, <1>8, <2>1 DEF Current, Span, Ages, TypeOK
    <3>3. ASSUME NEW g \in Aged(Current) PROVE g \in Current'
      <4>1. PICK f \in Current : g = <<f[1] + 1, f[2]>>
        BY DEF Aged
      <4>2. g \in recent'
        BY <1>1, <3>1, <4>1 DEF Aged
      <4> QED BY <3>2, <4>1, <4>2 DEF Current
    <3> QED BY <3>3
  <2>4. Cardinality(Since') = Cardinality(Since)
    BY <1>2, <2>2 DEF Since
  <2>5. Cardinality(Current) <= Cardinality(Current')
    <3>1. IsFiniteSet(Current')
      BY <1>1, <1>2, FS_Subset DEF Current
    <3>2. Cardinality(Aged(Current)) = Cardinality(Current)
      BY <1>2 DEF Current
    <3> QED BY <2>3, <3>1, <3>2, FS_Subset
  <2>6. Cardinality(Current) \in Nat /\ Cardinality(Current') \in Nat
        /\ Cardinality(recent) \in Nat /\ Cardinality(recent') \in Nat
    BY <1>1, <1>2, Sizes, FS_Subset, FS_CardinalityType DEF Current
  <2>7. Spent'
    BY <1>4, <1>8, <2>1, <2>4, <2>6, Sizes DEF WindowInv, Spent, TypeOK
  <2>8. Deserved'
    BY <2>1, <2>5, <2>6 DEF WindowInv, Deserved, TypeOK
  <2> QED BY <1>5, <2>7, <2>8 DEF WindowInv
<1> QED BY <1>6, <1>7, <1>8 DEF TypeOK

\* Every step keeps the invariant.
LEMMA WindowStep ==
  ASSUME TypeOK, CountBound, WindowInv, [Next]_vars
  PROVE  WindowInv'
<1>1. ASSUME UNCHANGED <<count, ttl, recent, late>> PROVE WindowInv'
  BY <1>1 DEF WindowInv, Numbered, Fresh, Spent, Since, Deserved, Current, Span
<1>2. ASSUME NEW h \in Handlers, Enter(h) \/ Answer(h) \/ Abandon(h) PROVE WindowInv'
  BY <1>1, <1>2 DEF Enter, Answer, Abandon, redis, history
<1>3. CASE UNCHANGED vars
  BY <1>1, <1>3 DEF vars
<1> QED BY <1>2, <1>3, WindowRecord, WindowExpire, WindowTick DEF Next

\* WindowInv holds in every state of every behaviour.
LEMMA WindowInvariant == Spec => []WindowInv
<1>1. Init => WindowInv
  <2> SUFFICES ASSUME Init PROVE WindowInv
    OBVIOUS
  <2>1. recent = {} /\ ttl = 0 /\ count = 0
    BY DEF Init
  <2>2. Fresh = {0} \X (1..0) /\ Current = {}
    BY <2>1 DEF Fresh, Current
  <2>3. TypeOK
    BY InitType
  <2> QED BY <2>1, <2>2, <2>3, FS_EmptySet, Sizes DEF WindowInv, Numbered, Spent, Deserved
<1> QED BY <1>1, WindowStep, CountBounded, TypeCorrect, PTL DEF Spec

\* The windows are fixed, so that two of them may be seen by one: in any Window ticks there
\* are at most twice what one admits, less one, because the first failure of a window that has
\* lapsed is too old (limiter/mod.rs, record_failure).
THEOREM BurstBounded == Spec => []BurstBound
<1>1. TypeOK /\ CountBound /\ WindowInv => BurstBound
  <2> SUFFICES ASSUME TypeOK, CountBound, WindowInv PROVE BurstBound
    OBVIOUS
  <2>1. Cardinality(recent) \in Nat
    BY Sizes
  <2> QED BY <2>1, Sizes DEF WindowInv, Spent, CountBound, BurstBound, TypeOK
<1> QED BY <1>1, TypeCorrect, CountBounded, WindowInvariant, PTL

\* Whoever is blocked has failed that often in the last Window ticks, unless EXPIRE came in a
\* later tick than the first failure (limiter/mod.rs, ensure_not_blocked).
THEOREM BlocksAreDeserved == Spec => []BlockIsDeserved
<1>1. TypeOK /\ WindowInv => BlockIsDeserved
  <2> SUFFICES ASSUME TypeOK, WindowInv, ~late PROVE count <= Cardinality(recent)
    BY DEF BlockIsDeserved
  <2>1. Cardinality(Current) <= Cardinality(recent) /\ Cardinality(Current) \in Nat
        /\ Cardinality(recent) \in Nat
    BY Sizes DEF Current
  <2> QED BY <2>1 DEF WindowInv, Deserved, TypeOK
<1> QED BY <1>1, TypeCorrect, WindowInvariant, PTL
=============================================================================
