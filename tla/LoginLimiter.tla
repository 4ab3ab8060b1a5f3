----------------------------- MODULE LoginLimiter -----------------------------
(***************************************************************************)
(* The gateway's limit on failed logins (limiter/mod.rs), for one client   *)
(* address: addresses share no key.  A handler reads the count of failures *)
(* from Redis, forwards the login, and counts a 401 or 403 afterwards; the *)
(* first failure of a window gives the key its time to live in a second    *)
(* command.  Handlers interleave between any two commands, and a Redis     *)
(* error or the client's disconnection ends a handler between them.        *)
(***************************************************************************)
EXTENDS Naturals, FiniteSets

CONSTANTS
  Handlers,   \* the login requests the gateway serves at a time, reused
  Max,        \* LOGIN_RATE_LIMIT_MAX
  Window      \* LOGIN_RATE_LIMIT_WINDOW_SECS, in ticks of the clock

ASSUME LimiterAssumption ==
  /\ IsFiniteSet(Handlers) /\ Handlers # {}
  /\ Max \in Nat \ {0} /\ Window \in Nat \ {0}

VARIABLES
  count,      \* rl:login:<ip>; 0 when Redis has no such key
  ttl,        \* ticks the key has left; 0 when it has no expiry
  pc,         \* a handler's place
  recent,     \* history: the failures counted in the last Window ticks, <<age, n>> the
              \* n-th of its tick
  late,       \* history: time has passed on this key while it had no expiry
  cut         \* history: this key will not get its expiry

redis   == <<count, ttl>>
history == <<recent, late, cut>>
vars    == <<count, ttl, pc, recent, late, cut>>

Places == {"idle", "inside", "failed", "expire"}
Ages   == 0 .. (Window - 1)

At(h, from, to) == pc[h] = from /\ pc' = [pc EXCEPT ![h] = to]

\* The failures of this tick.
Fresh == {f \in recent : f[1] = 0}

\* INCR.
Increment ==
  /\ count' = count + 1
  /\ recent' = recent \cup {<<0, Cardinality(Fresh) + 1>>}
  /\ UNCHANGED <<ttl, late, cut>>

Init ==
  /\ count = 0 /\ ttl = 0 /\ pc = [h \in Handlers |-> "idle"]
  /\ recent = {} /\ late = FALSE /\ cut = FALSE

-----------------------------------------------------------------------------
\* ensure_not_blocked: at Max failures the request answers 429 and changes nothing.
BadEnter(h) ==
  /\ At(h, "idle", "inside") /\ count <= Max
  /\ UNCHANGED <<redis, history>>

Enter(h) ==
  /\ At(h, "idle", "inside") /\ count < Max
  /\ UNCHANGED <<redis, history>>

\* user-service answers: 401 and 403 are failures, and nothing else is counted.
\* A success leaves the count as it is.
Answer(h) ==
  /\ At(h, "inside", "idle") \/ At(h, "inside", "failed")
  /\ UNCHANGED <<redis, history>>

\* For comparison: every failure renews the expiry.
RenewingRecord(h) ==
  /\ At(h, "failed", "expire")
  /\ Increment

\* For comparison: the test for the first failure never succeeds.
UnexpiredRecord(h) ==
  /\ At(h, "failed", "idle")
  /\ Increment

\* record_failure: INCR, and whoever reads 1 goes on to EXPIRE.
Record(h) ==
  /\ At(h, "failed", IF count = 0 THEN "expire" ELSE "idle")
  /\ Increment

\* EXPIRE.
Expire(h) ==
  /\ At(h, "expire", "idle")
  /\ ttl' = Window
  /\ UNCHANGED <<count, history>>

\* The handler ends early: Redis answers an error, the request to user-service
\* fails (502), or the client closes its connection and the handler is dropped.
Abandon(h) ==
  /\ pc[h] # "idle"
  /\ pc' = [pc EXCEPT ![h] = "idle"]
  /\ cut' = (cut \/ pc[h] = "expire")
  /\ UNCHANGED <<redis, recent, late>>

\* Time passes, and Redis drops the key when its time is over.
Tick ==
  /\ recent' = {<<f[1] + 1, f[2]>> : f \in {g \in recent : g[1] + 1 < Window}}
  /\ IF ttl = 1
     THEN count' = 0 /\ ttl' = 0 /\ late' = FALSE /\ cut' = FALSE
     ELSE /\ ttl' = IF ttl = 0 THEN 0 ELSE ttl - 1
          /\ late' = (late \/ (count # 0 /\ ttl = 0))
          /\ UNCHANGED <<count, cut>>
  /\ UNCHANGED pc

Next ==
  \/ Tick
  \/ \E h \in Handlers : Enter(h) \/ Answer(h) \/ Record(h) \/ Expire(h) \/ Abandon(h)

\* The clock does not stop, and Redis answers EXPIRE or the handler ends waiting.
\* Of user-service nothing is assumed: the HTTP client has no time-out.
Settle(h) == pc[h] = "expire" /\ (Expire(h) \/ Abandon(h))
Fairness  == WF_vars(Tick) /\ \A h \in Handlers : WF_vars(Settle(h))

Spec == Init /\ [][Next]_vars /\ Fairness

-----------------------------------------------------------------------------
(* Properties *)

\* Every variable has its type, and the key its shape: a time to live belongs to a
\* count, and one handler at most is about to set it, on a key that has none.
TypeOK ==
  /\ count \in Nat /\ ttl \in 0 .. Window /\ pc \in [Handlers -> Places]
  /\ recent \subseteq Ages \X Nat /\ IsFiniteSet(recent) /\ late \in BOOLEAN /\ cut \in BOOLEAN
  /\ ttl # 0 => count # 0
  /\ cut => count # 0 /\ ttl = 0
  /\ \A h \in Handlers : pc[h] = "expire" =>
       /\ count # 0 /\ ttl = 0 /\ ~cut
       /\ \A g \in Handlers \ {h} : pc[g] # "expire"
  /\ count # 0 /\ ttl = 0 /\ ~cut => \E h \in Handlers : pc[h] = "expire"

\* Every handler may have passed the check before the last failure is counted, and
\* no more than that: the count overshoots the limit by the other handlers at most.
CountBound == count <= Max - 1 + Cardinality(Handlers)

\* The failures counted in any Window ticks: a fixed window, restarted by the first
\* failure after it lapses, allows almost two windows' worth of them, never more.
BurstBound == Cardinality(recent) <= 2 * (Max - 1 + Cardinality(Handlers)) - 1

\* Whoever is refused has that many failures in the last Window ticks, if the
\* expiry was set in the tick of the first failure.
BlockIsDeserved == count >= Max /\ ~late => count <= Cardinality(recent)

\* A blocked address is let in again, unless the handler that counted its first
\* failure ended before it set the expiry.
LimitLapses == (count >= Max) ~> (count < Max \/ cut)
=============================================================================
