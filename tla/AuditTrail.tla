------------------------------ MODULE AuditTrail ------------------------------
(***************************************************************************)
(* From a request to its row in audit_events.  When a mutating request (or *)
(* a file download) has been answered, the gateway spawns a task that posts *)
(* an event to audit-service, three times at most, and counts a failure    *)
(* after the last.  audit-service creates the partition of the current     *)
(* month if there is none, and then inserts the row, in two statements     *)
(* with no transaction over them.                                          *)
(*                                                                         *)
(* A request is used once.  Time is counted in months.  Pruning is in      *)
(* AuditRetention: it never touches the current month.                     *)
(***************************************************************************)
EXTENDS Naturals

CONSTANTS
  Requests,
  LastMonth,  \* bound: the clock stops there
  Created     \* the months whose partitions the migrations have created

ASSUME AuditAssumption == LastMonth \in Nat \ {0} /\ Created \subseteq 1 .. LastMonth

VARIABLES
  month,      \* the current month
  parts,      \* the months with a partition
  rows,       \* audit_events: the attempts that inserted a row for a request
  kind, rpc,  \* a request at the gateway: what it is and how far it got
  task,       \* the spawned task of its event
  tries,      \* the attempts the task has made
  post,       \* its attempts, as the handlers of audit-service see them
  stamp,      \* the months those handlers took from the clock
  applied,    \* history: the mutations that took effect
  unseen      \* history: attempts that failed on the way or whose answer was lost

gateway == <<kind, rpc, task, tries>>
service == <<month, parts, rows, post, stamp>>
vars    == <<month, parts, rows, kind, rpc, task, tries, post, stamp, applied, unseen>>

-----------------------------------------------------------------------------
Months == 1 .. LastMonth
Tries  == 1 .. 3

Kinds  == {"mutation", "read", "login", "failed_login", "long_path"}
Rpcs   == {"idle", "inside", "served", "answered", "dropped"}
Tasks  == {"none", "send", "wait", "ended", "failed", "dead"}
Steps  == {"none", "begin", "create", "insert", "stored", "refused", "raced", "error"}
Over   == {"stored", "refused", "raced", "error"}   \* the handler has answered

\* For comparison: should_audit leaves out the mutating methods.
FewAudited(r) == kind[r] \notin {"read", "mutation", "long_path"}

\* should_audit, and the login route's own middleware.
Audited(r) == kind[r] # "read"

\* What CreateEventRequest's binding accepts: a failed login has no tenant id, and a
\* path has 512 characters at most.
Storable(r) == kind[r] \notin {"failed_login", "long_path"}

Init ==
  /\ month = 1 /\ parts = Created /\ rows = [r \in Requests |-> {}]
  /\ kind \in [Requests -> Kinds]
  /\ rpc = [r \in Requests |-> "idle"] /\ task = [r \in Requests |-> "none"]
  /\ tries = [r \in Requests |-> 0]
  /\ post = [r \in Requests |-> [t \in Tries |-> "none"]]
  /\ stamp = [r \in Requests |-> [t \in Tries |-> 1]]
  /\ applied = {} /\ unseen = [r \in Requests |-> {}]

-----------------------------------------------------------------------------
(* The request *)

Arrive(r) ==
  /\ rpc[r] = "idle"
  /\ rpc' = [rpc EXCEPT ![r] = "inside"]
  /\ UNCHANGED <<service, kind, task, tries, applied, unseen>>

\* The handler behind the proxy is done: a mutation took effect, or was refused
\* there or by a middleware inside the auditing one.
Serve(r) ==
  /\ rpc[r] = "inside"
  /\ rpc' = [rpc EXCEPT ![r] = "served"]
  /\ \/ kind[r] = "mutation" /\ applied' = applied \cup {r}
     \/ UNCHANGED applied
  /\ UNCHANGED <<service, kind, task, tries, unseen>>

\* next.run(req).await has returned: emit_audit, and the response goes out.
Emit(r) ==
  /\ rpc[r] = "served"
  /\ rpc' = [rpc EXCEPT ![r] = "answered"]
  /\ task' = [task EXCEPT ![r] = IF Audited(r) THEN "send" ELSE "none"]
  /\ UNCHANGED <<service, kind, tries, applied, unseen>>

\* The client closes its connection and the server drops the handler where it waits.
Hangup(r) ==
  /\ rpc[r] \in {"inside", "served"}
  /\ rpc' = [rpc EXCEPT ![r] = "dropped"]
  /\ UNCHANGED <<service, kind, task, tries, applied, unseen>>

\* The gateway ends: what it has in memory is gone.
GatewayStops ==
  /\ rpc' = [r \in Requests |-> IF rpc[r] \in {"inside", "served"} THEN "dropped" ELSE rpc[r]]
  /\ task' = [r \in Requests |-> IF task[r] \in {"send", "wait"} THEN "dead" ELSE task[r]]
  /\ UNCHANGED <<service, kind, tries, applied, unseen>>

-----------------------------------------------------------------------------
(* The task of persist_event *)

\* After an attempt that brought no success: sleep and try again, or give up.
Onwards(r, n) == task' = [task EXCEPT ![r] = IF n < 3 THEN "send" ELSE "failed"]

Send(r) ==
  /\ task[r] = "send"
  /\ task' = [task EXCEPT ![r] = "wait"]
  /\ tries' = [tries EXCEPT ![r] = @ + 1]
  /\ post' = [post EXCEPT ![r][tries[r] + 1] = "begin"]
  /\ UNCHANGED <<month, parts, rows, stamp, kind, rpc, applied, unseen>>

\* audit-service cannot be reached.
SendFails(r) ==
  /\ task[r] = "send"
  /\ tries' = [tries EXCEPT ![r] = @ + 1]
  /\ unseen' = [unseen EXCEPT ![r] = @ \cup {tries[r] + 1}]
  /\ Onwards(r, tries[r] + 1)
  /\ UNCHANGED <<service, kind, rpc, applied>>

\* For comparison: any answer ends the task.
EasyHear(r) ==
  /\ task[r] = "wait" /\ post[r][tries[r]] \in Over
  /\ task' = [task EXCEPT ![r] = "ended"]
  /\ UNCHANGED <<service, kind, rpc, tries, applied, unseen>>

\* For comparison: the loop handles errors of the connection only.
DeafHear(r) ==
  /\ task[r] = "wait" /\ post[r][tries[r]] = "stored"
  /\ task' = [task EXCEPT ![r] = "ended"]
  /\ UNCHANGED <<service, kind, rpc, tries, applied, unseen>>

\* For comparison: only 201 counts as a success, and audit-service answers 200.
StrictHear(r) ==
  /\ task[r] = "wait" /\ post[r][tries[r]] \in Over
  /\ Onwards(r, tries[r])
  /\ UNCHANGED <<service, kind, rpc, tries, applied, unseen>>

\* The answer arrives: a success ends the task.
Hear(r) ==
  /\ task[r] = "wait" /\ post[r][tries[r]] \in Over
  /\ IF post[r][tries[r]] = "stored"
     THEN task' = [task EXCEPT ![r] = "ended"] ELSE Onwards(r, tries[r])
  /\ UNCHANGED <<service, kind, rpc, tries, applied, unseen>>

\* The connection breaks while the task waits; the handler may still be at work.
Lose(r) ==
  /\ task[r] = "wait"
  /\ unseen' = [unseen EXCEPT ![r] = @ \cup {tries[r]}]
  /\ Onwards(r, tries[r])
  /\ UNCHANGED <<service, kind, rpc, tries, applied>>

-----------------------------------------------------------------------------
(* audit-service's handler of an attempt *)

To(r, t, step) == post' = [post EXCEPT ![r][t] = step]

\* For comparison: CREATE TABLE without the look at to_regclass.
BlindCheck(r, t) ==
  /\ post[r][t] = "begin"
  /\ IF Storable(r)
     THEN stamp' = [stamp EXCEPT ![r][t] = month] /\ To(r, t, "create")
     ELSE To(r, t, "refused") /\ UNCHANGED stamp
  /\ UNCHANGED <<month, parts, rows, gateway, applied, unseen>>

\* CreateInternal binds the request; Insert takes the time, and ensure_audit_partition
\* looks for the partition.
Check(r, t) ==
  /\ post[r][t] = "begin"
  /\ IF Storable(r)
     THEN /\ stamp' = [stamp EXCEPT ![r][t] = month]
          /\ To(r, t, IF month \in parts THEN "insert" ELSE "create")
     ELSE To(r, t, "refused") /\ UNCHANGED stamp
  /\ UNCHANGED <<month, parts, rows, gateway, applied, unseen>>

\* It creates the partition; if somebody has done so since, CREATE TABLE fails.
CreatePartition(r, t) ==
  /\ post[r][t] = "create"
  /\ IF stamp[r][t] \in parts
     THEN To(r, t, "raced") /\ UNCHANGED parts
     ELSE To(r, t, "insert") /\ parts' = parts \cup {stamp[r][t]}
  /\ UNCHANGED <<month, rows, stamp, gateway, applied, unseen>>

\* INSERT INTO audit_events, and the answer 200.
InsertEvent(r, t) ==
  /\ post[r][t] = "insert" /\ stamp[r][t] \in parts
  /\ rows' = [rows EXCEPT ![r] = @ \cup {t}] /\ To(r, t, "stored")
  /\ UNCHANGED <<month, parts, stamp, gateway, applied, unseen>>

\* A statement fails, or audit-service ends; the answer, if any, is an error.
HandlerFails(r, t) ==
  /\ post[r][t] \in {"begin", "create", "insert"}
  /\ To(r, t, "error") /\ unseen' = [unseen EXCEPT ![r] = @ \cup {t}]
  /\ UNCHANGED <<month, parts, rows, stamp, gateway, applied>>

\* A query of the log, a start of audit-service, or the event of a request not in
\* Requests creates the partition of any month that has none
\* (ensurePartitionsForFilter, migration 002).
OthersCreate(m) ==
  /\ m \notin parts /\ parts' = parts \cup {m}
  /\ UNCHANGED <<month, rows, post, stamp, gateway, applied, unseen>>

NextMonth ==
  /\ month < LastMonth /\ month' = month + 1
  /\ UNCHANGED <<parts, rows, post, stamp, gateway, applied, unseen>>

Request(r) == Arrive(r) \/ Serve(r) \/ Emit(r) \/ Hangup(r)
Attempt(r) == Send(r) \/ SendFails(r)
Handle(r, t)  == Check(r, t) \/ CreatePartition(r, t) \/ InsertEvent(r, t) \/ HandlerFails(r, t)

Next ==
  \/ \E r \in Requests : Request(r) \/ Attempt(r) \/ Hear(r) \/ Lose(r)
  \/ \E r \in Requests, t \in Tries : Handle(r, t)
  \/ \E m \in Months : OthersCreate(m)
  \/ GatewayStops \/ NextMonth

\* A spawned task runs; audit-service and PostgreSQL answer or fail, and the task
\* hears an answer unless its connection breaks.  Its HTTP client has no time-out: an
\* audit-service that stays silent with its connection open is outside of this.
Fairness ==
  /\ \A r \in Requests : WF_vars(Attempt(r)) /\ WF_vars(Hear(r))
  /\ \A r \in Requests, t \in Tries : WF_vars(Handle(r, t))

Spec == Init /\ [][Next]_vars /\ Fairness

-----------------------------------------------------------------------------
(* Properties *)

\* Every variable has its type; only attempts that were made have a handler.
TypeOK ==
  /\ month \in Months /\ parts \subseteq Months /\ rows \in [Requests -> SUBSET Tries]
  /\ kind \in [Requests -> Kinds] /\ rpc \in [Requests -> Rpcs]
  /\ task \in [Requests -> Tasks] /\ tries \in [Requests -> 0 .. 3]
  /\ post \in [Requests -> [Tries -> Steps]] /\ stamp \in [Requests -> [Tries -> Months]]
  /\ applied \subseteq Requests /\ unseen \in [Requests -> SUBSET Tries]
  /\ \A r \in Requests, t \in Tries : post[r][t] # "none" => t <= tries[r]

\* A task that ends with a success has stored its event; and an event that can be
\* stored is given up only after three attempts that failed or went unheard.
OutcomeIsTrue ==
  \A r \in Requests :
    /\ task[r] = "ended" => tries[r] \in rows[r]
    /\ task[r] = "failed" /\ Storable(r) =>
         \A t \in Tries : t \in unseen[r] \/ post[r][t] = "raced"

\* An event has a second row only if the answer to an earlier attempt that stored
\* it was lost: retries alone do not duplicate.
DuplicatesNeedLoss ==
  \A r \in Requests : \A t, u \in Tries :
    t < u /\ t \in rows[r] /\ u <= tries[r] => t \in unseen[r]

\* Losing the race for the creation of a partition costs an event one retry: a later
\* attempt finds the partition, unless the month has changed.  So the three attempts
\* are enough whenever nothing else fails.
RaceCostsOneRetry ==
  \A r \in Requests : \A t, u \in Tries :
    /\ t < u /\ post[r][t] = "raced" /\ post[r][u] = "raced"
    /\ t \notin unseen[r]
    => stamp[r][t] # stamp[r][u]

\* Every event that was emitted is stored, counted as a failure, or lost with the
\* gateway: the retry loop ends.
EventSettles ==
  \A r \in Requests : task[r] = "send" ~> task[r] \in {"ended", "failed", "dead"}

\* README: "Mutations recorded in audit-service".  A mutation that took effect and was
\* answered has a row or is counted as a failure when its task is over; only the end of
\* the gateway, or a client that hangs up before the answer, loses it without a trace.
MutationsRecorded ==
  \A r \in applied :
    rpc[r] = "answered" /\ task[r] \notin {"send", "wait", "dead"} =>
      task[r] = "failed" \/ rows[r] # {}

\* "Audits POST /api/auth/login outcomes (success and failure)": the event of a
\* failed login is stored if every attempt was heard.
FailedLoginsRecorded ==
  \A r \in Requests :
    /\ kind[r] = "failed_login" /\ task[r] \in {"ended", "failed"}
    /\ unseen[r] = {}
    => rows[r] # {}

\* The task, the handlers and the partitions together deliver at least once: persist_event
\* ends with a success only after a row was stored and heard of, and gives up only what
\* three attempts failed to store or could not (audit/mod.rs:118-152).
FateOf(r) == IF task[r] \in {"send", "wait"} THEN "pending"
             ELSE IF task[r] = "ended"  THEN "confirmed"
             ELSE IF task[r] = "failed" THEN "given_up"
             ELSE IF task[r] = "dead"   THEN "lost" ELSE "none"

Faults(r) == unseen[r] \cup {t \in Tries : post[r][t] = "raced"}

Delivery == INSTANCE AtLeastOnce
            WITH Events <- Requests, Attempts <- Tries,
                 fate   <- [r \in Requests |-> FateOf(r)],
                 sound  <- [r \in Requests |-> Storable(r)],
                 copies <- rows,
                 faults <- [r \in Requests |-> Faults(r)]

DeliversAtLeastOnce == Delivery!DeliverySpec
=============================================================================
