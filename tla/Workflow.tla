------------------------------ MODULE Workflow ------------------------------
(***************************************************************************)
(* The approval workflows of workflow-service.  Every handler is a series  *)
(* of single SQL statements on a shared pool, with no transaction around   *)
(* them, so the handlers of concurrent requests interleave between any two *)
(* statements.  The model keeps one step per statement.                    *)
(*                                                                         *)
(* A request is used once.  What it writes is named by the request itself: *)
(* content[w] is the request that last wrote the editable columns,         *)
(* reviewer[w] the one whose caller stands in reviewer_id.                 *)
(***************************************************************************)
EXTENDS Naturals

CONSTANTS
  Workflows,   \* workflow ids
  Requests,    \* the HTTP requests that reach the service
  Nobody       \* no request: a NULL column, or a seeded one

ASSUME WorkflowAssumption == Workflows # {} /\ Nobody \notin Requests

VARIABLES
  status,      \* workflows.status; "none" before the INSERT, "deleted" after the DELETE
  content,     \* who last wrote name, description, category, priority
  reviewer,    \* workflows.reviewer_id
  remark,      \* workflows.review_comment: "blank" or "text"
  events,      \* the table workflow_events
  pc,          \* the statement each request executes next
  job,         \* what each request asks for
  from,        \* the status a transition expects in its UPDATE
  resp,        \* the answer each request has got
  round,       \* history: how many times each workflow was submitted
  tookIn,      \* history: the round in which a request changed the status
  overlap      \* history: writers past their check when the workflow was submitted

table   == <<status, content, reviewer, remark>>
history == <<round, tookIn, overlap>>
vars    == <<status, content, reviewer, remark, events, pc, job, from, resp,
             round, tookIn, overlap>>

-----------------------------------------------------------------------------
Editable == {"draft", "changes_requested"}
Verdicts == {"approved", "rejected", "changes_requested"}
Stored   == Editable \cup Verdicts \cup {"pending"}
Reviews  == {"approve", "reject", "request_changes"}
Moves    == {"submit"} \cup Reviews
Ops      == {"create", "update", "delete"} \cup Moves
Texts    == {"blank", "text"}      \* the name of an update, the comment of a review
Steps    == {"idle", "insert", "peek", "read", "write", "event", "done"}
Codes    == {"none", "ok", "bad_request", "not_found", "internal"}
Job      == [op : Ops, wf : Workflows, text : Texts]
Event    == [wf : Workflows, by : Requests, was : {"none"} \cup Stored, to : Stored]

Op(r)     == job[r].op
Wf(r)     == job[r].wf
Exists(w) == status[w] \in Stored

\* editableStatus.  (The operators named Bad... are not part of the model: each is
\* the definition after it with a plausible bug, to show that a property notices.)
BadMayEdit(w) == Exists(w)
MayEdit(w)    == status[w] \in Editable

\* A review that turns the workflow down must say why.
BadNeedsComment(op) == op = "reject"
NeedsComment(op)    == op \in {"reject", "request_changes"}

\* toStatus of each transition.
Target(op) == CASE op = "submit"  -> "pending"
                [] op = "approve" -> "approved"
                [] op = "reject"  -> "rejected"
                [] OTHER          -> "changes_requested"

FirstStep(op) == IF op = "create" THEN "insert" ELSE IF op = "submit" THEN "peek" ELSE "read"

\* The next statement of a request's handler, or its answer.
Go(r, step)    == pc' = [pc EXCEPT ![r] = step] /\ UNCHANGED resp
Reply(r, code) == /\ pc' = [pc EXCEPT ![r] = "done"]
                  /\ resp' = [resp EXCEPT ![r] = code]

Init ==
  /\ status \in [Workflows -> {"none", "draft"}]   \* the seeded row is a draft
  /\ content  = [w \in Workflows |-> Nobody]
  /\ reviewer = [w \in Workflows |-> Nobody]
  /\ remark   = [w \in Workflows |-> "blank"]
  /\ events   = {}
  /\ pc       = [r \in Requests |-> "idle"]
  /\ job      = [r \in Requests |-> CHOOSE j \in Job : TRUE]   \* set when it arrives
  /\ from     = [r \in Requests |-> "none"]
  /\ resp     = [r \in Requests |-> "none"]
  /\ round    = [w \in Workflows |-> 0]
  /\ tookIn   = [r \in Requests |-> 0]
  /\ overlap  = [w \in Workflows |-> {}]

-----------------------------------------------------------------------------
\* A request arrives.  Reject and RequestChanges refuse a blank comment before
\* they reach the database; the others go to their first statement.
Begin(r) ==
  /\ pc[r] = "idle"
  /\ \E j \in Job :
       /\ job' = [job EXCEPT ![r] = j]
       /\ IF NeedsComment(j.op) /\ j.text = "blank"
          THEN Reply(r, "bad_request")
          ELSE Go(r, FirstStep(j.op))
       /\ from' = [from EXCEPT ![r] = IF j.op \in Reviews THEN "pending" ELSE "none"]
  /\ UNCHANGED <<table, events, history>>

\* Create: INSERT ... 'draft' under a fresh id.
CreateInsert(r) ==
  /\ pc[r] = "insert"
  /\ \E w \in Workflows :
       /\ status[w] = "none"
       /\ status' = [status EXCEPT ![w] = "draft"]
       /\ content' = [content EXCEPT ![w] = r]
       /\ job' = [job EXCEPT ![r].wf = w]
  /\ Go(r, "event") \/ Reply(r, "internal")          \* its own answer may be lost
  /\ UNCHANGED <<reviewer, remark, events, from, history>>

\* The SELECT of GetByID at the head of Update and the checks on what it read.
UpdateRead(r) ==
  /\ pc[r] = "read" /\ Op(r) = "update"
  /\ \/ ~Exists(Wf(r)) /\ Reply(r, "not_found")
     \/ /\ Exists(Wf(r)) /\ ~MayEdit(Wf(r))
        /\ Reply(r, "bad_request")                                 \* ErrLocked
     \/ /\ MayEdit(Wf(r))
        /\ IF job[r].text = "blank" THEN Reply(r, "bad_request") ELSE Go(r, "write")
  /\ UNCHANGED <<table, events, job, from, history>>

\* UPDATE ... WHERE id AND tenant_id: no condition on the status, and a row that
\* has gone meanwhile is an internal error.
UpdateWrite(r) ==
  /\ pc[r] = "write" /\ Op(r) = "update"
  /\ \/ /\ Exists(Wf(r))
        /\ content' = [content EXCEPT ![Wf(r)] = r]
        /\ Reply(r, "ok") \/ Reply(r, "internal")    \* its own answer may be lost
     \/ /\ ~Exists(Wf(r))
        /\ Reply(r, "internal")
        /\ UNCHANGED content
  /\ UNCHANGED <<status, reviewer, remark, events, job, from, history>>

DeleteRead(r) ==
  /\ pc[r] = "read" /\ Op(r) = "delete"
  /\ \/ ~Exists(Wf(r)) /\ Reply(r, "not_found")
     \/ status[Wf(r)] = "pending" /\ Reply(r, "bad_request")       \* ErrLocked
     \/ Exists(Wf(r)) /\ status[Wf(r)] # "pending" /\ Go(r, "write")
  /\ UNCHANGED <<table, events, job, from, history>>

\* DELETE ... WHERE id AND tenant_id, again without a condition on the status.
DeleteWrite(r) ==
  /\ pc[r] = "write" /\ Op(r) = "delete"
  /\ \/ /\ Exists(Wf(r))
        /\ status' = [status EXCEPT ![Wf(r)] = "deleted"]
        /\ Reply(r, "ok") \/ Reply(r, "internal")    \* its own answer may be lost
     \/ /\ ~Exists(Wf(r))
        /\ Reply(r, "not_found")
        /\ UNCHANGED status
  /\ UNCHANGED <<content, reviewer, remark, events, job, from, history>>

\* Submit reads the status once more than the reviews do: the value it finds is
\* the one its transition expects.
SubmitPeek(r) ==
  /\ pc[r] = "peek"
  /\ \/ /\ MayEdit(Wf(r))
        /\ from' = [from EXCEPT ![r] = status[Wf(r)]]
        /\ Go(r, "read")
     \/ /\ ~MayEdit(Wf(r))
        /\ Reply(r, IF Exists(Wf(r)) THEN "bad_request" ELSE "not_found")
        /\ UNCHANGED from
  /\ UNCHANGED <<table, events, job, history>>

TransitionRead(r) ==
  /\ pc[r] = "read" /\ Op(r) \in Moves
  /\ \/ ~Exists(Wf(r)) /\ Reply(r, "not_found")
     \/ Exists(Wf(r)) /\ status[Wf(r)] # from[r] /\ Reply(r, "bad_request")
     \/ status[Wf(r)] = from[r] /\ Go(r, "write")
  /\ UNCHANGED <<table, events, job, from, history>>

\* The UPDATE matched: the status moves, and a review signs the row.
Apply(r, w) ==
  /\ status' = [status EXCEPT ![w] = Target(Op(r))]
  /\ IF Op(r) \in Reviews
     THEN /\ reviewer' = [reviewer EXCEPT ![w] = r]
          /\ remark' = [remark EXCEPT ![w] = job[r].text]
          /\ UNCHANGED <<round, overlap>>
     ELSE /\ round' = [round EXCEPT ![w] = @ + 1]
          /\ overlap' = [overlap EXCEPT ![w] =
               {q \in Requests : /\ pc[q] = "write" /\ Wf(q) = w
                                 /\ Op(q) \in {"update", "delete"}}]
          /\ UNCHANGED <<reviewer, remark>>
  /\ tookIn' = [tookIn EXCEPT ![r] = round'[w]]

\* Without AND status = fromStatus.
BadUnguardedWrite(r) ==
  /\ pc[r] = "write" /\ Op(r) \in Moves /\ Exists(Wf(r))
  /\ Apply(r, Wf(r)) /\ Go(r, "event")
  /\ UNCHANGED <<content, events, job, from>>

\* Without looking at the number of rows.
BadUncheckedWrite(r) ==
  /\ pc[r] = "write" /\ Op(r) \in Moves /\ Go(r, "event")
  /\ IF status[Wf(r)] = from[r]
     THEN Apply(r, Wf(r))
     ELSE UNCHANGED <<status, reviewer, remark, history>>
  /\ UNCHANGED <<content, events, job, from>>

\* UPDATE ... WHERE id AND tenant_id AND status = fromStatus.
TransitionWrite(r) ==
  /\ pc[r] = "write" /\ Op(r) \in Moves
  /\ \/ /\ status[Wf(r)] = from[r]
        /\ Apply(r, Wf(r))
        /\ Go(r, "event")
     \/ /\ status[Wf(r)] # from[r]
        /\ Reply(r, "bad_request")
        /\ UNCHANGED <<status, reviewer, remark, history>>
  /\ UNCHANGED <<content, events, job, from>>

\* Create ignores the error of its event; everything else answers 500.
BadErrorCode(r) == IF pc[r] = "event" THEN "ok" ELSE "internal"
ErrorCode(r)    == IF pc[r] = "event" /\ Op(r) = "create" THEN "ok" ELSE "internal"

\* insertEvent, a statement of its own after the write it tells of.
InsertEvent(r) ==
  /\ pc[r] = "event"
  /\ events' = events \cup {[wf |-> Wf(r), by |-> r, was |-> from[r],
                             to |-> IF Op(r) = "create" THEN "draft" ELSE Target(Op(r))]}
  /\ Reply(r, "ok") \/ Reply(r, ErrorCode(r))      \* its own answer may be lost
  /\ UNCHANGED <<table, job, from, history>>

\* The statement a request is at fails, or the process stops there.
Fail(r) ==
  /\ pc[r] \notin {"idle", "done"}
  /\ Reply(r, ErrorCode(r))
  /\ UNCHANGED <<table, events, job, from, history>>

Next ==
  \E r \in Requests :
    \/ Begin(r) \/ CreateInsert(r)
    \/ UpdateRead(r) \/ UpdateWrite(r) \/ DeleteRead(r) \/ DeleteWrite(r)
    \/ SubmitPeek(r) \/ TransitionRead(r) \/ TransitionWrite(r)
    \/ InsertEvent(r) \/ Fail(r)

Spec == Init /\ [][Next]_vars

-----------------------------------------------------------------------------
\* Every variable holds what its column, or its place in a handler, can hold.
TypeOK ==
  /\ status   \in [Workflows -> {"none", "deleted"} \cup Stored]
  /\ content  \in [Workflows -> Requests \cup {Nobody}]
  /\ reviewer \in [Workflows -> Requests \cup {Nobody}]
  /\ remark   \in [Workflows -> Texts]
  /\ events   \subseteq Event
  /\ pc       \in [Requests -> Steps]
  /\ job      \in [Requests -> Job]
  /\ from     \in [Requests -> {"none", "pending"} \cup Editable]
  /\ resp     \in [Requests -> Codes]
  /\ round    \in [Workflows -> Nat]
  /\ tookIn   \in [Requests -> Nat]
  /\ overlap  \in [Workflows -> SUBSET Requests]

\* However many reviewers and requesters race, a round of review is opened by one
\* submission and ended by at most one verdict: of the requests that changed the
\* status of a workflow, no two did the same kind of thing in the same round.
OneMovePerRound ==
  \A q, r \in Requests :
    /\ tookIn[q] # 0 /\ tookIn[q] = tookIn[r] /\ Wf(q) = Wf(r)
    /\ Op(q) \in Reviews <=> Op(r) \in Reviews
    => q = r

\* The review that gave row w the verdict it carries is r.
SignedBy(w, r) ==
  /\ reviewer[w] = r /\ Wf(r) = w
  /\ tookIn[r] = round[w] /\ Op(r) \in Reviews /\ Target(Op(r)) = status[w]
  /\ remark[w] = job[r].text /\ (status[w] # "approved" => remark[w] = "text")

\* A row that carries a verdict is signed by the request that reached it, in the
\* round that is the last one, with the comment that request came with; nobody is
\* turned down without a comment.
VerdictIsSigned ==
  \A w \in Workflows : status[w] \in Verdicts => \E r \in Requests : SignedBy(w, r)

\* Every entry of the event log is true: the request it names did move the
\* workflow it names, from and to the statuses it names.
EventsAreTrue ==
  \A e \in events : e.to # "draft" =>
    /\ tookIn[e.by] # 0 /\ Wf(e.by) = e.wf /\ Target(Op(e.by)) = e.to
    /\ e.was \in IF e.to = "pending" THEN Editable ELSE {"pending"}

\* A caller who is told that a transition succeeded finds it in the event log,
\* whatever failed on the way.
AcknowledgedMoveIsLogged ==
  \A r \in Requests : resp[r] = "ok" /\ Op(r) \in Moves =>
    \E e \in events : e.by = r /\ e.wf = Wf(r) /\ e.to = Target(Op(r))

\* The lock on a pending workflow stops every editor and deleter that comes after
\* the submission: only a request that was past its check when the workflow was
\* submitted may still write to it or remove it.
LateWritersAreRefused ==
  [][\A w \in Workflows :
       status[w] = "pending" /\ (content'[w] # content[w] \/ status'[w] = "deleted")
       => \E r \in overlap[w] : Wf(r) = w /\ pc[r] = "write" /\ pc'[r] = "done"]_vars

\* The rows follow the life cycle the service promises.
PhaseOf(s) == CASE s \in Editable               -> "open"
                [] s = "pending"                -> "review"
                [] s \in {"approved", "rejected"} -> "closed"
                [] s = "deleted"                -> "gone"
                [] OTHER                        -> "none"

Lifecycle == INSTANCE WorkflowLifecycle
               WITH phase <- [w \in Workflows |-> PhaseOf(status[w])], rounds <- round

FollowsLifecycle == Lifecycle!LifecycleSpec

\* What the error texts of the service say: "workflow locked while pending review",
\* "cannot edit while pending review", "cannot delete while pending review".
PendingIsLocked ==
  [][\A w \in Workflows : status[w] = "pending" =>
       content'[w] = content[w] /\ status'[w] # "deleted"]_vars
=============================================================================
