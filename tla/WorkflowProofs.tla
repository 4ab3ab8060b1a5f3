--------------------------- MODULE WorkflowProofs ---------------------------
(***************************************************************************)
(* Proofs about Workflow, for any sets of workflows and requests.          *)
(***************************************************************************)
EXTENDS Workflow, TLAPS

\* What a request's place in its handler says of what it has done and holds.
Expected(op) == IF op = "submit" THEN Editable ELSE {"pending"}

Progress ==
  \A r \in Requests :
    /\ pc[r] \notin {"event", "done"} => tookIn[r] = 0
    /\ pc[r] = "insert" => Op(r) = "create"
    /\ pc[r] = "peek" => Op(r) = "submit"
    /\ pc[r] \in {"read", "write"} => Op(r) # "create"
    /\ pc[r] \in {"read", "write"} /\ Op(r) \in Moves => from[r] \in Expected(Op(r))
    /\ pc[r] = "event" => Op(r) = "create" \/ (Op(r) \in Moves /\ tookIn[r] # 0)
    /\ resp[r] # "none" => pc[r] = "done"
    /\ NeedsComment(Op(r)) /\ pc[r] \notin {"idle", "done"} => job[r].text = "text"

\* The round in which a request moved a workflow is one of those the workflow has
\* had, and the round under review has no verdict yet.
Rounds ==
  /\ \A r \in Requests : tookIn[r] # 0 =>
       /\ Op(r) \in Moves /\ from[r] \in Expected(Op(r))
       /\ tookIn[r] <= round[Wf(r)]
       /\ Op(r) \in Reviews /\ status[Wf(r)] = "pending" => tookIn[r] < round[Wf(r)]
  /\ \A w \in Workflows : status[w] \notin {"none", "draft", "deleted"} => round[w] # 0

\* Who is past its check on a pending workflow was so when it was submitted.
Stragglers ==
  \A r \in Requests :
    /\ pc[r] = "write" /\ Op(r) \in {"update", "delete"} /\ status[Wf(r)] = "pending"
    => r \in overlap[Wf(r)]

IInv == /\ TypeOK /\ Progress /\ Rounds /\ Stragglers
        /\ OneMovePerRound /\ VerdictIsSigned /\ EventsAreTrue /\ AcknowledgedMoveIsLogged

USE WorkflowAssumption

-----------------------------------------------------------------------------
\* Every operation has a stored status as its target.
LEMMA TargetType == \A op \in Ops : Target(op) \in Stored
  BY DEF Target, Ops, Moves, Reviews, Stored, Verdicts, Editable

\* A review leads to a verdict, and all but an approval need a comment.
LEMMA ReviewTarget ==
  \A op \in Reviews : Target(op) \in Verdicts /\ (Target(op) # "approved" => NeedsComment(op))
  BY DEF Target, Reviews, Verdicts, NeedsComment

\* The initial states are typed.
LEMMA InitType == Init => TypeOK
<1>1. (CHOOSE j \in Job : TRUE) \in Job
  <2>1. PICK w \in Workflows : TRUE
      OBVIOUS
  <2>2. [op |-> "create", wf |-> w, text |-> "text"] \in Job
      BY DEF Job, Ops, Texts
  <2> QED BY <2>2
<1> QED BY <1>1 DEF Init, TypeOK, Stored, Editable, Texts, Steps, Codes

\* The variables hold what their columns and the handlers' locals can hold.
THEOREM TypeCorrect == Spec => []TypeOK
<1>1. Init => TypeOK
  BY InitType
<1>2. TypeOK /\ [Next]_vars => TypeOK'
  <2> SUFFICES ASSUME TypeOK, [Next]_vars PROVE TypeOK'
    OBVIOUS
  <2> USE DEF TypeOK, Op, Wf, Exists, table, history, Go, Reply, Steps, Codes
  <2>1. ASSUME NEW r \in Requests, Begin(r) PROVE TypeOK'
    <3>1. PICK j \in Job :
            /\ job' = [job EXCEPT ![r] = j]
            /\ Reply(r, "bad_request") \/ Go(r, FirstStep(j.op))
            /\ from' = [from EXCEPT ![r] = IF j.op \in Reviews THEN "pending" ELSE "none"]
      BY <2>1 DEF Begin
    <3>2. FirstStep(j.op) \in Steps
      BY DEF FirstStep
    <3> QED BY <2>1, <3>1, <3>2 DEF Begin
  <2>2. ASSUME NEW r \in Requests, CreateInsert(r) PROVE TypeOK'
    <3>1. PICK w \in Workflows :
            /\ status' = [status EXCEPT ![w] = "draft"]
            /\ content' = [content EXCEPT ![w] = r]
            /\ job' = [job EXCEPT ![r].wf = w]
      BY <2>2 DEF CreateInsert
    <3>2. status' \in [Workflows -> {"none", "deleted"} \cup Stored]
      BY <3>1 DEF Stored, Editable
    <3>3. job' \in [Requests -> Job]
      BY <3>1 DEF Job
    <3>4. pc' \in [Requests -> Steps] /\ resp' \in [Requests -> Codes]
      BY <2>2 DEF CreateInsert
    <3> QED BY <2>2, <3>1, <3>2, <3>3, <3>4 DEF CreateInsert
  <2>3. ASSUME NEW r \in Requests, UpdateRead(r) PROVE TypeOK'
    BY <2>3 DEF UpdateRead, MayEdit
  <2>4. ASSUME NEW r \in Requests, UpdateWrite(r) PROVE TypeOK'
    BY <2>4 DEF UpdateWrite
  <2>5. ASSUME NEW r \in Requests, DeleteRead(r) PROVE TypeOK'
    BY <2>5 DEF DeleteRead
  <2>6. ASSUME NEW r \in Requests, DeleteWrite(r) PROVE TypeOK'
    BY <2>6 DEF DeleteWrite
  <2>7. ASSUME NEW r \in Requests, SubmitPeek(r) PROVE TypeOK'
    BY <2>7 DEF SubmitPeek, MayEdit
  <2>8. ASSUME NEW r \in Requests, TransitionRead(r) PROVE TypeOK'
    BY <2>8 DEF TransitionRead
  <2>9. ASSUME NEW r \in Requests, TransitionWrite(r) PROVE TypeOK'
    <3>1. CASE status[Wf(r)] = from[r]
      <4>1. Apply(r, Wf(r)) /\ Go(r, "event") /\ UNCHANGED <<content, events, job, from>>
        BY <2>9, <3>1 DEF TransitionWrite
      <4>2. Op(r) \in Ops /\ Target(Op(r)) \in Stored /\ Wf(r) \in Workflows /\ job[r].text \in Texts
        BY TargetType DEF Job
      <4>3. /\ round' \in [Workflows -> Nat] /\ overlap' \in [Workflows -> SUBSET Requests]
            /\ reviewer' \in [Workflows -> Requests \cup {Nobody}] /\ remark' \in [Workflows -> Texts]
        <5>1. CASE Op(r) \in Reviews
          BY <4>1, <4>2, <5>1 DEF Apply
        <5>2. CASE Op(r) \notin Reviews
          BY <4>1, <4>2, <5>2 DEF Apply
        <5> QED BY <5>1, <5>2
      <4>4. tookIn' \in [Requests -> Nat]
        BY <4>1, <4>2, <4>3 DEF Apply
      <4> QED BY <4>1, <4>2, <4>3, <4>4 DEF Apply
    <3>2. CASE status[Wf(r)] # from[r]
      BY <2>9, <3>2 DEF TransitionWrite
    <3> QED BY <3>1, <3>2
  <2>10. ASSUME NEW r \in Requests, InsertEvent(r) PROVE TypeOK'
    <3>1. events' \subseteq Event
      BY TargetType, <2>10 DEF InsertEvent, Event, Job, Stored, Editable
    <3>2. pc' \in [Requests -> Steps] /\ resp' \in [Requests -> Codes]
      BY <2>10 DEF InsertEvent, ErrorCode
    <3> QED BY <2>10, <3>1, <3>2 DEF InsertEvent
  <2>11. ASSUME NEW r \in Requests, Fail(r) PROVE TypeOK'
    BY <2>11 DEF Fail, ErrorCode
  <2>12. CASE UNCHANGED vars
    BY <2>12 DEF vars
  <2> QED BY <2>1, <2>2, <2>3, <2>4, <2>5, <2>6, <2>7, <2>8, <2>9, <2>10, <2>11, <2>12 DEF Next
<1> QED BY <1>1, <1>2, PTL DEF Spec

-----------------------------------------------------------------------------
\* What a transition does when its UPDATE matches, once its request's place is known:
\* a review finds the workflow pending and signs it in its last round, a submission
\* finds it editable and opens a round.
Matched(r) == TransitionWrite(r) /\ status[Wf(r)] = from[r]

\* The facts about a matched UPDATE that the other lemmas use.
LEMMA MatchedUpdate ==
  ASSUME TypeOK, Progress, Rounds, NEW r \in Requests, Matched(r)
  PROVE  /\ Wf(r) \in Workflows /\ Op(r) \in Moves /\ Target(Op(r)) \in Stored
         /\ status[Wf(r)] \in Expected(Op(r))
         /\ status' = [status EXCEPT ![Wf(r)] = Target(Op(r))]
         /\ tookIn' = [tookIn EXCEPT ![r] = round'[Wf(r)]] /\ tookIn[r] = 0
         /\ round'[Wf(r)] # 0
         /\ pc' = [pc EXCEPT ![r] = "event"] /\ pc[r] = "write"
         /\ UNCHANGED <<content, events, job, from, resp>>
         /\ Op(r) \in Reviews =>
              /\ status[Wf(r)] = "pending" /\ UNCHANGED <<round, overlap>>
              /\ reviewer' = [reviewer EXCEPT ![Wf(r)] = r]
              /\ remark' = [remark EXCEPT ![Wf(r)] = job[r].text]
         /\ Op(r) \notin Reviews =>
              /\ Op(r) = "submit" /\ status[Wf(r)] \in Editable
              /\ Target(Op(r)) = "pending" /\ UNCHANGED <<reviewer, remark>>
              /\ round' = [round EXCEPT ![Wf(r)] = @ + 1]
              /\ overlap' = [overlap EXCEPT ![Wf(r)] =
                   {q \in Requests : /\ pc[q] = "write" /\ Wf(q) = Wf(r)
                                     /\ Op(q) \in {"update", "delete"}}]
  <1>1. /\ pc[r] = "write" /\ Op(r) \in Moves /\ Apply(r, Wf(r)) /\ Go(r, "event")
        /\ UNCHANGED <<content, events, job, from>>
    BY DEF Matched, TransitionWrite
  <1>2. Wf(r) \in Workflows /\ Op(r) \in Ops /\ Target(Op(r)) \in Stored
    BY TargetType DEF TypeOK, Job, Wf, Op
  <1>3. status[Wf(r)] \in Expected(Op(r)) /\ tookIn[r] = 0
    BY <1>1 DEF Matched, Progress
  <1>4. CASE Op(r) \in Reviews
    <2>1. status[Wf(r)] = "pending" /\ UNCHANGED <<round, overlap>>
      BY <1>1, <1>3, <1>4 DEF Apply, Expected, Reviews
    <2>2. round'[Wf(r)] # 0
      BY <1>2, <2>1 DEF Rounds
    <2> QED BY <1>1, <1>2, <1>3, <1>4, <2>1, <2>2 DEF Apply, Go
  <1>5. CASE Op(r) \notin Reviews
    <2>1. Op(r) = "submit" /\ status[Wf(r)] \in Editable
      BY <1>1, <1>3, <1>5 DEF Moves, Expected
    <2>2. Target(Op(r)) = "pending"
      BY <2>1 DEF Target
    <2>3. round' = [round EXCEPT ![Wf(r)] = @ + 1] /\ round'[Wf(r)] # 0
      BY <1>1, <1>2, <1>5 DEF Apply, TypeOK
    <2> QED BY <1>1, <1>2, <1>3, <1>5, <2>1, <2>2, <2>3 DEF Apply, Go
  <1> QED BY <1>4, <1>5

\* A step keeps what a request's place says of it.
LEMMA ProgressStep == TypeOK /\ TypeOK' /\ Progress /\ Rounds /\ [Next]_vars => Progress'
  <2> SUFFICES ASSUME TypeOK, TypeOK', Progress, Rounds, [Next]_vars PROVE Progress'
    OBVIOUS
  <2> USE DEF TypeOK, Progress, Op, Wf, Exists, table, history, Go, Reply, Steps, Expected, Moves, Reviews
  <2>1. ASSUME NEW r \in Requests, Begin(r) PROVE Progress'
    <3>1. PICK j \in Job :
            /\ job' = [job EXCEPT ![r] = j]
            /\ IF NeedsComment(j.op) /\ j.text = "blank"
               THEN Reply(r, "bad_request") ELSE Go(r, FirstStep(j.op))
            /\ from' = [from EXCEPT ![r] = IF j.op \in Reviews THEN "pending" ELSE "none"]
      BY <2>1 DEF Begin
    <3>2. NeedsComment(j.op) /\ j.text # "blank" => j.text = "text"
      BY DEF Job, Texts
    <3>3. j.op \in Ops /\ FirstStep(j.op) \in {"insert", "peek", "read"}
      BY DEF Job, FirstStep
    <3>4. pc[r] = "idle" /\ UNCHANGED <<tookIn>> /\ tookIn[r] = 0 /\ resp[r] = "none"
      BY <2>1 DEF Begin
    <3>5. job'[r] = j /\ \A q \in Requests \ {r} : job'[q] = job[q]
      BY <3>1
    <3>6. CASE NeedsComment(j.op) /\ j.text = "blank"
      BY <3>1, <3>4, <3>5, <3>6 DEF NeedsComment
    <3>7. CASE ~(NeedsComment(j.op) /\ j.text = "blank")
      <4>1. /\ pc' = [pc EXCEPT ![r] = FirstStep(j.op)] /\ UNCHANGED resp
            /\ from'[r] = IF j.op \in Reviews THEN "pending" ELSE "none"
            /\ \A q \in Requests \ {r} : from'[q] = from[q]
        BY <3>1, <3>7
      <4> QED BY <4>1, <3>2, <3>3, <3>4, <3>5, <3>7 DEF FirstStep, NeedsComment, Ops
    <3> QED BY <3>6, <3>7
  <2>2. ASSUME NEW r \in Requests, CreateInsert(r) PROVE Progress'
    BY <2>2 DEF CreateInsert
  <2>3. ASSUME NEW r \in Requests, UpdateRead(r) PROVE Progress'
    BY <2>3 DEF UpdateRead, MayEdit
  <2>4. ASSUME NEW r \in Requests, UpdateWrite(r) PROVE Progress'
    BY <2>4 DEF UpdateWrite
  <2>5. ASSUME NEW r \in Requests, DeleteRead(r) PROVE Progress'
    BY <2>5 DEF DeleteRead
  <2>6. ASSUME NEW r \in Requests, DeleteWrite(r) PROVE Progress'
    BY <2>6 DEF DeleteWrite
  <2>7. ASSUME NEW r \in Requests, SubmitPeek(r) PROVE Progress'
    BY <2>7 DEF SubmitPeek, MayEdit
  <2>8. ASSUME NEW r \in Requests, TransitionRead(r) PROVE Progress'
    BY <2>8 DEF TransitionRead
  <2>9. ASSUME NEW r \in Requests, TransitionWrite(r) PROVE Progress'
    <3>1. CASE Matched(r)
      BY <3>1, MatchedUpdate DEF NeedsComment
    <3>2. CASE ~Matched(r)
      BY <2>9, <3>2 DEF TransitionWrite, Matched
    <3> QED BY <3>1, <3>2
  <2>10. ASSUME NEW r \in Requests, InsertEvent(r) PROVE Progress'
    BY <2>10 DEF InsertEvent
  <2>11. ASSUME NEW r \in Requests, Fail(r) PROVE Progress'
    BY <2>11 DEF Fail, ErrorCode
  <2>12. CASE UNCHANGED vars
    BY <2>12 DEF vars
  <2> QED BY <2>1, <2>2, <2>3, <2>4, <2>5, <2>6, <2>7, <2>8, <2>9, <2>10, <2>11, <2>12 DEF Next

\* What a request has done stays on record, with the job it did it for.
LEMMA MovesAreKept ==
  ASSUME TypeOK, Progress, [Next]_vars, NEW q \in Requests, tookIn[q] # 0
  PROVE  tookIn'[q] = tookIn[q] /\ job'[q] = job[q] /\ from'[q] = from[q]
  <2> USE DEF TypeOK, Progress, Op, Wf, Exists, table, history, Go, Reply
  <2>1. ASSUME NEW r \in Requests, Begin(r) PROVE tookIn'[q] = tookIn[q] /\ job'[q] = job[q] /\ from'[q] = from[q]
    BY <2>1 DEF Begin, NeedsComment, FirstStep
  <2>2. ASSUME NEW r \in Requests, CreateInsert(r) PROVE tookIn'[q] = tookIn[q] /\ job'[q] = job[q] /\ from'[q] = from[q]
    BY <2>2 DEF CreateInsert
  <2>3. ASSUME NEW r \in Requests, UpdateRead(r) PROVE tookIn'[q] = tookIn[q] /\ job'[q] = job[q] /\ from'[q] = from[q]
    BY <2>3 DEF UpdateRead, MayEdit
  <2>4. ASSUME NEW r \in Requests, UpdateWrite(r) PROVE tookIn'[q] = tookIn[q] /\ job'[q] = job[q] /\ from'[q] = from[q]
    BY <2>4 DEF UpdateWrite
  <2>5. ASSUME NEW r \in Requests, DeleteRead(r) PROVE tookIn'[q] = tookIn[q] /\ job'[q] = job[q] /\ from'[q] = from[q]
    BY <2>5 DEF DeleteRead
  <2>6. ASSUME NEW r \in Requests, DeleteWrite(r) PROVE tookIn'[q] = tookIn[q] /\ job'[q] = job[q] /\ from'[q] = from[q]
    BY <2>6 DEF DeleteWrite
  <2>7. ASSUME NEW r \in Requests, SubmitPeek(r) PROVE tookIn'[q] = tookIn[q] /\ job'[q] = job[q] /\ from'[q] = from[q]
    BY <2>7 DEF SubmitPeek, MayEdit
  <2>8. ASSUME NEW r \in Requests, TransitionRead(r) PROVE tookIn'[q] = tookIn[q] /\ job'[q] = job[q] /\ from'[q] = from[q]
    BY <2>8 DEF TransitionRead
  <2>9. ASSUME NEW r \in Requests, TransitionWrite(r) PROVE tookIn'[q] = tookIn[q] /\ job'[q] = job[q] /\ from'[q] = from[q]
    BY <2>9 DEF TransitionWrite, Apply
  <2>10. ASSUME NEW r \in Requests, InsertEvent(r) PROVE tookIn'[q] = tookIn[q] /\ job'[q] = job[q] /\ from'[q] = from[q]
    BY <2>10 DEF InsertEvent
  <2>11. ASSUME NEW r \in Requests, Fail(r) PROVE tookIn'[q] = tookIn[q] /\ job'[q] = job[q] /\ from'[q] = from[q]
    BY <2>11 DEF Fail, ErrorCode
  <2>12. CASE UNCHANGED vars
    BY <2>12 DEF vars
  <2> QED BY <2>1, <2>2, <2>3, <2>4, <2>5, <2>6, <2>7, <2>8, <2>9, <2>10, <2>11, <2>12 DEF Next

\* Every other step leaves the rounds and the signatures as they are, and changes a
\* status only by creating or removing the row.
Still == /\ UNCHANGED <<tookIn, round, overlap, reviewer, remark>>
         /\ \A w \in Workflows : \/ status'[w] = status[w] \/ status'[w] = "deleted"
                                 \/ status[w] = "none" /\ status'[w] = "draft"

\* The columns and histories change in few ways: by a transition whose UPDATE matched,
\* or in one of the ways that Still names, which move no round.
LEMMA StepKinds == TypeOK /\ [Next]_vars => Still \/ \E r \in Requests : Matched(r)
  <2> SUFFICES ASSUME TypeOK, [Next]_vars, ~\E r \in Requests : Matched(r) PROVE Still
    OBVIOUS
  <2> USE DEF TypeOK, Still, Op, Wf, Exists, table, history
  <2>1. ASSUME NEW r \in Requests, Begin(r) PROVE Still
    BY <2>1 DEF Begin, NeedsComment, FirstStep
  <2>2. ASSUME NEW r \in Requests, CreateInsert(r) PROVE Still
    BY <2>2 DEF CreateInsert
  <2>3. ASSUME NEW r \in Requests, UpdateRead(r) PROVE Still
    BY <2>3 DEF UpdateRead, MayEdit
  <2>4. ASSUME NEW r \in Requests, UpdateWrite(r) PROVE Still
    BY <2>4 DEF UpdateWrite
  <2>5. ASSUME NEW r \in Requests, DeleteRead(r) PROVE Still
    BY <2>5 DEF DeleteRead
  <2>6. ASSUME NEW r \in Requests, DeleteWrite(r) PROVE Still
    BY <2>6 DEF DeleteWrite
  <2>7. ASSUME NEW r \in Requests, SubmitPeek(r) PROVE Still
    BY <2>7 DEF SubmitPeek, MayEdit
  <2>8. ASSUME NEW r \in Requests, TransitionRead(r) PROVE Still
    BY <2>8 DEF TransitionRead
  <2>9. ASSUME NEW r \in Requests, TransitionWrite(r) PROVE Still
    BY <2>9 DEF TransitionWrite, Matched
  <2>10. ASSUME NEW r \in Requests, InsertEvent(r) PROVE Still
    BY <2>10 DEF InsertEvent
  <2>11. ASSUME NEW r \in Requests, Fail(r) PROVE Still
    BY <2>11 DEF Fail, ErrorCode
  <2>12. CASE UNCHANGED vars
    BY <2>12 DEF vars
  <2> QED BY <2>1, <2>2, <2>3, <2>4, <2>5, <2>6, <2>7, <2>8, <2>9, <2>10, <2>11, <2>12 DEF Next

\* A request moves a workflow in the round the workflow is in.
LEMMA RoundsStep == TypeOK /\ TypeOK' /\ Progress /\ Rounds /\ [Next]_vars => Rounds'
  <1> SUFFICES ASSUME TypeOK, TypeOK', Progress, Rounds, [Next]_vars PROVE Rounds'
    OBVIOUS
  <1>k. \A q \in Requests : tookIn[q] # 0 =>
          tookIn'[q] = tookIn[q] /\ job'[q] = job[q] /\ from'[q] = from[q]
    BY MovesAreKept
  <1>t. \A q \in Requests : Wf(q) \in Workflows /\ tookIn[q] \in Nat /\ round[Wf(q)] \in Nat
    BY DEF TypeOK, Job, Wf
  <1>1. CASE Still
    BY <1>1, <1>k, <1>t DEF Rounds, Still, Op, Wf
  <1>2. ASSUME NEW r \in Requests, Matched(r) PROVE Rounds'
    <2>m. /\ job' = job /\ from' = from /\ tookIn'[r] = round'[Wf(r)] /\ round'[Wf(r)] # 0
          /\ \A q \in Requests \ {r} : tookIn'[q] = tookIn[q]
          /\ \A w \in Workflows \ {Wf(r)} : status'[w] = status[w]
          /\ status'[Wf(r)] = Target(Op(r))
          /\ Op(r) \in Moves /\ from[r] \in Expected(Op(r))
      BY <1>2, MatchedUpdate DEF TypeOK, Matched
    <2>1. CASE Op(r) \in Reviews
      <3>1. round' = round /\ Target(Op(r)) # "pending"
        BY <1>2, <2>1, MatchedUpdate, ReviewTarget DEF Verdicts
      <3> QED BY <2>m, <3>1, <1>t DEF Rounds, Op, Wf
    <2>2. CASE Op(r) \notin Reviews
      <3>1. /\ round'[Wf(r)] = round[Wf(r)] + 1
            /\ \A w \in Workflows \ {Wf(r)} : round'[w] = round[w]
        BY <1>2, <2>2, MatchedUpdate DEF TypeOK
      <3>2. \A q \in Requests : tookIn[q] # 0 => tookIn[q] <= round'[Wf(q)]
        BY <3>1, <1>t DEF Rounds
      <3>3. \A q \in Requests : tookIn[q] # 0 /\ Wf(q) = Wf(r) => tookIn[q] < round'[Wf(q)]
        BY <3>1, <1>t DEF Rounds
      <3>4. ASSUME NEW q \in Requests, tookIn'[q] # 0
            PROVE  /\ Op(q)' \in Moves /\ from'[q] \in Expected(Op(q)')
                   /\ tookIn'[q] <= round'[Wf(q)']
                   /\ Op(q)' \in Reviews /\ status'[Wf(q)'] = "pending" => tookIn'[q] < round'[Wf(q)']
        <4>1. Op(q)' = Op(q) /\ Wf(q)' = Wf(q) /\ round'[Wf(r)] \in Nat
          BY <2>m, <3>1, <1>t DEF Op, Wf
        <4>2. CASE q = r
          BY <2>m, <2>2, <4>1, <4>2
        <4>3. CASE q # r /\ Wf(q) = Wf(r)
          BY <2>m, <3>3, <3>2, <3>4, <4>1, <4>3 DEF Rounds
        <4>4. CASE q # r /\ Wf(q) # Wf(r)
          BY <2>m, <3>1, <3>4, <4>1, <4>4, <1>t DEF Rounds
        <4> QED BY <4>2, <4>3, <4>4
      <3> QED BY <2>m, <3>1, <3>4, <1>t DEF Rounds
    <2> QED BY <2>1, <2>2
  <1> QED BY <1>1, <1>2, StepKinds

\* A matched UPDATE finds the round without a move of its kind.
LEMMA OneMoveStep ==
  TypeOK /\ Progress /\ Rounds /\ OneMovePerRound /\ [Next]_vars => OneMovePerRound'
  <1> SUFFICES ASSUME TypeOK, Progress, Rounds, OneMovePerRound, [Next]_vars
               PROVE  OneMovePerRound'
    OBVIOUS
  <1>k. \A q \in Requests : tookIn[q] # 0 => tookIn'[q] = tookIn[q] /\ job'[q] = job[q]
    BY MovesAreKept
  <1>t. \A q \in Requests : Wf(q) \in Workflows /\ tookIn[q] \in Nat /\ round[Wf(q)] \in Nat
    BY DEF TypeOK, Job, Wf
  <1>1. CASE Still
    BY <1>1, <1>k DEF OneMovePerRound, Still, Op, Wf
  <1>2. ASSUME NEW r \in Requests, Matched(r) PROVE OneMovePerRound'
    <2>1. \A q \in Requests : q # r => tookIn'[q] = tookIn[q]
      BY <1>2, MatchedUpdate DEF TypeOK
    <2>2. tookIn'[r] = round'[Wf(r)] /\ job' = job
      BY <1>2, MatchedUpdate DEF TypeOK
    <2>3. ASSUME NEW q \in Requests, q # r, tookIn[q] # 0, Wf(q) = Wf(r),
                 Op(q) \in Reviews <=> Op(r) \in Reviews
          PROVE  tookIn[q] < round'[Wf(r)]
      <3>1. CASE Op(r) \in Reviews
        BY <1>2, <2>3, <3>1, MatchedUpdate DEF Rounds
      <3>2. CASE Op(r) \notin Reviews
        BY <1>2, <2>3, <3>2, <1>t, MatchedUpdate DEF Rounds, TypeOK
      <3> QED BY <3>1, <3>2
    <2>4. round'[Wf(r)] \in Nat
      BY <1>2, <1>t, MatchedUpdate DEF TypeOK
    <2> QED BY <2>1, <2>2, <2>3, <2>4, <1>t DEF OneMovePerRound, Op, Wf
  <1> QED BY <1>1, <1>2, StepKinds

\* A matched review signs the row, and nothing else touches the signature.
LEMMA VerdictStep ==
  TypeOK /\ Progress /\ Rounds /\ VerdictIsSigned /\ [Next]_vars => VerdictIsSigned'
  <1> SUFFICES ASSUME TypeOK, Progress, Rounds, VerdictIsSigned, [Next]_vars,
                      NEW w \in Workflows, status'[w] \in Verdicts
               PROVE  \E r \in Requests : SignedBy(w, r)'
    BY DEF VerdictIsSigned
  <1>k. \A q \in Requests : tookIn[q] # 0 => tookIn'[q] = tookIn[q] /\ job'[q] = job[q]
    BY MovesAreKept
  \* A row that nobody signs in this step keeps its signature.
  <1>s. ASSUME status'[w] = status[w], reviewer'[w] = reviewer[w], remark'[w] = remark[w],
               round'[w] = round[w]
        PROVE  \E r \in Requests : SignedBy(w, r)'
    <2>1. PICK r \in Requests : SignedBy(w, r)
      BY <1>s DEF VerdictIsSigned
    <2>2. tookIn[r] # 0
      BY <1>s, <2>1 DEF SignedBy, Rounds, Verdicts
    <2>3. SignedBy(w, r)'
      BY <1>s, <1>k, <2>1, <2>2 DEF SignedBy, Op, Wf
    <2> QED BY <2>3
  <1>1. CASE Still
    <2>1. status'[w] = status[w]
      BY <1>1 DEF Still, Verdicts
    <2> QED BY <1>1, <1>s, <2>1 DEF Still
  <1>2. ASSUME NEW r \in Requests, Matched(r) PROVE \E q \in Requests : SignedBy(w, q)'
    <2>1. CASE w # Wf(r)
      <3>1. /\ status'[w] = status[w] /\ round'[w] = round[w]
            /\ reviewer'[w] = reviewer[w] /\ remark'[w] = remark[w]
        BY <1>2, <2>1, MatchedUpdate DEF TypeOK
      <3> QED BY <1>s, <3>1
    <2>2. CASE w = Wf(r)
      <3>1. status'[w] = Target(Op(r)) /\ tookIn'[r] = round'[w] /\ job' = job
        BY <1>2, <2>2, MatchedUpdate DEF TypeOK
      <3>2. Op(r) \in Reviews
        BY <1>2, <3>1, MatchedUpdate DEF Verdicts
      <3>3. reviewer'[w] = r /\ remark'[w] = job[r].text
        BY <1>2, <2>2, <3>2, MatchedUpdate DEF TypeOK
      <3>4. pc[r] = "write"
        BY <1>2, MatchedUpdate
      <3>5. Target(Op(r)) # "approved" => job[r].text = "text"
        BY <3>2, <3>4, ReviewTarget DEF Progress
      <3>6. SignedBy(w, r)'
        BY <2>2, <3>1, <3>2, <3>3, <3>5 DEF SignedBy, Op, Wf
      <3> QED BY <3>6
    <2> QED BY <2>1, <2>2
  <1> QED BY <1>1, <1>2, StepKinds

\* Nobody passes the check of a pending workflow.
LEMMA StragglersStep ==
  TypeOK /\ Progress /\ Rounds /\ Stragglers /\ [Next]_vars => Stragglers'
  <2> SUFFICES ASSUME TypeOK, Progress, Rounds, Stragglers, [Next]_vars PROVE Stragglers'
    OBVIOUS
  <2> USE DEF TypeOK, Job, Stragglers, Op, Wf, Exists, table, history, Go, Reply, Moves, Reviews
  <2>1. ASSUME NEW r \in Requests, Begin(r) PROVE Stragglers'
    BY <2>1 DEF Begin, NeedsComment, FirstStep
  <2>2. ASSUME NEW r \in Requests, CreateInsert(r) PROVE Stragglers'
    BY <2>2 DEF CreateInsert
  <2>3. ASSUME NEW r \in Requests, UpdateRead(r) PROVE Stragglers'
    BY <2>3 DEF UpdateRead, MayEdit, Editable
  <2>4. ASSUME NEW r \in Requests, UpdateWrite(r) PROVE Stragglers'
    BY <2>4 DEF UpdateWrite
  <2>5. ASSUME NEW r \in Requests, DeleteRead(r) PROVE Stragglers'
    BY <2>5 DEF DeleteRead
  <2>6. ASSUME NEW r \in Requests, DeleteWrite(r) PROVE Stragglers'
    BY <2>6 DEF DeleteWrite
  <2>7. ASSUME NEW r \in Requests, SubmitPeek(r) PROVE Stragglers'
    BY <2>7 DEF SubmitPeek, MayEdit
  <2>8. ASSUME NEW r \in Requests, TransitionRead(r) PROVE Stragglers'
    BY <2>8 DEF TransitionRead
  <2>9. ASSUME NEW r \in Requests, TransitionWrite(r) PROVE Stragglers'
    <3>1. CASE Matched(r)
      <4>1. /\ pc' = [pc EXCEPT ![r] = "event"] /\ job' = job /\ Wf(r) \in Workflows
            /\ status' = [status EXCEPT ![Wf(r)] = Target(Op(r))]
        BY <3>1, MatchedUpdate
      <4>2. CASE Op(r) \in Reviews
        <5>1. Target(Op(r)) # "pending" /\ overlap' = overlap
          BY <3>1, <4>2, MatchedUpdate, ReviewTarget DEF Verdicts
        <5> QED BY <4>1, <5>1
      <4>3. CASE Op(r) \notin Reviews
        <5>1. overlap' = [overlap EXCEPT ![Wf(r)] =
                {q \in Requests : /\ pc[q] = "write" /\ Wf(q) = Wf(r)
                                  /\ Op(q) \in {"update", "delete"}}]
          BY <3>1, <4>3, MatchedUpdate
        <5> QED BY <4>1, <5>1
      <4> QED BY <4>2, <4>3
    <3>2. CASE ~Matched(r)
      BY <2>9, <3>2 DEF TransitionWrite, Matched
    <3> QED BY <3>1, <3>2
  <2>10. ASSUME NEW r \in Requests, InsertEvent(r) PROVE Stragglers'
    BY <2>10 DEF InsertEvent
  <2>11. ASSUME NEW r \in Requests, Fail(r) PROVE Stragglers'
    BY <2>11 DEF Fail, ErrorCode
  <2>12. CASE UNCHANGED vars
    BY <2>12 DEF vars
  <2> QED BY <2>1, <2>2, <2>3, <2>4, <2>5, <2>6, <2>7, <2>8, <2>9, <2>10, <2>11, <2>12 DEF Next

\* An event is inserted only by a request that has moved its workflow.
LEMMA EventsStep ==
  /\ TypeOK /\ Progress /\ Rounds /\ EventsAreTrue /\ [Next]_vars
  => EventsAreTrue'
  <2> SUFFICES ASSUME TypeOK, Progress, Rounds, EventsAreTrue, [Next]_vars
               PROVE  EventsAreTrue'
    OBVIOUS
  <2>k. \A q \in Requests : tookIn[q] # 0 => tookIn'[q] = tookIn[q] /\ job'[q] = job[q]
    BY MovesAreKept
  <2>e. \A e \in events : e.by \in Requests
    BY DEF TypeOK, Event
  <2>s. events' = events => EventsAreTrue'
    BY <2>k, <2>e DEF EventsAreTrue, Op, Wf
  <2> USE DEF table, history
  <2>1. ASSUME NEW r \in Requests, Begin(r) PROVE EventsAreTrue'
    BY <2>1, <2>s DEF Begin, NeedsComment, FirstStep
  <2>2. ASSUME NEW r \in Requests, CreateInsert(r) PROVE EventsAreTrue'
    BY <2>2, <2>s DEF CreateInsert
  <2>3. ASSUME NEW r \in Requests, UpdateRead(r) PROVE EventsAreTrue'
    BY <2>3, <2>s DEF UpdateRead, MayEdit
  <2>4. ASSUME NEW r \in Requests, UpdateWrite(r) PROVE EventsAreTrue'
    BY <2>4, <2>s DEF UpdateWrite
  <2>5. ASSUME NEW r \in Requests, DeleteRead(r) PROVE EventsAreTrue'
    BY <2>5, <2>s DEF DeleteRead
  <2>6. ASSUME NEW r \in Requests, DeleteWrite(r) PROVE EventsAreTrue'
    BY <2>6, <2>s DEF DeleteWrite
  <2>7. ASSUME NEW r \in Requests, SubmitPeek(r) PROVE EventsAreTrue'
    BY <2>7, <2>s DEF SubmitPeek, MayEdit
  <2>8. ASSUME NEW r \in Requests, TransitionRead(r) PROVE EventsAreTrue'
    BY <2>8, <2>s DEF TransitionRead
  <2>9. ASSUME NEW r \in Requests, TransitionWrite(r) PROVE EventsAreTrue'
    BY <2>9, <2>s DEF TransitionWrite, Apply
  <2>10. ASSUME NEW r \in Requests, InsertEvent(r) PROVE EventsAreTrue'
    <3>1. CASE Op(r) = "create"
      BY <2>10, <3>1, <2>k, <2>e DEF InsertEvent, EventsAreTrue, Op, Wf
    <3>2. CASE Op(r) # "create"
      <4>1. Op(r) \in Moves /\ tookIn[r] # 0 /\ from[r] \in Expected(Op(r))
        BY <2>10, <3>2 DEF InsertEvent, Progress, Rounds
      <4>2. from[r] \in IF Target(Op(r)) = "pending" THEN Editable ELSE {"pending"}
        BY <4>1, ReviewTarget DEF Expected, Moves, Reviews, Verdicts, Target
      <4>3. /\ events' = events \cup {[wf |-> Wf(r), by |-> r, was |-> from[r], to |-> Target(Op(r))]}
            /\ UNCHANGED <<tookIn, job>>
        BY <2>10, <3>2 DEF InsertEvent
      <4> QED BY <4>1, <4>2, <4>3 DEF EventsAreTrue, Op, Wf
    <3> QED BY <3>1, <3>2
  <2>11. ASSUME NEW r \in Requests, Fail(r) PROVE EventsAreTrue'
    BY <2>11, <2>s DEF Fail, ErrorCode
  <2>12. CASE UNCHANGED vars
    BY <2>12, <2>s DEF vars
  <2> QED BY <2>1, <2>2, <2>3, <2>4, <2>5, <2>6, <2>7, <2>8, <2>9, <2>10, <2>11, <2>12 DEF Next

\* A transition answers 200 only from the step that inserts its event.
LEMMA AcknowledgedStep ==
  TypeOK /\ Progress /\ AcknowledgedMoveIsLogged /\ [Next]_vars => AcknowledgedMoveIsLogged'
  <2> SUFFICES ASSUME TypeOK, Progress, AcknowledgedMoveIsLogged, [Next]_vars
               PROVE  AcknowledgedMoveIsLogged'
    OBVIOUS
  \* Who has been told "ok" keeps its job; so it is enough that the others are not
  \* told "ok" in this step, unless they are being logged.
  <2>s. ASSUME events \subseteq events',
               \A q \in Requests : resp'[q] = "ok" /\ Op(q)' \in Moves =>
                 resp[q] = "ok" /\ job'[q] = job[q]
        PROVE  AcknowledgedMoveIsLogged'
    BY <2>s DEF AcknowledgedMoveIsLogged, Op, Wf
  <2> USE DEF TypeOK, Progress, Op, Wf, table, history, Go, Reply, Moves, Reviews
  <2>1. ASSUME NEW r \in Requests, Begin(r) PROVE AcknowledgedMoveIsLogged'
    BY <2>1, <2>s DEF Begin, NeedsComment, FirstStep
  <2>2. ASSUME NEW r \in Requests, CreateInsert(r) PROVE AcknowledgedMoveIsLogged'
    BY <2>2, <2>s DEF CreateInsert
  <2>3. ASSUME NEW r \in Requests, UpdateRead(r) PROVE AcknowledgedMoveIsLogged'
    BY <2>3, <2>s DEF UpdateRead, MayEdit
  <2>4. ASSUME NEW r \in Requests, UpdateWrite(r) PROVE AcknowledgedMoveIsLogged'
    BY <2>4, <2>s DEF UpdateWrite
  <2>5. ASSUME NEW r \in Requests, DeleteRead(r) PROVE AcknowledgedMoveIsLogged'
    BY <2>5, <2>s DEF DeleteRead
  <2>6. ASSUME NEW r \in Requests, DeleteWrite(r) PROVE AcknowledgedMoveIsLogged'
    BY <2>6, <2>s DEF DeleteWrite
  <2>7. ASSUME NEW r \in Requests, SubmitPeek(r) PROVE AcknowledgedMoveIsLogged'
    BY <2>7, <2>s DEF SubmitPeek, MayEdit
  <2>8. ASSUME NEW r \in Requests, TransitionRead(r) PROVE AcknowledgedMoveIsLogged'
    BY <2>8, <2>s DEF TransitionRead
  <2>9. ASSUME NEW r \in Requests, TransitionWrite(r) PROVE AcknowledgedMoveIsLogged'
    BY <2>9, <2>s DEF TransitionWrite, Apply
  <2>10. ASSUME NEW r \in Requests, InsertEvent(r) PROVE AcknowledgedMoveIsLogged'
    <3>1. CASE Op(r) = "create"
      BY <2>10, <3>1, <2>s DEF InsertEvent
    <3>2. CASE Op(r) # "create"
      <4> DEFINE e == [wf |-> Wf(r), by |-> r, was |-> from[r], to |-> Target(Op(r))]
      <4>1. /\ events' = events \cup {e} /\ job' = job
            /\ \E c \in Codes : resp' = [resp EXCEPT ![r] = c]
        BY <2>10, <3>2 DEF InsertEvent, ErrorCode, Codes
      <4>2. e \in events' /\ e.by = r /\ e.wf = Wf(r) /\ e.to = Target(Op(r))
        BY <4>1
      <4> HIDE DEF e
      <4>3. \A q \in Requests \ {r} : resp'[q] = resp[q]
        BY <4>1
      <4> QED BY <4>1, <4>2, <4>3 DEF AcknowledgedMoveIsLogged
    <3> QED BY <3>1, <3>2
  <2>11. ASSUME NEW r \in Requests, Fail(r) PROVE AcknowledgedMoveIsLogged'
    BY <2>11, <2>s DEF Fail, ErrorCode
  <2>12. CASE UNCHANGED vars
    BY <2>12, <2>s DEF vars
  <2> QED BY <2>1, <2>2, <2>3, <2>4, <2>5, <2>6, <2>7, <2>8, <2>9, <2>10, <2>11, <2>12 DEF Next

\* IInv holds of every behaviour.
LEMMA Invariance == Spec => []IInv
<1>1. Init => IInv
  <2> SUFFICES ASSUME Init PROVE Progress /\ Rounds /\ Stragglers /\ OneMovePerRound
                                 /\ VerdictIsSigned /\ EventsAreTrue /\ AcknowledgedMoveIsLogged
    BY InitType DEF IInv
  <2> QED BY DEF Init, Progress, Rounds, Stragglers, OneMovePerRound, VerdictIsSigned, Verdicts,
                 EventsAreTrue, AcknowledgedMoveIsLogged
<1>2. TypeOK /\ TypeOK' /\ IInv /\ [Next]_vars => IInv'
  BY ProgressStep, RoundsStep, OneMoveStep, VerdictStep, StragglersStep, EventsStep,
     AcknowledgedStep DEF IInv
<1> QED BY <1>1, <1>2, TypeCorrect, PTL DEF Spec

\* For any number of workflows and of racing requests: each round of review is opened
\* by one submission and ended by at most one verdict, the row carries the signature
\* and the comment of that verdict, and the event log is true and misses nothing that
\* was acknowledged.
THEOREM ReviewsAreSound ==
  Spec => [](OneMovePerRound /\ VerdictIsSigned /\ EventsAreTrue /\ AcknowledgedMoveIsLogged)
<1>1. IInv => OneMovePerRound /\ VerdictIsSigned /\ EventsAreTrue /\ AcknowledgedMoveIsLogged
  BY DEF IInv
<1> QED BY <1>1, Invariance, PTL

\* Whoever checks a workflow after it was submitted neither edits nor removes it while
\* it is pending.
THEOREM LateWritersRefused == Spec => LateWritersAreRefused
<1> DEFINE Refused ==
      \A w \in Workflows :
        status[w] = "pending" /\ (content'[w] # content[w] \/ status'[w] = "deleted")
        => \E r \in overlap[w] : Wf(r) = w /\ pc[r] = "write" /\ pc'[r] = "done"
<1>1. IInv /\ [Next]_vars => [Refused]_vars
  <2> SUFFICES ASSUME IInv, [Next]_vars PROVE Refused
    OBVIOUS
  <2> USE DEF IInv, TypeOK, Job, Stragglers, Op, Wf, table, history, Reply
  <2>1. ASSUME NEW r \in Requests, Begin(r) PROVE Refused
    BY <2>1 DEF Begin, NeedsComment, FirstStep
  <2>2. ASSUME NEW r \in Requests, CreateInsert(r) PROVE Refused
    BY <2>2 DEF CreateInsert
  <2>3. ASSUME NEW r \in Requests, UpdateRead(r) PROVE Refused
    BY <2>3 DEF UpdateRead, MayEdit
  <2>4. ASSUME NEW r \in Requests, UpdateWrite(r) PROVE Refused
    BY <2>4 DEF UpdateWrite
  <2>5. ASSUME NEW r \in Requests, DeleteRead(r) PROVE Refused
    BY <2>5 DEF DeleteRead
  <2>6. ASSUME NEW r \in Requests, DeleteWrite(r) PROVE Refused
    BY <2>6 DEF DeleteWrite
  <2>7. ASSUME NEW r \in Requests, SubmitPeek(r) PROVE Refused
    BY <2>7 DEF SubmitPeek, MayEdit
  <2>8. ASSUME NEW r \in Requests, TransitionRead(r) PROVE Refused
    BY <2>8 DEF TransitionRead
  <2>9. ASSUME NEW r \in Requests, TransitionWrite(r) PROVE Refused
    <3>1. CASE Matched(r)
      <4>1. content' = content /\ status' = [status EXCEPT ![Wf(r)] = Target(Op(r))]
        BY <3>1, MatchedUpdate
      <4>2. Target(Op(r)) # "deleted"
        BY <3>1, MatchedUpdate DEF Stored, Editable, Verdicts
      <4> QED BY <4>1, <4>2
    <3>2. CASE ~Matched(r)
      BY <2>9, <3>2 DEF TransitionWrite, Matched
    <3> QED BY <3>1, <3>2
  <2>10. ASSUME NEW r \in Requests, InsertEvent(r) PROVE Refused
    BY <2>10 DEF InsertEvent
  <2>11. ASSUME NEW r \in Requests, Fail(r) PROVE Refused
    BY <2>11 DEF Fail, ErrorCode
  <2>12. CASE UNCHANGED vars
    BY <2>12 DEF vars
  <2> QED BY <2>1, <2>2, <2>3, <2>4, <2>5, <2>6, <2>7, <2>8, <2>9, <2>10, <2>11, <2>12 DEF Next
<1> QED BY <1>1, Invariance, PTL DEF Spec, LateWritersAreRefused

\* The service implements the life cycle: each step of a handler is a step of
\* WorkflowLifecycle or leaves it where it is.
THEOREM Refinement == Spec => FollowsLifecycle
<1> USE DEF Lifecycle!Move
<1>1. Init => Lifecycle!LifecycleInit
  BY DEF Init, Lifecycle!LifecycleInit, PhaseOf, Editable
<1>2. IInv /\ [Next]_vars => [Lifecycle!LifecycleNext]_(Lifecycle!lifecycleVars)
  <2> SUFFICES ASSUME IInv, [Next]_vars
               PROVE  [Lifecycle!LifecycleNext]_(Lifecycle!lifecycleVars)
    OBVIOUS
  <2> DEFINE Ph == [w \in Workflows |-> PhaseOf(status[w])]
             Goal == \/ Ph' = Ph /\ round' = round
                     \/ \E w \in Workflows :
                          Lifecycle!Open(w) \/ Lifecycle!Review(w) \/ Lifecycle!Reopen(w)
                          \/ Lifecycle!Close(w) \/ Lifecycle!Remove(w)
  <2>g. SUFFICES Goal
    BY DEF Lifecycle!LifecycleNext, Lifecycle!lifecycleVars
  <2>q. status' = status /\ round' = round => Goal
    OBVIOUS
  \* The phase of one row moves with its status.
  <2>m. ASSUME NEW w \in Workflows, NEW s, status' = [status EXCEPT ![w] = s]
        PROVE  Ph' = [Ph EXCEPT ![w] = PhaseOf(s)] /\ Ph[w] = PhaseOf(status[w])
    BY <2>m DEF IInv, TypeOK
  <2>p. /\ PhaseOf("draft") = "open" /\ PhaseOf("changes_requested") = "open"
        /\ PhaseOf("pending") = "review" /\ PhaseOf("approved") = "closed"
        /\ PhaseOf("rejected") = "closed" /\ PhaseOf("deleted") = "gone"
        /\ PhaseOf("none") = "none"
    BY DEF PhaseOf, Editable
  <2>w. \A r \in Requests : Wf(r) \in Workflows
    BY DEF IInv, TypeOK, Job, Wf
  <2> HIDE DEF Ph
  <2>1. ASSUME NEW r \in Requests, Begin(r) PROVE Goal
    BY <2>1, <2>q DEF Begin, table, history
  <2>2. ASSUME NEW r \in Requests, CreateInsert(r) PROVE Goal
    <3>1. PICK w \in Workflows : /\ status[w] = "none" /\ status' = [status EXCEPT ![w] = "draft"]
                                /\ round' = round
      BY <2>2 DEF CreateInsert, history
    <3>2. Ph[w] = "none" /\ Ph' = [Ph EXCEPT ![w] = "open"]
      <4>1. Ph' = [Ph EXCEPT ![w] = PhaseOf("draft")] /\ Ph[w] = PhaseOf(status[w])
        BY <3>1, <2>m
      <4> QED BY <3>1, <4>1, <2>p
    <3>3. Lifecycle!Open(w)
      BY <3>1, <3>2 DEF Lifecycle!Open, Ph
    <3> QED BY <3>3
  <2>3. ASSUME NEW r \in Requests, UpdateRead(r) PROVE Goal
    BY <2>3, <2>q DEF UpdateRead, table, history
  <2>4. ASSUME NEW r \in Requests, UpdateWrite(r) PROVE Goal
    BY <2>4, <2>q DEF UpdateWrite, table, history
  <2>5. ASSUME NEW r \in Requests, DeleteRead(r) PROVE Goal
    BY <2>5, <2>q DEF DeleteRead, table, history
  <2>6. ASSUME NEW r \in Requests, DeleteWrite(r) PROVE Goal
    <3>1. CASE status' = status
      BY <2>6, <3>1, <2>q DEF DeleteWrite, history
    <3>2. CASE Exists(Wf(r)) /\ status' = [status EXCEPT ![Wf(r)] = "deleted"]
      <4>1. Ph[Wf(r)] \in {"open", "review", "closed"} /\ Ph' = [Ph EXCEPT ![Wf(r)] = "gone"]
        <5>1. Ph' = [Ph EXCEPT ![Wf(r)] = PhaseOf("deleted")] /\ Ph[Wf(r)] = PhaseOf(status[Wf(r)])
          BY <3>2, <2>m, <2>w
        <5> QED BY <3>2, <5>1, <2>p DEF Exists, Stored, Editable, Verdicts
      <4>2. round' = round
        BY <2>6 DEF DeleteWrite, history
      <4>3. Lifecycle!Remove(Wf(r))
        BY <4>1, <4>2 DEF Lifecycle!Remove, Ph
      <4> QED BY <4>3, <2>w
    <3> QED BY <2>6, <3>1, <3>2 DEF DeleteWrite
  <2>7. ASSUME NEW r \in Requests, SubmitPeek(r) PROVE Goal
    BY <2>7, <2>q DEF SubmitPeek, table, history
  <2>8. ASSUME NEW r \in Requests, TransitionRead(r) PROVE Goal
    BY <2>8, <2>q DEF TransitionRead, table, history
  <2>9. ASSUME NEW r \in Requests, TransitionWrite(r) PROVE Goal
    <3>1. CASE ~Matched(r)
      BY <2>9, <3>1, <2>q DEF TransitionWrite, Matched, history
    <3>2. CASE Matched(r)
      <4>1. /\ status' = [status EXCEPT ![Wf(r)] = Target(Op(r))]
            /\ Ph' = [Ph EXCEPT ![Wf(r)] = PhaseOf(Target(Op(r)))]
            /\ Ph[Wf(r)] = PhaseOf(status[Wf(r)])
        BY <3>2, <2>m, <2>w, MatchedUpdate DEF IInv
      <4>2. CASE Op(r) \in Reviews
        <5>1. Ph[Wf(r)] = "review" /\ round' = round /\ Target(Op(r)) \in Verdicts
          BY <3>2, <4>1, <4>2, <2>p, MatchedUpdate, ReviewTarget DEF IInv
        <5>2. Lifecycle!Reopen(Wf(r)) \/ Lifecycle!Close(Wf(r))
          BY <4>1, <5>1, <2>p DEF Lifecycle!Reopen, Lifecycle!Close, Verdicts, Ph
        <5> QED BY <5>2, <2>w
      <4>3. CASE Op(r) \notin Reviews
        <5>1. /\ Ph[Wf(r)] = "open" /\ Target(Op(r)) = "pending"
              /\ round' = [round EXCEPT ![Wf(r)] = @ + 1]
          BY <3>2, <4>1, <4>3, <2>p, MatchedUpdate DEF IInv, Editable
        <5>2. Lifecycle!Review(Wf(r))
          BY <4>1, <5>1, <2>p DEF Lifecycle!Review, Ph
        <5> QED BY <5>2, <2>w
      <4> QED BY <4>2, <4>3
    <3> QED BY <3>1, <3>2
  <2>10. ASSUME NEW r \in Requests, InsertEvent(r) PROVE Goal
    BY <2>10, <2>q DEF InsertEvent, table, history
  <2>11. ASSUME NEW r \in Requests, Fail(r) PROVE Goal
    BY <2>11, <2>q DEF Fail, table, history
  <2>12. CASE UNCHANGED vars
    BY <2>12, <2>q DEF vars
  <2> QED BY <2>1, <2>2, <2>3, <2>4, <2>5, <2>6, <2>7, <2>8, <2>9, <2>10, <2>11, <2>12 DEF Next
<1> QED BY <1>1, <1>2, Invariance, PTL DEF Spec, FollowsLifecycle, Lifecycle!LifecycleSpec
=============================================================================
