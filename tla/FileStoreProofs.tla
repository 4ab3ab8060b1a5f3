---------------------------- MODULE FileStoreProofs ----------------------------
(***************************************************************************)
(* Proofs about FileStore, for any files and requests: its type invariant, *)
(* how rows and objects agree, and that it implements FileLifecycle.       *)
(***************************************************************************)
EXTENDS FileStore, TLAPS

\* An upload under way owns its key: no row, no deletion and no other upload knows
\* it, and the object is there between the two calls and not before them.
Owned ==
  \A r \in Requests :
    /\ pc[r] \in {"put", "insert"} =>
         /\ Op(r) = "upload" /\ File(r) \notin rows \cup fresh
         /\ \A d \in took : File(d) # File(r)
         /\ \A q \in Requests \ {r} : pc[q] \in {"put", "insert"} => File(q) # File(r)
    /\ pc[r] = "put" => File(r) \notin objects
    /\ pc[r] = "insert" => File(r) \in objects

\* Who has deleted a row is past it, the row is gone for good, and so is the object
\* once it answers that it deleted the file.
Taken ==
  /\ \A d \in took : /\ pc[d] \in {"remove", "done"} /\ Op(d) = "delete"
                     /\ File(d) \notin rows \cup fresh
  /\ \A r \in Requests : /\ pc[r] \in {"find", "drop"} => Op(r) # "upload"
                         /\ pc[r] = "drop" => Op(r) = "delete"
                         /\ pc[r] = "remove" => r \in took /\ File(r) \in objects
                         /\ resp[r] # "none" => pc[r] = "done"

\* A file that a request has found, or created, is there or has been taken.
Known ==
  \A r \in Requests : pc[r] \in {"get", "copy"} \/ resp[r] = "created" =>
    File(r) \in rows \/ \E d \in took : File(d) = File(r)

\* So is the object that a download reads, which is removed by whoever took the row.
IInv == /\ TypeOK /\ Owned /\ Taken /\ Known
        /\ RowHasObject /\ OrphanIsReported /\ DeletedOnce

USE FileAssumption

-----------------------------------------------------------------------------
\* The initial states satisfy the invariant.
LEMMA InitIInv == Init => IInv
<1> SUFFICES ASSUME Init PROVE IInv
  OBVIOUS
<1>1. (CHOOSE j \in Job : TRUE) \in Job
  <2>1. PICK f \in Files : TRUE
    OBVIOUS
  <2>2. [op |-> "upload", file |-> f] \in Job
    BY DEF Job, Ops
  <2> QED BY <2>2
<1>2. TypeOK
  BY <1>1 DEF Init, TypeOK, Steps, Answers
<1> QED BY <1>2 DEF Init, IInv, Owned, Taken, Known, RowHasObject, OrphanIsReported, DeletedOnce

\* A step keeps the types.
LEMMA TypeStep ==
  ASSUME TypeOK, Owned, [Next]_vars PROVE TypeOK'
<1> USE DEF TypeOK, Go, Reply, Steps, Answers
<1>1. ASSUME NEW r \in Requests, Upload(r) PROVE TypeOK'
  BY <1>1 DEF Upload, Job, Ops
<1>2. ASSUME NEW r \in Requests, Ask(r) PROVE TypeOK'
  BY <1>2 DEF Ask, Job, Ops
<1>3. ASSUME NEW r \in Requests, PutObject(r) PROVE TypeOK'
  <2>1. File(r) \in Files /\ File(r) \notin fresh
    BY <1>3 DEF PutObject, Owned, File, Job
  <2>2. pc' \in [Requests -> Steps] /\ resp' \in [Requests -> Answers]
    BY <1>3 DEF PutObject
  <2> QED BY <1>3, <2>1, <2>2 DEF PutObject
<1>4. ASSUME NEW r \in Requests, InsertRow(r) PROVE TypeOK'
  <2>1. File(r) \in Files /\ File(r) \notin fresh
    BY <1>4 DEF InsertRow, Owned, File, Job
  <2>2. pc' \in [Requests -> Steps] /\ resp' \in [Requests -> Answers]
    BY <1>4 DEF InsertRow
  <2> QED BY <1>4, <2>1, <2>2 DEF InsertRow
<1>5. ASSUME NEW r \in Requests, FindRow(r) PROVE TypeOK'
  BY <1>5 DEF FindRow
<1>6. ASSUME NEW r \in Requests, DropRow(r) PROVE TypeOK'
  BY <1>6 DEF DropRow
<1>7. ASSUME NEW r \in Requests, RemoveObject(r) PROVE TypeOK'
  BY <1>7 DEF RemoveObject
<1>8. ASSUME NEW r \in Requests, GetObject(r) PROVE TypeOK'
  BY <1>8 DEF GetObject
<1>9. ASSUME NEW r \in Requests, Copy(r) PROVE TypeOK'
  BY <1>9 DEF Copy
<1>10. ASSUME NEW r \in Requests, Fail(r) PROVE TypeOK'
  BY <1>10 DEF Fail
<1>11. CASE UNCHANGED vars
  BY <1>11 DEF vars
<1> QED BY <1>1, <1>2, <1>3, <1>4, <1>5, <1>6, <1>7, <1>8, <1>9, <1>10, <1>11 DEF Next

\* Keys are taken from fresh and never returned.
LEMMA OwnedStep ==
  ASSUME TypeOK, Owned, Taken, RowHasObject, [Next]_vars PROVE Owned'
<1> USE DEF TypeOK, Owned, Taken, RowHasObject, Go, Reply, File, Op, Job
<1>1. ASSUME NEW r \in Requests, Upload(r) PROVE Owned'
  BY <1>1 DEF Upload
<1>2. ASSUME NEW r \in Requests, Ask(r) PROVE Owned'
  BY <1>2 DEF Ask
<1>3. ASSUME NEW r \in Requests, PutObject(r) PROVE Owned'
  BY <1>3 DEF PutObject
<1>4. ASSUME NEW r \in Requests, InsertRow(r) PROVE Owned'
  BY <1>4 DEF InsertRow
<1>5. ASSUME NEW r \in Requests, FindRow(r) PROVE Owned'
  BY <1>5 DEF FindRow
<1>6. ASSUME NEW r \in Requests, DropRow(r) PROVE Owned'
  BY <1>6 DEF DropRow
<1>7. ASSUME NEW r \in Requests, RemoveObject(r) PROVE Owned'
  BY <1>7 DEF RemoveObject
<1>8. ASSUME NEW r \in Requests, GetObject(r) PROVE Owned'
  BY <1>8 DEF GetObject
<1>9. ASSUME NEW r \in Requests, Copy(r) PROVE Owned'
  BY <1>9 DEF Copy
<1>10. ASSUME NEW r \in Requests, Fail(r) PROVE Owned'
  BY <1>10 DEF Fail
<1>11. CASE UNCHANGED vars
  BY <1>11 DEF vars
<1> QED BY <1>1, <1>2, <1>3, <1>4, <1>5, <1>6, <1>7, <1>8, <1>9, <1>10, <1>11 DEF Next

\* A deleted row never comes back.
LEMMA TakenStep ==
  ASSUME TypeOK, Owned, Taken, RowHasObject, DeletedOnce, [Next]_vars PROVE Taken'
<1> USE DEF TypeOK, Owned, Taken, RowHasObject, DeletedOnce, Go, Reply, File, Op, Job
<1>1. ASSUME NEW r \in Requests, Upload(r) PROVE Taken'
  BY <1>1 DEF Upload
<1>2. ASSUME NEW r \in Requests, Ask(r) PROVE Taken'
  BY <1>2 DEF Ask
<1>3. ASSUME NEW r \in Requests, PutObject(r) PROVE Taken'
  BY <1>3 DEF PutObject
<1>4. ASSUME NEW r \in Requests, InsertRow(r) PROVE Taken'
  BY <1>4 DEF InsertRow
<1>5. ASSUME NEW r \in Requests, FindRow(r) PROVE Taken'
  BY <1>5 DEF FindRow
<1>6. ASSUME NEW r \in Requests, DropRow(r) PROVE Taken'
  BY <1>6 DEF DropRow
<1>7. ASSUME NEW r \in Requests, RemoveObject(r) PROVE Taken'
  BY <1>7 DEF RemoveObject
<1>8. ASSUME NEW r \in Requests, GetObject(r) PROVE Taken'
  BY <1>8 DEF GetObject
<1>9. ASSUME NEW r \in Requests, Copy(r) PROVE Taken'
  BY <1>9 DEF Copy
<1>10. ASSUME NEW r \in Requests, Fail(r) PROVE Taken'
  BY <1>10 DEF Fail
<1>11. CASE UNCHANGED vars
  BY <1>11 DEF vars
<1> QED BY <1>1, <1>2, <1>3, <1>4, <1>5, <1>6, <1>7, <1>8, <1>9, <1>10, <1>11 DEF Next

\* A row disappears only when somebody takes it.
LEMMA KnownStep ==
  ASSUME TypeOK, Taken, Known, [Next]_vars PROVE Known'
<1> USE DEF TypeOK, Taken, Known, Go, Reply, File, Op, Job
<1>1. ASSUME NEW r \in Requests, Upload(r) PROVE Known'
  BY <1>1 DEF Upload
<1>2. ASSUME NEW r \in Requests, Ask(r) PROVE Known'
  BY <1>2 DEF Ask
<1>3. ASSUME NEW r \in Requests, PutObject(r) PROVE Known'
  BY <1>3 DEF PutObject
<1>4. ASSUME NEW r \in Requests, InsertRow(r) PROVE Known'
  BY <1>4 DEF InsertRow
<1>5. ASSUME NEW r \in Requests, FindRow(r) PROVE Known'
  BY <1>5 DEF FindRow
<1>6. ASSUME NEW r \in Requests, DropRow(r) PROVE Known'
  BY <1>6 DEF DropRow
<1>7. ASSUME NEW r \in Requests, RemoveObject(r) PROVE Known'
  BY <1>7 DEF RemoveObject
<1>8. ASSUME NEW r \in Requests, GetObject(r) PROVE Known'
  BY <1>8 DEF GetObject
<1>9. ASSUME NEW r \in Requests, Copy(r) PROVE Known'
  BY <1>9 DEF Copy
<1>10. ASSUME NEW r \in Requests, Fail(r) PROVE Known'
  BY <1>10 DEF Fail
<1>11. CASE UNCHANGED vars
  BY <1>11 DEF vars
<1> QED BY <1>1, <1>2, <1>3, <1>4, <1>5, <1>6, <1>7, <1>8, <1>9, <1>10, <1>11 DEF Next

\* The row comes after the object and goes before it.
LEMMA RowStep ==
  ASSUME TypeOK, Owned, Taken, RowHasObject, [Next]_vars PROVE RowHasObject'
<1> USE DEF TypeOK, Owned, Taken, RowHasObject, Go, Reply, File, Op
<1>1. ASSUME NEW r \in Requests, Upload(r) PROVE RowHasObject'
  BY <1>1 DEF Upload
<1>2. ASSUME NEW r \in Requests, Ask(r) PROVE RowHasObject'
  BY <1>2 DEF Ask
<1>3. ASSUME NEW r \in Requests, PutObject(r) PROVE RowHasObject'
  BY <1>3 DEF PutObject
<1>4. ASSUME NEW r \in Requests, InsertRow(r) PROVE RowHasObject'
  BY <1>4 DEF InsertRow
<1>5. ASSUME NEW r \in Requests, FindRow(r) PROVE RowHasObject'
  BY <1>5 DEF FindRow
<1>6. ASSUME NEW r \in Requests, DropRow(r) PROVE RowHasObject'
  BY <1>6 DEF DropRow
<1>7. ASSUME NEW r \in Requests, RemoveObject(r) PROVE RowHasObject'
  BY <1>7 DEF RemoveObject
<1>8. ASSUME NEW r \in Requests, GetObject(r) PROVE RowHasObject'
  BY <1>8 DEF GetObject
<1>9. ASSUME NEW r \in Requests, Copy(r) PROVE RowHasObject'
  BY <1>9 DEF Copy
<1>10. ASSUME NEW r \in Requests, Fail(r) PROVE RowHasObject'
  BY <1>10 DEF Fail
<1>11. CASE UNCHANGED vars
  BY <1>11 DEF vars
<1> QED BY <1>1, <1>2, <1>3, <1>4, <1>5, <1>6, <1>7, <1>8, <1>9, <1>10, <1>11 DEF Next

\* Whoever leaves an orphan behind is still to act on it or answers 500.
LEMMA OrphanStep ==
  ASSUME TypeOK, Owned, Taken, OrphanIsReported, RowHasObject, [Next]_vars PROVE OrphanIsReported'
<1> USE DEF TypeOK, Owned, Taken, RowHasObject, OrphanIsReported, Go, Reply, File, Op, Job
<1>1. ASSUME NEW r \in Requests, Upload(r) PROVE OrphanIsReported'
  BY <1>1 DEF Upload
<1>2. ASSUME NEW r \in Requests, Ask(r) PROVE OrphanIsReported'
  BY <1>2 DEF Ask
<1>3. ASSUME NEW r \in Requests, PutObject(r) PROVE OrphanIsReported'
  BY <1>3 DEF PutObject
<1>4. ASSUME NEW r \in Requests, InsertRow(r) PROVE OrphanIsReported'
  BY <1>4 DEF InsertRow
<1>5. ASSUME NEW r \in Requests, FindRow(r) PROVE OrphanIsReported'
  BY <1>5 DEF FindRow
<1>6. ASSUME NEW r \in Requests, DropRow(r) PROVE OrphanIsReported'
  BY <1>6 DEF DropRow
<1>7. ASSUME NEW r \in Requests, RemoveObject(r) PROVE OrphanIsReported'
  BY <1>7 DEF RemoveObject
<1>8. ASSUME NEW r \in Requests, GetObject(r) PROVE OrphanIsReported'
  BY <1>8 DEF GetObject
<1>9. ASSUME NEW r \in Requests, Copy(r) PROVE OrphanIsReported'
  BY <1>9 DEF Copy
<1>10. ASSUME NEW r \in Requests, Fail(r) PROVE OrphanIsReported'
  BY <1>10 DEF Fail
<1>11. CASE UNCHANGED vars
  BY <1>11 DEF vars
<1> QED BY <1>1, <1>2, <1>3, <1>4, <1>5, <1>6, <1>7, <1>8, <1>9, <1>10, <1>11 DEF Next

\* The row is taken once, and its object is removed before the answer.
LEMMA DeletedStep ==
  ASSUME TypeOK, Owned, Taken, DeletedOnce, [Next]_vars PROVE DeletedOnce'
<1> USE DEF TypeOK, Owned, Taken, DeletedOnce, Go, Reply, File, Op, Job
<1>1. ASSUME NEW r \in Requests, Upload(r) PROVE DeletedOnce'
  BY <1>1 DEF Upload
<1>2. ASSUME NEW r \in Requests, Ask(r) PROVE DeletedOnce'
  BY <1>2 DEF Ask
<1>3. ASSUME NEW r \in Requests, PutObject(r) PROVE DeletedOnce'
  BY <1>3 DEF PutObject
<1>4. ASSUME NEW r \in Requests, InsertRow(r) PROVE DeletedOnce'
  BY <1>4 DEF InsertRow
<1>5. ASSUME NEW r \in Requests, FindRow(r) PROVE DeletedOnce'
  BY <1>5 DEF FindRow
<1>6. ASSUME NEW r \in Requests, DropRow(r) PROVE DeletedOnce'
  BY <1>6 DEF DropRow
<1>7. ASSUME NEW r \in Requests, RemoveObject(r) PROVE DeletedOnce'
  BY <1>7 DEF RemoveObject
<1>8. ASSUME NEW r \in Requests, GetObject(r) PROVE DeletedOnce'
  BY <1>8 DEF GetObject
<1>9. ASSUME NEW r \in Requests, Copy(r) PROVE DeletedOnce'
  BY <1>9 DEF Copy
<1>10. ASSUME NEW r \in Requests, Fail(r) PROVE DeletedOnce'
  BY <1>10 DEF Fail
<1>11. CASE UNCHANGED vars
  BY <1>11 DEF vars
<1> QED BY <1>1, <1>2, <1>3, <1>4, <1>5, <1>6, <1>7, <1>8, <1>9, <1>10, <1>11 DEF Next

-----------------------------------------------------------------------------
\* IInv holds of every behaviour.
LEMMA Invariance == Spec => []IInv
<1>1. IInv /\ [Next]_vars => IInv'
  BY TypeStep, OwnedStep, TakenStep, KnownStep, RowStep, OrphanStep, DeletedStep DEF IInv
<1> QED BY InitIInv, <1>1, PTL DEF Spec

\* The variables hold what the stores and the handlers can hold.
THEOREM TypeCorrect == Spec => []TypeOK
<1>1. IInv => TypeOK
  BY DEF IInv
<1> QED BY <1>1, Invariance, PTL

\* Rows and objects agree as far as two stores without a transaction can: no row is
\* without its object, no orphan without a failure that was reported, no file is
\* deleted twice, none is lost but by a deletion, and none is withheld from a
\* download otherwise.
THEOREM FilesAreSound ==
  Spec => [](RowHasObject /\ OrphanIsReported /\ UploadsLast /\ DeletedOnce /\ DownloadIsWhole)
<1>1. IInv => UploadsLast /\ DownloadIsWhole
  BY DEF IInv, Known, Taken, TypeOK, RowHasObject, UploadsLast, DownloadIsWhole
<1>2. IInv => RowHasObject /\ OrphanIsReported /\ DeletedOnce
  BY DEF IInv
<1> QED BY <1>1, <1>2, Invariance, PTL

-----------------------------------------------------------------------------
(* The implementation of FileLifecycle *)

Phase == [f \in Files |-> PhaseOf(f)]
Taker == {<<d, File(d)>> : d \in took}
Said  == {<<r, File(r), resp[r]>> : r \in Answered}

\* While no request answers, what was said stays: only requests that have no answer get
\* a job.
LEMMA Silent ==
  ASSUME TypeOK, resp' = resp, \A q \in Answered : job'[q] = job[q]
  PROVE  Said' = Said
BY DEF Said, Answered, File

\* The answer of a request that has none is an answer of the abstract service.
LEMMA Saying ==
  ASSUME TypeOK, NEW r \in Requests, NEW a \in Answers \ {"none"}, resp[r] = "none",
         resp' = [resp EXCEPT ![r] = a], \A q \in Answered : job'[q] = job[q]
  PROVE  Lifecycle!Say(r, File(r)', a)
<1>1. Answered' = Answered \cup {r} /\ r \notin Answered
  BY DEF Answered, TypeOK
<1>2. \A q \in Answered : resp'[q] = resp[q] /\ File(q)' = File(q)
  BY <1>1 DEF Answered, TypeOK, File
<1>3. resp'[r] = a
  BY DEF TypeOK
<1>4. Said' = Said \cup {<<r, File(r)', a>>}
  BY <1>1, <1>2, <1>3 DEF Said
<1>5. \A s \in Said : s[1] # r
  BY <1>1 DEF Said
<1> QED BY <1>4, <1>5 DEF Lifecycle!Say, Said

\* While rows, objects and deletions stay, so do the phases.
LEMMA PhasesKept ==
  ASSUME TypeOK, Taken, rows' = rows, objects' = objects, took' = took,
         \A d \in took : job'[d] = job[d]
  PROVE  Phase' = Phase /\ Taker' = Taker
<1>1. \A d \in took : File(d)' = File(d)
  BY DEF File
<1>2. \A f \in Files : PhaseOf(f)' = PhaseOf(f)
  BY <1>1 DEF PhaseOf
<1> QED BY <1>1, <1>2 DEF Phase, Taker

\* While rows or objects change for the file of one request only, the others keep their
\* phases.
LEMMA PhaseMoves ==
  ASSUME TypeOK, NEW r \in Requests, job' = job,
         \A g \in Files \ {File(r)} : /\ g \in rows' <=> g \in rows
                                      /\ g \in objects' <=> g \in objects,
         \A d \in took' : d \in took \/ File(d) = File(r), took \subseteq took'
  PROVE  /\ Phase' = [Phase EXCEPT ![File(r)] = PhaseOf(File(r))']
         /\ Phase[File(r)] = PhaseOf(File(r))
<1>1. \A g \in Files \ {File(r)} : PhaseOf(g)' = PhaseOf(g)
  BY DEF PhaseOf, File
<1>2. File(r) \in Files /\ File(r)' = File(r)
  BY DEF File, TypeOK, Job
<1>3. PhaseOf(File(r))' = Phase'[File(r)]
  BY <1>2 DEF Phase, PhaseOf, File
<1> QED BY <1>1, <1>2, <1>3 DEF Phase

\* Together the two stores and their handlers implement FileLifecycle: each call that
\* changes a store moves one file one phase on, and each answer is true when it is given.
THEOREM Refinement == Spec => ActsAsOneStore
<1>1. Init => Lifecycle!FileInit
  BY DEF Init, Lifecycle!FileInit, PhaseOf, Answered
<1>2. IInv /\ [Next]_vars => [Lifecycle!FileNext]_(Lifecycle!fileVars)
  <2> SUFFICES ASSUME IInv, [Next]_vars
               PROVE  [Lifecycle!FileNext]_(Lifecycle!fileVars)
    OBVIOUS
  <2> USE DEF IInv
  <2> DEFINE Still == Phase' = Phase /\ Taker' = Taker
             Goal  == \/ Still /\ Said' = Said
                      \/ \E r \in Requests, f \in Files :
                           \/ Lifecycle!Stage(r, f) \/ Lifecycle!Publish(r, f)
                           \/ Lifecycle!Withdraw(r, f) \/ Lifecycle!Purge(r, f)
                           \/ Lifecycle!Refuse(r, f) \/ Lifecycle!Deliver(r, f)
  <2>g. SUFFICES Goal
    BY DEF Lifecycle!FileNext, Lifecycle!fileVars, Phase, Taker, Said
  <2>f. \A r \in Requests : File(r) \in Files
    BY DEF TypeOK, File, Job
  <2>a. \A r \in Requests : pc[r] # "done" => resp[r] = "none"
    BY DEF Taken
  <2>u. ASSUME job' = job PROVE \A q \in Answered \cup took : job'[q] = job[q]
    BY <2>u
  \* A refusal that changes nothing but the answer.
  <2>r. ASSUME NEW r \in Requests, NEW f \in Files, Still, File(r)' = f,
               \/ Lifecycle!Say(r, f, "bad_request") \/ Lifecycle!Say(r, f, "internal")
               \/ Lifecycle!Say(r, f, "cut")
               \/ Lifecycle!Say(r, f, "not_found") /\ f \notin rows
        PROVE  Goal
    <3>1. f \notin rows => Phase[f] # "published"
      BY DEF Phase, PhaseOf
    <3>2. Lifecycle!Refuse(r, f)
      BY <2>r, <3>1 DEF Lifecycle!Refuse, Phase, Taker
    <3> QED BY <3>2
  <2>1. ASSUME NEW r \in Requests, Upload(r) PROVE Goal
    <3>1. PICK f \in fresh :
             /\ job' = [job EXCEPT ![r] = [op |-> "upload", file |-> f]]
             /\ \/ Reply(r, "bad_request") \/ Go(r, "put")
      BY <2>1 DEF Upload
    <3>2. pc[r] = "idle" /\ rows' = rows /\ objects' = objects /\ took' = took
      BY <2>1 DEF Upload
    <3>3. \A q \in Answered \cup took : job'[q] = job[q]
      BY <3>1, <3>2 DEF Taken, Answered, TypeOK
    <3>4. Still
      BY <3>2, <3>3, PhasesKept
    <3>5. f \in Files /\ File(r)' = f
      BY <3>1 DEF TypeOK, File
    <3>6. CASE Reply(r, "bad_request")
      <4>1. Lifecycle!Say(r, f, "bad_request")
        BY <3>2, <3>3, <3>5, <3>6, <2>a, Saying DEF Reply, Answers
      <4> QED BY <4>1, <3>4, <3>5, <2>r
    <3>7. CASE Go(r, "put")
      BY <3>3, <3>4, <3>7, Silent DEF Go
    <3> QED BY <3>1, <3>6, <3>7
  <2>2. ASSUME NEW r \in Requests, Ask(r) PROVE Goal
    <3>1. pc[r] = "idle" /\ rows' = rows /\ objects' = objects /\ took' = took /\ resp' = resp
      BY <2>2 DEF Ask, Go
    <3>2. \A q \in Answered \cup took : job'[q] = job[q]
      BY <2>2, <3>1 DEF Ask, Taken, Answered, TypeOK
    <3> QED BY <3>1, <3>2, PhasesKept, Silent
  <2>3. ASSUME NEW r \in Requests, PutObject(r) PROVE Goal
    <3>1. Phase[File(r)] = "none" /\ Phase' = [Phase EXCEPT ![File(r)] = "staged"]
      <4>1. PhaseOf(File(r)) = "none"
        BY <2>3 DEF PutObject, PhaseOf, Owned
      <4>2. PhaseOf(File(r))' = "staged"
        BY <2>3 DEF PutObject, PhaseOf, Owned, File
      <4>3. /\ Phase' = [Phase EXCEPT ![File(r)] = PhaseOf(File(r))']
            /\ Phase[File(r)] = PhaseOf(File(r))
        BY <2>3, PhaseMoves DEF PutObject
      <4> QED BY <4>1, <4>2, <4>3
    <3>2. Said' = Said \/ Lifecycle!Say(r, File(r), "internal")
      BY <2>3, <2>a, <2>u, Silent, Saying DEF PutObject, Go, Reply, Answers, File
    <3>3. Taker' = Taker
      BY <2>3 DEF PutObject, Taker, File
    <3>4. Lifecycle!Stage(r, File(r))
      BY <3>1, <3>2, <3>3 DEF Lifecycle!Stage, Lifecycle!Move, Phase, Said, Taker
    <3> QED BY <3>4, <2>f
  <2>4. ASSUME NEW r \in Requests, InsertRow(r) PROVE Goal
    <3>1. Phase[File(r)] = "staged" /\ Phase' = [Phase EXCEPT ![File(r)] = "published"]
      <4>1. PhaseOf(File(r)) = "staged"
        BY <2>4 DEF InsertRow, PhaseOf, Owned
      <4>2. PhaseOf(File(r))' = "published"
        BY <2>4 DEF InsertRow, PhaseOf, File
      <4>3. /\ Phase' = [Phase EXCEPT ![File(r)] = PhaseOf(File(r))']
            /\ Phase[File(r)] = PhaseOf(File(r))
        BY <2>4, PhaseMoves DEF InsertRow
      <4> QED BY <4>1, <4>2, <4>3
    <3>2. Lifecycle!Say(r, File(r), "created") \/ Lifecycle!Say(r, File(r), "internal")
      BY <2>4, <2>a, <2>u, Saying DEF InsertRow, Reply, Answers, File
    <3>3. Taker' = Taker
      BY <2>4 DEF InsertRow, Taker, File
    <3>4. Lifecycle!Publish(r, File(r))
      BY <3>1, <3>2, <3>3 DEF Lifecycle!Publish, Lifecycle!Move, Phase, Taker
    <3> QED BY <3>4, <2>f
  <2>5. ASSUME NEW r \in Requests, FindRow(r) PROVE Goal
    <3>1. Still
      BY <2>5, <2>u, PhasesKept DEF FindRow
    <3>2. CASE File(r) \in rows
      BY <2>5, <2>u, <3>1, <3>2, Silent DEF FindRow, Go
    <3>3. CASE File(r) \notin rows
      <4>1. Lifecycle!Say(r, File(r), "not_found") /\ File(r)' = File(r)
        BY <2>5, <2>a, <2>u, <3>3, Saying DEF FindRow, Reply, Answers, File
      <4> QED BY <4>1, <3>1, <3>3, <2>r, <2>f
    <3> QED BY <3>2, <3>3
  <2>6. ASSUME NEW r \in Requests, DropRow(r) PROVE Goal
    <3>1. CASE File(r) \notin rows
      <4>1. Still
        BY <2>6, <2>u, <3>1, PhasesKept DEF DropRow
      <4>2. Lifecycle!Say(r, File(r), "not_found") /\ File(r)' = File(r)
        BY <2>6, <2>a, <2>u, <3>1, Saying DEF DropRow, Reply, Answers, File
      <4> QED BY <4>1, <4>2, <3>1, <2>r, <2>f
    <3>2. CASE File(r) \in rows
      <4>1. /\ rows' = rows \ {File(r)} /\ took' = took \cup {r} /\ objects' = objects
            /\ job' = job /\ (Go(r, "remove") \/ Reply(r, "internal"))
        BY <2>6, <3>2 DEF DropRow
      <4>2. Phase[File(r)] = "published" /\ Phase' = [Phase EXCEPT ![File(r)] = "withdrawn"]
        <5>1. PhaseOf(File(r)) = "published"
          BY <3>2 DEF PhaseOf
        <5>2. PhaseOf(File(r))' = "withdrawn"
          BY <3>2, <4>1 DEF PhaseOf, File, RowHasObject
        <5>3. /\ Phase' = [Phase EXCEPT ![File(r)] = PhaseOf(File(r))']
              /\ Phase[File(r)] = PhaseOf(File(r))
          BY <4>1, PhaseMoves
        <5> QED BY <5>1, <5>2, <5>3
      <4>3. Said' = Said \/ Lifecycle!Say(r, File(r), "internal")
        BY <2>6, <4>1, <2>a, <2>u, Silent, Saying DEF DropRow, Go, Reply, Answers, File
      <4>4. Taker' = Taker \cup {<<r, File(r)>>}
        BY <4>1 DEF Taker, File
      <4>5. PICK f \in Files : f = File(r)
        BY <2>f
      <4>6. Lifecycle!Withdraw(r, f)
        BY <4>2, <4>3, <4>4, <4>5 DEF Lifecycle!Withdraw, Lifecycle!Move, Phase, Said, Taker
      <4> QED BY <4>6
    <3> QED BY <3>1, <3>2
  <2>7. ASSUME NEW r \in Requests, RemoveObject(r) PROVE Goal
    <3>1. /\ r \in took /\ File(r) \in objects /\ File(r) \notin rows
          /\ objects' = objects \ {File(r)} /\ rows' = rows /\ took' = took /\ job' = job
      BY <2>7 DEF RemoveObject, Taken
    <3>2. Phase[File(r)] = "withdrawn" /\ Phase' = [Phase EXCEPT ![File(r)] = "purged"]
      <4>1. PhaseOf(File(r)) = "withdrawn"
        BY <3>1 DEF PhaseOf
      <4>2. PhaseOf(File(r))' = "purged"
        BY <3>1 DEF PhaseOf, File
      <4>3. /\ Phase' = [Phase EXCEPT ![File(r)] = PhaseOf(File(r))']
            /\ Phase[File(r)] = PhaseOf(File(r))
        BY <3>1, PhaseMoves
      <4> QED BY <4>1, <4>2, <4>3
    <3>3. Lifecycle!Say(r, File(r), "deleted") \/ Lifecycle!Say(r, File(r), "internal")
      BY <2>7, <2>a, <2>u, <3>1, Saying DEF RemoveObject, Reply, Answers, File
    <3>4. Taker' = Taker /\ <<r, File(r)>> \in Taker
      BY <3>1 DEF Taker, File
    <3>5. Lifecycle!Purge(r, File(r))
      BY <3>2, <3>3, <3>4 DEF Lifecycle!Purge, Lifecycle!Move, Phase, Taker
    <3> QED BY <3>5, <2>f
  <2>8. ASSUME NEW r \in Requests, GetObject(r) PROVE Goal
    <3>1. Still
      BY <2>8, <2>u, PhasesKept DEF GetObject
    <3>2. CASE File(r) \in objects
      BY <2>8, <2>u, <3>1, <3>2, Silent DEF GetObject, Go
    <3>3. CASE File(r) \notin objects
      <4>1. Lifecycle!Say(r, File(r), "internal") /\ File(r)' = File(r)
        BY <2>8, <2>a, <2>u, <3>3, Saying DEF GetObject, Reply, Answers, File
      <4> QED BY <4>1, <3>1, <2>r, <2>f
    <3> QED BY <3>2, <3>3
  <2>9. ASSUME NEW r \in Requests, Copy(r) PROVE Goal
    <3>1. Still
      BY <2>9, <2>u, PhasesKept DEF Copy
    <3>2. CASE File(r) \in objects
      <4>1. Phase[File(r)] \in {"published", "withdrawn"}
        BY <2>9, <2>f, <3>2 DEF Copy, Known, Phase, PhaseOf
      <4>2. Lifecycle!Say(r, File(r), "content")
        BY <2>9, <2>a, <2>u, <3>2, Saying DEF Copy, Reply, Answers, File
      <4>3. Lifecycle!Deliver(r, File(r))
        BY <3>1, <4>1, <4>2 DEF Lifecycle!Deliver, Phase, Taker
      <4> QED BY <4>3, <2>f
    <3>3. CASE File(r) \notin objects
      <4>1. Lifecycle!Say(r, File(r), "cut") /\ File(r)' = File(r)
        BY <2>9, <2>a, <2>u, <3>3, Saying DEF Copy, Reply, Answers, File
      <4> QED BY <4>1, <3>1, <2>r, <2>f
    <3> QED BY <3>2, <3>3
  <2>10. ASSUME NEW r \in Requests, Fail(r) PROVE Goal
    <3>1. Still
      BY <2>10, <2>u, PhasesKept DEF Fail
    <3>2. Lifecycle!Say(r, File(r), "cut") \/ Lifecycle!Say(r, File(r), "internal")
      BY <2>10, <2>a, <2>u, Saying DEF Fail, Reply, Answers, File
    <3>3. File(r)' = File(r)
      BY <2>10 DEF Fail, File
    <3> QED BY <3>1, <3>2, <3>3, <2>r, <2>f
  <2>11. CASE UNCHANGED vars
    BY <2>11, <2>u, PhasesKept, Silent DEF vars
  <2> QED BY <2>1, <2>2, <2>3, <2>4, <2>5, <2>6, <2>7, <2>8, <2>9, <2>10, <2>11 DEF Next
<1> QED BY <1>1, <1>2, Invariance, PTL DEF Spec, ActsAsOneStore, Lifecycle!LifecycleSpec
=============================================================================
